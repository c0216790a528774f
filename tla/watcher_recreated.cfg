CONSTANTS
  a = a
  b = b
  Objects = {a, b}
  Names = {a, b}
  NameOf <- UniqueNames
  MaxRev = 5
  MaxFaults = 0
SPECIFICATION Spec
INVARIANT RecoversExisting
CHECK_DEADLOCK FALSE
