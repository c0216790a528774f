CONSTANTS
  a = a
  b = b
  Objects = {a, b}
  Names = {a, b}
  NameOf <- UniqueNames
  MaxRev = 5
  MaxFaults = 1
SPECIFICATION FairSpec
INVARIANTS TypeOK ViewIsSnapshot ResumesWhereItStopped NeverUnsafe
PROPERTIES ImplementsCache Converges StopEndsRun
CHECK_DEADLOCK FALSE
