CONSTANTS
  a1 = a1
  c1 = c1
  c2 = c2
  Apps = {a1}
  Controllers = {c1, c2}
  Specs <- PairSpecs
  MaxUid = 1
  MaxRv = 0
  MaxCrashes = 0
SPECIFICATION Spec
PROPERTY OrphansOnly
CHECK_DEADLOCK FALSE
