CONSTANTS
  a1 = a1
  c1 = c1
  Apps = {a1}
  Controllers = {c1}
  Specs <- LiveSpecs
  MaxUid = 2
  MaxRv = 4
  MaxCrashes = 1
SPECIFICATION FairSpec
INVARIANTS TypeOK ActiveIsDeployed
PROPERTIES CreateOnce ImplementsLifecycle OrphansGo
CHECK_DEADLOCK FALSE
