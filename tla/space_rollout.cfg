CONSTANTS
  o1 = o1
  o2 = o2
  Ops = {o1, o2}
  Specs <- SomeSpecs
  MaxUid = 1
  MaxRv = 5
SPECIFICATION Spec
SYMMETRY Symmetry
INVARIANTS TypeOK OneSetup ActiveIsComplete CertsAreKept
PROPERTIES CreateOnce ImplementsLifecycle
CHECK_DEADLOCK FALSE
