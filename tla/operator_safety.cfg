CONSTANTS
  s1 = s1
  c1 = c1
  c2 = c2
  Spaces = {s1}
  Ctls = {c1, c2}
  NoCtl = NoCtl
  MaxUid = 2
  MaxNs = 3
SPECIFICATION Spec
SYMMETRY Symmetry
INVARIANTS TypeOK OneServes OrphansAreDoomed NoSpuriousStop
PROPERTY ImplementsSupervisor
