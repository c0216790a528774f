CONSTANTS
  s1 = s1
  c1 = c1
  Spaces = {s1}
  Ctls = {c1}
  NoCtl = NoCtl
  MaxUid = 2
  MaxNs = 3
SPECIFICATION FairSpec
PROPERTIES ControllerStops RunEnds
