CONSTANTS
  s1 = s1
  c1 = c1
  Spaces = {s1}
  Ctls = {c1}
  NoCtl = NoCtl
  MaxUid = 1
  MaxNs = 2
SPECIFICATION FairSpec
PROPERTY ControllerHasFuture
