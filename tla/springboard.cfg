CONSTANTS
  Clients <- TwoClients
SPECIFICATION FairSpec
INVARIANTS SignalledOnRequest ChildNotLeft
PROPERTIES ChildExitEndsIt ConnectionEndsIt
CHECK_DEADLOCK FALSE
