CONSTANTS
  SpaceSpecs <- SomeSpaces
  AppSpecs <- SomeApps
SPECIFICATION Spec
INVARIANTS SidecarsDistinct TargetsAgree BackendsServed FailsForCause DeleteFindsAll GeneratesWanted
CHECK_DEADLOCK FALSE
