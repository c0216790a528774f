CONSTANTS
  SpaceSpecs <- SomeSpaces
  AppSpecs <- SomeApps
SPECIFICATION Spec
INVARIANT SidecarsInPod
CHECK_DEADLOCK FALSE
