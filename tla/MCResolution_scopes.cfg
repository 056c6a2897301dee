SPECIFICATION ResolutionSpec
CONSTANTS
  a = a
  b = b
  full = full
  x = x
  Package <- MCPackage
  Profile = {full}
  Arch = {x}
  Requests <- TwoScopes
CHECK_DEADLOCK FALSE
INVARIANT LifecycleGoalBoundToAction
