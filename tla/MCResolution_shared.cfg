SPECIFICATION ResolutionSpec
CONSTANTS
  a = a
  b = b
  full = full
  x = x
  Package <- MCPackage
  Profile = {full}
  Arch = {x}
  Requests <- SharedRequests
CHECK_DEADLOCK FALSE
INVARIANTS ResultClosed EveryPartOwned GoalComplete
PROPERTIES ResolutionEnds
