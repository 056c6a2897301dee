SPECIFICATION Spec
CONSTANTS
  a = a
  b = b
  full = full
  hollow = hollow
  absent = absent
  x = x
  y = y
  Package <- MCPackage
  Profile <- MCProfile
  Arch <- MCArch
  Requests <- AuthorityRequests
CHECK_DEADLOCK FALSE
INVARIANTS AuthorityByPolicy ConstructionFromCatalog EnvironmentSeparation FailureJustified
