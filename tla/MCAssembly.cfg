SPECIFICATION AssemblySpec
CONSTANTS
  a = a
  b = b
  full = full
  half = half
  x = x
  Package <- MCPackage
  Profile = {full, half}
  Arch = {x}
  Requests <- MCRequests
  SelectionDigest <- MCSelectionDigest
  EdgeDigest <- MCEdgeDigest
  ScopeOrder <- MCScopeOrder
  ProfileOrder <- MCProfileOrder
CHECK_DEADLOCK FALSE
INVARIANTS EdgesRecordedOnce ResultCanonical QueriesAgree
