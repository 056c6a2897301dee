SPECIFICATION Spec
CONSTANTS
  a = a
  b = b
  full = full
  hollow = hollow
  absent = absent
  x = x
  y = y
  Package <- MCPackage
  Profile <- MCProfile
  Arch <- MCArch
  Requests <- GraphRequests
CHECK_DEADLOCK FALSE
INVARIANTS TypeOK LeastClosure ResultExact NoReentry RootScopedEdges Explained
PROPERTIES Termination
