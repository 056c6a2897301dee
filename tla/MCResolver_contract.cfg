SPECIFICATION Spec
CONSTANTS
  a = a
  b = b
  full = full
  hollow = hollow
  absent = absent
  x = x
  y = y
  Package <- MCPackage
  Profile <- MCProfile
  Arch <- MCArch
  Requests <- ContractRequests
CHECK_DEADLOCK FALSE
PROPERTIES ImplementsContract
