SPECIFICATION CallsSpec
CONSTANTS
  a = a
  b = b
  full = full
  x = x
  Package <- MCPackage
  Profile = {full}
  Arch = {x}
  Requests <- MCRequests
  SelectionDigest <- MCSelectionDigest
  EdgeDigest <- MCEdgeDigest
  ScopeOrder <- MCScopeOrder
  ProfileOrder <- MCProfileOrder
  MaxCalls = 1
CHECK_DEADLOCK FALSE
INVARIANTS AnswersRepeat GoalsOnlyAdd
