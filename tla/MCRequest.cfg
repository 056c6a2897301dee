SPECIFICATION RequestSpec
CONSTANTS
  Contexts <- MCContexts
  Scopes <- MCScopes
  Subjects <- MCSubjects
  Origins <- MCOrigins
  ScopeRank <- MCScopeRank
  SubjectRank <- MCSubjectRank
  MaxGoals = 3
  MaxSeals = 2
CHECK_DEADLOCK FALSE
INVARIANTS RequestTypeOK SealDecides SealKeepsGoals IdentityIsMeaning
