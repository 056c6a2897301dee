SPECIFICATION PreimagesSpec
CONSTANTS
  Values <- MCValues
CHECK_DEADLOCK FALSE
INVARIANTS IdentitiesSeparate
