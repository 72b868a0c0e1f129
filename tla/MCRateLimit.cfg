SPECIFICATION RateSpec
CONSTANTS
  Workers = {w1, w2, w3}
  Limit = 1
  TTL = 1
  MaxTime = 3
  MaxRequests = 4
SYMMETRY Symmetry
INVARIANTS
  RateTypeOK
  BurstWithinLimit
PROPERTIES
  NoFalseBlock
CHECK_DEADLOCK FALSE
