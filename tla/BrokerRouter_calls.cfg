\* Three calls of any kind on one broker, orders with a shared key or without one;
\* two attempts each, a breaker that opens at two failures, a log of two entries.
SPECIFICATION Spec
CONSTANTS
  r1 = r1  r2 = r2  r3 = r3  k1 = k1  b1 = b1
  NoKey = NoKey  NoBroker = NoBroker
  Request <- MCRequest
  Key <- MCKey
  Broker <- MCBroker
  Kinds <- MCKinds
  Attempts = 2
  Threshold = 2
  AuditLimit = 2
SYMMETRY Symmetry
CHECK_DEADLOCK FALSE
INVARIANTS DuplicateExplained SuccessMeansExecuted CacheTellsTheTruth
