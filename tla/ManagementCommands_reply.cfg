\* Two positions at each threshold of the server, short queue.
SPECIFICATION Spec
CONSTANTS
  Position <- MCPosition
  Multiples <- MCMultiples
  MaxQueue = 2
  PollLimit = 1
  MaxMade = 3
CHECK_DEADLOCK FALSE
INVARIANTS CommandsAreExecuted
