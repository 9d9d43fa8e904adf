\* One broker, one pair: what a stop leaves running.
SPECIFICATION Spec
CONSTANTS
  b1 = b1  b2 = b2  p1 = p1  p2 = p2  t1 = t1  t2 = t2
  s1 = s1  f1 = f1  f2 = f2
  Manual = Manual  None = None
  Broker <- MCBroker1
  Pair <- MCPair1
  Trade <- MCTrade2
  Scan <- MCScan1
  Flush <- MCFlush1
  MaxNew = 1
INVARIANTS ActiveTradesAreMonitored
