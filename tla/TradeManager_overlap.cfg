\* Two brokers, one pair: a scan over both and two flushes overlap over two trades.
SPECIFICATION Spec
CONSTANTS
  b1 = b1  b2 = b2  p1 = p1  p2 = p2  t1 = t1  t2 = t2
  s1 = s1  f1 = f1  f2 = f2
  Manual = Manual  None = None
  Broker <- MCBroker2
  Pair <- MCPair1
  Trade <- MCTrade2
  Scan <- MCScan1
  Flush <- MCFlush2
  MaxNew = 1
SYMMETRY Symmetry
INVARIANTS EnabledMeansRunning DoubledOnlyByOverlap
