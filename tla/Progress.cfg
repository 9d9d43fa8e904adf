\* One component at a time, each with its fairness.
SPECIFICATION MCSpec
CONSTANTS
  j1 = j1  j2 = j2  j3 = j3  j4 = j4
  b1 = b1  p1 = p1  p2 = p2  t1 = t1  s1 = s1  f1 = f1  f2 = f2
  Manual = Manual  None = None
  y1 = y1  y2 = y2  c1 = c1  c2 = c2
  q1 = q1  q2 = q2  k1 = k1  k2 = k2
  Job <- MCJobs
  Id <- MCIds
  Handled <- MCHandled
  MaxAttempts <- MCAttempts
  Concurrency = 1
  MaxQueueSize = 1
  DeadLetterMax = 1
CHECK_DEADLOCK FALSE
INVARIANTS JobsAreSomewhere NoLostWakeup
PROPERTIES JobsSettle CandidatesAreFlushed RequestsReachTerminal BreakerEnds AlertsAreRepeated
