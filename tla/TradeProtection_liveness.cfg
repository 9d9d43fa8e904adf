\* The supervisor is on; prices reach the stop, the entry, breakeven and the target.
SPECIFICATION FairSpec
CONSTANTS
  c1 = c1  c2 = c2
  NoStop = NoStop
  Cycle = {c1, c2}
  Direction <- MCBoth
  Price <- MCPriceEnds
  EntryPrice = 10
  Plan <- MCPlan
  Supervisor = TRUE
  MinProfit = 5
PROPERTY ReachedLevelCloses
