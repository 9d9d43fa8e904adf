\* One cycle at a time, every level of both directions.
SPECIFICATION Spec
CONSTANTS
  c1 = c1  c2 = c2
  NoStop = NoStop
  Cycle = {c1}
  Direction <- MCBoth
  Price <- MCPrice
  EntryPrice = 10
  Plan <- MCPlan
  Supervisor = FALSE
  MinProfit = 5
PROPERTIES BreakevenInProfit
