\* Two overlapping cycles without the supervisor, every level up to the second
\* trailing step.
SPECIFICATION Spec
CONSTANTS
  c1 = c1  c2 = c2
  NoStop = NoStop
  Cycle = {c1, c2}
  Direction <- MCBoth
  Price <- MCPriceSteps
  EntryPrice = 10
  Plan <- MCPlan
  Supervisor = FALSE
  MinProfit = 5
SYMMETRY MCSymmetry
INVARIANTS BrokerStopExplained NothingBeyondTheStop
PROPERTIES StopNeverLoosens BrokerStopLoosensOnlyByRace
