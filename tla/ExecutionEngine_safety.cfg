\* Two trades, two pairs, two concurrent closers, one midnight.
SPECIFICATION Spec
CONSTANTS
  t1 = t1  t2 = t2  c1 = c1  c2 = c2  p1 = p1  p2 = p2
  NoTrade = NoTrade  NoPair = NoPair
  Trade <- MCTrade
  Closer <- MCCloser2
  Pair <- MCPair
  Risks = {1, 2}
  MinRisk = 1
  MaxDailyRisk = 3
  MaxRiskPerSymbol = 3
  MaxConcurrentTrades = 2
  MaxDays = 1
SYMMETRY Symmetry
CHECK_DEADLOCK FALSE
INVARIANTS TypeOK SymbolRiskBounded BudgetCoversOpenRisk ClosedNotActive OrphanExplained
PROPERTIES FreshSignalKeepsBudget ImplementsBook
