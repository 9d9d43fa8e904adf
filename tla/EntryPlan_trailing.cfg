\* One market in which a resistance brings the target nearer.
SPECIFICATION Spec
CONSTANTS
  NoEntry = NoEntry
  NoScore = NoScore
  Score = {1000}
  State = {"normal"}
  Atr = {10}
  Price <- MCPriceTick
  Live = {TRUE}
  Support = {992}
  Resistance = {1018}
  MinRR = 16
  KeyTick = 1000000
  MaxPlans = 1
INVARIANTS TrailingMatchesPlan
