------------------------------ MODULE EntryPlan ------------------------------
(***************************************************************************)
(* The plan of a trade: calculateEntryParameters of                        *)
(* src/core/engine/trading-engine.js, which derives stop, target and the   *)
(* trailing plan from the ATR and the volatility, refines them with        *)
(* support and resistance levels, and caches the result.                   *)
(*                                                                         *)
(* Levels and the prices of a plan are in ticks (the precision formatPrice *)
(* rounds to); the market price, and distances before rounding, are in     *)
(* millionths of a tick, multiples of the ATR in millionths, and scores in *)
(* tenths of a point, so the code's decimal constants are exact.  An entry *)
(* is calculated from the price and the score as they are, and cached      *)
(* under both rounded.                                                     *)
(***************************************************************************)
EXTENDS Integers, FiniteSets, FiniteSetsExt

CONSTANTS
  Score,        \* volatility scores, in tenths of a point, and NoScore
  NoScore,      \* the analysis has no volatility score
  State,        \* volatility regimes: "calm", "normal", "volatile", "extreme"
  Atr,          \* average true ranges, in ticks
  Price,        \* market prices, in millionths of a tick
  Live,         \* whether the price fetch answered: a subset of BOOLEAN
  Support,      \* support levels (and pivots below the price), in ticks
  Resistance,   \* resistance levels (and pivots above the price), in ticks
  MinRR,        \* config.minRiskReward, in tenths
  KeyTick,      \* what the cache key rounds the price to (5 decimals), in millionths of a tick
  NoEntry,      \* no entry returned yet
  MaxPlans      \* bound: entries the cache takes in

One == 1000000

ASSUME PlanAssumption ==
  /\ Score \subseteq Nat \cup {NoScore} /\ NoScore \notin Nat
  /\ State \subseteq {"calm", "normal", "volatile", "extreme"}
  /\ Atr \subseteq Nat \ {0}
  /\ Price \subseteq Nat /\ NoEntry \notin Nat /\ Live \subseteq BOOLEAN
  /\ Support \subseteq Nat /\ Resistance \subseteq Nat
  /\ MinRR \in Nat
  /\ KeyTick \in Nat \ {0}
  /\ MaxPlans \in Nat

VARIABLES
  entryByPair,   \* analyticsCache.entryByPair: entries by cache key
  entry,         \* the last entry returned
  issued         \* ghost: the market and the direction it was returned for

vars == <<entryByPair, entry, issued>>

Smaller(a, b) == IF a < b THEN a ELSE b
Larger(a, b) == IF a < b THEN b ELSE a

\* What a call is given: the technical analysis, and price, which is marketPrice
\* or, when that is null (~live), the last price of the analysis.
Market == [price : Price, live : Live, score : Score, state : State, atr : Atr,
           supports : SUBSET Support, resistances : SUBSET Resistance]

-----------------------------------------------------------------------------
(* Distances *)

ClampedScore(score) ==
  IF score = NoScore THEN 700 ELSE Larger(250, Smaller(score, 1400))

\* stopMultiple: (1.2 + score / 100), scaled by the regime, clamped to 1.05..2.6.
RegimePercent(state) ==
  IF state = "calm" THEN 90
  ELSE IF state = "volatile" THEN 118
  ELSE IF state = "extreme" THEN 132
  ELSE 100

StopMultiple(score, state) ==
  Larger(1050000, Smaller((1200 + ClampedScore(score)) * RegimePercent(state) * 10, 2600000))

\* (faulty variant: calm markets get more than the minimum)
RewardBiasCalm(state) == IF state = "calm" THEN 165 ELSE 145

RewardBias(state) ==
  IF state = "calm" THEN 155
  ELSE IF state = "volatile" THEN 135
  ELSE 145

\* takeProfitMultiple: biased and clamped, then raised to the minimum 1.6 times
\* the stop multiple, itself clamped to 4.8.
TakeProfitMultiple(stopMultiple, bias) ==
  LET biased == Larger(1600000, Smaller((stopMultiple * bias) \div 100, 3600000))
      required == (stopMultiple * 160) \div 100
  IN IF biased < required THEN Smaller(Larger(required, 1600000), 4800000) ELSE biased

\* formatPrice: a price in millionths of a tick, rounded to a tick.  The code's
\* binary arithmetic rounds a tie either way.
FormatPrice(p) == (p + One \div 2) \div One

\* a / b to two decimals (toFixed(2)), from a and b cut to thousandths.
Ratio(a, b) ==
  LET x == a \div 1000
      y == b \div 1000
  IN (200 * x + y) \div (2 * y)

\* Distance d in favour of the direction, from price p.
Toward(direction, p, d) == IF direction = "BUY" THEN p + d ELSE p - d

-----------------------------------------------------------------------------
(* The plan without levels *)

StopDistance(m) == m.atr * StopMultiple(m.score, m.state)
TargetDistance(m) ==
  m.atr * TakeProfitMultiple(StopMultiple(m.score, m.state), RewardBias(m.state))

BasePlan(m, direction) ==
  [price |-> FormatPrice(m.price),
   direction |-> direction,
   stopLoss |-> FormatPrice(Toward(direction, m.price, -StopDistance(m))),
   takeProfit |-> FormatPrice(Toward(direction, m.price, TargetDistance(m))),
   riskReward |-> Ratio(TakeProfitMultiple(StopMultiple(m.score, m.state),
                                           RewardBias(m.state)),
                        StopMultiple(m.score, m.state)),
   adjusted |-> FALSE]

-----------------------------------------------------------------------------
(* Refinement by support and resistance *)

\* Levels nearest to the price; a plan keeps its own side where there is none.
Below(m) == {l \in m.supports : l * One < m.price}
Above(m) == {l \in m.resistances : l * One > m.price}

Buffer(m) == m.atr * 120000

\* The proposed stop and target, in millionths of a tick.
Proposal(m, plan) ==
  IF plan.direction = "BUY"
  THEN [sl |-> IF Below(m) # {} THEN Max(Below(m)) * One - Buffer(m) ELSE plan.stopLoss * One,
        tp |-> IF Above(m) # {} THEN Min(Above(m)) * One - Buffer(m) ELSE plan.takeProfit * One]
  ELSE [sl |-> IF Above(m) # {} THEN Min(Above(m)) * One + Buffer(m) ELSE plan.stopLoss * One,
        tp |-> IF Below(m) # {} THEN Max(Below(m)) * One + Buffer(m) ELSE plan.takeProfit * One]

Distance(a, b) == IF a < b THEN b - a ELSE a - b

\* (faulty variant: the ratio of the proposal is not looked at)
AcceptableAnyRatio(m, direction, proposal) ==
  LET slDist == Distance(m.price, proposal.sl)
      tpDist == Distance(m.price, proposal.tp)
  IN /\ slDist >= m.atr * 600000 /\ slDist <= m.atr * 3200000
     /\ tpDist >= m.atr * 700000

\* slOk, tpOk, rrOk and sidesOk.
Acceptable(m, direction, proposal) ==
  LET slDist == Distance(m.price, proposal.sl)
      tpDist == Distance(m.price, proposal.tp)
  IN /\ slDist >= m.atr * 600000 /\ slDist <= m.atr * 3200000
     /\ tpDist >= m.atr * 700000
     /\ slDist > 0 /\ 10 * tpDist >= MinRR * slDist /\ tpDist <= 5 * slDist
     /\ IF direction = "BUY" THEN proposal.sl < m.price /\ proposal.tp > m.price
                             ELSE proposal.sl > m.price /\ proposal.tp < m.price

Refined(m, plan) ==
  LET proposal == Proposal(m, plan)
  IN IF /\ m.supports \cup m.resistances # {}
        /\ Acceptable(m, plan.direction, proposal)
     THEN [plan EXCEPT !.stopLoss = FormatPrice(proposal.sl),
                       !.takeProfit = FormatPrice(proposal.tp),
                       !.riskReward = Ratio(Distance(m.price, proposal.tp),
                                            Distance(m.price, proposal.sl)),
                       !.adjusted = TRUE]
     ELSE plan

-----------------------------------------------------------------------------
(* The trailing plan, and the whole calculation *)

\* The trailing plan the refinement sets is replaced below by the one of the
\* distances before refinement.
Trailing(m, plan) ==
  [activation |-> (TargetDistance(m) * 6) \div 10,
   trailing |-> (StopDistance(m) * 8) \div 10,
   step |-> (StopDistance(m) * 2) \div 10]

EntryParameters(m, direction) ==
  LET plan == Refined(m, BasePlan(m, direction))
  IN [plan |-> plan, trailingStop |-> Trailing(m, plan)]

\* toFixed(5) of the price and Math.round of the score.  A missing score is 0 here
\* and 70 in the calculation.
KeyPrice(m) == IF m.live THEN (m.price + KeyTick \div 2) \div KeyTick ELSE NoEntry

KeyScore(score) == IF score = NoScore THEN 0 ELSE (score + 5) \div 10

\* (faulty variant: the key has no price in it)
CacheKeyUnpriced(m, direction) ==
  [price |-> NoEntry, direction |-> direction, state |-> m.state,
   score |-> KeyScore(m.score)]

\* The cache key has no ATR and no levels in it, and a price only when the
\* price fetch answered.
CacheKey(m, direction) ==
  [price |-> KeyPrice(m), direction |-> direction, state |-> m.state,
   score |-> KeyScore(m.score)]

Cached(m, direction) == CacheKey(m, direction) \in DOMAIN entryByPair

Init ==
  /\ entryByPair = [k \in {} |-> NoEntry]
  /\ entry = NoEntry
  /\ issued = NoEntry

ReturnCached(m, direction) ==
  /\ Cached(m, direction)
  /\ entry' = entryByPair[CacheKey(m, direction)]
  /\ issued' = [market |-> m, direction |-> direction]
  /\ UNCHANGED entryByPair

CalculateEntryParameters(m, direction) ==
  /\ ~Cached(m, direction)
  /\ Cardinality(DOMAIN entryByPair) < MaxPlans
  /\ entry' = EntryParameters(m, direction)
  /\ entryByPair' = [k \in DOMAIN entryByPair \cup {CacheKey(m, direction)} |->
       IF k = CacheKey(m, direction) THEN entry' ELSE entryByPair[k]]
  /\ issued' = [market |-> m, direction |-> direction]

Next ==
  \E m \in Market, d \in {"BUY", "SELL"} :
    ReturnCached(m, d) \/ CalculateEntryParameters(m, d)

Spec == Init /\ [][Next]_vars

-----------------------------------------------------------------------------
(* Properties *)

PlanType ==
  [price : Nat, direction : {"BUY", "SELL"}, stopLoss : Int, takeProfit : Int,
   riskReward : Nat, adjusted : BOOLEAN]
TrailingType == [activation : Nat, trailing : Nat, step : Nat]
EntryType == [plan : PlanType, trailingStop : TrailingType]

KeyType == [price : Nat \cup {NoEntry}, direction : {"BUY", "SELL"},
            state : State, score : Nat]

\* Every variable has its type, and a cached entry has the direction of its key.
TypeOK ==
  /\ issued \in [market : Market, direction : {"BUY", "SELL"}] \cup {NoEntry}
  /\ entry \in EntryType \cup {NoEntry}
  /\ DOMAIN entryByPair \subseteq KeyType
  /\ \A k \in DOMAIN entryByPair :
       /\ entryByPair[k] \in EntryType
       /\ entryByPair[k].plan.direction = k.direction

Gain(plan, p) == IF plan.direction = "BUY" THEN p - plan.price ELSE plan.price - p

\* After all clamps, the refinement and the rounding, an entry has its stop and
\* target on the right sides and keeps the risk/reward floor (minRiskReward for
\* a refined entry, 1.6 for the others) up to the rounding of the three prices.
PlanIsSound ==
  entry # NoEntry =>
    LET plan == entry.plan
        risk == -Gain(plan, plan.stopLoss)
        reward == Gain(plan, plan.takeProfit)
        floor == IF plan.adjusted THEN MinRR ELSE 16
    IN /\ risk > 0 /\ reward > 0
       /\ 10 * reward + 10 + floor >= floor * risk

\* A missing score counts as a score of 0.
Points(score) == IF score = NoScore THEN 0 ELSE score

\* An entry made for market n may be returned for market m: the regime is the same,
\* a price that was fetched is less than one step of the key away, and the score less
\* than a point.
StaleFor(n, m) ==
  /\ n.live = m.live /\ n.state = m.state
  /\ m.live => Distance(n.price, m.price) < KeyTick
  /\ Distance(Points(n.score), Points(m.score)) < 10

\* What the cache returns was calculated for the direction asked for and for a market
\* of the same regime, with nearly the same score and nearly the same price if that
\* was fetched.  Anything else may be stale: the ATR, the levels, and a price that was
\* not fetched; and a missing score may meet one near 0, though it counts as 70.
OnlyUnkeyedInputsStale ==
  entry # NoEntry =>
    \E n \in Market :
      StaleFor(n, issued.market) /\ entry = EntryParameters(n, issued.direction)

\* The regime's reward bias never shows: the minimum of 1.6 always decides the
\* target of an entry that was not refined.
TargetIgnoresRegime ==
  (entry # NoEntry /\ ~entry.plan.adjusted) => entry.plan.riskReward = 160

\* The comment of trading-engine.js:799, "Refresh trailing-stop distances to
\* match the adjusted plan": trailing starts before the target is reached.
TrailingMatchesPlan ==
  entry # NoEntry =>
    entry.trailingStop.activation <= Gain(entry.plan, entry.plan.takeProfit) * One
=============================================================================
