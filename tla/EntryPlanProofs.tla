--------------------------- MODULE EntryPlanProofs ---------------------------
(***************************************************************************)
(* The reward bias of calculateEntryParameters never decides a target:     *)
(* every bias is below the minimum of 1.6 stop multiples, which the clamps *)
(* of the stop multiple keep between their own bounds.  Shown for every    *)
(* score, regime, ATR and cache history.  And what a cached entry may have *)
(* been made from other than what it is asked for, in the last part.       *)
(***************************************************************************)
EXTENDS EntryPlan, WellFoundedInduction, TLAPS

MinimumReward(e) == ~e.plan.adjusted => e.plan.riskReward = 160

IInv ==
  /\ \A k \in DOMAIN entryByPair : MinimumReward(entryByPair[k])
  /\ TargetIgnoresRegime

\* The clamps of the stop multiple.
LEMMA StopMultipleBounds ==
  ASSUME NEW score \in Score, NEW state \in State
  PROVE  /\ StopMultiple(score, state) \in Int
         /\ 1050000 <= StopMultiple(score, state)
         /\ StopMultiple(score, state) <= 2600000
<1> DEFINE clamped == ClampedScore(score)
<1>1. RegimePercent(state) \in {90, 100, 118, 132}
  BY SMT DEF RegimePercent
<1>2. clamped \in Nat
  BY SMT, PlanAssumption DEF ClampedScore, Larger, Smaller
<1> HIDE DEF clamped
<1>3. (1200 + clamped) * RegimePercent(state) * 10 \in Int
  BY SMT, <1>1, <1>2
<1> QED
  BY SMT, <1>3 DEF StopMultiple, Larger, Smaller, clamped

LEMMA TargetIsMinimum ==
  ASSUME NEW s \in Int, 1050000 <= s, s <= 2600000, NEW state \in State
  PROVE  TakeProfitMultiple(s, RewardBias(state)) = (s * 160) \div 100
<1> DEFINE bias == RewardBias(state)
<1>1. bias \in {135, 145, 155}
  BY SMT DEF RewardBias
<1>2. (s * bias) \div 100 \in Nat /\ (s * bias) \div 100 < (s * 160) \div 100
  BY SMT, <1>1
<1>3. (s * 160) \div 100 \in Nat
      /\ (s * 160) \div 100 > 1600000 /\ (s * 160) \div 100 < 4800000
  BY SMT
<1> HIDE DEF bias
<1> QED
  BY SMT, <1>2, <1>3 DEF TakeProfitMultiple, Larger, Smaller, bias

LEMMA MinimumRatio ==
  ASSUME NEW s \in Int, 1050000 <= s, s <= 2600000
  PROVE  Ratio((s * 160) \div 100, s) = 160
  BY SMT DEF Ratio

LEMMA BasePlanReward ==
  ASSUME NEW m \in Market, NEW d
  PROVE  BasePlan(m, d).riskReward = 160
<1>1. m.score \in Score /\ m.state \in State
  BY SMT DEF Market
<1>2. /\ StopMultiple(m.score, m.state) \in Int
      /\ 1050000 <= StopMultiple(m.score, m.state)
      /\ StopMultiple(m.score, m.state) <= 2600000
  BY SMT, <1>1, StopMultipleBounds
<1> QED
  BY SMT, <1>1, <1>2, TargetIsMinimum, MinimumRatio DEF BasePlan

LEMMA EntryReward ==
  ASSUME NEW m \in Market, NEW d
  PROVE  MinimumReward(EntryParameters(m, d))
<1> DEFINE base == BasePlan(m, d)
<1>1. base.riskReward = 160
  BY BasePlanReward
<1>2. Refined(m, base).adjusted \/ Refined(m, base) = base
  BY DEF Refined, BasePlan
<1> QED
  BY <1>1, <1>2 DEF MinimumReward, EntryParameters

\* The target of an entry that levels did not refine is 1.6 stops away, whatever
\* the score and the regime: no bias ever decides it.
THEOREM RewardIsMinimum == Spec => []TargetIgnoresRegime
<1>1. Init => IInv
  BY DEF Init, IInv, TargetIgnoresRegime
<1>2. IInv /\ [Next]_vars => IInv'
  <2> SUFFICES ASSUME IInv, [Next]_vars PROVE IInv'
    OBVIOUS
  <2> USE DEF IInv
  <2>1. ASSUME NEW m \in Market, NEW d \in {"BUY", "SELL"}, ReturnCached(m, d) PROVE IInv'
    BY <2>1 DEF ReturnCached, Cached, MinimumReward, TargetIgnoresRegime
  <2>2. ASSUME NEW m \in Market, NEW d \in {"BUY", "SELL"}, CalculateEntryParameters(m, d) PROVE IInv'
    <3>1. MinimumReward(entry')
      BY <2>2, EntryReward DEF CalculateEntryParameters
    <3>2. \A k \in DOMAIN entryByPair' :
            entryByPair'[k] = entry' \/ (k \in DOMAIN entryByPair /\ entryByPair'[k] = entryByPair[k])
      BY <2>2 DEF CalculateEntryParameters
    <3> QED
      BY <2>2, <3>1, <3>2 DEF CalculateEntryParameters, MinimumReward, TargetIgnoresRegime
  <2>3. CASE UNCHANGED vars
    BY <2>3 DEF vars, TargetIgnoresRegime
  <2> QED
    BY <2>1, <2>2, <2>3 DEF Next
<1>3. IInv => TargetIgnoresRegime
  BY DEF IInv
<1> QED
  BY <1>1, <1>2, <1>3, PTL DEF Spec

-----------------------------------------------------------------------------
(* What the cache key leaves out *)

\* The entry stored under k was calculated for a market with that key.
Calculated(e, k) ==
  \E m \in Market : e = EntryParameters(m, k.direction) /\ CacheKey(m, k.direction) = k

CacheInv == \A k \in DOMAIN entryByPair : Calculated(entryByPair[k], k)

\* Numbers that are rounded to the same multiple of a step are less than a step apart.
LEMMA SameRounding ==
  ASSUME NEW p \in Nat, NEW q \in Nat, NEW step \in Nat \ {0}, NEW half \in Nat,
         (p + half) \div step = (q + half) \div step
  PROVE  Distance(p, q) < step
<1> DEFINE x == (p + half) \div step
<1>1. /\ x \in Int
      /\ step * x <= p + half /\ p + half < step * x + step
      /\ step * x <= q + half /\ q + half < step * x + step
  OBVIOUS
<1> QED
  BY SMT, <1>1 DEF Distance

\* Scores with one key are less than a point apart.
LEMMA SameScore ==
  ASSUME NEW s \in Score, NEW t \in Score, KeyScore(s) = KeyScore(t)
  PROVE  Distance(Points(s), Points(t)) < 10
<1>1. Points(s) \in Nat /\ Points(t) \in Nat
  BY PlanAssumption DEF Points
<1>2. KeyScore(s) = (Points(s) + 5) \div 10 /\ KeyScore(t) = (Points(t) + 5) \div 10
  BY SMT DEF KeyScore, Points
<1>3. 10 \in Nat \ {0} /\ 5 \in Nat
  OBVIOUS
<1>4. (Points(s) + 5) \div 10 = (Points(t) + 5) \div 10
  BY <1>2
<1> QED
  BY <1>1, <1>3, <1>4, SameRounding, SMT

\* Markets with one key differ only in what the key leaves out.
LEMMA SameKey ==
  ASSUME NEW m \in Market, NEW n \in Market, NEW d, NEW c, CacheKey(n, c) = CacheKey(m, d)
  PROVE  c = d /\ StaleFor(n, m)
<1>1. /\ c = d /\ n.state = m.state /\ KeyScore(n.score) = KeyScore(m.score)
      /\ KeyPrice(n) = KeyPrice(m)
  BY DEF CacheKey
<1>2. /\ m.live \in BOOLEAN /\ n.live \in BOOLEAN /\ m.price \in Nat /\ n.price \in Nat
      /\ m.score \in Score /\ n.score \in Score
  BY PlanAssumption DEF Market
<1>3. KeyTick \in Nat \ {0} /\ KeyTick \div 2 \in Nat /\ NoEntry \notin Nat
  BY PlanAssumption
<1>4. (m.price + KeyTick \div 2) \div KeyTick \in Nat /\ (n.price + KeyTick \div 2) \div KeyTick \in Nat
  BY SMT, <1>2, <1>3
<1>5. n.live = m.live
  BY <1>1, <1>2, <1>3, <1>4, Zenon DEF KeyPrice
<1>6. ASSUME m.live PROVE Distance(n.price, m.price) < KeyTick
  <2>1. (n.price + KeyTick \div 2) \div KeyTick = (m.price + KeyTick \div 2) \div KeyTick
    BY <1>1, <1>5, <1>6, Zenon DEF KeyPrice
  <2> QED
    BY <1>2, <1>3, <2>1, SameRounding
<1>7. Distance(Points(n.score), Points(m.score)) < 10
  BY <1>1, <1>2, SameScore
<1> QED
  BY <1>1, <1>5, <1>6, <1>7 DEF StaleFor

\* An entry calculated for a market n with the key of m explains what m is told.
LEMMA StaleOnlyInUnkeyed ==
  ASSUME NEW m \in Market, NEW n \in Market, NEW d, NEW c, CacheKey(n, c) = CacheKey(m, d),
         entry' = EntryParameters(n, c), issued' = [market |-> m, direction |-> d]
  PROVE  OnlyUnkeyedInputsStale'
<1>1. c = d /\ StaleFor(n, m)
  BY SameKey
<1>2. issued'.market = m /\ issued'.direction = d
  OBVIOUS
<1> QED
  BY <1>1, <1>2, Zenon DEF OnlyUnkeyedInputsStale

\* An entry is of the direction and the regime asked for, of a fetched price less than
\* one step of the key away and of a score less than a point away; the ATR, the levels
\* and a price the fetch did not bring may be those of any market.  For every market,
\* history and step of the key.
THEOREM StaleInputsAreUnkeyed == Spec => []OnlyUnkeyedInputsStale
<1>1. Init => CacheInv /\ OnlyUnkeyedInputsStale
  BY DEF Init, CacheInv, OnlyUnkeyedInputsStale
<1>2. CacheInv /\ OnlyUnkeyedInputsStale /\ [Next]_vars => CacheInv' /\ OnlyUnkeyedInputsStale'
  <2> SUFFICES ASSUME CacheInv, OnlyUnkeyedInputsStale, [Next]_vars
               PROVE  CacheInv' /\ OnlyUnkeyedInputsStale'
    OBVIOUS
  <2>1. ASSUME NEW m \in Market, NEW d \in {"BUY", "SELL"}, ReturnCached(m, d)
        PROVE  CacheInv' /\ OnlyUnkeyedInputsStale'
    <3>1. CacheInv'
      BY <2>1 DEF ReturnCached, CacheInv
    <3>2. PICK k \in DOMAIN entryByPair : k = CacheKey(m, d) /\ entry' = entryByPair[k]
      BY <2>1 DEF ReturnCached, Cached
    <3>3. PICK n \in Market : /\ entryByPair[k] = EntryParameters(n, k.direction)
                              /\ CacheKey(n, k.direction) = k
      BY <3>2 DEF CacheInv, Calculated
    <3>4. issued' = [market |-> m, direction |-> d]
      BY <2>1 DEF ReturnCached
    <3>5. OnlyUnkeyedInputsStale'
      BY <3>2, <3>3, <3>4, StaleOnlyInUnkeyed
    <3> QED
      BY <3>1, <3>5
  <2>2. ASSUME NEW m \in Market, NEW d \in {"BUY", "SELL"}, CalculateEntryParameters(m, d)
        PROVE  CacheInv' /\ OnlyUnkeyedInputsStale'
    <3>1. entry' = EntryParameters(m, d) /\ issued' = [market |-> m, direction |-> d]
      BY <2>2 DEF CalculateEntryParameters
    <3>2. OnlyUnkeyedInputsStale'
      BY <3>1, StaleOnlyInUnkeyed
    <3>3. \A k \in DOMAIN entryByPair' :
            \/ k = CacheKey(m, d) /\ entryByPair'[k] = EntryParameters(m, d)
            \/ k \in DOMAIN entryByPair /\ entryByPair'[k] = entryByPair[k]
      BY <2>2, <3>1 DEF CalculateEntryParameters
    <3>4. Calculated(EntryParameters(m, d), CacheKey(m, d))
      BY DEF Calculated, CacheKey
    <3>5. CacheInv'
      BY <3>3, <3>4 DEF CacheInv
    <3> QED
      BY <3>2, <3>5
  <2>3. CASE UNCHANGED vars
    BY <2>3 DEF vars, CacheInv, OnlyUnkeyedInputsStale
  <2> QED
    BY <2>1, <2>2, <2>3 DEF Next
<1> QED
  BY <1>1, <1>2, PTL DEF Spec

-----------------------------------------------------------------------------
(* Stops, targets and the risk/reward floor *)

\* What PlanIsSound says of an entry.
Floor(plan) == IF plan.adjusted THEN MinRR ELSE 16
Risk(plan) == -Gain(plan, plan.stopLoss)
Reward(plan) == Gain(plan, plan.takeProfit)
Sound(plan) ==
  /\ Risk(plan) > 0 /\ Reward(plan) > 0
  /\ 10 * Reward(plan) + 10 + Floor(plan) >= Floor(plan) * Risk(plan)

\* Rounding to a tick moves a price by half a tick at most.
LEMMA RoundingBound ==
  ASSUME NEW p \in Int
  PROVE  /\ FormatPrice(p) \in Int
         /\ 2 * p - One < 2 * One * FormatPrice(p)
         /\ 2 * One * FormatPrice(p) <= 2 * p + One
  BY SMT DEF FormatPrice, One

\* Two prices d apart are, after rounding, less than a tick closer or farther.
LEMMA RoundedDistance ==
  ASSUME NEW p \in Int, NEW q \in Int
  PROVE  /\ FormatPrice(p) \in Int /\ FormatPrice(q) \in Int
         /\ One * (FormatPrice(p) - FormatPrice(q)) < (p - q) + One
         /\ (p - q) - One < One * (FormatPrice(p) - FormatPrice(q))
<1>1. /\ FormatPrice(p) \in Int
      /\ 2 * p - One < 2 * One * FormatPrice(p)
      /\ 2 * One * FormatPrice(p) <= 2 * p + One
  BY RoundingBound
<1>2. /\ FormatPrice(q) \in Int
      /\ 2 * q - One < 2 * One * FormatPrice(q)
      /\ 2 * One * FormatPrice(q) <= 2 * q + One
  BY RoundingBound
<1> QED
  BY SMT, <1>1, <1>2 DEF One

\* Prices on the two sides of the entry, far enough away and in the ratio the
\* floor asks for, make a sound plan once they are rounded.
LEMMA RoundedPlanIsSound ==
  ASSUME NEW plan, NEW p \in Int, NEW sl \in Int, NEW tp \in Int, NEW floor \in Nat,
         plan.price = FormatPrice(p), plan.stopLoss = FormatPrice(sl),
         plan.takeProfit = FormatPrice(tp), Floor(plan) = floor,
         NEW d \in Int, NEW e \in Int, d >= One, e >= One, 10 * e >= floor * d,
         IF plan.direction = "BUY" THEN p - sl = d /\ tp - p = e
                                   ELSE sl - p = d /\ p - tp = e
  PROVE  Sound(plan)
<1> DEFINE r == Risk(plan)
           w == Reward(plan)
<1>1. /\ r \in Int /\ w \in Int
      /\ d - One < One * r /\ One * r < d + One
      /\ e - One < One * w
  <2>1. CASE plan.direction = "BUY"
    <3>1. r = FormatPrice(p) - FormatPrice(sl) /\ w = FormatPrice(tp) - FormatPrice(p)
      BY <2>1, RoundingBound DEF Risk, Reward, Gain
    <3>2. /\ FormatPrice(p) \in Int /\ FormatPrice(sl) \in Int /\ FormatPrice(tp) \in Int
          /\ One * (FormatPrice(p) - FormatPrice(sl)) < (p - sl) + One
          /\ (p - sl) - One < One * (FormatPrice(p) - FormatPrice(sl))
          /\ (tp - p) - One < One * (FormatPrice(tp) - FormatPrice(p))
      BY RoundedDistance
    <3> HIDE DEF r, w
    <3> QED
      BY <2>1, <3>1, <3>2
  <2>2. CASE plan.direction # "BUY"
    <3>1. r = FormatPrice(sl) - FormatPrice(p) /\ w = FormatPrice(p) - FormatPrice(tp)
      BY <2>2, RoundingBound DEF Risk, Reward, Gain
    <3>2. /\ FormatPrice(p) \in Int /\ FormatPrice(sl) \in Int /\ FormatPrice(tp) \in Int
          /\ One * (FormatPrice(sl) - FormatPrice(p)) < (sl - p) + One
          /\ (sl - p) - One < One * (FormatPrice(sl) - FormatPrice(p))
          /\ (p - tp) - One < One * (FormatPrice(p) - FormatPrice(tp))
      BY RoundedDistance
    <3> HIDE DEF r, w
    <3> QED
      BY <2>2, <3>1, <3>2
  <2> QED
    BY <2>1, <2>2
<1> HIDE DEF r, w
<1>2. r > 0 /\ w > 0
  BY SMT, <1>1 DEF One
<1>3. One * (r - 1) <= d
  BY SMT, <1>1 DEF One
<1>4. floor * (One * (r - 1)) <= floor * d
  BY SMT, <1>1, <1>3 DEF One
<1>5. One * (floor * (r - 1)) <= 10 * e
  <2>1. floor * (One * (r - 1)) = One * (floor * (r - 1))
    BY SMT, <1>1 DEF One
  <2>2. floor * d \in Int /\ floor * (r - 1) \in Int
    BY SMT, <1>1
  <2> QED
    BY SMT, <1>4, <2>1, <2>2 DEF One
<1>6. floor * (r - 1) < 10 * w + 10
  <2> DEFINE k == floor * (r - 1)
  <2>1. k \in Int
    BY SMT, <1>1
  <2>2. One * k <= 10 * e
    BY <1>5
  <2> HIDE DEF k
  <2>3. k < 10 * w + 10
    BY SMT, <1>1, <2>1, <2>2 DEF One
  <2> QED
    BY <2>3 DEF k
<1>7. floor * (r - 1) = floor * r - floor /\ floor * r \in Int
  BY SMT, <1>1
<1>8. 10 * w + 10 + floor >= floor * r
  BY SMT, <1>1, <1>6, <1>7
<1> QED
  BY <1>2, <1>8 DEF Sound, r, w

\* The stop multiple in millionths is a multiple of 20, so that 1.6 times it is exact.
LEMMA MultipleOfTwenty ==
  ASSUME NEW score \in Score, NEW state \in State
  PROVE  \E k \in Nat : /\ StopMultiple(score, state) = 20 * k
                        /\ 52500 <= k /\ k <= 130000
<1> DEFINE clamped == ClampedScore(score)
           half == RegimePercent(state) \div 2
           k == (1200 + clamped) * half
<1>1. RegimePercent(state) \in {90, 100, 118, 132}
  BY SMT DEF RegimePercent
<1>2. clamped \in Nat
  BY SMT, PlanAssumption DEF ClampedScore, Larger, Smaller
<1>3. k \in Nat /\ (1200 + clamped) * RegimePercent(state) * 10 = k * 20
  <2> HIDE DEF clamped
  <2>1. half \in Nat /\ RegimePercent(state) = 2 * half
    BY SMT, <1>1
  <2> QED
    BY SMT, <1>2, <2>1
<1>4. StopMultiple(score, state) = Larger(1050000, Smaller(k * 20, 2600000))
  BY <1>3 DEF StopMultiple
<1> HIDE DEF k
<1>5. StopMultiple(score, state) \in {1050000, 2600000, k * 20}
  BY SMT, <1>3, <1>4 DEF Larger, Smaller
<1>6. 1050000 <= StopMultiple(score, state) /\ StopMultiple(score, state) <= 2600000
  BY StopMultipleBounds
<1>7. CASE StopMultiple(score, state) = 1050000
  BY SMT, <1>7
<1>8. CASE StopMultiple(score, state) = 2600000
  BY SMT, <1>8
<1>9. CASE StopMultiple(score, state) = k * 20
  BY SMT, <1>3, <1>6, <1>9
<1> QED
  BY <1>5, <1>7, <1>8, <1>9

\* The distances of a plan without levels: more than a tick, and exactly in the
\* ratio 1.6.
LEMMA BaseDistances ==
  ASSUME NEW m \in Market
  PROVE  /\ StopDistance(m) \in Int /\ TargetDistance(m) \in Int
         /\ StopDistance(m) >= One /\ TargetDistance(m) >= One
         /\ 10 * TargetDistance(m) = 16 * StopDistance(m)
<1>1. m.score \in Score /\ m.state \in State /\ m.atr \in Nat \ {0}
  BY PlanAssumption DEF Market
<1>2. PICK k \in Nat : /\ StopMultiple(m.score, m.state) = 20 * k
                       /\ 52500 <= k /\ k <= 130000
  BY <1>1, MultipleOfTwenty
<1>3. TakeProfitMultiple(StopMultiple(m.score, m.state), RewardBias(m.state)) = ((20 * k) * 160) \div 100
  BY <1>1, <1>2, StopMultipleBounds, TargetIsMinimum
<1>4. ((20 * k) * 160) \div 100 = 32 * k
  BY SMT
<1>5. StopDistance(m) = m.atr * (20 * k) /\ TargetDistance(m) = m.atr * (32 * k)
  BY <1>2, <1>3, <1>4 DEF StopDistance, TargetDistance
<1>6. PICK a \in Nat \ {0} : a = m.atr
  BY <1>1
<1>7. a * (20 * k) >= One /\ a * (32 * k) >= One
  <2>1. a * k >= k
    BY SMT, <1>6
  <2>2. a * (20 * k) = 20 * (a * k) /\ a * (32 * k) = 32 * (a * k) /\ a * k \in Nat
    BY SMT, <1>6
  <2> QED
    BY SMT, <1>2, <2>1, <2>2 DEF One
<1>8. /\ a * (20 * k) \in Int /\ a * (32 * k) \in Int
      /\ 10 * (a * (32 * k)) = 16 * (a * (20 * k))
  BY SMT, <1>6
<1> QED
  BY <1>5, <1>6, <1>7, <1>8

LEMMA MarketTypes ==
  ASSUME NEW m \in Market
  PROVE  m.price \in Nat /\ m.price \in Int /\ m.atr \in Nat
<1>1. m.price \in Nat /\ m.atr \in Nat
  BY PlanAssumption DEF Market
<1> QED
  BY SMT, <1>1

LEMMA BasePlanIsSound ==
  ASSUME NEW m \in Market, NEW d
  PROVE  Sound(BasePlan(m, d))
<1> DEFINE plan == BasePlan(m, d)
           sl == Toward(d, m.price, -StopDistance(m))
           tp == Toward(d, m.price, TargetDistance(m))
<1>1. m.price \in Int
  BY MarketTypes
<1>2. /\ StopDistance(m) \in Int /\ TargetDistance(m) \in Int
      /\ StopDistance(m) >= One /\ TargetDistance(m) >= One
      /\ 10 * TargetDistance(m) >= 16 * StopDistance(m)
  BY SMT, BaseDistances
<1>3. /\ plan.price = FormatPrice(m.price) /\ plan.stopLoss = FormatPrice(sl)
      /\ plan.takeProfit = FormatPrice(tp) /\ Floor(plan) = 16 /\ plan.direction = d
  BY DEF BasePlan, Floor
<1>4. /\ sl \in Int /\ tp \in Int
      /\ IF d = "BUY" THEN m.price - sl = StopDistance(m) /\ tp - m.price = TargetDistance(m)
                      ELSE sl - m.price = StopDistance(m) /\ m.price - tp = TargetDistance(m)
  BY SMT, <1>1, <1>2 DEF Toward
<1> HIDE DEF plan, sl, tp
<1>5. Sound(plan)
  BY <1>1, <1>2, <1>3, <1>4, RoundedPlanIsSound
<1> QED
  BY <1>5 DEF plan

\* An accepted proposal has its prices on their sides, its stop more than a tick
\* away when the ATR has two, and the ratio asked for.
LEMMA AcceptedDistances ==
  ASSUME NEW m \in Market, m.atr >= 2, NEW direction, NEW proposal,
         proposal.sl \in Int, proposal.tp \in Int, Acceptable(m, direction, proposal)
  PROVE  \E d, e \in Int :
           /\ d >= One /\ e >= One /\ 10 * e >= MinRR * d
           /\ IF direction = "BUY" THEN m.price - proposal.sl = d /\ proposal.tp - m.price = e
                                   ELSE proposal.sl - m.price = d /\ m.price - proposal.tp = e
<1> DEFINE d == Distance(m.price, proposal.sl)
           e == Distance(m.price, proposal.tp)
<1>1. m.price \in Int /\ m.atr \in Nat
  BY MarketTypes
<1>2. d \in Int /\ e \in Int
  BY SMT, <1>1 DEF Distance
<1>3. d >= One /\ e >= One
  BY SMT, <1>1, <1>2 DEF Acceptable, One
<1>4. 10 * e >= MinRR * d
  BY DEF Acceptable
<1>5. IF direction = "BUY" THEN m.price - proposal.sl = d /\ proposal.tp - m.price = e
                           ELSE proposal.sl - m.price = d /\ m.price - proposal.tp = e
  <2>1. IF direction = "BUY" THEN proposal.sl < m.price /\ proposal.tp > m.price
                             ELSE proposal.sl > m.price /\ proposal.tp < m.price
    BY DEF Acceptable
  <2> QED
    BY SMT, <1>1, <2>1 DEF Distance
<1> HIDE DEF d, e
<1> QED
  BY <1>2, <1>3, <1>4, <1>5

\* A nonempty set of naturals has a least element, and a bounded one a greatest.
LEMMA LeastNatural ==
  ASSUME NEW T \in SUBSET Nat, T # {}
  PROVE  \E x \in T : \A y \in T : x <= y
<1>1. \E x \in T : \A y \in T : ~(<<y, x>> \in OpToRel(<, Nat))
  BY NatLessThanWellFounded, WFMin
<1>2. \A x, y \in T : ~(<<y, x>> \in OpToRel(<, Nat)) => x <= y
  BY DEF OpToRel
<1> QED
  BY <1>1, <1>2, Zenon

LEMMA GreatestNatural ==
  ASSUME NEW T \in SUBSET Nat, T # {}, NEW b \in Nat, \A x \in T : x <= b
  PROVE  \E x \in T : \A y \in T : x >= y
<1> DEFINE U == {u \in Nat : \E x \in T : u = b - x}
<1>1. \A x \in T : b - x \in U
  BY SMT
<1>2. PICK u \in U : \A y \in U : u <= y
  <2>1. U \in SUBSET Nat /\ U # {}
    BY <1>1
  <2> HIDE DEF U
  <2> QED
    BY <2>1, LeastNatural
<1>3. PICK x \in T : u = b - x
  OBVIOUS
<1>4. \A y \in T : b - x <= b - y
  BY <1>1, <1>2, <1>3
<1>5. \A y \in T : x >= y
  BY SMT, <1>4
<1> QED
  BY <1>5

\* The proposal is made of whole numbers, whichever levels there are.
LEMMA ProposalType ==
  ASSUME NEW m \in Market, NEW plan, plan.stopLoss \in Int, plan.takeProfit \in Int
  PROVE  Proposal(m, plan).sl \in Int /\ Proposal(m, plan).tp \in Int
<1>1. m.price \in Nat /\ m.atr \in Nat
  BY MarketTypes
<1>2. Below(m) \in SUBSET Nat /\ Above(m) \in SUBSET Nat
  BY PlanAssumption DEF Below, Above, Market
<1>3. Below(m) # {} => Max(Below(m)) \in Nat
  <2>1. \A l \in Below(m) : l <= m.price
    BY SMT, <1>1, <1>2 DEF Below, One
  <2> QED
    BY <1>1, <1>2, <2>1, GreatestNatural DEF Max
<1>4. Above(m) # {} => Min(Above(m)) \in Nat
  BY <1>2, LeastNatural DEF Min
<1>5. Buffer(m) \in Int
  BY SMT, <1>1 DEF Buffer
<1> HIDE DEF Below, Above, Buffer
<1>6. /\ Below(m) # {} => Max(Below(m)) * One \in Int
      /\ Above(m) # {} => Min(Above(m)) * One \in Int
      /\ plan.stopLoss * One \in Int /\ plan.takeProfit * One \in Int
  BY SMT, <1>3, <1>4 DEF One
<1> QED
  BY <1>5, <1>6 DEF Proposal

LEMMA EntryIsSound ==
  ASSUME NEW m \in Market, m.atr >= 2, NEW d
  PROVE  Sound(EntryParameters(m, d).plan)
<1> DEFINE base == BasePlan(m, d)
           proposal == Proposal(m, base)
           plan == Refined(m, base)
<1>1. CASE plan = base
  BY <1>1, BasePlanIsSound DEF EntryParameters
<1>2. CASE plan # base
  <2>1. base.direction = d /\ base.stopLoss \in Int /\ base.takeProfit \in Int
    <3>1. m.price \in Int /\ StopDistance(m) \in Int /\ TargetDistance(m) \in Int
      BY MarketTypes, BaseDistances
    <3>2. Toward(d, m.price, -StopDistance(m)) \in Int /\ Toward(d, m.price, TargetDistance(m)) \in Int
      BY <3>1 DEF Toward
    <3> QED
      BY <3>2, RoundingBound DEF BasePlan
  <2>2. /\ Acceptable(m, d, proposal)
        /\ plan = [base EXCEPT !.stopLoss = FormatPrice(proposal.sl),
                               !.takeProfit = FormatPrice(proposal.tp),
                               !.riskReward = Ratio(Distance(m.price, proposal.tp),
                                                    Distance(m.price, proposal.sl)),
                               !.adjusted = TRUE]
    BY <1>2, <2>1 DEF Refined
  <2>3. /\ plan.price = FormatPrice(m.price) /\ plan.stopLoss = FormatPrice(proposal.sl)
        /\ plan.takeProfit = FormatPrice(proposal.tp) /\ plan.adjusted /\ plan.direction = d
    BY <2>2 DEF BasePlan
  <2>4. proposal.sl \in Int /\ proposal.tp \in Int /\ m.price \in Int /\ MinRR \in Nat
    BY <2>1, ProposalType, MarketTypes, PlanAssumption
  <2> HIDE DEF base, proposal, plan
  <2>5. PICK r, w \in Int :
          /\ r >= One /\ w >= One /\ 10 * w >= MinRR * r
          /\ IF d = "BUY" THEN m.price - proposal.sl = r /\ proposal.tp - m.price = w
                          ELSE proposal.sl - m.price = r /\ m.price - proposal.tp = w
    BY <2>2, <2>4, AcceptedDistances
  <2>6. Floor(plan) = MinRR
    BY <2>3 DEF Floor
  <2>7. Sound(plan)
    BY <2>3, <2>4, <2>5, <2>6, RoundedPlanIsSound
  <2> QED
    BY <2>7 DEF plan, base, EntryParameters
<1> QED
  BY <1>1, <1>2

SoundInv ==
  /\ \A k \in DOMAIN entryByPair : Sound(entryByPair[k].plan)
  /\ entry # NoEntry => Sound(entry.plan)

\* When an ATR is two ticks at least, every entry that is returned, cached or not,
\* has its stop and target on their sides and keeps its risk/reward floor.  (With
\* an ATR of one tick a refined stop can be rounded onto the entry.)
THEOREM PlansAreSound ==
  ASSUME \A a \in Atr : a >= 2
  PROVE  Spec => []PlanIsSound
<1>1. Init => SoundInv
  BY DEF Init, SoundInv
<1>2. SoundInv /\ [Next]_vars => SoundInv'
  <2> SUFFICES ASSUME SoundInv, [Next]_vars PROVE SoundInv'
    OBVIOUS
  <2>1. ASSUME NEW m \in Market, NEW d \in {"BUY", "SELL"}, ReturnCached(m, d) PROVE SoundInv'
    BY <2>1 DEF ReturnCached, Cached, SoundInv
  <2>2. ASSUME NEW m \in Market, NEW d \in {"BUY", "SELL"}, CalculateEntryParameters(m, d) PROVE SoundInv'
    <3>1. Sound(entry'.plan)
      <4>1. m.atr >= 2
        BY DEF Market
      <4> QED
        BY <2>2, <4>1, EntryIsSound DEF CalculateEntryParameters
    <3>2. \A k \in DOMAIN entryByPair' :
            entryByPair'[k] = entry' \/ (k \in DOMAIN entryByPair /\ entryByPair'[k] = entryByPair[k])
      BY <2>2 DEF CalculateEntryParameters
    <3> QED
      BY <3>1, <3>2 DEF SoundInv
  <2>3. CASE UNCHANGED vars
    BY <2>3 DEF vars, SoundInv
  <2> QED
    BY <2>1, <2>2, <2>3 DEF Next
<1>3. SoundInv => PlanIsSound
  BY DEF SoundInv, PlanIsSound, Sound, Risk, Reward, Floor
<1> QED
  BY <1>1, <1>2, <1>3, PTL DEF Spec
=============================================================================
