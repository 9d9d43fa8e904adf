------------------------ MODULE TradeProtectionProofs ------------------------
(***************************************************************************)
(* What TradeProtection guarantees for any number of overlapping cycles,   *)
(* any plan whose breakeven does not come after trailing, and any prices.  *)
(*                                                                         *)
(* The stop and the flag movedToBreakeven belong together: without the     *)
(* supervisor a trade that was not moved still has its first stop.  So     *)
(* breakeven never takes back a trailed stop, and the trade's stop only    *)
(* gets better; what was sent earlier is then never better than it.        *)
(*                                                                         *)
(* The last part follows the broker's stop: lastBrokerStopLossSent is not  *)
(* better than the trade's stop, so that it equals the stop to be sent     *)
(* only when that stop has been sent already; a broker left behind has a   *)
(* cause, and requests that overtake each other were out together.         *)
(***************************************************************************)
EXTENDS TradeProtection, TLAPS

\* The supervisor is off, and breakeven comes before trailing.
Steady(t) == ~Supervisor /\ Consistent(t)

\* A steady trade not moved to breakeven still has its first stop.
FirstStop(t) ==
  (Steady(t) /\ ~t.movedToBreakeven) => t.stopLoss = At(t.direction, -t.plan.stop)

Unmoved == FirstStop(trade)

IInv == TypeOK /\ Unmoved /\ NothingBeyondTheStop

SamePlan(t, u) == /\ u.direction = t.direction
                  /\ u.plan = t.plan

\* u differs from t in nothing the stop depends on.
Neutral(t, u) == /\ SamePlan(t, u)
                 /\ u.stopLoss = t.stopLoss
                 /\ u.movedToBreakeven = t.movedToBreakeven

-----------------------------------------------------------------------------
(* Trades *)

LEMMA SteadySame ==
  ASSUME NEW t, NEW u, SamePlan(t, u) PROVE Steady(u) = Steady(t)
  BY DEF SamePlan, Steady, Consistent

LEMMA TradeFields ==
  ASSUME NEW t \in TradeRecord
  PROVE  /\ t.direction \in {"BUY", "SELL"}
         /\ t.plan \in Plan
         /\ t.plan.stop \in Nat /\ t.plan.target \in Nat /\ t.plan.breakeven \in Nat
         /\ t.plan.activation \in Nat /\ t.plan.trailing \in Nat /\ t.plan.step \in Nat
         /\ t.stopLoss \in Int
         /\ t.movedToBreakeven \in BOOLEAN
         /\ EntryPrice \in Int
<1>1. t.plan \in Plan /\ t.plan \in PlanRecord
  BY ProtectionAssumption DEF TradeRecord
<1> QED
  BY <1>1, ProtectionAssumption DEF TradeRecord, PlanRecord

LEMMA StopSet ==
  ASSUME NEW t \in TradeRecord, NEW s \in Int
  PROVE  LET u == [t EXCEPT !.stopLoss = s]
         IN /\ u \in TradeRecord /\ SamePlan(t, u)
            /\ u.stopLoss = s /\ u.movedToBreakeven = t.movedToBreakeven
  BY DEF TradeRecord, SamePlan

LEMMA BreakevenSet ==
  ASSUME NEW t \in TradeRecord
  PROVE  LET u == AtBreakeven(t)
         IN /\ u \in TradeRecord /\ SamePlan(t, u)
            /\ u.stopLoss = EntryPrice /\ u.movedToBreakeven
<1>1. EntryPrice \in Int
  BY ProtectionAssumption
<1> QED
  BY <1>1 DEF TradeRecord, SamePlan, AtBreakeven

\* The other fields of a trade may change without touching what is proved here.
LEMMA OtherFields ==
  ASSUME NEW t \in TradeRecord,
         NEW p \in Int, NEW s \in Int \cup {NoStop}, NEW b \in BOOLEAN
  PROVE  /\ [t EXCEPT !.currentPnL = p] \in TradeRecord
         /\ [t EXCEPT !.lastBrokerStopLossSent = s] \in TradeRecord
         /\ [t EXCEPT !.recentModify = b] \in TradeRecord
         /\ [t EXCEPT !.committed = b] \in TradeRecord
  BY DEF TradeRecord

LEMMA OtherFieldsKeep ==
  ASSUME NEW t \in TradeRecord, NEW x
  PROVE  /\ Neutral(t, [t EXCEPT !.currentPnL = x])
         /\ Neutral(t, [t EXCEPT !.lastBrokerStopLossSent = x])
         /\ Neutral(t, [t EXCEPT !.recentModify = x])
         /\ Neutral(t, [t EXCEPT !.committed = x])
  BY DEF TradeRecord, SamePlan, Neutral

-----------------------------------------------------------------------------
(* The rules *)

\* Improvement is a total order on stops, read in the direction of the trade.
LEMMA ImprovementAdds ==
  ASSUME NEW t, NEW a \in Int, NEW b \in Int, NEW c \in Int,
         Improvement(t, a, b) >= 0, Improvement(t, b, c) >= 0
  PROVE  Improvement(t, a, c) >= 0
  BY DEF Improvement

LEMMA ImprovementSame ==
  ASSUME NEW t, NEW a \in Int
  PROVE  Improvement(t, a, a) >= 0
  BY DEF Improvement

LEMMA ImprovementDirection ==
  ASSUME NEW t, NEW u, u.direction = t.direction, NEW a \in Int, NEW b \in Int
  PROVE  Improvement(u, a, b) = Improvement(t, a, b)
  BY DEF Improvement

\* Moving to breakeven and trailing only improve the stop.
LEMMA BreakevenImproves ==
  ASSUME NEW t \in TradeRecord, NEW price \in Int, FirstStop(t), Steady(t)
  PROVE  LET u == MovedToBreakeven(t, price)
         IN /\ u \in TradeRecord /\ SamePlan(t, u) /\ FirstStop(u)
            /\ Improvement(t, t.stopLoss, u.stopLoss) >= 0
<1>1. CASE ~t.movedToBreakeven /\ ShouldMoveToBreakeven(t, price)
  <2>1. t.stopLoss = At(t.direction, -t.plan.stop)
    BY <1>1 DEF FirstStop
  <2>2. Improvement(t, t.stopLoss, EntryPrice) >= 0
    BY <2>1, TradeFields DEF Improvement, At
  <2>3. MovedToBreakeven(t, price) = AtBreakeven(t)
    BY <1>1 DEF MovedToBreakeven
  <2> QED
    BY <2>2, <2>3, BreakevenSet DEF FirstStop
<1>2. CASE ~(~t.movedToBreakeven /\ ShouldMoveToBreakeven(t, price))
  BY <1>2, ImprovementSame, TradeFields DEF MovedToBreakeven, SamePlan
<1> QED
  BY <1>1, <1>2

LEMMA MovedType ==
  ASSUME NEW t \in TradeRecord, NEW price \in Int
  PROVE  /\ MovedToBreakeven(t, price) \in TradeRecord
         /\ SamePlan(t, MovedToBreakeven(t, price))
  BY BreakevenSet DEF MovedToBreakeven, SamePlan

LEMMA TrailedImproves ==
  ASSUME NEW t \in TradeRecord, NEW price \in Int
  PROVE  LET u == Trailed(t, price)
         IN /\ u \in TradeRecord /\ SamePlan(t, u)
            /\ u.movedToBreakeven = t.movedToBreakeven
            /\ Improvement(t, t.stopLoss, u.stopLoss) >= 0
            /\ ~ShouldActivateTrailing(t, price) => u = t
<1> DEFINE new == IF t.direction = "BUY" THEN price - t.plan.trailing
                                         ELSE price + t.plan.trailing
<1>1. new \in Int
  BY TradeFields
<1>2. CASE /\ ShouldActivateTrailing(t, price)
           /\ Improvement(t, t.stopLoss, new) > 0
           /\ Improvement(t, t.stopLoss, new) >= t.plan.step
  <2>1. Trailed(t, price) = [t EXCEPT !.stopLoss = new]
    BY <1>2 DEF Trailed
  <2>2. Improvement(t, t.stopLoss, new) >= 0
    BY <1>1, <1>2, TradeFields DEF Improvement
  <2> HIDE DEF new
  <2> QED
    BY <1>1, <1>2, <2>1, <2>2, StopSet
<1>3. CASE ~(/\ ShouldActivateTrailing(t, price)
             /\ Improvement(t, t.stopLoss, new) > 0
             /\ Improvement(t, t.stopLoss, new) >= t.plan.step)
  <2>1. Trailed(t, price) = t
    BY <1>3 DEF Trailed
  <2> QED
    BY <2>1, ImprovementSame, TradeFields DEF SamePlan
<1> QED
  BY <1>2, <1>3

\* A price that activates trailing is past breakeven, on either side.
LEMMA TrailingIsPastBreakeven ==
  ASSUME NEW t \in TradeRecord, NEW price \in Int, ShouldActivateTrailing(t, price),
         Consistent(t)
  PROVE  ShouldMoveToBreakeven(t, price)
  BY TradeFields
     DEF ShouldActivateTrailing, ShouldMoveToBreakeven, Profit, Distance, Consistent

LEMMA ManagedType ==
  ASSUME NEW t \in TradeRecord, NEW price \in Int
  PROVE  Managed(t, price) \in TradeRecord /\ SamePlan(t, Managed(t, price))
<1>1. MovedToBreakeven(t, price) \in TradeRecord /\ SamePlan(t, MovedToBreakeven(t, price))
  BY MovedType
<1> QED
  BY <1>1, TrailedImproves DEF Managed, SamePlan

LEMMA ManagedImproves ==
  ASSUME NEW t \in TradeRecord, NEW price \in Int, FirstStop(t), Steady(t)
  PROVE  /\ FirstStop(Managed(t, price))
         /\ Improvement(t, t.stopLoss, Managed(t, price).stopLoss) >= 0
<1> DEFINE b == MovedToBreakeven(t, price)
           m == Trailed(b, price)
<1>1. b \in TradeRecord /\ SamePlan(t, b) /\ FirstStop(b)
      /\ Improvement(t, t.stopLoss, b.stopLoss) >= 0
  BY BreakevenImproves
<1>2. m \in TradeRecord /\ SamePlan(b, m) /\ m.movedToBreakeven = b.movedToBreakeven
      /\ Improvement(b, b.stopLoss, m.stopLoss) >= 0
      /\ (~ShouldActivateTrailing(b, price) => m = b)
  BY <1>1, TrailedImproves
<1>3. Managed(t, price) = m
  BY DEF Managed
<1>4. ~m.movedToBreakeven => m = b
  <2>1. SUFFICES ASSUME ~b.movedToBreakeven, ShouldActivateTrailing(b, price)
                 PROVE  FALSE
    BY <1>2
  <2>2. ShouldMoveToBreakeven(b, price)
    BY <1>1, <2>1, SteadySame, TrailingIsPastBreakeven DEF Steady
  <2>3. ShouldMoveToBreakeven(t, price)
    BY <1>1, <2>2 DEF ShouldMoveToBreakeven, SamePlan
  <2>4. t.movedToBreakeven \/ b = AtBreakeven(t)
    BY <2>3 DEF MovedToBreakeven
  <2>5. b = AtBreakeven(t) => b.movedToBreakeven
    BY BreakevenSet
  <2>6. t.movedToBreakeven => b = t
    BY DEF MovedToBreakeven
  <2> QED
    BY <2>1, <2>4, <2>5, <2>6
<1>5. FirstStop(m)
  BY <1>1, <1>4 DEF FirstStop
<1>6. Improvement(t, b.stopLoss, m.stopLoss) >= 0
  BY <1>1, <1>2, TradeFields, ImprovementDirection DEF SamePlan
<1>7. Improvement(t, t.stopLoss, m.stopLoss) >= 0
  <2>1. t.stopLoss \in Int /\ b.stopLoss \in Int /\ m.stopLoss \in Int
    BY <1>1, <1>2, TradeFields
  <2> HIDE DEF b, m
  <2> QED
    BY <1>1, <1>6, <2>1, ImprovementAdds
<1> QED
  BY <1>3, <1>5, <1>7

-----------------------------------------------------------------------------
(* Initial states *)

LEMMA InitIInv == Init => IInv
<1> SUFFICES ASSUME Init PROVE IInv
  OBVIOUS
<1> USE ProtectionAssumption
<1>1. PICK d \in Direction, p \in Plan :
        /\ trade = [direction |-> d, plan |-> p, stopLoss |-> At(d, -p.stop),
                    movedToBreakeven |-> FALSE, committed |-> FALSE, currentPnL |-> 0,
                    recentModify |-> FALSE, lastBrokerStopLossSent |-> NoStop]
        /\ broker = [open |-> FALSE, stop |-> At(d, -p.stop)]
  BY DEF Init
<1>2. p.stop \in Nat /\ At(d, -p.stop) \in Int
  <2>1. p \in PlanRecord
    OBVIOUS
  <2>2. p.stop \in Nat
    BY <2>1 DEF PlanRecord
  <2> QED
    BY <2>2 DEF At
<1>3. trade \in TradeRecord /\ broker \in [open : BOOLEAN, stop : Int]
  BY <1>1, <1>2 DEF TradeRecord
<1>4. TypeOK
  BY <1>3 DEF Init, TypeOK, CycleRecord, IdleCycle
<1>5. Unmoved
  BY <1>1 DEF Unmoved, FirstStop
<1>6. NothingBeyondTheStop
  <2>1. Improvement(trade, broker.stop, trade.stopLoss) >= 0
    BY <1>1, <1>2, ImprovementSame
  <2>2. InFlight = {} /\ late = {}
    BY DEF Init, InFlight, IdleCycle
  <2> QED
    BY <2>1, <2>2 DEF NothingBeyondTheStop
<1> QED
  BY <1>4, <1>5, <1>6 DEF IInv

-----------------------------------------------------------------------------
(* What a step does to the trade *)

Improved(t, u) ==
  /\ u \in TradeRecord
  /\ SamePlan(t, u)
  /\ FirstStop(u)
  /\ Steady(t) => Improvement(t, t.stopLoss, u.stopLoss) >= 0

LEMMA ImprovedSame ==
  ASSUME NEW t \in TradeRecord, FirstStop(t) PROVE Improved(t, t)
  BY ImprovementSame, TradeFields DEF Improved, SamePlan

\* A change of the other fields is no change for this argument.
LEMMA ImprovedOther ==
  ASSUME NEW t \in TradeRecord, NEW u \in TradeRecord, NEW v,
         Neutral(t, u)
  PROVE  /\ FirstStop(t) => FirstStop(u)
         /\ Improved(u, v) => Improved(t, v)
         /\ FirstStop(t) => Improved(t, u)
<1> USE DEF Neutral
<1>1. FirstStop(t) => FirstStop(u)
  BY SteadySame DEF FirstStop, SamePlan
<1>2. Improvement(u, u.stopLoss, v.stopLoss) = Improvement(t, t.stopLoss, v.stopLoss)
  BY DEF Improvement, SamePlan
<1>3. Improvement(t, t.stopLoss, u.stopLoss) >= 0
  BY ImprovementSame, TradeFields
<1> QED
  BY <1>1, <1>2, <1>3, SteadySame DEF Improved, SamePlan

LEMMA PricedTrade ==
  ASSUME TypeOK
  PROVE  Priced \in TradeRecord /\ Neutral(trade, Priced)
<1>1. trade \in TradeRecord /\ market \in Int
  BY DEF TypeOK
<1>2. Profit(trade, market) \in Int
  BY <1>1, TradeFields DEF Profit
<1>3. Priced \in TradeRecord
  BY <1>1, <1>2, ProtectionAssumption, OtherFields DEF Priced
<1> QED
  BY <1>1, <1>3, OtherFieldsKeep DEF Priced

\* From the price, through the rules, to the trade the cycle leaves.
LEMMA ManagedImproved ==
  ASSUME IInv, NEW t \in TradeRecord, SamePlan(trade, t),
         Steady(trade) => Neutral(trade, t)
  PROVE  Improved(trade, Managed(t, market))
<1>1. trade \in TradeRecord /\ market \in Int /\ FirstStop(trade)
  BY DEF IInv, TypeOK, Unmoved
<1>2. Managed(t, market) \in TradeRecord /\ SamePlan(t, Managed(t, market))
  BY <1>1, ManagedType
<1>3. CASE ~Steady(trade)
  BY <1>2, <1>3, SteadySame DEF Improved, SamePlan, FirstStop
<1>4. CASE Steady(trade)
  <2>1. FirstStop(t)
    BY <1>1, <1>4, ImprovedOther
  <2>2. Improved(t, Managed(t, market))
    BY <1>1, <1>2, <1>4, <2>1, ManagedImproves, SteadySame DEF Neutral, Improved
  <2> QED
    BY <1>1, <1>4, <2>2, ImprovedOther
<1> QED
  BY <1>3, <1>4

LEMMA SupervisedTrade ==
  ASSUME NEW t \in TradeRecord
  PROVE  Supervised(t) \in TradeRecord /\ SamePlan(t, Supervised(t))
  BY BreakevenSet DEF Supervised, SamePlan

LEMMA StepImproves ==
  ASSUME IInv, [Next]_vars
  PROVE  Improved(trade, trade')
<1> USE DEF IInv
<1>1. trade \in TradeRecord /\ FirstStop(trade)
  BY DEF TypeOK, Unmoved
<1>2. ASSUME UNCHANGED trade PROVE Improved(trade, trade')
  BY <1>1, <1>2, ImprovedSame
<1>3. ASSUME trade' \in TradeRecord, Neutral(trade, trade')
      PROVE  Improved(trade, trade')
  BY <1>1, <1>3, ImprovedOther
<1>4. ASSUME NEW c \in Cycle, Manage(c) PROVE Improved(trade, trade')
  <2>1. trade' = Managed(Priced, market)
    BY <1>4 DEF Manage, ManageFrom
  <2> QED
    BY <2>1, PricedTrade, ManagedImproved DEF Neutral
<1>5. ASSUME NEW c \in Cycle, SuperviseBreakeven(c) PROVE Improved(trade, trade')
  <2>1. trade' = Managed(Supervised(Priced), market) /\ Supervisor
    BY <1>5 DEF SuperviseBreakeven, ManageFrom
  <2>2. Supervised(Priced) \in TradeRecord /\ SamePlan(trade, Supervised(Priced))
    BY PricedTrade, SupervisedTrade DEF SamePlan, Neutral
  <2> QED
    BY <2>1, <2>2, ManagedImproved DEF Steady
<1>6. ASSUME NEW c \in Cycle, SuperviseClose(c) PROVE Improved(trade, trade')
  BY <1>3, <1>6, PricedTrade DEF SuperviseClose
<1>7. ASSUME NEW r \in BOOLEAN,
             \/ trade' = [trade EXCEPT !.recentModify = r]
             \/ trade' = [trade EXCEPT !.committed = r]
      PROVE  Improved(trade, trade')
  <2>1. trade' \in TradeRecord
    BY <1>1, <1>7, 0 \in Int, OtherFields
  <2>2. Neutral(trade, trade')
    BY <1>1, <1>7, OtherFieldsKeep
  <2> QED
    BY <1>3, <2>1, <2>2
<1>8. ASSUME NEW c \in Cycle, ModifySucceeds(c) PROVE Improved(trade, trade')
  <2> DEFINE v == [trade EXCEPT !.lastBrokerStopLossSent = cycle[c].sent]
  <2>1. PICK r \in BOOLEAN : trade' = [v EXCEPT !.recentModify = r]
    BY <1>8 DEF ModifySucceeds, Answered
  <2>2. cycle[c].sent \in Int
    BY ProtectionAssumption DEF TypeOK, CycleRecord
  <2>3. v \in TradeRecord /\ Neutral(trade, v)
    BY <1>1, <2>2, OtherFields, OtherFieldsKeep
  <2> HIDE DEF v
  <2>4. [v EXCEPT !.recentModify = r] \in TradeRecord
        /\ Neutral(v, [v EXCEPT !.recentModify = r])
    BY <2>3, OtherFields, OtherFieldsKeep, 0 \in Int
  <2> QED
    BY <1>3, <2>1, <2>3, <2>4 DEF Neutral, SamePlan
<1>9. ASSUME NEW c \in Cycle, ModifyRefused(c) \/ ModifyTimesOut(c)
      PROVE  Improved(trade, trade')
  <2>1. PICK r \in BOOLEAN : trade' = [trade EXCEPT !.recentModify = r]
    BY <1>9 DEF ModifyRefused, ModifyTimesOut, Answered
  <2> QED
    BY <1>7, <2>1
<1>10. CommitSucceeds \/ ThrottleExpires => Improved(trade, trade')
  BY <1>7 DEF CommitSucceeds, ThrottleExpires
<1>11. ASSUME NEW c \in Cycle, CycleStep(c) PROVE Improved(trade, trade')
  <2>1. \/ UNCHANGED trade \/ Manage(c) \/ SuperviseBreakeven(c) \/ SuperviseClose(c)
        \/ ModifySucceeds(c) \/ ModifyRefused(c) \/ ModifyTimesOut(c)
    BY <1>11 DEF CycleStep, VisitTrade, PriceFails, CloseAnswered, BrokerApplies,
                 BrokerRefuses
  <2> QED
    BY <2>1, <1>2, <1>4, <1>5, <1>6, <1>8, <1>9
<1>12. \/ UNCHANGED trade \/ (\E c \in Cycle : CycleStep(c))
       \/ CommitSucceeds \/ ThrottleExpires
  BY DEF Next, vars, LateRequest, CommitFails, ClosedElsewhere, PriceMoves
<1> QED
  BY <1>2, <1>10, <1>11, <1>12

-----------------------------------------------------------------------------
(* Types *)

LEMMA CycleRecords ==
  /\ IdleCycle \in CycleRecord /\ IdleCycle.stage = "idle"
  /\ [IdleCycle EXCEPT !.stage = "close"] \in CycleRecord
  /\ [IdleCycle EXCEPT !.stage = "close"].stage = "close"
  /\ \A q, s \in Int :
       LET r == [stage |-> "modify", quote |-> q, sent |-> s, fate |-> "travelling"]
       IN r \in CycleRecord /\ r.sent = s
  BY ProtectionAssumption DEF CycleRecord, IdleCycle

LEMMA CycleFields ==
  ASSUME NEW r \in CycleRecord
  PROVE  /\ r.stage \in {"idle", "price", "close", "modify"}
         /\ r.quote \in Int /\ r.sent \in Int
         /\ r.stage = "idle" => [r EXCEPT !.stage = "price"] \in CycleRecord
         /\ r.stage = "idle" => [r EXCEPT !.stage = "price"].stage = "price"
  BY ProtectionAssumption DEF CycleRecord

LEMMA FateSet ==
  ASSUME NEW r \in CycleRecord, r.stage = "modify", NEW f \in {"applied", "refused"}
  PROVE  /\ [r EXCEPT !.fate = f] \in CycleRecord
         /\ [r EXCEPT !.fate = f].sent = r.sent
  BY DEF CycleRecord

LEMMA AfterSyncType ==
  ASSUME NEW t, NEW quote
  PROVE  AfterSync(t, quote) \in CycleRecord /\ AfterSync(t, quote).stage # "modify"
  BY CycleRecords DEF AfterSync

\* One cycle gets a record: the others keep theirs.
LEMMA CycleUpdate ==
  ASSUME TypeOK, NEW c \in Cycle, NEW r \in CycleRecord,
         cycle' = [cycle EXCEPT ![c] = r]
  PROVE  /\ cycle' \in [Cycle -> CycleRecord]
         /\ cycle'[c] = r
         /\ \A d \in Cycle \ {c} : cycle'[d] = cycle[d]
  BY DEF TypeOK

LEMMA MissedType ==
  ASSUME NEW t, NEW known \in SUBSET Reason
  PROVE  MissedBySync(t, known) \subseteq Reason
<1>1. \/ ~t.committed
      \/ t.committed /\ Throttled(t)
      \/ t.committed /\ ~Throttled(t) /\ Unchanged(t)
      \/ SendsModify(t)
  BY DEF SendsModify
<1> QED
  BY <1>1 DEF MissedBySync, Reason, SendsModify

\* What a step does to the requests: each cycle keeps its request, drops it, or
\* sends the stop the trade has after the step.
Requests(c) ==
  /\ cycle' \in [Cycle -> CycleRecord]
  /\ \A d \in Cycle \ {c} : cycle'[d] = cycle[d]
  /\ cycle'[c].stage = "modify" =>
       \/ cycle[c].stage = "modify" /\ cycle'[c].sent = cycle[c].sent
       \/ cycle'[c].sent = trade'.stopLoss

LEMMA SyncRequests ==
  ASSUME TypeOK, NEW c \in Cycle, NEW t, NEW reasons \in SUBSET Reason,
         ManageFrom(c, t, reasons), trade' \in TradeRecord
  PROVE  Requests(c) /\ missed' \subseteq Reason
<1> DEFINE moved == Managed(t, market)
           sends == moved.stopLoss # t.stopLoss /\ SendsModify(moved)
           request == [stage |-> "modify", quote |-> market, sent |-> moved.stopLoss,
                       fate |-> "travelling"]
           r == IF sends THEN request ELSE AfterSync(moved, market)
<1>1. trade' = moved /\ moved.stopLoss \in Int /\ market \in Int
  BY TradeFields DEF ManageFrom, TypeOK
<1>2. request \in CycleRecord /\ request.sent = moved.stopLoss
  BY <1>1, CycleRecords
<1>3. r \in CycleRecord /\ (r.stage = "modify" => r.sent = trade'.stopLoss)
  <2> HIDE DEF request, moved
  <2>1. CASE sends
    BY <1>1, <1>2, <2>1
  <2>2. CASE ~sends
    BY <2>2, AfterSyncType
  <2> QED
    BY <2>1, <2>2
<1>4. cycle' = [cycle EXCEPT ![c] = r]
  BY DEF ManageFrom
<1>5. Requests(c)
  <2> HIDE DEF r
  <2> QED
    BY <1>3, <1>4, CycleUpdate DEF Requests
<1>6. missed' \subseteq Reason
  BY MissedType DEF ManageFrom, TypeOK
<1> QED
  BY <1>5, <1>6

LEMMA StepRequests ==
  ASSUME IInv, NEW c \in Cycle, CycleStep(c)
  PROVE  Requests(c) /\ missed' \subseteq Reason
<1> USE DEF IInv
<1>1. trade' \in TradeRecord
  <2>1. Next
    BY DEF Next
  <2> QED
    BY <2>1, StepImproves DEF Improved
<1>2. cycle[c] \in CycleRecord /\ missed \subseteq Reason
  BY DEF TypeOK
<1>3. ASSUME NEW r \in CycleRecord, cycle' = [cycle EXCEPT ![c] = r],
             r.stage = "modify" => cycle[c].stage = "modify" /\ r.sent = cycle[c].sent
      PROVE  Requests(c)
  BY <1>3, CycleUpdate DEF Requests
<1>4. CASE VisitTrade(c)
  <2>1. cycle' = [cycle EXCEPT ![c] = [cycle[c] EXCEPT !.stage = "price"]]
        /\ cycle[c].stage = "idle" /\ missed' = missed
    BY <1>4 DEF VisitTrade
  <2> QED
    BY <1>2, <1>3, <2>1, CycleFields
<1>5. CASE PriceFails(c) \/ CloseAnswered(c)
  BY <1>2, <1>3, <1>5, CycleRecords DEF PriceFails, CloseAnswered
<1>6. CASE Manage(c)
  <2>1. ManageFrom(c, Priced, {})
    BY <1>6 DEF Manage
  <2> QED
    BY <1>1, <2>1, SyncRequests
<1>7. CASE SuperviseBreakeven(c)
  <2>1. PICK reasons \in SUBSET Reason : ManageFrom(c, Supervised(Priced), reasons)
    BY <1>7 DEF SuperviseBreakeven, Reason
  <2> QED
    BY <1>1, <2>1, SyncRequests
<1>8. CASE SuperviseClose(c)
  <2>1. PICK r \in {IdleCycle, [IdleCycle EXCEPT !.stage = "close"]} :
          cycle' = [cycle EXCEPT ![c] = r]
    BY <1>8 DEF SuperviseClose
  <2>2. r \in CycleRecord /\ r.stage # "modify"
    BY CycleRecords
  <2>3. missed' = missed
    BY <1>8 DEF SuperviseClose
  <2> QED
    BY <1>2, <1>3, <2>1, <2>2, <2>3
<1>9. CASE ModifySucceeds(c) \/ ModifyRefused(c) \/ ModifyTimesOut(c)
  <2>1. PICK t, reasons : Answered(c, t, reasons) /\ reasons \subseteq Reason
    <3>1. CASE ModifySucceeds(c)
      BY <3>1 DEF ModifySucceeds
    <3>2. CASE ModifyRefused(c) \/ ModifyTimesOut(c)
      <4>1. Answered(c, trade, {"failed"})
        BY <3>2 DEF ModifyRefused, ModifyTimesOut
      <4>2. {"failed"} \subseteq Reason
        BY DEF Reason
      <4> QED
        BY <4>1, <4>2
    <3> QED
      BY <1>9, <3>1, <3>2
  <2> QED
    BY <1>2, <1>3, <2>1, AfterSyncType DEF Answered
<1>10. CASE BrokerApplies(c) \/ BrokerRefuses(c)
  <2>1. PICK f \in {"applied", "refused"} :
          cycle' = [cycle EXCEPT ![c] = [cycle[c] EXCEPT !.fate = f]]
    BY <1>10 DEF BrokerApplies, BrokerRefuses
  <2>2. cycle[c].stage = "modify" /\ missed' = missed
    BY <1>10 DEF BrokerApplies, BrokerRefuses
  <2> DEFINE r == [cycle[c] EXCEPT !.fate = f]
  <2>3. r \in CycleRecord /\ r.sent = cycle[c].sent
    BY <1>2, <2>2, FateSet
  <2>4. cycle' = [cycle EXCEPT ![c] = r]
    BY <2>1
  <2> HIDE DEF r
  <2>5. Requests(c)
    BY <1>3, <2>2, <2>3, <2>4
  <2> QED
    BY <1>2, <2>2, <2>5
<1> QED
  BY <1>4, <1>5, <1>6, <1>7, <1>8, <1>9, <1>10 DEF CycleStep

\* What a step does at the broker: its stop is kept, or comes from a request.
BrokerMoves ==
  /\ broker' \in [open : BOOLEAN, stop : Int]
  /\ \/ broker'.stop = broker.stop
     \/ \E c \in InFlight : broker'.stop = cycle[c].sent
     \/ broker'.stop \in late

LEMMA StepBroker ==
  ASSUME TypeOK, [Next]_vars
  PROVE  BrokerMoves
<1>1. CASE UNCHANGED broker
  BY <1>1 DEF TypeOK, BrokerMoves
<1>2. ASSUME NEW o \in BOOLEAN, broker' = [broker EXCEPT !.open = o] PROVE BrokerMoves
  BY <1>2 DEF TypeOK, BrokerMoves
<1>3. ASSUME NEW c \in Cycle, BrokerApplies(c) PROVE BrokerMoves
  <2>1. cycle[c].sent \in Int /\ c \in InFlight
    BY <1>3, CycleFields DEF TypeOK, BrokerApplies, InFlight
  <2> QED
    BY <1>3, <2>1 DEF TypeOK, BrokerApplies, BrokerMoves
<1>4. ASSUME NEW s \in late, LateRequest(s) PROVE BrokerMoves
  BY <1>1, <1>4 DEF TypeOK, LateRequest, BrokerMoves
<1>5. ASSUME NEW c \in Cycle, CycleStep(c) PROVE BrokerMoves
  <2>1. CASE CloseAnswered(c)
    BY <1>2, <2>1 DEF CloseAnswered, TypeOK
  <2>2. UNCHANGED broker \/ CloseAnswered(c) \/ BrokerApplies(c)
    BY <1>5 DEF CycleStep, VisitTrade, PriceFails, Manage, SuperviseBreakeven,
                SuperviseClose, ModifySucceeds, ModifyRefused, ModifyTimesOut,
                Answered, BrokerRefuses
  <2> QED
    BY <1>1, <1>3, <2>1, <2>2
<1>6. CASE CommitSucceeds \/ ClosedElsewhere
  BY <1>2, <1>6 DEF CommitSucceeds, ClosedElsewhere, TypeOK
<1>7. CASE CommitFails \/ ThrottleExpires \/ PriceMoves \/ UNCHANGED vars
  BY <1>1, <1>7 DEF CommitFails, ThrottleExpires, PriceMoves, vars
<1> QED
  BY <1>4, <1>5, <1>6, <1>7 DEF Next

-----------------------------------------------------------------------------
(* The invariant *)

LEMMA StepType ==
  ASSUME IInv, [Next]_vars PROVE TypeOK'
<1> USE DEF IInv
<1>1. trade' \in TradeRecord
  BY StepImproves DEF Improved
<1>2. broker' \in [open : BOOLEAN, stop : Int]
  BY StepBroker DEF BrokerMoves
<1>3. market' \in Int
  BY ProtectionAssumption
     DEF TypeOK, Next, vars, CycleStep, VisitTrade, PriceFails, Manage,
         SuperviseBreakeven, SuperviseClose, ModifySucceeds, ModifyRefused,
         ModifyTimesOut, Answered, CloseAnswered, BrokerApplies, BrokerRefuses,
         LateRequest, CommitSucceeds, CommitFails, ClosedElsewhere,
         ThrottleExpires, PriceMoves
<1>4. active' \in BOOLEAN
  BY DEF TypeOK, Next, vars, CycleStep, VisitTrade, PriceFails, Manage,
         SuperviseBreakeven, SuperviseClose, ModifySucceeds, ModifyRefused,
         ModifyTimesOut, Answered, CloseAnswered, BrokerApplies, BrokerRefuses,
         LateRequest, CommitSucceeds, CommitFails, ClosedElsewhere,
         ThrottleExpires, PriceMoves
<1>5. (\E c \in Cycle : CycleStep(c)) \/ UNCHANGED <<cycle, missed>>
  BY DEF Next, vars, LateRequest, CommitSucceeds, CommitFails, ClosedElsewhere,
         ThrottleExpires, PriceMoves
<1>6. cycle' \in [Cycle -> CycleRecord] /\ missed' \subseteq Reason
  BY <1>5, StepRequests DEF TypeOK, Requests
<1>7. late' \subseteq Int
  <2>1. ASSUME NEW c \in Cycle, ModifyTimesOut(c) PROVE late' \subseteq Int
    <3>1. cycle[c].sent \in Int
      BY CycleFields DEF TypeOK
    <3> QED
      BY <2>1, <3>1 DEF TypeOK, ModifyTimesOut
  <2>2. \/ late' \subseteq late
        \/ \E c \in Cycle : ModifyTimesOut(c)
    BY DEF Next, vars, CycleStep, VisitTrade, PriceFails, Manage,
           SuperviseBreakeven, SuperviseClose, ModifySucceeds, ModifyRefused,
           CloseAnswered, BrokerApplies, BrokerRefuses,
           LateRequest, CommitSucceeds, CommitFails, ClosedElsewhere,
           ThrottleExpires, PriceMoves
  <2> QED
    BY <2>1, <2>2 DEF TypeOK
<1> QED
  BY <1>1, <1>2, <1>3, <1>4, <1>6, <1>7 DEF TypeOK

\* Stops the trade had are no better than the stop it has after the step.
LEMMA StepBeyond ==
  ASSUME IInv, [Next]_vars PROVE NothingBeyondTheStop'
<1> SUFFICES ASSUME Steady(trade')
             PROVE  /\ Improvement(trade', broker'.stop, trade'.stopLoss) >= 0
                    /\ \A c \in InFlight' :
                         Improvement(trade', cycle'[c].sent, trade'.stopLoss) >= 0
                    /\ \A s \in late' : Improvement(trade', s, trade'.stopLoss) >= 0
  BY DEF NothingBeyondTheStop, Steady
<1> USE DEF IInv
<1>1. TypeOK /\ TypeOK'
  BY StepType
<1>2. Improved(trade, trade')
  BY StepImproves
<1>3. trade.stopLoss \in Int /\ trade'.stopLoss \in Int
      /\ broker.stop \in Int /\ late \subseteq Int
      /\ \A c \in Cycle : cycle[c].sent \in Int
  BY <1>1, TradeFields, CycleFields DEF TypeOK
<1>4. ASSUME NEW s \in Int, Improvement(trade, s, trade.stopLoss) >= 0
      PROVE  Improvement(trade', s, trade'.stopLoss) >= 0
  <2>1. Improvement(trade, s, trade'.stopLoss) >= 0
    BY <1>2, <1>3, <1>4, ImprovementAdds, SteadySame DEF Improved
  <2> QED
    BY <1>2, <1>3, <2>1, ImprovementDirection DEF Improved, SamePlan
<1>5. /\ Improvement(trade, broker.stop, trade.stopLoss) >= 0
      /\ \A c \in InFlight : Improvement(trade, cycle[c].sent, trade.stopLoss) >= 0
      /\ \A s \in late : Improvement(trade, s, trade.stopLoss) >= 0
  BY SteadySame, <1>2 DEF NothingBeyondTheStop, Improved, Steady
<1>6. InFlight \subseteq Cycle
  BY DEF InFlight
<1>7. Improvement(trade', broker'.stop, trade'.stopLoss) >= 0
  BY <1>1, <1>3, <1>4, <1>5, <1>6, StepBroker DEF BrokerMoves
<1>8. ASSUME NEW d \in InFlight'
      PROVE  Improvement(trade', cycle'[d].sent, trade'.stopLoss) >= 0
  <2>1. d \in Cycle /\ cycle'[d].stage = "modify"
    BY DEF InFlight
  <2>2. CASE UNCHANGED cycle
    BY <1>3, <1>4, <1>5, <2>1, <2>2 DEF InFlight
  <2>3. ASSUME NEW c \in Cycle, CycleStep(c)
        PROVE  Improvement(trade', cycle'[d].sent, trade'.stopLoss) >= 0
    <3>1. \/ cycle[d].stage = "modify" /\ cycle'[d].sent = cycle[d].sent
          \/ cycle'[d].sent = trade'.stopLoss
      BY <2>1, <2>3, StepRequests DEF Requests
    <3>2. CASE cycle[d].stage = "modify" /\ cycle'[d].sent = cycle[d].sent
      BY <1>3, <1>4, <1>5, <2>1, <3>2 DEF InFlight
    <3>3. CASE cycle'[d].sent = trade'.stopLoss
      BY <1>3, <3>3, ImprovementSame
    <3> QED
      BY <3>1, <3>2, <3>3
  <2>4. (\E c \in Cycle : CycleStep(c)) \/ UNCHANGED cycle
    BY DEF Next, vars, LateRequest, CommitSucceeds, CommitFails, ClosedElsewhere,
           ThrottleExpires, PriceMoves
  <2> QED
    BY <2>2, <2>3, <2>4
<1>9. ASSUME NEW s \in late'
      PROVE  Improvement(trade', s, trade'.stopLoss) >= 0
  <2>1. s \in late \/ \E c \in InFlight : s = cycle[c].sent
    BY DEF Next, vars, CycleStep, VisitTrade, PriceFails, Manage, InFlight,
           SuperviseBreakeven, SuperviseClose, ModifySucceeds, ModifyRefused,
           ModifyTimesOut, CloseAnswered, BrokerApplies, BrokerRefuses,
           LateRequest, CommitSucceeds, CommitFails, ClosedElsewhere,
           ThrottleExpires, PriceMoves
  <2> QED
    BY <1>3, <1>4, <1>5, <1>6, <2>1
<1> QED
  BY <1>7, <1>8, <1>9

LEMMA StepIInv ==
  ASSUME IInv, [Next]_vars PROVE IInv'
<1>1. Unmoved'
  BY StepImproves DEF Improved, Unmoved, FirstStop
<1> QED
  BY <1>1, StepType, StepBeyond DEF IInv

\* The inductive invariant of the trade and of what is sent for it.
THEOREM Invariant == Spec => []IInv
<1>1. Init => IInv
  BY InitIInv
<1>2. IInv /\ [Next]_vars => IInv'
  BY StepIInv
<1> QED
  BY <1>1, <1>2, PTL DEF Spec

\* Every variable keeps its type.
THEOREM TypeCorrect == Spec => []TypeOK
<1>1. IInv => TypeOK
  BY DEF IInv
<1> QED
  BY <1>1, Invariant, PTL

\* What the broker holds, and what is on its way there, is never better than
\* the stop of the trade (syncBrokerProtection sends stops the trade has had).
THEOREM BrokerStaysBehind == Spec => []NothingBeyondTheStop
<1>1. IInv => NothingBeyondTheStop
  BY DEF IInv
<1> QED
  BY <1>1, Invariant, PTL

\* manageActiveTrades never loosens a stop, however many cycles overlap.
THEOREM StopsOnlyImprove == Spec => StopNeverLoosens
<1>1. IInv /\ [Next]_vars
        => [~Supervisor /\ Consistent(trade)
              => Improvement(trade, trade.stopLoss, trade'.stopLoss) >= 0]_vars
  BY StepImproves DEF Improved, Steady
<1> QED
  BY <1>1, Invariant, PTL DEF Spec, StopNeverLoosens

-----------------------------------------------------------------------------
(* What the broker has *)

Travelling == {c \in InFlight : cycle[c].fate = "travelling"}

\* The last stop the broker confirmed is one the trade has had.
LastBehind ==
  Steady(trade) =>
    \/ trade.lastBrokerStopLossSent = NoStop
    \/ Improvement(trade, trade.lastBrokerStopLossSent, trade.stopLoss) >= 0

\* While nothing is missed the stop of the trade is at the broker or on its way,
\* and nothing else is.
ExplainInv ==
  (Steady(trade) /\ missed = {}) =>
    /\ late = {}
    /\ \A c \in Travelling : cycle[c].sent = trade.stopLoss
    /\ broker.stop = trade.stopLoss \/ \E c \in InFlight : cycle[c].fate # "applied"

\* While no request was sent after another there is at most one, and it brings
\* the broker a better stop.
RaceInv ==
  (Steady(trade) /\ "raced" \notin missed) =>
    /\ \A c, d \in Travelling : c = d
    /\ \A s, u \in late : s = u
    /\ late = {} \/ Travelling = {}
    /\ \A c \in Travelling : Improvement(trade, broker.stop, cycle[c].sent) >= 0
    /\ \A s \in late : Improvement(trade, broker.stop, s) >= 0

BrokerInv == LastBehind /\ ExplainInv /\ RaceInv

\* What the steps below have to work with.
LEMMA Frame ==
  ASSUME IInv, [Next]_vars
  PROVE  /\ trade \in TradeRecord /\ trade' \in TradeRecord
         /\ trade.stopLoss \in Int /\ trade'.stopLoss \in Int
         /\ trade'.direction = trade.direction
         /\ Steady(trade') = Steady(trade)
         /\ Steady(trade) => Improvement(trade, trade.stopLoss, trade'.stopLoss) >= 0
         /\ broker.stop \in Int /\ late \subseteq Int
         /\ \A c \in Cycle : cycle[c] \in CycleRecord /\ cycle[c].sent \in Int
         /\ InFlight \subseteq Cycle /\ Travelling \subseteq InFlight
         /\ Outstanding <=> Travelling # {} \/ late # {}
<1>1. TypeOK /\ Improved(trade, trade')
  BY StepImproves DEF IInv
<1>2. trade'.direction = trade.direction /\ Steady(trade') = Steady(trade)
  BY <1>1, SteadySame DEF Improved, SamePlan
<1> QED
  BY <1>1, <1>2, TradeFields, CycleFields
  DEF TypeOK, Improved, InFlight, Travelling, Outstanding

\* A step that neither manages the trade nor touches requests or the broker's stop.
LEMMA QuietStep ==
  ASSUME IInv, [Next]_vars, BrokerInv,
         trade'.stopLoss = trade.stopLoss, broker'.stop = broker.stop, UNCHANGED late,
         missed' = missed \cup {"failed"} \/ UNCHANGED missed,
         \A c \in Cycle : /\ cycle'[c].stage = "modify" => cycle'[c] = cycle[c]
                         /\ \/ cycle[c].stage = "modify" => cycle'[c] = cycle[c]
                            \/ cycle[c].fate = "applied"
                            \/ "failed" \in missed',
         \/ trade'.lastBrokerStopLossSent = trade.lastBrokerStopLossSent
         \/ \E c \in InFlight : trade'.lastBrokerStopLossSent = cycle[c].sent
  PROVE  BrokerInv'
<1>1. /\ trade'.direction = trade.direction /\ Steady(trade') = Steady(trade)
      /\ \A a, b \in Int : Improvement(trade', a, b) = Improvement(trade, a, b)
  BY Frame, ImprovementDirection
<1>2. LastBehind'
  BY <1>1, Frame DEF BrokerInv, LastBehind, IInv, NothingBeyondTheStop, Steady, Improvement
<1>3. /\ InFlight' \subseteq InFlight /\ Travelling' \subseteq Travelling
      /\ \A c \in InFlight' : cycle'[c] = cycle[c]
  BY DEF InFlight, Travelling
<1>4. ExplainInv'
  <2> SUFFICES ASSUME Steady(trade), missed' = {}
               PROVE  /\ late' = {}
                      /\ \A c \in Travelling' : cycle'[c].sent = trade'.stopLoss
                      /\ broker'.stop = trade'.stopLoss
                           \/ \E c \in InFlight' : cycle'[c].fate # "applied"
    BY <1>1 DEF ExplainInv
  <2>1. missed = {}
    OBVIOUS
  <2>2. \A c \in InFlight : cycle[c].fate # "applied" => c \in InFlight' /\ cycle'[c] = cycle[c]
    BY DEF InFlight
  <2> QED
    BY <1>3, <2>1, <2>2 DEF BrokerInv, ExplainInv, Travelling
<1>5. RaceInv'
  <2>1. "raced" \in missed => "raced" \in missed'
    OBVIOUS
  <2>2. \A c \in Travelling' : Improvement(trade', broker'.stop, cycle'[c].sent)
                               = Improvement(trade, broker.stop, cycle[c].sent)
    BY <1>1, <1>3, Frame DEF Travelling
  <2>3. \A s \in late : Improvement(trade', broker'.stop, s) = Improvement(trade, broker.stop, s)
    BY <1>1, Frame
  <2> QED
    BY <1>1, <1>3, <2>1, <2>2, <2>3 DEF BrokerInv, RaceInv
<1> QED
  BY <1>2, <1>4, <1>5 DEF BrokerInv

LEMMA ManagedKeeps ==
  ASSUME NEW t \in TradeRecord, NEW price \in Int
  PROVE  Managed(t, price).lastBrokerStopLossSent = t.lastBrokerStopLossSent
<1>1. ASSUME NEW u \in TradeRecord
      PROVE  /\ MovedToBreakeven(u, price).lastBrokerStopLossSent = u.lastBrokerStopLossSent
             /\ Trailed(u, price).lastBrokerStopLossSent = u.lastBrokerStopLossSent
  BY DEF MovedToBreakeven, AtBreakeven, Trailed, TradeRecord
<1>2. MovedToBreakeven(t, price) \in TradeRecord
  BY MovedType
<1> QED
  BY <1>1, <1>2 DEF Managed

\* A stop that manageActiveTrades has moved is never the one confirmed last: it
\* is sent, or the broker is known to be behind.
LEMMA MovedStopIsNews ==
  ASSUME IInv, BrokerInv, Steady(trade), NEW c \in Cycle, Manage(c),
         trade'.stopLoss # trade.stopLoss
  PROVE  /\ ~Unchanged(trade')
         /\ LastBehind'
<1>1. Next
  BY DEF Next, CycleStep
<1>2. Improvement(trade, trade.stopLoss, trade'.stopLoss) > 0
  BY <1>1, Frame DEF Improvement
<1>3. trade'.lastBrokerStopLossSent = trade.lastBrokerStopLossSent
  <2>1. trade' = Managed(Priced, market) /\ Priced \in TradeRecord /\ market \in Int
    BY PricedTrade DEF Manage, ManageFrom, IInv, TypeOK
  <2>2. Priced.lastBrokerStopLossSent = trade.lastBrokerStopLossSent
    BY DEF Priced, IInv, TypeOK, TradeRecord
  <2> QED
    BY <2>1, <2>2, ManagedKeeps
<1>4. /\ trade.lastBrokerStopLossSent \in Int \cup {NoStop}
      /\ trade'.direction = trade.direction /\ Steady(trade')
      /\ trade.stopLoss \in Int /\ trade'.stopLoss \in Int
  BY <1>1, Frame DEF TradeRecord
<1>5. \/ trade.lastBrokerStopLossSent = NoStop
      \/ Improvement(trade, trade.lastBrokerStopLossSent, trade.stopLoss) >= 0
  BY DEF BrokerInv, LastBehind
<1>6. ~Unchanged(trade')
  <2>1. CASE trade.lastBrokerStopLossSent = NoStop
    BY <1>3, <1>4, <2>1, ProtectionAssumption DEF Unchanged
  <2>2. CASE trade.lastBrokerStopLossSent \in Int /\ trade.lastBrokerStopLossSent # NoStop
    BY <1>2, <1>3, <1>4, <1>5, <2>2 DEF Unchanged, Improvement
  <2> QED
    BY <1>4, <2>1, <2>2
<1>7. LastBehind'
  <2>1. CASE trade.lastBrokerStopLossSent = NoStop
    BY <1>3, <2>1 DEF LastBehind
  <2>2. CASE trade.lastBrokerStopLossSent \in Int /\ trade.lastBrokerStopLossSent # NoStop
    BY <1>2, <1>3, <1>4, <1>5, <2>2 DEF LastBehind, Improvement
  <2> QED
    BY <1>4, <2>1, <2>2
<1> QED
  BY <1>6, <1>7

\* manageActiveTrades moves the stop.
LEMMA MovedStopKeeps ==
  ASSUME IInv, BrokerInv, Steady(trade), NEW c \in Cycle, Manage(c),
         trade'.stopLoss # trade.stopLoss
  PROVE  BrokerInv'
<1> DEFINE request == [stage |-> "modify", quote |-> market, sent |-> trade'.stopLoss,
                       fate |-> "travelling"]
<1>1. Next
  BY DEF Next, CycleStep
<1>2. /\ cycle[c].stage = "price" /\ UNCHANGED <<broker, late>>
      /\ missed' = MissedBySync(trade', missed)
      /\ cycle' = [cycle EXCEPT ![c] =
           IF SendsModify(trade') THEN request ELSE AfterSync(trade', market)]
  <2>1. trade' = Managed(Priced, market) /\ Priced.stopLoss = trade.stopLoss
    BY PricedTrade DEF Manage, ManageFrom, Neutral, IInv
  <2>2. ManageFrom(c, Priced, {}) /\ Managed(Priced, market).stopLoss # Priced.stopLoss
    BY <2>1 DEF Manage
  <2>3. missed' = MissedBySync(trade', missed)
    <3>1. missed \cup {} = missed
      OBVIOUS
    <3> QED
      BY <2>1, <2>2, <3>1 DEF ManageFrom
  <2>4. cycle' = [cycle EXCEPT ![c] =
           IF SendsModify(trade') THEN request ELSE AfterSync(trade', market)]
    BY <2>1, <2>2 DEF ManageFrom
  <2> QED
    BY <2>3, <2>4 DEF Manage
<1>3. ~Unchanged(trade') /\ LastBehind'
  BY MovedStopIsNews
<1>4. /\ \A d \in Cycle \ {c} : cycle'[d] = cycle[d]
      /\ SendsModify(trade') => cycle'[c] = request
      /\ ~SendsModify(trade') => cycle'[c].stage # "modify"
  BY <1>2, AfterSyncType DEF IInv, TypeOK
<1>5. /\ \A a, b \in Int : Improvement(trade', a, b) = Improvement(trade, a, b)
      /\ broker.stop \in Int
      /\ \A d \in Cycle : cycle[d].sent \in Int
      /\ late \subseteq Int
  BY <1>1, Frame, ImprovementDirection
<1>6. CASE ~SendsModify(trade')
  <2>1. /\ missed \subseteq missed' /\ missed' # {}
    BY <1>2, <1>3, <1>6 DEF MissedBySync, SendsModify
  <2>2. Travelling' = Travelling /\ \A d \in Travelling : cycle'[d] = cycle[d]
    BY <1>2, <1>4, <1>6 DEF Travelling, InFlight
  <2>3. ExplainInv'
    BY <2>1 DEF ExplainInv
  <2>4. \A d \in Travelling : Improvement(trade', broker.stop, cycle'[d].sent)
                            = Improvement(trade, broker.stop, cycle[d].sent)
    BY <1>5, <2>2 DEF Travelling, InFlight
  <2>5. \A s \in late : Improvement(trade', broker.stop, s) = Improvement(trade, broker.stop, s)
    BY <1>5
  <2>6. RaceInv'
    BY <1>2, <2>1, <2>2, <2>4, <2>5 DEF BrokerInv, RaceInv
  <2> QED
    BY <1>3, <2>3, <2>6 DEF BrokerInv
<1>7. CASE SendsModify(trade') /\ Outstanding
  <2>1. "raced" \in missed'
    BY <1>2, <1>7 DEF MissedBySync, SendsModify
  <2> QED
    BY <1>3, <2>1 DEF BrokerInv, ExplainInv, RaceInv
<1>8. CASE SendsModify(trade') /\ ~Outstanding
  <2>1. Travelling = {} /\ late = {}
    BY <1>1, <1>8, Frame
  <2>2. Travelling' = {c} /\ c \in InFlight' /\ cycle'[c].sent = trade'.stopLoss
        /\ cycle'[c].fate = "travelling"
    BY <1>4, <1>8, <2>1 DEF Travelling, InFlight
  <2>3. ExplainInv'
    BY <1>2, <2>1, <2>2 DEF ExplainInv
  <2>4. Steady(trade') => Improvement(trade', broker'.stop, trade'.stopLoss) >= 0
    BY <1>1, StepBeyond DEF NothingBeyondTheStop, Steady
  <2>5. RaceInv'
    BY <1>2, <2>1, <2>2, <2>4 DEF RaceInv
  <2> QED
    BY <1>3, <2>3, <2>5 DEF BrokerInv
<1> QED
  BY <1>6, <1>7, <1>8

LEMMA ManageKeeps ==
  ASSUME IInv, BrokerInv, Steady(trade), NEW c \in Cycle, Manage(c)
  PROVE  BrokerInv'
<1>1. Next
  BY DEF Next, CycleStep
<1>2. CASE trade'.stopLoss = trade.stopLoss
  <2>1. trade' = Managed(Priced, market) /\ Priced.stopLoss = trade.stopLoss
        /\ Priced \in TradeRecord /\ market \in Int
    BY PricedTrade DEF Manage, ManageFrom, Neutral, IInv, TypeOK
  <2>2. /\ cycle[c].stage = "price" /\ UNCHANGED <<broker, late, missed>>
        /\ cycle' = [cycle EXCEPT ![c] = AfterSync(trade', market)]
    BY <1>2, <2>1 DEF Manage, ManageFrom
  <2>3. trade'.lastBrokerStopLossSent = trade.lastBrokerStopLossSent
    <3>1. Priced.lastBrokerStopLossSent = trade.lastBrokerStopLossSent
      BY DEF Priced, IInv, TypeOK, TradeRecord
    <3> QED
      BY <2>1, <3>1, ManagedKeeps
  <2>4. /\ cycle'[c].stage # "modify"
        /\ \A d \in Cycle \ {c} : cycle'[d] = cycle[d]
    BY <2>2, AfterSyncType DEF IInv, TypeOK
  <2> QED
    BY <1>1, <1>2, <2>2, <2>3, <2>4, QuietStep
<1> QED
  BY <1>2, MovedStopKeeps

LEMMA AnswerKeeps ==
  ASSUME IInv, BrokerInv, NEW c \in Cycle, NEW t \in TradeRecord, NEW reasons,
         Answered(c, t, reasons), [Next]_vars, UNCHANGED late, cycle[c].stage = "modify",
         t.stopLoss = trade.stopLoss,
         \/ /\ cycle[c].fate = "applied" /\ reasons = {}
            /\ t.lastBrokerStopLossSent = cycle[c].sent
         \/ /\ reasons = {"failed"}
            /\ t.lastBrokerStopLossSent = trade.lastBrokerStopLossSent
  PROVE  BrokerInv'
<1>1. /\ trade'.stopLoss = t.stopLoss /\ trade'.lastBrokerStopLossSent = t.lastBrokerStopLossSent
      /\ broker' = broker /\ missed' = missed \cup reasons
  BY DEF Answered, TradeRecord
<1>2. /\ cycle'[c].stage # "modify"
      /\ \A d \in Cycle \ {c} : cycle'[d] = cycle[d]
  BY AfterSyncType DEF Answered, IInv, TypeOK
<1>3. c \in InFlight
  BY DEF InFlight
<1>4. /\ missed' = missed \cup {"failed"} \/ UNCHANGED missed
      /\ cycle[c].fate = "applied" \/ "failed" \in missed'
      /\ \/ trade'.lastBrokerStopLossSent = trade.lastBrokerStopLossSent
         \/ trade'.lastBrokerStopLossSent = cycle[c].sent
  BY <1>1
<1> QED
  BY <1>1, <1>2, <1>3, <1>4, QuietStep

\* A request that is given up may still arrive.
LEMMA TimeoutKeeps ==
  ASSUME IInv, BrokerInv, Steady(trade), NEW c \in Cycle, ModifyTimesOut(c)
  PROVE  BrokerInv'
<1>1. Next
  BY DEF Next, CycleStep
<1>2. trade \in TradeRecord /\ Answered(c, trade, {"failed"}) /\ cycle[c].stage = "modify"
  BY DEF ModifyTimesOut, IInv, TypeOK
<1>3. CASE cycle[c].fate # "travelling"
  BY <1>1, <1>2, <1>3, AnswerKeeps DEF ModifyTimesOut
<1>4. CASE cycle[c].fate = "travelling"
  <2>1. /\ trade'.stopLoss = trade.stopLoss
        /\ trade'.lastBrokerStopLossSent = trade.lastBrokerStopLossSent
        /\ broker' = broker /\ missed' = missed \cup {"failed"}
        /\ late' = late \cup {cycle[c].sent}
    BY <1>2, <1>4 DEF Answered, TradeRecord, ModifyTimesOut
  <2>2. /\ cycle'[c].stage # "modify"
        /\ \A d \in Cycle \ {c} : cycle'[d] = cycle[d]
    BY <1>2, AfterSyncType DEF Answered, IInv, TypeOK
  <2>3. /\ trade'.direction = trade.direction /\ Steady(trade')
        /\ \A a, b \in Int : Improvement(trade', a, b) = Improvement(trade, a, b)
    BY <1>1, Frame, ImprovementDirection
  <2>4. LastBehind'
    BY <2>1, <2>3 DEF BrokerInv, LastBehind, Improvement
  <2>5. ExplainInv'
    BY <2>1 DEF ExplainInv
  <2>6. RaceInv'
    <3> SUFFICES ASSUME "raced" \notin missed
                 PROVE  RaceInv'
      BY <2>1 DEF RaceInv
    <3>1. c \in Travelling /\ late = {} /\ Travelling = {c}
          /\ Improvement(trade, broker.stop, cycle[c].sent) >= 0
      BY <1>2, <1>4 DEF BrokerInv, RaceInv, Travelling, InFlight
    <3>2. Travelling' = {} /\ late' = {cycle[c].sent}
      BY <2>1, <2>2, <3>1 DEF Travelling, InFlight
    <3>3. Improvement(trade', broker'.stop, cycle[c].sent) >= 0
      BY <1>1, <2>1, <2>3, <3>1, Frame
    <3> QED
      BY <3>2, <3>3 DEF RaceInv
  <2> QED
    BY <2>4, <2>5, <2>6 DEF BrokerInv
<1> QED
  BY <1>3, <1>4

\* A request arrives at the broker, in time or late, or is refused by it.
LEMMA ArrivalKeeps ==
  ASSUME IInv, BrokerInv, Steady(trade),
         \/ \E c \in Cycle : BrokerApplies(c) \/ BrokerRefuses(c)
         \/ \E s \in late : LateRequest(s)
  PROVE  BrokerInv'
<1>1. Next
  BY DEF Next, CycleStep
<1>2. LastBehind'
  BY DEF BrokerInv, LastBehind, BrokerApplies, BrokerRefuses, LateRequest
<1>3. ASSUME NEW c \in Cycle, NEW f \in {"applied", "refused"}, UNCHANGED <<trade, late, missed>>,
             cycle[c].stage = "modify", cycle[c].fate = "travelling",
             cycle' = [cycle EXCEPT ![c].fate = f],
             broker'.stop = IF f = "applied" THEN cycle[c].sent ELSE broker.stop
      PROVE  BrokerInv'
  <2>1. /\ cycle'[c].stage = "modify" /\ cycle'[c].fate = f
        /\ \A d \in Cycle \ {c} : cycle'[d] = cycle[d]
    BY <1>1, <1>3, Frame DEF CycleRecord, IInv, TypeOK
  <2>2. /\ c \in Travelling /\ c \in InFlight' /\ Travelling' = Travelling \ {c}
        /\ \A d \in Travelling' : cycle'[d] = cycle[d]
    BY <1>3, <2>1 DEF Travelling, InFlight
  <2>3. ExplainInv'
    BY <1>3, <2>1, <2>2 DEF BrokerInv, ExplainInv
  <2>4. RaceInv'
    BY <1>3, <2>2 DEF BrokerInv, RaceInv
  <2> QED
    BY <1>2, <2>3, <2>4 DEF BrokerInv
<1>4. ASSUME NEW c \in Cycle, BrokerApplies(c)
      PROVE  BrokerInv'
  BY <1>3, <1>4 DEF BrokerApplies, IInv, TypeOK
<1>5. ASSUME NEW c \in Cycle, BrokerRefuses(c)
      PROVE  BrokerInv'
  BY <1>3, <1>5 DEF BrokerRefuses
<1>6. ASSUME NEW s \in late, LateRequest(s)
      PROVE  BrokerInv'
  <2>1. UNCHANGED <<trade, cycle, missed>> /\ late' = late \ {s}
    BY <1>6 DEF LateRequest
  <2>2. Travelling' = Travelling
    BY <2>1 DEF Travelling, InFlight
  <2>3. ExplainInv'
    BY <1>6, <2>1 DEF BrokerInv, ExplainInv
  <2>4. RaceInv'
    BY <1>6, <2>1, <2>2 DEF BrokerInv, RaceInv
  <2> QED
    BY <1>2, <2>3, <2>4 DEF BrokerInv
<1> QED
  BY <1>4, <1>5, <1>6

LEMMA InitBrokerInv == Init => BrokerInv
<1> SUFFICES ASSUME Init PROVE BrokerInv
  OBVIOUS
<1>1. trade.lastBrokerStopLossSent = NoStop /\ broker.stop = trade.stopLoss
  BY DEF Init
<1>2. InFlight = {} /\ Travelling = {} /\ late = {}
  BY DEF Init, InFlight, Travelling, IdleCycle
<1> QED
  BY <1>1, <1>2 DEF BrokerInv, LastBehind, ExplainInv, RaceInv

LEMMA StepBrokerInv ==
  ASSUME IInv, BrokerInv, [Next]_vars
  PROVE  BrokerInv'
<1>1. CASE ~Steady(trade)
  BY <1>1, Frame DEF BrokerInv, LastBehind, ExplainInv, RaceInv
<1>2. CASE Steady(trade)
  <2> USE <1>2
  <2>1. ASSUME NEW c \in Cycle, VisitTrade(c) \/ PriceFails(c) \/ CloseAnswered(c)
        PROVE  BrokerInv'
    <3>1. UNCHANGED <<trade, late, missed>> /\ cycle[c].stage # "modify"
      BY <2>1 DEF VisitTrade, PriceFails, CloseAnswered
    <3>2. broker'.stop = broker.stop
      BY <2>1 DEF VisitTrade, PriceFails, CloseAnswered, IInv, TypeOK
    <3>3. PICK r \in CycleRecord : cycle' = [cycle EXCEPT ![c] = r] /\ r.stage # "modify"
      <4>1. CASE VisitTrade(c)
        <5>1. cycle[c] \in CycleRecord /\ cycle[c].stage = "idle"
          BY <4>1 DEF VisitTrade, IInv, TypeOK
        <5>2. /\ [cycle[c] EXCEPT !.stage = "price"] \in CycleRecord
              /\ [cycle[c] EXCEPT !.stage = "price"].stage = "price"
          BY <5>1, CycleFields
        <5>3. cycle' = [cycle EXCEPT ![c] = [cycle[c] EXCEPT !.stage = "price"]]
          BY <4>1 DEF VisitTrade
        <5> QED
          BY <5>2, <5>3
      <4>2. CASE PriceFails(c) \/ CloseAnswered(c)
        BY <4>2, CycleRecords DEF PriceFails, CloseAnswered
      <4> QED
        BY <2>1, <4>1, <4>2
    <3>4. cycle'[c].stage # "modify" /\ \A d \in Cycle \ {c} : cycle'[d] = cycle[d]
      BY <3>3 DEF IInv, TypeOK
    <3> QED
      BY <3>1, <3>2, <3>4, QuietStep
  <2>2. ASSUME NEW c \in Cycle, SuperviseBreakeven(c) \/ SuperviseClose(c)
        PROVE  BrokerInv'
    BY <2>2 DEF SuperviseBreakeven, SuperviseClose, Steady
  <2>3. ASSUME NEW c \in Cycle, ModifySucceeds(c)
        PROVE  BrokerInv'
    <3>1. PICK t \in TradeRecord :
            /\ t = [trade EXCEPT !.lastBrokerStopLossSent = cycle[c].sent]
            /\ t.stopLoss = trade.stopLoss /\ t.lastBrokerStopLossSent = cycle[c].sent
      <4> DEFINE t == [trade EXCEPT !.lastBrokerStopLossSent = cycle[c].sent]
      <4>1. trade \in TradeRecord /\ cycle[c].sent \in Int
        BY Frame
      <4>2. /\ t \in TradeRecord
            /\ t.stopLoss = trade.stopLoss /\ t.lastBrokerStopLossSent = cycle[c].sent
        BY <4>1 DEF TradeRecord
      <4> QED
        BY <4>2
    <3> QED
      BY <2>3, <3>1, AnswerKeeps DEF ModifySucceeds
  <2>4. ASSUME NEW c \in Cycle, ModifyRefused(c)
        PROVE  BrokerInv'
    BY <2>4, Frame, AnswerKeeps DEF ModifyRefused
  <2>5. ASSUME NEW c \in Cycle, CycleStep(c)
        PROVE  BrokerInv'
    BY <2>1, <2>2, <2>3, <2>4, <2>5, ManageKeeps, TimeoutKeeps, ArrivalKeeps DEF CycleStep
  <2>6. CASE CommitSucceeds \/ CommitFails \/ ClosedElsewhere \/ ThrottleExpires
             \/ PriceMoves \/ UNCHANGED vars
    <3>1. /\ trade'.stopLoss = trade.stopLoss /\ broker'.stop = broker.stop
          /\ trade'.lastBrokerStopLossSent = trade.lastBrokerStopLossSent
          /\ UNCHANGED <<cycle, late, missed>>
      BY <2>6 DEF CommitSucceeds, CommitFails, ClosedElsewhere, ThrottleExpires, PriceMoves,
                  vars, IInv, TypeOK, TradeRecord
    <3> QED
      BY <3>1, QuietStep
  <2> QED
    BY <2>5, <2>6, ArrivalKeeps DEF Next
<1> QED
  BY <1>1, <1>2

\* The inductive invariant of what the broker has been told and holds.
THEOREM BrokerInvariant == Spec => [](IInv /\ BrokerInv)
<1>1. Init => IInv /\ BrokerInv
  BY InitIInv, InitBrokerInv
<1>2. IInv /\ BrokerInv /\ [Next]_vars => (IInv /\ BrokerInv)'
  BY StepIInv, StepBrokerInv
<1> QED
  BY <1>1, <1>2, PTL DEF Spec

\* Without the supervisor the broker is left with another stop than the trade
\* only for one of the reasons in missed: syncBrokerProtection's comparison with
\* the stop sent last never skips a request that is needed.
THEOREM BrokerStopIsExplained == Spec => []BrokerStopExplained
<1>1. IInv /\ BrokerInv => BrokerStopExplained
  BY DEF BrokerInv, ExplainInv, BrokerStopExplained, Steady
<1> QED
  BY <1>1, BrokerInvariant, PTL

\* Without the supervisor the broker's stop is loosened only when one modify
\* request was sent while another was out, however cycles and timeouts overlap.
THEOREM LoosensOnlyByRace == Spec => BrokerStopLoosensOnlyByRace
<1>1. IInv /\ BrokerInv /\ [Next]_vars
        => [(/\ ~Supervisor /\ Consistent(trade)
             /\ Improvement(trade, broker.stop, broker'.stop) < 0)
             => "raced" \in missed]_vars
  <2> SUFFICES ASSUME IInv, BrokerInv, [Next]_vars, Steady(trade), "raced" \notin missed
               PROVE  ~(Improvement(trade, broker.stop, broker'.stop) < 0)
    BY DEF Steady
  <2>1. broker.stop \in Int /\ late \subseteq Int /\ \A c \in Cycle : cycle[c].sent \in Int
    BY Frame
  <2>2. \/ broker'.stop = broker.stop
        \/ \E c \in Travelling : broker'.stop = cycle[c].sent
        \/ broker'.stop \in late
    BY DEF Next, vars, CycleStep, VisitTrade, PriceFails, Manage, SuperviseBreakeven,
           SuperviseClose, ModifySucceeds, ModifyRefused, ModifyTimesOut, Answered,
           CloseAnswered, BrokerApplies, BrokerRefuses, LateRequest, CommitSucceeds,
           CommitFails, ClosedElsewhere, ThrottleExpires, PriceMoves, Travelling, InFlight,
           IInv, TypeOK
  <2>3. CASE broker'.stop = broker.stop
    BY <2>1, <2>3 DEF Improvement
  <2>4. ASSUME NEW s \in Int, broker'.stop = s, Improvement(trade, broker.stop, s) >= 0
        PROVE  ~(Improvement(trade, broker.stop, broker'.stop) < 0)
    BY <2>1, <2>4 DEF Improvement
  <2> QED
    BY <2>1, <2>2, <2>3, <2>4 DEF BrokerInv, RaceInv, Travelling, InFlight
<1> QED
  BY <1>1, BrokerInvariant, PTL DEF Spec, BrokerStopLoosensOnlyByRace
=============================================================================
