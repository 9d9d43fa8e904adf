--------------------------- MODULE TradeProtection ---------------------------
(***************************************************************************)
(* How an open trade is protected: manageActiveTrades and what it calls    *)
(* (src/core/engine/modules/execution-engine.js), which move the stop to   *)
(* breakeven, trail it, send it to the broker and close the trade.         *)
(*                                                                         *)
(* The module follows one trade; what a cycle does to the other trades     *)
(* only delays it.  A cycle is one run of manageActiveTrades: the timer    *)
(* that starts it does not wait for the previous run, so several overlap.  *)
(* The broker is external: it applies a modify request while the request   *)
(* is under way, refuses it, or applies it after the answer was given up.  *)
(***************************************************************************)
EXTENDS Integers, FiniteSets

CONSTANTS
  Cycle,          \* overlapping runs of manageActiveTrades
  Direction,      \* directions a trade may have: a subset of {"BUY", "SELL"}
  Price,          \* prices, in ticks
  EntryPrice,     \* the entry price of the trade
  Plan,           \* protection plans a trade may carry (see PlanRecord)
  Supervisor,     \* SMART_TRADE_SUPERVISOR_ENABLED
  MinProfit,      \* SMART_EXIT_MIN_PROFIT_PCT, as a price distance
  NoStop          \* lastBrokerStopLossSent before the first request

\* stop and target are the distances of stopLoss and takeProfit to the entry;
\* breakeven is breakevenAtFraction of the target distance.
PlanRecord == [stop : Nat, target : Nat, breakeven : Nat, activation : Nat,
               trailing : Nat, step : Nat]

ASSUME ProtectionAssumption ==
  /\ IsFiniteSet(Cycle)
  /\ Direction \subseteq {"BUY", "SELL"}
  /\ Price \subseteq Int /\ EntryPrice \in Int
  /\ Plan \subseteq PlanRecord
  /\ Supervisor \in BOOLEAN
  /\ MinProfit \in Nat
  /\ NoStop \notin Int

VARIABLES
  market,     \* the market price
  trade,      \* the trade object
  active,     \* whether activeTrades holds the trade
  cycle,      \* where each run of manageActiveTrades is with the trade
  broker,     \* the broker's position: whether it is open, and its stop
  late,       \* stops of requests given up by the engine and not yet applied
  missed      \* ghost: why the broker may have another stop than the trade

vars == <<market, trade, active, cycle, broker, late, missed>>

Reason == {"uncommitted", "supervisor", "throttled", "failed", "raced"}

TradeRecord ==
  [direction : {"BUY", "SELL"}, plan : Plan, stopLoss : Int,
   movedToBreakeven : BOOLEAN, committed : BOOLEAN, currentPnL : Int,
   recentModify : BOOLEAN, lastBrokerStopLossSent : Int \cup {NoStop}]

\* sent is the stop in the modify request of the cycle; fate is what became of
\* the request at the broker.
CycleRecord ==
  [stage : {"idle", "price", "close"}, quote : {EntryPrice}, sent : {EntryPrice},
   fate : {"refused"}]
  \cup
  [stage : {"modify"}, quote : Int, sent : Int,
   fate : {"travelling", "applied", "refused"}]

IdleCycle == [stage |-> "idle", quote |-> EntryPrice, sent |-> EntryPrice,
              fate |-> "refused"]

\* A plan moves to breakeven no later than it trails.  calculateEntryParameters
\* gives such a plan unless it moves the target away (EntryPlan).
Consistent(t) == t.plan.breakeven <= t.plan.activation

\* Distance d in favour of the trade, seen from the entry price.
At(direction, d) == IF direction = "BUY" THEN EntryPrice + d ELSE EntryPrice - d

\* executeTrade has put the trade in activeTrades and waits for the broker.
Init ==
  /\ market = EntryPrice
  /\ \E d \in Direction, p \in Plan :
       /\ trade = [direction |-> d, plan |-> p, stopLoss |-> At(d, -p.stop),
                   movedToBreakeven |-> FALSE, committed |-> FALSE, currentPnL |-> 0,
                   recentModify |-> FALSE, lastBrokerStopLossSent |-> NoStop]
       /\ broker = [open |-> FALSE, stop |-> At(d, -p.stop)]
  /\ active = TRUE
  /\ cycle = [c \in Cycle |-> IdleCycle]
  /\ late = {}
  /\ missed = {}

-----------------------------------------------------------------------------
(* The rules of the trade plan *)

TakeProfit(t) == At(t.direction, t.plan.target)

Profit(t, price) ==
  IF t.direction = "BUY" THEN price - EntryPrice ELSE EntryPrice - price

Distance(a, b) == IF a < b THEN b - a ELSE a - b

ShouldMoveToBreakeven(t, price) == Distance(price, EntryPrice) >= t.plan.breakeven

ShouldActivateTrailing(t, price) == Profit(t, price) >= t.plan.activation

\* By how much stop b protects the trade better than stop a.
Improvement(t, a, b) == IF t.direction = "BUY" THEN b - a ELSE a - b

\* (faulty variant: the step replaces the comparison with the current stop)
TrailedAnyway(t, price) ==
  LET newStopLoss == IF t.direction = "BUY" THEN price - t.plan.trailing
                                            ELSE price + t.plan.trailing
  IN IF /\ ShouldActivateTrailing(t, price)
        /\ Distance(newStopLoss, t.stopLoss) >= t.plan.step
     THEN [t EXCEPT !.stopLoss = newStopLoss] ELSE t

\* updateTrailingStop, under the guard of its caller.
Trailed(t, price) ==
  LET newStopLoss == IF t.direction = "BUY" THEN price - t.plan.trailing
                                            ELSE price + t.plan.trailing
      improvement == Improvement(t, t.stopLoss, newStopLoss)
  IN IF /\ ShouldActivateTrailing(t, price)
        /\ improvement > 0
        /\ improvement >= t.plan.step
     THEN [t EXCEPT !.stopLoss = newStopLoss] ELSE t

AtBreakeven(t) == [t EXCEPT !.stopLoss = EntryPrice, !.movedToBreakeven = TRUE]

\* (faulty variant: a stop already moved is moved again)
MovedToBreakevenAgain(t, price) ==
  IF ShouldMoveToBreakeven(t, price) THEN AtBreakeven(t) ELSE t

MovedToBreakeven(t, price) ==
  IF ~t.movedToBreakeven /\ ShouldMoveToBreakeven(t, price)
  THEN AtBreakeven(t) ELSE t

\* The breakeven step of the supervisor, which tests the stop and not the flag.
Supervised(t) == IF t.stopLoss # EntryPrice THEN AtBreakeven(t) ELSE t

ShouldCloseTrade(t, price) ==
  \/ Improvement(t, price, t.stopLoss) >= 0
  \/ Improvement(t, TakeProfit(t), price) >= 0

-----------------------------------------------------------------------------
(* syncBrokerProtection *)

InFlight == {c \in Cycle : cycle[c].stage = "modify"}

\* Requests the broker may still apply.
Outstanding == {c \in InFlight : cycle[c].fate = "travelling"} # {} \/ late # {}

Throttled(t) == t.recentModify
Unchanged(t) == t.lastBrokerStopLossSent = t.stopLoss

SendsModify(t) == t.committed /\ ~Throttled(t) /\ ~Unchanged(t)

\* A skipped request leaves the broker behind, unless it already has the stop;
\* a request sent while another one is out may be overtaken by it.
MissedBySync(t, known) ==
  CASE ~t.committed -> known \cup {"uncommitted"}
    [] t.committed /\ Throttled(t) -> known \cup {"throttled"}
    [] t.committed /\ ~Throttled(t) /\ Unchanged(t) -> known
    [] SendsModify(t) -> IF Outstanding THEN known \cup {"raced"} ELSE {}

\* What follows syncBrokerProtection in the cycle: shouldCloseTrade on the
\* quote of the cycle, and closeTrade, which finds the trade in the map or not.
AfterSync(t, quote) ==
  IF ShouldCloseTrade(t, quote) /\ active
  THEN [IdleCycle EXCEPT !.stage = "close"] ELSE IdleCycle

-----------------------------------------------------------------------------
(* manageActiveTrades *)

\* The loop reaches the trade and asks for its price.
VisitTrade(c) ==
  /\ cycle[c].stage = "idle"
  /\ active
  /\ cycle' = [cycle EXCEPT ![c].stage = "price"]
  /\ UNCHANGED <<market, trade, active, broker, late, missed>>

\* getCurrentPriceForPair throws: the error is logged, the trade is left alone.
PriceFails(c) ==
  /\ cycle[c].stage = "price"
  /\ cycle' = [cycle EXCEPT ![c] = IdleCycle]
  /\ UNCHANGED <<market, trade, active, broker, late, missed>>

\* The stop after shouldMoveToBreakeven and updateTrailingStop.
Managed(t, price) == Trailed(MovedToBreakeven(t, price), price)

\* (faulty variant: only trailing is sent to the broker)
ManageFromUnsynced(c, t, reasons) ==
  LET before == MovedToBreakeven(t, market)
      moved == Managed(t, market)
      sync == moved.stopLoss # before.stopLoss
  IN /\ trade' = moved
     /\ missed' = IF sync THEN MissedBySync(moved, missed \cup reasons)
                          ELSE missed \cup reasons
     /\ cycle' = [cycle EXCEPT ![c] =
          IF sync /\ SendsModify(moved)
          THEN [stage |-> "modify", quote |-> market, sent |-> moved.stopLoss,
                fate |-> "travelling"]
          ELSE AfterSync(moved, market)]

\* The part of the loop body from the answered price to the next await.  t is
\* the trade after supervision, from which stopLossBefore is read.
ManageFrom(c, t, reasons) ==
  LET moved == Managed(t, market)
      sync == moved.stopLoss # t.stopLoss
  IN /\ trade' = moved
     /\ missed' = IF sync THEN MissedBySync(moved, missed \cup reasons)
                          ELSE missed \cup reasons
     /\ cycle' = [cycle EXCEPT ![c] =
          IF sync /\ SendsModify(moved)
          THEN [stage |-> "modify", quote |-> market, sent |-> moved.stopLoss,
                fate |-> "travelling"]
          ELSE AfterSync(moved, market)]

Priced == [trade EXCEPT !.currentPnL = Profit(trade, market)]

\* The price arrives and the supervisor has nothing to say (or is off).
Manage(c) ==
  /\ cycle[c].stage = "price"
  /\ ManageFrom(c, Priced, {})
  /\ UNCHANGED <<market, active, broker, late>>

\* A news blackout or bad data, and not enough profit to close: the supervisor
\* moves the stop to breakeven before stopLossBefore is read.
SuperviseBreakeven(c) ==
  /\ Supervisor
  /\ cycle[c].stage = "price"
  /\ Profit(trade, market) < MinProfit
  /\ ManageFrom(c, Supervised(Priced),
       IF Supervised(Priced).stopLoss # trade.stopLoss THEN {"supervisor"} ELSE {})
  /\ UNCHANGED <<market, active, broker, late>>

\* A news blackout or bad data with enough profit: closeTrade.
SuperviseClose(c) ==
  /\ Supervisor
  /\ cycle[c].stage = "price"
  /\ Profit(trade, market) >= MinProfit
  /\ trade' = Priced
  /\ cycle' = [cycle EXCEPT ![c] =
       IF active THEN [IdleCycle EXCEPT !.stage = "close"] ELSE IdleCycle]
  /\ UNCHANGED <<market, active, broker, late, missed>>

\* The answer to a modify request, and the rest of the loop body.  The time of
\* the request, not of the answer, starts the throttle: it may be over already.
Answered(c, t, reasons) ==
  /\ \E recent \in BOOLEAN : trade' = [t EXCEPT !.recentModify = recent]
  /\ missed' = missed \cup reasons
  /\ cycle' = [cycle EXCEPT ![c] = AfterSync(t, cycle[c].quote)]
  /\ UNCHANGED <<market, active, broker>>

ModifySucceeds(c) ==
  /\ cycle[c].stage = "modify"
  /\ cycle[c].fate = "applied"
  /\ Answered(c, [trade EXCEPT !.lastBrokerStopLossSent = cycle[c].sent], {})
  /\ UNCHANGED late

ModifyRefused(c) ==
  /\ cycle[c].stage = "modify"
  /\ cycle[c].fate = "refused"
  /\ Answered(c, trade, {"failed"})
  /\ UNCHANGED late

\* The connector gives up: the request was applied, or still travels.
ModifyTimesOut(c) ==
  /\ cycle[c].stage = "modify"
  /\ cycle[c].fate # "refused"
  /\ Answered(c, trade, {"failed"})
  /\ late' = IF cycle[c].fate = "travelling" THEN late \cup {cycle[c].sent} ELSE late

\* (faulty variant: a refused close keeps the trade active)
CloseAnsweredKeeps(c) ==
  /\ cycle[c].stage = "close"
  /\ \E open \in {FALSE, broker.open} :
       /\ broker' = [broker EXCEPT !.open = open]
       /\ active' = (active /\ open)
  /\ cycle' = [cycle EXCEPT ![c] = IdleCycle]
  /\ UNCHANGED <<market, trade, late, missed>>

\* closeTrade after the broker's answer; the position stays when it refuses.
CloseAnswered(c) ==
  /\ cycle[c].stage = "close"
  /\ active' = FALSE
  /\ cycle' = [cycle EXCEPT ![c] = IdleCycle]
  /\ \E open \in {FALSE, broker.open} : broker' = [broker EXCEPT !.open = open]
  /\ UNCHANGED <<market, trade, late, missed>>

-----------------------------------------------------------------------------
(* The surroundings: executeTrade's commit, other closers, broker, market *)

\* The opening order, sent with the first stop, is filled and answered.
CommitSucceeds ==
  /\ ~trade.committed
  /\ ~broker.open
  /\ trade' = [trade EXCEPT !.committed = TRUE]
  /\ broker' = [broker EXCEPT !.open = TRUE]
  /\ UNCHANGED <<market, active, cycle, late, missed>>

\* The opening order fails: executeTrade removes the trade.
CommitFails ==
  /\ ~trade.committed
  /\ active
  /\ active' = FALSE
  /\ UNCHANGED <<market, trade, cycle, broker, late, missed>>

\* A smart exit or an HTTP route closes the trade (ExecutionEngine).
ClosedElsewhere ==
  /\ active
  /\ active' = FALSE
  /\ \E open \in {FALSE, broker.open} : broker' = [broker EXCEPT !.open = open]
  /\ UNCHANGED <<market, trade, cycle, late, missed>>

\* lastBrokerModifyAt is 1.5 s old.
ThrottleExpires ==
  /\ trade.recentModify
  /\ trade' = [trade EXCEPT !.recentModify = FALSE]
  /\ UNCHANGED <<market, active, cycle, broker, late, missed>>

BrokerApplies(c) ==
  /\ cycle[c].stage = "modify"
  /\ cycle[c].fate = "travelling"
  /\ broker.open
  /\ broker' = [broker EXCEPT !.stop = cycle[c].sent]
  /\ cycle' = [cycle EXCEPT ![c].fate = "applied"]
  /\ UNCHANGED <<market, trade, active, late, missed>>

BrokerRefuses(c) ==
  /\ cycle[c].stage = "modify"
  /\ cycle[c].fate = "travelling"
  /\ cycle' = [cycle EXCEPT ![c].fate = "refused"]
  /\ UNCHANGED <<market, trade, active, broker, late, missed>>

\* A request that was given up arrives, or never does.
LateRequest(s) ==
  /\ s \in late
  /\ late' = late \ {s}
  /\ \/ broker.open /\ broker' = [broker EXCEPT !.stop = s]
     \/ UNCHANGED broker
  /\ UNCHANGED <<market, trade, active, cycle, missed>>

PriceMoves ==
  /\ \E p \in Price \ {market} : market' = p
  /\ UNCHANGED <<trade, active, cycle, broker, late, missed>>

CycleStep(c) ==
  \/ VisitTrade(c) \/ PriceFails(c) \/ Manage(c)
  \/ SuperviseBreakeven(c) \/ SuperviseClose(c)
  \/ ModifySucceeds(c) \/ ModifyRefused(c) \/ ModifyTimesOut(c)
  \/ CloseAnswered(c)
  \/ BrokerApplies(c) \/ BrokerRefuses(c)

Next ==
  \/ \E c \in Cycle : CycleStep(c)
  \/ \E s \in late : LateRequest(s)
  \/ CommitSucceeds \/ CommitFails \/ ClosedElsewhere
  \/ ThrottleExpires \/ PriceMoves

Spec == Init /\ [][Next]_vars

\* The monitoring interval keeps firing; the connector's HTTP calls are
\* answered or time out; prices are obtained again and again.
Fairness ==
  \A c \in Cycle :
    /\ WF_vars(VisitTrade(c))
    /\ SF_vars(Manage(c) \/ SuperviseBreakeven(c) \/ SuperviseClose(c))
    /\ WF_vars(ModifySucceeds(c) \/ ModifyRefused(c) \/ ModifyTimesOut(c))
    /\ WF_vars(CloseAnswered(c))

FairSpec == Spec /\ Fairness

-----------------------------------------------------------------------------
(* Properties *)

\* Every variable has its type.
TypeOK ==
  /\ market \in Int
  /\ trade \in TradeRecord
  /\ active \in BOOLEAN
  /\ cycle \in [Cycle -> CycleRecord]
  /\ broker \in [open : BOOLEAN, stop : Int]
  /\ late \subseteq Int
  /\ missed \subseteq Reason

\* Without the supervisor, while the broker's position is open and no modify
\* request is out, it has the stop of the trade, unless a change was made before
\* the opening order was answered, was throttled or failed, or overtook another
\* one.  In particular "SL unchanged" never skips a needed request; with the
\* supervisor, which takes trailed stops back, it does.
BrokerStopExplained ==
  (/\ ~Supervisor /\ Consistent(trade)
   /\ active /\ broker.open /\ InFlight = {} /\ missed = {}) => broker.stop = trade.stopLoss

\* Without the supervisor no interleaving of cycles, each acting on a price of
\* its own, ever loosens the stop of a trade with a consistent plan.
StopNeverLoosens ==
  [][~Supervisor /\ Consistent(trade) => Improvement(trade, trade.stopLoss, trade'.stopLoss) >= 0]_vars

\* Without the supervisor the broker's stop is loosened only by a request that
\* was overtaken by a later one.
BrokerStopLoosensOnlyByRace ==
  [][(/\ ~Supervisor /\ Consistent(trade)
       /\ Improvement(trade, broker.stop, broker'.stop) < 0)
       => "raced" \in missed]_vars

\* A request never brings a stop the trade has not had: what the broker holds
\* and what is on its way lies between the first stop and the current one.
NothingBeyondTheStop ==
  (~Supervisor /\ Consistent(trade)) =>
    /\ Improvement(trade, broker.stop, trade.stopLoss) >= 0
    /\ \A c \in InFlight : Improvement(trade, cycle[c].sent, trade.stopLoss) >= 0
    /\ \A s \in late : Improvement(trade, s, trade.stopLoss) >= 0

\* Once the market stays where the stop or the target asks for a close, the
\* trade is closed, whatever the broker answers and however cycles overlap.
ReachedLevelCloses ==
  <>[]ShouldCloseTrade(trade, market) => <>~active

\* docs/AUTO_TRADING_CHECKLIST.md:59, "Move SL to breakeven when price reaches
\* 50% of TP distance": the stop goes to breakeven at a profit.
BreakevenInProfit ==
  [][(~Supervisor /\ ~trade.movedToBreakeven /\ trade'.movedToBreakeven)
       => trade'.currentPnL >= trade.plan.breakeven]_vars
=============================================================================
