--------------------------- MODULE ExecutionEngine ---------------------------
(***************************************************************************)
(* The life of a trade in the execution engine                             *)
(* (src/core/engine/modules/execution-engine.js) and its daily-risk gate   *)
(* (risk-engine.js, the concurrency check of trading-engine.js).           *)
(*                                                                         *)
(* Every async function is cut at its awaits: what runs between two awaits *)
(* is one atomic step of the Node.js event loop, and other callers run in  *)
(* between.  A trade id stands for one executeTrade call, since each call  *)
(* generates a fresh id; a closer stands for one caller of closeTrade (the *)
(* management timer, the smart-exit monitor, an HTTP route).  The broker   *)
(* behind the router is external: an order may fill, be refused, or fill   *)
(* after the answer was lost.                                              *)
(***************************************************************************)
EXTENDS Integers, FiniteSets, Sequences, FiniteSetsExt

CONSTANTS
  Trade,                \* executeTrade calls, named by the trade id they make
  Pair,                 \* currency pairs
  Closer,               \* concurrent callers of closeTrade
  NoTrade, NoPair,      \* model values: "none"
  Risks,                \* desired risk fractions after Kelly and guardrails
  MinRisk,              \* config.minKellyFraction, in the same unit
  MaxDailyRisk,         \* config.maxDailyRisk
  MaxRiskPerSymbol,     \* config.maxRiskPerSymbol
  MaxConcurrentTrades,  \* config.maxConcurrentTrades
  MaxDays               \* bound: midnights that pass

ASSUME EngineAssumption ==
  /\ IsFiniteSet(Trade) /\ IsFiniteSet(Closer)
  /\ NoTrade \notin Trade /\ NoPair \notin Pair
  /\ Risks \subseteq Nat
  /\ MinRisk \in Nat \ {0}
  /\ MaxDailyRisk \in Nat /\ MaxRiskPerSymbol \in Nat
  /\ MaxConcurrentTrades \in Nat /\ MaxDays \in Nat

VARIABLES
  activeTrades,    \* keys of the Map activeTrades
  trade,           \* the trade (or, before insertion, signal) record of each id
  tradingHistory,  \* array tradingHistory, as ids
  dailyRisk,       \* dailyRisk
  lastResetDate,   \* lastResetDate
  today,           \* the calendar date, which passes by itself
  call,            \* where the executeTrade call of each id is
  closing,         \* where each closer's closeTrade call is
  order,           \* the opening order of each id, as the broker sees it
  position         \* 1 while the broker holds a position for the id

vars == <<activeTrades, trade, tradingHistory, dailyRisk, lastResetDate, today,
          call, closing, order, position>>

\* closes holds how the broker part of each finished closeTrade ended:
\* "acked" (brokerCloseReceipt), "refused" (brokerCloseError) or "unsent"
\* (acknowledged although no request was made, the receipt is null).
NewTrade == [pair |-> NoPair, risk |-> 0, dailyRiskUsed |-> 0,
             chargedOn |-> -1, broker |-> FALSE, closes |-> {}]

CloseOutcome == {"acked", "refused", "unsent"}

TradeRecord == [pair : Pair \cup {NoPair}, risk : Nat, dailyRiskUsed : Int,
                chargedOn : Nat \cup {-1}, broker : BOOLEAN,
                closes : SUBSET CloseOutcome]

IdleCloser == [trade |-> NoTrade, stage |-> "idle"]

CloserRecord == {IdleCloser} \cup
  [trade : Trade, stage : {"manualSent", "price", "sent"} \cup CloseOutcome]

Init ==
  /\ activeTrades = {}
  /\ trade = [t \in Trade |-> NewTrade]
  /\ tradingHistory = <<>>
  /\ dailyRisk = 0
  /\ lastResetDate = 0
  /\ today = 0
  /\ call = [t \in Trade |-> "idle"]
  /\ closing = [c \in Closer |-> IdleCloser]
  /\ order = [t \in Trade |-> "none"]
  /\ position = [t \in Trade |-> 0]

-----------------------------------------------------------------------------
(* Sizing and validating a signal *)

\* dailyRisk after checkDailyReset: zero once the date has changed.
DailyRiskAfterReset == IF today # lastResetDate THEN 0 ELSE dailyRisk

\* remainingDailyRisk of calculateRiskManagement.
RemainingDailyRisk(used) == IF used > MaxDailyRisk THEN 0 ELSE MaxDailyRisk - used

\* (faulty variant: the size ignores what the day has left)
EffectiveRiskUncapped(desired, used) == desired

\* effectiveRiskFraction: the desired fraction capped by what the day has left.
EffectiveRisk(desired, used) ==
  IF desired < RemainingDailyRisk(used) THEN desired ELSE RemainingDailyRisk(used)

\* canTrade and the size check of validateSignal, on the state of this moment.
WithinRiskLimit(desired, used) ==
  /\ EffectiveRisk(desired, used) >= MinRisk
  /\ RemainingDailyRisk(used) >= MinRisk
  /\ Cardinality(activeTrades) < MaxConcurrentTrades

\* calculateRiskManagement followed by validateSignal: the signal keeps the
\* verdict and the size it was given here until it is executed.
GenerateSignal(t) ==
  /\ call[t] = "idle"
  /\ dailyRisk' = DailyRiskAfterReset
  /\ lastResetDate' = today
  /\ \E p \in Pair, desired \in Risks :
       IF WithinRiskLimit(desired, dailyRisk')
         THEN /\ trade' = [trade EXCEPT ![t].pair = p,
                                        ![t].risk = EffectiveRisk(desired, dailyRisk'),
                                        ![t].dailyRiskUsed = dailyRisk']
              /\ call' = [call EXCEPT ![t] = "signal"]
         ELSE UNCHANGED <<trade, call>>
  /\ UNCHANGED <<activeTrades, tradingHistory, today, closing, order, position>>

-----------------------------------------------------------------------------
(* executeTrade *)

RiskOn(p, S) == MapThenSumSet(LAMBDA t : trade[t].risk, {t \in S : trade[t].pair = p})

\* The per-symbol check, made with the new trade already in the map.
PerSymbolRiskOk(t) == RiskOn(trade[t].pair, activeTrades \cup {t}) <= MaxRiskPerSymbol

\* Expired signal or market rules, or the per-symbol check (the trade is taken
\* out of the map again before the call returns).
ExecuteTradeBlocked(t) ==
  /\ call[t] = "signal"
  /\ call' = [call EXCEPT ![t] = "failed"]
  /\ UNCHANGED <<activeTrades, trade, tradingHistory, dailyRisk, lastResetDate,
                 today, closing, order, position>>

\* (faulty variant: the per-symbol sum is not checked)
ExecuteTradeUnchecked(t) ==
  /\ call[t] = "signal"
  /\ activeTrades' = activeTrades \cup {t}
  /\ dailyRisk' = dailyRisk + trade[t].risk
  /\ trade' = [trade EXCEPT ![t].chargedOn = lastResetDate]
  /\ call' = [call EXCEPT ![t] = "commit"]
  /\ order' = [order EXCEPT ![t] = "sent"]
  /\ UNCHANGED <<tradingHistory, lastResetDate, today, closing, position>>

\* From the entry of executeTrade to the await of commitBrokerOrder.
ExecuteTradeAccepted(t) ==
  /\ call[t] = "signal"
  /\ PerSymbolRiskOk(t)
  /\ activeTrades' = activeTrades \cup {t}
  /\ dailyRisk' = dailyRisk + trade[t].risk
  /\ trade' = [trade EXCEPT ![t].chargedOn = lastResetDate]
  /\ call' = [call EXCEPT ![t] = "commit"]
  /\ order' = [order EXCEPT ![t] = "sent"]
  /\ UNCHANGED <<tradingHistory, lastResetDate, today, closing, position>>

\* (faulty variant: the committed trade is put back in the map)
CommitSucceedsReinserts(t) ==
  /\ call[t] = "commit"
  /\ order[t] = "filled"
  /\ call' = [call EXCEPT ![t] = "done"]
  /\ trade' = [trade EXCEPT ![t].broker = TRUE]
  /\ activeTrades' = activeTrades \cup {t}
  /\ UNCHANGED <<tradingHistory, dailyRisk, lastResetDate, today, closing,
                 order, position>>

\* commitBrokerOrder resolves with success: the broker is stored on the trade
\* object, whether or not it is still in the map.
CommitSucceeds(t) ==
  /\ call[t] = "commit"
  /\ order[t] = "filled"
  /\ call' = [call EXCEPT ![t] = "done"]
  /\ trade' = [trade EXCEPT ![t].broker = TRUE]
  /\ UNCHANGED <<activeTrades, tradingHistory, dailyRisk, lastResetDate, today,
                 closing, order, position>>

\* It resolves with a failure: the order was refused, or the answer was lost or
\* late.  The trade leaves the map and its risk is given back.
CommitFails(t) ==
  /\ call[t] = "commit"
  /\ call' = [call EXCEPT ![t] = "failed"]
  /\ activeTrades' = activeTrades \ {t}
  /\ dailyRisk' = dailyRisk - trade[t].risk
  /\ UNCHANGED <<trade, tradingHistory, lastResetDate, today, closing, order,
                 position>>

-----------------------------------------------------------------------------
(* closeTrade and the manual-close route *)

\* closeTrade up to its await: a trade without a broker is acknowledged
\* without a request, an id that is no longer in the map returns at once.
CloseEntered(t) ==
  IF t \notin activeTrades THEN IdleCloser
  ELSE IF trade[t].broker THEN [trade |-> t, stage |-> "sent"]
  ELSE [trade |-> t, stage |-> "unsent"]

\* The management timer, the smart-exit monitor or a route calls closeTrade.
CloseTrade(c, t) ==
  /\ closing[c] = IdleCloser
  /\ t \in activeTrades
  /\ closing' = [closing EXCEPT ![c] = CloseEntered(t)]
  /\ UNCHANGED <<activeTrades, trade, tradingHistory, dailyRisk, lastResetDate,
                 today, call, order, position>>

\* POST /broker/manual-close: the route first closes at the broker itself.
ManualClose(c, t) ==
  /\ closing[c] = IdleCloser
  /\ t \in activeTrades \/ position[t] = 1
  /\ closing' = [closing EXCEPT ![c] = [trade |-> t, stage |-> "manualSent"]]
  /\ UNCHANGED <<activeTrades, trade, tradingHistory, dailyRisk, lastResetDate,
                 today, call, order, position>>

\* The broker's answer to that request: on success, and if the trade is still
\* active, the route waits for a price; otherwise it is finished.
ManualCloseAnswered(c, ok) ==
  LET t == closing[c].trade IN
  /\ closing[c].stage = "manualSent"
  /\ closing' = [closing EXCEPT ![c] = IF ok /\ t \in activeTrades
                                         THEN [trade |-> t, stage |-> "price"]
                                         ELSE IdleCloser]
  /\ ok => position[t] = 1
  /\ \/ position' = [position EXCEPT ![t] = 0]
     \/ ~ok /\ UNCHANGED position
  /\ UNCHANGED <<activeTrades, trade, tradingHistory, dailyRisk, lastResetDate,
                 today, call, order>>

\* getCurrentPriceForPair answers and closeTrade is entered, or it throws and
\* the route gives up.
ManualClosePriced(c) ==
  /\ closing[c].stage = "price"
  /\ \/ closing' = [closing EXCEPT ![c] = CloseEntered(closing[c].trade)]
     \/ closing' = [closing EXCEPT ![c] = IdleCloser]
  /\ UNCHANGED <<activeTrades, trade, tradingHistory, dailyRisk, lastResetDate,
                 today, call, order, position>>

\* (faulty variant: every answer counts as an acknowledgement)
BrokerCloseAlwaysAcked(c, ok) ==
  LET t == closing[c].trade IN
  /\ closing[c].stage = "sent"
  /\ closing' = [closing EXCEPT ![c].stage = "acked"]
  /\ ok => position[t] = 1
  /\ \/ position' = [position EXCEPT ![t] = 0]
     \/ ~ok /\ UNCHANGED position
  /\ UNCHANGED <<activeTrades, trade, tradingHistory, dailyRisk, lastResetDate,
                 today, call, order>>

\* (faulty variant: a refused close ends closeTrade)
BrokerCloseRefusalReturns(c, ok) ==
  LET t == closing[c].trade IN
  /\ closing[c].stage = "sent"
  /\ closing' = [closing EXCEPT ![c] = IF ok THEN [@ EXCEPT !.stage = "acked"]
                                            ELSE IdleCloser]
  /\ ok => position[t] = 1
  /\ \/ position' = [position EXCEPT ![t] = 0]
     \/ ~ok /\ UNCHANGED position
  /\ UNCHANGED <<activeTrades, trade, tradingHistory, dailyRisk, lastResetDate,
                 today, call, order>>

\* closeBrokerPosition answers.  Success means the broker closed the position;
\* a failure may hide a close whose answer was lost.
BrokerCloseAnswered(c, ok) ==
  LET t == closing[c].trade IN
  /\ closing[c].stage = "sent"
  /\ closing' = [closing EXCEPT ![c].stage = IF ok THEN "acked" ELSE "refused"]
  /\ ok => position[t] = 1
  /\ \/ position' = [position EXCEPT ![t] = 0]
     \/ ~ok /\ UNCHANGED position
  /\ UNCHANGED <<activeTrades, trade, tradingHistory, dailyRisk, lastResetDate,
                 today, call, order>>

\* (faulty variant: a closed trade gives its risk back to the day)
FinishCloseTradeRefunds(c) ==
  LET t == closing[c].trade IN
  /\ closing[c].stage \in CloseOutcome
  /\ trade' = [trade EXCEPT ![t].closes = @ \cup {closing[c].stage}]
  /\ tradingHistory' = Append(tradingHistory, t)
  /\ activeTrades' = activeTrades \ {t}
  /\ closing' = [closing EXCEPT ![c] = IdleCloser]
  /\ dailyRisk' = dailyRisk - trade[t].risk
  /\ UNCHANGED <<lastResetDate, today, call, order, position>>

\* The rest of closeTrade, which does not look at the map again.
FinishCloseTrade(c) ==
  LET t == closing[c].trade IN
  /\ closing[c].stage \in CloseOutcome
  /\ trade' = [trade EXCEPT ![t].closes = @ \cup {closing[c].stage}]
  /\ tradingHistory' = Append(tradingHistory, t)
  /\ activeTrades' = activeTrades \ {t}
  /\ closing' = [closing EXCEPT ![c] = IdleCloser]
  /\ UNCHANGED <<dailyRisk, lastResetDate, today, call, order, position>>

-----------------------------------------------------------------------------
(* The environment: the broker and the calendar *)

\* (faulty variant: an order that was sent again is filled again)
BrokerFillsAgain(t) ==
  /\ order[t] = "sent"
  /\ position' = [position EXCEPT ![t] = @ + 1]
  /\ UNCHANGED <<activeTrades, trade, tradingHistory, dailyRisk, lastResetDate,
                 today, call, closing, order>>

\* An order already sent may fill even after its caller gave up on it.
BrokerFills(t) ==
  /\ order[t] = "sent"
  /\ order' = [order EXCEPT ![t] = "filled"]
  /\ position' = [position EXCEPT ![t] = 1]
  /\ UNCHANGED <<activeTrades, trade, tradingHistory, dailyRisk, lastResetDate,
                 today, call, closing>>

BrokerRefuses(t) ==
  /\ order[t] = "sent"
  /\ order' = [order EXCEPT ![t] = "refused"]
  /\ UNCHANGED <<activeTrades, trade, tradingHistory, dailyRisk, lastResetDate,
                 today, call, closing, position>>

Midnight ==
  /\ today < MaxDays
  /\ today' = today + 1
  /\ UNCHANGED <<activeTrades, trade, tradingHistory, dailyRisk, lastResetDate,
                 call, closing, order, position>>

-----------------------------------------------------------------------------
ExecuteTrade(t) == ExecuteTradeBlocked(t) \/ ExecuteTradeAccepted(t)

CommitAnswered(t) == CommitSucceeds(t) \/ CommitFails(t)

CloserContinues(c) ==
  \/ \E ok \in BOOLEAN : ManualCloseAnswered(c, ok) \/ BrokerCloseAnswered(c, ok)
  \/ ManualClosePriced(c)
  \/ FinishCloseTrade(c)

Next ==
  \/ \E t \in Trade : GenerateSignal(t) \/ ExecuteTrade(t) \/ CommitAnswered(t)
                      \/ BrokerFills(t) \/ BrokerRefuses(t)
  \/ \E c \in Closer : \/ \E t \in Trade : CloseTrade(c, t) \/ ManualClose(c, t)
                       \/ CloserContinues(c)
  \/ Midnight

Spec == Init /\ [][Next]_vars

-----------------------------------------------------------------------------
(* Properties *)

InHistory(t) == \E i \in 1..Len(tradingHistory) : tradingHistory[i] = t

TypeOK ==
  /\ activeTrades \subseteq Trade
  /\ trade \in [Trade -> TradeRecord]
  /\ tradingHistory \in Seq(Trade)
  /\ dailyRisk \in Int
  /\ lastResetDate \in 0..MaxDays /\ today \in 0..MaxDays
  /\ call \in [Trade -> {"idle", "signal", "commit", "done", "failed"}]
  /\ closing \in [Closer -> CloserRecord]
  /\ order \in [Trade -> {"none", "sent", "filled", "refused"}]
  /\ position \in [Trade -> 0..1]

\* The risk of the live trades of one symbol never exceeds maxRiskPerSymbol,
\* however many executeTrade calls wait for the broker: the sum and the
\* insertion are made without an await in between.
SymbolRiskBounded == \A p \in Pair : RiskOn(p, activeTrades) <= MaxRiskPerSymbol

\* executeTrade takes the day over maxDailyRisk only on a stale signal: if the
\* risk used has not grown since the signal was sized, the budget holds.
FreshSignalKeepsBudget ==
  [][\A t \in Trade :
       call[t] = "signal" /\ call'[t] = "commit" /\ dailyRisk <= trade[t].dailyRiskUsed
         => dailyRisk' <= MaxDailyRisk]_vars

SumRisk(S) == MapThenSumSet(LAMBDA t : trade[t].risk, S)

\* dailyRisk covers the live trades opened since the last reset, closes and
\* failures included; all it can miss is what failed orders of an earlier day
\* gave back after the reset.
BudgetCoversOpenRisk ==
  dailyRisk + SumRisk({t \in Trade : call[t] = "failed" /\ trade[t].chargedOn \in 0..(lastResetDate - 1)})
    >= SumRisk({t \in activeTrades : trade[t].chargedOn = lastResetDate})

\* A trade in the history is never active (again): the answer of a slow
\* opening order does not bring a closed trade back.
ClosedNotActive == \A t \in Trade : InHistory(t) => t \notin activeTrades

\* A broker position that no active trade stands for has one of three causes:
\* its opening call was told of a failure, the broker refused (or seemed to
\* refuse) to close it, or it was closed before its order was answered, when
\* there was nothing to send.
OrphanExplained ==
  \A t \in Trade :
    position[t] = 1 /\ t \notin activeTrades
      => \/ call[t] = "failed"
         \/ trade[t].closes \cap {"refused", "unsent"} # {}

\* The book of trades this engine keeps (module TradeBook).
BookState(t) ==
  CASE InHistory(t) -> "closed"
    [] ~InHistory(t) /\ t \in activeTrades -> "open"
    [] ~InHistory(t) /\ t \notin activeTrades /\ call[t] = "failed" -> "cancelled"
    [] OTHER -> "new"

BookClaim(c) ==
  IF closing[c].stage \in {"sent"} \cup CloseOutcome THEN closing[c].trade ELSE NoTrade

Book == INSTANCE TradeBook WITH state <- [t \in Trade |-> BookState(t)],
                                claim <- [c \in Closer |-> BookClaim(c)]

\* The engine implements the book: no id is opened twice, and only a
\* closeTrade that found the trade in the map moves it to the history.
ImplementsBook == Book!Spec

\* What the checklist says: the active trades stay within maxConcurrentTrades.
ActiveTradesWithinMax == Cardinality(activeTrades) <= MaxConcurrentTrades
=============================================================================
