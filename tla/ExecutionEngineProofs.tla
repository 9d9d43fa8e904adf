------------------------ MODULE ExecutionEngineProofs ------------------------
(* Machine-checked theorems about ExecutionEngine, for every set of trades, *)
(* closers and pairs and every value of the limits.                         *)
EXTENDS ExecutionEngine, FiniteSetTheorems, WellFoundedInduction, TLAPS

\* The size of a signal is a natural number and fits in what the day has left.
LEMMA EffectiveRiskFits ==
  ASSUME NEW desired \in Risks, NEW used \in Int
  PROVE  /\ EffectiveRisk(desired, used) \in Nat
         /\ WithinRiskLimit(desired, used)
              => EffectiveRisk(desired, used) <= MaxDailyRisk - used
  BY EngineAssumption DEF EffectiveRisk, RemainingDailyRisk, WithinRiskLimit

\* Updating one field of a trade, or a closer's stage, keeps the record's type.
LEMMA RecordUpdates ==
  /\ NewTrade \in TradeRecord
  /\ IdleCloser \in CloserRecord
  /\ \A r \in TradeRecord :
       /\ \A d \in Nat : [r EXCEPT !.chargedOn = d] \in TradeRecord
       /\ [r EXCEPT !.broker = TRUE] \in TradeRecord
       /\ \A o \in CloseOutcome : [r EXCEPT !.closes = r.closes \cup {o}] \in TradeRecord
  /\ \A t \in Trade, s \in {"manualSent", "price", "sent"} \cup CloseOutcome :
       [trade |-> t, stage |-> s] \in CloserRecord
  /\ \A r \in CloserRecord, o \in CloseOutcome :
       r.stage # "idle" => [r EXCEPT !.stage = o] \in CloserRecord
<1>1. NewTrade \in TradeRecord /\ IdleCloser \in CloserRecord
  BY DEF NewTrade, TradeRecord, IdleCloser, CloserRecord
<1>2. ASSUME NEW r \in TradeRecord
      PROVE  /\ \A d \in Nat : [r EXCEPT !.chargedOn = d] \in TradeRecord
             /\ [r EXCEPT !.broker = TRUE] \in TradeRecord
             /\ \A o \in CloseOutcome : [r EXCEPT !.closes = r.closes \cup {o}] \in TradeRecord
  BY DEF TradeRecord
<1>3. \A t \in Trade, s \in {"manualSent", "price", "sent"} \cup CloseOutcome :
        [trade |-> t, stage |-> s] \in CloserRecord
  BY DEF CloserRecord
<1>4. ASSUME NEW r \in CloserRecord, NEW o \in CloseOutcome, r.stage # "idle"
      PROVE  [r EXCEPT !.stage = o] \in CloserRecord
  BY <1>4 DEF CloserRecord, IdleCloser
<1> QED
  BY <1>1, <1>2, <1>3, <1>4

\* Sizing a signal keeps the type of its record.
LEMMA SizedSignalType ==
  ASSUME NEW r \in TradeRecord, NEW p \in Pair, NEW k \in Nat, NEW d \in Int
  PROVE  [r EXCEPT !.pair = p, !.risk = k, !.dailyRiskUsed = d] \in TradeRecord
<1>1. [r EXCEPT !.pair = p] \in TradeRecord
  BY DEF TradeRecord
<1>2. \A q \in TradeRecord : [q EXCEPT !.risk = k] \in TradeRecord
  BY DEF TradeRecord
<1>3. \A q \in TradeRecord : [q EXCEPT !.dailyRiskUsed = d] \in TradeRecord
  BY DEF TradeRecord
<1> QED
  BY <1>1, <1>2, <1>3

\* A closer that is not idle holds a trade.
LEMMA CloserHoldsTrade ==
  ASSUME NEW r \in CloserRecord, r.stage # "idle"
  PROVE  r.trade \in Trade /\ r.stage \in {"manualSent", "price", "sent"} \cup CloseOutcome
  BY DEF CloserRecord, IdleCloser

\* What closeTrade leaves behind at its await is a well-formed call.
LEMMA CloseEnteredType == \A t \in Trade : CloseEntered(t) \in CloserRecord
  BY RecordUpdates DEF CloseEntered, CloseOutcome

\* Every action keeps the state well formed.
LEMMA TypeStep == TypeOK /\ [Next]_vars => TypeOK'
<1> SUFFICES ASSUME TypeOK, [Next]_vars PROVE TypeOK'
  OBVIOUS
<1> USE EngineAssumption
<1>1. ASSUME NEW t \in Trade, GenerateSignal(t) PROVE TypeOK'
  <2>1. DailyRiskAfterReset \in Int
    BY DEF TypeOK, DailyRiskAfterReset
  <2>2. dailyRisk' = DailyRiskAfterReset
    BY <1>1 DEF GenerateSignal
  <2>3. PICK p \in Pair, desired \in Risks :
          \/ UNCHANGED <<trade, call>>
          \/ /\ trade' = [trade EXCEPT ![t].pair = p,
                            ![t].risk = EffectiveRisk(desired, dailyRisk'),
                            ![t].dailyRiskUsed = dailyRisk']
             /\ call' = [call EXCEPT ![t] = "signal"]
    BY <1>1 DEF GenerateSignal
  <2>4. EffectiveRisk(desired, dailyRisk') \in Nat
    BY <2>1, <2>2, EffectiveRiskFits
  <2>5. [trade[t] EXCEPT !.pair = p, !.risk = EffectiveRisk(desired, dailyRisk'),
                         !.dailyRiskUsed = dailyRisk'] \in TradeRecord
    BY <2>1, <2>2, <2>4, SizedSignalType DEF TypeOK
  <2>7. trade' \in [Trade -> TradeRecord]
    BY <2>3, <2>5 DEF TypeOK
  <2>6. call' \in [Trade -> {"idle", "signal", "commit", "done", "failed"}]
    BY <2>3 DEF TypeOK
  <2> QED
    BY <1>1, <2>1, <2>2, <2>6, <2>7 DEF GenerateSignal, TypeOK
<1>2. ASSUME NEW t \in Trade, ExecuteTradeBlocked(t) PROVE TypeOK'
  BY <1>2 DEF ExecuteTradeBlocked, TypeOK
<1>3. ASSUME NEW t \in Trade, ExecuteTradeAccepted(t) PROVE TypeOK'
  <2>1. trade[t].risk \in Nat /\ lastResetDate \in Nat
    BY DEF TypeOK, TradeRecord
  <2>2. trade' \in [Trade -> TradeRecord]
    BY <1>3, <2>1, RecordUpdates DEF ExecuteTradeAccepted, TypeOK
  <2> QED
    BY <1>3, <2>1, <2>2 DEF ExecuteTradeAccepted, TypeOK
<1>4. ASSUME NEW t \in Trade, CommitSucceeds(t) PROVE TypeOK'
  BY <1>4, RecordUpdates DEF CommitSucceeds, TypeOK
<1>5. ASSUME NEW t \in Trade, CommitFails(t) PROVE TypeOK'
  <2>1. trade[t].risk \in Nat
    BY DEF TypeOK, TradeRecord
  <2> QED
    BY <1>5, <2>1 DEF CommitFails, TypeOK
<1>6. ASSUME NEW t \in Trade, BrokerFills(t) \/ BrokerRefuses(t) PROVE TypeOK'
  BY <1>6 DEF BrokerFills, BrokerRefuses, TypeOK
<1>7. ASSUME NEW c \in Closer, NEW t \in Trade, CloseTrade(c, t) \/ ManualClose(c, t)
      PROVE  TypeOK'
  <2>1. closing' \in [Closer -> CloserRecord]
    BY <1>7, RecordUpdates, CloseEnteredType DEF CloseTrade, ManualClose, TypeOK
  <2> QED
    BY <1>7, <2>1 DEF CloseTrade, ManualClose, TypeOK
<1>8. ASSUME NEW c \in Closer, NEW ok \in BOOLEAN, ManualCloseAnswered(c, ok)
      PROVE  TypeOK'
  <2>1. closing[c].trade \in Trade
    BY <1>8, CloserHoldsTrade DEF ManualCloseAnswered, TypeOK
  <2>2. closing' \in [Closer -> CloserRecord]
    BY <1>8, <2>1, RecordUpdates DEF ManualCloseAnswered, TypeOK
  <2>3. position' \in [Trade -> 0..1]
    BY <1>8, <2>1 DEF ManualCloseAnswered, TypeOK
  <2> QED
    BY <1>8, <2>2, <2>3 DEF ManualCloseAnswered, TypeOK
<1>9. ASSUME NEW c \in Closer, ManualClosePriced(c) PROVE TypeOK'
  <2>1. closing[c].trade \in Trade
    BY <1>9, CloserHoldsTrade DEF ManualClosePriced, TypeOK
  <2>2. closing' \in [Closer -> CloserRecord]
    BY <1>9, <2>1, RecordUpdates, CloseEnteredType DEF ManualClosePriced, TypeOK
  <2> QED
    BY <1>9, <2>2 DEF ManualClosePriced, TypeOK
<1>10. ASSUME NEW c \in Closer, NEW ok \in BOOLEAN, BrokerCloseAnswered(c, ok)
       PROVE  TypeOK'
  <2>1. closing[c].trade \in Trade
    BY <1>10, CloserHoldsTrade DEF BrokerCloseAnswered, TypeOK
  <2>2. closing' \in [Closer -> CloserRecord]
    BY <1>10, RecordUpdates DEF BrokerCloseAnswered, CloseOutcome, TypeOK
  <2>3. position' \in [Trade -> 0..1]
    BY <1>10, <2>1 DEF BrokerCloseAnswered, TypeOK
  <2> QED
    BY <1>10, <2>2, <2>3 DEF BrokerCloseAnswered, TypeOK
<1>11. ASSUME NEW c \in Closer, FinishCloseTrade(c) PROVE TypeOK'
  <2>1. closing[c].trade \in Trade
    BY <1>11, CloserHoldsTrade DEF FinishCloseTrade, CloseOutcome, TypeOK
  <2>2. trade' \in [Trade -> TradeRecord]
    BY <1>11, <2>1, RecordUpdates DEF FinishCloseTrade, TypeOK
  <2>3. closing' \in [Closer -> CloserRecord]
    BY <1>11, RecordUpdates DEF FinishCloseTrade, TypeOK
  <2>4. tradingHistory' \in Seq(Trade)
    BY <1>11, <2>1 DEF FinishCloseTrade, TypeOK
  <2> QED
    BY <1>11, <2>2, <2>3, <2>4 DEF FinishCloseTrade, TypeOK
<1>12. CASE Midnight
  BY <1>12 DEF Midnight, TypeOK
<1>13. CASE UNCHANGED vars
  BY <1>13 DEF vars, TypeOK
<1> QED
  BY <1>1, <1>2, <1>3, <1>4, <1>5, <1>6, <1>7, <1>8, <1>9, <1>10, <1>11, <1>12, <1>13
  DEF Next, ExecuteTrade, CommitAnswered, CloserContinues

\* Type correctness: every reachable state of the engine is well formed; in
\* particular the broker holds at most one position per trade id.
THEOREM TypeCorrect == Spec => []TypeOK
<1>1. Init => TypeOK
  BY EngineAssumption, RecordUpdates DEF Init, TypeOK
<1>2. QED
  BY <1>1, TypeStep, PTL DEF Spec

-----------------------------------------------------------------------------
(* Safety *)

Started(t) == call[t] \notin {"idle", "signal"}

\* A signal not yet executed fits in what was left when it was sized.
SignalFits == \A t \in Trade : call[t] = "signal" => trade[t].risk <= MaxDailyRisk - trade[t].dailyRiskUsed

\* Nothing is known of a trade before its executeTrade call.
OnlyStarted ==
  \A t \in Trade : t \in activeTrades \/ order[t] # "none" \/ InHistory(t) => Started(t)

\* A position, or a broker on the trade, comes from a filled order.
OnlyFilled == \A t \in Trade : position[t] = 1 \/ trade[t].broker => order[t] = "filled"

\* A close call under way is about a started trade; the broker is only asked
\* about, and only acknowledges, a filled order, and then holds no position.
ClosersInv ==
  \A c \in Closer, t \in Trade : closing[c].trade = t =>
    /\ closing[c].stage \in {"sent"} \cup CloseOutcome => Started(t)
    /\ closing[c].stage \in {"sent", "acked"} => order[t] = "filled"
    /\ closing[c].stage = "acked" => position[t] = 0

\* OrphanExplained, strengthened to the orders that may still fill.
OrphanInv ==
  \A t \in Trade :
    (position[t] = 1 \/ order[t] = "sent") /\ t \notin activeTrades
      => call[t] = "failed" \/ trade[t].closes \cap {"refused", "unsent"} # {}

IInv == /\ TypeOK /\ SignalFits /\ OnlyStarted /\ OnlyFilled
        /\ ClosersInv /\ ClosedNotActive /\ OrphanInv

\* Appending a trade to the history adds that trade and no other.
LEMMA HistoryGrows ==
  ASSUME TypeOK, NEW t \in Trade, tradingHistory' = Append(tradingHistory, t)
  PROVE  \A u \in Trade : InHistory(u)' <=> InHistory(u) \/ u = t
<1>1. /\ tradingHistory \in Seq(Trade) /\ Len(tradingHistory) \in Nat
      /\ Len(tradingHistory') = Len(tradingHistory) + 1
      /\ \A i \in 1..Len(tradingHistory) : tradingHistory'[i] = tradingHistory[i]
      /\ tradingHistory'[Len(tradingHistory) + 1] = t
  BY DEF TypeOK
<1>2. \A u : InHistory(u)' <=> \E i \in 1..Len(tradingHistory') : tradingHistory'[i] = u
  BY DEF InHistory
<1>3. 1..Len(tradingHistory') = 1..Len(tradingHistory) \cup {Len(tradingHistory) + 1}
  BY <1>1
<1> HIDE DEF InHistory
<1> QED
  BY <1>1, <1>2, <1>3 DEF InHistory

LEMMA InductiveInit == Init => IInv
<1> SUFFICES ASSUME Init PROVE IInv
  OBVIOUS
<1>1. TypeOK
  BY EngineAssumption, RecordUpdates DEF Init, TypeOK
<1>2. \A t \in Trade : ~InHistory(t)
  BY DEF Init, InHistory
<1>3. SignalFits /\ OnlyStarted /\ ClosedNotActive /\ OrphanInv
  BY <1>2 DEF Init, SignalFits, OnlyStarted, ClosedNotActive, OrphanInv
<1>4. OnlyFilled
  BY DEF Init, OnlyFilled, NewTrade
<1>5. ClosersInv
  BY DEF Init, ClosersInv, IdleCloser, CloseOutcome
<1> QED
  BY <1>1, <1>3, <1>4, <1>5 DEF IInv

\* Every action preserves the strengthened invariant.
LEMMA InductiveStep == IInv /\ [Next]_vars => IInv'
<1> SUFFICES ASSUME IInv, [Next]_vars PROVE IInv'
  OBVIOUS
<1> USE DEF IInv
<1>0. TypeOK'
  BY TypeStep
<1>1. ASSUME NEW t \in Trade, GenerateSignal(t) PROVE IInv'
  <2>1. PICK p \in Pair, desired \in Risks :
          \/ UNCHANGED <<trade, call>>
          \/ /\ WithinRiskLimit(desired, dailyRisk')
             /\ trade' = [trade EXCEPT ![t].pair = p,
                            ![t].risk = EffectiveRisk(desired, dailyRisk'),
                            ![t].dailyRiskUsed = dailyRisk']
             /\ call' = [call EXCEPT ![t] = "signal"]
    BY <1>1 DEF GenerateSignal
  <2>2. dailyRisk' \in Int
    BY <1>0 DEF TypeOK
  <2>3. \A u \in Trade :
          /\ trade'[u].broker = trade[u].broker /\ trade'[u].closes = trade[u].closes
          /\ u # t => trade'[u] = trade[u]
    BY <2>1 DEF TypeOK, TradeRecord
  <2>4. \A u \in Trade : Started(u)' <=> Started(u)
    BY <1>1, <2>1 DEF GenerateSignal, Started, TypeOK
  <2>5. SignalFits'
    <3>1. CASE UNCHANGED <<trade, call>>
      BY <3>1 DEF SignalFits
    <3>2. CASE /\ WithinRiskLimit(desired, dailyRisk')
               /\ trade' = [trade EXCEPT ![t].pair = p,
                              ![t].risk = EffectiveRisk(desired, dailyRisk'),
                              ![t].dailyRiskUsed = dailyRisk']
               /\ call' = [call EXCEPT ![t] = "signal"]
      <4>1. trade'[t].risk = EffectiveRisk(desired, dailyRisk') /\ trade'[t].dailyRiskUsed = dailyRisk'
        BY <3>2 DEF TypeOK, TradeRecord
      <4> QED
        BY <2>2, <2>3, <3>2, <4>1, EffectiveRiskFits DEF SignalFits, TypeOK
    <3> QED
      BY <2>1, <3>1, <3>2
  <2>6. \A u \in Trade : InHistory(u)' <=> InHistory(u)
    BY <1>1 DEF GenerateSignal, InHistory
  <2>7. OnlyStarted' /\ ClosersInv' /\ ClosedNotActive'
    BY <1>1, <2>4, <2>6 DEF GenerateSignal, OnlyStarted, ClosersInv, ClosedNotActive
  <2>8. OnlyFilled'
    BY <1>1, <2>3 DEF GenerateSignal, OnlyFilled
  <2>9. \A u \in Trade : call'[u] = "failed" <=> call[u] = "failed"
    BY <1>1, <2>1 DEF GenerateSignal, TypeOK
  <2>10. OrphanInv'
    BY <1>1, <2>3, <2>9 DEF GenerateSignal, OrphanInv
  <2> QED
    BY <1>0, <2>5, <2>7, <2>8, <2>10
<1>2. ASSUME NEW t \in Trade, ExecuteTradeBlocked(t) PROVE IInv'
  BY <1>0, <1>2
  DEF ExecuteTradeBlocked, SignalFits, OnlyStarted, OnlyFilled, ClosersInv, ClosedNotActive,
      OrphanInv, InHistory, Started, TypeOK
<1>3. ASSUME NEW t \in Trade, ExecuteTradeAccepted(t) PROVE IInv'
  <2>1. \A u \in Trade : /\ trade'[u].risk = trade[u].risk
                         /\ trade'[u].dailyRiskUsed = trade[u].dailyRiskUsed
                         /\ trade'[u].broker = trade[u].broker
                         /\ trade'[u].closes = trade[u].closes
    BY <1>3 DEF ExecuteTradeAccepted, TypeOK, TradeRecord
  <2>2. \A u \in Trade : InHistory(u)' <=> InHistory(u)
    BY <1>3 DEF ExecuteTradeAccepted, InHistory
  <2>3. ~Started(t) /\ order[t] = "none"
    BY <1>3 DEF ExecuteTradeAccepted, Started, OnlyStarted
  <2>4. \A u \in Trade : Started(u)' <=> Started(u) \/ u = t
    BY <1>3 DEF ExecuteTradeAccepted, Started, TypeOK
  <2>5. SignalFits' /\ OnlyStarted' /\ ClosedNotActive'
    BY <1>3, <2>1, <2>2, <2>3, <2>4
    DEF ExecuteTradeAccepted, SignalFits, OnlyStarted, ClosedNotActive, TypeOK
  <2>6. \A u \in Trade : u # t => order'[u] = order[u] /\ call'[u] = call[u]
    BY <1>3 DEF ExecuteTradeAccepted, TypeOK
  <2>7. OnlyFilled' /\ ClosersInv'
    BY <1>3, <2>1, <2>3, <2>4, <2>6 DEF ExecuteTradeAccepted, OnlyFilled, ClosersInv
  <2>8. OrphanInv'
    BY <1>3, <2>1, <2>6 DEF ExecuteTradeAccepted, OrphanInv
  <2> QED
    BY <1>0, <2>5, <2>7, <2>8
<1>4. ASSUME NEW t \in Trade, CommitSucceeds(t) PROVE IInv'
  <2>1. \A u \in Trade : /\ trade'[u].risk = trade[u].risk
                         /\ trade'[u].dailyRiskUsed = trade[u].dailyRiskUsed
                         /\ u # t => trade'[u].broker = trade[u].broker
                         /\ trade'[u].closes = trade[u].closes
    BY <1>4 DEF CommitSucceeds, TypeOK, TradeRecord
  <2>2. \A u \in Trade : /\ InHistory(u)' <=> InHistory(u)
                         /\ Started(u)' <=> Started(u)
    BY <1>4 DEF CommitSucceeds, InHistory, Started, TypeOK
  <2>3. \A u \in Trade : u # t => call'[u] = call[u]
    BY <1>4 DEF CommitSucceeds, TypeOK
  <2>4. /\ call[t] = "commit" /\ call'[t] = "done" /\ order[t] = "filled"
        /\ UNCHANGED <<activeTrades, closing, order, position>>
    BY <1>4 DEF CommitSucceeds, TypeOK
  <2>5. SignalFits' /\ OnlyStarted' /\ ClosersInv' /\ ClosedNotActive'
    BY <2>1, <2>2, <2>3, <2>4 DEF SignalFits, OnlyStarted, ClosersInv, ClosedNotActive
  <2>6. OnlyFilled' /\ OrphanInv'
    BY <2>1, <2>3, <2>4 DEF OnlyFilled, OrphanInv
  <2> QED
    BY <1>0, <2>5, <2>6
<1>5. ASSUME NEW t \in Trade, CommitFails(t) PROVE IInv'
  <2>1. \A u \in Trade : /\ InHistory(u)' <=> InHistory(u)
                         /\ Started(u)' <=> Started(u)
    BY <1>5 DEF CommitFails, InHistory, Started, TypeOK
  <2>2. \A u \in Trade : u # t => call'[u] = call[u]
    BY <1>5 DEF CommitFails, TypeOK
  <2>3. /\ call'[t] = "failed" /\ activeTrades' = activeTrades \ {t}
        /\ UNCHANGED <<trade, closing, order, position>>
    BY <1>5 DEF CommitFails, TypeOK
  <2>4. SignalFits' /\ OnlyStarted' /\ ClosersInv' /\ ClosedNotActive'
    BY <2>1, <2>2, <2>3 DEF SignalFits, OnlyStarted, ClosersInv, ClosedNotActive
  <2>5. OnlyFilled' /\ OrphanInv'
    BY <2>2, <2>3 DEF OnlyFilled, OrphanInv
  <2> QED
    BY <1>0, <2>4, <2>5
<1>6. ASSUME NEW t \in Trade, BrokerFills(t) \/ BrokerRefuses(t) PROVE IInv'
  <2>1. \A u \in Trade : /\ InHistory(u)' <=> InHistory(u)
                         /\ Started(u)' <=> Started(u)
    BY <1>6 DEF BrokerFills, BrokerRefuses, InHistory, Started
  <2>2. /\ order[t] = "sent" /\ order'[t] \in {"filled", "refused"}
        /\ position'[t] = 1 => order'[t] = "filled" \/ position[t] = 1
        /\ \A u \in Trade : u # t => order'[u] = order[u] /\ position'[u] = position[u]
        /\ UNCHANGED <<activeTrades, trade, call, closing>>
    BY <1>6 DEF BrokerFills, BrokerRefuses, TypeOK
  <2>3. SignalFits' /\ OnlyStarted' /\ ClosedNotActive'
    BY <2>1, <2>2 DEF SignalFits, OnlyStarted, ClosedNotActive
  <2>4. OnlyFilled' /\ OrphanInv'
    BY <2>2 DEF OnlyFilled, OrphanInv
  <2>5. ClosersInv'
    BY <2>1, <2>2 DEF ClosersInv
  <2> QED
    BY <1>0, <2>3, <2>4, <2>5
<1> DEFINE SameTrades == UNCHANGED <<activeTrades, trade, tradingHistory, call, order>>
\* What a step of a closer that leaves the trades alone must still show.
<1>7. ASSUME SameTrades, ClosersInv',
             \A u \in Trade : position'[u] = 1 => position[u] = 1
      PROVE  IInv'
  <2>1. \A u \in Trade : /\ InHistory(u)' <=> InHistory(u)
                         /\ Started(u)' <=> Started(u)
    BY <1>7 DEF InHistory, Started
  <2> QED
    BY <1>0, <1>7, <2>1 DEF SignalFits, OnlyStarted, OnlyFilled, ClosedNotActive, OrphanInv
<1>8. ASSUME NEW c \in Closer, NEW t \in Trade, CloseTrade(c, t) \/ ManualClose(c, t)
      PROVE  IInv'
  <2>1. SameTrades /\ position' = position
    BY <1>8 DEF CloseTrade, ManualClose
  <2>2. ClosersInv'
    BY <1>8, <2>1
    DEF CloseTrade, ManualClose, CloseEntered, CloseOutcome, IdleCloser, ClosersInv, Started,
        OnlyStarted, OnlyFilled, TypeOK
  <2> QED
    BY <1>7, <2>1, <2>2
<1>9. ASSUME NEW c \in Closer, NEW ok \in BOOLEAN, ManualCloseAnswered(c, ok) PROVE IInv'
  <2>1. SameTrades
    BY <1>9 DEF ManualCloseAnswered
  <2>2. \A u \in Trade : position'[u] \in {0, position[u]}
    BY <1>9 DEF ManualCloseAnswered, TypeOK
  <2>3. \A d \in Closer : closing'[d] = closing[d] \/ closing'[d].stage \in {"idle", "price"}
    BY <1>9 DEF ManualCloseAnswered, IdleCloser, TypeOK
  <2>4. ClosersInv'
    BY <2>1, <2>2, <2>3 DEF CloseOutcome, ClosersInv, Started, TypeOK
  <2> QED
    BY <1>7, <2>1, <2>2, <2>4
<1>10. ASSUME NEW c \in Closer, ManualClosePriced(c) PROVE IInv'
  <2>1. SameTrades /\ position' = position
    BY <1>10 DEF ManualClosePriced
  <2>2. closing[c].trade \in Trade
    BY <1>10, CloserHoldsTrade DEF ManualClosePriced, TypeOK
  <2>3. ClosersInv'
    BY <1>10, <2>1, <2>2
    DEF ManualClosePriced, CloseEntered, CloseOutcome, IdleCloser, ClosersInv, Started,
        OnlyStarted, OnlyFilled, TypeOK
  <2> QED
    BY <1>7, <2>1, <2>3
<1>11. ASSUME NEW c \in Closer, NEW ok \in BOOLEAN, BrokerCloseAnswered(c, ok) PROVE IInv'
  <2>1. SameTrades
    BY <1>11 DEF BrokerCloseAnswered
  <2>2. closing[c].trade \in Trade
    BY <1>11, CloserHoldsTrade DEF BrokerCloseAnswered, TypeOK
  <2>3. \A u \in Trade : position'[u] \in {0, position[u]}
    BY <1>11 DEF BrokerCloseAnswered, TypeOK
  <2>4. ok => position'[closing[c].trade] = 0
    BY <1>11, <2>2 DEF BrokerCloseAnswered, TypeOK
  <2>5. \A d \in Closer : /\ closing'[d].trade = closing[d].trade
                          /\ d # c => closing'[d].stage = closing[d].stage
    BY <1>11 DEF BrokerCloseAnswered, TypeOK, CloserRecord, IdleCloser
  <2>6. /\ closing[c].stage = "sent"
        /\ closing'[c].stage = IF ok THEN "acked" ELSE "refused"
    BY <1>11 DEF BrokerCloseAnswered, TypeOK, CloserRecord, IdleCloser
  <2>7. ClosersInv'
    BY <2>1, <2>2, <2>3, <2>4, <2>5, <2>6 DEF ClosersInv, Started, CloseOutcome, TypeOK
  <2> QED
    BY <1>7, <2>1, <2>3, <2>7
<1>12. ASSUME NEW c \in Closer, FinishCloseTrade(c) PROVE IInv'
  <2> DEFINE t == closing[c].trade
  <2>1. t \in Trade
    BY <1>12, CloserHoldsTrade DEF FinishCloseTrade, CloseOutcome, TypeOK
  <2>2. \A u \in Trade :
          /\ trade'[u].risk = trade[u].risk /\ trade'[u].dailyRiskUsed = trade[u].dailyRiskUsed
          /\ trade'[u].broker = trade[u].broker
          /\ trade'[u].closes = IF u = t THEN trade[u].closes \cup {closing[c].stage}
                                         ELSE trade[u].closes
    BY <1>12, <2>1 DEF FinishCloseTrade, TypeOK, TradeRecord
  <2>3. \A u \in Trade : InHistory(u)' <=> InHistory(u) \/ u = t
    BY <1>12, <2>1, HistoryGrows DEF FinishCloseTrade
  <2>4. Started(t) /\ \A u \in Trade : Started(u)' <=> Started(u)
    BY <1>12, <2>1 DEF FinishCloseTrade, Started, ClosersInv
  <2>5. SignalFits' /\ OnlyStarted' /\ OnlyFilled' /\ ClosedNotActive'
    BY <1>12, <2>1, <2>2, <2>3, <2>4
    DEF FinishCloseTrade, SignalFits, OnlyStarted, OnlyFilled, ClosedNotActive
  <2>6. ClosersInv'
    <3>1. \A d \in Closer : closing'[d] = closing[d] \/ closing'[d].stage = "idle"
      BY <1>12 DEF FinishCloseTrade, IdleCloser, TypeOK
    <3> QED
      BY <1>12, <2>4, <3>1 DEF FinishCloseTrade, CloseOutcome, ClosersInv
  <2>7. OrphanInv'
    <3>1. closing[c].stage = "acked" => position[t] = 0 /\ order[t] = "filled"
      BY <2>1 DEF ClosersInv
    <3>2. /\ closing[c].stage \in CloseOutcome /\ activeTrades' = activeTrades \ {t}
          /\ UNCHANGED <<call, order, position>>
      BY <1>12 DEF FinishCloseTrade
    <3>3. ASSUME closing[c].stage # "acked"
          PROVE  trade'[t].closes \cap {"refused", "unsent"} # {}
      BY <2>1, <2>2, <3>2, <3>3 DEF CloseOutcome
    <3>4. \A u \in Trade : trade[u].closes \subseteq trade'[u].closes
      BY <2>2
    <3>5. ASSUME NEW u \in Trade, position[u] = 1 \/ order[u] = "sent", u \notin activeTrades'
          PROVE  call[u] = "failed" \/ trade'[u].closes \cap {"refused", "unsent"} # {}
      <4>1. CASE u = t
        BY <3>1, <3>3, <3>5, <4>1
      <4>2. CASE u # t
        BY <3>2, <3>4, <3>5, <4>2 DEF OrphanInv
      <4> QED
        BY <4>1, <4>2
    <3> QED
      BY <3>2, <3>5 DEF OrphanInv
  <2> QED
    BY <1>0, <2>5, <2>6, <2>7
<1>13. CASE Midnight
  BY <1>0, <1>13
  DEF Midnight, SignalFits, OnlyStarted, OnlyFilled, ClosersInv, ClosedNotActive, OrphanInv,
      InHistory, Started
<1>14. CASE UNCHANGED vars
  BY <1>0, <1>14
  DEF vars, SignalFits, OnlyStarted, OnlyFilled, ClosersInv, ClosedNotActive, OrphanInv,
      InHistory, Started
<1> QED
  BY <1>1, <1>2, <1>3, <1>4, <1>5, <1>6, <1>8, <1>9, <1>10, <1>11, <1>12, <1>13, <1>14
  DEF Next, ExecuteTrade, CommitAnswered, CloserContinues

LEMMA IInvHolds == Spec => []IInv
  BY InductiveInit, InductiveStep, PTL DEF Spec

\* A closed trade is never active again, whenever its opening order is answered.
THEOREM ClosedStaysInactive == Spec => []ClosedNotActive
<1>1. IInv => ClosedNotActive
  BY DEF IInv
<1> QED
  BY <1>1, IInvHolds, PTL

\* Every position without an active trade has one of the three causes.
THEOREM OrphansAreExplained == Spec => []OrphanExplained
<1>1. IInv => OrphanExplained
  BY DEF IInv, OrphanInv, OrphanExplained
<1> QED
  BY <1>1, IInvHolds, PTL

\* A signal that is not stale cannot take the day over its budget.
THEOREM FreshSignalsKeepBudget == Spec => FreshSignalKeepsBudget
<1>1. IInv /\ [Next]_vars =>
        [\A t \in Trade :
           call[t] = "signal" /\ call'[t] = "commit" /\ dailyRisk <= trade[t].dailyRiskUsed
             => dailyRisk' <= MaxDailyRisk]_vars
  <2> SUFFICES ASSUME IInv, Next, NEW t \in Trade, call[t] = "signal", call'[t] = "commit",
                      dailyRisk <= trade[t].dailyRiskUsed
               PROVE  dailyRisk' <= MaxDailyRisk
    BY DEF vars
  <2>1. ExecuteTradeAccepted(t)
    BY DEF Next, ExecuteTrade, CommitAnswered, CloserContinues, GenerateSignal,
           ExecuteTradeBlocked, ExecuteTradeAccepted, CommitSucceeds, CommitFails, BrokerFills,
           BrokerRefuses, CloseTrade, ManualClose, ManualCloseAnswered, ManualClosePriced,
           BrokerCloseAnswered, FinishCloseTrade, Midnight, IInv, TypeOK
  <2>2. trade[t].risk \in Nat /\ trade[t].dailyRiskUsed \in Int /\ dailyRisk \in Int
    BY DEF IInv, TypeOK, TradeRecord
  <2> QED
    BY <2>1, <2>2, EngineAssumption DEF ExecuteTradeAccepted, IInv, SignalFits
<1> QED
  BY <1>1, IInvHolds, PTL DEF Spec, FreshSignalKeepsBudget

-----------------------------------------------------------------------------
(* The book of trades *)

\* What a step of the engine does to the book, state by state and claim by claim.
BookStateSame(t) == BookState(t)' = BookState(t)
BookClaimsSame == \A c \in Closer : BookClaim(c)' = BookClaim(c)

\* A step that changes neither trades nor claims leaves the book alone.
LEMMA BookStutters ==
  ASSUME \A t \in Trade : BookStateSame(t), BookClaimsSame
  PROVE  UNCHANGED Book!vars
  BY DEF BookStateSame, BookClaimsSame, Book!vars

\* The state of a trade in the book depends on the map, the history and its call.
LEMMA BookStateKept ==
  ASSUME NEW t \in Trade,
         InHistory(t)' <=> InHistory(t),
         t \in activeTrades' <=> t \in activeTrades,
         call'[t] = "failed" <=> call[t] = "failed"
  PROVE  BookStateSame(t)
<1> HIDE DEF InHistory
<1> QED
  BY DEF BookStateSame, BookState

\* One trade changes its state in the book, as Open, Cancel and Settle have it.
LEMMA BookStateChanged ==
  ASSUME NEW t \in Trade, NEW s, BookState(t)' = s,
         \A u \in Trade \ {t} : BookStateSame(u)
  PROVE  [u \in Trade |-> BookState(u)]' = [[u \in Trade |-> BookState(u)] EXCEPT ![t] = s]
  BY DEF BookStateSame

\* One closer changes its claim.
LEMMA BookClaimChanged ==
  ASSUME NEW c \in Closer, NEW t, BookClaim(c)' = t,
         \A d \in Closer \ {c} : BookClaim(d)' = BookClaim(d)
  PROVE  [d \in Closer |-> BookClaim(d)]' = [[d \in Closer |-> BookClaim(d)] EXCEPT ![c] = t]
  OBVIOUS

LEMMA BookInit == Init => Book!Init
<1> SUFFICES ASSUME Init PROVE Book!Init
  OBVIOUS
<1>1. \A t \in Trade : BookState(t) = "new"
  BY DEF Init, BookState, InHistory
<1>2. \A c \in Closer : BookClaim(c) = NoTrade
  BY DEF Init, BookClaim, IdleCloser, CloseOutcome
<1> QED
  BY <1>1, <1>2 DEF Book!Init

\* Steps before the map knows the trade, and its opening.
LEMMA BookOpens ==
  ASSUME IInv, NEW t \in Trade, ExecuteTradeAccepted(t)
  PROVE  Book!Open(t)
<1>1. t \notin activeTrades /\ ~InHistory(t) /\ call[t] = "signal"
  BY DEF IInv, OnlyStarted, Started, ExecuteTradeAccepted
<1>2. BookState(t) = "new"
  BY <1>1 DEF BookState
<1>3. \A u \in Trade : InHistory(u)' <=> InHistory(u)
  BY DEF ExecuteTradeAccepted, InHistory
<1>4. BookState(t)' = "open"
  BY <1>1, <1>3 DEF ExecuteTradeAccepted, BookState
<1>5. \A u \in Trade \ {t} : BookStateSame(u)
  BY <1>3, BookStateKept DEF ExecuteTradeAccepted, IInv, TypeOK
<1>6. BookClaimsSame
  BY DEF ExecuteTradeAccepted, BookClaim, BookClaimsSame
<1> QED
  BY <1>2, <1>4, <1>5, <1>6, BookStateChanged DEF Book!Open, BookClaimsSame

LEMMA BookCancels ==
  ASSUME IInv, NEW t \in Trade, ExecuteTradeBlocked(t) \/ CommitFails(t), ~InHistory(t)
  PROVE  Book!Cancel(t)
<1>1. BookState(t) \in {"new", "open"}
  BY DEF BookState, ExecuteTradeBlocked, CommitFails
<1>2. \A u \in Trade : InHistory(u)' <=> InHistory(u)
  BY DEF ExecuteTradeBlocked, CommitFails, InHistory
<1>3. /\ t \notin activeTrades' /\ call'[t] = "failed"
      /\ \A u \in Trade \ {t} : /\ u \in activeTrades' <=> u \in activeTrades
                                /\ call'[u] = call[u]
  BY DEF ExecuteTradeBlocked, CommitFails, IInv, TypeOK, OnlyStarted, Started
<1>4. BookState(t)' = "cancelled"
  BY <1>2, <1>3 DEF BookState
<1>5. \A u \in Trade \ {t} : BookStateSame(u)
  BY <1>2, <1>3, BookStateKept
<1>6. BookClaimsSame
  BY DEF ExecuteTradeBlocked, CommitFails, BookClaim, BookClaimsSame
<1> QED
  BY <1>1, <1>4, <1>5, <1>6, BookStateChanged DEF Book!Cancel, BookClaimsSame

\* An opening call that fails after its trade was closed leaves the book alone.
LEMMA BookKeepsClosed ==
  ASSUME IInv, NEW t \in Trade, ExecuteTradeBlocked(t) \/ CommitFails(t), InHistory(t)
  PROVE  UNCHANGED Book!vars
<1>1. \A u \in Trade : InHistory(u)' <=> InHistory(u)
  BY DEF ExecuteTradeBlocked, CommitFails, InHistory
<1>2. BookStateSame(t)
  BY <1>1 DEF BookStateSame, BookState
<1>3. \A u \in Trade \ {t} : BookStateSame(u)
  <2>1. \A u \in Trade \ {t} : /\ u \in activeTrades' <=> u \in activeTrades
                               /\ call'[u] = call[u]
    BY DEF ExecuteTradeBlocked, CommitFails, IInv, TypeOK
  <2> QED
    BY <1>1, <2>1, BookStateKept
<1>4. BookClaimsSame
  BY DEF ExecuteTradeBlocked, CommitFails, BookClaim, BookClaimsSame
<1> QED
  BY <1>2, <1>3, <1>4, BookStutters

\* Nobody else sees what the broker, the calendar and the sizing of signals do.
LEMMA BookUntouched ==
  ASSUME IInv, UNCHANGED <<activeTrades, tradingHistory, closing>>,
         \A t \in Trade : call'[t] = "failed" <=> call[t] = "failed"
  PROVE  UNCHANGED Book!vars
<1>1. \A t \in Trade : InHistory(t)' <=> InHistory(t)
  BY DEF InHistory
<1>2. \A t \in Trade : BookStateSame(t)
  BY <1>1, BookStateKept
<1>3. BookClaimsSame
  BY DEF BookClaim, BookClaimsSame
<1> QED
  BY <1>2, <1>3, BookStutters

\* A step of a closer that leaves the map and the history alone changes its own
\* claim at most.
LEMMA BookOfCloser ==
  ASSUME IInv, NEW c \in Closer,
         UNCHANGED <<activeTrades, tradingHistory, call>>,
         \A d \in Closer \ {c} : closing'[d] = closing[d]
  PROVE  /\ \A t \in Trade : BookStateSame(t)
         /\ \A d \in Closer \ {c} : BookClaim(d)' = BookClaim(d)
<1>1. \A t \in Trade : InHistory(t)' <=> InHistory(t)
  BY DEF InHistory
<1>2. \A t \in Trade : BookStateSame(t)
  BY <1>1, BookStateKept
<1> QED
  BY <1>2 DEF BookClaim

\* closeTrade claims a trade that is in the map, which the book has as open; an id
\* that left the map is not claimed.
LEMMA BookClaims ==
  ASSUME IInv, NEW c \in Closer, NEW t \in Trade,
         UNCHANGED <<activeTrades, tradingHistory, call>>,
         \A d \in Closer \ {c} : closing'[d] = closing[d],
         closing[c].stage \in {"idle", "manualSent", "price"},
         closing'[c] = CloseEntered(t)
  PROVE  Book!Claim(c, t) \/ UNCHANGED Book!vars
<1>1. /\ \A u \in Trade : BookStateSame(u)
      /\ \A d \in Closer \ {c} : BookClaim(d)' = BookClaim(d)
  BY BookOfCloser
<1>2. BookClaim(c) = NoTrade
  BY DEF BookClaim, CloseOutcome
<1>3. CASE t \in activeTrades
  <2>1. BookState(t) = "open"
    BY <1>3 DEF IInv, ClosedNotActive, BookState
  <2>2. BookClaim(c)' = t
    BY <1>3 DEF BookClaim, CloseEntered, CloseOutcome
  <2>3. [u \in Trade |-> BookState(u)]' = [u \in Trade |-> BookState(u)]
    BY <1>1 DEF BookStateSame
  <2> QED
    BY <1>1, <1>2, <2>1, <2>2, <2>3, BookClaimChanged DEF Book!Claim
<1>4. CASE t \notin activeTrades
  <2>1. BookClaim(c)' = NoTrade
    BY <1>4 DEF BookClaim, CloseEntered, IdleCloser, CloseOutcome
  <2>2. BookClaimsSame
    BY <1>1, <1>2, <2>1 DEF BookClaimsSame
  <2> QED
    BY <1>1, <2>2, BookStutters
<1> QED
  BY <1>3, <1>4

\* The steps of a closer between its claim and the rest of closeTrade, and those
\* before its claim, keep it.
LEMMA BookKeepsClaims ==
  ASSUME IInv, NEW c \in Closer,
         UNCHANGED <<activeTrades, tradingHistory, call>>,
         \A d \in Closer \ {c} : closing'[d] = closing[d],
         \/ /\ closing[c].stage \in {"idle", "manualSent", "price"}
            /\ closing'[c].stage \in {"idle", "manualSent", "price"}
         \/ /\ closing[c].stage \in {"sent"} \cup CloseOutcome
            /\ closing'[c].stage \in {"sent"} \cup CloseOutcome
            /\ closing'[c].trade = closing[c].trade
  PROVE  UNCHANGED Book!vars
<1>1. /\ \A u \in Trade : BookStateSame(u)
      /\ \A d \in Closer \ {c} : BookClaim(d)' = BookClaim(d)
  BY BookOfCloser
<1>2. BookClaim(c)' = BookClaim(c)
  BY DEF BookClaim, CloseOutcome
<1> QED
  BY <1>1, <1>2, BookStutters DEF BookClaimsSame

\* The rest of closeTrade settles the claim, whatever the map holds by then.
LEMMA BookSettles ==
  ASSUME IInv, NEW c \in Closer, FinishCloseTrade(c)
  PROVE  Book!Settle(c)
<1>1. PICK t \in Trade : closing[c].trade = t /\ closing[c].stage \in CloseOutcome
  BY CloserHoldsTrade DEF FinishCloseTrade, CloseOutcome, IInv, TypeOK
<1>2. BookClaim(c) = t /\ t # NoTrade
  BY <1>1, EngineAssumption DEF BookClaim
<1>3. \A u \in Trade : InHistory(u)' <=> InHistory(u) \/ u = t
  BY <1>1, HistoryGrows DEF FinishCloseTrade, IInv
<1>4. BookState(t)' = "closed"
  BY <1>1, <1>3 DEF BookState
<1>5. \A u \in Trade \ {t} : BookStateSame(u)
  BY <1>1, <1>3, BookStateKept DEF FinishCloseTrade
<1>6. BookClaim(c)' = NoTrade
  BY DEF FinishCloseTrade, BookClaim, IdleCloser, CloseOutcome, IInv, TypeOK
<1>7. \A d \in Closer \ {c} : BookClaim(d)' = BookClaim(d)
  BY DEF FinishCloseTrade, BookClaim, IInv, TypeOK
<1>8. [u \in Trade |-> BookState(u)]' = [[u \in Trade |-> BookState(u)] EXCEPT ![t] = "closed"]
  BY <1>1, <1>4, <1>5, BookStateChanged
<1>9. [d \in Closer |-> BookClaim(d)]' = [[d \in Closer |-> BookClaim(d)] EXCEPT ![c] = NoTrade]
  BY <1>6, <1>7, BookClaimChanged
<1>10. [d \in Closer |-> BookClaim(d)][c] = t
  BY <1>2
<1> QED
  BY <1>2, <1>8, <1>9, <1>10 DEF Book!Settle

\* Every step of the engine is a step of the book or leaves it alone.
LEMMA BookStep == IInv /\ [Next]_vars => [Book!Next]_Book!vars
<1> SUFFICES ASSUME IInv, [Next]_vars PROVE [Book!Next]_Book!vars
  OBVIOUS
<1>1. ASSUME NEW t \in Trade, GenerateSignal(t) \/ CommitSucceeds(t) \/ BrokerFills(t) \/ BrokerRefuses(t)
      PROVE  UNCHANGED Book!vars
  <2>1. UNCHANGED <<activeTrades, tradingHistory, closing>>
    BY <1>1 DEF GenerateSignal, CommitSucceeds, BrokerFills, BrokerRefuses
  <2>2. \A u \in Trade : call'[u] = "failed" <=> call[u] = "failed"
    BY <1>1 DEF GenerateSignal, CommitSucceeds, BrokerFills, BrokerRefuses, IInv, TypeOK
  <2> QED
    BY <2>1, <2>2, BookUntouched
<1>2. ASSUME NEW t \in Trade, ExecuteTradeAccepted(t) PROVE Book!Next
  BY <1>2, BookOpens DEF Book!Next
<1>3. ASSUME NEW t \in Trade, ExecuteTradeBlocked(t) \/ CommitFails(t)
      PROVE  [Book!Next]_Book!vars
  BY <1>3, BookCancels, BookKeepsClosed DEF Book!Next
<1>4. ASSUME NEW c \in Closer, NEW t \in Trade, CloseTrade(c, t) PROVE [Book!Next]_Book!vars
  <2>1. /\ UNCHANGED <<activeTrades, tradingHistory, call>>
        /\ \A d \in Closer \ {c} : closing'[d] = closing[d]
        /\ closing[c].stage = "idle" /\ closing'[c] = CloseEntered(t)
    BY <1>4 DEF CloseTrade, IdleCloser, IInv, TypeOK
  <2> QED
    BY <2>1, BookClaims DEF Book!Next
<1>5. ASSUME NEW c \in Closer, NEW t \in Trade, ManualClose(c, t) PROVE UNCHANGED Book!vars
  <2>1. /\ UNCHANGED <<activeTrades, tradingHistory, call>>
        /\ \A d \in Closer \ {c} : closing'[d] = closing[d]
        /\ closing[c].stage = "idle" /\ closing'[c].stage = "manualSent"
    BY <1>5 DEF ManualClose, IdleCloser, IInv, TypeOK
  <2> QED
    BY <2>1, BookKeepsClaims
<1>6. ASSUME NEW c \in Closer, NEW ok \in BOOLEAN, ManualCloseAnswered(c, ok)
      PROVE  UNCHANGED Book!vars
  <2>1. /\ UNCHANGED <<activeTrades, tradingHistory, call>>
        /\ \A d \in Closer \ {c} : closing'[d] = closing[d]
        /\ closing[c].stage = "manualSent" /\ closing'[c].stage \in {"price", "idle"}
    BY <1>6 DEF ManualCloseAnswered, IdleCloser, IInv, TypeOK
  <2> QED
    BY <2>1, BookKeepsClaims
<1>7. ASSUME NEW c \in Closer, ManualClosePriced(c) PROVE [Book!Next]_Book!vars
  <2>1. /\ UNCHANGED <<activeTrades, tradingHistory, call>>
        /\ \A d \in Closer \ {c} : closing'[d] = closing[d]
        /\ closing[c].stage = "price"
        /\ closing'[c] \in {CloseEntered(closing[c].trade), IdleCloser}
    BY <1>7 DEF ManualClosePriced, IInv, TypeOK
  <2>2. closing[c].trade \in Trade
    BY <2>1, CloserHoldsTrade DEF IInv, TypeOK
  <2>3. CASE closing'[c] = CloseEntered(closing[c].trade)
    BY <2>1, <2>2, <2>3, BookClaims DEF Book!Next
  <2>4. CASE closing'[c] = IdleCloser
    BY <2>1, <2>4, BookKeepsClaims DEF IdleCloser
  <2> QED
    BY <2>1, <2>3, <2>4
<1>8. ASSUME NEW c \in Closer, NEW ok \in BOOLEAN, BrokerCloseAnswered(c, ok)
      PROVE  UNCHANGED Book!vars
  <2>1. /\ UNCHANGED <<activeTrades, tradingHistory, call>>
        /\ \A d \in Closer \ {c} : closing'[d] = closing[d]
        /\ closing[c].stage = "sent"
    BY <1>8 DEF BrokerCloseAnswered, IInv, TypeOK
  <2>2. closing[c] \in CloserRecord /\ closing'[c] = [closing[c] EXCEPT !.stage = IF ok THEN "acked" ELSE "refused"]
    BY <1>8 DEF BrokerCloseAnswered, IInv, TypeOK
  <2>3. closing'[c].stage \in CloseOutcome /\ closing'[c].trade = closing[c].trade
    BY <2>2 DEF CloserRecord, IdleCloser, CloseOutcome
  <2> QED
    BY <2>1, <2>3, BookKeepsClaims
<1>9. ASSUME NEW c \in Closer, FinishCloseTrade(c) PROVE Book!Next
  BY <1>9, BookSettles DEF Book!Next
<1>10. CASE Midnight \/ UNCHANGED vars
  <2>1. UNCHANGED <<activeTrades, tradingHistory, closing, call>>
    BY <1>10 DEF Midnight, vars
  <2> QED
    BY <2>1, BookUntouched
<1> QED
  BY <1>1, <1>2, <1>3, <1>4, <1>5, <1>6, <1>7, <1>8, <1>9, <1>10
  DEF Next, ExecuteTrade, CommitAnswered, CloserContinues

\* The engine implements the book of trades: however calls, closes, answers and
\* midnights interleave, no id is opened twice and only a closeTrade that found its
\* trade in the map moves it to the history.
THEOREM EngineImplementsBook == Spec => ImplementsBook
  BY BookInit, BookStep, IInvHolds, PTL DEF Spec, Book!Spec, ImplementsBook

-----------------------------------------------------------------------------
(* Sums of risks *)

\* One step of the fold that adds up the risks of the records r.
AddRisk(r, g, s) ==
  IF s = {} THEN 0 ELSE r[CHOOSE x \in s : TRUE].risk + g[s \ {CHOOSE x \in s : TRUE}]

IsRiskFold(r, g, S) == g = [s \in SUBSET S |-> AddRisk(r, g, s)]

RiskFold(r, S) == CHOOSE g : IsRiskFold(r, g, S)

\* The sum of the risks that the records r have on S.
TotalRisk(r, S) == RiskFold(r, S)[S]

\* The sums of the engine are such totals.
LEMMA SumIsTotal ==
  ASSUME NEW S
  PROVE  SumRisk(S) = TotalRisk(trade, S)
  BY DEF SumRisk, MapThenSumSet, MapThenFoldSet, TotalRisk, RiskFold, IsRiskFold, AddRisk

LEMMA RiskOnIsTotal ==
  ASSUME NEW p, NEW S
  PROVE  RiskOn(p, S) = TotalRisk(trade, {t \in S : trade[t].pair = p})
  BY DEF RiskOn, MapThenSumSet, MapThenFoldSet, TotalRisk, RiskFold, IsRiskFold, AddRisk

\* A nonempty family of subsets of a finite set has a smallest member.
LEMMA SmallestSubset ==
  ASSUME NEW S, IsFiniteSet(S), NEW F \in SUBSET SUBSET S, F # {}
  PROVE  \E T \in F : \A U \in F : U \subseteq T => U = T
<1>1. IsWellFoundedOn(StrictSubsetOrdering(S), SUBSET S)
  BY FS_FiniteSubsetsOfFinite, FS_StrictSubsetOrderingWellFounded
<1>2. \E T \in F : \A U \in F : ~(<<U, T>> \in StrictSubsetOrdering(S))
  <2>1. F \subseteq SUBSET S
    OBVIOUS
  <2> QED
    BY <1>1, <2>1, WFMin
<1>3. \A T, U \in F : U \subseteq T /\ U # T => <<U, T>> \in StrictSubsetOrdering(S)
  BY DEF StrictSubsetOrdering
<1> QED
  BY <1>2, <1>3

\* What is chosen from a nonempty set is in it.
LEMMA ChosenIsMember ==
  \A s : s # {} => (CHOOSE x \in s : TRUE) \in s
  OBVIOUS

\* The fold over a set, restricted to the subsets of a smaller set, is the fold
\* over that set.
LEMMA FoldRestricts ==
  ASSUME NEW r, NEW S, NEW T \in SUBSET S, NEW g, IsRiskFold(r, g, S)
  PROVE  IsRiskFold(r, [s \in SUBSET T |-> g[s]], T)
<1> DEFINE h == [s \in SUBSET T |-> g[s]]
<1>1. ASSUME NEW s \in SUBSET T PROVE h[s] = AddRisk(r, h, s)
  <2>1. h[s] = AddRisk(r, g, s)
    BY DEF IsRiskFold
  <2>2. h[s \ {CHOOSE x \in s : TRUE}] = g[s \ {CHOOSE x \in s : TRUE}]
    OBVIOUS
  <2> QED
    BY <2>1, <2>2 DEF AddRisk
<1> QED
  BY <1>1 DEF IsRiskFold

\* There is at most one fold over a finite set.
LEMMA FoldUnique ==
  ASSUME NEW r, NEW S, IsFiniteSet(S), NEW g, NEW h,
         IsRiskFold(r, g, S), IsRiskFold(r, h, S)
  PROVE  g = h
<1> DEFINE F == {s \in SUBSET S : g[s] # h[s]}
<1>1. CASE F = {}
  BY <1>1 DEF IsRiskFold
<1>2. CASE F # {}
  <2>1. PICK s \in F : \A u \in F : u \subseteq s => u = s
    <3>1. F \in SUBSET SUBSET S
      OBVIOUS
    <3> HIDE DEF F
    <3> QED
      BY <1>2, <3>1, SmallestSubset
  <2>2. g[s] = AddRisk(r, g, s) /\ h[s] = AddRisk(r, h, s)
    BY DEF IsRiskFold
  <2>3. s # {} => g[s \ {CHOOSE x \in s : TRUE}] = h[s \ {CHOOSE x \in s : TRUE}]
    BY <2>1, ChosenIsMember
  <2> QED
    BY <2>2, <2>3 DEF AddRisk
<1> QED
  BY <1>1, <1>2

\* There is one.
LEMMA FoldExists ==
  ASSUME NEW r, NEW S, IsFiniteSet(S)
  PROVE  IsRiskFold(r, RiskFold(r, S), S)
<1> DEFINE F == {T \in SUBSET S : ~ \E g : IsRiskFold(r, g, T)}
<1>1. SUFFICES F = {}
  BY DEF RiskFold
<1>2. SUFFICES ASSUME F # {} PROVE FALSE
  OBVIOUS
<1>3. PICK T \in F : \A U \in F : U \subseteq T => U = T
  <2>1. F \in SUBSET SUBSET S
    OBVIOUS
  <2> HIDE DEF F
  <2> QED
    BY <1>2, <2>1, SmallestSubset
<1>4. \A U \in SUBSET T : U # T => IsRiskFold(r, RiskFold(r, U), U)
  BY <1>3 DEF RiskFold
<1> DEFINE G == [s \in SUBSET T |-> AddRisk(r, [u \in SUBSET T |-> TotalRisk(r, u)], s)]
<1>5. ASSUME NEW u \in SUBSET T, u # T PROVE G[u] = TotalRisk(r, u)
  <2>1. IsRiskFold(r, RiskFold(r, u), u)
    BY <1>4, <1>5
  <2> DEFINE v == u \ {CHOOSE x \in u : TRUE}
  <2>2. TotalRisk(r, u) = AddRisk(r, RiskFold(r, u), u)
    BY <2>1 DEF TotalRisk, IsRiskFold
  <2>3. ASSUME u # {} PROVE RiskFold(r, u)[v] = TotalRisk(r, v)
    <3>1. v \in SUBSET u /\ v \in SUBSET T /\ v # T
      BY <1>5
    <3>2. IsRiskFold(r, [s \in SUBSET v |-> RiskFold(r, u)[s]], v)
      BY <2>1, <3>1, FoldRestricts
    <3>3. IsRiskFold(r, RiskFold(r, v), v)
      BY <1>4, <3>1
    <3>4. IsFiniteSet(v)
      BY FS_Subset
    <3>5. [s \in SUBSET v |-> RiskFold(r, u)[s]] = RiskFold(r, v)
      BY <3>2, <3>3, <3>4, FoldUnique
    <3> HIDE DEF v
    <3>6. [s \in SUBSET v |-> RiskFold(r, u)[s]][v] = RiskFold(r, u)[v]
      OBVIOUS
    <3> QED
      BY <3>5, <3>6 DEF TotalRisk
  <2> QED
    BY <2>2, <2>3 DEF AddRisk
<1>6. ASSUME NEW s \in SUBSET T PROVE G[s] = AddRisk(r, G, s)
  <2>1. s # {} => s \ {CHOOSE x \in s : TRUE} \in SUBSET T /\ s \ {CHOOSE x \in s : TRUE} # T
    BY ChosenIsMember
  <2> HIDE DEF G
  <2>2. s # {} => G[s \ {CHOOSE x \in s : TRUE}] = TotalRisk(r, s \ {CHOOSE x \in s : TRUE})
    BY <1>5, <2>1
  <2> QED
    BY <2>1, <2>2 DEF AddRisk, G
<1>7. IsRiskFold(r, G, T)
  BY <1>6 DEF IsRiskFold
<1> QED
  BY <1>3, <1>7

\* The sum of the empty set, and of a set in terms of the element chosen from it.
LEMMA TotalUnfolds ==
  ASSUME NEW r, NEW S, IsFiniteSet(S)
  PROVE  /\ S = {} => TotalRisk(r, S) = 0
         /\ S # {} => LET x == CHOOSE x \in S : TRUE
                      IN  x \in S /\ TotalRisk(r, S) = r[x].risk + TotalRisk(r, S \ {x})
<1>1. IsRiskFold(r, RiskFold(r, S), S)
  BY FoldExists
<1>2. TotalRisk(r, S) = AddRisk(r, RiskFold(r, S), S)
  BY <1>1 DEF TotalRisk, IsRiskFold
<1> DEFINE v == S \ {CHOOSE x \in S : TRUE}
<1>3. IsFiniteSet(v) /\ v \in SUBSET S
  BY FS_Subset
<1>4. IsRiskFold(r, [s \in SUBSET v |-> RiskFold(r, S)[s]], v)
  BY <1>1, <1>3, FoldRestricts
<1>5. IsRiskFold(r, RiskFold(r, v), v)
  BY <1>3, FoldExists
<1>6. [s \in SUBSET v |-> RiskFold(r, S)[s]] = RiskFold(r, v)
  BY <1>3, <1>4, <1>5, FoldUnique
<1>7. RiskFold(r, S)[v] = TotalRisk(r, v)
  <2> HIDE DEF v
  <2>1. [s \in SUBSET v |-> RiskFold(r, S)[s]][v] = RiskFold(r, S)[v]
    OBVIOUS
  <2> QED
    BY <1>6, <2>1 DEF TotalRisk
<1> QED
  BY <1>2, <1>7, ChosenIsMember DEF AddRisk

\* A sum of natural numbers is one.
LEMMA TotalType ==
  ASSUME NEW r, NEW S, IsFiniteSet(S), \A t \in S : r[t].risk \in Nat
  PROVE  TotalRisk(r, S) \in Nat
<1> DEFINE F == {T \in SUBSET S : TotalRisk(r, T) \notin Nat}
<1> SUFFICES ASSUME F # {} PROVE FALSE
  OBVIOUS
<1>1. PICK T \in F : \A U \in F : U \subseteq T => U = T
  <2>1. F \in SUBSET SUBSET S
    OBVIOUS
  <2> HIDE DEF F
  <2> QED
    BY <2>1, SmallestSubset
<1>2. IsFiniteSet(T)
  BY FS_Subset
<1>3. TotalRisk(r, T) \notin Nat /\ T \in SUBSET S
  OBVIOUS
<1>4. CASE T # {}
  <2>1. PICK x \in T : TotalRisk(r, T) = r[x].risk + TotalRisk(r, T \ {x})
    BY <1>2, <1>4, TotalUnfolds
  <2>2. TotalRisk(r, T \ {x}) \in Nat
    BY <1>1
  <2> QED
    BY <2>1, <2>2
<1>5. CASE T = {}
  <2> HIDE DEF F
  <2>1. TotalRisk(r, T) = 0
    BY <1>2, <1>5, TotalUnfolds
  <2> QED
    BY <1>3, <2>1
<1> QED
  BY <1>4, <1>5

\* The sum depends on the risks of the set's members alone.
LEMMA TotalSame ==
  ASSUME NEW r, NEW q, NEW S, IsFiniteSet(S), \A t \in S : r[t].risk = q[t].risk
  PROVE  TotalRisk(r, S) = TotalRisk(q, S)
<1> DEFINE F == {T \in SUBSET S : TotalRisk(r, T) # TotalRisk(q, T)}
<1> SUFFICES ASSUME F # {} PROVE FALSE
  OBVIOUS
<1>1. PICK T \in F : \A U \in F : U \subseteq T => U = T
  <2>1. F \in SUBSET SUBSET S
    OBVIOUS
  <2> HIDE DEF F
  <2> QED
    BY <2>1, SmallestSubset
<1>2. IsFiniteSet(T)
  BY FS_Subset
<1>3. CASE T = {}
  BY <1>2, <1>3, TotalUnfolds
<1>4. CASE T # {}
  <2> DEFINE x == CHOOSE x \in T : TRUE
  <2>1. /\ x \in T
        /\ TotalRisk(r, T) = r[x].risk + TotalRisk(r, T \ {x})
        /\ TotalRisk(q, T) = q[x].risk + TotalRisk(q, T \ {x})
    BY <1>2, <1>4, TotalUnfolds
  <2>2. TotalRisk(r, T \ {x}) = TotalRisk(q, T \ {x})
    BY <1>1, <2>1
  <2> QED
    BY <2>1, <2>2
<1> QED
  BY <1>3, <1>4

\* Any member can be taken out of the sum first.
LEMMA TotalRemove ==
  ASSUME NEW r, NEW S, IsFiniteSet(S), \A t \in S : r[t].risk \in Nat, NEW x \in S
  PROVE  TotalRisk(r, S) = r[x].risk + TotalRisk(r, S \ {x})
<1> DEFINE F == {T \in SUBSET S : \E y \in T : TotalRisk(r, T) # r[y].risk + TotalRisk(r, T \ {y})}
<1> SUFFICES ASSUME F # {} PROVE FALSE
  OBVIOUS
<1>1. PICK T \in F : \A U \in F : U \subseteq T => U = T
  <2>1. F \in SUBSET SUBSET S
    OBVIOUS
  <2> HIDE DEF F
  <2> QED
    BY <2>1, SmallestSubset
<1>2. PICK y \in T : TotalRisk(r, T) # r[y].risk + TotalRisk(r, T \ {y})
  OBVIOUS
<1>3. IsFiniteSet(T)
  BY FS_Subset
<1>4. PICK c \in T : TotalRisk(r, T) = r[c].risk + TotalRisk(r, T \ {c})
  BY <1>2, <1>3, TotalUnfolds
<1>5. c # y
  BY <1>2, <1>4
<1>6. ASSUME NEW v \in T, NEW w \in T, v # w
      PROVE  TotalRisk(r, T \ {v}) = r[w].risk + TotalRisk(r, (T \ {v}) \ {w})
  <2>1. T \ {v} \notin F
    BY <1>1
  <2>2. T \ {v} \in SUBSET S /\ w \in T \ {v}
    BY <1>6
  <2> QED
    BY <2>1, <2>2
<1>7. /\ TotalRisk(r, T \ {c}) = r[y].risk + TotalRisk(r, (T \ {c}) \ {y})
      /\ TotalRisk(r, T \ {y}) = r[c].risk + TotalRisk(r, (T \ {y}) \ {c})
  BY <1>5, <1>6
<1>8. (T \ {c}) \ {y} = (T \ {y}) \ {c} /\ IsFiniteSet((T \ {c}) \ {y})
  BY <1>3, FS_Subset
<1>9. TotalRisk(r, (T \ {c}) \ {y}) \in Nat
  BY <1>8, TotalType
<1>10. r[c].risk \in Nat /\ r[y].risk \in Nat
  OBVIOUS
<1>11. \A a, b, k \in Nat : a + (b + k) = b + (a + k)
  OBVIOUS
<1>12. r[c].risk + (r[y].risk + TotalRisk(r, (T \ {c}) \ {y}))
         = r[y].risk + (r[c].risk + TotalRisk(r, (T \ {c}) \ {y}))
  BY <1>9, <1>10, <1>11, Zenon
<1> QED
  BY <1>2, <1>4, <1>7, <1>8, <1>12, Zenon

\* A larger set has no smaller sum.
LEMMA TotalMonotone ==
  ASSUME NEW r, NEW S, IsFiniteSet(S), \A t \in S : r[t].risk \in Nat, NEW T \in SUBSET S
  PROVE  TotalRisk(r, T) <= TotalRisk(r, S)
<1> DEFINE F == {U \in SUBSET S : T \subseteq U /\ ~(TotalRisk(r, T) <= TotalRisk(r, U))}
<1> SUFFICES ASSUME F # {} PROVE FALSE
  OBVIOUS
<1>1. PICK U \in F : \A W \in F : W \subseteq U => W = U
  <2>1. F \in SUBSET SUBSET S
    OBVIOUS
  <2> HIDE DEF F
  <2> QED
    BY <2>1, SmallestSubset
<1>2. IsFiniteSet(U) /\ IsFiniteSet(T)
  BY FS_Subset
<1>3. TotalRisk(r, T) \in Nat
  BY <1>2, TotalType
<1>4. PICK x \in U : x \notin T
  BY <1>3
<1>5. TotalRisk(r, U) = r[x].risk + TotalRisk(r, U \ {x})
  BY <1>2, TotalRemove
<1>6. TotalRisk(r, T) <= TotalRisk(r, U \ {x})
  BY <1>1, <1>4
<1>7. TotalRisk(r, U \ {x}) \in Nat
  BY <1>2, TotalType, FS_Subset
<1> QED
  BY <1>3, <1>5, <1>6, <1>7

-----------------------------------------------------------------------------
(* The risk of a symbol and the risk of a day *)

\* When a trade was charged to the day's risk, and which trades are active.
DatesInv ==
  /\ lastResetDate <= today
  /\ \A t \in Trade : /\ trade[t].chargedOn <= lastResetDate
                      /\ call[t] \in {"idle", "signal"} => trade[t].chargedOn = -1
                      /\ call[t] \in {"commit", "done"} => trade[t].chargedOn # -1
                      /\ t \in activeTrades => call[t] \in {"commit", "done"}

OnPair(p) == {t \in activeTrades : trade[t].pair = p}

SymbolInv == \A p \in Pair : TotalRisk(trade, OnPair(p)) <= MaxRiskPerSymbol

\* The trades whose risk a failed order gave back on a later day, and those the
\* day was charged with, whether or not they are still active.
GivenBack == {t \in Trade : call[t] = "failed" /\ trade[t].chargedOn \in 0..(lastResetDate - 1)}
Charged == {t \in Trade : call[t] \in {"commit", "done"} /\ trade[t].chargedOn = lastResetDate}

ChargedInv == dailyRisk + TotalRisk(trade, GivenBack) >= TotalRisk(trade, Charged)

RiskInv == DatesInv /\ SymbolInv /\ ChargedInv

\* Sums over sets of trades, and over one trade more.
LEMMA TotalsOfTrades ==
  ASSUME TypeOK, NEW S \in SUBSET Trade
  PROVE  /\ TotalRisk(trade, S) \in Nat
         /\ \A T \in SUBSET S : TotalRisk(trade, T) <= TotalRisk(trade, S)
         /\ \A t \in Trade \ S : TotalRisk(trade, S \cup {t}) = trade[t].risk + TotalRisk(trade, S)
<1>1. \A t \in Trade : trade[t].risk \in Nat
  BY DEF TypeOK, TradeRecord
<1>2. \A T \in SUBSET Trade : IsFiniteSet(T)
  BY EngineAssumption, FS_Subset
<1>3. ASSUME NEW t \in Trade \ S
      PROVE  TotalRisk(trade, S \cup {t}) = trade[t].risk + TotalRisk(trade, S)
  <2>1. (S \cup {t}) \ {t} = S /\ t \in S \cup {t} /\ S \cup {t} \in SUBSET Trade
    OBVIOUS
  <2> QED
    BY <1>1, <1>2, <2>1, TotalRemove
<1>4. TotalRisk(trade, S) \in Nat
  BY <1>1, <1>2, TotalType
<1>5. \A T \in SUBSET S : TotalRisk(trade, T) <= TotalRisk(trade, S)
  BY <1>1, <1>2, TotalMonotone
<1> QED
  BY <1>3, <1>4, <1>5

\* A step that leaves the risks of a set's members alone leaves their sum alone.
LEMMA TotalKept ==
  ASSUME NEW S \in SUBSET Trade, \A t \in S : trade'[t].risk = trade[t].risk
  PROVE  TotalRisk(trade', S) = TotalRisk(trade, S)
<1>1. IsFiniteSet(S)
  BY EngineAssumption, FS_Subset
<1> QED
  BY <1>1, TotalSame

\* The map only shrinks, and its trades keep pair and size.
LEMMA SymbolKept ==
  ASSUME TypeOK, SymbolInv, activeTrades' \subseteq activeTrades,
         \A t \in activeTrades' : trade'[t].pair = trade[t].pair /\ trade'[t].risk = trade[t].risk
  PROVE  SymbolInv'
<1> SUFFICES ASSUME NEW p \in Pair
             PROVE  TotalRisk(trade', OnPair(p)') <= MaxRiskPerSymbol
  BY DEF SymbolInv
<1>1. OnPair(p)' \subseteq OnPair(p) /\ OnPair(p) \in SUBSET Trade /\ OnPair(p)' \in SUBSET Trade
  BY DEF OnPair, TypeOK
<1>2. TotalRisk(trade', OnPair(p)') = TotalRisk(trade, OnPair(p)')
  <2>1. \A t \in OnPair(p)' : trade'[t].risk = trade[t].risk
    BY DEF OnPair
  <2> QED
    BY <1>1, <2>1, TotalKept
<1>3. TotalRisk(trade, OnPair(p)') <= TotalRisk(trade, OnPair(p))
  BY <1>1, TotalsOfTrades
<1>4. TotalRisk(trade, OnPair(p)') \in Nat /\ TotalRisk(trade, OnPair(p)) \in Nat
  BY <1>1, TotalsOfTrades
<1> QED
  BY <1>2, <1>3, <1>4, EngineAssumption DEF SymbolInv

\* executeTrade checks the sum with the new trade in it before it waits.
LEMMA SymbolAccepts ==
  ASSUME TypeOK, SymbolInv, NEW t \in Trade, ExecuteTradeAccepted(t)
  PROVE  SymbolInv'
<1> SUFFICES ASSUME NEW p \in Pair
             PROVE  TotalRisk(trade', OnPair(p)') <= MaxRiskPerSymbol
  BY DEF SymbolInv
<1>1. \A u \in Trade : trade'[u].pair = trade[u].pair /\ trade'[u].risk = trade[u].risk
  BY DEF ExecuteTradeAccepted, TypeOK, TradeRecord
<1>2. OnPair(p)' = {u \in activeTrades \cup {t} : trade[u].pair = p}
  BY <1>1 DEF OnPair, ExecuteTradeAccepted, TypeOK
<1>3. OnPair(p)' \in SUBSET Trade
  BY <1>2 DEF TypeOK
<1>4. TotalRisk(trade', OnPair(p)') = TotalRisk(trade, OnPair(p)')
  BY <1>1, <1>3, TotalKept
<1>5. CASE trade[t].pair = p
  <2>1. RiskOn(p, activeTrades \cup {t}) <= MaxRiskPerSymbol
    BY <1>5 DEF ExecuteTradeAccepted, PerSymbolRiskOk
  <2>2. TotalRisk(trade, {u \in activeTrades \cup {t} : trade[u].pair = p}) <= MaxRiskPerSymbol
    BY <2>1, RiskOnIsTotal
  <2> QED
    BY <1>2, <1>4, <2>2
<1>6. CASE trade[t].pair # p
  <2>1. OnPair(p)' = OnPair(p)
    BY <1>2, <1>6 DEF OnPair
  <2> QED
    BY <1>4, <2>1 DEF SymbolInv
<1> QED
  BY <1>5, <1>6

\* The day's risk, and what each side of the inequality sums, stay.
LEMMA ChargedKept ==
  ASSUME TypeOK, ChargedInv, UNCHANGED <<dailyRisk, lastResetDate>>,
         \A t \in Trade :
           /\ trade'[t].chargedOn = trade[t].chargedOn
           /\ trade[t].chargedOn # -1 =>
                /\ trade'[t].risk = trade[t].risk
                /\ call'[t] = "failed" <=> call[t] = "failed"
                /\ call'[t] \in {"commit", "done"} <=> call[t] \in {"commit", "done"}
  PROVE  ChargedInv'
<1>1. lastResetDate \in Nat /\ \A t \in Trade : trade[t].chargedOn \in Nat \cup {-1}
  BY DEF TypeOK, TradeRecord
<1>2. GivenBack' = GivenBack /\ Charged' = Charged
  BY <1>1 DEF GivenBack, Charged
<1>3. \A t \in GivenBack \cup Charged : t \in Trade /\ trade'[t].risk = trade[t].risk
  BY <1>1 DEF GivenBack, Charged
<1>4. TotalRisk(trade', GivenBack) = TotalRisk(trade, GivenBack)
  BY <1>3, TotalKept
<1>5. TotalRisk(trade', Charged) = TotalRisk(trade, Charged)
  BY <1>3, TotalKept
<1> QED
  BY <1>2, <1>4, <1>5 DEF ChargedInv

\* A new day starts at zero, with nothing charged to it.
LEMMA ChargedResets ==
  ASSUME TypeOK, TypeOK', DatesInv, dailyRisk' = 0, lastResetDate' = today, today # lastResetDate,
         \A t \in Trade : trade'[t].chargedOn = trade[t].chargedOn
  PROVE  ChargedInv'
<1>1. \A t \in Trade : trade[t].chargedOn < today
  <2>1. /\ lastResetDate \in Nat /\ today \in Nat
        /\ \A t \in Trade : trade[t].chargedOn \in Nat \cup {-1}
    BY DEF TypeOK, TradeRecord
  <2>2. lastResetDate < today
    BY <2>1 DEF DatesInv
  <2> QED
    BY <2>1, <2>2 DEF DatesInv
<1>2. Charged' = {}
  BY <1>1 DEF Charged, TypeOK, TradeRecord
<1>3. TotalRisk(trade', Charged') = 0
  BY <1>2, FS_EmptySet, TotalUnfolds
<1>4. GivenBack' \in SUBSET Trade
  BY DEF GivenBack
<1>5. TotalRisk(trade', GivenBack') \in Nat
  <2>1. \A t \in GivenBack' : trade'[t].risk \in Nat
    BY <1>4 DEF TypeOK, TradeRecord
  <2>2. IsFiniteSet(GivenBack')
    BY <1>4, EngineAssumption, FS_Subset
  <2> QED
    BY <2>1, <2>2, TotalType
<1> QED
  BY <1>3, <1>5 DEF ChargedInv

\* An accepted trade is charged to the day.
LEMMA ChargedAccepts ==
  ASSUME TypeOK, DatesInv, ChargedInv, NEW t \in Trade, ExecuteTradeAccepted(t)
  PROVE  ChargedInv'
<1>1. /\ lastResetDate \in Nat /\ dailyRisk \in Int /\ trade[t].risk \in Nat
      /\ \A u \in Trade : trade[u].chargedOn \in Nat \cup {-1}
  BY DEF TypeOK, TradeRecord
<1>2. /\ \A u \in Trade : trade'[u].risk = trade[u].risk
      /\ \A u \in Trade \ {t} : call'[u] = call[u] /\ trade'[u] = trade[u]
      /\ call'[t] = "commit" /\ trade'[t].chargedOn = lastResetDate
      /\ dailyRisk' = dailyRisk + trade[t].risk /\ lastResetDate' = lastResetDate
      /\ call[t] = "signal"
  BY DEF ExecuteTradeAccepted, TypeOK, TradeRecord
<1>3. GivenBack' = GivenBack /\ GivenBack \in SUBSET Trade
  BY <1>1, <1>2 DEF GivenBack
<1>4. Charged' = Charged \cup {t} /\ t \notin Charged /\ Charged \in SUBSET Trade
  BY <1>1, <1>2 DEF Charged
<1>5. TotalRisk(trade', GivenBack') = TotalRisk(trade, GivenBack)
  BY <1>2, <1>3, TotalKept
<1>6. TotalRisk(trade', Charged') = TotalRisk(trade, Charged \cup {t})
  BY <1>2, <1>4, TotalKept
<1>7. TotalRisk(trade, Charged \cup {t}) = trade[t].risk + TotalRisk(trade, Charged)
  BY <1>4, TotalsOfTrades
<1>8. TotalRisk(trade, GivenBack) \in Nat /\ TotalRisk(trade, Charged) \in Nat
  BY <1>3, <1>4, TotalsOfTrades
<1> QED
  BY <1>1, <1>2, <1>5, <1>6, <1>7, <1>8 DEF ChargedInv

\* A failed order gives its risk back, to the day it was charged to or to a later one.
LEMMA ChargedFails ==
  ASSUME TypeOK, DatesInv, ChargedInv, NEW t \in Trade, CommitFails(t)
  PROVE  ChargedInv'
<1>1. /\ lastResetDate \in Nat /\ dailyRisk \in Int /\ trade[t].risk \in Nat
      /\ \A u \in Trade : trade[u].chargedOn \in Nat \cup {-1}
      /\ trade[t].chargedOn <= lastResetDate
  BY DEF TypeOK, TradeRecord, DatesInv
<1>2. /\ \A u \in Trade \ {t} : call'[u] = call[u]
      /\ call[t] = "commit" /\ call'[t] = "failed"
      /\ dailyRisk' = dailyRisk - trade[t].risk
      /\ UNCHANGED <<trade, lastResetDate>>
  BY DEF CommitFails, TypeOK
<1>3. GivenBack \in SUBSET Trade /\ Charged \in SUBSET Trade /\ t \notin GivenBack
  BY <1>2 DEF GivenBack, Charged
<1>4. TotalRisk(trade, GivenBack) \in Nat /\ TotalRisk(trade, Charged) \in Nat
  BY <1>3, TotalsOfTrades
<1>5. CASE trade[t].chargedOn = lastResetDate
  <2>1. GivenBack' = GivenBack
    BY <1>1, <1>2, <1>5 DEF GivenBack
  <2>2. t \in Charged /\ Charged' = Charged \ {t}
    BY <1>2, <1>5 DEF Charged
  <2>3. /\ Charged' \in SUBSET Trade /\ t \in Trade \ Charged' /\ Charged = Charged' \cup {t}
    BY <1>3, <2>2
  <2>4. TotalRisk(trade, Charged) = trade[t].risk + TotalRisk(trade, Charged')
    BY <2>3, TotalsOfTrades
  <2>5. TotalRisk(trade, Charged') \in Nat
    BY <2>3, TotalsOfTrades
  <2> QED
    BY <1>1, <1>2, <1>4, <2>1, <2>4, <2>5 DEF ChargedInv
<1>6. CASE trade[t].chargedOn # lastResetDate /\ trade[t].chargedOn # -1
  <2>1. GivenBack' = GivenBack \cup {t}
    BY <1>1, <1>2, <1>6 DEF GivenBack
  <2>2. Charged' = Charged
    BY <1>2, <1>6 DEF Charged
  <2>3. TotalRisk(trade, GivenBack') = trade[t].risk + TotalRisk(trade, GivenBack)
    BY <1>3, <2>1, TotalsOfTrades
  <2> QED
    BY <1>1, <1>2, <1>4, <2>2, <2>3 DEF ChargedInv
<1> QED
  BY <1>2, <1>5, <1>6 DEF DatesInv

LEMMA RiskInit == Init => RiskInv
<1> SUFFICES ASSUME Init PROVE RiskInv
  OBVIOUS
<1>1. DatesInv
  BY DEF Init, DatesInv, NewTrade
<1>2. TotalRisk(trade, {}) = 0
  BY FS_EmptySet, TotalUnfolds
<1>3. \A p \in Pair : OnPair(p) = {}
  BY DEF Init, OnPair
<1>4. GivenBack = {} /\ Charged = {}
  BY DEF Init, GivenBack, Charged
<1>5. SymbolInv
  BY <1>2, <1>3, EngineAssumption DEF SymbolInv
<1>6. ChargedInv
  BY <1>2, <1>4 DEF Init, ChargedInv
<1> QED
  BY <1>1, <1>5, <1>6 DEF RiskInv

\* Sizing a signal touches the signal alone, and not the date it is charged on.
LEMMA SizingTouchesSignal ==
  ASSUME TypeOK, NEW t \in Trade, GenerateSignal(t)
  PROVE  \A u \in Trade : /\ trade'[u].chargedOn = trade[u].chargedOn
                          /\ u # t => trade'[u] = trade[u] /\ call'[u] = call[u]
<1>1. PICK p \in Pair, desired \in Risks :
        \/ UNCHANGED <<trade, call>>
        \/ /\ trade' = [trade EXCEPT ![t].pair = p,
                          ![t].risk = EffectiveRisk(desired, dailyRisk'),
                          ![t].dailyRiskUsed = dailyRisk']
           /\ call' = [call EXCEPT ![t] = "signal"]
  BY DEF GenerateSignal
<1> QED
  BY <1>1 DEF TypeOK, TradeRecord

\* Every action keeps the dates in order.
LEMMA DatesStep == IInv /\ DatesInv /\ Next => DatesInv'
<1> SUFFICES ASSUME IInv, DatesInv, Next PROVE DatesInv'
  OBVIOUS
<1> USE DEF IInv
<1>0. /\ lastResetDate \in Nat /\ today \in Nat
      /\ \A t \in Trade : trade[t].chargedOn \in Nat \cup {-1}
  BY DEF TypeOK, TradeRecord
<1>1. ASSUME NEW t \in Trade, GenerateSignal(t) PROVE DatesInv'
  <2>1. /\ lastResetDate' = today /\ UNCHANGED <<activeTrades, today>>
        /\ call[t] = "idle"
    BY <1>1 DEF GenerateSignal
  <2>2. \A u \in Trade : trade'[u].chargedOn = trade[u].chargedOn
    BY <1>1, SizingTouchesSignal
  <2>3. \A u \in Trade : call'[u] = call[u] \/ (u = t /\ call'[u] = "signal")
    BY <1>1 DEF GenerateSignal, TypeOK
  <2> QED
    BY <1>0, <2>1, <2>2, <2>3 DEF DatesInv
<1>2. ASSUME NEW t \in Trade, ExecuteTradeAccepted(t) PROVE DatesInv'
  <2>1. /\ UNCHANGED <<lastResetDate, today>> /\ activeTrades' = activeTrades \cup {t}
        /\ call'[t] = "commit" /\ trade'[t].chargedOn = lastResetDate
        /\ \A u \in Trade \ {t} : call'[u] = call[u] /\ trade'[u] = trade[u]
    BY <1>2 DEF ExecuteTradeAccepted, TypeOK, TradeRecord
  <2> QED
    BY <1>0, <2>1 DEF DatesInv
\* The steps that leave the dates of the trades alone.
<1>3. ASSUME UNCHANGED lastResetDate, today' \in {today, today + 1},
             activeTrades' \subseteq activeTrades,
             \A t \in Trade :
               /\ trade'[t].chargedOn = trade[t].chargedOn
               /\ \/ call'[t] = call[t]
                  \/ call[t] = "commit" /\ call'[t] = "done"
                  \/ call'[t] = "failed" /\ t \notin activeTrades'
      PROVE  DatesInv'
  <2>1. lastResetDate' <= today'
    BY <1>0, <1>3 DEF DatesInv
  <2> QED
    BY <1>3, <2>1 DEF DatesInv
<1>4. ASSUME NEW t \in Trade, ExecuteTradeBlocked(t) PROVE DatesInv'
  <2>1. t \notin activeTrades
    BY <1>4 DEF ExecuteTradeBlocked, OnlyStarted, Started
  <2> QED
    BY <1>3, <1>4, <2>1 DEF ExecuteTradeBlocked, TypeOK
<1>5. ASSUME NEW t \in Trade, CommitSucceeds(t) \/ CommitFails(t) PROVE DatesInv'
  BY <1>3, <1>5 DEF CommitSucceeds, CommitFails, TypeOK, TradeRecord
<1>6. ASSUME UNCHANGED <<activeTrades, trade, call, lastResetDate>>, today' \in {today, today + 1}
      PROVE  DatesInv'
  BY <1>3, <1>6
<1>7. ASSUME NEW c \in Closer, FinishCloseTrade(c) PROVE DatesInv'
  <2>1. \A t \in Trade : trade'[t].chargedOn = trade[t].chargedOn
    BY <1>7 DEF FinishCloseTrade, TypeOK, TradeRecord
  <2> QED
    BY <1>3, <1>7, <2>1 DEF FinishCloseTrade
<1> QED
  BY <1>1, <1>2, <1>4, <1>5, <1>6, <1>7
  DEF Next, ExecuteTrade, CommitAnswered, CloserContinues, BrokerFills, BrokerRefuses, CloseTrade,
      ManualClose, ManualCloseAnswered, ManualClosePriced, BrokerCloseAnswered, Midnight

\* Every action keeps the sums.
LEMMA SumsStep == IInv /\ IInv' /\ RiskInv /\ Next => SymbolInv' /\ ChargedInv'
<1> SUFFICES ASSUME IInv, IInv', RiskInv, Next PROVE SymbolInv' /\ ChargedInv'
  OBVIOUS
<1> USE DEF IInv, RiskInv
<1>1. ASSUME NEW t \in Trade, GenerateSignal(t) PROVE SymbolInv' /\ ChargedInv'
  <2>1. /\ call[t] = "idle" /\ UNCHANGED activeTrades /\ t \notin activeTrades
        /\ dailyRisk' = DailyRiskAfterReset /\ lastResetDate' = today
    BY <1>1 DEF GenerateSignal, OnlyStarted, Started
  <2>2. \A u \in Trade : /\ trade'[u].chargedOn = trade[u].chargedOn
                         /\ u # t => trade'[u] = trade[u] /\ call'[u] = call[u]
    BY <1>1, SizingTouchesSignal
  <2>3. call'[t] \in {"idle", "signal"} /\ trade[t].chargedOn = -1
    BY <1>1, <2>1 DEF GenerateSignal, DatesInv, TypeOK
  <2>4. SymbolInv'
    <3>1. \A u \in activeTrades' : trade'[u] = trade[u]
      BY <2>1, <2>2 DEF TypeOK
    <3> QED
      BY <2>1, <3>1, SymbolKept
  <2>5. CASE today # lastResetDate
    BY <2>1, <2>2, <2>4, <2>5, ChargedResets DEF DailyRiskAfterReset
  <2>6. CASE today = lastResetDate
    <3>1. UNCHANGED <<dailyRisk, lastResetDate>>
      BY <2>1, <2>6 DEF DailyRiskAfterReset
    <3> QED
      BY <2>2, <2>3, <2>4, <3>1, ChargedKept
  <2> QED
    BY <2>5, <2>6
<1>2. ASSUME NEW t \in Trade, ExecuteTradeBlocked(t) PROVE SymbolInv' /\ ChargedInv'
  <2>1. trade[t].chargedOn = -1
    BY <1>2 DEF ExecuteTradeBlocked, DatesInv
  <2>2. ChargedInv'
    BY <1>2, <2>1, ChargedKept DEF ExecuteTradeBlocked, TypeOK
  <2> QED
    BY <1>2, <2>2, SymbolKept DEF ExecuteTradeBlocked
<1>3. ASSUME NEW t \in Trade, ExecuteTradeAccepted(t) PROVE SymbolInv' /\ ChargedInv'
  BY <1>3, SymbolAccepts, ChargedAccepts
<1>4. ASSUME NEW t \in Trade, CommitSucceeds(t) PROVE SymbolInv' /\ ChargedInv'
  <2>1. \A u \in Trade : /\ trade'[u].risk = trade[u].risk /\ trade'[u].pair = trade[u].pair
                         /\ trade'[u].chargedOn = trade[u].chargedOn
    BY <1>4 DEF CommitSucceeds, TypeOK, TradeRecord
  <2>2. \A u \in Trade : call'[u] = call[u] \/ (call[u] = "commit" /\ call'[u] = "done")
    BY <1>4 DEF CommitSucceeds, TypeOK
  <2>3. UNCHANGED <<activeTrades, dailyRisk, lastResetDate>>
    BY <1>4 DEF CommitSucceeds
  <2>4. SymbolInv'
    BY <2>1, <2>3, SymbolKept DEF TypeOK
  <2>5. ChargedInv'
    BY <2>1, <2>2, <2>3, ChargedKept
  <2> QED
    BY <2>4, <2>5
<1>5. ASSUME NEW t \in Trade, CommitFails(t) PROVE SymbolInv' /\ ChargedInv'
  BY <1>5, ChargedFails, SymbolKept DEF CommitFails
<1>6. ASSUME UNCHANGED <<activeTrades, trade, call, dailyRisk, lastResetDate>>
      PROVE  SymbolInv' /\ ChargedInv'
  BY <1>6, SymbolKept, ChargedKept
<1>7. ASSUME NEW c \in Closer, FinishCloseTrade(c) PROVE SymbolInv' /\ ChargedInv'
  <2>1. \A u \in Trade : /\ trade'[u].risk = trade[u].risk /\ trade'[u].pair = trade[u].pair
                         /\ trade'[u].chargedOn = trade[u].chargedOn
    BY <1>7 DEF FinishCloseTrade, TypeOK, TradeRecord
  <2>2. /\ activeTrades' \subseteq activeTrades
        /\ UNCHANGED <<call, dailyRisk, lastResetDate>>
    BY <1>7 DEF FinishCloseTrade
  <2>3. SymbolInv'
    BY <2>1, <2>2, SymbolKept DEF TypeOK
  <2>4. ChargedInv'
    BY <2>1, <2>2, ChargedKept
  <2> QED
    BY <2>3, <2>4
<1> QED
  BY <1>1, <1>2, <1>3, <1>4, <1>5, <1>6, <1>7
  DEF Next, ExecuteTrade, CommitAnswered, CloserContinues, BrokerFills, BrokerRefuses, CloseTrade,
      ManualClose, ManualCloseAnswered, ManualClosePriced, BrokerCloseAnswered, Midnight

LEMMA RiskStep == IInv /\ IInv' /\ RiskInv /\ [Next]_vars => RiskInv'
<1>1. CASE UNCHANGED vars
  BY <1>1 DEF vars, RiskInv, DatesInv, SymbolInv, ChargedInv, OnPair, GivenBack, Charged
<1>2. CASE Next
  BY <1>2, DatesStep, SumsStep DEF RiskInv
<1> QED
  BY <1>1, <1>2

LEMMA RiskInvHolds == Spec => [](IInv /\ RiskInv)
  BY RiskInit, RiskStep, IInvHolds, PTL DEF Spec

\* The live trades of a symbol stay within its limit, however many opening calls
\* wait for the broker at once.
THEOREM SymbolRiskIsBounded == Spec => []SymbolRiskBounded
<1>1. RiskInv => SymbolRiskBounded
  <2>1. \A p \in Pair : RiskOn(p, activeTrades) = TotalRisk(trade, OnPair(p))
    BY RiskOnIsTotal DEF OnPair
  <2> QED
    BY <2>1 DEF RiskInv, SymbolInv, SymbolRiskBounded
<1> QED
  BY <1>1, RiskInvHolds, PTL

\* The day's risk covers the live trades opened since the reset, but for what the
\* failed orders of earlier days gave back after it.
THEOREM DailyRiskCoversOpenTrades == Spec => []BudgetCoversOpenRisk
<1>1. IInv /\ RiskInv => BudgetCoversOpenRisk
  <2> SUFFICES ASSUME IInv, RiskInv PROVE BudgetCoversOpenRisk
    OBVIOUS
  <2> DEFINE Live == {t \in activeTrades : trade[t].chargedOn = lastResetDate}
  <2>1. Live \subseteq Charged /\ Charged \in SUBSET Trade /\ GivenBack \in SUBSET Trade
    BY DEF IInv, TypeOK, RiskInv, DatesInv, Charged, GivenBack
  <2>2. TypeOK /\ dailyRisk \in Int
    BY DEF IInv, TypeOK
  <2>3. TotalRisk(trade, Live) <= TotalRisk(trade, Charged)
    BY <2>1, <2>2, TotalsOfTrades
  <2>4. /\ TotalRisk(trade, Live) \in Nat /\ TotalRisk(trade, Charged) \in Nat
        /\ TotalRisk(trade, GivenBack) \in Nat
    <3>1. Live \in SUBSET Trade
      BY <2>1
    <3> QED
      BY <2>1, <2>2, <3>1, TotalsOfTrades
  <2>5. dailyRisk + TotalRisk(trade, GivenBack) >= TotalRisk(trade, Live)
    <3> HIDE DEF Live
    <3> QED
      BY <2>2, <2>3, <2>4 DEF RiskInv, ChargedInv
  <2>6. SumRisk(GivenBack) = TotalRisk(trade, GivenBack) /\ SumRisk(Live) = TotalRisk(trade, Live)
    BY SumIsTotal
  <2> QED
    BY <2>5, <2>6 DEF BudgetCoversOpenRisk, GivenBack
<1> QED
  BY <1>1, RiskInvHolds, PTL
=============================================================================
