---------------------------- MODULE TradeManager ----------------------------
(***************************************************************************)
(* src/core/engine/trade-manager.js: the automation loop.  Brokers are     *)
(* enabled and disabled; while one is enabled, an interval starts a scan   *)
(* of all pairs, which collects candidates and executes the best; signals  *)
(* pushed by the EA are queued per broker, debounced by a timer and        *)
(* executed by a flush.  Scans and flushes are asynchronous functions      *)
(* nobody waits for: several of them overlap at their awaits.              *)
(*                                                                         *)
(* One action is what runs between two awaits.  The awaits modelled are    *)
(* isBrokerConnected, the signal of a pair, and the broker's answer inside *)
(* executeTrade; the trading engine appears as its map of active trades    *)
(* (ExecutionEngine.tla has the rest of it), and may reject any signal.    *)
(* Ranking by score is an arbitrary order: the pairs dropped by a step are *)
(* the ones ranked before the pair it picks.                               *)
(***************************************************************************)
EXTENDS Naturals, FiniteSets

CONSTANTS
  Broker, Pair,
  Trade,    \* slots for active trades: at most |Trade| at once
  Scan,     \* at most |Scan| calls of checkForNewSignals at once
  Flush,    \* at most |Flush| calls of flushRealtimeSignalsForBroker at once
  Manual,   \* what opened a trade that neither a scan nor a flush opened
  None,
  MaxNew    \* maxNewTradesPerCycle

ASSUME ManagerAssumption ==
  /\ MaxNew \in Nat \ {0}
  /\ Scan \cap Flush = {} /\ Manual \notin Scan \cup Flush
  /\ None \notin Broker \cup Pair \cup Trade \cup Scan \cup Flush

VARIABLES
  enabled,     \* the brokers autoTradingEnabledByBroker maps to true
  interval,    \* which of signalGenerationInterval, monitoringInterval are set
  starting,    \* brokers whose startAutoTrading awaits isBrokerConnected
  checked,     \* broker and pair of a lastSignalCheck not older than the interval
  scan,        \* the calls of checkForNewSignals
  queue,       \* realtimeCandidatesByBroker: the queued pairs of each broker
  timer,       \* the keys of realtimeFlushTimersByBroker
  cooldown,    \* broker and pair of a lastRealtimeTradeAt not older than the cooldown
  flush,       \* the calls of flushRealtimeSignalsForBroker
  trade        \* the engine's active trades

vars == <<enabled, interval, starting, checked, scan, queue, timer, cooldown, flush, trade>>

TradeRecord == [active : BOOLEAN, pair : Pair \cup {None}, by : Scan \cup Flush \cup {Manual, None}]
ScanRecord ==
  [pc : {"idle", "connect", "signal", "commit"}, todo : SUBSET Broker,
   broker : Broker \cup {None}, pairs : SUBSET Pair, pair : Pair \cup {None},
   found : SUBSET Pair, opened : 0..MaxNew, trade : Trade \cup {None}]
FlushRecord ==
  [pc : {"idle", "connect", "commit"}, broker : Broker \cup {None}, found : SUBSET Pair,
   pair : Pair \cup {None}, opened : 0..MaxNew, trade : Trade \cup {None}]

NoTrade == [active |-> FALSE, pair |-> None, by |-> None]
IdleScan == [pc |-> "idle", todo |-> {}, broker |-> None, pairs |-> {}, pair |-> None,
             found |-> {}, opened |-> 0, trade |-> None]
IdleFlush == [pc |-> "idle", broker |-> None, found |-> {}, pair |-> None,
              opened |-> 0, trade |-> None]

Init ==
  /\ enabled = {} /\ interval = {} /\ starting = {} /\ checked = {}
  /\ scan = [s \in Scan |-> IdleScan]
  /\ queue = [b \in Broker |-> {}]
  /\ timer = {} /\ cooldown = {}
  /\ flush = [f \in Flush |-> IdleFlush]
  /\ trade = [t \in Trade |-> NoTrade]

-----------------------------------------------------------------------------
(* The engine's map of active trades *)

Active == {t \in Trade : trade[t].active}

\* hasOpenTradeForPair, on a map m of trades.
HasOpenTrade(m, p) == \E t \in Trade : m[t].active /\ m[t].pair = p

\* A slot no trade holds and no other executeTrade under way refers to.
Free(m, t, who) ==
  /\ ~m[t].active
  /\ \A s \in Scan \ {who} : scan[s].trade # t
  /\ \A f \in Flush \ {who} : flush[f].trade # t

\* executeTrade up to its await puts the trade in the map.
Opened(m, t, p, who) == [m EXCEPT ![t] = [active |-> TRUE, pair |-> p, by |-> who]]

\* The broker's answer: a refused order is rolled back.
Committed(t, ok) == IF ok THEN trade ELSE [trade EXCEPT ![t] = NoTrade]

-----------------------------------------------------------------------------
(* checkForNewSignals: where a scan goes next, with m the map of trades *)

\* The next broker of the list that is still enabled, or the end.
NextBroker(s, todo, m) ==
  /\ trade' = m
  /\ \/ \E b \in todo \cap enabled', skipped \in SUBSET (todo \ enabled') :
          scan' = [scan EXCEPT ![s] = [IdleScan EXCEPT !.pc = "connect", !.broker = b,
                                         !.todo = todo \ ({b} \cup skipped)]]
     \/ todo \cap enabled' = {} /\ scan' = [scan EXCEPT ![s] = IdleScan]

\* The next candidate the engine does not reject outright; nothing is checked
\* again before it is executed.
NextTrade(s, r, m) ==
  \/ /\ r.opened < MaxNew
     /\ \E p \in r.found, rejected \in SUBSET r.found, t \in Trade :
          /\ Free(m, t, s)
          /\ trade' = Opened(m, t, p, s)
          /\ scan' = [scan EXCEPT ![s] = [r EXCEPT !.pc = "commit", !.pair = None, !.trade = t,
                                            !.pairs = {}, !.found = @ \ ({p} \cup rejected)]]
  \/ NextBroker(s, r.todo, m)

\* The next pair whose last check is old enough; after the last, the candidates.
NextPair(s, r) ==
  LET due == {p \in r.pairs : <<r.broker, p>> \notin checked'}
  IN  \/ /\ \E p \in due, skipped \in SUBSET (r.pairs \ due) :
              scan' = [scan EXCEPT ![s] = [r EXCEPT !.pc = "signal", !.pair = p,
                                             !.pairs = @ \ ({p} \cup skipped)]]
         /\ UNCHANGED trade
      \/ due = {} /\ NextTrade(s, r, trade)

\* The interval calls checkForNewSignals.
ScanTick(s) ==
  /\ "signals" \in interval /\ enabled # {} /\ scan[s].pc = "idle"
  /\ UNCHANGED <<enabled, interval, starting, checked, queue, timer, cooldown, flush>>
  /\ NextBroker(s, enabled, trade)

ScanConnected(s, ok) ==
  /\ scan[s].pc = "connect"
  /\ UNCHANGED <<enabled, interval, starting, checked, queue, timer, cooldown, flush>>
  /\ IF ok THEN NextPair(s, [scan[s] EXCEPT !.pairs = Pair])
           ELSE NextBroker(s, scan[s].todo, trade)

\* The signal of a pair arrives and passes the execution gate, or does not; or
\* the call throws, and the pair is not marked as checked.
SignalArrives(s, verdict) ==
  /\ scan[s].pc = "signal"
  /\ checked' = IF verdict = "error" THEN checked
                                     ELSE checked \cup {<<scan[s].broker, scan[s].pair>>}
  /\ UNCHANGED <<enabled, interval, starting, queue, timer, cooldown, flush>>
  /\ NextPair(s, IF verdict = "enter" /\ ~HasOpenTrade(trade, scan[s].pair)
                   THEN [scan[s] EXCEPT !.found = @ \cup {scan[s].pair}]
                   ELSE scan[s])

ScanCommitted(s, ok) ==
  /\ scan[s].pc = "commit"
  /\ UNCHANGED <<enabled, interval, starting, checked, queue, timer, cooldown, flush>>
  /\ NextTrade(s, IF ok THEN [scan[s] EXCEPT !.opened = @ + 1] ELSE scan[s],
               Committed(scan[s].trade, ok))

-----------------------------------------------------------------------------
(* Realtime signals *)

\* enqueueRealtimeSignal: one candidate per pair, one timer per broker.
EnqueueRealtimeSignal(b, p) ==
  /\ b \in enabled /\ ~HasOpenTrade(trade, p) /\ <<b, p>> \notin cooldown
  /\ queue' = [queue EXCEPT ![b] = @ \cup {p}]
  /\ timer' = timer \cup {b}
  /\ UNCHANGED <<enabled, interval, starting, checked, scan, cooldown, flush, trade>>

\* The timer starts a flush, which drops the queue of a disabled broker.
FlushTimerFires(f, b) ==
  /\ b \in timer /\ flush[f].pc = "idle"
  /\ timer' = timer \ {b}
  /\ IF b \in enabled
       THEN /\ flush' = [flush EXCEPT ![f] = [IdleFlush EXCEPT !.pc = "connect", !.broker = b]]
            /\ UNCHANGED queue
       ELSE /\ queue' = [queue EXCEPT ![b] = {}]
            /\ UNCHANGED flush
  /\ UNCHANGED <<enabled, interval, starting, checked, scan, cooldown, trade>>

\* (faulty variant: the gates are not evaluated again before the trade)
NextFlushTradeUngated(f, r, m) ==
  \/ /\ r.opened < MaxNew
     /\ \E p \in r.found, rejected \in SUBSET r.found, t \in Trade :
          /\ Free(m, t, f)
          /\ trade' = Opened(m, t, p, f)
          /\ flush' = [flush EXCEPT ![f] = [r EXCEPT !.pc = "commit", !.pair = p, !.trade = t,
                                              !.found = @ \ ({p} \cup rejected)]]
  \/ trade' = m /\ flush' = [flush EXCEPT ![f] = IdleFlush]

\* The next candidate that passes the gates at this moment, or the end.
NextFlushTrade(f, r, m) ==
  \/ /\ r.opened < MaxNew
     /\ \E p \in r.found, rejected \in SUBSET r.found, t \in Trade :
          /\ ~HasOpenTrade(m, p)
          /\ Free(m, t, f)
          /\ trade' = Opened(m, t, p, f)
          /\ flush' = [flush EXCEPT ![f] = [r EXCEPT !.pc = "commit", !.pair = p, !.trade = t,
                                              !.found = @ \ ({p} \cup rejected)]]
  \/ trade' = m /\ flush' = [flush EXCEPT ![f] = IdleFlush]

\* (faulty variant: the queue of an unreachable broker is kept)
FlushConnectedKeepsQueue(f, ok) ==
  /\ flush[f].pc = "connect"
  /\ IF ok THEN /\ queue' = [queue EXCEPT ![flush[f].broker] = {}]
                /\ NextFlushTrade(f, [flush[f] EXCEPT !.found = queue[flush[f].broker]], trade)
           ELSE flush' = [flush EXCEPT ![f] = IdleFlush] /\ UNCHANGED <<queue, trade>>
  /\ UNCHANGED <<enabled, interval, starting, checked, scan, timer, cooldown>>

\* The flush takes the whole queue, or drops it when the broker is unreachable.
FlushConnected(f, ok) ==
  /\ flush[f].pc = "connect"
  /\ queue' = [queue EXCEPT ![flush[f].broker] = {}]
  /\ IF ok THEN NextFlushTrade(f, [flush[f] EXCEPT !.found = queue[flush[f].broker]], trade)
           ELSE flush' = [flush EXCEPT ![f] = IdleFlush] /\ UNCHANGED trade
  /\ UNCHANGED <<enabled, interval, starting, checked, scan, timer, cooldown>>

\* The broker answers: a trade that stays starts the cooldown of its pair.
FlushCommitted(f, ok) ==
  /\ flush[f].pc = "commit"
  /\ cooldown' = IF ok THEN cooldown \cup {<<flush[f].broker, flush[f].pair>>} ELSE cooldown
  /\ NextFlushTrade(f, IF ok THEN [flush[f] EXCEPT !.opened = @ + 1] ELSE flush[f],
                    Committed(flush[f].trade, ok))
  /\ UNCHANGED <<enabled, interval, starting, checked, scan, queue, timer>>

-----------------------------------------------------------------------------
(* Starting and stopping *)

StartAutoTrading(b) ==
  /\ b \notin enabled \cup starting
  /\ starting' = starting \cup {b}
  /\ UNCHANGED <<enabled, interval, checked, scan, queue, timer, cooldown, flush, trade>>

\* After its await, startAutoTrading enables the broker and makes a first scan,
\* or reports that the broker is not connected.
StartConnected(b, ok) ==
  /\ b \in starting
  /\ starting' = starting \ {b}
  /\ IF ok THEN /\ enabled' = enabled \cup {b}
                /\ interval' = {"signals", "monitor"}
                /\ \E s \in Scan : scan[s].pc = "idle" /\ NextBroker(s, enabled', trade)
           ELSE UNCHANGED <<enabled, interval, scan, trade>>
  /\ UNCHANGED <<checked, queue, timer, cooldown, flush>>

\* (faulty variant: stopping one broker clears the intervals)
StopAutoTradingClears(brokers) ==
  /\ brokers # {} /\ brokers \subseteq enabled
  /\ enabled' = enabled \ brokers
  /\ interval' = IF Active = {} THEN {} ELSE interval \ {"signals"}
  /\ UNCHANGED <<starting, checked, scan, queue, timer, cooldown, flush, trade>>

\* stopAutoTrading of one broker, or of all, with maybeStopIntervals.
StopAutoTrading(brokers) ==
  /\ brokers # {} /\ brokers \subseteq enabled
  /\ enabled' = enabled \ brokers
  /\ interval' = IF enabled' # {} THEN interval
                 ELSE IF Active = {} THEN {} ELSE interval \ {"signals"}
  /\ UNCHANGED <<starting, checked, scan, queue, timer, cooldown, flush, trade>>

-----------------------------------------------------------------------------
(* The engine and the clock *)

\* POST /trading/execute opens a trade whatever the manager does.
ManualTrade(t, p) ==
  /\ Free(trade, t, None)
  /\ trade' = Opened(trade, t, p, Manual)
  /\ UNCHANGED <<enabled, interval, starting, checked, scan, queue, timer, cooldown, flush>>

\* closeTrade: by the monitor, a smart exit, closeAllTrades or a route; and the
\* roll-back of a manual trade.
TradeEnds(t) ==
  /\ trade[t].active
  /\ trade' = [trade EXCEPT ![t] = NoTrade]
  /\ UNCHANGED <<enabled, interval, starting, checked, scan, queue, timer, cooldown, flush>>

CheckExpires(b, p) ==
  /\ <<b, p>> \in checked
  /\ checked' = checked \ {<<b, p>>}
  /\ UNCHANGED <<enabled, interval, starting, scan, queue, timer, cooldown, flush, trade>>

CooldownExpires(b, p) ==
  /\ <<b, p>> \in cooldown
  /\ cooldown' = cooldown \ {<<b, p>>}
  /\ UNCHANGED <<enabled, interval, starting, checked, scan, queue, timer, flush, trade>>

-----------------------------------------------------------------------------
ScanContinues(s) ==
  \/ \E ok \in BOOLEAN : ScanConnected(s, ok) \/ ScanCommitted(s, ok)
  \/ \E verdict \in {"enter", "wait", "error"} : SignalArrives(s, verdict)

FlushContinues(f) == \E ok \in BOOLEAN : FlushConnected(f, ok) \/ FlushCommitted(f, ok)

Next ==
  \/ \E s \in Scan : ScanTick(s) \/ ScanContinues(s)
  \/ \E f \in Flush : FlushContinues(f) \/ \E b \in Broker : FlushTimerFires(f, b)
  \/ \E b \in Broker :
       \/ StartAutoTrading(b)
       \/ \E ok \in BOOLEAN : StartConnected(b, ok)
       \/ StopAutoTrading({b})
       \/ \E p \in Pair : EnqueueRealtimeSignal(b, p) \/ CheckExpires(b, p) \/ CooldownExpires(b, p)
  \/ StopAutoTrading(enabled)
  \/ \E t \in Trade : TradeEnds(t) \/ \E p \in Pair : ManualTrade(t, p)

Spec == Init /\ [][Next]_vars

\* Awaited calls settle: the health check, the EA pipeline and the router all
\* catch their errors.  A timer fires; the bound |Flush| may hold it up for a
\* while, hence strong fairness.
Fairness ==
  /\ \A s \in Scan : WF_vars(ScanContinues(s))
  /\ \A f \in Flush : WF_vars(FlushContinues(f))
  /\ \A b \in Broker : SF_vars(\E f \in Flush : FlushTimerFires(f, b))

FairSpec == Spec /\ Fairness

-----------------------------------------------------------------------------
(* Properties *)

TypeOK ==
  /\ enabled \subseteq Broker /\ starting \subseteq Broker /\ timer \subseteq Broker
  /\ interval \subseteq {"signals", "monitor"}
  /\ checked \subseteq Broker \X Pair /\ cooldown \subseteq Broker \X Pair
  /\ scan \in [Scan -> ScanRecord]
  /\ queue \in [Broker -> SUBSET Pair]
  /\ flush \in [Flush -> FlushRecord]
  /\ trade \in [Trade -> TradeRecord]

\* While a broker is enabled, both intervals run, whatever was started, stopped
\* or closed before.
EnabledMeansRunning == enabled # {} => interval = {"signals", "monitor"}

\* Two trades of one pair are active together only if the calls that opened them
\* overlapped: a scan doubles nothing it has opened itself, for any broker, nor
\* what an earlier scan opened, and no two flushes double each other.
DoubledOnlyByOverlap ==
  \A t, u \in Active :
    /\ t # u /\ trade[t].pair = trade[u].pair
    /\ Manual \notin {trade[t].by, trade[u].by}
    => /\ trade[t].by # trade[u].by
       /\ ~{trade[t].by, trade[u].by} \subseteq Flush

\* Every queued signal leaves the queue, executed or dropped.
CandidatesAreFlushed == \A b \in Broker : \A p \in Pair : p \in queue[b] ~> p \notin queue[b]

\* maybeStopIntervals says: "keep monitoring running to manage/close existing
\* trades safely".  A scan or flush under way when everything is stopped opens a
\* trade nobody monitors.
ActiveTradesAreMonitored ==
  (\E t \in Active : trade[t].by # Manual) => "monitor" \in interval
=============================================================================
