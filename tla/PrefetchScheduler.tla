--------------------------- MODULE PrefetchScheduler ---------------------------
(***************************************************************************)
(* PairPrefetchScheduler                                                   *)
(* (src/infrastructure/services/pair-prefetch-scheduler.js): every tick    *)
(* starts a cycle, which fetches the series that are due, one after the    *)
(* other.  A tick does not wait for the cycle before it.                   *)
(*                                                                         *)
(* Which of the due series a cycle selects (priorities, quota pressure) is *)
(* a free choice of at most MaxPairs of them.                              *)
(***************************************************************************)
EXTENDS Integers, FiniteSets

CONSTANTS
  Series,       \* pairs with their timeframes
  Cycle,        \* cycles under way at once (a bound)
  Cadence,      \* cadenceMinutes, in ticks
  MaxPairs,     \* maxPairsPerTick
  MaxTick       \* ticks (a bound)

VARIABLES
  tick,         \* the time
  last,         \* lastPrefetch; -1: never
  cycle,        \* what each cycle has still to fetch, and when it started
  beside,       \* history: cycles that ran beside another
  twice         \* history: fetched within a cadence of an earlier fetch, by a cycle that
                \* ran beside no other

prefetchVars == <<tick, last, cycle, beside, twice>>

NoCycle == [on |-> FALSE, at |-> 0, left |-> {}]

Init ==
  /\ tick = 0
  /\ last = [s \in Series |-> -1]
  /\ cycle = [c \in Cycle |-> NoCycle]
  /\ beside = {} /\ twice = FALSE
-----------------------------------------------------------------------------
\* buildCandidateTasks: what is due at a tick.
Due == {s \in Series : last[s] = -1 \/ tick - last[s] >= Cadence}

StartCycle(c, selected) ==
  /\ ~cycle[c].on
  /\ selected # {} /\ selected \subseteq Due /\ Cardinality(selected) <= MaxPairs
  /\ cycle' = [cycle EXCEPT ![c] = [on |-> TRUE, at |-> tick, left |-> selected]]
  /\ LET others == {d \in Cycle \ {c} : cycle[d].on} IN
     beside' = IF others = {} THEN beside \ {c} ELSE beside \cup others \cup {c}
  /\ UNCHANGED <<tick, last, twice>>

\* executeTask: a fetch that succeeded is stamped with the start of its cycle, one
\* that failed is due again.
EndFetch(c, s, ok) ==
  LET left == cycle[c].left \ {s} IN
  /\ s \in cycle[c].left
  /\ cycle' = [cycle EXCEPT ![c] = IF left = {} THEN NoCycle ELSE [@ EXCEPT !.left = left]]
  /\ last' = IF ok THEN [last EXCEPT ![s] = cycle[c].at] ELSE last
  /\ twice' = (twice \/ (ok /\ c \notin beside /\ last[s] # -1
                            /\ cycle[c].at - last[s] < Cadence))
  /\ UNCHANGED <<tick, beside>>

TickPasses ==
  /\ tick < MaxTick
  /\ tick' = tick + 1
  /\ UNCHANGED <<last, cycle, beside, twice>>
-----------------------------------------------------------------------------
Next ==
  \/ \E c \in Cycle, selected \in SUBSET Series : StartCycle(c, selected)
  \/ \E c \in Cycle, s \in Series, ok \in BOOLEAN : EndFetch(c, s, ok)
  \/ TickPasses

Spec == Init /\ [][Next]_prefetchVars
-----------------------------------------------------------------------------
\* A series is fetched again within its cadence, or its stamp set back, only by
\* cycles that ran side by side.
FetchedOnce == ~twice
=============================================================================
