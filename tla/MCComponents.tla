----------------------------- MODULE MCComponents -----------------------------
(***************************************************************************)
(* The components of module Components and the entry plans, for TLC.  A    *)
(* behaviour moves one of them, which its initial state picks; the others  *)
(* stay as they start.                                                     *)
(***************************************************************************)
EXTENDS MCEntryPlan, Components, TLC

CONSTANTS
  q1, q2, k1, k2,        \* providers and keys
  s1, f1                 \* a symbol and a flush

\* Two tradeable signals apart only in their price, an analysis that is not ready
\* for entry, and one that says nothing.
MCEnter(p) ==
  [state |-> "ENTER", price |-> p, ready |-> TRUE, directional |-> TRUE, analyzed |-> TRUE]
MCSignals ==
  {MCEnter(1), MCEnter(2),
   [state |-> "WAIT_MONITOR", price |-> 1, ready |-> FALSE, directional |-> TRUE, analyzed |-> TRUE],
   [state |-> "NO_TRADE", price |-> 1, ready |-> FALSE, directional |-> FALSE, analyzed |-> FALSE]}

\* Data that is good, middling, or stale with a low score, which opens the breaker.
MCQuality ==
  {[score |-> 90, issue |-> "none", spread |-> "normal", gap |-> "none"],
   [score |-> 70, issue |-> "none", spread |-> "normal", gap |-> "none"],
   [score |-> 40, issue |-> "stale", spread |-> "normal", gap |-> "none"]}

\* The second provider serves only one of the keys, and counts twice.
MCServes == q1 :> {k1, k2} @@ q2 :> {k1}

VARIABLE active   \* who moves
-----------------------------------------------------------------------------
Component == {"plans", "runner", "flushes", "series", "learning", "answer", "snapshots", "recon",
              "cache", "persistence", "prefetch", "fetcher"}

MCInit ==
  /\ active \in Component
  /\ Init
  /\ Runner!Init
  /\ MarketData!Init
  /\ Learning!Init
  /\ Bridge!AnswerInit
  /\ Snapshots!Init
  /\ Recon!Init
  /\ Cache!Init
  /\ Persistence!Init
  /\ Prefetch!Init
  /\ Fetcher!Init
  /\ active # "series" => market = <<1>>
  /\ active # "answer" => ~halted

\* Component x moves.
Moves(x) ==
  /\ active = x /\ UNCHANGED active
  /\ IF x = "plans" THEN TRUE ELSE UNCHANGED vars
  /\ IF x \in {"runner", "flushes"} THEN TRUE ELSE UNCHANGED runnerVars
  /\ IF x = "series" THEN TRUE ELSE UNCHANGED seriesVars
  /\ IF x = "learning" THEN TRUE ELSE UNCHANGED learnVars
  /\ IF x = "answer" THEN TRUE ELSE UNCHANGED answerVars
  /\ IF x = "snapshots" THEN TRUE ELSE UNCHANGED snapVars
  /\ IF x = "recon" THEN TRUE ELSE UNCHANGED reconVars
  /\ IF x = "cache" THEN TRUE ELSE UNCHANGED cacheVars
  /\ IF x = "persistence" THEN TRUE ELSE UNCHANGED persistVars
  /\ IF x = "prefetch" THEN TRUE ELSE UNCHANGED prefetchVars
  /\ IF x = "fetcher" THEN TRUE ELSE UNCHANGED fetcherVars

\* The realtime runner moves in two ways.  What is published of one symbol, by one flush
\* at a time beside a revalidation:
Publishing ==
  /\ \A i \in DOMAIN pending' : pending'[i] = s1
  /\ \A f \in Flush \ {f1} : task'[f].pc = "idle"

\* and how several symbols wait, of which a flush takes one, and another flush may start
\* before it ends; nothing is published.
Flushing ==
  /\ lastMeta' = lastMeta /\ bar' = bar /\ up'
  /\ \A r \in Reval : task'[r].pc = "idle"

MCNext ==
  \/ Moves("plans") /\ Next
  \/ Moves("runner") /\ Runner!Next /\ Publishing
  \/ Moves("flushes") /\ Runner!Next /\ Flushing
  \/ Moves("series") /\ MarketData!Next
  \/ Moves("learning") /\ Learning!Next
  \/ Moves("answer") /\ Bridge!AnswerNext
  \/ Moves("snapshots") /\ Snapshots!Next
  \/ Moves("recon") /\ Recon!Next
  \/ Moves("cache") /\ Cache!Next
  \/ Moves("persistence") /\ Persistence!Next
  \/ Moves("prefetch") /\ Prefetch!Next
  \/ Moves("fetcher") /\ Fetcher!Next

MCSpec ==
  MCInit /\ [][MCNext]_<<active, vars, runnerVars, seriesVars, learnVars, answerVars, snapVars,
                        reconVars, cacheVars, persistVars, prefetchVars, fetcherVars>>
=============================================================================
