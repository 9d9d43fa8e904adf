-------------------------- MODULE PersistenceBackoff --------------------------
(***************************************************************************)
(* The backoff of the persistence adapter                                  *)
(* (src/infrastructure/storage/persistence-adapter.js): a failed write     *)
(* keeps all writes away from the database for a while, twice as long      *)
(* after each failure in a row; a write that succeeds ends it.  Writes are *)
(* concurrent, and one that was already under way when another failed may  *)
(* still succeed.                                                          *)
(***************************************************************************)
EXTENDS Integers, FiniteSets

CONSTANTS
  Write,        \* writes under way at once (a bound)
  RetryMax      \* the longest backoff, in units of the shortest

VARIABLES
  waits,        \* time until disabledUntil
  failures,     \* consecutiveFailures, as far as the backoff grows
  writing,      \* writes that await the database
  older,        \* history: those that started before the last failure
  cutBackoff    \* history: a backoff ended before its time, by none of those

persistVars == <<waits, failures, writing, older, cutBackoff>>

Init ==
  /\ waits = 0 /\ failures = 0
  /\ writing = {} /\ older = {}
  /\ cutBackoff = FALSE
-----------------------------------------------------------------------------
\* ensureActive
Active == waits = 0

\* (faulty variant: a write starts during a backoff)
StartWriteUnguarded(w) ==
  /\ w \notin writing
  /\ writing' = writing \cup {w}
  /\ UNCHANGED <<waits, failures, older, cutBackoff>>

StartWrite(w) ==
  /\ Active /\ w \notin writing
  /\ writing' = writing \cup {w}
  /\ UNCHANGED <<waits, failures, older, cutBackoff>>

Ended(w) ==
  /\ w \in writing
  /\ writing' = writing \ {w}

\* markSuccess; the write of news items does not call it.
Succeed(w, marks) ==
  /\ Ended(w)
  /\ IF marks
     THEN /\ waits' = 0 /\ failures' = 0
          /\ cutBackoff' = (cutBackoff \/ (~Active /\ w \notin older))
     ELSE UNCHANGED <<waits, failures, cutBackoff>>
  /\ older' = older \ {w}

\* markFailure
Backoff == IF 2 ^ failures > RetryMax THEN RetryMax ELSE 2 ^ failures
MarkFailure ==
  /\ waits' = Backoff
  /\ failures' = IF 2 ^ failures >= RetryMax THEN failures ELSE failures + 1

Fail(w) ==
  /\ Ended(w)
  /\ MarkFailure
  /\ older' = writing \ {w}
  /\ UNCHANGED cutBackoff

BackoffRuns ==
  /\ waits > 0
  /\ waits' = waits - 1
  /\ UNCHANGED <<failures, writing, older, cutBackoff>>
-----------------------------------------------------------------------------
Next ==
  \/ \E w \in Write : StartWrite(w) \/ Fail(w)
  \/ \E w \in Write, marks \in BOOLEAN : Succeed(w, marks)
  \/ BackoffRuns

Spec == Init /\ [][Next]_persistVars
-----------------------------------------------------------------------------
\* A backoff is cut short only by a write that was under way before the failure that
\* set it.
BackoffExplained == ~cutBackoff
=============================================================================
