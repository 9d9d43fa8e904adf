------------------------------- MODULE JobQueue -------------------------------
(***************************************************************************)
(* The background job queue, src/infrastructure/services/jobs/job-queue.js.*)
(*                                                                         *)
(* A job waits in pending until its runAt, is executed by its handler, and *)
(* is queued again after a failure until its attempts are used up.  The    *)
(* queue is woken by schedule(), which leaves one setImmediate under way   *)
(* (processing), and by the timeout processNext sets when it leaves jobs   *)
(* behind.  runAt is abstracted to whether a job is due; which due job is  *)
(* first in the sorted array is then a free choice.  Handlers are          *)
(* external asynchronous functions.                                        *)
(***************************************************************************)
EXTENDS Integers, FiniteSets

CONSTANTS
  Job,            \* calls of enqueue
  Id,             \* Id[j]: the id of the job, given by the caller or generated
  Handled,        \* jobs whose type has a registered handler
  MaxAttempts,    \* MaxAttempts[j]: maxAttempts of the job
  Concurrency,
  MaxQueueSize,
  DeadLetterMax

ASSUME JobQueueAssumption ==
  /\ IsFiniteSet(Job)
  /\ DOMAIN Id = Job
  /\ Handled \subseteq Job
  /\ MaxAttempts \in [Job -> Nat]
  /\ Concurrency \in Nat \ {0}
  /\ MaxQueueSize \in Nat \ {0}
  /\ DeadLetterMax \in Nat \ {0}

VARIABLES
  running,      \* between start() and stop()
  processing,   \* a setImmediate is under way
  timer,        \* a timeout of processNext is under way
  pending,      \* jobs in the pending array
  due,          \* those whose runAt has come
  executing,    \* jobs whose handler is under way
  inFlight,     \* the ids the inFlight map holds
  attempts,     \* attempts of each job
  status,       \* status of each job
  deadLetter    \* jobs in the dead letter list

vars == <<running, processing, timer, pending, due, executing, inFlight,
          attempts, status, deadLetter>>

Status == {"new", "refused", "queued", "running", "completed", "dead"}

Smaller(a, b) == IF a < b THEN a ELSE b

Init ==
  /\ running = FALSE /\ processing = FALSE /\ timer = FALSE
  /\ pending = {} /\ due = {} /\ executing = {} /\ inFlight = {}
  /\ attempts = [j \in Job |-> 0]
  /\ status = [j \in Job |-> "new"]
  /\ deadLetter = {}

-----------------------------------------------------------------------------

\* schedule(): nothing when stopped or when a setImmediate is under way.
Schedule == processing' = (processing \/ running)

Enqueue(j) ==
  /\ status[j] = "new"
  /\ Cardinality(pending) < MaxQueueSize
  /\ status' = [status EXCEPT ![j] = "queued"]
  /\ pending' = pending \cup {j}
  /\ due' \in {due, due \cup {j}}
  /\ Schedule
  /\ UNCHANGED <<running, timer, executing, inFlight, attempts, deadLetter>>

EnqueueOverflows(j) ==
  /\ status[j] = "new"
  /\ Cardinality(pending) >= MaxQueueSize
  /\ status' = [status EXCEPT ![j] = "refused"]
  /\ UNCHANGED <<running, processing, timer, pending, due, executing, inFlight,
                 attempts, deadLetter>>

\* (faulty variant: start() leaves waiting jobs to the next enqueue)
StartUnscheduled ==
  /\ ~running
  /\ running' = TRUE
  /\ UNCHANGED <<processing, timer, pending, due, executing, inFlight, attempts,
                 status, deadLetter>>

Start ==
  /\ ~running
  /\ running' = TRUE
  /\ processing' = TRUE
  /\ UNCHANGED <<timer, pending, due, executing, inFlight, attempts, status,
                 deadLetter>>

Stop ==
  /\ running
  /\ running' = FALSE
  /\ UNCHANGED <<processing, timer, pending, due, executing, inFlight, attempts,
                 status, deadLetter>>

Ids(jobs) == {Id[j] : j \in jobs}

\* The loop of processNext takes due jobs while inFlight has room: it stops
\* when no due job is left or the room is used up, and not before its last one.
Takes(taken) ==
  LET started == taken \cap Handled
      Room(jobs) == Cardinality(inFlight \cup Ids(jobs)) < Concurrency
  IN /\ taken = due \/ ~Room(started)
     /\ taken = {} \/ \E last \in taken : Room(started \ {last})

\* moveToDeadLetter for each of jobs: the list keeps the newest.
DeadLetterWith(jobs) ==
  {kept \in SUBSET (deadLetter \cup jobs) :
     /\ Cardinality(kept) = Smaller(Cardinality(deadLetter \cup jobs), DeadLetterMax)
     /\ jobs \subseteq kept \/ kept \subseteq jobs}

\* The setImmediate callback of schedule, on a stopped queue.
ProcessStopped ==
  /\ processing
  /\ ~running
  /\ processing' = FALSE
  /\ UNCHANGED <<running, timer, pending, due, executing, inFlight, attempts,
                 status, deadLetter>>

\* (faulty variant: no timeout when every slot is taken)
ProcessNextUntimed ==
  /\ processing
  /\ running
  /\ processing' = FALSE
  /\ \E taken \in SUBSET due :
       LET started == taken \cap Handled
           unhandled == taken \ Handled
       IN /\ Takes(taken)
          /\ pending' = pending \ taken
          /\ due' = due \ taken
          /\ executing' = executing \cup started
          /\ inFlight' = inFlight \cup Ids(started)
          /\ attempts' = [j \in Job |-> IF j \in started THEN attempts[j] + 1
                                                         ELSE attempts[j]]
          /\ status' = [j \in Job |-> IF j \in started THEN "running"
                                      ELSE IF j \in unhandled THEN "dead"
                                      ELSE status[j]]
          /\ deadLetter' \in DeadLetterWith(unhandled)
          /\ timer' = (timer \/ due' # {})
  /\ UNCHANGED running

\* The setImmediate callback of schedule: processNext, with executeJob of each
\* job up to the await of its handler.
ProcessNext ==
  /\ processing
  /\ running
  /\ processing' = FALSE
  /\ \E taken \in SUBSET due :
       LET started == taken \cap Handled
           unhandled == taken \ Handled
       IN /\ Takes(taken)
          /\ pending' = pending \ taken
          /\ due' = due \ taken
          /\ executing' = executing \cup started
          /\ inFlight' = inFlight \cup Ids(started)
          /\ attempts' = [j \in Job |-> IF j \in started THEN attempts[j] + 1
                                                         ELSE attempts[j]]
          /\ status' = [j \in Job |-> IF j \in started THEN "running"
                                      ELSE IF j \in unhandled THEN "dead"
                                      ELSE status[j]]
          /\ deadLetter' \in DeadLetterWith(unhandled)
          /\ timer' = (timer \/ pending' # {})
  /\ UNCHANGED running

\* A timeout of processNext.  Each processNext sets one, so others may be left.
TimerFires ==
  /\ timer
  /\ timer' \in BOOLEAN
  /\ Schedule
  /\ UNCHANGED <<running, pending, due, executing, inFlight, attempts, status,
                 deadLetter>>

\* The finally block of executeJob.
Finish(j) ==
  /\ executing' = executing \ {j}
  /\ inFlight' = inFlight \ {Id[j]}
  /\ Schedule

HandlerSucceeds(j) ==
  /\ j \in executing
  /\ status' = [status EXCEPT ![j] = "completed"]
  /\ Finish(j)
  /\ UNCHANGED <<running, timer, pending, due, attempts, deadLetter>>

\* (faulty variant: the limit counts one attempt less)
RetriesOneLess(j) == attempts[j] < MaxAttempts[j]

Retries(j) == attempts[j] <= MaxAttempts[j]

\* The handler rejects and the job is queued again, after a delay.
HandlerFailsRetried(j) ==
  /\ j \in executing
  /\ Retries(j)
  /\ status' = [status EXCEPT ![j] = "queued"]
  /\ pending' = pending \cup {j}
  /\ Finish(j)
  /\ UNCHANGED <<running, timer, due, attempts, deadLetter>>

HandlerFailsForGood(j) ==
  /\ j \in executing
  /\ ~Retries(j)
  /\ status' = [status EXCEPT ![j] = "dead"]
  /\ deadLetter' \in DeadLetterWith({j})
  /\ Finish(j)
  /\ UNCHANGED <<running, timer, pending, due, attempts>>

\* Time passes the runAt of a pending job.
BecomesDue(j) ==
  /\ j \in pending \ due
  /\ due' = due \cup {j}
  /\ UNCHANGED <<running, processing, timer, pending, executing, inFlight,
                 attempts, status, deadLetter>>

Next ==
  \/ Start \/ Stop \/ ProcessNext \/ ProcessStopped \/ TimerFires
  \/ \E j \in Job :
       \/ Enqueue(j) \/ EnqueueOverflows(j)
       \/ HandlerSucceeds(j) \/ HandlerFailsRetried(j) \/ HandlerFailsForGood(j)
       \/ BecomesDue(j)

Spec == Init /\ [][Next]_vars

\* The event loop runs its callbacks, time passes, and handlers settle.
Fairness ==
  /\ WF_vars(ProcessNext \/ ProcessStopped)
  /\ WF_vars(TimerFires)
  /\ \A j \in Job :
       /\ WF_vars(HandlerSucceeds(j) \/ HandlerFailsRetried(j) \/ HandlerFailsForGood(j))
       /\ WF_vars(BecomesDue(j))

FairSpec == Spec /\ Fairness

-----------------------------------------------------------------------------
(* Properties *)

\* Every variable has its type.
TypeOK ==
  /\ running \in BOOLEAN /\ processing \in BOOLEAN /\ timer \in BOOLEAN
  /\ pending \subseteq Job /\ due \subseteq pending
  /\ executing \subseteq Handled
  /\ inFlight \subseteq Ids(Job)
  /\ attempts \in [Job -> Nat]
  /\ status \in [Job -> Status]
  /\ deadLetter \subseteq Job /\ Cardinality(deadLetter) <= DeadLetterMax

\* Jobs that share their id with no other job.
Own == {j \in Job : \A i \in Job : Id[i] = Id[j] => i = j}

\* No interleaving of failures, retries and stops loses a job or keeps it twice:
\* its status tells where it is, and it is given up only without a handler or
\* after maxAttempts retries.
JobsAreSomewhere ==
  /\ pending = {j \in Job : status[j] = "queued"}
  /\ executing = {j \in Job : status[j] = "running"}
  /\ deadLetter \subseteq {j \in Job : status[j] = "dead"}
  /\ \A j \in Job :
       /\ attempts[j] <= MaxAttempts[j] + 1
       /\ (status[j] = "dead" /\ j \in Handled) => attempts[j] = MaxAttempts[j] + 1
       /\ status[j] = "completed" => attempts[j] >= 1

\* Whatever jobs that share an id do to inFlight, no more than Concurrency of the
\* other handlers are under way.
LimitHolds == Cardinality(executing \cap Own) <= Concurrency

\* Retries may take the queue over its limit, but never by more than the jobs
\* that can be under way.
QueueBounded ==
  Cardinality(pending \cap Own) + Cardinality(executing \cap Own)
    <= MaxQueueSize + Concurrency

\* A running queue with waiting jobs has something that will wake it, whatever
\* starts, stops and callbacks came before.
NoLostWakeup == running /\ pending # {} => processing \/ timer

\* A queue that is running for good settles every job it accepted, also when
\* jobs share an id.
JobsSettle ==
  <>[]running =>
    \A j \in Job : (status[j] = "queued" ~> status[j] \in {"completed", "dead"})
=============================================================================
