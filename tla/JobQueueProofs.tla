---------------------------- MODULE JobQueueProofs ----------------------------
(***************************************************************************)
(* The job queue for any number of jobs, slots and retries: no job is      *)
(* lost, both limits hold, and no wake-up is lost.                         *)
(*                                                                         *)
(* The inductive invariant adds to the properties that inFlight holds the  *)
(* ids of the executing jobs that share theirs with no other job, which    *)
(* turns the loop's test on inFlight.size into a bound on their handlers.  *)
(***************************************************************************)
EXTENDS JobQueue, FiniteSetTheorems, TLAPS

InFlightHolds == Ids(executing \cap Own) \subseteq inFlight

\* The attempts of a job that is not settled yet.
Tried ==
  \A j \in Job : /\ status[j] = "new" => attempts[j] = 0
                 /\ status[j] = "queued" => attempts[j] <= MaxAttempts[j]
                 /\ status[j] = "running" => attempts[j] >= 1

IInv == TypeOK /\ JobsAreSomewhere /\ Tried
        /\ NoLostWakeup /\ InFlightHolds /\ LimitHolds /\ QueueBounded

\* Sets of jobs are finite.
LEMMA JobsFinite ==
  ASSUME NEW S \in SUBSET Job
  PROVE  IsFiniteSet(S) /\ Cardinality(S) \in Nat
  BY FS_Subset, FS_CardinalityType, JobQueueAssumption

LEMMA IdsFinite == IsFiniteSet(Ids(Job))
<1> DEFINE f == [j \in Job |-> Id[j]]
<1>1. f \in Surjection(Job, Ids(Job))
  BY DEF Surjection, Ids
<1> HIDE DEF f
<1> QED
  BY <1>1, FS_Surjection, JobQueueAssumption

LEMMA OneMore ==
  ASSUME NEW S, IsFiniteSet(S), NEW x
  PROVE  /\ IsFiniteSet(S \cup {x})
         /\ Cardinality(S) \in Nat /\ Cardinality(S \cup {x}) \in Nat
         /\ Cardinality(S \cup {x}) <= Cardinality(S) + 1
<1>1. Cardinality(S) \in Nat
  BY FS_CardinalityType
<1>2. /\ IsFiniteSet(S \cup {x})
      /\ Cardinality(S \cup {x}) = IF x \in S THEN Cardinality(S) ELSE Cardinality(S) + 1
  BY FS_AddElement
<1> QED
  BY <1>1, <1>2

\* There are as many ids as jobs that share none.
LEMMA AsManyIds ==
  ASSUME NEW S \in SUBSET Own
  PROVE  IsFiniteSet(Ids(S)) /\ Cardinality(S) <= Cardinality(Ids(S))
<1> DEFINE f == [j \in S |-> Id[j]]
<1>1. IsFiniteSet(S)
  BY JobsFinite DEF Own
<1>2. f \in Surjection(S, Ids(S))
  BY DEF Surjection, Ids
<1>3. f \in Injection(S, Ids(S))
  BY DEF Injection, IsInjective, Own, Ids
<1>4. IsFiniteSet(Ids(S))
  BY <1>1, <1>2, FS_Surjection
<1> HIDE DEF f
<1> QED
  BY <1>3, <1>4, FS_Injection

\* The loop of processNext takes the handlers to the limit and no further.
LEMMA TakesWithinLimit ==
  ASSUME InFlightHolds, inFlight \in SUBSET Ids(Job), executing \in SUBSET Job,
         Cardinality(executing \cap Own) <= Concurrency,
         NEW taken \in SUBSET Job, Takes(taken)
  PROVE  Cardinality((executing \cup (taken \cap Handled)) \cap Own) <= Concurrency
<1> DEFINE started == taken \cap Handled
<1>1. CASE taken = {}
  BY <1>1
<1>2. CASE taken # {}
  <2>1. PICK last \in taken :
          Cardinality(inFlight \cup Ids((taken \cap Handled) \ {last})) < Concurrency
    BY <1>2 DEF Takes
  <2> DEFINE before == (executing \cup (started \ {last})) \cap Own
             slots == inFlight \cup Ids((taken \cap Handled) \ {last})
  <2>2. before \in SUBSET Own /\ before \in SUBSET Job
    OBVIOUS
  <2>3. IsFiniteSet(before) /\ Cardinality(before) \in Nat
    BY <2>2, JobsFinite
  <2>4. Cardinality(before) <= Cardinality(Ids(before)) /\ IsFiniteSet(Ids(before))
    BY <2>2, AsManyIds
  <2>5. Ids(before) \subseteq slots
    BY SMT DEF InFlightHolds, Ids
  <2>6. IsFiniteSet(slots)
    <3>1. slots \subseteq Ids(Job)
      BY DEF Ids
    <3> QED
      BY <3>1, IdsFinite, FS_Subset
  <2>7. Cardinality(Ids(before)) <= Cardinality(slots)
        /\ Cardinality(Ids(before)) \in Nat /\ Cardinality(slots) \in Nat
    BY <2>4, <2>5, <2>6, FS_Subset, FS_CardinalityType
  <2>8. Cardinality(slots) < Concurrency
    BY <2>1, Zenon
  <2>9. (executing \cup started) \cap Own \in SUBSET (before \cup {last})
    OBVIOUS
  <2>10. (executing \cup started) \cap Own \in SUBSET Job
    OBVIOUS
  <2> HIDE DEF before, slots
  <2>11. Cardinality(before) < Concurrency
    BY <2>3, <2>4, <2>7, <2>8, JobQueueAssumption
  <2>12. /\ IsFiniteSet(before \cup {last})
         /\ Cardinality(before \cup {last}) \in Nat
         /\ Cardinality(before \cup {last}) <= Cardinality(before) + 1
    BY <2>3, OneMore
  <2>13. Cardinality((executing \cup started) \cap Own) <= Cardinality(before \cup {last})
    BY <2>12, <2>9, FS_Subset
  <2>14. Cardinality((executing \cup started) \cap Own) \in Nat
    BY <2>10, JobsFinite
  <2> QED
    BY <2>3, <2>11, <2>12, <2>13, <2>14, JobQueueAssumption
<1> QED
  BY <1>1, <1>2

LEMMA DeadLettersTyped ==
  ASSUME NEW jobs \in SUBSET Job, deadLetter \in SUBSET Job,
         NEW kept \in DeadLetterWith(jobs)
  PROVE  kept \subseteq deadLetter \cup jobs /\ Cardinality(kept) <= DeadLetterMax
<1>1. Cardinality(deadLetter \cup jobs) \in Nat
  BY JobsFinite
<1> QED
  BY <1>1, JobQueueAssumption DEF DeadLetterWith, Smaller

LEMMA AttemptsTyped ==
  ASSUME TypeOK, NEW j \in Job
  PROVE  attempts[j] \in Nat /\ MaxAttempts[j] \in Nat
  BY JobQueueAssumption DEF TypeOK

-----------------------------------------------------------------------------

LEMMA InitHolds == Init => IInv
<1> SUFFICES ASSUME Init PROVE IInv
  OBVIOUS
<1> USE DEF Init
<1>1. TypeOK
  <2>1. attempts \in [Job -> Nat] /\ status \in [Job -> Status]
    BY DEF Status
  <2>2. Cardinality(deadLetter) <= DeadLetterMax
    BY FS_EmptySet, JobQueueAssumption
  <2> QED
    BY <2>1, <2>2 DEF TypeOK
<1>2. JobsAreSomewhere
  BY JobQueueAssumption DEF JobsAreSomewhere
<1>3. NoLostWakeup /\ InFlightHolds /\ Tried
  BY DEF NoLostWakeup, InFlightHolds, Tried, Ids
<1>4. LimitHolds /\ QueueBounded
  BY FS_EmptySet, JobQueueAssumption DEF LimitHolds, QueueBounded
<1> QED
  BY <1>1, <1>2, <1>3, <1>4 DEF IInv

\* Steps that move no job.
LEMMA QuietStep ==
  ASSUME IInv, Start \/ Stop \/ ProcessStopped \/ TimerFires \/ UNCHANGED vars
  PROVE  IInv'
<1>1. UNCHANGED <<pending, due, executing, inFlight, attempts, status, deadLetter>>
  BY DEF Start, Stop, ProcessStopped, TimerFires, vars
<1>2. running' \in BOOLEAN /\ processing' \in BOOLEAN /\ timer' \in BOOLEAN
  BY DEF IInv, TypeOK, Start, Stop, ProcessStopped, TimerFires, Schedule, vars
<1>3. NoLostWakeup'
  BY DEF IInv, NoLostWakeup, Start, Stop, ProcessStopped, TimerFires, Schedule, vars
<1>4. TypeOK'
  BY <1>1, <1>2 DEF IInv, TypeOK
<1> QED
  BY <1>1, <1>3, <1>4
     DEF IInv, JobsAreSomewhere, Tried, InFlightHolds, LimitHolds, QueueBounded

LEMMA BecomesDueStep ==
  ASSUME IInv, NEW j \in Job, BecomesDue(j)
  PROVE  IInv'
  BY DEF IInv, BecomesDue, TypeOK, JobsAreSomewhere, Tried, NoLostWakeup,
         InFlightHolds, LimitHolds, QueueBounded

LEMMA EnqueueStep ==
  ASSUME IInv, NEW j \in Job, Enqueue(j)
  PROVE  IInv'
<1> USE DEF IInv, Enqueue
<1>1. TypeOK'
  BY DEF TypeOK, Status, Schedule
<1>2. JobsAreSomewhere' /\ Tried'
  <2>1. attempts[j] = 0 /\ MaxAttempts[j] \in Nat
    BY AttemptsTyped DEF Tried
  <2> QED
    BY <2>1 DEF TypeOK, JobsAreSomewhere, Tried
<1>3. NoLostWakeup'
  BY DEF NoLostWakeup, Schedule, TypeOK
<1>4. QueueBounded'
  <2>1. /\ IsFiniteSet(pending) /\ Cardinality(pending) \in Nat
        /\ IsFiniteSet(pending \cap Own) /\ Cardinality(pending \cap Own) \in Nat
        /\ Cardinality(executing \cap Own) \in Nat
    BY JobsFinite, JobQueueAssumption DEF TypeOK, Own
  <2>2. Cardinality(pending \cap Own) <= Cardinality(pending)
    BY <2>1, FS_Subset
  <2>3. /\ IsFiniteSet((pending \cap Own) \cup {j})
        /\ Cardinality((pending \cap Own) \cup {j}) <= Cardinality(pending \cap Own) + 1
        /\ Cardinality((pending \cap Own) \cup {j}) \in Nat
    BY <2>1, OneMore
  <2>4. /\ Cardinality((pending \cup {j}) \cap Own) <= Cardinality((pending \cap Own) \cup {j})
        /\ Cardinality((pending \cup {j}) \cap Own) \in Nat
    BY <2>3, FS_Subset, FS_CardinalityType
  <2>5. /\ pending' = pending \cup {j} /\ executing' = executing
        /\ Cardinality(pending) < MaxQueueSize
        /\ Cardinality(executing \cap Own) <= Concurrency
    BY DEF LimitHolds
  <2>6. Cardinality((pending \cup {j}) \cap Own) + Cardinality(executing \cap Own)
          <= MaxQueueSize + Concurrency
    BY <2>1, <2>2, <2>3, <2>4, <2>5, JobQueueAssumption
  <2> QED
    BY <2>5, <2>6 DEF QueueBounded
<1> QED
  BY <1>1, <1>2, <1>3, <1>4 DEF InFlightHolds, LimitHolds

LEMMA EnqueueOverflowsStep ==
  ASSUME IInv, NEW j \in Job, EnqueueOverflows(j)
  PROVE  IInv'
<1> USE DEF IInv, EnqueueOverflows
<1>1. TypeOK'
  BY DEF TypeOK, Status
<1>2. JobsAreSomewhere' /\ Tried'
  BY DEF TypeOK, JobsAreSomewhere, Tried
<1> QED
  BY <1>1, <1>2 DEF NoLostWakeup, InFlightHolds, LimitHolds, QueueBounded

\* What every executeJob leaves behind when its handler settles.
LEMMA FinishStep ==
  ASSUME IInv, NEW j \in executing, Finish(j)
  PROVE  /\ executing' \subseteq Handled /\ inFlight' \subseteq Ids(Job)
         /\ processing' \in BOOLEAN
         /\ InFlightHolds'
         /\ Cardinality(executing' \cap Own) \in Nat /\ Cardinality(executing \cap Own) \in Nat
         /\ Cardinality(executing' \cap Own)
              = Cardinality(executing \cap Own) - (IF j \in Own THEN 1 ELSE 0)
<1> USE DEF IInv, Finish
<1>1. executing \in SUBSET Job /\ executing \subseteq Handled
  BY JobQueueAssumption DEF TypeOK
<1>2. processing' \in BOOLEAN
  BY DEF TypeOK, Schedule
<1>3. InFlightHolds'
  <2>1. Ids(executing \cap Own) \subseteq inFlight
    BY DEF InFlightHolds
  <2>2. \A i \in executing \cap Own : Id[i] = Id[j] => i = j
    BY <1>1 DEF Own
  <2>3. Ids((executing \ {j}) \cap Own) \subseteq inFlight \ {Id[j]}
    BY <2>1, <2>2 DEF Ids
  <2> QED
    BY <2>3 DEF InFlightHolds
<1> DEFINE busy == executing \cap Own
           left == (executing \ {j}) \cap Own
<1>4. /\ IsFiniteSet(busy) /\ Cardinality(busy) \in Nat
      /\ IsFiniteSet(left) /\ Cardinality(left) \in Nat
  BY <1>1, JobsFinite
<1>5. Cardinality(left) = Cardinality(busy) - (IF j \in Own THEN 1 ELSE 0)
  <2>1. /\ j \in Own => left = busy \ {j} /\ j \in busy
        /\ j \notin Own => left = busy
    OBVIOUS
  <2>2. j \in Own => Cardinality(busy \ {j}) = Cardinality(busy) - 1
    BY <1>4, <2>1, FS_RemoveElement
  <2>3. CASE j \in Own
    <3>1. left = busy \ {j}
      BY <2>3, <2>1
    <3>2. Cardinality(left) = Cardinality(busy) - 1
      BY <2>3, <2>2, <3>1, Zenon
    <3> QED
      BY <2>3, <3>2
  <2>4. CASE j \notin Own
    <3>1. Cardinality(left) = Cardinality(busy)
      BY <2>4, <2>1, Zenon
    <3> HIDE DEF left, busy
    <3> QED
      BY <2>4, <3>1, <1>4
  <2> QED
    BY <2>3, <2>4
<1>6. executing' \cap Own = left
  OBVIOUS
<1>7. executing' \subseteq Handled /\ inFlight' \subseteq Ids(Job)
  BY <1>1 DEF TypeOK
<1> HIDE DEF left
<1> QED
  BY <1>2, <1>3, <1>4, <1>5, <1>6, <1>7

LEMMA HandlerSucceedsStep ==
  ASSUME IInv, NEW j \in Job, HandlerSucceeds(j)
  PROVE  IInv'
<1> USE DEF IInv, HandlerSucceeds
<1>1. /\ executing' \subseteq Handled /\ inFlight' \subseteq Ids(Job)
      /\ processing' \in BOOLEAN
      /\ InFlightHolds'
      /\ Cardinality(executing' \cap Own) \in Nat /\ Cardinality(executing \cap Own) \in Nat
      /\ Cardinality(executing' \cap Own)
           = Cardinality(executing \cap Own) - (IF j \in Own THEN 1 ELSE 0)
  BY FinishStep
<1>2. TypeOK'
  BY <1>1 DEF TypeOK, Status
<1>3. JobsAreSomewhere' /\ Tried'
  <2>1. executing' = {i \in Job : status'[i] = "running"}
        /\ pending' = {i \in Job : status'[i] = "queued"}
        /\ deadLetter' \subseteq {i \in Job : status'[i] = "dead"}
    BY DEF TypeOK, JobsAreSomewhere, Finish
  <2>2. attempts[j] >= 1
    BY DEF TypeOK, JobsAreSomewhere, Tried
  <2> QED
    BY <2>1, <2>2 DEF TypeOK, JobsAreSomewhere, Tried
<1>4. NoLostWakeup'
  BY DEF NoLostWakeup, Finish, Schedule
<1>5. LimitHolds' /\ QueueBounded'
  <2>1. Cardinality(pending \cap Own) \in Nat
    BY JobsFinite DEF TypeOK, Own
  <2> QED
    BY <2>1, <1>1, JobQueueAssumption DEF LimitHolds, QueueBounded
<1> QED
  BY <1>1, <1>2, <1>3, <1>4, <1>5

LEMMA HandlerFailsRetriedStep ==
  ASSUME IInv, NEW j \in Job, HandlerFailsRetried(j)
  PROVE  IInv'
<1> USE DEF IInv, HandlerFailsRetried
<1>1. /\ executing' \subseteq Handled /\ inFlight' \subseteq Ids(Job)
      /\ processing' \in BOOLEAN
      /\ InFlightHolds'
      /\ Cardinality(executing' \cap Own) \in Nat /\ Cardinality(executing \cap Own) \in Nat
      /\ Cardinality(executing' \cap Own)
           = Cardinality(executing \cap Own) - (IF j \in Own THEN 1 ELSE 0)
  BY FinishStep
<1>2. TypeOK'
  BY <1>1 DEF TypeOK, Status
<1>3. JobsAreSomewhere' /\ Tried'
  <2>1. executing' = {i \in Job : status'[i] = "running"}
        /\ pending' = {i \in Job : status'[i] = "queued"}
        /\ deadLetter' \subseteq {i \in Job : status'[i] = "dead"}
    BY DEF TypeOK, JobsAreSomewhere, Finish
  <2>2. attempts[j] <= MaxAttempts[j]
    BY DEF Retries
  <2> QED
    BY <2>1, <2>2 DEF TypeOK, JobsAreSomewhere, Tried
<1>4. NoLostWakeup'
  BY DEF NoLostWakeup, Finish, Schedule
<1>5. LimitHolds' /\ QueueBounded'
  <2> DEFINE waiting == pending \cap Own
             waiting2 == (pending \cup {j}) \cap Own
  <2>1. IsFiniteSet(waiting) /\ Cardinality(waiting) \in Nat
    BY JobsFinite DEF TypeOK, Own
  <2>2. /\ IsFiniteSet(waiting \cup {j}) /\ Cardinality(waiting \cup {j}) \in Nat
        /\ Cardinality(waiting \cup {j}) <= Cardinality(waiting) + 1
    BY <2>1, OneMore
  <2>3. /\ j \in Own => waiting2 = waiting \cup {j}
        /\ j \notin Own => waiting2 = waiting
    OBVIOUS
  <2>4. /\ Cardinality(waiting2) \in Nat
        /\ Cardinality(waiting2) <= Cardinality(waiting) + (IF j \in Own THEN 1 ELSE 0)
    <3>1. CASE j \in Own
      <4>1. waiting2 = waiting \cup {j}
        BY <3>1, <2>3
      <4> HIDE DEF waiting, waiting2
      <4> QED
        BY <3>1, <4>1, <2>2
    <3>2. CASE j \notin Own
      <4>1. waiting2 = waiting
        BY <3>2, <2>3
      <4> HIDE DEF waiting, waiting2
      <4> QED
        BY <3>2, <4>1, <2>1
    <3> QED
      BY <3>1, <3>2
  <2>5. /\ Cardinality(waiting) + Cardinality(executing \cap Own) <= MaxQueueSize + Concurrency
        /\ Cardinality(executing \cap Own) <= Concurrency
    BY DEF QueueBounded, LimitHolds
  <2>6. /\ Cardinality(waiting2) + Cardinality(executing' \cap Own) <= MaxQueueSize + Concurrency
        /\ Cardinality(executing' \cap Own) <= Concurrency
    <3> HIDE DEF waiting, waiting2
    <3> QED
      BY <2>1, <2>4, <2>5, <1>1, JobQueueAssumption
  <2> QED
    BY <2>6 DEF LimitHolds, QueueBounded
<1> QED
  BY <1>1, <1>2, <1>3, <1>4, <1>5

LEMMA HandlerFailsForGoodStep ==
  ASSUME IInv, NEW j \in Job, HandlerFailsForGood(j)
  PROVE  IInv'
<1> USE DEF IInv, HandlerFailsForGood
<1>1. /\ executing' \subseteq Handled /\ inFlight' \subseteq Ids(Job)
      /\ processing' \in BOOLEAN
      /\ InFlightHolds'
      /\ Cardinality(executing' \cap Own) \in Nat /\ Cardinality(executing \cap Own) \in Nat
      /\ Cardinality(executing' \cap Own)
           = Cardinality(executing \cap Own) - (IF j \in Own THEN 1 ELSE 0)
  BY FinishStep
<1>2. deadLetter' \subseteq deadLetter \cup {j} /\ Cardinality(deadLetter') <= DeadLetterMax
  BY DeadLettersTyped DEF TypeOK
<1>3. TypeOK'
  BY <1>1, <1>2 DEF TypeOK, Status
<1>4. JobsAreSomewhere' /\ Tried'
  <2>1. executing' = {i \in Job : status'[i] = "running"}
        /\ pending' = {i \in Job : status'[i] = "queued"}
    BY DEF TypeOK, JobsAreSomewhere, Finish
  <2>2. deadLetter' \subseteq {i \in Job : status'[i] = "dead"}
    BY <1>2 DEF TypeOK, JobsAreSomewhere
  <2>3. attempts[j] = MaxAttempts[j] + 1
    BY AttemptsTyped DEF JobsAreSomewhere, Retries
  <2> QED
    BY <2>1, <2>2, <2>3 DEF TypeOK, JobsAreSomewhere, Tried
<1>5. NoLostWakeup'
  BY DEF NoLostWakeup, Finish, Schedule
<1>6. LimitHolds' /\ QueueBounded'
  <2>1. Cardinality(pending \cap Own) \in Nat
    BY JobsFinite DEF TypeOK, Own
  <2> QED
    BY <2>1, <1>1, JobQueueAssumption DEF LimitHolds, QueueBounded
<1> QED
  BY <1>1, <1>3, <1>4, <1>5, <1>6

LEMMA ProcessNextStep ==
  ASSUME IInv, ProcessNext
  PROVE  IInv'
<1> USE DEF IInv
<1>1. PICK taken \in SUBSET due :
        /\ Takes(taken)
        /\ pending' = pending \ taken
        /\ due' = due \ taken
        /\ executing' = executing \cup (taken \cap Handled)
        /\ inFlight' = inFlight \cup Ids(taken \cap Handled)
        /\ attempts' = [j \in Job |-> IF j \in taken \cap Handled
                                      THEN attempts[j] + 1 ELSE attempts[j]]
        /\ status' = [j \in Job |-> IF j \in taken \cap Handled THEN "running"
                                    ELSE IF j \in taken \ Handled THEN "dead"
                                    ELSE status[j]]
        /\ deadLetter' \in DeadLetterWith(taken \ Handled)
        /\ timer' = (timer \/ pending' # {})
  BY Zenon DEF ProcessNext
<1>2. running' = running /\ processing' = FALSE /\ running
  BY DEF ProcessNext
<1>3. taken \in SUBSET Job /\ taken \subseteq pending /\ executing \in SUBSET Job
  BY JobQueueAssumption DEF TypeOK
<1>4. /\ deadLetter' \subseteq deadLetter \cup (taken \ Handled)
      /\ Cardinality(deadLetter') <= DeadLetterMax
  <2>1. taken \ Handled \in SUBSET Job /\ deadLetter \in SUBSET Job
    BY <1>3 DEF TypeOK
  <2> QED
    BY <1>1, <2>1, DeadLettersTyped
<1>5. TypeOK'
  <2>1. attempts' \in [Job -> Nat] /\ status' \in [Job -> Status]
    BY <1>1 DEF TypeOK, Status
  <2>2. executing' \subseteq Handled /\ inFlight' \subseteq Ids(Job)
    BY <1>1, <1>3 DEF TypeOK, Ids
  <2>3. /\ running' \in BOOLEAN /\ processing' \in BOOLEAN /\ timer' \in BOOLEAN
        /\ pending' \subseteq Job /\ due' \subseteq pending'
        /\ deadLetter' \subseteq Job
    BY <1>1, <1>2, <1>3, <1>4 DEF TypeOK
  <2> QED
    BY <2>1, <2>2, <2>3, <1>4 DEF TypeOK
<1>6. JobsAreSomewhere' /\ Tried'
  <2>1. \A j \in taken : status[j] = "queued"
    BY <1>3 DEF JobsAreSomewhere
  <2>2. \A j \in Job :
          /\ j \in taken /\ j \in Handled =>
               status'[j] = "running" /\ attempts'[j] = attempts[j] + 1
          /\ j \in taken /\ j \notin Handled =>
               status'[j] = "dead" /\ attempts'[j] = attempts[j]
          /\ j \notin taken => status'[j] = status[j] /\ attempts'[j] = attempts[j]
    BY <1>1
  <2>3. pending' = {j \in Job : status'[j] = "queued"}
    BY <1>1, <1>3, <2>2 DEF JobsAreSomewhere
  <2>4. executing' = {j \in Job : status'[j] = "running"}
    BY <1>1, <1>3, <2>1, <2>2 DEF JobsAreSomewhere
  <2>5. deadLetter' \subseteq {j \in Job : status'[j] = "dead"}
    <3>1. \A j \in deadLetter : j \in Job /\ status[j] = "dead" /\ j \notin taken
      BY <2>1 DEF JobsAreSomewhere
    <3> QED
      BY <1>3, <1>4, <2>2, <3>1
  <2>6. \A j \in taken : attempts[j] <= MaxAttempts[j]
    BY <1>3, <2>1 DEF Tried
  <2>8. \A j \in Job : j \notin taken =>
          /\ attempts[j] <= MaxAttempts[j] + 1
          /\ (status[j] = "dead" /\ j \in Handled) => attempts[j] = MaxAttempts[j] + 1
          /\ status[j] = "completed" => attempts[j] >= 1
    BY DEF JobsAreSomewhere
  <2>7. ASSUME NEW j \in Job
        PROVE  /\ attempts'[j] <= MaxAttempts[j] + 1
               /\ (status'[j] = "dead" /\ j \in Handled) => attempts'[j] = MaxAttempts[j] + 1
               /\ status'[j] = "completed" => attempts'[j] >= 1
               /\ status'[j] = "new" => attempts'[j] = 0
               /\ status'[j] = "queued" => attempts'[j] <= MaxAttempts[j]
               /\ status'[j] = "running" => attempts'[j] >= 1
    <3>1. attempts[j] \in Nat /\ MaxAttempts[j] \in Nat
      BY AttemptsTyped
    <3>2. CASE j \in taken /\ j \in Handled
      BY <3>1, <3>2, <2>2, <2>6
    <3>3. CASE j \in taken /\ j \notin Handled
      BY <3>1, <3>3, <2>2, <2>6
    <3>4. CASE j \notin taken
      BY <3>1, <3>4, <2>2, <2>8 DEF Tried
    <3> QED
      BY <3>2, <3>3, <3>4
  <2> QED
    BY <2>3, <2>4, <2>5, <2>7 DEF JobsAreSomewhere, Tried
<1>7. NoLostWakeup'
  BY <1>1 DEF NoLostWakeup
<1>8. InFlightHolds'
  BY <1>1 DEF InFlightHolds, Ids
<1>9. LimitHolds' /\ QueueBounded'
  <2> DEFINE started == (taken \cap Handled) \cap Own
             before == executing \cap Own
             after == (executing \cup (taken \cap Handled)) \cap Own
             waiting == pending \cap Own
             left == (pending \ taken) \cap Own
  <2>1. Cardinality(after) <= Concurrency
    BY <1>1, <1>3, TakesWithinLimit DEF TypeOK, LimitHolds
  <2>2. /\ started \in SUBSET Job /\ before \in SUBSET Job /\ after \in SUBSET Job
        /\ waiting \in SUBSET Job /\ left \in SUBSET Job
    BY DEF Own
  <2>3. /\ IsFiniteSet(started) /\ IsFiniteSet(before) /\ IsFiniteSet(after)
        /\ IsFiniteSet(waiting) /\ IsFiniteSet(left)
        /\ Cardinality(started) \in Nat /\ Cardinality(before) \in Nat
        /\ Cardinality(after) \in Nat
        /\ Cardinality(waiting) \in Nat /\ Cardinality(left) \in Nat
    BY <2>2, JobsFinite
  <2>4. /\ after = before \cup started
        /\ left \cup started \in SUBSET waiting /\ left \cap started = {}
    BY <1>3
  <2>5. /\ executing' \cap Own = after /\ pending' \cap Own = left
        /\ Cardinality(waiting) + Cardinality(before) <= MaxQueueSize + Concurrency
    BY <1>1 DEF QueueBounded
  <2> HIDE DEF started, before, after, waiting, left
  <2>6. Cardinality(after) <= Cardinality(before) + Cardinality(started)
    <3>1. Cardinality(before \cup started)
            = Cardinality(before) + Cardinality(started) - Cardinality(before \cap started)
      BY <2>3, FS_Union
    <3>2. before \cap started \in SUBSET Job
      BY <2>2
    <3>3. Cardinality(before \cap started) \in Nat
      BY <3>2, JobsFinite
    <3> QED
      BY <3>1, <3>3, <2>3, <2>4
  <2>7. Cardinality(left) + Cardinality(started) <= Cardinality(waiting)
    <3>1. Cardinality(left \cup started)
            = Cardinality(left) + Cardinality(started) - Cardinality(left \cap started)
      BY <2>3, FS_Union
    <3>2. Cardinality(left \cap started) = 0
      BY <2>4, FS_EmptySet, Zenon
    <3>3. Cardinality(left \cup started) <= Cardinality(waiting)
      BY <2>3, <2>4, FS_Subset
    <3>4. left \cup started \in SUBSET Job
      BY <2>2
    <3>5. Cardinality(left \cup started) \in Nat
      BY <3>4, JobsFinite
    <3> QED
      BY <3>1, <3>2, <3>3, <3>5, <2>3
  <2>8. Cardinality(left) + Cardinality(after) <= MaxQueueSize + Concurrency
    BY <2>3, <2>5, <2>6, <2>7, JobQueueAssumption
  <2> QED
    BY <2>1, <2>5, <2>8, Zenon DEF LimitHolds, QueueBounded
<1> QED
  BY <1>5, <1>6, <1>7, <1>8, <1>9

-----------------------------------------------------------------------------

LEMMA NextStep == IInv /\ [Next]_vars => IInv'
<1> SUFFICES ASSUME IInv, [Next]_vars PROVE IInv'
  OBVIOUS
<1>1. CASE Start \/ Stop \/ ProcessStopped \/ TimerFires \/ UNCHANGED vars
  BY <1>1, QuietStep
<1>2. CASE ProcessNext
  BY <1>2, ProcessNextStep
<1>3. ASSUME NEW j \in Job,
             \/ Enqueue(j) \/ EnqueueOverflows(j) \/ BecomesDue(j)
             \/ HandlerSucceeds(j) \/ HandlerFailsRetried(j) \/ HandlerFailsForGood(j)
      PROVE  IInv'
  BY <1>3, EnqueueStep, EnqueueOverflowsStep, BecomesDueStep, HandlerSucceedsStep,
     HandlerFailsRetriedStep, HandlerFailsForGoodStep
<1> QED
  BY <1>1, <1>2, <1>3 DEF Next

\* The inductive invariant holds in every reachable state.
THEOREM Invariant == Spec => []IInv
  BY InitHolds, NextStep, PTL DEF Spec

\* Every reachable state of the queue is well formed.
THEOREM TypeCorrect == Spec => []TypeOK
<1>1. IInv => TypeOK
  BY DEF IInv
<1> QED
  BY <1>1, Invariant, PTL

\* No job is lost, kept twice or given up early (job-queue.js, executeJob).
THEOREM NothingIsLost == Spec => []JobsAreSomewhere
<1>1. IInv => JobsAreSomewhere
  BY DEF IInv
<1> QED
  BY <1>1, Invariant, PTL

\* The limits of concurrency (processNext) and of the queue (enqueue and retry).
THEOREM LimitsHold == Spec => [](LimitHolds /\ QueueBounded)
<1>1. IInv => LimitHolds /\ QueueBounded
  BY DEF IInv
<1> QED
  BY <1>1, Invariant, PTL

\* Waiting jobs of a running queue have a wake-up on its way (schedule).
THEOREM WakeupIsKept == Spec => []NoLostWakeup
<1>1. IInv => NoLostWakeup
  BY DEF IInv
<1> QED
  BY <1>1, Invariant, PTL
=============================================================================
