----------------------------- MODULE BridgeProofs -----------------------------
(***************************************************************************)
(* What holds of the EA bridge and of what it feeds for every value of the *)
(* constants: learning, data quality and the answers to terminals,         *)
(* snapshots, the realtime runner, and the market series.  Each has an     *)
(* inductive invariant of its own; the theorems state the properties of    *)
(* Components.                                                             *)
(***************************************************************************)
EXTENDS ServicesProofs, WellFoundedInduction

(***************************************************************************)
(* Learning.  From the third loss of a streak on, each further loss takes  *)
(* the risk of all terminals down by a fifth, from at most 1.5; what a     *)
(* deal without profit does meanwhile takes it down as well.               *)
(***************************************************************************)
RiskAfter(losing, bound) == losses >= MaxLosses + losing => risk <= bound

LearningInv ==
  /\ losses \in Nat /\ wins \in Nat /\ risk \in Int
  /\ risk <= 1500
  /\ RiskAfter(0, 1200) /\ RiskAfter(1, 960) /\ RiskAfter(2, 768) /\ RiskAfter(3, 614)

LEMMA RiskIsAdjusted ==
  ASSUME NEW r \in Int, r <= 1500
  PROVE  /\ Learning!AtMost((r * 11) \div 10, 1500) \in Int
         /\ Learning!AtMost((r * 11) \div 10, 1500) <= 1500
         /\ (r * 95 + 5000) \div 100 \in Int /\ (r * 95 + 5000) \div 100 <= 1500
         /\ LET low == Learning!AtLeast((r * 8) \div 10, 500) IN
            /\ low \in Int /\ low <= 1200
            /\ r <= 1200 => low <= 960
            /\ r <= 960 => low <= 768
            /\ r <= 768 => low <= 614
            /\ r <= 614 => low <= 614
  BY DEF Learning!AtMost, Learning!AtLeast

LEMMA LearningInvariant == Learning!Spec => []LearningInv
<1>1. Learning!Init => LearningInv
  BY LearningAssumption DEF Learning!Init, LearningInv, RiskAfter
<1>2. LearningInv /\ [Learning!Next]_Learning!learnVars => LearningInv'
  <2> SUFFICES ASSUME LearningInv, [Learning!Next]_Learning!learnVars PROVE LearningInv'
    OBVIOUS
  <2>1. ASSUME losses' = losses, wins' = wins, risk' = risk PROVE LearningInv'
    BY <2>1 DEF LearningInv, RiskAfter
  <2>2. ASSUME NEW s \in Session, NEW profit \in {-1, 0, 1}, Learning!Transaction(s, profit)
        PROVE  LearningInv'
    <3>1. losses' \in Nat /\ wins' \in Nat /\ losses' <= losses + 1
      BY <2>2 DEF Learning!Transaction, LearningInv
    <3>2. risk' = Learning!NewRisk(wins', losses')
      BY <2>2 DEF Learning!Transaction
    <3>3. MaxLosses \in Nat /\ MaxLosses >= 3
      BY LearningAssumption
    <3>4. CASE losses' >= MaxLosses
      <4>1. risk' = Learning!AtLeast((risk * 8) \div 10, 500)
        BY <3>2, <3>4 DEF Learning!NewRisk
      <4>2. losses \in Nat /\ risk \in Int /\ risk <= 1500
        BY DEF LearningInv
      <4>3. risk' \in Int /\ risk' <= 1200
        BY <4>1, <4>2, RiskIsAdjusted
      <4>4. losses' >= MaxLosses + 1 => risk' <= 960
        BY <3>1, <3>3, <4>1, <4>2, RiskIsAdjusted DEF LearningInv, RiskAfter
      <4>5. losses' >= MaxLosses + 2 => risk' <= 768
        BY <3>1, <3>3, <4>1, <4>2, RiskIsAdjusted DEF LearningInv, RiskAfter
      <4>6. losses' >= MaxLosses + 3 => risk' <= 614
        BY <3>1, <3>3, <4>1, <4>2, RiskIsAdjusted DEF LearningInv, RiskAfter
      <4> QED
        BY <3>1, <4>3, <4>4, <4>5, <4>6 DEF LearningInv, RiskAfter
    <3>5. CASE losses' < MaxLosses
      <4>1. risk' \in Int /\ risk' <= 1500
        BY <3>1, <3>2, <3>3, <3>5, RiskIsAdjusted DEF LearningInv, Learning!NewRisk
      <4> QED
        BY <3>1, <3>3, <3>5, <4>1 DEF LearningInv, RiskAfter
    <3> QED
      BY <3>1, <3>3, <3>4, <3>5
  <2> QED
    BY <2>1, <2>2
    DEF Learning!Next, Learning!Connect, Learning!Disconnect, Learning!learnVars
<1>3. QED
  BY <1>1, <1>2, PTL DEF Learning!Spec

\* adjustRiskParameters and shouldEnableTrading (ea-bridge-service.js): by the time a
\* losing streak pauses trading, the risk of every terminal has been lowered.
THEOREM LosingStreaksLowerTheRisk == ComponentsSpec => []PausedRiskIsLow
<1>1. LearningInv => PausedRiskIsLow
  <2> SUFFICES ASSUME LearningInv, losses >= 2 * MaxLosses
               PROVE  risk <= (1500 * 4096) \div 10000
    BY DEF PausedRiskIsLow, Learning!PausedRiskIsLow, Learning!Paused
  <2>1. losses >= MaxLosses + 3
    BY LearningAssumption DEF LearningInv
  <2>2. (1500 * 4096) \div 10000 = 614
    OBVIOUS
  <2> QED
    BY <2>1, <2>2 DEF LearningInv, RiskAfter
<1>2. QED
  BY <1>1, LearningInvariant, PTL DEF ComponentsSpec
-----------------------------------------------------------------------------
(***************************************************************************)
(* Data quality and answers.  While a breaker is open the report blocks.   *)
(* Once a healthy assessment has followed the failure that opened it, with *)
(* none beside it, whoever assesses next began more than the window later: *)
(* the report was used for Ttl first.  And a poll whose pair is no longer  *)
(* followed saw the dashboard drop it.                                     *)
(***************************************************************************)
QualityTypes ==
  /\ now \in Nat /\ breaker \in Int
  /\ streak \in [count : Nat, since : Nat]
  /\ report.at \in Int
  /\ DOMAIN job = Signal
  /\ \A g \in Signal : job[g].at = -1 \/ job[g].at \in Nat

HealthyAreFarApart ==
  Bridge!Open /\ ~overlapped /\ streak.count > 0 =>
    /\ report.at >= streak.since
    /\ \A g \in Signal : Bridge!Assessing(g) => job[g].at - streak.since > Window

QualityInv ==
  /\ QualityTypes
  /\ Bridge!OpenBreakerBlocks
  /\ HealthyAreFarApart
  /\ Bridge!ReenabledOnlyByOverlap

LEMMA QualityConstants ==
  /\ Ttl \in Nat /\ Window \in Nat /\ MinHealthy \in Nat /\ MinScore \in Nat
  /\ Duration \in Nat /\ MaxNow \in Nat /\ Window <= Ttl /\ MinHealthy >= 2
  BY QualityAssumption

LEMMA AssessmentStarts ==
  ASSUME QualityInv, NEW g \in Signal, Bridge!Assess(g)
  PROVE  QualityInv'
<1>1. now' = now /\ streak' = streak /\ report' = report /\ overlapped' = overlapped
      /\ cut' = cut /\ job' = [job EXCEPT ![g] = [at |-> now, breaker |-> Bridge!Open]]
      /\ breaker' = IF breaker > now THEN breaker ELSE 0
  BY Zenon DEF Bridge!Assess, Bridge!Pruned, Bridge!Open
<1>2. DOMAIN job' = Signal /\ job'[g].at = now /\ \A h \in Signal \ {g} : job'[h] = job[h]
  BY <1>1 DEF QualityInv, QualityTypes
<1>3. QualityTypes'
  BY <1>1, <1>2 DEF QualityInv, QualityTypes
<1>4. Bridge!Open' <=> Bridge!Open
  BY <1>1 DEF Bridge!Open, QualityInv, QualityTypes
<1>5. Bridge!OpenBreakerBlocks' /\ Bridge!ReenabledOnlyByOverlap'
  BY <1>1, <1>4 DEF QualityInv, Bridge!OpenBreakerBlocks, Bridge!ReenabledOnlyByOverlap
<1>6. HealthyAreFarApart'
  <2> SUFFICES ASSUME Bridge!Open, ~overlapped, streak.count > 0, NEW h \in Signal,
                      job'[h].at # -1
               PROVE  report.at >= streak.since /\ job'[h].at - streak.since > Window
    <3>1. \A i \in Signal : Bridge!Assessing(i)' <=> job'[i].at # -1
      BY DEF Bridge!Assessing
    <3> QED
      BY <1>1, <1>4, <3>1 DEF HealthyAreFarApart, QualityInv
  <2>1. report.at >= streak.since
    BY DEF QualityInv, HealthyAreFarApart
  <2>2. CASE h = g
    <3>1. report.at = -1 \/ now - report.at > Ttl
      BY QualityConstants
      DEF Bridge!Assess, Bridge!UsesReport, QualityInv, QualityTypes
    <3> QED
      BY <1>2, <2>1, <2>2, <3>1, QualityConstants DEF QualityInv, QualityTypes
  <2>3. CASE h # g
    BY <1>2, <2>1, <2>3 DEF QualityInv, HealthyAreFarApart, Bridge!Assessing
  <2> QED
    BY <2>2, <2>3
<1> QED
  BY <1>3, <1>5, <1>6 DEF QualityInv

LEMMA AssessmentEnds ==
  ASSUME QualityInv, NEW g \in Signal, NEW q \in Quality, Bridge!Finish(g, q)
  PROVE  QualityInv'
<1> DEFINE at == job[g].at
           reenabled == Bridge!Reenabled(g, q)
           trips == Bridge!Trips(q)
           beside_ == \E h \in Signal \ {g} : Bridge!Assessing(h)
<1>1. now' = now /\ at \in Nat /\ report'.at = at
  BY DEF Bridge!Finish, Bridge!Assessing, QualityInv, QualityTypes
<1>2. breaker' = IF reenabled THEN 0 ELSE Bridge!Opened(q)
  BY Zenon DEF Bridge!Finish
<1>3. DOMAIN job' = Signal /\ job'[g].at = -1 /\ \A h \in Signal \ {g} : job'[h] = job[h]
  BY DEF Bridge!Finish, Bridge!Free, QualityInv, QualityTypes
<1>4. streak' = IF ~Bridge!Healthy(q) THEN [count |-> 0, since |-> 0]
                ELSE [count |-> streak.count + 1,
                      since |-> IF streak.count = 0 THEN at ELSE streak.since]
  BY Zenon DEF Bridge!Finish, Bridge!NextStreak
<1>5. overlapped' <=> ~trips /\ (overlapped \/ beside_)
  BY Zenon DEF Bridge!Finish
<1>6. cut' <=> ~trips /\ (cut \/ (reenabled /\ Bridge!Open))
  BY Zenon DEF Bridge!Finish
<1>7. report'.blocks <=> Bridge!Critical(q) \/ (Bridge!Counts(g, q) /\ ~reenabled)
  <2>1. report' = [at |-> at,
                   blocks |-> Bridge!Critical(q) \/ (Bridge!Counts(g, q) /\ ~reenabled)]
    BY Zenon DEF Bridge!Finish
  <2> QED
    BY <2>1, Zenon
<1>8. trips => ~Bridge!Healthy(q)
  BY Zenon DEF Bridge!Trips, Bridge!Healthy, Bridge!Critical
<1>9. reenabled => /\ Bridge!Healthy(q)
                   /\ streak'.count >= MinHealthy /\ at - streak'.since <= Window
  BY Zenon DEF Bridge!Reenabled, Bridge!Finish
<1>10. Bridge!Opened(q) = IF trips THEN now + Duration ELSE IF breaker > now THEN breaker ELSE 0
  BY Zenon DEF Bridge!Opened, Bridge!Pruned, Bridge!Open
<1>11. Bridge!Counts(g, q) <=> Bridge!Opened(q) # 0 \/ job[g].breaker
  BY Zenon DEF Bridge!Counts
<1>12. (Bridge!Open <=> breaker > now) /\ (Bridge!Open' <=> breaker' > now)
  BY <1>1 DEF Bridge!Open
<1>13. /\ now \in Nat /\ breaker \in Int /\ Duration \in Nat
       /\ streak \in [count : Nat, since : Nat]
  BY QualityConstants DEF QualityInv, QualityTypes
<1> HIDE DEF at, reenabled, trips, beside_
<1>14. QualityTypes'
  <2>1. streak' \in [count : Nat, since : Nat]
    BY <1>1, <1>4, <1>13
  <2>2. breaker' \in Int
    BY <1>2, <1>10, <1>13
  <2>3. \A h \in Signal : job'[h].at = -1 \/ job'[h].at \in Nat
    BY <1>3 DEF QualityInv, QualityTypes
  <2> QED
    BY <1>1, <1>3, <1>13, <2>1, <2>2, <2>3 DEF QualityTypes
<1>15. Bridge!Open' => ~reenabled /\ Bridge!Counts(g, q) /\ (trips \/ Bridge!Open)
  BY <1>2, <1>10, <1>11, <1>12, <1>13
<1>16. Bridge!OpenBreakerBlocks'
  BY <1>7, <1>15 DEF Bridge!OpenBreakerBlocks
<1>17. ASSUME Bridge!Open, ~overlapped, streak.count > 0
       PROVE  report.at >= streak.since /\ at - streak.since > Window
              /\ (~beside_ => \A h \in Signal \ {g} : ~Bridge!Assessing(h))
  BY <1>17 DEF QualityInv, HealthyAreFarApart, Bridge!Finish, at, beside_
<1>18. Bridge!ReenabledOnlyByOverlap'
  <2> SUFFICES ASSUME cut', ~overlapped' PROVE FALSE
    BY DEF Bridge!ReenabledOnlyByOverlap
  <2>1. ~trips /\ ~overlapped /\ ~cut
    BY <1>5, <1>6 DEF QualityInv, Bridge!ReenabledOnlyByOverlap
  <2>2. reenabled /\ Bridge!Open
    BY <1>6, <2>1
  <2>3. streak.count > 0 /\ streak'.since = streak.since
    BY <1>4, <1>9, <1>13, <2>2, QualityConstants
  <2>4. at - streak.since > Window /\ at - streak.since <= Window
    BY <1>9, <1>17, <2>1, <2>2, <2>3
  <2> QED
    BY <1>1, <1>13, <2>4, QualityConstants
<1>19. HealthyAreFarApart'
  <2>1. \A h \in Signal : Bridge!Assessing(h)' <=> job'[h].at # -1
    BY DEF Bridge!Assessing
  <2>2. ASSUME Bridge!Open', ~overlapped', streak'.count > 0
        PROVE  report'.at >= streak'.since /\ \A h \in Signal : job'[h].at = -1
    <3>1. Bridge!Healthy(q) /\ ~trips /\ ~overlapped /\ ~beside_ /\ Bridge!Open
      BY <1>4, <1>5, <1>8, <1>15, <2>2
    <3>2. \A h \in Signal : job'[h].at = -1
      BY <1>3, <3>1 DEF beside_, Bridge!Assessing
    <3>3. CASE streak.count = 0
      BY <1>1, <1>4, <3>1, <3>2, <3>3
    <3>4. CASE streak.count > 0
      BY <1>1, <1>4, <1>13, <1>17, <3>1, <3>2, <3>4, QualityConstants
    <3> QED
      BY <1>13, <3>3, <3>4
  <2> QED
    BY <2>1, <2>2 DEF HealthyAreFarApart
<1> QED
  BY <1>14, <1>16, <1>18, <1>19 DEF QualityInv

LEMMA QualityStep == QualityInv /\ [Bridge!Next]_Bridge!qualityVars => QualityInv'
<1> SUFFICES ASSUME QualityInv, [Bridge!Next]_Bridge!qualityVars PROVE QualityInv'
  OBVIOUS
<1>1. ASSUME breaker' = breaker, streak' = streak, report' = report, job' = job,
             overlapped' = overlapped, cut' = cut, now' = now \/ now' = now + 1
      PROVE  QualityInv'
  <2>1. QualityTypes'
    BY <1>1 DEF QualityInv, QualityTypes
  <2>2. Bridge!Open' => Bridge!Open
    BY <1>1 DEF Bridge!Open, QualityInv, QualityTypes
  <2>3. HealthyAreFarApart'
    BY <1>1, <2>2 DEF QualityInv, HealthyAreFarApart, Bridge!Assessing
  <2> QED
    BY <1>1, <2>1, <2>2, <2>3
    DEF QualityInv, Bridge!OpenBreakerBlocks, Bridge!ReenabledOnlyByOverlap
<1>2. CASE Bridge!TimePasses
  BY <1>1, <1>2 DEF Bridge!TimePasses
<1>3. CASE UNCHANGED Bridge!qualityVars
  BY <1>1, <1>3 DEF Bridge!qualityVars
<1> QED
  BY <1>2, <1>3, AssessmentStarts, AssessmentEnds DEF Bridge!Next

\* Who awaits an analysis while the pair is not followed saw it dropped.
DroppedIsNoted == \A p \in asking : ~followed => p \in dropped

AnswerInv == QualityInv /\ DroppedIsNoted

LEMMA AnswerInvariant == Bridge!AnswerSpec => []AnswerInv
<1>1. Bridge!AnswerInit => AnswerInv
  <2> SUFFICES ASSUME Bridge!AnswerInit PROVE AnswerInv
    OBVIOUS
  <2>1. QualityTypes /\ breaker = 0 /\ now = 0 /\ streak.count = 0 /\ asking = {}
    BY DEF Bridge!AnswerInit, Bridge!Init, Bridge!Free, Bridge!NoReport, QualityTypes
  <2>2. ~Bridge!Open
    BY <2>1 DEF Bridge!Open
  <2>3. ~cut
    BY DEF Bridge!AnswerInit, Bridge!Init
  <2> QED
    BY <2>1, <2>2, <2>3 DEF AnswerInv, QualityInv, DroppedIsNoted, HealthyAreFarApart,
       Bridge!OpenBreakerBlocks, Bridge!ReenabledOnlyByOverlap
<1>2. AnswerInv /\ [Bridge!AnswerNext]_Bridge!answerVars => AnswerInv'
  <2> SUFFICES ASSUME AnswerInv, [Bridge!AnswerNext]_Bridge!answerVars PROVE AnswerInv'
    OBVIOUS
  <2>1. QualityInv'
    <3>1. [Bridge!Next]_Bridge!qualityVars
      BY DEF Bridge!AnswerNext, Bridge!answerVars, Bridge!Ask, Bridge!Answer, Bridge!Follow,
             Bridge!GuardTurns
    <3> QED
      BY <3>1, QualityStep DEF AnswerInv
  <2>2. DroppedIsNoted'
    <3>1. ASSUME NEW p \in Asker, NEW ready \in BOOLEAN, Bridge!Ask(p, ready)
          PROVE  DroppedIsNoted'
      BY <3>1 DEF Bridge!Ask, AnswerInv, DroppedIsNoted
    <3>2. ASSUME NEW p \in Asker, NEW executable \in BOOLEAN, Bridge!Answer(p, executable)
          PROVE  DroppedIsNoted'
      BY <3>2 DEF Bridge!Answer, AnswerInv, DroppedIsNoted
    <3>3. ASSUME NEW follows \in BOOLEAN, Bridge!Follow(follows) PROVE DroppedIsNoted'
      BY <3>3 DEF Bridge!Follow, AnswerInv, DroppedIsNoted
    <3>4. CASE Bridge!GuardTurns
      BY <3>4 DEF Bridge!GuardTurns, AnswerInv, DroppedIsNoted
    <3>5. CASE UNCHANGED Bridge!pollVars
      BY <3>5 DEF Bridge!pollVars, AnswerInv, DroppedIsNoted
    <3> QED
      BY <3>1, <3>2, <3>3, <3>4, <3>5 DEF Bridge!AnswerNext, Bridge!answerVars
  <2> QED
    BY <2>1, <2>2 DEF AnswerInv
<1>3. QED
  BY <1>1, <1>2, PTL DEF Bridge!AnswerSpec

\* updatePairQualityStreak, the circuit breaker and the reports of data-quality-guard.js:
\* while a breaker is open the report every signal uses says to block.
THEOREM OpenBreakersBlock == ComponentsSpec => []OpenBreakerBlocks
<1>1. AnswerInv => OpenBreakerBlocks
  BY DEF AnswerInv, QualityInv, OpenBreakerBlocks
<1>2. QED
  BY <1>1, AnswerInvariant, PTL DEF ComponentsSpec

\* The automatic reenabling of data-quality-guard.js: a breaker is cleared before its time
\* only by assessments that ran side by side.
THEOREM BreakersAreClearedByOverlap == ComponentsSpec => []ReenabledOnlyByOverlap
<1>1. AnswerInv => ReenabledOnlyByOverlap
  BY DEF AnswerInv, QualityInv, ReenabledOnlyByOverlap
<1>2. QED
  BY <1>1, AnswerInvariant, PTL DEF ComponentsSpec

\* getSignalForExecution (ea-bridge-service.js) computes its guards after the await: no
\* terminal is told to execute while one pauses, nor, unless the dashboard dropped the
\* pair meanwhile, while the breaker is open.
THEOREM NobodyEntersWhilePaused == ComponentsSpec => NoEntryWhilePaused
<1>1. AnswerInv /\ [Bridge!AnswerNext]_Bridge!answerVars
        => [\A p \in told' \ told : ~halted /\ (Bridge!Open => p \in dropped)]_Bridge!answerVars
  <2> SUFFICES ASSUME AnswerInv, Bridge!AnswerNext, NEW p \in told' \ told
               PROVE  ~halted /\ (Bridge!Open => p \in dropped)
    OBVIOUS
  <2>1. PICK r \in Asker, executable \in BOOLEAN : Bridge!Answer(r, executable)
    BY DEF Bridge!AnswerNext, Bridge!pollVars, Bridge!Ask, Bridge!Follow, Bridge!GuardTurns
  <2>2. p = r /\ Bridge!Enabled(r) /\ r \in asking
    BY <2>1 DEF Bridge!Answer
  <2>3. ~halted /\ ~(followed /\ report.blocks)
    BY <2>2 DEF Bridge!Enabled, Bridge!Blocks
  <2>4. Bridge!Open => report.blocks
    BY DEF AnswerInv, QualityInv, Bridge!OpenBreakerBlocks
  <2> QED
    BY <2>2, <2>3, <2>4 DEF AnswerInv, DroppedIsNoted
<1>2. QED
  BY <1>1, AnswerInvariant, PTL
  DEF ComponentsSpec, Bridge!AnswerSpec, NoEntryWhilePaused, Bridge!NoEntryWhilePaused
-----------------------------------------------------------------------------
(***************************************************************************)
(* Snapshots.  A symbol is in the queue once, so that what a poll takes is *)
(* no longer asked for.                                                    *)
(***************************************************************************)
AskedOnce == \A i, j \in 1..Len(asked) : asked[i] = asked[j] => i = j

SnapshotInv ==
  /\ asked \in Seq(SnapSymbol)
  /\ AskedOnce
  /\ Snapshots!GuardedAreNotAsked
  /\ Snapshots!AskedFreshExplained

LEMMA AskedAt == \A s : Snapshots!Asked(s) <=> \E i \in 1..Len(asked) : asked[i] = s
  BY DEF Snapshots!Asked, Snapshots!Contains

LEMMA SnapshotIsRequested ==
  ASSUME SnapshotInv, NEW s \in SnapSymbol, Snapshots!Request(s)
  PROVE  SnapshotInv'
<1>1. /\ s \notin fresh /\ s \notin inflight /\ ~Snapshots!Asked(s)
      /\ asked' = Append(asked, s)
      /\ inflight' = inflight /\ fresh' = fresh /\ overtaken' = overtaken
  BY DEF Snapshots!Request
<1>2. /\ asked' \in Seq(SnapSymbol) /\ Len(asked') = Len(asked) + 1 /\ Len(asked) \in Nat
      /\ \A i \in 1..Len(asked) : asked'[i] = asked[i]
      /\ asked'[Len(asked) + 1] = s
  BY <1>1 DEF SnapshotInv
<1>3. \A r : Snapshots!Asked(r)' => Snapshots!Asked(r) \/ r = s
  BY <1>2 DEF Snapshots!Asked, Snapshots!Contains
<1>4. AskedOnce'
  BY <1>1, <1>2, AskedAt DEF SnapshotInv, AskedOnce
<1> QED
  BY <1>1, <1>2, <1>3, <1>4
  DEF SnapshotInv, Snapshots!GuardedAreNotAsked, Snapshots!AskedFreshExplained

\* What leaves the queue for the entries left in it.
LEMMA SnapshotRequestEnds ==
  ASSUME SnapshotInv, NEW taken, NEW at,
         asked' \in Seq(SnapSymbol),
         \A i \in 1..Len(asked') : at[i] \in 1..Len(asked) /\ asked'[i] = asked[at[i]]
                                   /\ asked'[i] \notin taken,
         \A i, j \in 1..Len(asked') : at[i] = at[j] => i = j,
         inflight' \subseteq inflight \cup taken, fresh' = fresh,
         overtaken' = overtaken \ taken
  PROVE  SnapshotInv'
<1>1. AskedOnce'
  BY DEF SnapshotInv, AskedOnce
<1>2. \A r : Snapshots!Asked(r)' => Snapshots!Asked(r) /\ r \notin taken
  BY DEF Snapshots!Asked, Snapshots!Contains
<1> QED
  BY <1>1, <1>2
  DEF SnapshotInv, Snapshots!GuardedAreNotAsked, Snapshots!AskedFreshExplained

LEMMA SnapshotRequestExpires ==
  ASSUME SnapshotInv, NEW s \in SnapSymbol, Snapshots!Expire(s)
  PROVE  SnapshotInv'
<1>1. PICK e \in 1..Len(asked) : asked[e] = s /\ asked' = Snapshots!RemoveAt(asked, e)
  BY DEF Snapshots!Expire, SnapshotInv
<1>2. /\ Len(asked) \in Nat
      /\ asked' \in Seq(SnapSymbol) /\ Len(asked') = Len(asked) - 1
      /\ \A j \in 1..(Len(asked) - 1) : asked'[j] = IF j < e THEN asked[j] ELSE asked[j + 1]
  <2>1. Snapshots!RemoveAt(asked, e) = Cache!RemoveAt(asked, e)
    BY DEF Snapshots!RemoveAt, Cache!RemoveAt
  <2> DEFINE rest == Cache!RemoveAt(asked, e)
  <2>2. asked \in Seq(SnapSymbol) /\ asked' = rest
    BY <1>1, <2>1 DEF SnapshotInv
  <2>3. /\ rest \in Seq(SnapSymbol) /\ Len(rest) = Len(asked) - 1
        /\ \A j \in 1..(Len(asked) - 1) : rest[j] = IF j < e THEN asked[j] ELSE asked[j + 1]
    BY <2>2, RemoveAtProperties
  <2> HIDE DEF rest
  <2> QED
    BY <2>2, <2>3
<1> DEFINE at == [j \in 1..Len(asked') |-> IF j < e THEN j ELSE j + 1]
<1>3. \A j \in 1..Len(asked') : at[j] \in 1..Len(asked) /\ at[j] # e /\ asked'[j] = asked[at[j]]
  BY <1>1, <1>2
<1>4. \A i, j \in 1..Len(asked') : at[i] = at[j] => i = j
  BY <1>1, <1>2
<1> HIDE DEF at
<1> DEFINE taken == {s}
<1>5. \A j \in 1..Len(asked') : asked'[j] \notin taken
  BY <1>1, <1>3 DEF SnapshotInv, AskedOnce
<1>6. inflight' \subseteq inflight \cup taken /\ fresh' = fresh /\ overtaken' = overtaken \ taken
  BY DEF Snapshots!Expire
<1>7. \A j \in 1..Len(asked') : at[j] \in 1..Len(asked) /\ asked'[j] = asked[at[j]]
                               /\ asked'[j] \notin taken
  BY <1>3, <1>5
<1> HIDE DEF taken
<1> QED
  BY <1>2, <1>4, <1>6, <1>7, SnapshotRequestEnds

LEMMA SnapshotsArePolled ==
  ASSUME SnapshotInv, NEW c \in Chart, NEW lost \in BOOLEAN, Snapshots!Poll(c, lost)
  PROVE  SnapshotInv'
<1> DEFINE n == Snapshots!Batch
           first == SubSeq(asked, 1, n)
           taken == Snapshots!ToSet(first)
<1>1. n \in Nat /\ n <= Len(asked) /\ Len(asked) \in Nat
  BY SnapshotAssumption DEF Snapshots!Batch, SnapshotInv
<1>2. asked' = SubSeq(asked, n + 1, Len(asked)) /\ fresh' = fresh
      /\ inflight' = inflight \cup taken /\ overtaken' = overtaken \ taken
  BY DEF Snapshots!Poll, Snapshots!HandsOut
<1> HIDE DEF n
<1>3. taken \subseteq {asked[i] : i \in 1..n}
  <2>1. first \in Seq(SnapSymbol) /\ Len(first) = n /\ \A i \in 1..n : first[i] = asked[i]
    BY <1>1 DEF SnapshotInv
  <2> QED
    BY <2>1 DEF Snapshots!ToSet
<1>4. /\ asked' \in Seq(SnapSymbol) /\ Len(asked') = Len(asked) - n
      /\ \A i \in 1..(Len(asked) - n) : asked'[i] = asked[n + i]
  BY <1>1, <1>2 DEF SnapshotInv
<1> HIDE DEF taken
<1> DEFINE at == [i \in 1..Len(asked') |-> n + i]
<1>5. \A i \in 1..Len(asked') : at[i] \in 1..Len(asked) /\ at[i] > n /\ asked'[i] = asked[at[i]]
  BY <1>1, <1>4
<1>6. \A i, j \in 1..Len(asked') : at[i] = at[j] => i = j
  BY <1>1, <1>4
<1> HIDE DEF at
<1>7. \A i \in 1..Len(asked') : asked'[i] \notin taken
  <2> SUFFICES ASSUME NEW i \in 1..Len(asked'), NEW j \in 1..n, asked'[i] = asked[j]
               PROVE  FALSE
    BY <1>3
  <2>1. at[i] \in 1..Len(asked) /\ at[i] > n /\ asked[at[i]] = asked[j]
    BY <1>5
  <2>2. j \in 1..Len(asked) /\ j # at[i]
    BY <1>1, <2>1
  <2> QED
    BY <2>1, <2>2 DEF SnapshotInv, AskedOnce
<1>8. /\ asked' \in Seq(SnapSymbol)
      /\ \A i \in 1..Len(asked') : at[i] \in 1..Len(asked) /\ asked'[i] = asked[at[i]]
                                /\ asked'[i] \notin taken
      /\ inflight' \subseteq inflight \cup taken /\ fresh' = fresh
      /\ overtaken' = overtaken \ taken
  BY <1>2, <1>4, <1>5, <1>7
<1> HIDE DEF first
<1> QED
  BY <1>6, <1>8, SnapshotRequestEnds

LEMMA SnapshotInvariant == Snapshots!Spec => []SnapshotInv
<1>1. Snapshots!Init => SnapshotInv
  <2> SUFFICES ASSUME Snapshots!Init PROVE SnapshotInv
    OBVIOUS
  <2>1. asked = <<>> /\ inflight = {} /\ fresh = {}
    BY DEF Snapshots!Init
  <2>2. asked \in Seq(SnapSymbol) /\ Len(asked) = 0
    BY <2>1
  <2> QED
    BY <2>1, <2>2
    DEF SnapshotInv, AskedOnce, Snapshots!GuardedAreNotAsked, Snapshots!AskedFreshExplained
<1>2. SnapshotInv /\ [Snapshots!Next]_Snapshots!snapVars => SnapshotInv'
  <2> SUFFICES ASSUME SnapshotInv, [Snapshots!Next]_Snapshots!snapVars PROVE SnapshotInv'
    OBVIOUS
  <2>1. ASSUME asked' = asked PROVE AskedOnce' /\ \A s : Snapshots!Asked(s)' <=> Snapshots!Asked(s)
    BY <2>1 DEF SnapshotInv, AskedOnce, Snapshots!Asked, Snapshots!Contains
  <2> USE DEF SnapshotInv, Snapshots!GuardedAreNotAsked, Snapshots!AskedFreshExplained
  <2>2. ASSUME NEW c \in Chart, NEW s, Snapshots!SnapshotArrives(c, s) PROVE SnapshotInv'
    BY <2>1, <2>2 DEF Snapshots!SnapshotArrives
  <2>3. ASSUME NEW c \in Chart, NEW s, Snapshots!SnapshotFails(c, s) PROVE SnapshotInv'
    BY <2>1, <2>3 DEF Snapshots!SnapshotFails
  <2>4. ASSUME NEW s \in SnapSymbol, Snapshots!GuardRunsOut(s) PROVE SnapshotInv'
    BY <2>1, <2>4 DEF Snapshots!GuardRunsOut
  <2>5. ASSUME NEW s \in SnapSymbol, Snapshots!Ages(s) PROVE SnapshotInv'
    BY <2>1, <2>5 DEF Snapshots!Ages
  <2>6. CASE UNCHANGED Snapshots!snapVars
    BY <2>1, <2>6 DEF Snapshots!snapVars
  <2>7. CASE \E s \in SnapSymbol : \/ Snapshots!Request(s) \/ Snapshots!Expire(s)
                                   \/ Snapshots!GuardRunsOut(s) \/ Snapshots!Ages(s)
    BY <2>4, <2>5, <2>7, SnapshotIsRequested, SnapshotRequestExpires, Zenon
  <2>8. CASE \E c \in Chart : \/ Snapshots!ChartStep(c)
                              \/ \E s \in SnapSymbol : Snapshots!SnapshotArrives(c, s)
    BY <2>2, <2>3, <2>8, SnapshotsArePolled, Zenon DEF Snapshots!ChartStep
  <2> QED
    BY <2>6, <2>7, <2>8, Zenon DEF Snapshots!Next
<1>3. QED
  BY <1>1, <1>2, PTL DEF Snapshots!Spec

\* requestMarketSnapshot and consumeMarketSnapshotRequests (ea-bridge-service.js): nothing
\* that was just handed to a terminal is asked for again, and a fresh snapshot is asked
\* for only where it came after the request.
THEOREM SnapshotRequestsAreExplained == ComponentsSpec => []SnapshotsAskedExplained
<1>1. SnapshotInv => SnapshotsAskedExplained
  BY DEF SnapshotInv, SnapshotsAskedExplained
<1>2. QED
  BY <1>1, SnapshotInvariant, PTL DEF ComponentsSpec
-----------------------------------------------------------------------------
(***************************************************************************)
(* Realtime runner.  The bar a task has read is no newer than the newest,  *)
(* and no older than what its streams published unless another task        *)
(* published since; what was announced is no newer than what is recorded   *)
(* as published, unless a task took the stream back.  And a symbol whose   *)
(* last generation was recorded is throttled.                              *)
(***************************************************************************)
TaskRecord ==
  [pc : {"idle", "loop", "await"}, todo : SUBSET Runner!Key, cur : Symbol \cup {None},
   bar : Nat, stale : BOOLEAN]

RunnerTypes ==
  /\ pending \in Seq(Symbol) /\ cursor \in Nat
  /\ bar \in [Symbol -> Nat]
  /\ task \in [Runner!Task -> TaskRecord]
  /\ lastBar \in [Runner!Key -> Nat]
  /\ announced \in [Runner!Key -> SUBSET (Nat \ {0})]
  /\ DOMAIN since = Symbol

ReadsInOrder ==
  \A t \in Runner!Task : task[t].pc = "await" =>
    /\ task[t].cur \in Symbol
    /\ task[t].bar <= bar[task[t].cur]
    /\ \A k \in Runner!Key :
         k[1] = task[t].cur /\ ~task[t].stale => lastBar[k] <= task[t].bar

StreamsInOrder ==
  \A k \in Runner!Key :
    /\ lastBar[k] <= bar[k[1]]
    /\ k \notin regressed => \A b \in announced[k] : b <= lastBar[k]

RecordedAreThrottled ==
  \A s \in Symbol : since[s] = "recorded" => Runner!Main(s) \in recent

RunnerInv ==
  /\ RunnerTypes
  /\ Runner!WaitingHasFlush
  /\ ReadsInOrder /\ StreamsInOrder /\ Runner!RepeatExplained
  /\ RecordedAreThrottled

LEMMA StreamKeys ==
  /\ \A s \in Symbol : Runner!Main(s) \in Runner!Key /\ Runner!Candidate(s) \in Runner!Key
  /\ \A k \in Runner!Key : k[1] \in Symbol /\ k[2] \in {"signal", "candidate"} /\ k = <<k[1], k[2]>>
  /\ \A s : Runner!Main(s)[1] = s /\ Runner!Candidate(s)[1] = s
  BY DEF Runner!Key, Runner!Main, Runner!Candidate

LEMMA MainKeysDiffer ==
  \A r, s : r # s => Runner!Main(r) # Runner!Main(s) /\ Runner!Main(r) # Runner!Candidate(s)
  BY DEF Runner!Main, Runner!Candidate

LEMMA IdleIsATask == Runner!Idle \in TaskRecord /\ Runner!Idle.pc = "idle"
  BY DEF Runner!Idle, TaskRecord

\* The symbols a flush takes, and those it leaves, are symbols that waited.
LEMMA BatchIsOfSymbols ==
  ASSUME pending \in Seq(Symbol), pending # <<>>, cursor \in Nat
  PROVE  /\ {Runner!Main(Runner!Rotated[i]) : i \in 1..Runner!BatchSize} \in SUBSET Runner!Key
         /\ SubSeq(Runner!Rotated, Runner!BatchSize + 1, Len(pending)) \in Seq(Symbol)
         /\ Runner!NextCursor \in Nat
<1> DEFINE n == Len(pending)
           b == Runner!BatchSize
<1>1. n \in Nat /\ n > 0 /\ b \in Nat /\ b <= n
  BY RunnerAssumption DEF Runner!BatchSize
<1>2. \A x \in Nat : x % n \in 0..(n - 1)
  BY <1>1
<1>3. \A i \in 1..n : pending[((cursor + i - 1) % n) + 1] \in Symbol
  <2> TAKE i \in 1..n
  <2>1. cursor + i - 1 \in Nat
    BY <1>1
  <2>2. ((cursor + i - 1) % n) + 1 \in 1..n
    BY <1>1, <1>2, <2>1
  <2> QED
    BY <2>2
<1>4. Runner!Rotated = [i \in 1..n |-> pending[((cursor + i - 1) % n) + 1]]
  BY DEF Runner!Rotated
<1>5. \A i \in 1..n : Runner!Rotated[i] \in Symbol
  BY <1>3, <1>4
<1>6. {Runner!Main(Runner!Rotated[i]) : i \in 1..b} \in SUBSET Runner!Key
  BY <1>1, <1>5, StreamKeys
<1>7. SubSeq(Runner!Rotated, b + 1, n) \in Seq(Symbol)
  BY <1>1, <1>5, SubSeqProperties
<1>8. Runner!NextCursor \in Nat
  BY <1>1, <1>2 DEF Runner!NextCursor
<1> QED
  BY <1>6, <1>7, <1>8

\* What publishes nothing and starts no analysis keeps the order of the bars.
LEMMA RunnerFrame ==
  ASSUME RunnerInv, RunnerTypes', UNCHANGED <<lastBar, announced, regressed, repeated>>,
         \A s \in Symbol : bar[s] <= bar'[s],
         \A t \in Runner!Task : task'[t].pc = "await" =>
           /\ task[t].pc = "await" /\ task'[t].cur = task[t].cur
           /\ task'[t].bar = task[t].bar /\ task'[t].stale = task[t].stale
  PROVE  ReadsInOrder' /\ StreamsInOrder' /\ Runner!RepeatExplained'
<1>1. ASSUME NEW t \in Runner!Task, task'[t].pc = "await"
      PROVE  /\ task'[t].cur \in Symbol
             /\ task'[t].bar <= bar'[task'[t].cur]
             /\ \A k \in Runner!Key :
                  k[1] = task'[t].cur /\ ~task'[t].stale => lastBar'[k] <= task'[t].bar
  <2>1. /\ task[t].cur \in Symbol /\ task[t].bar <= bar[task[t].cur]
        /\ \A k \in Runner!Key : k[1] = task[t].cur /\ ~task[t].stale => lastBar[k] <= task[t].bar
    BY <1>1 DEF RunnerInv, ReadsInOrder
  <2>2. task[t].bar \in Nat /\ bar[task[t].cur] \in Nat /\ bar'[task[t].cur] \in Nat
    BY <2>1 DEF RunnerInv, RunnerTypes, TaskRecord
  <2> QED
    BY <1>1, <2>1, <2>2
<1>2. ASSUME NEW k \in Runner!Key
      PROVE  lastBar[k] <= bar'[k[1]]
  <2>1. k[1] \in Symbol
    BY StreamKeys
  <2>2. lastBar[k] \in Nat /\ bar[k[1]] \in Nat /\ bar'[k[1]] \in Nat /\ lastBar[k] <= bar[k[1]]
    BY <2>1 DEF RunnerInv, RunnerTypes, StreamsInOrder
  <2> QED
    BY <2>1, <2>2
<1>3. StreamsInOrder'
  BY <1>2 DEF RunnerInv, StreamsInOrder
<1>4. Runner!RepeatExplained'
  BY DEF RunnerInv, Runner!RepeatExplained
<1> QED
  BY <1>1, <1>3, <1>4 DEF ReadsInOrder

LEMMA RunnerIngests ==
  ASSUME RunnerInv, NEW s \in Symbol, Runner!Ingest(s)
  PROVE  RunnerInv'
<1>1. /\ pending' \in Seq(Symbol) /\ timer' = TRUE /\ cursor' = cursor /\ task' = task
      /\ recent' = recent /\ since' = since
      /\ UNCHANGED <<lastBar, announced, regressed, repeated>>
  BY DEF Runner!Ingest, Runner!published, RunnerInv, RunnerTypes
<1>2. bar' \in [Symbol -> Nat] /\ \A r \in Symbol : bar[r] <= bar'[r]
  BY DEF Runner!Ingest, RunnerInv, RunnerTypes
<1>3. RunnerTypes'
  BY <1>1, <1>2 DEF RunnerInv, RunnerTypes
<1>4. Runner!WaitingHasFlush'
  BY <1>1 DEF Runner!WaitingHasFlush
<1>5. RecordedAreThrottled'
  BY <1>1 DEF RunnerInv, RecordedAreThrottled
<1> QED
  BY <1>1, <1>2, <1>3, <1>4, <1>5, RunnerFrame DEF RunnerInv

LEMMA RunnerIntervalPasses ==
  ASSUME RunnerInv, NEW s \in Symbol, Runner!IntervalPasses(s)
  PROVE  RunnerInv'
<1>1. /\ UNCHANGED <<pending, timer, cursor, bar, task, up, lastBar, announced, regressed, repeated>>
      /\ recent' = recent \ {Runner!Main(s), Runner!Candidate(s)}
      /\ since' = [since EXCEPT ![s] = "long"]
  BY DEF Runner!IntervalPasses, Runner!published
<1>2. RunnerTypes'
  BY <1>1 DEF RunnerInv, RunnerTypes
<1>3. Runner!WaitingHasFlush'
  BY <1>1 DEF RunnerInv, Runner!WaitingHasFlush
<1>4. RecordedAreThrottled'
  BY <1>1, MainKeysDiffer DEF RunnerInv, RunnerTypes, RecordedAreThrottled
<1>5. \A r \in Symbol : bar[r] <= bar'[r]
  BY <1>1 DEF RunnerInv, RunnerTypes
<1> QED
  BY <1>1, <1>2, <1>3, <1>4, <1>5, RunnerFrame DEF RunnerInv

LEMMA RunnerFlushStarts ==
  ASSUME RunnerInv, NEW f \in Flush, Runner!StartFlush(f)
  PROVE  RunnerInv'
<1>1. /\ UNCHANGED <<bar, recent, up, since, lastBar, announced, regressed, repeated>>
      /\ f \in Runner!Task
  BY DEF Runner!StartFlush, Runner!published, Runner!Task
<1>2. \A r \in Symbol : bar[r] <= bar'[r]
  BY <1>1 DEF RunnerInv, RunnerTypes
<1>3. RecordedAreThrottled'
  BY <1>1 DEF RunnerInv, RecordedAreThrottled
<1>4. CASE pending = <<>>
  <2>1. UNCHANGED <<pending, cursor, task>>
    BY <1>4 DEF Runner!StartFlush
  <2>2. RunnerTypes'
    BY <1>1, <2>1 DEF RunnerInv, RunnerTypes
  <2>3. Runner!WaitingHasFlush'
    BY <1>4, <2>1 DEF Runner!WaitingHasFlush
  <2> QED
    BY <1>1, <1>2, <1>3, <2>1, <2>2, <2>3, RunnerFrame DEF RunnerInv
<1>5. CASE pending # <<>>
  <2> DEFINE batch == {Runner!Main(Runner!Rotated[i]) : i \in 1..Runner!BatchSize}
             r == [Runner!Idle EXCEPT !.pc = "loop", !.todo = batch]
  <2>1. batch \in SUBSET Runner!Key
    BY <1>5, BatchIsOfSymbols DEF RunnerInv, RunnerTypes
  <2>2. task' = [task EXCEPT ![f] = r] /\ cursor' = Runner!NextCursor
        /\ pending' = SubSeq(Runner!Rotated, Runner!BatchSize + 1, Len(pending))
    BY <1>5 DEF Runner!StartFlush
  <2> HIDE DEF batch
  <2>3. r \in TaskRecord /\ r.pc = "loop"
    BY <2>1, IdleIsATask DEF TaskRecord
  <2> HIDE DEF r
  <2>4. task' \in [Runner!Task -> TaskRecord] /\ task'[f].pc = "loop"
        /\ \A t \in Runner!Task \ {f} : task'[t] = task[t]
    BY <1>1, <2>2, <2>3 DEF RunnerInv, RunnerTypes
  <2>5. RunnerTypes'
    BY <1>1, <1>5, <2>2, <2>4, BatchIsOfSymbols DEF RunnerInv, RunnerTypes
  <2>6. Runner!WaitingHasFlush'
    BY <2>4 DEF Runner!WaitingHasFlush
  <2>7. \A t \in Runner!Task : task'[t].pc = "await" => task'[t] = task[t]
    BY <2>4
  <2> QED
    BY <1>1, <1>2, <1>3, <2>5, <2>6, <2>7, RunnerFrame DEF RunnerInv
<1> QED
  BY <1>4, <1>5

\* A task that goes on with its list, ends, or starts to revalidate.
LEMMA RunnerTaskMoves ==
  ASSUME RunnerInv, NEW t \in Runner!Task, NEW r \in TaskRecord, r.pc # "await",
         task' = [task EXCEPT ![t] = r],
         UNCHANGED <<pending, cursor, bar, up, lastBar, announced, regressed, repeated>>,
         DOMAIN since' = Symbol, RecordedAreThrottled',
         (timer' <=> timer) \/ (timer' <=> timer \/ pending # <<>>),
         t \in Flush /\ r.pc = "idle" => (timer' <=> timer \/ pending # <<>>)
  PROVE  RunnerInv'
<1>1. task' \in [Runner!Task -> TaskRecord] /\ task'[t] = r
      /\ \A u \in Runner!Task \ {t} : task'[u] = task[u]
  BY DEF RunnerInv, RunnerTypes
<1>2. RunnerTypes'
  BY <1>1 DEF RunnerInv, RunnerTypes
<1>3. Runner!WaitingHasFlush'
  <2> SUFFICES ASSUME up, pending # <<>>, ~timer'
               PROVE  \E f \in Flush : task'[f].pc # "idle"
    BY DEF Runner!WaitingHasFlush
  <2>1. ~timer
    OBVIOUS
  <2>2. PICK f \in Flush : task[f].pc # "idle"
    BY <2>1 DEF RunnerInv, Runner!WaitingHasFlush
  <2>3. f \in Runner!Task
    BY DEF Runner!Task
  <2> QED
    BY <1>1, <2>2, <2>3
<1>4. \A s \in Symbol : bar[s] <= bar'[s]
  BY DEF RunnerInv, RunnerTypes
<1>5. \A u \in Runner!Task : task'[u].pc = "await" => task'[u] = task[u]
  BY <1>1
<1> QED
  BY <1>2, <1>3, <1>4, <1>5, RunnerFrame DEF RunnerInv

LEMMA RunnerFlushEnds ==
  ASSUME RunnerInv, NEW f \in Flush, Runner!EndFlush(f)
  PROVE  RunnerInv'
<1>1. timer' <=> timer \/ pending # <<>>
  BY Zenon DEF Runner!EndFlush
<1>2. /\ task' = [task EXCEPT ![f] = Runner!Idle] /\ f \in Runner!Task
      /\ UNCHANGED <<pending, cursor, bar, recent, up, since, lastBar, announced, regressed, repeated>>
  BY DEF Runner!EndFlush, Runner!published, Runner!Task
<1>3. RecordedAreThrottled' /\ DOMAIN since' = Symbol
  BY <1>2 DEF RunnerInv, RunnerTypes, RecordedAreThrottled
<1> QED
  BY <1>1, <1>2, <1>3, IdleIsATask, RunnerTaskMoves

LEMMA RunnerRevalidates ==
  ASSUME RunnerInv, NEW v \in Reval, Runner!StartReval(v) \/ Runner!EndReval(v)
  PROVE  RunnerInv'
<1> DEFINE due == {k \in Runner!Key : lastMeta[k] # None}
           r == [Runner!Idle EXCEPT !.pc = "loop", !.todo = due]
<1>1. v \in Runner!Task /\ v \notin Flush
  BY RunnerAssumption DEF Runner!Task
<1>2. r \in TaskRecord /\ r.pc = "loop"
  BY IdleIsATask DEF TaskRecord
<1>3. task' = [task EXCEPT ![v] = r] \/ task' = [task EXCEPT ![v] = Runner!Idle]
  BY DEF Runner!StartReval, Runner!EndReval
<1> HIDE DEF r
<1>4. UNCHANGED <<pending, timer, cursor, bar, recent, up, since, lastBar, announced, regressed,
                  repeated>>
  BY DEF Runner!StartReval, Runner!EndReval, Runner!published
<1>5. RecordedAreThrottled' /\ DOMAIN since' = Symbol
  BY <1>4 DEF RunnerInv, RunnerTypes, RecordedAreThrottled
<1> QED
  BY <1>1, <1>2, <1>3, <1>4, <1>5, IdleIsATask, RunnerTaskMoves

LEMMA RunnerPassesOver ==
  ASSUME RunnerInv, NEW t \in Runner!Task, NEW k \in Runner!Key,
         Runner!PassOver(t, k) \/ Runner!HoldBack(t, k)
  PROVE  RunnerInv'
<1> DEFINE r == [task[t] EXCEPT !.todo = @ \ {k}]
<1>1. task[t] \in TaskRecord /\ task[t].pc = "loop"
  BY DEF Runner!PassOver, Runner!HoldBack, Runner!Proceeds, RunnerInv, RunnerTypes
<1>2. r \in TaskRecord /\ r.pc = "loop"
  BY <1>1 DEF TaskRecord
<1>3. task' = [task EXCEPT ![t] = r]
  BY DEF Runner!PassOver, Runner!HoldBack, Runner!Done
<1> HIDE DEF r
<1>4. UNCHANGED <<pending, timer, cursor, bar, up, lastBar, announced, regressed, repeated>>
  BY DEF Runner!PassOver, Runner!HoldBack, Runner!published
<1>5. RecordedAreThrottled' /\ DOMAIN since' = Symbol
  <2>1. CASE Runner!PassOver(t, k)
    BY <2>1 DEF Runner!PassOver, RunnerInv, RunnerTypes, RecordedAreThrottled
  <2>2. CASE Runner!HoldBack(t, k)
    <3>1. /\ recent' = recent \cup {Runner!Main(k[1])}
          /\ DOMAIN since' = Symbol /\ \A s \in Symbol \ {k[1]} : since'[s] = since[s]
      BY <2>2 DEF Runner!HoldBack, RunnerInv, RunnerTypes
    <3> QED
      BY <3>1 DEF RunnerInv, RecordedAreThrottled
  <2> QED
    BY <2>1, <2>2
<1> QED
  BY <1>2, <1>3, <1>4, <1>5, RunnerTaskMoves

LEMMA RunnerGenerates ==
  ASSUME RunnerInv, NEW t \in Runner!Task, NEW k \in Runner!Key, Runner!Generate(t, k)
  PROVE  RunnerInv'
<1> DEFINE s == k[1]
           r == [pc |-> "await", todo |-> task[t].todo \ {k}, cur |-> s, bar |-> bar[s],
                 stale |-> FALSE]
<1>1. s \in Symbol /\ bar[s] \in Nat /\ task[t] \in TaskRecord
  BY StreamKeys DEF RunnerInv, RunnerTypes
<1>2. /\ task' = [task EXCEPT ![t] = r] /\ since' = [since EXCEPT ![s] = "running"]
      /\ UNCHANGED <<pending, timer, cursor, bar, recent, up, lastBar, announced, regressed, repeated>>
  BY DEF Runner!Generate, Runner!published
<1>3. r \in TaskRecord
  BY <1>1 DEF TaskRecord
<1>4. r.pc = "await" /\ r.cur = s /\ r.bar = bar[s]
  OBVIOUS
<1> HIDE DEF r, s
<1>5. task' \in [Runner!Task -> TaskRecord] /\ task'[t] = r
      /\ \A u \in Runner!Task \ {t} : task'[u] = task[u]
  BY <1>2, <1>3 DEF RunnerInv, RunnerTypes
<1>6. RunnerTypes'
  BY <1>2, <1>5 DEF RunnerInv, RunnerTypes
<1>7. Runner!WaitingHasFlush'
  <2>1. \A f \in Flush : task[f].pc # "idle" => task'[f].pc # "idle"
    BY <1>4, <1>5 DEF Runner!Task
  <2> QED
    BY <1>2, <2>1 DEF RunnerInv, Runner!WaitingHasFlush
<1>8. ReadsInOrder'
  <2> SUFFICES ASSUME NEW u \in Runner!Task, task'[u].pc = "await"
               PROVE  /\ task'[u].cur \in Symbol
                      /\ task'[u].bar <= bar[task'[u].cur]
                      /\ \A j \in Runner!Key :
                           j[1] = task'[u].cur /\ ~task'[u].stale => lastBar[j] <= task'[u].bar
    BY <1>2 DEF ReadsInOrder
  <2>1. CASE u = t
    BY <1>1, <1>4, <1>5, <2>1 DEF RunnerInv, StreamsInOrder
  <2>2. CASE u # t
    BY <1>5, <2>2 DEF RunnerInv, ReadsInOrder
  <2> QED
    BY <2>1, <2>2
<1>9. StreamsInOrder' /\ Runner!RepeatExplained'
  BY <1>2 DEF RunnerInv, StreamsInOrder, Runner!RepeatExplained
<1>10. RecordedAreThrottled'
  BY <1>2 DEF RunnerInv, RunnerTypes, RecordedAreThrottled
<1> QED
  BY <1>6, <1>7, <1>8, <1>9, <1>10 DEF RunnerInv

\* How a generation went is "recorded" only with the main stream throttled.
LEMMA RunnerWent ==
  ASSUME RunnerInv, NEW t \in Runner!Task, NEW how, Runner!Went(t, how), recent \subseteq recent',
         how = "recorded" => Runner!Main(task[t].cur) \in recent'
  PROVE  RecordedAreThrottled' /\ DOMAIN since' = Symbol
<1>1. DOMAIN since' = Symbol
  BY DEF Runner!Went, RunnerInv, RunnerTypes
<1>2. \A s \in Symbol : since'[s] = since[s] \/ (s = task[t].cur /\ since'[s] = how)
  BY DEF Runner!Went, RunnerInv, RunnerTypes
<1> QED
  BY <1>1, <1>2 DEF RunnerInv, RecordedAreThrottled

LEMMA RunnerGoesBack ==
  ASSUME RunnerInv, NEW t \in Runner!Task, task' = Runner!Back(t),
         UNCHANGED <<pending, timer, cursor, bar, up, lastBar, announced, regressed, repeated>>,
         DOMAIN since' = Symbol, RecordedAreThrottled'
  PROVE  RunnerInv'
<1> DEFINE r == [task[t] EXCEPT !.pc = "loop", !.cur = None, !.bar = 0, !.stale = FALSE]
<1>1. r \in TaskRecord /\ r.pc = "loop"
  BY DEF TaskRecord, RunnerInv, RunnerTypes
<1>2. task' = [task EXCEPT ![t] = r]
  BY DEF Runner!Back, RunnerInv, RunnerTypes
<1> HIDE DEF r
<1> QED
  BY <1>1, <1>2, RunnerTaskMoves

LEMMA ChannelIsOfTheSymbol ==
  ASSUME NEW s \in Symbol, NEW sig, NEW k \in Runner!Channel(s, sig)
  PROVE  /\ k \in Runner!Key /\ k[1] = s
         /\ Runner!HowPublished(k) = "recorded" => k = Runner!Main(s)
  BY DEF Runner!Channel, Runner!HowPublished, Runner!Main, Runner!Candidate, Runner!Key

LEMMA RunnerWithholds ==
  ASSUME RunnerInv, NEW t \in Runner!Task, NEW sigs, Runner!Withhold(t, sigs)
  PROVE  RunnerInv'
<1>1. task' = Runner!Back(t) /\ recent' = recent \cup {Runner!Main(task[t].cur)}
      /\ Runner!Went(t, "recorded")
      /\ UNCHANGED <<pending, timer, cursor, bar, up, lastBar, announced, regressed, repeated>>
  BY DEF Runner!Withhold, Runner!published
<1>2. RecordedAreThrottled' /\ DOMAIN since' = Symbol
  BY <1>1, RunnerWent
<1> QED
  BY <1>1, <1>2, RunnerGoesBack

LEMMA RunnerFails ==
  ASSUME RunnerInv, NEW t \in Runner!Task, Runner!Fails(t)
  PROVE  RunnerInv'
<1>1. task' = Runner!Back(t) /\ recent' = recent /\ Runner!Went(t, "dropped")
      /\ UNCHANGED <<pending, timer, cursor, bar, up, lastBar, announced, regressed, repeated>>
  BY DEF Runner!Fails, Runner!published
<1>2. RecordedAreThrottled' /\ DOMAIN since' = Symbol
  BY <1>1, RunnerWent
<1> QED
  BY <1>1, <1>2, RunnerGoesBack

LEMMA RunnerSuppresses ==
  ASSUME RunnerInv, NEW t \in Runner!Task, NEW k \in Runner!Key, NEW sig, Runner!Suppress(t, k, sig)
  PROVE  RunnerInv'
<1>1. task' = Runner!Back(t) /\ recent' = recent \cup {k} /\ Runner!Went(t, Runner!HowPublished(k))
      /\ task[t].pc = "await" /\ k \in Runner!Channel(task[t].cur, sig)
      /\ UNCHANGED <<pending, timer, cursor, bar, up, lastBar, announced, regressed, repeated>>
  BY DEF Runner!Suppress, Runner!published, Runner!Awaits
<1>2. task[t].cur \in Symbol
  BY <1>1 DEF RunnerInv, ReadsInOrder
<1>3. Runner!HowPublished(k) = "recorded" => Runner!Main(task[t].cur) \in recent'
  BY <1>1, <1>2, ChannelIsOfTheSymbol
<1>4. RecordedAreThrottled' /\ DOMAIN since' = Symbol
  BY <1>1, <1>3, RunnerWent
<1> QED
  BY <1>1, <1>4, RunnerGoesBack

LEMMA RunnerPublishes ==
  ASSUME RunnerInv, NEW t \in Runner!Task, NEW k \in Runner!Key, NEW sig, Runner!Publish(t, k, sig)
  PROVE  RunnerInv'
<1> DEFINE s == task[t].cur
           b == task[t].bar
           new == ~Runner!Lifecycle(s, sig)
<1>1. task[t].pc = "await" /\ k \in Runner!Channel(s, sig)
  BY DEF Runner!Publish, Runner!Awaits
<1>2. s \in Symbol /\ b \in Nat /\ k[1] = s /\ b <= bar[s] /\ task[t].stale \in BOOLEAN
      /\ (~task[t].stale => lastBar[k] <= b)
      /\ (Runner!HowPublished(k) = "recorded" => k = Runner!Main(s))
  BY <1>1, ChannelIsOfTheSymbol DEF RunnerInv, RunnerTypes, ReadsInOrder, TaskRecord
<1>3. new /\ b # 0 => b # lastBar[k]
  BY DEF Runner!Publish, Runner!Suppressed, Runner!SameBar
<1>4. UNCHANGED <<pending, timer, cursor, bar, up>> /\ recent' = recent \cup {k}
      /\ Runner!Went(t, Runner!HowPublished(k))
      /\ task' = [u \in Runner!Task |->
                    IF u = t THEN Runner!Back(t)[t]
                    ELSE IF task[u].cur = s THEN [task[u] EXCEPT !.stale = TRUE] ELSE task[u]]
  BY DEF Runner!Publish
<1>5. lastBar' = IF b # 0 THEN [lastBar EXCEPT ![k] = b] ELSE lastBar
  BY DEF Runner!Publish
<1>6. regressed' = IF task[t].stale /\ b # 0 /\ b < lastBar[k] THEN regressed \cup {k}
                   ELSE regressed
  BY DEF Runner!Publish
<1>7. repeated' = IF new /\ b \in announced[k] THEN repeated \cup {k} ELSE repeated
  BY DEF Runner!Publish
<1>8. announced' = IF new /\ b # 0 THEN [announced EXCEPT ![k] = @ \cup {b}] ELSE announced
  BY DEF Runner!Publish
<1> HIDE DEF s, b, new
<1>9. /\ task' \in [Runner!Task -> TaskRecord] /\ task'[t].pc = "loop"
      /\ \A u \in Runner!Task \ {t} :
           /\ task'[u].pc = task[u].pc /\ task'[u].cur = task[u].cur /\ task'[u].bar = task[u].bar
           /\ task[u].cur = s => task'[u].stale
           /\ task[u].cur # s => task'[u].stale = task[u].stale
  <2>1. task \in [Runner!Task -> TaskRecord]
    BY DEF RunnerInv, RunnerTypes
  <2>2. Runner!Back(t)[t] = [task[t] EXCEPT !.pc = "loop", !.cur = None, !.bar = 0, !.stale = FALSE]
    BY <2>1 DEF Runner!Back
  <2>3. Runner!Back(t)[t] \in TaskRecord /\ Runner!Back(t)[t].pc = "loop"
    <3> DEFINE r == [task[t] EXCEPT !.pc = "loop", !.cur = None, !.bar = 0, !.stale = FALSE]
    <3>1. r \in TaskRecord /\ r.pc = "loop"
      BY <2>1 DEF TaskRecord
    <3> QED
      BY <2>2, <3>1
  <2>4. \A u \in Runner!Task : [task[u] EXCEPT !.stale = TRUE] \in TaskRecord
    BY <2>1 DEF TaskRecord
  <2>5. task' \in [Runner!Task -> TaskRecord] /\ task'[t].pc = "loop"
    BY <1>4, <2>1, <2>3, <2>4
  <2>6. ASSUME NEW u \in Runner!Task \ {t}
        PROVE  /\ task'[u].pc = task[u].pc /\ task'[u].cur = task[u].cur
               /\ task'[u].bar = task[u].bar
               /\ task[u].cur = s => task'[u].stale
               /\ task[u].cur # s => task'[u].stale = task[u].stale
    <3>1. task[u] \in TaskRecord
      BY <2>1
    <3>2. task'[u] = IF task[u].cur = s THEN [task[u] EXCEPT !.stale = TRUE] ELSE task[u]
      BY <1>4
    <3> QED
      BY <3>1, <3>2 DEF TaskRecord
  <2> QED
    BY <2>5, <2>6
<1>10. lastBar' \in [Runner!Key -> Nat] /\ announced' \in [Runner!Key -> SUBSET (Nat \ {0})]
  BY <1>2, <1>5, <1>8 DEF RunnerInv, RunnerTypes
<1>11. RecordedAreThrottled' /\ DOMAIN since' = Symbol
  BY <1>2, <1>4, RunnerWent DEF s
<1>12. RunnerTypes'
  BY <1>4, <1>9, <1>10, <1>11 DEF RunnerInv, RunnerTypes
<1>13. Runner!WaitingHasFlush'
  <2>1. \A f \in Flush : task[f].pc # "idle" => task'[f].pc # "idle"
    BY <1>9 DEF Runner!Task
  <2> QED
    BY <1>4, <2>1 DEF RunnerInv, Runner!WaitingHasFlush
<1>14. ReadsInOrder'
  <2> SUFFICES ASSUME NEW u \in Runner!Task \ {t}, task[u].pc = "await"
               PROVE  /\ task'[u].cur \in Symbol
                      /\ task'[u].bar <= bar'[task'[u].cur]
                      /\ \A j \in Runner!Key :
                           j[1] = task'[u].cur /\ ~task'[u].stale => lastBar'[j] <= task'[u].bar
    BY <1>9 DEF ReadsInOrder
  <2>1. task[u].cur \in Symbol /\ task[u].bar <= bar[task[u].cur]
    BY DEF RunnerInv, ReadsInOrder
  <2>2. ASSUME NEW j \in Runner!Key, j[1] = task'[u].cur, ~task'[u].stale
        PROVE  lastBar'[j] <= task'[u].bar
    <3>1. task[u].cur # s /\ ~task[u].stale /\ j # k /\ task'[u].cur = task[u].cur
      BY <1>2, <1>9, <2>2
    <3>2. lastBar'[j] = lastBar[j]
      BY <1>5, <3>1 DEF RunnerInv, RunnerTypes
    <3> QED
      BY <1>9, <2>2, <3>1, <3>2 DEF RunnerInv, ReadsInOrder
  <2> QED
    BY <1>4, <1>9, <2>1, <2>2
<1>15. lastBar[k] \in Nat /\ announced[k] \subseteq Nat \ {0}
       /\ (k \notin regressed => \A a \in announced[k] : a <= lastBar[k])
  BY DEF RunnerInv, RunnerTypes, StreamsInOrder
<1>16. StreamsInOrder'
  <2> SUFFICES ASSUME NEW j \in Runner!Key
               PROVE  /\ lastBar'[j] <= bar[j[1]]
                      /\ j \notin regressed' => \A a \in announced'[j] : a <= lastBar'[j]
    BY <1>4 DEF StreamsInOrder
  <2>1. lastBar[j] <= bar[j[1]]
        /\ (j \notin regressed => \A a \in announced[j] : a <= lastBar[j])
    BY DEF RunnerInv, StreamsInOrder
  <2>2. CASE j # k
    <3>1. lastBar'[j] = lastBar[j] /\ announced'[j] = announced[j]
      BY <1>5, <1>8, <2>2 DEF RunnerInv, RunnerTypes
    <3> QED
      BY <1>6, <2>1, <3>1
  <2>3. CASE j = k /\ b = 0
    BY <1>5, <1>6, <1>8, <2>1, <2>3
  <2>4. CASE j = k /\ b # 0
    <3>1. lastBar'[k] = b /\ announced'[k] \subseteq announced[k] \cup {b}
      BY <1>5, <1>8, <2>4 DEF RunnerInv, RunnerTypes
    <3>2. k \notin regressed' => k \notin regressed /\ lastBar[k] <= b
      BY <1>2, <1>6, <1>15, <2>4
    <3> QED
      BY <1>2, <1>15, <2>4, <3>1, <3>2
  <2> QED
    BY <2>2, <2>3, <2>4
<1>17. Runner!RepeatExplained'
  <2>1. regressed \subseteq regressed' /\ repeated \subseteq regressed
    BY <1>6 DEF RunnerInv, Runner!RepeatExplained
  <2>2. ASSUME new, b \in announced[k] PROVE k \in regressed'
    <3>1. b # 0 /\ b # lastBar[k]
      BY <1>3, <1>15, <2>2
    <3>2. k \notin regressed => b < lastBar[k] /\ task[t].stale
      BY <1>2, <1>15, <2>2, <3>1
    <3> QED
      BY <1>6, <2>1, <3>1, <3>2
  <2> QED
    BY <1>7, <2>1, <2>2 DEF Runner!RepeatExplained
<1> QED
  BY <1>11, <1>12, <1>13, <1>14, <1>16, <1>17 DEF RunnerInv

LEMMA RunnerStops ==
  ASSUME RunnerInv, NEW t \in Runner!Task, NEW k, NEW sig, Runner!Malformed(t, k, sig)
  PROVE  RunnerInv'
<1>1. ~up' /\ UNCHANGED <<pending, cursor, bar, task, recent, since, lastBar, announced, regressed,
                          repeated>>
  BY DEF Runner!Malformed, Runner!published
<1>2. \A s \in Symbol : bar[s] <= bar'[s]
  BY <1>1 DEF RunnerInv, RunnerTypes
<1> QED
  BY <1>1, <1>2, RunnerFrame
  DEF RunnerInv, RunnerTypes, Runner!WaitingHasFlush, RecordedAreThrottled

LEMMA RunnerStep == RunnerInv /\ [Runner!Next]_Runner!vars => RunnerInv'
<1> SUFFICES ASSUME RunnerInv, [Runner!Next]_Runner!vars PROVE RunnerInv'
  OBVIOUS
<1>1. ASSUME NEW t \in Runner!Task, Runner!Step(t) PROVE RunnerInv'
  <2>1. CASE Runner!Finish(t)
    BY <2>1, RunnerFails, RunnerWithholds, RunnerSuppresses, RunnerPublishes, RunnerStops, Zenon
    DEF Runner!Finish
  <2> QED
    BY <1>1, <2>1, RunnerPassesOver, RunnerGenerates, Zenon DEF Runner!Step
<1>2. CASE UNCHANGED Runner!vars
  <2>1. \A s \in Symbol : bar[s] <= bar'[s]
    BY <1>2 DEF Runner!vars, RunnerInv, RunnerTypes
  <2>2. RunnerTypes' /\ Runner!WaitingHasFlush' /\ RecordedAreThrottled'
    BY <1>2 DEF Runner!vars, RunnerInv, RunnerTypes, Runner!WaitingHasFlush, RecordedAreThrottled
  <2> QED
    BY <1>2, <2>1, <2>2, RunnerFrame DEF Runner!vars, RunnerInv
<1> QED
  BY <1>1, <1>2, RunnerIngests, RunnerIntervalPasses, RunnerFlushStarts, RunnerFlushEnds,
     RunnerRevalidates, Zenon
  DEF Runner!Next

LEMMA RunnerInvariant == Runner!Spec => []RunnerInv
<1>1. Runner!Init => RunnerInv
  <2> SUFFICES ASSUME Runner!Init PROVE RunnerInv
    OBVIOUS
  <2>1. RunnerTypes
    BY IdleIsATask DEF Runner!Init, RunnerTypes
  <2>2. \A t \in Runner!Task : task[t].pc = "idle"
    BY IdleIsATask DEF Runner!Init
  <2>3. ReadsInOrder /\ StreamsInOrder
    BY <2>2, StreamKeys DEF Runner!Init, ReadsInOrder, StreamsInOrder
  <2> QED
    BY <2>1, <2>3 DEF Runner!Init, RunnerInv, Runner!WaitingHasFlush, Runner!RepeatExplained,
                      RecordedAreThrottled
<1>2. QED
  BY <1>1, RunnerStep, PTL DEF Runner!Spec

\* The timers of realtime-ea-signal-runner.js: a symbol that waits has a flush to come.
THEOREM WaitingSymbolsAreFlushed == ComponentsSpec => []WaitingHasFlush
<1>1. RunnerInv => WaitingHasFlush
  BY DEF RunnerInv, WaitingHasFlush
<1>2. QED
  BY <1>1, RunnerInvariant, PTL DEF ComponentsSpec

\* lastPublishedBarTime, read and written around an await: a bar is announced twice only
\* after a task took the stream back to an older bar.
THEOREM RepeatsAreExplained == ComponentsSpec => []RepeatExplained
<1>1. RunnerInv => RepeatExplained
  BY DEF RunnerInv, RepeatExplained
<1>2. QED
  BY <1>1, RunnerInvariant, PTL DEF ComponentsSpec

\* lastGeneratedAt is kept by stream: the minimum interval of a symbol is missed only after
\* a candidate, an error, or while an analysis has not returned.
THEOREM OnlyCandidatesAreNotThrottled == ComponentsSpec => ThrottleMissesOnlyCandidates
<1>1. RunnerInv /\ [Runner!Next]_Runner!vars =>
        [\A f \in Flush : task[f].pc = "loop" /\ task'[f].pc = "await"
             => since[task'[f].cur] # "recorded"]_Runner!vars
  <2> SUFFICES ASSUME RunnerInv, Runner!Next, NEW f \in Flush, task[f].pc = "loop",
                      task'[f].pc = "await"
               PROVE  since[task'[f].cur] # "recorded"
    OBVIOUS
  <2>1. f \in Runner!Task /\ f \notin Reval /\ task \in [Runner!Task -> TaskRecord]
    BY RunnerAssumption DEF Runner!Task, RunnerInv, RunnerTypes
  <2>2. ASSUME NEW k \in Runner!Key, Runner!Generate(f, k)
        PROVE  since[task'[f].cur] # "recorded"
    <3>1. task'[f].cur = k[1] /\ Runner!Main(k[1]) \notin recent
      BY <2>1, <2>2 DEF Runner!Generate, Runner!Throttled
    <3> QED
      BY <3>1, StreamKeys DEF RunnerInv, RecordedAreThrottled
  <2>3. ASSUME task' = task PROVE FALSE
    BY <2>3
  <2>5. ASSUME NEW u \in Runner!Task, task' = Runner!Back(u) PROVE FALSE
    BY <2>1, <2>5 DEF Runner!Back, TaskRecord
  <2>6. ASSUME NEW s \in Symbol, Runner!Ingest(s) \/ Runner!IntervalPasses(s) PROVE FALSE
    BY <2>3, <2>6 DEF Runner!Ingest, Runner!IntervalPasses
  <2>7. ASSUME NEW g \in Flush, Runner!StartFlush(g) \/ Runner!EndFlush(g) PROVE FALSE
    BY <2>1, <2>3, <2>7 DEF Runner!StartFlush, Runner!EndFlush, Runner!Idle
  <2>8. ASSUME NEW v \in Reval, Runner!StartReval(v) \/ Runner!EndReval(v) PROVE FALSE
    BY <2>1, <2>8 DEF Runner!StartReval, Runner!EndReval
  <2>9. ASSUME NEW u \in Runner!Task, NEW k \in Runner!Key,
               Runner!PassOver(u, k) \/ Runner!HoldBack(u, k)
        PROVE  FALSE
    BY <2>1, <2>9 DEF Runner!PassOver, Runner!HoldBack, Runner!Done, TaskRecord
  <2>10. ASSUME NEW u \in Runner!Task, NEW k \in Runner!Key, Runner!Generate(u, k), u # f
         PROVE  FALSE
    BY <2>1, <2>10 DEF Runner!Generate
  <2>11. ASSUME NEW u \in Runner!Task, NEW k \in Runner!Key, NEW sig, Runner!Publish(u, k, sig)
         PROVE  FALSE
    <3>1. task'[f] = IF f = u THEN Runner!Back(u)[u]
                     ELSE IF task[f].cur = task[u].cur THEN [task[f] EXCEPT !.stale = TRUE]
                     ELSE task[f]
      BY <2>1, <2>11 DEF Runner!Publish
    <3>2. Runner!Back(u)[u].pc = "loop"
      BY <2>1 DEF Runner!Back, TaskRecord
    <3>3. [task[f] EXCEPT !.stale = TRUE].pc = task[f].pc
      BY <2>1 DEF TaskRecord
    <3> QED
      BY <3>1, <3>2, <3>3
  <2>12. ASSUME NEW u \in Runner!Task, Runner!Finish(u) PROVE FALSE
    BY <2>3, <2>5, <2>11, <2>12, Zenon
    DEF Runner!Finish, Runner!Fails, Runner!Withhold, Runner!Suppress, Runner!Malformed
  <2> QED
    BY <2>2, <2>6, <2>7, <2>8, <2>9, <2>10, <2>12, Zenon DEF Runner!Next, Runner!Step
<1>2. QED
  BY <1>1, RunnerInvariant, PTL
  DEF ComponentsSpec, Runner!Spec, ThrottleMissesOnlyCandidates, Runner!ThrottleMissesOnlyCandidates

(***************************************************************************)
(* Market series.  Elements are found by how many come before them: ranks  *)
(* in a finite set of numbers.                                             *)
(***************************************************************************)
Up(T, t) == {u \in T : u > t}
Down(T, t) == {u \in T : u < t}

LEMMA SeriesCardinality == \A S : MarketData!Cardinality(S) = Cardinality(S)
BY DEF MarketData!Cardinality, Cardinality

LEMMA CardinalFacts ==
  ASSUME NEW S, IsFiniteSet(S)
  PROVE  /\ MarketData!Cardinality(S) \in Nat
         /\ \A T \in SUBSET S : /\ IsFiniteSet(T) /\ MarketData!Cardinality(T) \in Nat
                                /\ MarketData!Cardinality(T) <= MarketData!Cardinality(S)
                                /\ T # S => MarketData!Cardinality(T) < MarketData!Cardinality(S)
         /\ \A x : x \notin S => /\ IsFiniteSet(S \cup {x})
                                 /\ MarketData!Cardinality(S \cup {x}) =
                                      MarketData!Cardinality(S) + 1
         /\ MarketData!Cardinality(S) = 0 <=> S = {}
<1>1. \A T : MarketData!Cardinality(T) = MarketData!Cardinality(T)
  OBVIOUS
<1>2. MarketData!Cardinality(S) \in Nat /\ (MarketData!Cardinality(S) = 0 <=> S = {})
  BY FS_CardinalityType, FS_EmptySet, SeriesCardinality
<1>3. ASSUME NEW T \in SUBSET S
      PROVE  /\ IsFiniteSet(T) /\ MarketData!Cardinality(T) \in Nat
             /\ MarketData!Cardinality(T) <= MarketData!Cardinality(S)
             /\ T # S => MarketData!Cardinality(T) < MarketData!Cardinality(S)
  <2>1. /\ IsFiniteSet(T) /\ MarketData!Cardinality(T) <= MarketData!Cardinality(S)
        /\ MarketData!Cardinality(S) = MarketData!Cardinality(T) => S = T
    BY FS_Subset, SeriesCardinality
  <2>2. MarketData!Cardinality(T) \in Nat
    BY <2>1, FS_CardinalityType, SeriesCardinality
  <2> QED
    BY <1>2, <2>1, <2>2
<1>4. \A x : x \notin S => IsFiniteSet(S \cup {x}) /\
      MarketData!Cardinality(S \cup {x}) = MarketData!Cardinality(S) + 1
  BY FS_AddElement, SeriesCardinality
<1> QED
  BY <1>1, <1>2, <1>3, <1>4

LEMMA IntervalCardinal ==
  ASSUME NEW n \in Nat
  PROVE  /\ IsFiniteSet(1..n) /\ MarketData!Cardinality(1..n) = n
         /\ IsFiniteSet(0..(n - 1)) /\ MarketData!Cardinality(0..(n - 1)) = n
<1>1. /\ IsFiniteSet(1..n) /\ MarketData!Cardinality(1..n) = n
  BY FS_Interval, SeriesCardinality
<1>2. /\ IsFiniteSet(0..(n - 1)) /\ MarketData!Cardinality(0..(n - 1)) = n
  BY FS_Interval, SeriesCardinality
<1> QED
  BY <1>1, <1>2

\* Of two members of a set, the larger has more below it and less above it.
LEMMA RankStrict ==
  ASSUME NEW T \in SUBSET Int, IsFiniteSet(T), NEW s \in T, NEW t \in T, s < t
  PROVE  /\ MarketData!Cardinality(Up(T, t)) < MarketData!Cardinality(Up(T, s))
         /\ MarketData!Cardinality(Down(T, s)) < MarketData!Cardinality(Down(T, t))
<1>1. /\ t \in Up(T, s) /\ t \notin Up(T, t) /\ s \in Down(T, t) /\ s \notin Down(T, s)
      /\ \A u \in T : (u > t => u > s) /\ (u < s => u < t)
  BY DEF Up, Down
<1>3. Up(T, t) \in SUBSET Up(T, s) /\ Down(T, s) \in SUBSET Down(T, t)
  BY <1>1 DEF Up, Down
<1>2. IsFiniteSet(Up(T, s)) /\ IsFiniteSet(Down(T, t))
  BY FS_Subset, SeriesCardinality DEF Up, Down
<1> QED
  BY <1>1, <1>2, <1>3, CardinalFacts

LEMMA RankUnique ==
  ASSUME NEW T \in SUBSET Int, IsFiniteSet(T), NEW s \in T, NEW t \in T,
         \/ MarketData!Cardinality(Up(T, t)) = MarketData!Cardinality(Up(T, s))
         \/ MarketData!Cardinality(Down(T, t)) = MarketData!Cardinality(Down(T, s))
  PROVE  s = t
<1>1. /\ Up(T, s) \in SUBSET T /\ Up(T, t) \in SUBSET T /\ Down(T, s) \in SUBSET T
      /\ Down(T, t) \in SUBSET T
  BY DEF Up, Down
<1>2. {MarketData!Cardinality(Up(T, s)), MarketData!Cardinality(Up(T, t)),
        MarketData!Cardinality(Down(T, s)), MarketData!Cardinality(Down(T, t))} \subseteq Nat
  BY <1>1, CardinalFacts
<1>3. CASE s < t
  BY <1>2, <1>3, RankStrict
<1>4. CASE t < s
  BY <1>2, <1>4, RankStrict
<1> QED
  BY <1>3, <1>4

LEMMA RankBelow ==
  ASSUME NEW T \in SUBSET Int, IsFiniteSet(T), NEW t \in T
  PROVE  /\ MarketData!Cardinality(Up(T, t)) \in 0..(MarketData!Cardinality(T) - 1)
         /\ MarketData!Cardinality(Down(T, t)) \in 0..(MarketData!Cardinality(T) - 1)
<1>1. Up(T, t) \in SUBSET T /\ Up(T, t) # T /\ Down(T, t) \in SUBSET T /\ Down(T, t) # T
  BY DEF Up, Down
<1> QED
  BY <1>1, CardinalFacts

\* Every rank is taken.
LEMMA RankTaken ==
  ASSUME NEW T \in SUBSET Int, IsFiniteSet(T), NEW k \in 1..MarketData!Cardinality(T)
  PROVE  /\ \E t \in T : MarketData!Cardinality(Up(T, t)) = k - 1
         /\ \E t \in T : MarketData!Cardinality(Down(T, t)) = k - 1
<1> DEFINE f == [t \in T |-> MarketData!Cardinality(Up(T, t))]
           g == [t \in T |-> MarketData!Cardinality(Down(T, t))]
           R == 0..(MarketData!Cardinality(T) - 1)
<1>1. f \in Injection(T, R) /\ g \in Injection(T, R)
  <2>1. f \in [T -> R] /\ g \in [T -> R]
    BY RankBelow
  <2>2. \A s, t \in T : f[s] = f[t] \/ g[s] = g[t] => s = t
    BY RankUnique
  <2> QED
    BY <2>1, <2>2 DEF Injection, IsInjective
<1>2. MarketData!Cardinality(T) \in Nat
  BY CardinalFacts
<1>3. IsFiniteSet(R) /\ MarketData!Cardinality(R) = MarketData!Cardinality(T)
  BY <1>2, IntervalCardinal
<1>4. f \in Surjection(T, R) /\ g \in Surjection(T, R)
  <2> HIDE DEF f, g, R
  <2> QED
    BY <1>1, <1>3, FS_Injection, SeriesCardinality
<1>5. k - 1 \in R
  BY <1>2
<1> QED
  BY <1>4, <1>5 DEF Surjection

\* A number larger than all others comes before them.
LEMMA UpToNewest ==
  ASSUME NEW T \in SUBSET Nat, IsFiniteSet(T), NEW t \in Nat, \A x \in T : x < t
  PROVE  /\ MarketData!Cardinality(T \cup {t}) = MarketData!Cardinality(T) + 1
         /\ MarketData!Cardinality(Up(T \cup {t}, t)) = 0
         /\ \A x \in T : MarketData!Cardinality(Up(T \cup {t}, x)) =
              MarketData!Cardinality(Up(T, x)) + 1
<1>1. t \notin T /\ ~(t > t) /\ \A x \in T : ~(x > t)
  OBVIOUS
<1>2. MarketData!Cardinality(T \cup {t}) = MarketData!Cardinality(T) + 1
  BY <1>1, CardinalFacts
<1>3. Up(T \cup {t}, t) = {}
  BY <1>1 DEF Up
<1>4. MarketData!Cardinality(Up(T \cup {t}, t)) = 0
  BY <1>3, FS_EmptySet, SeriesCardinality
<1>5. ASSUME NEW x \in T
      PROVE  MarketData!Cardinality(Up(T \cup {t}, x)) = MarketData!Cardinality(Up(T, x)) + 1
  <2>1. Up(T, x) \in SUBSET T /\ t \notin Up(T, x)
    BY <1>1 DEF Up
  <2>2. t > x
    OBVIOUS
  <2>3. Up(T \cup {t}, x) = Up(T, x) \cup {t}
    BY <2>2 DEF Up
  <2>4. IsFiniteSet(Up(T, x))
    BY <2>1, FS_Subset, SeriesCardinality
  <2> QED
    BY <2>1, <2>3, <2>4, CardinalFacts
<1> QED
  BY <1>2, <1>4, <1>5

LEMMA LeastOf ==
  ASSUME NEW T \in SUBSET Nat, T # {}
  PROVE  \E x \in T : \A y \in T : x <= y
<1>1. \E x \in T : \A y \in T : ~(<<y, x>> \in OpToRel(<, Nat))
  BY NatLessThanWellFounded, WFMin
<1>2. \A x, y \in T : ~(<<y, x>> \in OpToRel(<, Nat)) => x <= y
  BY DEF OpToRel
<1> QED
  BY <1>1, <1>2, Zenon

\* A sequence of elements with times.
Timed(q, n) == n \in Nat /\ DOMAIN q = 1..n /\ \A i \in 1..n : q[i].time \in Nat

LEMMA TimesAreCounted ==
  ASSUME NEW q, NEW n, Timed(q, n)
  PROVE  /\ IsFiniteSet(MarketData!TimesOf(q)) /\ MarketData!TimesOf(q) \in SUBSET Nat
         /\ (\A i, j \in 1..n : q[i].time = q[j].time => i = j) =>
              MarketData!Cardinality(MarketData!TimesOf(q)) = n
<1> DEFINE g == [i \in 1..n |-> q[i].time]
<1>1. /\ MarketData!TimesOf(q) = {q[i].time : i \in 1..n} /\ n \in Nat
      /\ MarketData!TimesOf(q) \in SUBSET Nat
  BY DEF MarketData!TimesOf, Timed
<1>2. IsFiniteSet(1..n) /\ MarketData!Cardinality(1..n) = n
  BY <1>1, IntervalCardinal
<1>3. g \in Surjection(1..n, MarketData!TimesOf(q))
  BY <1>1 DEF Surjection
<1>4. (\A i, j \in 1..n : q[i].time = q[j].time => i = j) =>
        g \in Injection(1..n, MarketData!TimesOf(q))
  BY <1>1 DEF Injection, IsInjective
<1> HIDE DEF g
<1>5. /\ IsFiniteSet(MarketData!TimesOf(q))
      /\ MarketData!Cardinality(MarketData!TimesOf(q)) =
           MarketData!Cardinality(1..n) <=> g \in Injection(1..n, MarketData!TimesOf(q))
  BY <1>2, <1>3, FS_Surjection, SeriesCardinality
<1> QED
  BY <1>1, <1>2, <1>4, <1>5, Zenon

\* Its times are finitely many, the first elements are elements, each time has
\* one, and no two share one.
LEMMA FirstsFacts ==
  ASSUME NEW q, NEW n, Timed(q, n)
  PROVE  /\ IsFiniteSet(MarketData!TimesOf(q)) /\ MarketData!TimesOf(q) \in SUBSET Nat
         /\ IsFiniteSet(MarketData!Firsts(q)) /\ MarketData!Firsts(q) \in SUBSET (1..n)
         /\ \A t \in MarketData!TimesOf(q) : \E i \in MarketData!Firsts(q) : q[i].time = t
         /\ \A i, j \in MarketData!Firsts(q) : q[i].time = q[j].time => i = j
<1>1. IsFiniteSet(1..n)
  BY IntervalCardinal DEF Timed
<1>2. IsFiniteSet(MarketData!TimesOf(q)) /\ MarketData!TimesOf(q) \in SUBSET Nat
  BY TimesAreCounted
<1>3. MarketData!Firsts(q) \in SUBSET (1..n)
  BY DEF MarketData!Firsts, Timed
<1>4. IsFiniteSet(MarketData!Firsts(q))
  BY <1>1, <1>3, FS_Subset, SeriesCardinality
<1>5. ASSUME NEW t \in MarketData!TimesOf(q)
      PROVE  \E i \in MarketData!Firsts(q) : q[i].time = t
  <2> DEFINE I == {i \in 1..n : q[i].time = t}
  <2>1. I # {} /\ I \in SUBSET Nat
    BY DEF MarketData!TimesOf, Timed
  <2>2. PICK i \in I : \A j \in I : i <= j
    <3> HIDE DEF I
    <3> QED
      BY <2>1, LeastOf
  <2>3. i \in 1..n /\ n \in Nat /\ q[i].time = t
    BY DEF Timed
  <2>4. \A j \in 1..(i - 1) : q[j].time # q[i].time
    <3>1. \A j \in 1..(i - 1) : j \in 1..n /\ ~(i <= j)
      BY <2>3
    <3> QED
      BY <2>2, <2>3, <3>1
  <2> QED
    BY <2>3, <2>4 DEF MarketData!Firsts, Timed
<1>6. ASSUME NEW i \in MarketData!Firsts(q), NEW j \in MarketData!Firsts(q), q[i].time = q[j].time
      PROVE  i = j
  <2>1. i \in 1..n /\ j \in 1..n /\ n \in Nat
    BY <1>3 DEF Timed
  <2>2. ~(i < j) /\ ~(j < i)
    <3>1. i < j => i \in 1..(j - 1)
      BY <2>1
    <3>2. j < i => j \in 1..(i - 1)
      BY <2>1
    <3> QED
      BY <1>6, <3>1, <3>2 DEF MarketData!Firsts
  <2> QED
    BY <2>1, <2>2
<1> QED
  BY <1>2, <1>3, <1>4, <1>5, <1>6

\* What Dedupe keeps: the first elements, in their order.
LEMMA DedupeFacts ==
  ASSUME NEW q, NEW n, Timed(q, n)
  PROVE  LET c == MarketData!Cardinality(MarketData!Firsts(q)) IN
         /\ c \in Nat /\ DOMAIN MarketData!Dedupe(q) = 1..c
         /\ \A k \in 1..c : /\ MarketData!NthFirst(q, k) \in MarketData!Firsts(q)
                            /\ MarketData!Cardinality(Down(MarketData!Firsts(q), MarketData!NthFirst(q, k))) = k - 1
                            /\ MarketData!Dedupe(q)[k] = q[MarketData!NthFirst(q, k)]
<1>1. IsFiniteSet(MarketData!Firsts(q)) /\ MarketData!Firsts(q) \in SUBSET Int
  BY FirstsFacts DEF Timed
<1>2. ASSUME NEW k \in 1..MarketData!Cardinality(MarketData!Firsts(q))
      PROVE  /\ MarketData!NthFirst(q, k) \in MarketData!Firsts(q)
             /\ MarketData!Cardinality(Down(MarketData!Firsts(q), MarketData!NthFirst(q, k))) =
                  k - 1
  <2>1. \E i \in MarketData!Firsts(q) : MarketData!Cardinality(Down(MarketData!Firsts(q), i)) =
          k - 1
    BY <1>1, RankTaken
  <2>2. MarketData!NthFirst(q, k) = CHOOSE i \in MarketData!Firsts(q) :
          MarketData!Cardinality(Down(MarketData!Firsts(q), i)) = k - 1
    BY DEF MarketData!NthFirst, Down
  <2> QED
    BY <2>1, <2>2, Zenon
<1>3. MarketData!Cardinality(MarketData!Firsts(q)) \in Nat
  BY <1>1, CardinalFacts
<1> QED
  BY <1>2, <1>3 DEF MarketData!Dedupe

\* What Sorted puts at each place: the first element with the time of this rank.
LEMMA SortedFacts ==
  ASSUME NEW q, NEW n, Timed(q, n)
  PROVE  LET c == MarketData!Cardinality(MarketData!TimesOf(q)) IN
         /\ c \in Nat /\ DOMAIN MarketData!Sorted(q) = 1..c
         /\ \A k \in 1..c : \E i \in MarketData!Firsts(q) :
              /\ MarketData!Sorted(q)[k] = q[i]
              /\ MarketData!Cardinality(Up(MarketData!TimesOf(q), q[i].time)) = k - 1
<1>1. IsFiniteSet(MarketData!TimesOf(q)) /\ MarketData!TimesOf(q) \in SUBSET Int
  BY FirstsFacts
<1>2. MarketData!Cardinality(MarketData!TimesOf(q)) \in Nat
  BY <1>1, CardinalFacts
<1>3. ASSUME NEW k \in 1..MarketData!Cardinality(MarketData!TimesOf(q))
      PROVE  \E i \in MarketData!Firsts(q) : /\ MarketData!NthNewest(q, k) = q[i]
                                  /\ MarketData!Cardinality(Up(MarketData!TimesOf(q), q[i].time)) =
                                       k - 1
  <2> DEFINE at == CHOOSE t \in MarketData!TimesOf(q) :
               MarketData!Cardinality(Up(MarketData!TimesOf(q), t)) = k - 1
             i == CHOOSE i \in MarketData!Firsts(q) : q[i].time = at
  <2>1. \E t \in MarketData!TimesOf(q) : MarketData!Cardinality(Up(MarketData!TimesOf(q), t)) =
          k - 1
    BY <1>1, RankTaken
  <2>2. /\ at \in MarketData!TimesOf(q)
        /\ MarketData!Cardinality(Up(MarketData!TimesOf(q), at)) = k - 1
    BY <2>1, Zenon
  <2>3. MarketData!NthNewest(q, k) = q[i]
    BY DEF MarketData!NthNewest, Up
  <2> HIDE DEF at
  <2>4. \E j \in MarketData!Firsts(q) : q[j].time = at
    BY <2>2, FirstsFacts
  <2>5. i \in MarketData!Firsts(q) /\ q[i].time = at
    BY <2>4, Zenon
  <2> QED
    BY <2>2, <2>3, <2>5
<1> QED
  BY <1>2, <1>3 DEF MarketData!Sorted

LEMMA SequenceOf ==
  ASSUME NEW S, NEW n \in Nat, NEW q \in [1..n -> S]
  PROVE  q \in Seq(S) /\ Len(q) = n
OBVIOUS

JoinOf(q, a, m, b, n) ==
  /\ \A i \in 1..m : i \in 1..(m + n) /\ q[i] = a[i]
  /\ \A j \in 1..n : m + j \in 1..(m + n) /\ q[m + j] = b[j]
  /\ \A i \in 1..(m + n) : i \in 1..m \/ \E j \in 1..n : i = m + j

LEMMA Joined ==
  ASSUME NEW S, NEW m \in Nat, NEW n \in Nat, NEW a \in [1..m -> S], NEW b \in [1..n -> S]
  PROVE  /\ a \o b \in [1..(m + n) -> S] /\ m + n \in Nat
         /\ JoinOf(a \o b, a, m, b, n)
<1>1. a \in Seq(S) /\ Len(a) = m /\ b \in Seq(S) /\ Len(b) = n
  BY SequenceOf
<1>2. /\ a \o b \in Seq(S) /\ Len(a \o b) = Len(a) + Len(b)
      /\ \A i \in 1..(Len(a) + Len(b)) : (a \o b)[i] = IF i <= Len(a) THEN a[i] ELSE b[i - Len(a)]
  BY <1>1, ConcatProperties, Zenon
<1>3. a \o b \in [1..(m + n) -> S]
  BY <1>1, <1>2, LenProperties
<1>4. \A i \in 1..m : i \in 1..(m + n) /\ i <= m
  OBVIOUS
<1>5. \A j \in 1..n : m + j \in 1..(m + n) /\ ~(m + j <= m) /\ (m + j) - m = j
  OBVIOUS
<1>6. ASSUME NEW i \in 1..(m + n), i \notin 1..m PROVE \E j \in 1..n : i = m + j
  <2>1. i - m \in 1..n /\ i = m + (i - m)
    BY <1>6
  <2> QED
    BY <2>1
<1> QED
  BY <1>1, <1>2, <1>3, <1>4, <1>5, <1>6 DEF JoinOf

\* The first elements of a sequence that is cut.
LEMMA CutIsPrefix ==
  ASSUME NEW S, NEW m \in Nat, NEW n \in Nat, NEW s \in [1..n -> S],
         NEW i \in 1..MarketData!Smaller(m, n)
  PROVE  MarketData!Cut(s, m)[i] = s[i]
<1>1. s \in Seq(S) /\ Len(s) = n
  BY SequenceOf
<1>2. MarketData!Smaller(m, n) \in Nat /\ MarketData!Smaller(m, n) <= n
  BY DEF MarketData!Smaller
<1>3. MarketData!Cut(s, m) = SubSeq(s, 1, MarketData!Smaller(m, n))
  BY <1>1 DEF MarketData!Cut
<1> QED
  BY <1>1, <1>2, <1>3

LEMMA CutType ==
  ASSUME NEW S, NEW m \in Nat, NEW n \in Nat, NEW s \in [1..n -> S]
  PROVE  /\ MarketData!Smaller(m, n) \in Nat /\ MarketData!Smaller(m, n) <= n
         /\ MarketData!Smaller(m, n) <= m
         /\ MarketData!Cut(s, m) \in [1..MarketData!Smaller(m, n) -> S]
<1>1. s \in Seq(S) /\ Len(s) = n
  BY SequenceOf
<1>2. /\ MarketData!Smaller(m, n) \in Nat /\ MarketData!Smaller(m, n) <= n
      /\ MarketData!Smaller(m, n) <= m
  BY DEF MarketData!Smaller
<1>3. MarketData!Cut(s, m) = SubSeq(s, 1, MarketData!Smaller(m, n))
  BY <1>1 DEF MarketData!Cut
<1>4. /\ SubSeq(s, 1, MarketData!Smaller(m, n)) \in Seq(S)
      /\ Len(SubSeq(s, 1, MarketData!Smaller(m, n))) = MarketData!Smaller(m, n)
  BY <1>1, <1>2
<1>5. SubSeq(s, 1, MarketData!Smaller(m, n)) \in [1..MarketData!Smaller(m, n) -> S]
  BY <1>2, <1>4, LenProperties
<1> QED
  BY <1>2, <1>3, <1>5

\* If what is missing in T of a set Q is below m members of T, the m newest of T are
\* those of Q.
LEMMA NewestAreThose ==
  ASSUME NEW Q \in SUBSET Int, IsFiniteSet(Q), NEW T \in SUBSET Q, NEW m \in Nat,
         \A u \in Q \ T : \E B \in SUBSET T : MarketData!Cardinality(B) = m /\ \A v \in B : v > u
  PROVE  /\ MarketData!Smaller(m, MarketData!Cardinality(T)) =
              MarketData!Smaller(m, MarketData!Cardinality(Q))
         /\ \A x \in T : MarketData!Cardinality(Up(T, x)) < m => Up(Q, x) = Up(T, x)
<1>1. IsFiniteSet(T)
  BY FS_Subset, SeriesCardinality
<1>2. /\ MarketData!Cardinality(T) \in Nat /\ MarketData!Cardinality(Q) \in Nat
      /\ MarketData!Cardinality(T) <= MarketData!Cardinality(Q)
  BY CardinalFacts
<1>3. ASSUME NEW u \in Q \ T PROVE m <= MarketData!Cardinality(T)
  <2>1. PICK B \in SUBSET T : MarketData!Cardinality(B) = m
    OBVIOUS
  <2> QED
    BY <1>1, <2>1, CardinalFacts
<1>4. ASSUME NEW x \in T, MarketData!Cardinality(Up(T, x)) < m, NEW u \in Q \ T, u > x PROVE FALSE
  <2>1. PICK B \in SUBSET T : MarketData!Cardinality(B) = m /\ \A v \in B : v > u
    OBVIOUS
  <2>2. B \in SUBSET Up(T, x) /\ Up(T, x) \in SUBSET T
    BY <1>4, <2>1 DEF Up
  <2>3. IsFiniteSet(Up(T, x)) /\ MarketData!Cardinality(Up(T, x)) \in Nat
    BY <1>1, <2>2, CardinalFacts
  <2>4. MarketData!Cardinality(B) <= MarketData!Cardinality(Up(T, x))
    BY <2>2, <2>3, CardinalFacts
  <2> QED
    BY <1>4, <2>1, <2>3, <2>4
<1>5. ASSUME NEW x \in T, MarketData!Cardinality(Up(T, x)) < m PROVE Up(Q, x) = Up(T, x)
  BY <1>4, <1>5 DEF Up
<1>6. MarketData!Smaller(m, MarketData!Cardinality(T)) =
        MarketData!Smaller(m, MarketData!Cardinality(Q))
  <2>1. CASE T = Q
    BY <2>1
  <2>2. CASE T # Q
    <3>1. m <= MarketData!Cardinality(T)
      BY <1>3, <2>2
    <3> QED
      BY <1>2, <3>1 DEF MarketData!Smaller
  <2> QED
    BY <2>1, <2>2
<1> QED
  BY <1>5, <1>6

\* If a sequence holds the m newest of Q, newest first, what it misses is older than m.
LEMMA MissingIsOlder ==
  ASSUME NEW Q \in SUBSET Nat, IsFiniteSet(Q), NEW m \in Nat, NEW q, NEW n,
         Timed(q, n), n = MarketData!Smaller(m, MarketData!Cardinality(Q)),
         \A k \in 1..n : q[k].time \in Q /\ MarketData!Cardinality(Up(Q, q[k].time)) = k - 1,
         NEW u \in Q \ MarketData!TimesOf(q)
  PROVE  MarketData!Cardinality(MarketData!TimesOf(q)) = m /\ \A v \in MarketData!TimesOf(q) : v > u
<1> DEFINE r == MarketData!Cardinality(Up(Q, u))
<1>0. Q \in SUBSET Int /\ u \in Q
  OBVIOUS
<1>1. r \in 0..(MarketData!Cardinality(Q) - 1) /\ MarketData!Cardinality(Q) \in Nat
  BY <1>0, RankBelow, CardinalFacts
<1>2. n \in Nat
  BY DEF Timed
<1>3. MarketData!TimesOf(q) = {q[k].time : k \in 1..n}
  BY DEF MarketData!TimesOf, Timed
<1>4. n <= r
  <2>1. ASSUME r < n PROVE FALSE
    <3>1. r + 1 \in 1..n /\ (r + 1) - 1 = r
      BY <1>1, <1>2, <2>1
    <3>2. q[r + 1].time \in Q /\ MarketData!Cardinality(Up(Q, q[r + 1].time)) = r
      BY <3>1
    <3> HIDE DEF r
    <3>3. ASSUME NEW v \in Q, MarketData!Cardinality(Up(Q, v)) = MarketData!Cardinality(Up(Q, u))
          PROVE  v = u
      BY <1>0, <3>3, RankUnique
    <3>4. q[r + 1].time = u
      BY <3>2, <3>3 DEF r
    <3> QED
      BY <1>3, <3>1, <3>4
  <2> QED
    BY <1>1, <1>2, <2>1
<1>5. n = m
  BY <1>1, <1>4 DEF MarketData!Smaller
<1>6. ASSUME NEW k \in 1..n PROVE q[k].time > u
  <2>1. q[k].time \in Q /\ MarketData!Cardinality(Up(Q, q[k].time)) = k - 1 /\ k - 1 < r
    BY <1>1, <1>2, <1>4
  <2>2. ~(q[k].time < u)
    <3> HIDE DEF r
    <3>1. ASSUME q[k].time < u PROVE r < MarketData!Cardinality(Up(Q, q[k].time))
      BY <1>0, <2>1, <3>1, RankStrict DEF r
    <3> QED
      BY <1>1, <1>2, <2>1, <3>1
  <2>3. q[k].time # u
    BY <1>3
  <2>4. q[k].time \in Int /\ u \in Int
    BY <1>0, <2>1
  <2> HIDE DEF r
  <2> QED
    BY <2>2, <2>3, <2>4
<1>7. MarketData!Cardinality(MarketData!TimesOf(q)) = n
  BY TimesAreCounted
<1> QED
  BY <1>3, <1>5, <1>6, <1>7

\* What the bars were made of: a bar for each of the newest minutes received.
Received == {t \in MarketData!Minutes : sent[t] # 0}
Bar == [time : MarketData!Minutes, close : Nat]

MarketTypes ==
  /\ minute \in MarketData!Minutes
  /\ market \in [1..minute -> Prices]
  /\ sent \in [MarketData!Minutes -> Nat]

BarsInv ==
  /\ bars \in [1..MarketData!Smaller(MaxSeries, MarketData!Cardinality(Received)) -> Bar]
  /\ \A k \in DOMAIN bars :
       /\ bars[k].time \in Received
       /\ bars[k].close = sent[bars[k].time]
       /\ MarketData!Cardinality(Up(Received, bars[k].time)) = k - 1

LEMMA ReceivedIsFinite ==
  ASSUME NEW Q \in SUBSET MarketData!Minutes
  PROVE  /\ IsFiniteSet(Q) /\ Q \in SUBSET Nat /\ MarketData!Cardinality(Q) \in Nat
         /\ MarketData!Smaller(MaxSeries, MarketData!Cardinality(Q)) \in Nat
<1>1. MaxTime \in Nat /\ MaxSeries \in Nat
  BY SeriesAssumption
<1>2. IsFiniteSet(Q) /\ Q \in SUBSET Nat
  <2>1. IsFiniteSet(1..MaxTime)
    BY <1>1, IntervalCardinal
  <2>2. IsFiniteSet(Q)
    BY <2>1, FS_Subset, SeriesCardinality, Zenon DEF MarketData!Minutes
  <2>3. Q \in SUBSET Nat
    BY <1>1 DEF MarketData!Minutes
  <2> QED
    BY <2>2, <2>3
<1>3. MarketData!Cardinality(Q) \in Nat
  BY <1>2, CardinalFacts
<1> QED
  BY <1>1, <1>2, <1>3 DEF MarketData!Smaller

LEMMA BarsMeanNewest == BarsInv => MarketData!BarsAreNewest
<1> SUFFICES ASSUME BarsInv PROVE MarketData!BarsAreNewest
  OBVIOUS
<1>1. MarketData!Smaller(MaxSeries, MarketData!Cardinality(Received)) \in Nat
  BY ReceivedIsFinite DEF Received
<1>2. Len(bars) = MarketData!Smaller(MaxSeries, MarketData!Cardinality(Received))
  BY <1>1 DEF BarsInv
<1> QED
  BY <1>2 DEF BarsInv, MarketData!BarsAreNewest, Received, Up

LEMMA PayloadFacts ==
  ASSUME MarketTypes, NEW t \in 1..minute, NEW n \in Depth, n <= t
  PROVE  /\ n \in Nat \ {0} /\ (t - n + 1)..t \subseteq MarketData!Minutes
         /\ MarketData!Payload(t, n) \in [1..n -> [time : MarketData!Minutes, close : Prices]]
         /\ MarketData!Payload(t, n) \in Seq([time : MarketData!Minutes, close : Prices])
         /\ Len(MarketData!Payload(t, n)) = n
         /\ \A i \in 1..n : /\ MarketData!Payload(t, n)[i].time = t - i + 1
                            /\ MarketData!Payload(t, n)[i].time \in (t - n + 1)..t
                            /\ MarketData!Payload(t, n)[i].close = market[t - i + 1]
<1>1. n \in Nat \ {0} /\ minute \in 1..MaxTime /\ MaxTime \in Nat /\ t \in Nat
  BY SeriesAssumption DEF MarketTypes, MarketData!Minutes
<1>2. \A i \in 1..n : /\ t - i + 1 \in MarketData!Minutes /\ t - i + 1 \in (t - n + 1)..t
                      /\ t - i + 1 \in 1..minute
  BY <1>1 DEF MarketData!Minutes
<1>3. \A i \in 1..n : market[t - i + 1] \in Prices
  BY <1>2 DEF MarketTypes
<1>4. MarketData!Payload(t, n) \in [1..n -> [time : MarketData!Minutes, close : Prices]]
  BY <1>2, <1>3 DEF MarketData!Payload
<1>5. /\ MarketData!Payload(t, n) \in Seq([time : MarketData!Minutes, close : Prices])
      /\ Len(MarketData!Payload(t, n)) = n
  BY <1>1, <1>4, SequenceOf
<1>6. (t - n + 1)..t \subseteq MarketData!Minutes
  BY <1>1 DEF MarketData!Minutes
<1> QED
  BY <1>1, <1>2, <1>4, <1>5, <1>6 DEF MarketData!Payload

LEMMA BarsMerge ==
  ASSUME MarketTypes, BarsInv, NEW t \in 1..minute, NEW n \in Depth, n <= t,
         bars' = MarketData!Merged(MarketData!Payload(t, n)),
         sent' = [u \in MarketData!Minutes |-> IF u \in (t - n + 1)..t THEN market[u] ELSE sent[u]],
         UNCHANGED <<minute, market>>
  PROVE  BarsInv' /\ MarketTypes'
<1> DEFINE inc == MarketData!Payload(t, n)
           b == MarketData!Smaller(MaxSeries, MarketData!Cardinality(Received))
           q == inc \o bars
           span == (t - n + 1)..t
           T == MarketData!TimesOf(q)
           c == MarketData!Smaller(MaxSeries, MarketData!Cardinality(T))
<1>1. /\ Prices \subseteq Nat \ {0} /\ MaxSeries \in Nat /\ n \in Nat \ {0}
      /\ minute \in 1..MaxTime /\ MaxTime \in Nat /\ t \in Nat
  BY SeriesAssumption DEF MarketTypes, MarketData!Minutes
<1>2. /\ Received \in SUBSET MarketData!Minutes /\ IsFiniteSet(Received) /\ Received \in SUBSET Nat
      /\ b \in Nat
  BY ReceivedIsFinite DEF Received
<1>3. bars \in [1..b -> Bar]
  BY DEF BarsInv
<1>5. inc \in [1..n -> Bar]
  <2>1. inc \in [1..n -> [time : MarketData!Minutes, close : Prices]]
    BY PayloadFacts
  <2>2. [time : MarketData!Minutes, close : Prices] \subseteq Bar
    BY <1>1 DEF Bar
  <2> QED
    BY <2>1, <2>2
<1> HIDE DEF inc, b
<1>7. n + b \in Nat /\ q \in [1..(n + b) -> Bar]
  BY <1>1, <1>2, <1>3, <1>5, Joined
<1>10. /\ \A i \in 1..n : i \in 1..(n + b) /\ q[i] = inc[i]
       /\ \A j \in 1..b : n + j \in 1..(n + b) /\ q[n + j] = bars[j]
       /\ \A i \in 1..(n + b) : i \in 1..n \/ \E j \in 1..b : i = n + j
  <2>1. JoinOf(q, inc, n, bars, b)
    BY <1>1, <1>2, <1>3, <1>5, Joined
  <2> HIDE DEF q
  <2> QED
    BY <2>1, Zenon DEF JoinOf
<1> HIDE DEF q
<1>8. \A u \in MarketData!Minutes : u \in Nat
  BY <1>1 DEF MarketData!Minutes
<1>9. Timed(q, n + b) /\ Timed(bars, b)
  BY <1>2, <1>3, <1>7, <1>8 DEF Timed, Bar
<1>11. /\ \A u \in span : \E i \in 1..n : inc[i].time = u
       /\ \A i \in 1..n : /\ inc[i].time \in span /\ inc[i].time = t - i + 1
                          /\ inc[i].close = market[inc[i].time]
  <2>1. \A i \in 1..n : /\ inc[i].time = t - i + 1 /\ inc[i].time \in span
                        /\ inc[i].close = market[t - i + 1]
    BY PayloadFacts DEF inc
  <2>2. \A u \in span : t - u + 1 \in 1..n /\ t - (t - u + 1) + 1 = u
    BY <1>1
  <2> QED
    BY <2>1, <2>2
<1>12. T = span \cup MarketData!TimesOf(bars)
  <2>1. T = {q[i].time : i \in 1..(n + b)} /\ MarketData!TimesOf(bars) = {bars[j].time : j \in 1..b}
    BY <1>9 DEF MarketData!TimesOf, Timed
  <2>2. \A x \in T : x \in span \cup MarketData!TimesOf(bars)
    BY <1>10, <1>11, <2>1
  <2>4. \A x \in span : x \in T
    BY <1>10, <1>11, <2>1
  <2>5. \A x \in MarketData!TimesOf(bars) : x \in T
    BY <1>10, <2>1
  <2> QED
    BY <2>2, <2>4, <2>5
<1>13. /\ \A u \in span : u \in MarketData!Minutes /\ u \in 1..minute
       /\ sent' \in [MarketData!Minutes -> Nat]
       /\ \A u \in span : sent'[u] = market[u] /\ market[u] # 0
       /\ \A u \in MarketData!Minutes \ span : sent'[u] = sent[u]
  <2>1. \A u \in span : u \in MarketData!Minutes /\ u \in 1..minute
    BY <1>1 DEF MarketData!Minutes
  <2>2. \A u \in span : market[u] \in Nat \ {0}
    BY <1>1, <2>1 DEF MarketTypes
  <2> QED
    BY <2>1, <2>2 DEF MarketTypes
<1>14. Received' = span \cup Received
  BY <1>13 DEF Received, MarketTypes, MarketData!Minutes
<1>15. /\ MarketData!TimesOf(bars) \in SUBSET Received
       /\ \A k \in 1..b : /\ bars[k].time \in Received /\ bars[k].close = sent[bars[k].time]
                          /\ MarketData!Cardinality(Up(Received, bars[k].time)) = k - 1
  <2>1. DOMAIN bars = 1..b
    BY <1>3
  <2> QED
    BY <2>1 DEF BarsInv, MarketData!TimesOf
<1>16. T \in SUBSET Received' /\ Received' \in SUBSET MarketData!Minutes
  BY <1>2, <1>12, <1>13, <1>14, <1>15
<1>17. ASSUME NEW i \in MarketData!Firsts(q)
       PROVE  /\ q[i] \in Bar /\ q[i].time \in T /\ q[i].time \in Received'
              /\ q[i].close = sent'[q[i].time]
  <2>1. i \in 1..(n + b) /\ \A j \in 1..(i - 1) : q[j].time # q[i].time
    BY <1>9 DEF MarketData!Firsts, Timed
  <2>2. q[i].time \in T /\ q[i] \in Bar
    BY <1>7, <1>9, <2>1 DEF MarketData!TimesOf, Timed
  <2>3. CASE i \in 1..n
    BY <1>10, <1>11, <1>13, <1>16, <2>2, <2>3
  <2>4. CASE i \notin 1..n
    <3>1. PICK j \in 1..b : i = n + j
      BY <1>10, <2>1, <2>4
    <3>2. q[i] = bars[j]
      BY <1>10, <3>1
    <3>3. \A k \in 1..n : k \in 1..(i - 1) /\ q[k] = inc[k]
      BY <1>1, <1>2, <1>10, <3>1
    <3>4. q[i].time \notin span
      BY <1>11, <2>1, <3>3
    <3>5. q[i].time \in MarketData!Minutes /\ q[i].close = sent[q[i].time]
      BY <1>2, <1>15, <3>2
    <3> QED
      BY <1>13, <1>16, <2>2, <3>4, <3>5
  <2> QED
    BY <2>3, <2>4
<1>18. ASSUME NEW u \in Received' \ T
       PROVE  \E B \in SUBSET T : MarketData!Cardinality(B) = MaxSeries /\ \A v \in B : v > u
  <2>1. u \in Received \ MarketData!TimesOf(bars)
    BY <1>12, <1>14
  <2>2. b = MarketData!Smaller(MaxSeries, MarketData!Cardinality(Received))
    BY DEF b
  <2>3. /\ MarketData!Cardinality(MarketData!TimesOf(bars)) = MaxSeries
        /\ \A v \in MarketData!TimesOf(bars) : v > u
    BY <1>1, <1>2, <1>9, <1>15, <2>1, <2>2, MissingIsOlder
  <2> QED
    BY <1>12, <2>3
<1>19. IsFiniteSet(Received') /\ Received' \in SUBSET Int
  BY <1>16, ReceivedIsFinite
<1>20. /\ c = MarketData!Smaller(MaxSeries, MarketData!Cardinality(Received'))
       /\ \A x \in T : MarketData!Cardinality(Up(T, x)) < MaxSeries => Up(Received', x) = Up(T, x)
  <2> HIDE DEF T
  <2> QED
    BY <1>1, <1>16, <1>18, <1>19, NewestAreThose
<1>21. /\ MarketData!Cardinality(T) \in Nat
       /\ DOMAIN MarketData!Sorted(q) = 1..MarketData!Cardinality(T)
       /\ \A k \in 1..MarketData!Cardinality(T) : \E i \in MarketData!Firsts(q) :
            /\ MarketData!Sorted(q)[k] = q[i]
            /\ MarketData!Cardinality(Up(T, q[i].time)) = k - 1
  BY <1>9, SortedFacts
<1>22. MarketData!Sorted(q) \in [1..MarketData!Cardinality(T) -> Bar]
  <2>1. MarketData!Sorted(q) = [k \in 1..MarketData!Cardinality(T) |-> MarketData!Sorted(q)[k]]
    BY DEF MarketData!Sorted
  <2>2. \A k \in 1..MarketData!Cardinality(T) : MarketData!Sorted(q)[k] \in Bar
    BY <1>17, <1>21
  <2> HIDE DEF T
  <2> QED
    BY <2>1, <2>2
<1>23. bars' = MarketData!Cut(MarketData!Sorted(q), MaxSeries)
  BY DEF MarketData!Merged, q, inc
<1>24. /\ c \in Nat /\ c <= MarketData!Cardinality(T) /\ c <= MaxSeries /\ bars' \in [1..c -> Bar]
       /\ \A k \in 1..c : bars'[k] = MarketData!Sorted(q)[k]
  <2>1. MaxSeries \in Nat /\ MarketData!Cardinality(T) \in Nat
    BY <1>1, <1>21
  <2> HIDE DEF T
  <2>2. /\ c \in Nat /\ c <= MarketData!Cardinality(T) /\ c <= MaxSeries
        /\ MarketData!Cut(MarketData!Sorted(q), MaxSeries) \in [1..c -> Bar]
    BY <1>22, <2>1, CutType
  <2>3. \A k \in 1..c : MarketData!Cut(MarketData!Sorted(q), MaxSeries)[k] = MarketData!Sorted(q)[k]
    BY <1>22, <2>1, CutIsPrefix
  <2> HIDE DEF c
  <2> QED
    BY <1>23, <2>2, <2>3, Zenon
<1>25. ASSUME NEW k \in 1..c
       PROVE  /\ bars'[k].time \in Received'
              /\ bars'[k].close = sent'[bars'[k].time]
              /\ MarketData!Cardinality(Up(Received', bars'[k].time)) = k - 1
  <2>1. k \in 1..MarketData!Cardinality(T) /\ k - 1 < MaxSeries
    BY <1>1, <1>21, <1>24
  <2>2. PICK i \in MarketData!Firsts(q) : /\ MarketData!Sorted(q)[k] = q[i]
                               /\ MarketData!Cardinality(Up(T, q[i].time)) = k - 1
    BY <1>21, <2>1
  <2>3. bars'[k] = q[i]
    BY <1>24, <2>2
  <2>4. Up(Received', q[i].time) = Up(T, q[i].time)
    BY <1>17, <1>20, <2>1, <2>2
  <2> QED
    BY <1>17, <2>2, <2>3, <2>4
<1>26. BarsInv'
  <2>1. DOMAIN bars' = 1..c
    BY <1>24
  <2> HIDE DEF c
  <2> QED
    BY <1>20, <1>24, <1>25, <2>1 DEF BarsInv, Up
<1>27. MarketTypes'
  BY <1>13 DEF MarketTypes
<1> QED
  BY <1>26, <1>27

\* Dedupe leaves the first element where it is and what has its time out; it changes
\* nothing if no two elements have one time.
LEMMA DedupeKeepsFirst ==
  ASSUME NEW q, NEW n \in Nat \ {0}, Timed(q, n), NEW c,
         c = MarketData!Cardinality(MarketData!Firsts(q))
  PROVE  /\ c \in Nat \ {0} /\ DOMAIN MarketData!Dedupe(q) = 1..c /\ MarketData!Dedupe(q)[1] = q[1]
         /\ \A k \in 2..c : \E i \in 2..n : MarketData!Dedupe(q)[k] = q[i] /\ q[i].time # q[1].time
         /\ \A j, k \in 1..c : MarketData!Dedupe(q)[j].time = MarketData!Dedupe(q)[k].time => j = k
         /\ \A k \in 1..c : \E i \in 1..n : MarketData!Dedupe(q)[k] = q[i]
<1> DEFINE f == [k \in 1..c |-> MarketData!NthFirst(q, k)]
<1>1. /\ c \in Nat /\ DOMAIN MarketData!Dedupe(q) = 1..c
      /\ \A k \in 1..c : /\ f[k] \in MarketData!Firsts(q)
                         /\ MarketData!Cardinality(Down(MarketData!Firsts(q), f[k])) = k - 1
                         /\ MarketData!Dedupe(q)[k] = q[f[k]]
  BY DedupeFacts
<1> HIDE DEF f
<1>2. /\ MarketData!Firsts(q) \in SUBSET (1..n) /\ IsFiniteSet(MarketData!Firsts(q))
      /\ MarketData!Firsts(q) \in SUBSET Int
      /\ \A i, j \in MarketData!Firsts(q) : q[i].time = q[j].time => i = j
  BY FirstsFacts
<1>3. 1 \in MarketData!Firsts(q)
  BY DEF MarketData!Firsts, Timed
<1>4. Down(MarketData!Firsts(q), 1) = {}
  BY <1>2 DEF Down
<1>5. MarketData!Cardinality(Down(MarketData!Firsts(q), 1)) = 0
  BY <1>4, FS_EmptySet, SeriesCardinality
<1>6. c # 0
  BY <1>2, <1>3, CardinalFacts
<1>7. f[1] = 1
  <2>1. /\ f[1] \in MarketData!Firsts(q)
        /\ MarketData!Cardinality(Down(MarketData!Firsts(q), f[1])) = 0
    BY <1>1, <1>6
  <2> QED
    BY <1>2, <1>3, <1>5, <2>1, RankUnique
<1>8. ASSUME NEW j \in 1..c, NEW k \in 1..c,
             MarketData!Dedupe(q)[j].time = MarketData!Dedupe(q)[k].time
      PROVE  j = k
  <2>1. f[j] = f[k]
    BY <1>1, <1>2, <1>8
  <2> QED
    BY <1>1, <2>1
<1>9. ASSUME NEW k \in 2..c
      PROVE  \E i \in 2..n : MarketData!Dedupe(q)[k] = q[i] /\ q[i].time # q[1].time
  <2>1. k \in 1..c /\ 1 \in 1..c /\ k # 1
    BY <1>1, <1>9
  <2>2. MarketData!Dedupe(q)[k].time # MarketData!Dedupe(q)[1].time
    BY <1>8, <2>1
  <2>3. f[k] \in 1..n /\ MarketData!Dedupe(q)[k] = q[f[k]] /\ MarketData!Dedupe(q)[1] = q[1]
    BY <1>1, <1>2, <1>7, <2>1
  <2>4. f[k] # 1 /\ q[f[k]].time # q[1].time
    BY <2>2, <2>3
  <2>5. f[k] \in 2..n
    BY <2>3, <2>4
  <2> QED
    BY <2>3, <2>4, <2>5
<1>10. \A k \in 1..c : \E i \in 1..n : MarketData!Dedupe(q)[k] = q[i]
  <2>1. \A k \in 1..c : f[k] \in 1..n /\ MarketData!Dedupe(q)[k] = q[f[k]]
    BY <1>1, <1>2
  <2> QED
    BY <2>1
<1>11. c \in Nat \ {0} /\ DOMAIN MarketData!Dedupe(q) = 1..c
  BY <1>1, <1>6
<1>12. MarketData!Dedupe(q)[1] = q[1]
  BY <1>1, <1>7, <1>11
<1> QED
  BY <1>8, <1>9, <1>10, <1>11, <1>12, Zenon

LEMMA DedupeKeepsDistinct ==
  ASSUME NEW q, NEW n, Timed(q, n), \A i, j \in 1..n : q[i].time = q[j].time => i = j
  PROVE  /\ MarketData!Cardinality(MarketData!Firsts(q)) = n
         /\ \A k \in 1..n : MarketData!Dedupe(q)[k] = q[k]
<1>1. n \in Nat /\ DOMAIN q = 1..n
  BY DEF Timed
<1>2. MarketData!Firsts(q) = 1..n
  <2>1. \A i \in 1..n : \A j \in 1..(i - 1) : j \in 1..n /\ j # i
    BY <1>1
  <2>2. \A i \in 1..n : i \in MarketData!Firsts(q)
    BY <1>1, <2>1 DEF MarketData!Firsts
  <2> QED
    BY <1>1, <2>2 DEF MarketData!Firsts
<1>3. IsFiniteSet(1..n) /\ MarketData!Cardinality(1..n) = n
  BY <1>1, IntervalCardinal
<1>4. ASSUME NEW k \in 1..n PROVE MarketData!Dedupe(q)[k] = q[k]
  <2>1. /\ MarketData!NthFirst(q, k) \in 1..n
        /\ MarketData!Cardinality(Down(1..n, MarketData!NthFirst(q, k))) = k - 1
        /\ MarketData!Dedupe(q)[k] = q[MarketData!NthFirst(q, k)]
    BY <1>2, <1>3, DedupeFacts
  <2>2. Down(1..n, k) = 1..(k - 1) /\ k - 1 \in Nat
    BY <1>1 DEF Down
  <2>3. MarketData!Cardinality(Down(1..n, k)) = k - 1
    BY <2>2, IntervalCardinal
  <2>4. 1..n \in SUBSET Int
    BY <1>1
  <2>6. ASSUME NEW j \in 1..n, MarketData!Cardinality(Down(1..n, j)) =
                 MarketData!Cardinality(Down(1..n, k))
        PROVE  j = k
    BY <1>3, <2>4, <2>6, RankUnique
  <2>5. MarketData!NthFirst(q, k) = k
    BY <2>1, <2>3, <2>6
  <2> QED
    BY <2>1, <2>5
<1> QED
  BY <1>2, <1>3, <1>4

\* The first elements cut to a number of them, and an element put on top of others.
FirstsOf(r, q, n, m, S) ==
  \E c \in Nat \ {0} :
    /\ r \in [1..c -> S] /\ r[1] = q[1]
    /\ \A k \in 2..c : \E i \in 2..n : r[k] = q[i] /\ q[i].time # q[1].time
    /\ \A j, k \in 1..c : r[j].time = r[k].time => j = k
    /\ (\A i, j \in 1..n : q[i].time = q[j].time => i = j)
         => c = MarketData!Smaller(m, n) /\ \A k \in 1..c : r[k] = q[k]

ToppedWith(r, first, rest, n, m, S) ==
  \E c \in Nat \ {0} :
    /\ r \in [1..c -> S] /\ r[1] = first
    /\ \A k \in 2..c : \E i \in 1..n : r[k] = rest[i] /\ rest[i].time # first.time
    /\ \A j, k \in 1..c : r[j].time = r[k].time => j = k
    /\ /\ \A i \in 1..n : rest[i].time # first.time
       /\ \A i, j \in 1..n : rest[i].time = rest[j].time => i = j
       => c = MarketData!Smaller(m, n + 1) /\ \A k \in 2..c : k - 1 \in 1..n /\ r[k] = rest[k - 1]

LEMMA CutDedupe ==
  ASSUME NEW S, NEW m \in Nat \ {0}, NEW n \in Nat \ {0}, NEW q \in [1..n -> S], Timed(q, n),
         NEW r, r = MarketData!Cut(MarketData!Dedupe(q), m)
  PROVE  FirstsOf(r, q, n, m, S)
<1> DEFINE d == MarketData!Cardinality(MarketData!Firsts(q))
           c == MarketData!Smaller(m, d)
<1>0. d = MarketData!Cardinality(MarketData!Firsts(q))
  OBVIOUS
<1> HIDE DEF d
<1>1. /\ d \in Nat \ {0} /\ DOMAIN MarketData!Dedupe(q) = 1..d /\ MarketData!Dedupe(q)[1] = q[1]
      /\ \A k \in 2..d : \E i \in 2..n : MarketData!Dedupe(q)[k] = q[i] /\ q[i].time # q[1].time
      /\ \A j, k \in 1..d : MarketData!Dedupe(q)[j].time = MarketData!Dedupe(q)[k].time => j = k
      /\ \A k \in 1..d : \E i \in 1..n : MarketData!Dedupe(q)[k] = q[i]
  <2>1. d \in Nat \ {0} /\ DOMAIN MarketData!Dedupe(q) = 1..d
    BY <1>0, DedupeKeepsFirst
  <2>2. MarketData!Dedupe(q)[1] = q[1]
    BY <1>0, DedupeKeepsFirst
  <2>3. \A k \in 2..d : \E i \in 2..n : MarketData!Dedupe(q)[k] = q[i] /\ q[i].time # q[1].time
    BY <1>0, DedupeKeepsFirst
  <2>4. \A j, k \in 1..d : MarketData!Dedupe(q)[j].time = MarketData!Dedupe(q)[k].time => j = k
    BY <1>0, DedupeKeepsFirst
  <2>5. \A k \in 1..d : \E i \in 1..n : MarketData!Dedupe(q)[k] = q[i]
    BY <1>0, DedupeKeepsFirst
  <2> QED
    BY <2>1, <2>2, <2>3, <2>4, <2>5, Zenon
<1>2. (\A i, j \in 1..n : q[i].time = q[j].time => i = j)
        => d = n /\ \A k \in 1..n : MarketData!Dedupe(q)[k] = q[k]
  BY <1>0, DedupeKeepsDistinct
<1>3. MarketData!Dedupe(q) \in [1..d -> S]
  <2>1. MarketData!Dedupe(q) = [k \in 1..d |-> MarketData!Dedupe(q)[k]]
    BY <1>0 DEF MarketData!Dedupe
  <2>2. \A k \in 1..d : MarketData!Dedupe(q)[k] \in S
    BY <1>1
  <2> QED
    BY <2>1, <2>2
<1>4. c \in Nat /\ c <= d /\ c <= m /\ r \in [1..c -> S]
  BY <1>1, <1>3, CutType
<1>5. c # 0
  BY <1>1 DEF MarketData!Smaller
<1>5a. d \in Nat /\ m \in Nat
  BY <1>1
<1>6. \A k \in 1..c : r[k] = MarketData!Dedupe(q)[k]
  <2>1. MarketData!Dedupe(q) \in Seq(S) /\ Len(MarketData!Dedupe(q)) = d
    BY <1>3, <1>5a, SequenceOf
  <2>2. r = SubSeq(MarketData!Dedupe(q), 1, c)
    BY <2>1 DEF MarketData!Cut
  <2> HIDE DEF c
  <2>3. \A k \in 1..c : SubSeq(MarketData!Dedupe(q), 1, c)[k] = MarketData!Dedupe(q)[k]
    BY <1>4, <1>5a, <2>1
  <2> QED
    BY <2>2, <2>3, Zenon
<1>7. d = n => c = MarketData!Smaller(m, n)
  OBVIOUS
<1> HIDE DEF c
<1>8. /\ \A k \in 1..c : k \in 1..d
      /\ \A k \in 2..c : k \in 2..d /\ k \in 1..c
      /\ 1 \in 1..c
  BY <1>1, <1>4, <1>5
<1>9. \A k \in 2..c : \E i \in 2..n : r[k] = q[i] /\ q[i].time # q[1].time
  BY <1>1, <1>6, <1>8
<1>10. \A j, k \in 1..c : r[j].time = r[k].time => j = k
  BY <1>1, <1>6, <1>8
<1>11. (\A i, j \in 1..n : q[i].time = q[j].time => i = j)
         => c = MarketData!Smaller(m, n) /\ \A k \in 1..c : r[k] = q[k]
  BY <1>2, <1>6, <1>7, <1>8
<1>12. r[1] = q[1]
  BY <1>1, <1>6, <1>8
<1>13. c \in Nat \ {0} /\ r \in [1..c -> S]
  BY <1>4, <1>5
<1> QED
  BY <1>9, <1>10, <1>11, <1>12, <1>13, Zenon DEF FirstsOf

LEMMA LeastIsMin ==
  ASSUME NEW T \in SUBSET Int, NEW x \in T
  PROVE  /\ (\A y \in T : x <= y) => MarketData!Min(T) = x
         /\ (\A y \in T : y <= x) => MarketData!Max(T) = x
<1>1. ASSUME \A y \in T : x <= y PROVE MarketData!Min(T) = x
  <2>1. MarketData!Min(T) = CHOOSE u \in T : \A y \in T : u <= y
    BY DEF MarketData!Min
  <2> DEFINE u == CHOOSE u \in T : \A y \in T : u <= y
  <2>2. u \in T /\ \A y \in T : u <= y
    BY <1>1, Zenon
  <2> HIDE DEF u
  <2>3. u = x
    BY <1>1, <2>2
  <2> QED
    BY <2>1, <2>3 DEF u
<1>2. ASSUME \A y \in T : y <= x PROVE MarketData!Max(T) = x
  <2>1. MarketData!Max(T) = CHOOSE u \in T : \A y \in T : u >= y
    BY DEF MarketData!Max
  <2> DEFINE u == CHOOSE u \in T : \A y \in T : u >= y
  <2>2. \A y \in T : x >= y
    BY <1>2
  <2>3. u \in T /\ \A y \in T : u >= y
    BY <2>2, Zenon
  <2> HIDE DEF u
  <2>4. u = x
    BY <1>2, <2>3
  <2> QED
    BY <2>1, <2>4 DEF u
<1> QED
  BY <1>1, <1>2

\* The candles cs that the quotes qs make: no two of one minute, the one on top of the
\* minute of the last quote; each whose quotes came together has their first, highest,
\* lowest and last price; and as long as the times ascend they are the newest.
Candle == [time : MarketData!Minutes, open : Nat, high : Nat, low : Nat, close : Nat]
QuoteRecord == [time : MarketData!Minutes, price : Prices]

OwnIn(qs, t) == {i \in DOMAIN qs : qs[i].time = t}
PricesIn(qs, t) == {qs[i].price : i \in OwnIn(qs, t)}
TogetherIn(qs, t) == \A i, j \in OwnIn(qs, t) : (i..j) \subseteq OwnIn(qs, t)

IsCandleOf(c, qs, t) ==
  /\ \E i \in OwnIn(qs, t) : c.open = qs[i].price /\ \A j \in OwnIn(qs, t) : i <= j
  /\ \E i \in OwnIn(qs, t) : c.close = qs[i].price /\ \A j \in OwnIn(qs, t) : j <= i
  /\ c.high \in PricesIn(qs, t) /\ \A p \in PricesIn(qs, t) : p <= c.high
  /\ c.low \in PricesIn(qs, t) /\ \A p \in PricesIn(qs, t) : c.low <= p

CandlesDiffer(cs) == \A j, k \in 1..Len(cs) : cs[j].time = cs[k].time => j = k
EachIsCandle(cs, qs) ==
  \A k \in 1..Len(cs) :
    /\ cs[k].time \in MarketData!TimesOf(qs)
    /\ TogetherIn(qs, cs[k].time) => IsCandleOf(cs[k], qs, cs[k].time)
TopIsLast(cs, qs) ==
  IF Len(qs) = 0 THEN Len(cs) = 0 ELSE Len(cs) # 0 /\ cs[1].time = qs[Len(qs)].time

Ascending(qs) == \A i \in 2..Len(qs) : qs[i - 1].time <= qs[i].time
NewestFirst(cs, qs) ==
  /\ \A i \in 1..Len(qs) : qs[i].time <= qs[Len(qs)].time
  /\ Len(cs) = MarketData!Smaller(MaxCandles, MarketData!Cardinality(MarketData!TimesOf(qs)))
  /\ \A k \in 1..Len(cs) : MarketData!Cardinality(Up(MarketData!TimesOf(qs), cs[k].time)) = k - 1

CandleTypes(cs, qs) ==
  /\ qs \in [1..Len(qs) -> QuoteRecord] /\ Len(qs) \in Nat
  /\ cs \in [1..Len(cs) -> Candle] /\ Len(cs) \in Nat

CandlesOf(cs, qs) ==
  /\ CandleTypes(cs, qs)
  /\ TopIsLast(cs, qs) /\ CandlesDiffer(cs) /\ EachIsCandle(cs, qs)
  /\ Ascending(qs) => NewestFirst(cs, qs)

CandleInv == CandlesOf(candles, quotes)

LEMMA FoundIsExact ==
  ASSUME CandleTypes(candles, quotes), NEW c \in Candle, IsCandleOf(c, quotes, c.time)
  PROVE  c = MarketData!ExactCandle(c.time)
<1> DEFINE t == c.time
<1>1. Prices \subseteq Int
  BY SeriesAssumption
<1>0. MarketData!Own(t) = OwnIn(quotes, t) /\ MarketData!OwnPrices(t) = PricesIn(quotes, t)
  BY DEF MarketData!Own, MarketData!OwnPrices, OwnIn, PricesIn
<1>2. MarketData!Own(t) \in SUBSET Int /\ MarketData!OwnPrices(t) \in SUBSET Int
  <2>1. DOMAIN quotes = 1..Len(quotes) /\ Len(quotes) \in Nat
    BY DEF CandleTypes
  <2>2. MarketData!Own(t) \in SUBSET (1..Len(quotes))
    BY <2>1 DEF MarketData!Own
  <2>3. \A i \in 1..Len(quotes) : quotes[i].price \in Prices
    BY DEF CandleTypes, QuoteRecord
  <2>4. MarketData!OwnPrices(t) \in SUBSET Prices
    BY <2>2, <2>3 DEF MarketData!OwnPrices
  <2>5. 1..Len(quotes) \subseteq Int
    BY <2>1
  <2> HIDE DEF t
  <2> QED
    BY <1>1, <2>2, <2>4, <2>5, Zenon
<1>3. c.open = quotes[MarketData!Min(MarketData!Own(t))].price
  <2>1. PICK i \in MarketData!Own(t) : c.open = quotes[i].price /\ \A j \in MarketData!Own(t) : i <= j
    BY <1>0 DEF IsCandleOf
  <2>2. MarketData!Min(MarketData!Own(t)) = i
    BY <1>2, <2>1, LeastIsMin
  <2> QED
    BY <2>1, <2>2
<1>4. c.close = quotes[MarketData!Max(MarketData!Own(t))].price
  <2>1. PICK i \in MarketData!Own(t) : c.close = quotes[i].price /\ \A j \in MarketData!Own(t) : j <= i
    BY <1>0 DEF IsCandleOf
  <2>2. MarketData!Max(MarketData!Own(t)) = i
    BY <1>2, <2>1, LeastIsMin
  <2> QED
    BY <2>1, <2>2
<1>5. /\ c.high = MarketData!Max(MarketData!OwnPrices(t))
      /\ c.low = MarketData!Min(MarketData!OwnPrices(t))
  <2>1. /\ c.high \in MarketData!OwnPrices(t) /\ \A p \in MarketData!OwnPrices(t) : p <= c.high
        /\ c.low \in MarketData!OwnPrices(t) /\ \A p \in MarketData!OwnPrices(t) : c.low <= p
    BY <1>0 DEF IsCandleOf
  <2> QED
    BY <1>2, <2>1, LeastIsMin
<1>6. c = [time |-> c.time, open |-> c.open, high |-> c.high, low |-> c.low, close |-> c.close]
  BY DEF Candle
<1> QED
  BY <1>3, <1>4, <1>5, <1>6, Zenon DEF MarketData!ExactCandle

LEMMA CandlesMeanExact == CandleInv => MarketData!CandlesAreExact
<1> SUFFICES ASSUME CandleInv PROVE MarketData!CandlesAreExact
  OBVIOUS
<1>1. DOMAIN candles = 1..Len(candles) /\ CandleTypes(candles, quotes)
  BY DEF CandleInv, CandlesOf, CandleTypes
<1>2. ASSUME NEW k \in DOMAIN candles, MarketData!Together(candles[k].time)
      PROVE  candles[k] = MarketData!ExactCandle(candles[k].time)
  <2>3. TogetherIn(quotes, candles[k].time)
    BY <1>2 DEF MarketData!Together, TogetherIn, MarketData!Own, OwnIn
  <2>1. IsCandleOf(candles[k], quotes, candles[k].time)
    BY <1>1, <2>3 DEF CandleInv, CandlesOf, EachIsCandle
  <2>2. candles[k] \in Candle
    BY <1>1, <1>2 DEF CandleTypes
  <2> QED
    BY <1>1, <2>1, <2>2, FoundIsExact
<1>3. ASSUME Ascending(quotes)
      PROVE  LET times == {quotes[i].time : i \in DOMAIN quotes} IN
             /\ Len(candles) = MarketData!Smaller(MaxCandles, MarketData!Cardinality(times))
             /\ \A k \in DOMAIN candles :
                  MarketData!Cardinality({t \in times : t > candles[k].time}) = k - 1
  BY <1>1, <1>3 DEF CandleInv, CandlesOf, NewestFirst, MarketData!TimesOf, Up
<1> QED
  BY <1>2, <1>3 DEF MarketData!CandlesAreExact, Ascending

\* A quote is recorded: what that does to the quotes of each minute.
QuoteAdded(after, qs, n, t, p) ==
  /\ after \in [1..(n + 1) -> QuoteRecord] /\ Len(after) = n + 1 /\ n + 1 \in Nat
  /\ after[n + 1] = [time |-> t, price |-> p]
  /\ \A i \in 1..n : i \in 1..(n + 1) /\ after[i] = qs[i]
  /\ \A i \in 1..(n + 1) : i \in 1..n \/ i = n + 1
  /\ MarketData!TimesOf(after) = MarketData!TimesOf(qs) \cup {t}
  /\ \A s : OwnIn(qs, s) \in SUBSET (1..n)
  /\ \A s : s # t => OwnIn(after, s) = OwnIn(qs, s) /\ PricesIn(after, s) = PricesIn(qs, s)
  /\ OwnIn(after, t) = OwnIn(qs, t) \cup {n + 1}
  /\ PricesIn(after, t) = PricesIn(qs, t) \cup {p}

LEMMA OwnAfterQuote ==
  ASSUME NEW n \in Nat, NEW qs \in [1..n -> QuoteRecord], NEW t \in MarketData!Minutes,
         NEW p \in Prices,
         NEW after, after = Append(qs, [time |-> t, price |-> p])
  PROVE  QuoteAdded(after, qs, n, t, p)
<1> DEFINE e == [time |-> t, price |-> p]
<1>1. n \in Nat /\ qs \in [1..n -> QuoteRecord] /\ e \in QuoteRecord
  BY DEF QuoteRecord
<1>2. /\ after \in [1..(n + 1) -> QuoteRecord] /\ Len(after) = n + 1 /\ n + 1 \in Nat
      /\ after[n + 1] = e
      /\ \A i \in 1..n : i \in 1..(n + 1) /\ after[i] = qs[i]
  <2>1. qs \in Seq(QuoteRecord) /\ Len(qs) = n
    BY <1>1, SequenceOf
  <2>2. /\ Append(qs, e) \in Seq(QuoteRecord) /\ Len(Append(qs, e)) = n + 1
        /\ Append(qs, e)[n + 1] = e
        /\ \A i \in 1..n : i \in 1..(n + 1) /\ Append(qs, e)[i] = qs[i]
    BY <1>1, <2>1
  <2>3. Append(qs, e) \in [1..(n + 1) -> QuoteRecord]
    BY <1>1, <2>2, LenProperties
  <2> QED
    BY <1>1, <2>2, <2>3
<1>3. \A i \in 1..(n + 1) : i \in 1..n \/ i = n + 1
  BY <1>1
<1>4. DOMAIN qs = 1..n /\ DOMAIN after = 1..(n + 1) /\ n + 1 \in 1..(n + 1)
  BY <1>1, <1>2
<1>5. e.time = t /\ e.price = p
  OBVIOUS
<1> HIDE DEF e
<1>6. MarketData!TimesOf(after) = MarketData!TimesOf(qs) \cup {t}
  <2>1. MarketData!TimesOf(after) \subseteq MarketData!TimesOf(qs) \cup {t}
    BY <1>2, <1>3, <1>4, <1>5 DEF MarketData!TimesOf
  <2>2. MarketData!TimesOf(qs) \cup {t} \subseteq MarketData!TimesOf(after)
    BY <1>2, <1>4, <1>5 DEF MarketData!TimesOf
  <2> QED
    BY <2>1, <2>2
<1>7. \A s : OwnIn(qs, s) = {i \in 1..n : qs[i].time = s}
  BY <1>4 DEF OwnIn
<1>8. \A s : OwnIn(after, s) = {i \in 1..(n + 1) : after[i].time = s}
  BY <1>4 DEF OwnIn
<1>9. \A s : OwnIn(after, s) = OwnIn(qs, s) \cup (IF s = t THEN {n + 1} ELSE {})
  BY <1>2, <1>3, <1>4, <1>5, <1>7, <1>8
<1>10. \A s : OwnIn(qs, s) \in SUBSET (1..n)
  BY <1>7
<1>11. \A s : s # t => PricesIn(after, s) = PricesIn(qs, s)
  <2> SUFFICES ASSUME NEW s, s # t PROVE PricesIn(after, s) = PricesIn(qs, s)
    OBVIOUS
  <2>1. OwnIn(after, s) = OwnIn(qs, s) /\ \A i \in OwnIn(qs, s) : after[i] = qs[i]
    BY <1>2, <1>9, <1>10
  <2>2. PricesIn(after, s) = {after[i].price : i \in OwnIn(after, s)}
    BY DEF PricesIn
  <2> QED
    BY <2>1, <2>2 DEF PricesIn
<1>12. PricesIn(after, t) = PricesIn(qs, t) \cup {p}
  <2>1. OwnIn(after, t) = OwnIn(qs, t) \cup {n + 1} /\ \A i \in OwnIn(qs, t) : after[i] = qs[i]
    BY <1>2, <1>9, <1>10
  <2>2. /\ PricesIn(after, t) = {after[i].price : i \in OwnIn(after, t)}
        /\ PricesIn(qs, t) = {qs[i].price : i \in OwnIn(qs, t)}
    BY DEF PricesIn
  <2>3. after[n + 1].price = p
    BY <1>2, <1>5
  <2>4. PricesIn(after, t) \subseteq PricesIn(qs, t) \cup {p}
    BY <2>1, <2>2, <2>3
  <2>5. PricesIn(qs, t) \cup {p} \subseteq PricesIn(after, t)
    BY <2>1, <2>2, <2>3
  <2> QED
    BY <2>4, <2>5
<1>13. \A s : s # t => OwnIn(after, s) = OwnIn(qs, s)
  BY <1>9
<1>14. OwnIn(after, t) = OwnIn(qs, t) \cup {n + 1}
  BY <1>9
<1> QED
  BY <1>2, <1>3, <1>6, <1>10, <1>11, <1>12, <1>13, <1>14 DEF e, QuoteAdded

LEMMA PutOnTop ==
  ASSUME NEW S, NEW first \in S, NEW n \in Nat, NEW rest \in [1..n -> S],
         \A x \in S : x.time \in Nat,
         NEW m \in Nat \ {0}, NEW r, r = MarketData!Cut(MarketData!Dedupe(<<first>> \o rest), m)
  PROVE  ToppedWith(r, first, rest, n, m, S)
<1> DEFINE one == <<first>>
           q == one \o rest
<1>1. one \in [1..1 -> S] /\ one[1] = first
  OBVIOUS
<1>2. n + 1 \in Nat \ {0} /\ 1 \in Nat /\ 1 \in 1..1 /\ 1 + n = n + 1
  OBVIOUS
<1>3. r = MarketData!Cut(MarketData!Dedupe(q), m)
  OBVIOUS
<1> HIDE DEF one
<1>4. q \in [1..(1 + n) -> S] /\ JoinOf(q, one, 1, rest, n)
  BY <1>1, <1>2, Joined
<1> HIDE DEF q
<1>5. \A i \in 1..1 : q[i] = one[i]
  BY <1>4 DEF JoinOf
<1>6. \A i \in 1..n : q[1 + i] = rest[i]
  BY <1>4 DEF JoinOf
<1>7. q \in [1..(n + 1) -> S] /\ q[1] = first
  BY <1>1, <1>2, <1>4, <1>5
<1>8. \A i \in 2..(n + 1) : i - 1 \in 1..n /\ q[i] = rest[i - 1]
  <2> SUFFICES ASSUME NEW i \in 2..(n + 1) PROVE i - 1 \in 1..n /\ q[i] = rest[i - 1]
    OBVIOUS
  <2>1. i - 1 \in 1..n /\ 1 + (i - 1) = i
    OBVIOUS
  <2> QED
    BY <1>6, <2>1
<1>9. Timed(q, n + 1)
  BY <1>2, <1>7 DEF Timed
<1>10. PICK c \in Nat \ {0} :
         /\ r \in [1..c -> S] /\ r[1] = q[1]
         /\ \A k \in 2..c : \E i \in 2..(n + 1) : r[k] = q[i] /\ q[i].time # q[1].time
         /\ \A j, k \in 1..c : r[j].time = r[k].time => j = k
         /\ (\A i, j \in 1..(n + 1) : q[i].time = q[j].time => i = j)
              => c = MarketData!Smaller(m, n + 1) /\ \A k \in 1..c : r[k] = q[k]
  <2>1. FirstsOf(r, q, n + 1, m, S)
    BY <1>2, <1>3, <1>7, <1>9, CutDedupe
  <2> QED
    BY <2>1, Zenon DEF FirstsOf
<1>11. ASSUME NEW k \in 2..c
       PROVE  \E i \in 1..n : r[k] = rest[i] /\ rest[i].time # first.time
  <2>1. PICK i \in 2..(n + 1) : r[k] = q[i] /\ q[i].time # q[1].time
    BY <1>10
  <2>2. i - 1 \in 1..n /\ r[k] = rest[i - 1] /\ rest[i - 1].time # first.time
    BY <1>7, <1>8, <2>1
  <2> QED
    BY <2>2
<1>12. ASSUME \A i \in 1..n : rest[i].time # first.time,
              \A i, j \in 1..n : rest[i].time = rest[j].time => i = j
       PROVE  /\ c = MarketData!Smaller(m, n + 1)
              /\ \A k \in 2..c : k - 1 \in 1..n /\ r[k] = rest[k - 1]
  <2>1. \A i \in 2..(n + 1) : q[i].time # q[1].time
    BY <1>7, <1>8, <1>12
  <2>2. ASSUME NEW i \in 2..(n + 1), NEW j \in 2..(n + 1), q[i].time = q[j].time PROVE i = j
    <3>1. i - 1 = j - 1
      BY <1>8, <1>12, <2>2
    <3> QED
      BY <3>1
  <2>3. \A i \in 1..(n + 1) : i = 1 \/ i \in 2..(n + 1)
    BY <1>2
  <2>4. \A i, j \in 1..(n + 1) : q[i].time = q[j].time => i = j
    BY <2>1, <2>2, <2>3
  <2>5. c = MarketData!Smaller(m, n + 1) /\ \A k \in 1..c : r[k] = q[k]
    BY <1>10, <2>4
  <2>6. \A k \in 2..c : k \in 1..c /\ k \in 2..(n + 1)
    BY <1>10, <2>5 DEF MarketData!Smaller
  <2> QED
    BY <1>8, <2>5, <2>6
<1>13. r[1] = first
  BY <1>7, <1>10
<1> QED
  BY <1>10, <1>11, <1>12, <1>13, Zenon DEF ToppedWith

\* The candles after a quote of the minute of the candle on top, and after one of another.
UpdatedWith(r, cs, t, p) ==
  \E c \in Nat \ {0} :
      /\ r \in [1..c -> Candle] /\ c = MarketData!Smaller(MaxCandles, Len(cs))
      /\ r[1] = [time |-> t, open |-> cs[1].open, high |-> MarketData!Larger(cs[1].high, p),
                 low |-> MarketData!Smaller(cs[1].low, p), close |-> p]
      /\ \A k \in 2..c : k \in 1..Len(cs) /\ r[k] = cs[k]
      /\ \A j, k \in 1..c : r[j].time = r[k].time => j = k

LEMMA CandleUpdated ==
  ASSUME NEW cs, cs \in [1..Len(cs) -> Candle], Len(cs) \in Nat, CandlesDiffer(cs),
         NEW t \in MarketData!Minutes, NEW p \in Prices,
         Len(cs) # 0, cs[1].time = t,
         NEW r, r = MarketData!WithCandle(cs, t, p)
  PROVE  UpdatedWith(r, cs, t, p)
<1> DEFINE n == Len(cs)
           first == [time |-> t, open |-> cs[1].open, high |-> MarketData!Larger(cs[1].high, p),
                     low |-> MarketData!Smaller(cs[1].low, p), close |-> p]
           rest == Tail(cs)
<1>1. /\ n \in Nat \ {0} /\ cs \in [1..n -> Candle] /\ DOMAIN cs = 1..n
      /\ cs \in Seq(Candle) /\ cs # <<>>
  BY SequenceOf
<1>2. p \in Nat /\ MarketData!Minutes \subseteq Nat /\ MaxCandles \in Nat \ {0}
  BY SeriesAssumption DEF MarketData!Minutes
<1>3. first \in Candle /\ first.time = t
  <2>1. cs[1] \in Candle
    BY <1>1
  <2>2. MarketData!Larger(cs[1].high, p) \in Nat /\ MarketData!Smaller(cs[1].low, p) \in Nat
    BY <1>2, <2>1 DEF Candle, MarketData!Larger, MarketData!Smaller
  <2> QED
    BY <1>2, <2>1, <2>2 DEF Candle
<1>4. rest \in Seq(Candle) /\ Len(rest) = n - 1 /\ \A i \in 1..Len(rest) : rest[i] = cs[i + 1]
  BY <1>1, HeadTailProperties
<1>5. r = MarketData!Cut(MarketData!Dedupe(<<first>> \o rest), MaxCandles)
  BY <1>1, Zenon DEF MarketData!WithCandle
<1> HIDE DEF first, rest, n
<1>6. n - 1 \in Nat /\ (n - 1) + 1 = n /\ rest \in [1..(n - 1) -> Candle]
  BY <1>1, <1>4, LenProperties
<1>7. \A i \in 1..(n - 1) : i + 1 \in 1..n /\ i + 1 # 1 /\ rest[i] = cs[i + 1]
  BY <1>1, <1>4
<1>8. \A x \in Candle : x.time \in Nat
  BY <1>2 DEF Candle
<1>9. PICK c \in Nat \ {0} :
           /\ r \in [1..c -> Candle] /\ r[1] = first
           /\ \A j, k \in 1..c : r[j].time = r[k].time => j = k
           /\ /\ \A i \in 1..(n - 1) : rest[i].time # first.time
              /\ \A i, j \in 1..(n - 1) : rest[i].time = rest[j].time => i = j
              => c = MarketData!Smaller(MaxCandles, (n - 1) + 1) /\ \A k \in 2..c :
                k - 1 \in 1..(n - 1) /\ r[k] = rest[k - 1]
  <2>1. ToppedWith(r, first, rest, n - 1, MaxCandles, Candle)
    BY <1>2, <1>3, <1>5, <1>6, <1>8, PutOnTop
  <2> QED
    BY <2>1, Zenon DEF ToppedWith
<1>10. \A i \in 1..(n - 1) : rest[i].time # first.time
  BY <1>1, <1>3, <1>7 DEF CandlesDiffer, n
<1>11. \A i, j \in 1..(n - 1) : rest[i].time = rest[j].time => i = j
  <2>1. \A i, j \in 1..(n - 1) : i + 1 = j + 1 => i = j
    BY <1>6
  <2> QED
    BY <1>7, <2>1 DEF CandlesDiffer, n
<1>12. /\ c = MarketData!Smaller(MaxCandles, n)
       /\ \A k \in 2..c : k - 1 \in 1..(n - 1) /\ r[k] = rest[k - 1]
  BY <1>6, <1>9, <1>10, <1>11
<1>13. ASSUME NEW k \in 2..c PROVE k \in 1..n /\ r[k] = cs[k]
  <2>1. k - 1 \in 1..(n - 1) /\ r[k] = rest[k - 1] /\ (k - 1) + 1 = k
    BY <1>12
  <2> QED
    BY <1>7, <2>1
<1> QED
  BY <1>9, <1>12, <1>13 DEF first, n, UpdatedWith

OpenedWith(r, cs, t, p) ==
  \E c \in Nat \ {0} :
      /\ r \in [1..c -> Candle]
      /\ r[1] = [time |-> t, open |-> p, high |-> p, low |-> p, close |-> p]
      /\ \A k \in 2..c : \E i \in 1..Len(cs) : r[k] = cs[i] /\ cs[i].time # t
      /\ \A j, k \in 1..c : r[j].time = r[k].time => j = k
      /\ (\A i \in 1..Len(cs) : cs[i].time # t)
           => /\ c = MarketData!Smaller(MaxCandles, Len(cs) + 1)
              /\ \A k \in 2..c : k - 1 \in 1..Len(cs) /\ r[k] = cs[k - 1]

LEMMA CandleOpened ==
  ASSUME NEW cs, cs \in [1..Len(cs) -> Candle], Len(cs) \in Nat, CandlesDiffer(cs),
         NEW t \in MarketData!Minutes, NEW p \in Prices,
         ~(Len(cs) # 0 /\ cs[1].time = t),
         NEW r, r = MarketData!WithCandle(cs, t, p)
  PROVE  OpenedWith(r, cs, t, p)
<1> DEFINE n == Len(cs)
           first == [time |-> t, open |-> p, high |-> p, low |-> p, close |-> p]
<1>1. n \in Nat /\ cs \in [1..n -> Candle] /\ (cs # <<>> => n # 0)
  BY SequenceOf
<1>2. p \in Nat /\ MarketData!Minutes \subseteq Nat /\ MaxCandles \in Nat \ {0}
  BY SeriesAssumption DEF MarketData!Minutes
<1>3. first \in Candle /\ first.time = t
  BY <1>2 DEF Candle
<1>4. r = MarketData!Cut(MarketData!Dedupe(<<first>> \o cs), MaxCandles)
  BY <1>1, Zenon DEF MarketData!WithCandle
<1> HIDE DEF first, n
<1>5. \A x \in Candle : x.time \in Nat
  BY <1>2 DEF Candle
<1>6. PICK c \in Nat \ {0} :
           /\ r \in [1..c -> Candle] /\ r[1] = first
           /\ \A k \in 2..c : \E i \in 1..n : r[k] = cs[i] /\ cs[i].time # first.time
           /\ \A j, k \in 1..c : r[j].time = r[k].time => j = k
           /\ /\ \A i \in 1..n : cs[i].time # first.time
              /\ \A i, j \in 1..n : cs[i].time = cs[j].time => i = j
              => c = MarketData!Smaller(MaxCandles, n + 1) /\ \A k \in 2..c :
                k - 1 \in 1..n /\ r[k] = cs[k - 1]
  <2>1. ToppedWith(r, first, cs, n, MaxCandles, Candle)
    BY <1>1, <1>2, <1>3, <1>4, <1>5, PutOnTop
  <2> QED
    BY <2>1, Zenon DEF ToppedWith
<1>7. \A i, j \in 1..n : cs[i].time = cs[j].time => i = j
  BY DEF CandlesDiffer, n
<1>8. (\A i \in 1..n : cs[i].time # t)
        => /\ c = MarketData!Smaller(MaxCandles, n + 1)
           /\ \A k \in 2..c : k - 1 \in 1..n /\ r[k] = cs[k - 1]
  BY <1>3, <1>6, <1>7
<1>9. \A k \in 2..c : \E i \in 1..n : r[k] = cs[i] /\ cs[i].time # t
  BY <1>3, <1>6
<1> QED
  BY <1>6, <1>8, <1>9 DEF first, n, OpenedWith

\* The candles of the other minutes are not touched.
LEMMA OtherCandles ==
  ASSUME NEW n \in Nat, NEW qs \in [1..n -> QuoteRecord], NEW after, NEW t, NEW p,
         QuoteAdded(after, qs, n, t, p), NEW c, c.time # t,
         c.time \in MarketData!TimesOf(qs), TogetherIn(qs, c.time) => IsCandleOf(c, qs, c.time)
  PROVE  /\ c.time \in MarketData!TimesOf(after)
         /\ TogetherIn(after, c.time) => IsCandleOf(c, after, c.time)
<1> DEFINE s == c.time
<1>1. c.time \in MarketData!TimesOf(after)
  BY DEF QuoteAdded
<1>2. /\ OwnIn(after, s) = OwnIn(qs, s) /\ PricesIn(after, s) = PricesIn(qs, s)
      /\ OwnIn(qs, s) \in SUBSET (1..n) /\ \A i \in 1..n : after[i] = qs[i]
  BY DEF QuoteAdded
<1>3. \A i \in OwnIn(qs, s) : after[i] = qs[i]
  BY <1>2
<1>4. TogetherIn(after, s) => IsCandleOf(c, qs, s)
  BY <1>2 DEF TogetherIn
<1>5. IsCandleOf(c, qs, s) => IsCandleOf(c, after, s)
  <2> SUFFICES ASSUME IsCandleOf(c, qs, s) PROVE IsCandleOf(c, after, s)
    OBVIOUS
  <2> HIDE DEF s
  <2> QED
    BY <1>2, <1>3, Zenon DEF IsCandleOf
<1> QED
  BY <1>1, <1>4, <1>5

\* The candle on top gets one more price, or a candle is opened with the price.
LEMMA TopIsUpdated ==
  ASSUME NEW n \in Nat \ {0}, NEW qs \in [1..n -> QuoteRecord], NEW after, NEW t, NEW p \in Prices,
         QuoteAdded(after, qs, n, t, p), qs[n].time = t, TogetherIn(after, t),
         NEW c \in Candle, TogetherIn(qs, t) => IsCandleOf(c, qs, t)
  PROVE  IsCandleOf([time |-> t, open |-> c.open, high |-> MarketData!Larger(c.high, p),
                     low |-> MarketData!Smaller(c.low, p), close |-> p], after, t)
<1> DEFINE own == OwnIn(qs, t)
           prices == PricesIn(qs, t)
           d == [time |-> t, open |-> c.open, high |-> MarketData!Larger(c.high, p),
                 low |-> MarketData!Smaller(c.low, p), close |-> p]
<1>1. /\ own \in SUBSET (1..n) /\ OwnIn(after, t) = own \cup {n + 1}
      /\ PricesIn(after, t) = prices \cup {p} /\ n + 1 \notin 1..n
      /\ \A i \in 1..n : after[i] = qs[i]
      /\ after[n + 1].price = p
  BY DEF QuoteAdded
<1>2. \A i \in own : i \in Int /\ i <= n
  BY <1>1
<1>3. TogetherIn(qs, t)
  <2> SUFFICES ASSUME NEW i \in own, NEW j \in own PROVE (i..j) \subseteq own
    BY DEF TogetherIn
  <2>1. (i..j) \subseteq own \cup {n + 1}
    BY <1>1 DEF TogetherIn
  <2>2. n + 1 \notin i..j
    BY <1>2
  <2> QED
    BY <2>1, <2>2
<1>4. /\ \E i \in own : c.open = qs[i].price /\ \A j \in own : i <= j
      /\ c.high \in prices /\ \A x \in prices : x <= c.high
      /\ c.low \in prices /\ \A x \in prices : c.low <= x
  BY <1>3 DEF IsCandleOf
<1>5. prices \subseteq Int /\ p \in Int
  <2>1. Prices \subseteq Int
    BY SeriesAssumption
  <2>2. \A i \in 1..n : qs[i].price \in Prices
    BY DEF QuoteRecord
  <2>3. prices \subseteq Prices
    BY <1>1, <2>2 DEF PricesIn
  <2> QED
    BY <2>1, <2>3
<1>6. /\ d.open = c.open /\ d.high = MarketData!Larger(c.high, p)
      /\ d.low = MarketData!Smaller(c.low, p) /\ d.close = p
  OBVIOUS
<1> HIDE DEF own, prices, d
<1>7. \E i \in OwnIn(after, t) : d.open = after[i].price /\ \A j \in OwnIn(after, t) : i <= j
  <2>1. PICK i \in own : c.open = qs[i].price /\ \A j \in own : i <= j
    BY <1>4
  <2>2. i \in OwnIn(after, t) /\ d.open = after[i].price
    BY <1>1, <1>6, <2>1
  <2>3. i <= n + 1
    BY <1>2
  <2>4. \A j \in OwnIn(after, t) : i <= j
    BY <1>1, <2>1, <2>3
  <2> QED
    BY <2>2, <2>4
<1>8. \E i \in OwnIn(after, t) : d.close = after[i].price /\ \A j \in OwnIn(after, t) : j <= i
  <2>1. n + 1 \in OwnIn(after, t) /\ d.close = after[n + 1].price
    BY <1>1, <1>6
  <2>2. \A j \in OwnIn(after, t) : j <= n + 1
    BY <1>1, <1>2
  <2> QED
    BY <2>1, <2>2
<1>9. d.high \in PricesIn(after, t) /\ \A x \in PricesIn(after, t) : x <= d.high
  BY <1>1, <1>4, <1>5, <1>6 DEF MarketData!Larger
<1>10. d.low \in PricesIn(after, t) /\ \A x \in PricesIn(after, t) : d.low <= x
  BY <1>1, <1>4, <1>5, <1>6 DEF MarketData!Smaller
<1>11. IsCandleOf(d, after, t)
  BY <1>7, <1>8, <1>9, <1>10, Zenon DEF IsCandleOf
<1> QED
  BY <1>11 DEF d

LEMMA FirstIsOpened ==
  ASSUME NEW n \in Nat, NEW qs \in [1..n -> QuoteRecord], NEW after, NEW t, NEW p \in Prices,
         QuoteAdded(after, qs, n, t, p), n # 0 => qs[n].time # t, TogetherIn(after, t)
  PROVE  IsCandleOf([time |-> t, open |-> p, high |-> p, low |-> p, close |-> p], after, t)
<1>1. /\ OwnIn(qs, t) \in SUBSET (1..n) /\ OwnIn(after, t) = OwnIn(qs, t) \cup {n + 1}
      /\ after[n + 1].price = p
  BY DEF QuoteAdded
<1>2. OwnIn(qs, t) = {}
  <2>1. ASSUME NEW i \in OwnIn(qs, t) PROVE FALSE
    <3>1. n \in i..(n + 1) /\ n # 0
      BY <1>1
    <3>2. n \in OwnIn(after, t)
      BY <1>1, <3>1 DEF TogetherIn
    <3>3. n \in OwnIn(qs, t)
      BY <1>1, <3>2
    <3> QED
      BY <3>1, <3>3 DEF OwnIn
  <2> QED
    BY <2>1
<1>3. OwnIn(after, t) = {n + 1} /\ PricesIn(after, t) = {p}
  BY <1>1, <1>2 DEF PricesIn
<1>4. p <= p /\ n + 1 <= n + 1
  BY SeriesAssumption
<1> QED
  BY <1>1, <1>3, <1>4 DEF IsCandleOf

LEMMA AscendingBefore ==
  ASSUME NEW n \in Nat, NEW qs \in [1..n -> QuoteRecord], NEW after, NEW t, NEW p,
         QuoteAdded(after, qs, n, t, p), Ascending(after)
  PROVE  Ascending(qs) /\ (n # 0 => qs[n].time <= t)
<1>1. /\ Len(qs) = n /\ Len(after) = n + 1 /\ after[n + 1].time = t
      /\ \A i \in 1..n : after[i] = qs[i]
  BY SequenceOf DEF QuoteAdded
<1>2. \A i \in 2..n : i \in 2..(n + 1) /\ i - 1 \in 1..n /\ i \in 1..n
  OBVIOUS
<1>3. Ascending(qs)
  BY <1>1, <1>2 DEF Ascending
<1>4. ASSUME n # 0 PROVE qs[n].time <= t
  <2>1. n + 1 \in 2..(n + 1) /\ (n + 1) - 1 = n /\ n \in 1..n
    BY <1>4
  <2>2. after[(n + 1) - 1].time <= after[n + 1].time
    BY <1>1, <2>1 DEF Ascending
  <2> QED
    BY <1>1, <2>1, <2>2
<1> QED
  BY <1>3, <1>4

LEMMA TimesAreFinite ==
  ASSUME NEW n \in Nat, NEW qs \in [1..n -> QuoteRecord]
  PROVE  /\ MarketData!TimesOf(qs) \in SUBSET Nat /\ IsFiniteSet(MarketData!TimesOf(qs))
         /\ MarketData!Cardinality(MarketData!TimesOf(qs)) \in Nat
         /\ \A x \in MarketData!TimesOf(qs) : \E i \in 1..n : x = qs[i].time
         /\ \A i \in 1..n : qs[i].time \in MarketData!TimesOf(qs)
<1>1. MarketData!Minutes \subseteq Nat
  BY SeriesAssumption DEF MarketData!Minutes
<1>2. Timed(qs, n)
  BY <1>1 DEF Timed, QuoteRecord
<1>3. MarketData!TimesOf(qs) \in SUBSET Nat /\ IsFiniteSet(MarketData!TimesOf(qs))
  BY <1>2, TimesAreCounted
<1>4. MarketData!Cardinality(MarketData!TimesOf(qs)) \in Nat
  BY <1>3, CardinalFacts
<1> QED
  BY <1>3, <1>4 DEF MarketData!TimesOf

LEMMA CandlesStay ==
  ASSUME NEW cs, NEW qs, CandlesOf(cs, qs), NEW t \in MarketData!Minutes, NEW p \in Prices,
         NEW after, QuoteAdded(after, qs, Len(qs), t, p),
         Len(cs) # 0, cs[1].time = t, NEW r, UpdatedWith(r, cs, t, p)
  PROVE  CandlesOf(r, after)
<1> DEFINE n == Len(qs)
           l == Len(cs)
<1>1. /\ n \in Nat /\ qs \in [1..n -> QuoteRecord] /\ l \in Nat \ {0} /\ cs \in [1..l -> Candle]
      /\ TopIsLast(cs, qs) /\ CandlesDiffer(cs) /\ EachIsCandle(cs, qs)
      /\ Ascending(qs) => NewestFirst(cs, qs)
  BY DEF CandlesOf, CandleTypes
<1>2. PICK c \in Nat \ {0} :
        /\ r \in [1..c -> Candle] /\ c = MarketData!Smaller(MaxCandles, l)
        /\ r[1] = [time |-> t, open |-> cs[1].open, high |-> MarketData!Larger(cs[1].high, p),
                   low |-> MarketData!Smaller(cs[1].low, p), close |-> p]
        /\ \A k \in 2..c : k \in 1..l /\ r[k] = cs[k]
        /\ \A j, k \in 1..c : r[j].time = r[k].time => j = k
  BY DEF UpdatedWith
<1>3. Len(r) = c
  BY <1>2, SequenceOf
<1>4. /\ after \in [1..(n + 1) -> QuoteRecord] /\ Len(after) = n + 1 /\ n + 1 \in Nat
      /\ after[n + 1].time = t /\ MarketData!TimesOf(after) = MarketData!TimesOf(qs) \cup {t}
      /\ \A i \in 1..(n + 1) : i \in 1..n \/ i = n + 1
      /\ \A i \in 1..n : after[i] = qs[i]
  BY DEF QuoteAdded
<1>5. n # 0 /\ qs[n].time = t /\ n \in 1..n
  BY <1>1 DEF TopIsLast
<1>6. r[1].time = t /\ \A k \in 2..c : k \in 1..c /\ k # 1 /\ r[k].time # t
  <2>1. \A k \in 2..c : k \in 1..c /\ k # 1
    OBVIOUS
  <2>2. r[1].time = t /\ 1 \in 1..c
    BY <1>2
  <2> QED
    BY <1>2, <2>1, <2>2
<1>7. CandleTypes(r, after)
  BY <1>2, <1>3, <1>4 DEF CandleTypes
<1>8. TopIsLast(r, after)
  BY <1>1, <1>3, <1>4, <1>6 DEF TopIsLast
<1>9. CandlesDiffer(r)
  BY <1>2, <1>3 DEF CandlesDiffer
<1>10. EachIsCandle(r, after)
  <2>1. t \in MarketData!TimesOf(after)
    BY <1>4
  <2>2. ASSUME TogetherIn(after, t) PROVE IsCandleOf(r[1], after, t)
    <3>1. cs[1] \in Candle /\ (TogetherIn(qs, t) => IsCandleOf(cs[1], qs, t))
      BY <1>1 DEF EachIsCandle
    <3>2. IsCandleOf([time |-> t, open |-> cs[1].open, high |-> MarketData!Larger(cs[1].high, p),
                      low |-> MarketData!Smaller(cs[1].low, p), close |-> p], after, t)
      BY <1>1, <1>5, <2>2, <3>1, TopIsUpdated
    <3> QED
      BY <1>2, <3>2, Zenon
  <2>3. ASSUME NEW k \in 2..c
        PROVE  /\ r[k].time \in MarketData!TimesOf(after)
               /\ TogetherIn(after, r[k].time) => IsCandleOf(r[k], after, r[k].time)
    <3>1. k \in 1..l /\ r[k] = cs[k] /\ cs[k].time # t
      BY <1>2, <1>6
    <3>2. /\ cs[k].time \in MarketData!TimesOf(qs)
          /\ TogetherIn(qs, cs[k].time) => IsCandleOf(cs[k], qs, cs[k].time)
      BY <1>1, <3>1 DEF EachIsCandle
    <3> QED
      BY <1>1, <3>1, <3>2, OtherCandles
  <2>4. \A k \in 1..c : k = 1 \/ k \in 2..c
    OBVIOUS
  <2> QED
    BY <1>3, <1>6, <2>1, <2>2, <2>3, <2>4 DEF EachIsCandle
<1>11. ASSUME Ascending(after) PROVE NewestFirst(r, after)
  <2>1. NewestFirst(cs, qs)
    BY <1>1, <1>11, AscendingBefore
  <2>2. t \in MarketData!TimesOf(qs) /\ t \in Nat
    BY <1>1, <1>5, TimesAreFinite
  <2>3. MarketData!TimesOf(after) = MarketData!TimesOf(qs)
    BY <1>4, <2>2
  <2>4. \A i \in 1..Len(after) : after[i].time <= after[Len(after)].time
    BY <1>4, <1>5, <2>1, <2>2 DEF NewestFirst
  <2>5. c = l /\ c = MarketData!Smaller(MaxCandles, MarketData!Cardinality(MarketData!TimesOf(qs)))
    <3>1. MaxCandles \in Nat /\ MarketData!Cardinality(MarketData!TimesOf(qs)) \in Nat
      BY <1>1, SeriesAssumption, TimesAreFinite
    <3>2. l = MarketData!Smaller(MaxCandles, MarketData!Cardinality(MarketData!TimesOf(qs)))
      BY <2>1 DEF NewestFirst
    <3> QED
      BY <1>2, <3>1, <3>2 DEF MarketData!Smaller
  <2>6. \A k \in 1..c : r[k].time = cs[k].time
    BY <1>2, <1>6
  <2>7. \A k \in 1..c : MarketData!Cardinality(Up(MarketData!TimesOf(qs), r[k].time)) = k - 1
    BY <2>1, <2>5, <2>6 DEF NewestFirst
  <2> QED
    BY <1>3, <2>3, <2>4, <2>5, <2>7 DEF NewestFirst
<1> QED
  BY <1>7, <1>8, <1>9, <1>10, <1>11 DEF CandlesOf

LEMMA CandlesGrow ==
  ASSUME NEW cs, NEW qs, CandlesOf(cs, qs), NEW t \in MarketData!Minutes, NEW p \in Prices,
         NEW after, QuoteAdded(after, qs, Len(qs), t, p),
         ~(Len(cs) # 0 /\ cs[1].time = t), NEW r, OpenedWith(r, cs, t, p)
  PROVE  CandlesOf(r, after)
<1> DEFINE n == Len(qs)
           l == Len(cs)
           T == MarketData!TimesOf(qs)
<1>1. /\ n \in Nat /\ qs \in [1..n -> QuoteRecord] /\ l \in Nat /\ cs \in [1..l -> Candle]
      /\ TopIsLast(cs, qs) /\ CandlesDiffer(cs) /\ EachIsCandle(cs, qs)
      /\ Ascending(qs) => NewestFirst(cs, qs)
  BY DEF CandlesOf, CandleTypes
<1>2. PICK c \in Nat \ {0} :
        /\ r \in [1..c -> Candle]
        /\ r[1] = [time |-> t, open |-> p, high |-> p, low |-> p, close |-> p]
        /\ \A k \in 2..c : \E i \in 1..l : r[k] = cs[i] /\ cs[i].time # t
        /\ \A j, k \in 1..c : r[j].time = r[k].time => j = k
        /\ (\A i \in 1..l : cs[i].time # t)
             => /\ c = MarketData!Smaller(MaxCandles, l + 1)
                /\ \A k \in 2..c : k - 1 \in 1..l /\ r[k] = cs[k - 1]
  BY DEF OpenedWith
<1>3. Len(r) = c /\ r[1].time = t
  BY <1>2, SequenceOf
<1>4. /\ after \in [1..(n + 1) -> QuoteRecord] /\ Len(after) = n + 1 /\ n + 1 \in Nat
      /\ after[n + 1].time = t /\ MarketData!TimesOf(after) = T \cup {t}
      /\ \A i \in 1..(n + 1) : i \in 1..n \/ i = n + 1
      /\ \A i \in 1..n : after[i] = qs[i]
  BY DEF QuoteAdded
<1>5. n # 0 => qs[n].time # t
  BY <1>1 DEF TopIsLast
<1>6. \A k \in 1..c : k = 1 \/ k \in 2..c
  OBVIOUS
<1>7. CandleTypes(r, after)
  BY <1>2, <1>3, <1>4 DEF CandleTypes
<1>8. TopIsLast(r, after)
  BY <1>1, <1>3, <1>4 DEF TopIsLast
<1>9. CandlesDiffer(r)
  BY <1>2, <1>3 DEF CandlesDiffer
<1>10. EachIsCandle(r, after)
  <2>1. t \in MarketData!TimesOf(after)
    BY <1>4
  <2>2. ASSUME TogetherIn(after, t) PROVE IsCandleOf(r[1], after, t)
    <3>1. IsCandleOf([time |-> t, open |-> p, high |-> p, low |-> p, close |-> p], after, t)
      BY <1>1, <1>5, <2>2, FirstIsOpened
    <3> QED
      BY <1>2, <3>1, Zenon
  <2>3. ASSUME NEW k \in 2..c
        PROVE  /\ r[k].time \in MarketData!TimesOf(after)
               /\ TogetherIn(after, r[k].time) => IsCandleOf(r[k], after, r[k].time)
    <3>1. PICK i \in 1..l : r[k] = cs[i] /\ cs[i].time # t
      BY <1>2
    <3>2. /\ cs[i].time \in MarketData!TimesOf(qs)
          /\ TogetherIn(qs, cs[i].time) => IsCandleOf(cs[i], qs, cs[i].time)
      BY <1>1, <3>1 DEF EachIsCandle
    <3> QED
      BY <1>1, <3>1, <3>2, OtherCandles
  <2> QED
    BY <1>3, <1>6, <2>1, <2>2, <2>3 DEF EachIsCandle
<1>11. ASSUME Ascending(after) PROVE NewestFirst(r, after)
  <2>1. NewestFirst(cs, qs) /\ (n # 0 => qs[n].time <= t)
    BY <1>1, <1>11, AscendingBefore
  <2>2. /\ T \in SUBSET Nat /\ IsFiniteSet(T) /\ MarketData!Cardinality(T) \in Nat
        /\ \A x \in T : \E i \in 1..n : x = qs[i].time
        /\ \A i \in 1..n : qs[i].time \in T
    BY <1>1, TimesAreFinite
  <2>3. t \in Nat /\ MaxCandles \in Nat \ {0}
    BY SeriesAssumption DEF MarketData!Minutes
  <2>4. ASSUME NEW x \in T PROVE x < t
    <3>1. PICK i \in 1..n : x = qs[i].time
      BY <2>2
    <3>2. n # 0 /\ n \in 1..n /\ qs[n].time \in Nat
      BY <1>1, <2>2
    <3>3. x \in Nat /\ x <= qs[n].time
      BY <2>1, <2>2, <3>1 DEF NewestFirst
    <3> QED
      BY <1>5, <2>1, <2>3, <3>2, <3>3
  <2>5. \A i \in 1..l : cs[i].time \in T /\ cs[i].time # t
    <3>1. \A i \in 1..l : cs[i].time \in T
      BY <1>1 DEF EachIsCandle
    <3>2. t \notin T
      BY <2>3, <2>4
    <3> QED
      BY <3>1, <3>2
  <2>6. /\ c = MarketData!Smaller(MaxCandles, l + 1)
        /\ \A k \in 2..c : k - 1 \in 1..l /\ r[k] = cs[k - 1]
    BY <1>2, <2>5
  <2> HIDE DEF T
  <2>7. /\ MarketData!Cardinality(T \cup {t}) = MarketData!Cardinality(T) + 1
        /\ MarketData!Cardinality(Up(T \cup {t}, t)) = 0
        /\ \A x \in T : MarketData!Cardinality(Up(T \cup {t}, x)) =
             MarketData!Cardinality(Up(T, x)) + 1
    BY <2>2, <2>3, <2>4, UpToNewest
  <2>8. c = MarketData!Smaller(MaxCandles, MarketData!Cardinality(T) + 1)
    <3>1. l = MarketData!Smaller(MaxCandles, MarketData!Cardinality(T))
      BY <2>1 DEF NewestFirst, T
    <3> QED
      BY <2>2, <2>3, <2>6, <3>1 DEF MarketData!Smaller
  <2>10. ASSUME NEW k \in 2..c PROVE MarketData!Cardinality(Up(T \cup {t}, r[k].time)) = k - 1
    <3>1. k - 1 \in 1..l /\ r[k] = cs[k - 1] /\ cs[k - 1].time \in T
      BY <2>5, <2>6
    <3>2. MarketData!Cardinality(Up(T, cs[k - 1].time)) = (k - 1) - 1
      BY <2>1, <3>1 DEF NewestFirst, T
    <3>3. MarketData!Cardinality(Up(T \cup {t}, cs[k - 1].time)) = ((k - 1) - 1) + 1
      BY <2>7, <3>1, <3>2
    <3> QED
      BY <3>1, <3>3
  <2>11. \A k \in 1..c : MarketData!Cardinality(Up(MarketData!TimesOf(after), r[k].time)) = k - 1
    <3>1. MarketData!Cardinality(Up(T \cup {t}, r[1].time)) = 1 - 1
      BY <1>3, <2>7
    <3>2. \A k \in 1..c : MarketData!Cardinality(Up(T \cup {t}, r[k].time)) = k - 1
      BY <1>6, <2>10, <3>1
    <3> QED
      BY <1>4, <3>2 DEF T
  <2>12. \A i \in 1..Len(after) : after[i].time <= after[Len(after)].time
    <3>1. \A i \in 1..n : after[i].time <= t
      BY <1>4, <2>2, <2>3, <2>4 DEF T
    <3>2. t <= t
      BY <2>3
    <3> QED
      BY <1>4, <3>1, <3>2
  <2>13. Len(r) = MarketData!Smaller(MaxCandles, MarketData!Cardinality(MarketData!TimesOf(after)))
    BY <1>3, <1>4, <2>7, <2>8 DEF T
  <2> QED
    BY <1>3, <2>11, <2>12, <2>13 DEF NewestFirst
<1> QED
  BY <1>7, <1>8, <1>9, <1>10, <1>11 DEF CandlesOf

\* recordQuote and recordSyntheticCandle.
LEMMA CandlesStep ==
  ASSUME CandleInv, NEW t \in MarketData!Minutes, NEW p \in Prices, MarketData!RecordQuote(t, p)
  PROVE  CandleInv'
<1>1. PICK cs, qs : cs = candles /\ qs = quotes
  OBVIOUS
<1>2. PICK r, after : r = candles' /\ after = quotes'
  OBVIOUS
<1>3. /\ CandlesOf(cs, qs) /\ r = MarketData!WithCandle(cs, t, p)
      /\ after = Append(qs, [time |-> t, price |-> p])
  BY <1>1, <1>2 DEF CandleInv, MarketData!RecordQuote
<1>4. QuoteAdded(after, qs, Len(qs), t, p)
  BY <1>3, OwnAfterQuote DEF CandlesOf, CandleTypes
<1>5. cs \in [1..Len(cs) -> Candle] /\ Len(cs) \in Nat /\ CandlesDiffer(cs)
  BY <1>3 DEF CandlesOf, CandleTypes
<1>6. CASE Len(cs) # 0 /\ cs[1].time = t
  <2>1. UpdatedWith(r, cs, t, p)
    BY <1>3, <1>5, <1>6, CandleUpdated
  <2>2. CandlesOf(r, after)
    BY <1>3, <1>4, <1>6, <2>1, CandlesStay
  <2> QED
    BY <1>2, <2>2 DEF CandleInv
<1>7. CASE ~(Len(cs) # 0 /\ cs[1].time = t)
  <2>1. OpenedWith(r, cs, t, p)
    BY <1>3, <1>5, <1>7, CandleOpened
  <2>2. CandlesOf(r, after)
    BY <1>3, <1>4, <1>7, <2>1, CandlesGrow
  <2> QED
    BY <1>2, <2>2 DEF CandleInv
<1> QED
  BY <1>6, <1>7

SeriesInv == MarketTypes /\ BarsInv /\ CandleInv

LEMMA SeriesInvariant == MarketData!Spec => []SeriesInv
<1>1. MarketData!Init => SeriesInv
  <2> SUFFICES ASSUME MarketData!Init PROVE SeriesInv
    OBVIOUS
  <2>1. MarketTypes
    BY SeriesAssumption DEF MarketData!Init, MarketTypes, MarketData!Minutes
  <2>2. BarsInv
    <3>1. Received = {}
      BY DEF MarketData!Init, Received
    <3>2. MarketData!Cardinality(Received) = 0
      BY <3>1, FS_EmptySet, SeriesCardinality
    <3>3. MarketData!Smaller(MaxSeries, MarketData!Cardinality(Received)) = 0
      BY <3>2, SeriesAssumption DEF MarketData!Smaller
    <3> QED
      BY <3>3 DEF MarketData!Init, BarsInv
  <2>3. CandleInv
    <3>1. candles = <<>> /\ quotes = <<>> /\ Len(quotes) = 0 /\ Len(candles) = 0
      BY DEF MarketData!Init
    <3>2. MarketData!TimesOf(quotes) = {}
      BY <3>1 DEF MarketData!TimesOf
    <3>3. MarketData!Cardinality(MarketData!TimesOf(quotes)) = 0
      BY <3>2, FS_EmptySet, SeriesCardinality
    <3>4. CandleTypes(candles, quotes)
      BY <3>1 DEF CandleTypes
    <3>5. NewestFirst(candles, quotes)
      BY <3>1, <3>3, SeriesAssumption DEF NewestFirst, MarketData!Smaller
    <3> QED
      BY <3>1, <3>4, <3>5 DEF CandleInv, CandlesOf, TopIsLast, CandlesDiffer, EachIsCandle
  <2> QED
    BY <2>1, <2>2, <2>3 DEF SeriesInv
<1>2. SeriesInv /\ [MarketData!Next]_MarketData!seriesVars => SeriesInv'
  <2> SUFFICES ASSUME SeriesInv, [MarketData!Next]_MarketData!seriesVars PROVE SeriesInv'
    OBVIOUS
  <2>1. MarketTypes /\ BarsInv /\ CandleInv
    BY DEF SeriesInv
  <2>2. minute \in Nat \ {0} /\ minute \in 1..minute /\ 1..minute \subseteq MarketData!Minutes
    BY <2>1, SeriesAssumption DEF MarketTypes, MarketData!Minutes
  <2>3. ASSUME UNCHANGED <<candles, quotes>> PROVE CandleInv'
    BY <2>1, <2>3 DEF CandleInv
  <2>4. ASSUME UNCHANGED <<bars, sent>> PROVE BarsInv'
    BY <2>1, <2>4 DEF BarsInv, Received
  <2>5. ASSUME NEW t \in 1..minute, MarketData!Quote(t) PROVE SeriesInv'
    <3>1. market[minute] \in Prices /\ t \in MarketData!Minutes
      BY <2>1, <2>2 DEF MarketTypes
    <3>2. MarketData!RecordQuote(t, market[minute]) /\ UNCHANGED <<minute, market, bars, sent>>
      BY <2>5 DEF MarketData!Quote
    <3>3. CandleInv'
      BY <2>1, <3>1, <3>2, CandlesStep
    <3>4. MarketTypes'
      BY <2>1, <3>2 DEF MarketTypes
    <3> QED
      BY <2>4, <3>2, <3>3, <3>4 DEF SeriesInv
  <2>6. ASSUME NEW t \in {minute, minute - 1} \cap MarketData!Minutes, NEW n \in Depth,
               MarketData!Bars(t, n)
        PROVE  SeriesInv'
    <3>1. t \in 1..minute /\ n <= t
      BY <2>2, <2>6, SeriesAssumption DEF MarketData!Bars, MarketData!Minutes
    <3>2. BarsInv' /\ MarketTypes'
      BY <2>1, <2>6, <3>1, BarsMerge DEF MarketData!Bars
    <3>3. MarketData!Last(MarketData!Payload(t, n)).close \in Prices
      <4>1. /\ n \in Nat \ {0} /\ Len(MarketData!Payload(t, n)) = n
            /\ MarketData!Payload(t, n) \in [1..n -> [time : MarketData!Minutes, close : Prices]]
        BY <2>1, <3>1, PayloadFacts
      <4> QED
        BY <4>1 DEF MarketData!Last
    <3>4. CASE recentQ
      BY <2>3, <2>6, <3>2, <3>4 DEF MarketData!Bars, SeriesInv
    <3>5. CASE ~recentQ
      <4>1. MarketData!RecordQuote(minute, MarketData!Last(MarketData!Payload(t, n)).close)
        BY <2>6, <3>5 DEF MarketData!Bars
      <4> QED
        BY <2>1, <2>2, <3>2, <3>3, <4>1, CandlesStep DEF SeriesInv
    <3> QED
      BY <3>4, <3>5
  <2>7. ASSUME NEW p \in Prices, MarketData!Move(p) PROVE SeriesInv'
    <3>1. MarketTypes'
      BY <2>1, <2>7 DEF MarketData!Move, MarketTypes
    <3> QED
      BY <2>3, <2>4, <2>7, <3>1 DEF MarketData!Move, SeriesInv
  <2>8. CASE MarketData!NextMinute
    <3>1. market' \in [1..(minute + 1) -> Prices] /\ minute' \in MarketData!Minutes
      <4>1. /\ minute' = minute + 1 /\ market' = Append(market, market[minute])
            /\ minute < MaxTime /\ MaxTime \in Nat
        BY <2>8, SeriesAssumption DEF MarketData!NextMinute
      <4>2. market[minute] \in Prices /\ market \in Seq(Prices) /\ Len(market) = minute
        BY <2>1, <2>2, SequenceOf DEF MarketTypes
      <4>3. /\ Append(market, market[minute]) \in Seq(Prices)
            /\ Len(Append(market, market[minute])) = minute + 1
        BY <4>2
      <4>4. Append(market, market[minute]) \in [1..(minute + 1) -> Prices]
        BY <4>3, LenProperties
      <4> QED
        BY <2>2, <4>1, <4>4 DEF MarketData!Minutes
    <3>2. MarketTypes'
      BY <2>1, <2>8, <3>1 DEF MarketData!NextMinute, MarketTypes
    <3> QED
      BY <2>3, <2>4, <2>8, <3>2 DEF MarketData!NextMinute, SeriesInv
  <2>9. CASE MarketData!QuoteAges \/ UNCHANGED MarketData!seriesVars
    <3>1. UNCHANGED <<minute, market, candles, bars, quotes, sent>>
      BY <2>9 DEF MarketData!QuoteAges, MarketData!seriesVars
    <3>2. MarketTypes'
      BY <2>1, <3>1 DEF MarketTypes
    <3> QED
      BY <2>3, <2>4, <3>1, <3>2 DEF SeriesInv
  <2> QED
    BY <2>5, <2>6, <2>7, <2>8, <2>9 DEF MarketData!Next
<1>3. QED
  BY <1>1, <1>2, PTL DEF MarketData!Spec

\* The candles built from quotes: each whose quotes came together is exact, and without
\* stamps that go back the newest minutes are there, newest first.
THEOREM BuiltCandlesAreExact == ComponentsSpec => []CandlesAreExact
<1>1. SeriesInv => CandlesAreExact
  BY CandlesMeanExact DEF SeriesInv, CandlesAreExact
<1>2. QED
  BY <1>1, SeriesInvariant, PTL DEF ComponentsSpec

\* recordMarketBars: however payloads overlap, the bars kept are the newest of all that
\* came, each as it came last.
THEOREM KeptBarsAreNewest == ComponentsSpec => []BarsAreNewest
<1>1. SeriesInv => BarsAreNewest
  BY BarsMeanNewest DEF SeriesInv, BarsAreNewest
<1>2. QED
  BY <1>1, SeriesInvariant, PTL DEF ComponentsSpec
=============================================================================
