---------------------------- MODULE ServicesProofs ----------------------------
(***************************************************************************)
(* What holds of the services beside the trades for every value of the     *)
(* constants: reconciliation, persistence backoff, prefetching, cache and  *)
(* price fetcher.  Each has an inductive invariant of its own; the         *)
(* theorems state the properties of Components.                            *)
(***************************************************************************)
EXTENDS Components, SequenceTheorems, FiniteSetTheorems, TLAPS

(***************************************************************************)
(* Reconciliation.  Without a start during a run there is one timer or one *)
(* run, and the handle is that of the timer.                               *)
(***************************************************************************)
ReconInv ==
  /\ timers \in Nat /\ runs \in Nat
  /\ handle => timers > 0
  /\ ~doubled => timers + runs <= 1 /\ (timers > 0 => handle)
  /\ ~wanted /\ timers + runs > 0 => outlived \/ doubled

LEMMA ReconInvariant == Recon!Spec => []ReconInv
<1>1. Recon!Init => ReconInv
  BY DEF Recon!Init, ReconInv
<1>2. ReconInv /\ [Recon!Next]_Recon!reconVars => ReconInv'
  <2> SUFFICES ASSUME ReconInv, [Recon!Next]_Recon!reconVars PROVE ReconInv'
    OBVIOUS
  <2>1. CASE Recon!Start
    <3>1. doubled' <=> doubled \/ runs > 0
      BY <2>1, Zenon DEF Recon!Start
    <3>2. wanted' /\ handle'
      BY <2>1, Zenon DEF Recon!Start
    <3>3. runs' = runs /\ timers' = timers + 1 /\ ~handle
      BY <2>1, Zenon DEF Recon!Start
    <3> QED
      BY <3>1, <3>2, <3>3 DEF ReconInv
  <2>2. CASE Recon!Stop
    <3>1. (outlived' <=> outlived \/ runs > 0) /\ (doubled' <=> doubled)
      BY <2>2, Zenon DEF Recon!Stop
    <3>2. ~handle'
      BY <2>2, Zenon DEF Recon!Stop
    <3>3. runs' = runs /\ timers' = IF handle THEN timers - 1 ELSE timers
      BY <2>2, Zenon DEF Recon!Stop
    <3> QED
      BY <3>1, <3>2, <3>3 DEF ReconInv
  <2>3. CASE Recon!Fire
    BY <2>3 DEF ReconInv, Recon!Fire
  <2>4. CASE Recon!EndRun
    BY <2>4 DEF ReconInv, Recon!EndRun
  <2>5. CASE UNCHANGED Recon!reconVars
    BY <2>5 DEF ReconInv, Recon!reconVars
  <2> QED
    BY <2>1, <2>2, <2>3, <2>4, <2>5 DEF Recon!Next
<1>3. QED
  BY <1>1, <1>2, PTL DEF Recon!Spec

\* start and stop (reconciliation-service.js) know one timer only: several chains of
\* runs, or one that goes on after stop, come only of a start or stop during a run.
THEOREM ReconcilesAlongOneChain == ComponentsSpec => []ChainsExplained
<1>1. ReconInv => ChainsExplained
  BY DEF ReconInv, ChainsExplained, Recon!ChainsExplained
<1>2. QED
  BY <1>1, ReconInvariant, PTL DEF ComponentsSpec
-----------------------------------------------------------------------------
(***************************************************************************)
(* Persistence backoff.  While it lasts, every write under way is older    *)
(* than the failure that set it: none starts meanwhile.                    *)
(***************************************************************************)
PersistInv ==
  /\ waits # 0 => writing \subseteq older
  /\ ~cutBackoff

LEMMA PersistInvariant == Persistence!Spec => []PersistInv
<1>1. Persistence!Init => PersistInv
  BY DEF Persistence!Init, PersistInv
<1>2. PersistInv /\ [Persistence!Next]_Persistence!persistVars => PersistInv'
  <2> SUFFICES ASSUME PersistInv, [Persistence!Next]_Persistence!persistVars
               PROVE PersistInv'
    OBVIOUS
  <2> USE DEF PersistInv
  <2>1. ASSUME NEW w \in Write, Persistence!StartWrite(w) PROVE PersistInv'
    BY <2>1 DEF Persistence!StartWrite, Persistence!Active
  <2>2. ASSUME NEW w \in Write, Persistence!Fail(w) PROVE PersistInv'
    BY <2>2 DEF Persistence!Fail, Persistence!Ended, Persistence!MarkFailure
  <2>3. ASSUME NEW w \in Write, NEW marks \in BOOLEAN, Persistence!Succeed(w, marks)
        PROVE PersistInv'
    <3>1. writing' \subseteq older' \/ ~(writing \subseteq older)
      BY <2>3 DEF Persistence!Succeed, Persistence!Ended
    <3>2. CASE marks
      BY <2>3, <3>2, Zenon DEF Persistence!Succeed, Persistence!Ended, Persistence!Active
    <3>3. CASE ~marks
      BY <2>3, <3>1, <3>3 DEF Persistence!Succeed
    <3> QED
      BY <3>2, <3>3
  <2>4. CASE Persistence!BackoffRuns
    <3>1. waits # 0 /\ writing' = writing /\ older' = older /\ cutBackoff' = cutBackoff
      BY <2>4 DEF Persistence!BackoffRuns
    <3> QED
      BY <3>1
  <2>5. CASE UNCHANGED Persistence!persistVars
    BY <2>5 DEF Persistence!persistVars
  <2> QED
    BY <2>1, <2>2, <2>3, <2>4, <2>5 DEF Persistence!Next
<1>3. QED
  BY <1>1, <1>2, PTL DEF Persistence!Spec
-----------------------------------------------------------------------------
(***************************************************************************)
(* Prefetching.  Of two cycles at once each runs beside another; and what  *)
(* a cycle that runs alone has still to fetch was due when it started and  *)
(* has not been stamped since.                                             *)
(***************************************************************************)
PrefetchTypes ==
  /\ tick \in Int
  /\ last \in [Series -> Int]
  /\ cycle \in [Cycle -> [on : BOOLEAN, at : Int, left : SUBSET Series]]

CyclesMeet ==
  \A c, d \in Cycle : c # d /\ cycle[c].on /\ cycle[d].on => c \in beside

LeftIsDue ==
  \A c \in Cycle : \A s \in cycle[c].left :
    cycle[c].on /\ (c \notin beside => last[s] = -1 \/ cycle[c].at - last[s] >= Cadence)

PrefetchInv == PrefetchTypes /\ CyclesMeet /\ LeftIsDue /\ ~twice

LEMMA PrefetchStarts ==
  ASSUME PrefetchInv, NEW c \in Cycle, NEW selected \in SUBSET Series,
         Prefetch!StartCycle(c, selected)
  PROVE  PrefetchInv'
<1> DEFINE others == {d \in Cycle \ {c} : cycle[d].on}
<1>1. cycle' = [cycle EXCEPT ![c] = [on |-> TRUE, at |-> tick, left |-> selected]]
  BY DEF Prefetch!StartCycle
<1>2. beside' = IF others = {} THEN beside \ {c} ELSE beside \cup others \cup {c}
  BY Zenon DEF Prefetch!StartCycle
<1>3. tick' = tick /\ last' = last /\ twice' = twice
  BY DEF Prefetch!StartCycle
<1>4. PrefetchTypes'
  BY <1>1, <1>3 DEF PrefetchInv, PrefetchTypes
<1>5. cycle'[c] = [on |-> TRUE, at |-> tick, left |-> selected]
      /\ \A d \in Cycle \ {c} : cycle'[d] = cycle[d]
  BY <1>1 DEF PrefetchInv, PrefetchTypes
<1>6. CyclesMeet'
  BY <1>2, <1>5 DEF PrefetchInv, CyclesMeet
<1>7. LeftIsDue'
  <2>1. \A s \in selected : last[s] = -1 \/ tick - last[s] >= Cadence
    BY DEF Prefetch!StartCycle, Prefetch!Due
  <2> QED
    BY <1>2, <1>3, <1>5, <2>1 DEF PrefetchInv, LeftIsDue
<1> QED
  BY <1>3, <1>4, <1>6, <1>7 DEF PrefetchInv

LEMMA PrefetchEnds ==
  ASSUME PrefetchInv, NEW c \in Cycle, NEW s \in Series, NEW ok \in BOOLEAN,
         Prefetch!EndFetch(c, s, ok)
  PROVE  PrefetchInv'
<1> DEFINE left == cycle[c].left \ {s}
<1>1. cycle' = [cycle EXCEPT ![c] = IF left = {} THEN Prefetch!NoCycle
                                    ELSE [@ EXCEPT !.left = left]]
  BY DEF Prefetch!EndFetch
<1>2. last' = IF ok THEN [last EXCEPT ![s] = cycle[c].at] ELSE last
  BY DEF Prefetch!EndFetch
<1>3. tick' = tick /\ beside' = beside /\ s \in cycle[c].left
  BY DEF Prefetch!EndFetch
<1>4. cycle[c].on /\ (c \notin beside => last[s] = -1 \/ cycle[c].at - last[s] >= Cadence)
  BY <1>3 DEF PrefetchInv, LeftIsDue
<1>5. PrefetchTypes'
  <2>1. Prefetch!NoCycle \in [on : BOOLEAN, at : Int, left : SUBSET Series]
    BY DEF Prefetch!NoCycle
  <2> QED
    BY <1>1, <1>2, <1>3, <2>1 DEF PrefetchInv, PrefetchTypes
<1>6. /\ \/ cycle'[c] = Prefetch!NoCycle
         \/ /\ cycle'[c].on = cycle[c].on /\ cycle'[c].at = cycle[c].at
            /\ cycle'[c].left = left
      /\ \A d \in Cycle \ {c} : cycle'[d] = cycle[d]
  BY <1>1 DEF PrefetchInv, PrefetchTypes
<1>7. CyclesMeet'
  BY <1>3, <1>6 DEF PrefetchInv, CyclesMeet, Prefetch!NoCycle
<1>8. ~twice'
  <2>1. last[s] \in Int /\ cycle[c].at \in Int /\ Cadence \in Nat
    BY PrefetchAssumption DEF PrefetchInv, PrefetchTypes
  <2>2. ~(ok /\ c \notin beside /\ last[s] # -1 /\ cycle[c].at - last[s] < Cadence)
    BY <1>4, <2>1
  <2> QED
    BY <2>2, Zenon DEF PrefetchInv, Prefetch!EndFetch
<1>9. LeftIsDue'
  <2> SUFFICES ASSUME NEW d \in Cycle, NEW r \in cycle'[d].left
               PROVE  cycle'[d].on /\ (d \notin beside =>
                        last'[r] = -1 \/ cycle'[d].at - last'[r] >= Cadence)
    BY <1>3 DEF LeftIsDue
  <2>1. cycle'[d].on = cycle[d].on /\ cycle'[d].at = cycle[d].at /\ r \in cycle[d].left
        /\ (d = c => r # s)
    BY <1>6 DEF Prefetch!NoCycle
  <2>2. cycle[d].on /\ (d \notin beside => last[r] = -1 \/ cycle[d].at - last[r] >= Cadence)
    BY <2>1 DEF PrefetchInv, LeftIsDue
  <2>3. d # c => d \in beside
    BY <1>4, <2>2 DEF PrefetchInv, CyclesMeet
  <2>4. d = c => last'[r] = last[r]
    BY <1>2, <2>1 DEF PrefetchInv, PrefetchTypes
  <2> QED
    BY <2>1, <2>2, <2>3, <2>4
<1> QED
  BY <1>5, <1>7, <1>8, <1>9 DEF PrefetchInv

LEMMA PrefetchInvariant == Prefetch!Spec => []PrefetchInv
<1>1. Prefetch!Init => PrefetchInv
  BY DEF Prefetch!Init, Prefetch!NoCycle, PrefetchInv, PrefetchTypes, CyclesMeet, LeftIsDue
<1>2. PrefetchInv /\ [Prefetch!Next]_Prefetch!prefetchVars => PrefetchInv'
  <2> SUFFICES ASSUME PrefetchInv, [Prefetch!Next]_Prefetch!prefetchVars
               PROVE PrefetchInv'
    OBVIOUS
  <2>1. CASE Prefetch!TickPasses
    BY <2>1 DEF Prefetch!TickPasses, PrefetchInv, PrefetchTypes, CyclesMeet, LeftIsDue
  <2>2. CASE UNCHANGED Prefetch!prefetchVars
    BY <2>2 DEF Prefetch!prefetchVars, PrefetchInv, PrefetchTypes, CyclesMeet, LeftIsDue
  <2> QED
    BY <2>1, <2>2, PrefetchStarts, PrefetchEnds DEF Prefetch!Next
<1>3. QED
  BY <1>1, <1>2, PTL DEF Prefetch!Spec
-----------------------------------------------------------------------------
(***************************************************************************)
(* Cache.  Its entries have different keys and are no more than its limit; *)
(* a caller since whose miss nothing was stored for its key finds nothing  *)
(* there.                                                                  *)
(***************************************************************************)
Entry == [key : CachedKey, value : Int]

KeysDiffer(s) == \A i, j \in 1..Len(s) : s[i].key = s[j].key => i = j
Holds(s, k) == \E i \in 1..Len(s) : s[i].key = k

CacheTypes ==
  /\ version \in [CachedKey -> Int]
  /\ entries \in Seq(Entry)
  /\ getter \in [Getter -> [key : SUBSET CachedKey, value : Int]]

MissedFindNothing ==
  \A g \in Getter, k \in CachedKey :
    getter[g].key = {k} /\ g \notin newer => ~Holds(entries, k)

CacheInv ==
  /\ CacheTypes /\ MissedFindNothing
  /\ Len(entries) <= MaxSize /\ KeysDiffer(entries)
  /\ ~back

\* What is left of a sequence without its element i.
LEMMA RemoveAtProperties ==
  ASSUME NEW S, NEW s \in Seq(S), NEW i \in 1..Len(s)
  PROVE  /\ Cache!RemoveAt(s, i) \in Seq(S)
         /\ Len(Cache!RemoveAt(s, i)) = Len(s) - 1
         /\ \A j \in 1..(Len(s) - 1) :
              Cache!RemoveAt(s, i)[j] = IF j < i THEN s[j] ELSE s[j + 1]
<1> DEFINE l == SubSeq(s, 1, i - 1)
           r == SubSeq(s, i + 1, Len(s))
<1>1. l \in Seq(S) /\ Len(l) = i - 1 /\ \A j \in 1..(i - 1) : l[j] = s[j]
  OBVIOUS
<1>2. r \in Seq(S) /\ Len(r) = Len(s) - i /\ \A j \in 1..(Len(s) - i) : r[j] = s[i + j]
  OBVIOUS
<1>3. Cache!RemoveAt(s, i) = l \o r
  BY DEF Cache!RemoveAt
<1> HIDE DEF l, r
<1>4. /\ l \o r \in Seq(S) /\ Len(l \o r) = Len(s) - 1
      /\ \A j \in 1..(Len(s) - 1) : (l \o r)[j] = IF j <= i - 1 THEN l[j] ELSE r[j - (i - 1)]
  <2>1. Len(l) + Len(r) = Len(s) - 1 /\ Len(l) = i - 1
    BY <1>1, <1>2
  <2>2. /\ l \o r \in Seq(S)
        /\ Len(l \o r) = Len(l) + Len(r)
        /\ \A j \in 1 .. Len(l) + Len(r) :
             (l \o r)[j] = IF j <= Len(l) THEN l[j] ELSE r[j - Len(l)]
    BY <1>1, <1>2, ConcatProperties, Zenon
  <2> QED
    BY <2>1, <2>2
<1>5. ASSUME NEW j \in 1..(Len(s) - 1)
      PROVE  (l \o r)[j] = IF j < i THEN s[j] ELSE s[j + 1]
  <2>1. i \in Int /\ j \in Int /\ Len(s) \in Nat
    OBVIOUS
  <2>2. CASE j < i
    <3>1. j <= i - 1 /\ j \in 1..(i - 1)
      BY <2>1, <2>2
    <3> QED
      BY <1>1, <1>4, <2>2, <3>1
  <2>3. CASE j >= i
    <3>1. ~(j <= i - 1) /\ ~(j < i) /\ j - (i - 1) \in 1..(Len(s) - i)
          /\ i + (j - (i - 1)) = j + 1
      BY <2>1, <2>3
    <3>2. r[j - (i - 1)] = s[i + (j - (i - 1))]
      BY <1>2, <3>1
    <3> QED
      BY <1>4, <3>1, <3>2
  <2>4. j < i \/ j >= i
    BY <2>1
  <2> QED
    BY <2>2, <2>3, <2>4, Zenon
<1> QED
  BY <1>3, <1>4, <1>5

\* The rest of the cache, for another key k, is a sequence of entries without it.
WithoutKey(s, k) ==
  /\ s \in Seq(Entry) /\ KeysDiffer(s) /\ ~Holds(s, k)
  /\ \A other \in CachedKey : Holds(s, other) => Holds(entries, other)

LEMMA OthersLackTheKey ==
  ASSUME CacheInv, NEW k \in CachedKey
  PROVE  /\ WithoutKey(Cache!Others(k), k)
         /\ Len(Cache!Others(k)) <= Len(entries)
         /\ Cache!Cached(k) => Len(Cache!Others(k)) < Len(entries)
<1>1. entries \in Seq(Entry) /\ KeysDiffer(entries)
  BY DEF CacheInv, CacheTypes
<1>2. CASE ~Cache!Cached(k)
  BY <1>1, <1>2 DEF Cache!Cached, Cache!Others, WithoutKey, Holds
<1>3. CASE Cache!Cached(k)
  <2> DEFINE i == Cache!Position(k)
             s == Cache!RemoveAt(entries, i)
  <2>1. i \in 1..Len(entries) /\ entries[i].key = k
    BY <1>1, <1>3 DEF Cache!Cached, Cache!Position
  <2>2. Cache!Others(k) = s
    BY <1>3 DEF Cache!Others
  <2> HIDE DEF i
  <2>3. /\ s \in Seq(Entry) /\ Len(s) = Len(entries) - 1
        /\ \A j \in 1..(Len(entries) - 1) :
             s[j] = IF j < i THEN entries[j] ELSE entries[j + 1]
    BY <1>1, <2>1, RemoveAtProperties
  <2> HIDE DEF s
  <2> DEFINE at(j) == IF j < i THEN j ELSE j + 1
  <2>4. \A j \in 1..Len(s) : at(j) \in 1..Len(entries) /\ at(j) # i /\ s[j] = entries[at(j)]
    <3> SUFFICES ASSUME NEW j \in 1..Len(s)
                 PROVE  at(j) \in 1..Len(entries) /\ at(j) # i /\ s[j] = entries[at(j)]
      OBVIOUS
    <3>1. Len(entries) \in Nat /\ i \in Nat /\ j \in 1..(Len(entries) - 1)
      BY <1>1, <2>1, <2>3
    <3>2. s[j] = entries[at(j)]
      BY <2>3, <3>1
    <3> QED
      BY <2>1, <3>1, <3>2
  <2>5. \A j, m \in 1..Len(s) : at(j) = at(m) => j = m
    BY <1>1, <2>1, <2>3
  <2> HIDE DEF at
  <2>6. KeysDiffer(s)
    BY <1>1, <2>4, <2>5 DEF KeysDiffer
  <2>7. ~Holds(s, k)
    BY <1>1, <2>1, <2>4 DEF KeysDiffer, Holds
  <2>8. \A other \in CachedKey : Holds(s, other) => Holds(entries, other)
    BY <2>4 DEF Holds
  <2> QED
    BY <1>1, <2>2, <2>3, <2>6, <2>7, <2>8 DEF WithoutKey
<1> QED
  BY <1>2, <1>3

LEMMA TailLacksTheKey ==
  ASSUME CacheInv, NEW k \in CachedKey, ~Cache!Cached(k), Len(entries) >= 1
  PROVE  WithoutKey(Tail(entries), k) /\ Len(Tail(entries)) = Len(entries) - 1
<1>1. entries \in Seq(Entry) /\ KeysDiffer(entries) /\ ~Holds(entries, k)
  BY DEF CacheInv, CacheTypes, Cache!Cached, Holds
<1>2. /\ Tail(entries) \in Seq(Entry) /\ Len(Tail(entries)) = Len(entries) - 1
      /\ \A j \in 1..(Len(entries) - 1) : Tail(entries)[j] = entries[j + 1]
  BY <1>1
<1> QED
  BY <1>1, <1>2 DEF WithoutKey, KeysDiffer, Holds

LEMMA AppendAddsTheKey ==
  ASSUME NEW k \in CachedKey, NEW s, WithoutKey(s, k), NEW v \in Int
  PROVE  LET t == Append(s, [key |-> k, value |-> v]) IN
         /\ t \in Seq(Entry) /\ Len(t) = Len(s) + 1 /\ KeysDiffer(t)
         /\ \A other \in CachedKey : Holds(t, other) => other = k \/ Holds(entries, other)
<1> DEFINE e == [key |-> k, value |-> v]
           t == Append(s, e)
<1>1. e \in Entry /\ e.key = k
  BY DEF Entry
<1> HIDE DEF e
<1>2. s \in Seq(Entry)
  BY DEF WithoutKey
<1>3. /\ t \in Seq(Entry) /\ Len(t) = Len(s) + 1 /\ t[Len(s) + 1] = e
      /\ \A j \in 1..Len(s) : t[j] = s[j]
  BY <1>1, <1>2
<1> HIDE DEF t
<1>4. KeysDiffer(t)
  BY <1>1, <1>2, <1>3 DEF WithoutKey, KeysDiffer, Holds
<1>5. \A other \in CachedKey : Holds(t, other) => other = k \/ Holds(s, other)
  BY <1>1, <1>2, <1>3 DEF Holds
<1> QED
  BY <1>3, <1>4, <1>5 DEF t, e, WithoutKey

\* What set leaves: the key with the others, no more than the limit.
LEMMA EntryIsSet ==
  ASSUME CacheInv, NEW k \in CachedKey, NEW v \in Int, entries' = Cache!WithEntry(k, v)
  PROVE  /\ entries' \in Seq(Entry) /\ KeysDiffer(entries') /\ Len(entries') <= MaxSize
         /\ \A other \in CachedKey : Holds(entries', other) => other = k \/ Holds(entries, other)
<1> DEFINE s == IF Len(entries) >= MaxSize /\ ~Cache!Cached(k) THEN Tail(entries)
                ELSE Cache!Others(k)
<1>1. MaxSize \in Nat /\ MaxSize >= 1 /\ Len(entries) <= MaxSize /\ Len(entries) \in Nat
  BY CacheAssumption DEF CacheInv, CacheTypes
<1>2. WithoutKey(s, k) /\ Len(s) < MaxSize
  <2>1. CASE Len(entries) >= MaxSize /\ ~Cache!Cached(k)
    BY <1>1, <2>1, TailLacksTheKey
  <2>2. CASE ~(Len(entries) >= MaxSize /\ ~Cache!Cached(k))
    <3>1. Len(Cache!Others(k)) \in Nat
      BY OthersLackTheKey DEF WithoutKey
    <3> QED
      BY <1>1, <2>2, <3>1, OthersLackTheKey
  <2> QED
    BY <2>1, <2>2
<1>3. Len(s) \in Nat
  BY <1>2 DEF WithoutKey
<1>4. entries' = Append(s, [key |-> k, value |-> v])
  BY DEF Cache!WithEntry
<1> HIDE DEF s
<1> QED
  BY <1>1, <1>2, <1>3, <1>4, AppendAddsTheKey

LEMMA CacheInvariant == Cache!Spec => []CacheInv
<1>1. Cache!Init => CacheInv
  <2> SUFFICES ASSUME Cache!Init PROVE CacheInv
    OBVIOUS
  <2>1. CacheTypes /\ entries = <<>>
    BY DEF Cache!Init, Cache!NoGet, CacheTypes
  <2>2. Len(entries) = 0
    BY <2>1
  <2> QED
    BY <2>1, <2>2, CacheAssumption
    DEF Cache!Init, CacheInv, MissedFindNothing, Holds, KeysDiffer
<1>2. CacheInv /\ [Cache!Next]_Cache!cacheVars => CacheInv'
  <2> SUFFICES ASSUME CacheInv, [Cache!Next]_Cache!cacheVars PROVE CacheInv'
    OBVIOUS
  <2>1. ASSUME NEW k \in CachedKey, Cache!Set(k) PROVE CacheInv'
    <3>1. version[k] \in Int
      BY DEF CacheInv, CacheTypes
    <3> QED
      BY <2>1, <3>1, EntryIsSet DEF Cache!Set, CacheInv, CacheTypes, MissedFindNothing
  <2>2. ASSUME NEW k \in CachedKey, Cache!Hit(k) PROVE CacheInv'
    <3> DEFINE i == Cache!Position(k)
    <3>1. i \in 1..Len(entries) /\ entries[i].key = k
      BY <2>2 DEF Cache!Hit, Cache!Cached, Cache!Position, CacheInv, CacheTypes
    <3>2. Cache!Value(k) \in Int /\ Holds(entries, k)
      <4>1. entries[i] \in Entry
        BY <3>1, ElementOfSeq DEF CacheInv, CacheTypes
      <4> QED
        BY <3>1, <4>1 DEF Entry, Holds, Cache!Value
    <3>3. WithoutKey(Cache!Others(k), k) /\ Len(Cache!Others(k)) < Len(entries)
      BY <2>2, OthersLackTheKey DEF Cache!Hit
    <3>4. Len(Cache!Others(k)) \in Nat /\ Len(entries) \in Nat /\ MaxSize \in Nat
      BY <3>3, CacheAssumption DEF WithoutKey, CacheInv, CacheTypes
    <3>5. entries' = Append(Cache!Others(k), [key |-> k, value |-> Cache!Value(k)])
      BY <2>2 DEF Cache!Hit
    <3>6. /\ entries' \in Seq(Entry) /\ KeysDiffer(entries') /\ Len(entries') <= MaxSize
          /\ \A other \in CachedKey : Holds(entries', other) => Holds(entries, other)
      BY <3>2, <3>3, <3>4, <3>5, AppendAddsTheKey DEF CacheInv
    <3> QED
      BY <2>2, <3>6 DEF Cache!Hit, CacheInv, CacheTypes, MissedFindNothing
  <2>3. ASSUME NEW k \in CachedKey, Cache!Drop(k) PROVE CacheInv'
    <3>1. entries' = Cache!Others(k)
      BY <2>3 DEF Cache!Drop
    <3>2. Len(entries') \in Nat /\ Len(entries) \in Nat /\ MaxSize \in Nat
      BY <3>1, OthersLackTheKey, CacheAssumption DEF WithoutKey, CacheInv, CacheTypes
    <3> QED
      BY <2>3, <3>1, <3>2, OthersLackTheKey
      DEF Cache!Drop, CacheInv, CacheTypes, MissedFindNothing, WithoutKey
  <2>4. ASSUME NEW k \in CachedKey, Cache!SourceChanges(k) PROVE CacheInv'
    BY <2>4 DEF Cache!SourceChanges, CacheInv, CacheTypes, MissedFindNothing
  <2>5. ASSUME NEW g \in Getter, NEW k \in CachedKey, Cache!Miss(g, k) PROVE CacheInv'
    <3>1. CacheTypes' /\ entries' = entries
      BY <2>5 DEF Cache!Miss, CacheInv, CacheTypes
    <3>2. ~Holds(entries, k)
      BY <2>5 DEF Cache!Miss, Cache!Cached, CacheInv, CacheTypes, Holds
    <3>3. getter'[g].key = {k} /\ \A h \in Getter \ {g} : getter'[h] = getter[h]
      BY <2>5 DEF Cache!Miss, CacheInv, CacheTypes
    <3>4. MissedFindNothing'
      BY <2>5, <3>1, <3>2, <3>3 DEF Cache!Miss, CacheInv, MissedFindNothing
    <3> QED
      BY <2>5, <3>1, <3>4 DEF Cache!Miss, CacheInv
  <2>6. ASSUME NEW g \in Getter, NEW k \in CachedKey, Cache!Fetched(g, k) PROVE CacheInv'
    BY <2>6 DEF Cache!Fetched, CacheInv, CacheTypes, MissedFindNothing
  <2>7. ASSUME NEW g \in Getter, NEW k \in CachedKey, Cache!Store(g, k) PROVE CacheInv'
    <3>1. getter[g].key = {k} /\ getter[g].value \in Int
      BY <2>7 DEF Cache!Store, CacheInv, CacheTypes
    <3>2. g \in newer \/ ~Cache!Cached(k)
      BY <3>1 DEF CacheInv, CacheTypes, MissedFindNothing, Cache!Cached, Holds
    <3>3. ~back'
      BY <2>7, <3>2, Zenon DEF Cache!Store, CacheInv
    <3>4. CacheTypes'
      BY <2>7, <3>1, EntryIsSet DEF Cache!Store, Cache!NoGet, CacheInv, CacheTypes
    <3>5. MissedFindNothing'
      BY <2>7, <3>1, EntryIsSet
      DEF Cache!Store, Cache!NoGet, CacheInv, CacheTypes, MissedFindNothing
    <3> QED
      BY <2>7, <3>1, <3>3, <3>4, <3>5, EntryIsSet DEF Cache!Store, CacheInv
  <2>8. ASSUME NEW g \in Getter, Cache!StoreNothing(g) PROVE CacheInv'
    <3>1. CacheTypes' /\ entries' = entries
      BY <2>8 DEF Cache!StoreNothing, Cache!NoGet, CacheInv, CacheTypes
    <3>2. getter'[g].key = {} /\ \A h \in Getter \ {g} : getter'[h] = getter[h]
      BY <2>8 DEF Cache!StoreNothing, Cache!NoGet, CacheInv, CacheTypes
    <3>3. MissedFindNothing'
      BY <2>8, <3>1, <3>2 DEF Cache!StoreNothing, CacheInv, MissedFindNothing
    <3> QED
      BY <2>8, <3>1, <3>3 DEF Cache!StoreNothing, CacheInv
  <2>9. CASE UNCHANGED Cache!cacheVars
    BY <2>9 DEF Cache!cacheVars, CacheInv, CacheTypes, MissedFindNothing
  <2> QED
    BY <2>1, <2>2, <2>3, <2>4, <2>5, <2>6, <2>7, <2>8, <2>9 DEF Cache!Next
<1>3. QED
  BY <1>1, <1>2, PTL DEF Cache!Spec
\* getOrSet and the writes of cache-service.js, the backoff of persistence-adapter.js, and
\* the cycles of pair-prefetch-scheduler.js: what comes late undoes something newer only
\* where operations overlapped, and the cache keeps its limit and its keys apart.
THEOREM LateResultsAreExplained == ComponentsSpec => []LateResultsExplained
<1>1. CacheInv => Cache!CacheIsExact
  <2> SUFFICES ASSUME CacheInv PROVE Cache!CacheIsExact
    OBVIOUS
  <2>1. DOMAIN entries = 1..Len(entries)
    BY DEF CacheInv, CacheTypes
  <2> QED
    BY <2>1, Zenon DEF CacheInv, KeysDiffer, Cache!CacheIsExact
<1>2. PersistInv => Persistence!BackoffExplained
  BY DEF PersistInv, Persistence!BackoffExplained
<1>3. PrefetchInv => Prefetch!FetchedOnce
  BY DEF PrefetchInv, Prefetch!FetchedOnce
<1>4. CacheInv /\ PersistInv /\ PrefetchInv => LateResultsExplained
  BY <1>1, <1>2, <1>3 DEF LateResultsExplained
<1>5. QED
  BY <1>4, CacheInvariant, PersistInvariant, PrefetchInvariant, PTL DEF ComponentsSpec
-----------------------------------------------------------------------------
(***************************************************************************)
(* Price fetcher.  What is recorded of a provider and what will be for the *)
(* requests that are under way keeps the bound together: a request leaves  *)
(* while less than the quota is recorded, and there is one for each key.   *)
(***************************************************************************)
FetcherTypes ==
  /\ fetch \in [FetchKey -> [under : BOOLEAN, left : SUBSET Provider, at : SUBSET Provider]]
  /\ usage \in [Provider -> Nat]

Asking(p) == {k \in FetchKey : fetch[k].at = {p}}

QuotaFor(p) ==
  usage[p] + Fetcher!Samples(p) * Cardinality(Asking(p))
    <= MaxRequests - 1 + Fetcher!Samples(p) * Cardinality(FetchKey)

AskingIsUnder == \A k \in FetchKey : fetch[k].at # {} => fetch[k].under

FetcherInv == FetcherTypes /\ AskingIsUnder /\ \A p \in Provider : QuotaFor(p)

LEMMA AskingIsCounted ==
  ASSUME NEW p
  PROVE  /\ IsFiniteSet(Asking(p)) /\ Cardinality(Asking(p)) \in Nat
         /\ Cardinality(FetchKey) \in Nat /\ Cardinality(Asking(p)) <= Cardinality(FetchKey)
         /\ \A k \in FetchKey : k \notin Asking(p) => Cardinality(Asking(p)) <= Cardinality(FetchKey) - 1
<1>1. IsFiniteSet(FetchKey) /\ Asking(p) \in SUBSET FetchKey
  BY FetcherAssumption DEF Asking
<1>2. Cardinality(FetchKey) \in Nat
  BY <1>1, FS_CardinalityType
<1>3. IsFiniteSet(Asking(p)) /\ Cardinality(Asking(p)) <= Cardinality(FetchKey)
  BY <1>1, FS_Subset
<1>4. Cardinality(Asking(p)) \in Nat
  BY <1>3, FS_CardinalityType
<1>5. ASSUME NEW k \in FetchKey, k \notin Asking(p)
      PROVE  Cardinality(Asking(p)) <= Cardinality(FetchKey) - 1
  <2>1. Asking(p) \in SUBSET (FetchKey \ {k}) /\ IsFiniteSet(FetchKey \ {k})
    BY <1>1, <1>5, FS_RemoveElement
  <2>2. Cardinality(FetchKey \ {k}) = Cardinality(FetchKey) - 1
    BY <1>1, FS_RemoveElement
  <2>3. Cardinality(Asking(p)) <= Cardinality(FetchKey \ {k})
    BY <2>1, FS_Subset
  <2> QED
    BY <2>2, <2>3
<1> QED
  BY <1>2, <1>3, <1>4, <1>5

LEMMA SamplesAreFew == \A p : Fetcher!Samples(p) = 1 \/ Fetcher!Samples(p) = 2
  BY DEF Fetcher!Samples

\* What changes of the requests under way when the fetch of k goes elsewhere.
LEMMA AskingMoves ==
  ASSUME FetcherInv, NEW k \in FetchKey,
         NEW f \in [under : BOOLEAN, left : SUBSET Provider, at : SUBSET Provider],
         fetch' = [fetch EXCEPT ![k] = f]
  PROVE  /\ fetch' \in [FetchKey -> [under : BOOLEAN, left : SUBSET Provider, at : SUBSET Provider]]
         /\ \A p : Asking(p)' = IF f.at = {p} THEN Asking(p) \cup {k} ELSE Asking(p) \ {k}
  BY DEF FetcherInv, FetcherTypes, Asking

\* A fetch that asks nobody before and after leaves the bound as it is, and takes one
\* sample more, where its provider was below the quota.
LEMMA QuotaWhileNobodyIsAsked ==
  ASSUME FetcherInv, NEW k \in FetchKey, fetch[k].at = {},
         NEW f \in [under : BOOLEAN, left : SUBSET Provider, at : SUBSET Provider],
         f.at = {}, fetch' = [fetch EXCEPT ![k] = f], NEW p \in Provider,
         usage'[p] = usage[p] \/ (usage[p] < MaxRequests /\ usage'[p] = usage[p] + 1)
  PROVE  QuotaFor(p)'
<1>1. k \notin Asking(p) /\ Asking(p)' = Asking(p)
  <2>1. {p} # {}
    OBVIOUS
  <2> QED
    BY <2>1, AskingMoves DEF Asking
<1>2. /\ Cardinality(Asking(p)) \in Nat /\ Cardinality(FetchKey) \in Nat
      /\ Cardinality(Asking(p)) <= Cardinality(FetchKey) - 1
  BY <1>1, AskingIsCounted
<1>3. usage[p] \in Nat /\ QuotaFor(p) /\ MaxRequests \in Nat
  BY FetcherAssumption DEF FetcherInv, FetcherTypes
<1>4. CASE Fetcher!Samples(p) = 1
  BY <1>1, <1>2, <1>3, <1>4 DEF QuotaFor
<1>5. CASE Fetcher!Samples(p) = 2
  BY <1>1, <1>2, <1>3, <1>5 DEF QuotaFor
<1> QED
  BY <1>4, <1>5, SamplesAreFew

\* A request counts before it is recorded as it does afterwards.
LEMMA QuotaWhenRecorded ==
  ASSUME FetcherInv, NEW k \in FetchKey, NEW q \in Provider, fetch[k].at = {q},
         NEW f \in [under : BOOLEAN, left : SUBSET Provider, at : SUBSET Provider],
         f.at = {}, fetch' = [fetch EXCEPT ![k] = f],
         usage' = [usage EXCEPT ![q] = @ + Fetcher!Samples(q)], NEW p \in Provider
  PROVE  QuotaFor(p)'
<1>1. usage[p] \in Nat /\ usage[q] \in Nat /\ QuotaFor(p) /\ MaxRequests \in Nat
  BY FetcherAssumption DEF FetcherInv, FetcherTypes
<1>2. Asking(p)' = Asking(p) \ {k}
  <2>1. {p} # {}
    OBVIOUS
  <2> QED
    BY <2>1, AskingMoves
<1>3. Cardinality(Asking(p)) \in Nat /\ IsFiniteSet(Asking(p)) /\ Cardinality(FetchKey) \in Nat
  BY AskingIsCounted
<1>4. CASE p = q
  <2>1. k \in Asking(p)
    BY <1>4 DEF Asking
  <2>2. Cardinality(Asking(p)') = Cardinality(Asking(p)) - 1
    BY <1>2, <1>3, <2>1, FS_RemoveElement
  <2>3. usage'[p] = usage[p] + Fetcher!Samples(p)
    BY <1>4 DEF FetcherInv, FetcherTypes
  <2>4. CASE Fetcher!Samples(p) = 1
    BY <1>1, <1>3, <2>2, <2>3, <2>4 DEF QuotaFor
  <2>5. CASE Fetcher!Samples(p) = 2
    BY <1>1, <1>3, <2>2, <2>3, <2>5 DEF QuotaFor
  <2> QED
    BY <2>4, <2>5, SamplesAreFew
<1>5. CASE p # q
  <2>1. k \notin Asking(p)
    BY <1>5 DEF Asking
  <2>2. Asking(p)' = Asking(p) /\ usage'[p] = usage[p]
    BY <1>2, <1>5, <2>1 DEF FetcherInv, FetcherTypes
  <2> QED
    BY <1>1, <2>2 DEF QuotaFor
<1> QED
  BY <1>4, <1>5

LEMMA FetcherSends ==
  ASSUME FetcherInv, NEW k \in FetchKey, NEW q \in Provider, Fetcher!Send(k, q)
  PROVE  FetcherInv'
<1> DEFINE f == [fetch[k] EXCEPT !.at = {q}]
<1>1. /\ f \in [under : BOOLEAN, left : SUBSET Provider, at : SUBSET Provider] /\ f.at = {q}
      /\ fetch' = [fetch EXCEPT ![k] = f]
  BY DEF Fetcher!Send, FetcherInv, FetcherTypes
<1> HIDE DEF f
<1>2. FetcherTypes'
  BY <1>1, AskingMoves DEF Fetcher!Send, FetcherInv, FetcherTypes
<1>3. ASSUME NEW p \in Provider PROVE QuotaFor(p)'
  <2>1. usage'[p] = usage[p] /\ usage[p] \in Nat /\ QuotaFor(p) /\ MaxRequests \in Nat
        /\ usage'[p] \in Nat
    BY FetcherAssumption DEF Fetcher!Send, FetcherInv, FetcherTypes
  <2>2. CASE p = q
    <3>1. usage[p] < MaxRequests
      BY <2>2 DEF Fetcher!Send, Fetcher!Allowed
    <3>2. Cardinality(Asking(p)') \in Nat /\ Cardinality(FetchKey) \in Nat
          /\ Cardinality(Asking(p)') <= Cardinality(FetchKey)
      <4>1. Asking(p)' \in SUBSET FetchKey /\ IsFiniteSet(FetchKey)
        BY FetcherAssumption DEF Asking
      <4>2. IsFiniteSet(Asking(p)') /\ Cardinality(Asking(p)') <= Cardinality(FetchKey)
        BY <4>1, FS_Subset
      <4> QED
        BY <4>1, <4>2, FS_CardinalityType
    <3>3. CASE Fetcher!Samples(p) = 1
      BY <2>1, <3>1, <3>2, <3>3 DEF QuotaFor
    <3>4. CASE Fetcher!Samples(p) = 2
      BY <2>1, <3>1, <3>2, <3>4 DEF QuotaFor
    <3> QED
      BY <3>3, <3>4, SamplesAreFew
  <2>3. CASE p # q
    <3>1. Asking(p)' = Asking(p) \ {k} /\ k \notin Asking(p)
      <4>1. {p} # {q} /\ {p} # {}
        BY <2>3
      <4> QED
        BY <1>1, <4>1, AskingMoves DEF Asking, Fetcher!Send, Fetcher!Between
    <3>2. Asking(p)' = Asking(p)
      BY <3>1
    <3> QED
      BY <2>1, <3>2 DEF QuotaFor
  <2> QED
    BY <2>2, <2>3
<1>4. AskingIsUnder'
  BY <1>1 DEF f, Fetcher!Send, Fetcher!Between, FetcherInv, FetcherTypes, AskingIsUnder
<1> QED
  BY <1>2, <1>3, <1>4 DEF FetcherInv

\* The fetch of k asks nobody, before and after, and records at most one sample.
LEMMA FetcherAsksNobody ==
  ASSUME FetcherInv, NEW k \in FetchKey, fetch[k].at = {},
         NEW f \in [under : BOOLEAN, left : SUBSET Provider, at : SUBSET Provider],
         f.at = {}, fetch' = [fetch EXCEPT ![k] = f],
         \/ usage' = usage
         \/ \E q \in Provider :
              usage[q] < MaxRequests /\ usage' = [usage EXCEPT ![q] = @ + 1]
  PROVE  FetcherInv'
<1>1. \A p \in Provider :
        usage'[p] = usage[p] \/ (usage[p] < MaxRequests /\ usage'[p] = usage[p] + 1)
  BY DEF FetcherInv, FetcherTypes
<1>2. usage' \in [Provider -> Nat]
  BY DEF FetcherInv, FetcherTypes
<1>3. FetcherTypes'
  BY <1>2, AskingMoves DEF FetcherTypes
<1>4. \A p \in Provider : QuotaFor(p)'
  BY <1>1, QuotaWhileNobodyIsAsked
<1>5. AskingIsUnder'
  BY DEF FetcherInv, FetcherTypes, AskingIsUnder
<1> QED
  BY <1>3, <1>4, <1>5 DEF FetcherInv

\* The request of k to q ends and is recorded.
LEMMA FetcherRecords ==
  ASSUME FetcherInv, NEW k \in FetchKey, NEW q \in Provider, fetch[k].at = {q},
         NEW f \in [under : BOOLEAN, left : SUBSET Provider, at : SUBSET Provider],
         f.at = {}, fetch' = [fetch EXCEPT ![k] = f],
         usage' = [usage EXCEPT ![q] = @ + Fetcher!Samples(q)]
  PROVE  FetcherInv'
<1>1. usage' \in [Provider -> Nat]
  BY SamplesAreFew DEF FetcherInv, FetcherTypes
<1>2. FetcherTypes'
  BY <1>1, AskingMoves DEF FetcherTypes
<1>3. \A p \in Provider : QuotaFor(p)'
  BY QuotaWhenRecorded
<1>4. AskingIsUnder'
  BY DEF FetcherInv, FetcherTypes, AskingIsUnder
<1> QED
  BY <1>2, <1>3, <1>4 DEF FetcherInv

LEMMA FetcherInvariant == Fetcher!Spec => []FetcherInv
<1> DEFINE F == [under : BOOLEAN, left : SUBSET Provider, at : SUBSET Provider]
<1>1. Fetcher!Init => FetcherInv
  <2> SUFFICES ASSUME Fetcher!Init PROVE FetcherInv
    OBVIOUS
  <2>1. FetcherTypes
    BY DEF Fetcher!Init, Fetcher!NoFetch, FetcherTypes
  <2>2. ASSUME NEW p \in Provider PROVE QuotaFor(p)
    <3>1. {p} # {}
      OBVIOUS
    <3>2. Asking(p) = {} /\ usage[p] = 0
      BY <3>1 DEF Fetcher!Init, Fetcher!NoFetch, Asking
    <3>3. Cardinality(Asking(p)) = 0 /\ Cardinality(FetchKey) \in Nat
      BY <3>2, FS_EmptySet, AskingIsCounted
    <3>4. MaxRequests \in Nat /\ MaxRequests >= 1
      BY FetcherAssumption
    <3>5. CASE Fetcher!Samples(p) = 1
      BY <3>2, <3>3, <3>4, <3>5 DEF QuotaFor
    <3>6. CASE Fetcher!Samples(p) = 2
      BY <3>2, <3>3, <3>4, <3>6 DEF QuotaFor
    <3> QED
      BY <3>5, <3>6, SamplesAreFew
  <2> QED
    BY <2>1, <2>2 DEF FetcherInv, AskingIsUnder, Fetcher!Init, Fetcher!NoFetch
<1>2. FetcherInv /\ [Fetcher!Next]_Fetcher!fetcherVars => FetcherInv'
  <2> SUFFICES ASSUME FetcherInv, [Fetcher!Next]_Fetcher!fetcherVars PROVE FetcherInv'
    OBVIOUS
  <2>0. /\ Fetcher!NoFetch \in F /\ Fetcher!NoFetch.at = {}
        /\ [under |-> TRUE, left |-> Provider, at |-> {}] \in F
    BY DEF Fetcher!NoFetch
  <2>1. ASSUME NEW k \in FetchKey, Fetcher!StartFetch(k) PROVE FetcherInv'
    <3>1. fetch[k].at = {}
      BY <2>1 DEF Fetcher!StartFetch, FetcherInv, AskingIsUnder
    <3>2. fetch' = [fetch EXCEPT ![k] = [under |-> TRUE, left |-> Provider, at |-> {}]]
          /\ usage' = usage
      BY <2>1 DEF Fetcher!StartFetch
    <3> QED
      BY <2>0, <3>1, <3>2, FetcherAsksNobody
  <2>2. ASSUME NEW k \in FetchKey, Fetcher!Exhausted(k) PROVE FetcherInv'
    <3>1. fetch[k].at = {} /\ fetch' = [fetch EXCEPT ![k] = Fetcher!NoFetch] /\ usage' = usage
      BY <2>2 DEF Fetcher!Exhausted, Fetcher!Between
    <3> QED
      BY <2>0, <3>1, FetcherAsksNobody
  <2>3. ASSUME NEW k \in FetchKey, NEW p \in Provider
        PROVE  \E f \in F : f.at = {} /\ Fetcher!Passed(k, p) = [fetch EXCEPT ![k] = f]
    <3> DEFINE f == [under |-> TRUE, left |-> fetch[k].left \ {p}, at |-> {}]
    <3>1. f \in F /\ f.at = {} /\ Fetcher!Passed(k, p) = [fetch EXCEPT ![k] = f]
      BY DEF Fetcher!Passed, FetcherInv, FetcherTypes
    <3> QED
      BY <3>1
  <2>4. ASSUME NEW k \in FetchKey, NEW p \in Provider, Fetcher!Skip(k, p) PROVE FetcherInv'
    <3>1. fetch[k].at = {} /\ fetch' = Fetcher!Passed(k, p) /\ usage' = usage
      BY <2>4 DEF Fetcher!Skip, Fetcher!Between
    <3>2. PICK f \in F : f.at = {} /\ Fetcher!Passed(k, p) = [fetch EXCEPT ![k] = f]
      BY <2>3
    <3> QED
      BY <3>1, <3>2, FetcherAsksNobody
  <2>5. ASSUME NEW k \in FetchKey, NEW p \in Provider, Fetcher!NothingToAsk(k, p)
        PROVE  FetcherInv'
    <3>1. fetch[k].at = {} /\ fetch' = Fetcher!Passed(k, p) /\ usage[p] < MaxRequests
          /\ usage' = [usage EXCEPT ![p] = @ + 1]
      BY <2>5 DEF Fetcher!NothingToAsk, Fetcher!Between, Fetcher!Recorded, Fetcher!Allowed
    <3>2. PICK f \in F : f.at = {} /\ Fetcher!Passed(k, p) = [fetch EXCEPT ![k] = f]
      BY <2>3
    <3> QED
      BY <3>1, <3>2, FetcherAsksNobody
  <2>6. ASSUME NEW k \in FetchKey, NEW p \in Provider, Fetcher!Ends(k, p) PROVE FetcherInv'
    <3>1. /\ fetch[k].at = {p}
          /\ fetch' = Fetcher!Passed(k, p) \/ fetch' = [fetch EXCEPT ![k] = Fetcher!NoFetch]
          /\ usage' = [usage EXCEPT ![p] = @ + Fetcher!Samples(p)]
      BY <2>6 DEF Fetcher!Ends, Fetcher!Fails, Fetcher!Answers, Fetcher!Recorded
    <3>2. PICK f \in F : f.at = {} /\ Fetcher!Passed(k, p) = [fetch EXCEPT ![k] = f]
      BY <2>3
    <3> QED
      BY <2>0, <3>1, <3>2, FetcherRecords
  <2>7. ASSUME fetch' = fetch, usage' \in [Provider -> Nat],
               \A p \in Provider : usage'[p] <= usage[p]
        PROVE  FetcherInv'
    <3>1. FetcherTypes' /\ AskingIsUnder'
      BY <2>7 DEF FetcherInv, FetcherTypes, AskingIsUnder
    <3>2. ASSUME NEW p \in Provider PROVE QuotaFor(p)'
      <4>1. usage[p] \in Nat /\ usage'[p] \in Nat /\ usage'[p] <= usage[p] /\ QuotaFor(p)
            /\ MaxRequests \in Nat
        BY <2>7, FetcherAssumption DEF FetcherInv, FetcherTypes
      <4>2. Asking(p)' = Asking(p)
        BY <2>7 DEF Asking
      <4>3. Cardinality(Asking(p)) \in Nat /\ Cardinality(FetchKey) \in Nat
        BY AskingIsCounted
      <4>4. CASE Fetcher!Samples(p) = 1
        BY <4>1, <4>2, <4>3, <4>4 DEF QuotaFor
      <4>5. CASE Fetcher!Samples(p) = 2
        BY <4>1, <4>2, <4>3, <4>5 DEF QuotaFor
      <4> QED
        BY <4>4, <4>5, SamplesAreFew
    <3> QED
      BY <3>1, <3>2 DEF FetcherInv
  <2>8. ASSUME NEW p \in Provider,
               Fetcher!BreakerRuns(p) \/ Fetcher!SampleLeaves(p) \/ Fetcher!BackoffEnds(p)
        PROVE  FetcherInv'
    <3>1. fetch' = fetch /\ (usage' = usage \/ (usage[p] > 0 /\ usage' = [usage EXCEPT ![p] = @ - 1]))
      BY <2>8 DEF Fetcher!BreakerRuns, Fetcher!SampleLeaves, Fetcher!BackoffEnds
    <3>2. usage' \in [Provider -> Nat] /\ \A q \in Provider : usage'[q] <= usage[q]
      BY <3>1 DEF FetcherInv, FetcherTypes
    <3> QED
      BY <2>7, <3>1, <3>2
  <2>9. CASE UNCHANGED Fetcher!fetcherVars
    <3>1. usage' \in [Provider -> Nat] /\ \A q \in Provider : usage'[q] <= usage[q]
      BY <2>9 DEF Fetcher!fetcherVars, FetcherInv, FetcherTypes
    <3> QED
      BY <2>7, <2>9, <3>1 DEF Fetcher!fetcherVars
  <2> QED
    BY <2>1, <2>2, <2>4, <2>5, <2>6, <2>8, <2>9, FetcherSends DEF Fetcher!Next
<1>3. QED
  BY <1>1, <1>2, PTL DEF Fetcher!Spec

\* canMakeRequest and recordRequest (price-data-fetcher.js) with an await between them: a
\* quota is exceeded by no more than the requests that can be under way at once.
THEOREM QuotasAreNearlyKept == ComponentsSpec => []QuotaNearlyKept
<1>1. FetcherInv => QuotaNearlyKept
  <2> SUFFICES ASSUME FetcherInv, NEW p \in Provider
               PROVE  usage[p] <= MaxRequests - 1 + Fetcher!Samples(p) * Cardinality(FetchKey)
    BY DEF QuotaNearlyKept, Fetcher!QuotaNearlyKept, Fetcher!Cardinality, Cardinality
  <2>1. usage[p] \in Nat /\ QuotaFor(p) /\ MaxRequests \in Nat
    BY FetcherAssumption DEF FetcherInv, FetcherTypes
  <2>2. Cardinality(Asking(p)) \in Nat /\ Cardinality(FetchKey) \in Nat
    BY AskingIsCounted
  <2>3. CASE Fetcher!Samples(p) = 1
    BY <2>1, <2>2, <2>3 DEF QuotaFor
  <2>4. CASE Fetcher!Samples(p) = 2
    BY <2>1, <2>2, <2>4 DEF QuotaFor
  <2> QED
    BY <2>3, <2>4, SamplesAreFew
<1>2. QED
  BY <1>1, FetcherInvariant, PTL DEF ComponentsSpec
=============================================================================
