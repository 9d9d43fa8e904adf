----------------------------- MODULE CacheService -----------------------------
(***************************************************************************)
(* CacheService (src/infrastructure/services/cache-service.js): values by  *)
(* key that expire, with a limit on their number.  getOrSet awaits its     *)
(* fetch between the miss and the store, and callers do not share it.      *)
(*                                                                         *)
(* A value is the version of the source it was read at.  The order of last *)
(* access is that of the clock; entries do not tie.                        *)
(***************************************************************************)
EXTENDS Integers, Sequences, FiniteSets, SequencesExt

CONSTANTS
  CachedKey,    \* keys of the namespace
  Getter,       \* callers of getOrSet at once (a bound)
  MaxSize,      \* maxSize
  MaxVersion    \* versions of the source (a bound)

VARIABLES
  version,      \* version of the source of each key
  entries,      \* cache: [key, value], the least recently used first
  getter,       \* callers that await their fetch: key, and the value once fetched
  newer,        \* history: callers since whose miss a version was stored for their key
  back          \* history: a key went back to an older version by none of those

cacheVars == <<version, entries, getter, newer, back>>

NoGet == [key |-> {}, value |-> 0]

Init ==
  /\ version = [k \in CachedKey |-> 1]
  /\ entries = <<>>
  /\ getter = [g \in Getter |-> NoGet]
  /\ newer = {} /\ back = FALSE
-----------------------------------------------------------------------------
Cached(k) == \E i \in DOMAIN entries : entries[i].key = k
Position(k) == CHOOSE i \in DOMAIN entries : entries[i].key = k
Value(k) == entries[Position(k)].value
Others(k) == IF Cached(k) THEN RemoveAt(entries, Position(k)) ELSE entries

\* (faulty variant: one entry too many)
WithEntryBeyond(k, v) ==
  Append(IF Len(entries) > MaxSize /\ ~Cached(k) THEN Tail(entries) ELSE Others(k),
         [key |-> k, value |-> v])

\* set: a key that is new to a full cache takes the place of the least recently used.
WithEntry(k, v) ==
  Append(IF Len(entries) >= MaxSize /\ ~Cached(k) THEN Tail(entries) ELSE Others(k),
         [key |-> k, value |-> v])

Set(k) ==
  /\ entries' = WithEntry(k, version[k])
  /\ newer' = newer \cup {g \in Getter : getter[g].key = {k}}
  /\ UNCHANGED <<version, getter, back>>

\* get that hits.
Hit(k) ==
  /\ Cached(k)
  /\ entries' = Append(Others(k), [key |-> k, value |-> Value(k)])
  /\ UNCHANGED <<version, getter, newer, back>>

\* delete, and an entry that expired, which get, has and cleanup delete.
Drop(k) ==
  /\ Cached(k)
  /\ entries' = Others(k)
  /\ UNCHANGED <<version, getter, newer, back>>

\* getOrSet that misses awaits its fetch.
Miss(g, k) ==
  /\ getter[g] = NoGet /\ ~Cached(k)
  /\ getter' = [getter EXCEPT ![g].key = {k}]
  /\ newer' = newer \ {g}
  /\ UNCHANGED <<version, entries, back>>

\* The source is read at some time of the await.
Fetched(g, k) ==
  /\ getter[g].key = {k} /\ getter[g].value = 0
  /\ getter' = [getter EXCEPT ![g].value = version[k]]
  /\ UNCHANGED <<version, entries, newer, back>>

\* The value is stored, whatever has been stored meanwhile.
Store(g, k) ==
  LET v == getter[g].value IN
  /\ getter[g].key = {k} /\ v # 0
  /\ entries' = WithEntry(k, v)
  /\ getter' = [getter EXCEPT ![g] = NoGet]
  /\ newer' = (newer \ {g}) \cup {h \in Getter \ {g} : getter[h].key = {k}}
  /\ back' = (back \/ (Cached(k) /\ v < Value(k) /\ g \notin newer))
  /\ UNCHANGED version

\* The fetch found nothing, or threw.
StoreNothing(g) ==
  /\ getter[g] # NoGet
  /\ getter' = [getter EXCEPT ![g] = NoGet]
  /\ newer' = newer \ {g}
  /\ UNCHANGED <<version, entries, back>>

SourceChanges(k) ==
  /\ version[k] < MaxVersion
  /\ version' = [version EXCEPT ![k] = @ + 1]
  /\ UNCHANGED <<entries, getter, newer, back>>
-----------------------------------------------------------------------------
Next ==
  \/ \E k \in CachedKey : Set(k) \/ Hit(k) \/ Drop(k) \/ SourceChanges(k)
  \/ \E g \in Getter, k \in CachedKey : Miss(g, k) \/ Fetched(g, k) \/ Store(g, k)
  \/ \E g \in Getter : StoreNothing(g)

Spec == Init /\ [][Next]_cacheVars
-----------------------------------------------------------------------------
\* The cache never holds more than its limit, each key once, and goes back to an older
\* value of a key only by a getOrSet that missed before the newer one was stored.
CacheIsExact ==
  /\ Len(entries) <= MaxSize
  /\ \A i, j \in DOMAIN entries : entries[i].key = entries[j].key => i = j
  /\ ~back
=============================================================================
