-------------------------- MODULE TradeManagerProofs --------------------------
(* Machine-checked theorems about TradeManager, for every set of brokers,    *)
(* pairs and trades and any number of overlapping scans and flushes.         *)
EXTENDS TradeManager, TLAPS

\* What a call knows where it is: the trades it still may open, the broker it
\* serves, the pair it waits for.
ScanAt(c) ==
  /\ c.pc = "commit" => c.opened < MaxNew
  /\ c.pc \in {"connect", "signal"} => c.broker \in Broker
  /\ c.pc = "signal" => c.pair \in Pair
FlushAt(c) ==
  /\ c.pc = "commit" => c.opened < MaxNew /\ c.pair \in Pair
  /\ c.pc # "idle" => c.broker \in Broker

PlaceInv == (\A s \in Scan : ScanAt(scan[s])) /\ (\A f \in Flush : FlushAt(flush[f]))

\* In the map m the scan s has no trade of any of the pairs found.
NotOpenedBy(s, m, found) ==
  \A t \in Trade : m[t].active /\ m[t].by = s => m[t].pair \notin found

\* A scan has opened none of the candidates it still holds.
FoundInv == \A s \in Scan : NotOpenedBy(s, trade, scan[s].found)

IInv == TypeOK /\ PlaceInv /\ FoundInv /\ DoubledOnlyByOverlap

-----------------------------------------------------------------------------
(* What a step does to the map of trades and to one call *)

TradeMap == [Trade -> TradeRecord]

\* The map m holds only trades that are active now.
Within(m) == \A t \in Trade : m[t].active => m[t] = trade[t]

\* The scan s goes on from the map m, and opens at most one of the pairs found.
ScanMoves(s, m, found) ==
  \E c \in ScanRecord :
    /\ scan' = [scan EXCEPT ![s] = c] /\ ScanAt(c)
    /\ \/ trade' = m /\ c.found \subseteq found
       \/ \E p \in found, t \in Trade :
            ~m[t].active /\ trade' = Opened(m, t, p, s) /\ c.found \subseteq found \ {p}

\* The flush f goes on from the map m, and opens at most one pair not in it.
FlushMoves(f, m) ==
  \E c \in FlushRecord :
    /\ flush' = [flush EXCEPT ![f] = c] /\ FlushAt(c)
    /\ \/ trade' = m
       \/ \E p \in Pair, t \in Trade :
            ~HasOpenTrade(m, p) /\ ~m[t].active /\ trade' = Opened(m, t, p, f)

\* The records a scan can move to.
LEMMA ScanRecords ==
  /\ IdleScan \in ScanRecord /\ ScanAt(IdleScan) /\ IdleScan.found = {}
  /\ \A b \in Broker, todo \in SUBSET Broker :
       LET c == [IdleScan EXCEPT !.pc = "connect", !.broker = b, !.todo = todo]
       IN  c \in ScanRecord /\ ScanAt(c) /\ c.found = {}
  /\ \A r \in ScanRecord, pairs \in SUBSET Pair, p \in Pair :
       LET c == [r EXCEPT !.pc = "signal", !.pair = p, !.pairs = pairs]
       IN  c \in ScanRecord /\ c.found = r.found /\ (r.broker \in Broker => ScanAt(c))
<1>1. IdleScan \in ScanRecord /\ ScanAt(IdleScan) /\ IdleScan.found = {}
  BY ManagerAssumption DEF IdleScan, ScanRecord, ScanAt
<1>3. ASSUME NEW b \in Broker, NEW todo \in SUBSET Broker
      PROVE  LET c == [IdleScan EXCEPT !.pc = "connect", !.broker = b, !.todo = todo]
             IN  c \in ScanRecord /\ ScanAt(c) /\ c.found = {}
  BY <1>1 DEF ScanRecord, ScanAt
<1>2. ASSUME NEW r \in ScanRecord, NEW pairs \in SUBSET Pair, NEW p \in Pair
      PROVE  LET c == [r EXCEPT !.pc = "signal", !.pair = p, !.pairs = pairs]
             IN  c \in ScanRecord /\ c.found = r.found /\ (r.broker \in Broker => ScanAt(c))
  BY DEF ScanRecord, ScanAt
<1> QED
  BY <1>1, <1>2, <1>3

\* The records a flush can move to.
LEMMA FlushRecords ==
  /\ IdleFlush \in FlushRecord /\ FlushAt(IdleFlush)
  /\ \A b \in Broker :
       LET c == [IdleFlush EXCEPT !.pc = "connect", !.broker = b]
       IN  c \in FlushRecord /\ FlushAt(c)
  /\ \A r \in FlushRecord, found \in SUBSET Pair, p \in Pair, t \in Trade :
       LET c == [r EXCEPT !.pc = "commit", !.pair = p, !.trade = t, !.found = found]
       IN  c \in FlushRecord /\ (r.opened < MaxNew /\ r.broker \in Broker => FlushAt(c))
<1>1. IdleFlush \in FlushRecord /\ FlushAt(IdleFlush)
  BY ManagerAssumption DEF IdleFlush, FlushRecord, FlushAt
<1>3. ASSUME NEW b \in Broker
      PROVE  LET c == [IdleFlush EXCEPT !.pc = "connect", !.broker = b]
             IN  c \in FlushRecord /\ FlushAt(c)
  BY <1>1 DEF FlushRecord, FlushAt
<1>2. ASSUME NEW r \in FlushRecord, NEW found \in SUBSET Pair, NEW p \in Pair, NEW t \in Trade
      PROVE  LET c == [r EXCEPT !.pc = "commit", !.pair = p, !.trade = t, !.found = found]
             IN  c \in FlushRecord /\ (r.opened < MaxNew /\ r.broker \in Broker => FlushAt(c))
  BY DEF FlushRecord, FlushAt
<1> QED
  BY <1>1, <1>2, <1>3

\* What a call changes in its record before it looks for the next step.
LEMMA PairsListed ==
  ASSUME NEW r \in ScanRecord
  PROVE  \E c \in ScanRecord :
           c = [r EXCEPT !.pairs = Pair] /\ c.broker = r.broker /\ c.found = r.found
<1> DEFINE c == [r EXCEPT !.pairs = Pair]
<1>1. c \in ScanRecord /\ c.broker = r.broker /\ c.found = r.found
  BY DEF ScanRecord
<1> QED
  BY <1>1

LEMMA CandidateFound ==
  ASSUME NEW r \in ScanRecord, NEW p \in Pair
  PROVE  \E c \in ScanRecord :
           c = [r EXCEPT !.found = @ \cup {p}] /\ c.broker = r.broker /\ c.found = r.found \cup {p}
<1> DEFINE c == [r EXCEPT !.found = @ \cup {p}]
<1>1. c \in ScanRecord /\ c.broker = r.broker /\ c.found = r.found \cup {p}
  BY DEF ScanRecord
<1> QED
  BY <1>1

LEMMA ScanCounted ==
  ASSUME NEW r \in ScanRecord, r.opened < MaxNew
  PROVE  \E c \in ScanRecord : c = [r EXCEPT !.opened = @ + 1] /\ c.found = r.found
<1> DEFINE c == [r EXCEPT !.opened = @ + 1]
<1>1. c \in ScanRecord /\ c.found = r.found
  BY ManagerAssumption DEF ScanRecord
<1> QED
  BY <1>1

LEMMA QueueTaken ==
  ASSUME NEW r \in FlushRecord, NEW found \in SUBSET Pair
  PROVE  \E c \in FlushRecord : c = [r EXCEPT !.found = found] /\ c.broker = r.broker
<1> DEFINE c == [r EXCEPT !.found = found]
<1>1. c \in FlushRecord /\ c.broker = r.broker
  BY DEF FlushRecord
<1> QED
  BY <1>1

LEMMA FlushCounted ==
  ASSUME NEW r \in FlushRecord, r.opened < MaxNew
  PROVE  \E c \in FlushRecord : c = [r EXCEPT !.opened = @ + 1] /\ c.broker = r.broker
<1> DEFINE c == [r EXCEPT !.opened = @ + 1]
<1>1. c \in FlushRecord /\ c.broker = r.broker
  BY ManagerAssumption DEF FlushRecord
<1> QED
  BY <1>1

-----------------------------------------------------------------------------
(* Where a scan goes next *)

LEMMA NextBrokerMoves ==
  ASSUME NEW s \in Scan, NEW todo \in SUBSET Broker, NEW m, NEW found, NextBroker(s, todo, m)
  PROVE  ScanMoves(s, m, found)
<1>1. CASE scan' = [scan EXCEPT ![s] = IdleScan]
  BY <1>1, ScanRecords DEF NextBroker, ScanMoves
<1>2. ASSUME NEW b \in todo \cap enabled', NEW skipped \in SUBSET (todo \ enabled'),
             scan' = [scan EXCEPT ![s] = [IdleScan EXCEPT !.pc = "connect", !.broker = b,
                                            !.todo = todo \ ({b} \cup skipped)]]
      PROVE  ScanMoves(s, m, found)
  <2> DEFINE rest == todo \ ({b} \cup skipped)
             c == [IdleScan EXCEPT !.pc = "connect", !.broker = b, !.todo = rest]
  <2>1. rest \in SUBSET Broker /\ b \in Broker
    OBVIOUS
  <2>2. c \in ScanRecord /\ ScanAt(c) /\ c.found = {}
    BY <2>1, ScanRecords
  <2>3. trade' = m /\ scan' = [scan EXCEPT ![s] = c]
    BY <1>2 DEF NextBroker
  <2> HIDE DEF c
  <2> QED
    BY <2>2, <2>3 DEF ScanMoves
<1> QED
  BY <1>1, <1>2 DEF NextBroker

LEMMA NextTradeMoves ==
  ASSUME NEW s \in Scan, NEW r \in ScanRecord, NEW m, NextTrade(s, r, m)
  PROVE  ScanMoves(s, m, r.found)
<1>1. r.todo \in SUBSET Broker /\ r.found \in SUBSET Pair
  BY DEF ScanRecord
<1>2. CASE NextBroker(s, r.todo, m)
  BY <1>1, <1>2, NextBrokerMoves
<1>3. ASSUME r.opened < MaxNew, NEW p \in r.found, NEW rejected \in SUBSET r.found,
             NEW t \in Trade, Free(m, t, s), trade' = Opened(m, t, p, s),
             scan' = [scan EXCEPT ![s] = [r EXCEPT !.pc = "commit", !.pair = None, !.trade = t,
                                            !.pairs = {}, !.found = @ \ ({p} \cup rejected)]]
      PROVE  ScanMoves(s, m, r.found)
  <2> DEFINE rest == r.found \ ({p} \cup rejected)
             c == [r EXCEPT !.pc = "commit", !.pair = None, !.trade = t, !.pairs = {},
                            !.found = rest]
  <2>1. rest \in SUBSET Pair /\ rest \subseteq r.found \ {p}
    BY <1>1
  <2>2. c \in ScanRecord /\ ScanAt(c) /\ c.found = rest
    <3>1. r.opened < MaxNew
      BY <1>3
    <3> HIDE DEF rest
    <3> QED
      BY <2>1, <3>1 DEF ScanRecord, ScanAt
  <2>3. scan' = [scan EXCEPT ![s] = c] /\ ~m[t].active
    BY <1>3 DEF Free
  <2> HIDE DEF c, rest
  <2> QED
    BY <1>3, <2>1, <2>2, <2>3 DEF ScanMoves
<1> QED
  BY <1>2, <1>3 DEF NextTrade

LEMMA NextPairMoves ==
  ASSUME NEW s \in Scan, NEW r \in ScanRecord, r.broker \in Broker, NextPair(s, r)
  PROVE  ScanMoves(s, trade, r.found)
<1> DEFINE due == {p \in r.pairs : <<r.broker, p>> \notin checked'}
<1>1. CASE NextTrade(s, r, trade)
  BY <1>1, NextTradeMoves
<1>2. ASSUME NEW p \in due, NEW skipped \in SUBSET (r.pairs \ due), UNCHANGED trade,
             scan' = [scan EXCEPT ![s] = [r EXCEPT !.pc = "signal", !.pair = p,
                                            !.pairs = @ \ ({p} \cup skipped)]]
      PROVE  ScanMoves(s, trade, r.found)
  <2> DEFINE rest == r.pairs \ ({p} \cup skipped)
             c == [r EXCEPT !.pc = "signal", !.pair = p, !.pairs = rest]
  <2>1. rest \in SUBSET Pair /\ p \in Pair
    BY DEF ScanRecord
  <2>2. c \in ScanRecord /\ ScanAt(c) /\ c.found = r.found
    BY <2>1, ScanRecords
  <2>3. scan' = [scan EXCEPT ![s] = c]
    BY <1>2
  <2> HIDE DEF c, rest
  <2> QED
    BY <1>2, <2>2, <2>3 DEF ScanMoves
<1> QED
  BY <1>1, <1>2 DEF NextPair

LEMMA NextFlushTradeMoves ==
  ASSUME NEW f \in Flush, NEW r \in FlushRecord, r.broker \in Broker, NEW m,
         NextFlushTrade(f, r, m)
  PROVE  FlushMoves(f, m)
<1>1. CASE trade' = m /\ flush' = [flush EXCEPT ![f] = IdleFlush]
  BY <1>1, FlushRecords DEF FlushMoves
<1>2. ASSUME r.opened < MaxNew, NEW p \in r.found, NEW rejected \in SUBSET r.found,
             NEW t \in Trade, ~HasOpenTrade(m, p), Free(m, t, f), trade' = Opened(m, t, p, f),
             flush' = [flush EXCEPT ![f] = [r EXCEPT !.pc = "commit", !.pair = p, !.trade = t,
                                              !.found = @ \ ({p} \cup rejected)]]
      PROVE  FlushMoves(f, m)
  <2> DEFINE rest == r.found \ ({p} \cup rejected)
             c == [r EXCEPT !.pc = "commit", !.pair = p, !.trade = t, !.found = rest]
  <2>1. rest \in SUBSET Pair /\ p \in Pair
    BY DEF FlushRecord
  <2>2. c \in FlushRecord /\ FlushAt(c)
    BY <1>2, <2>1, FlushRecords
  <2>3. flush' = [flush EXCEPT ![f] = c] /\ ~m[t].active
    BY <1>2 DEF Free
  <2> HIDE DEF c
  <2> QED
    BY <1>2, <2>1, <2>2, <2>3 DEF FlushMoves
<1> QED
  BY <1>1, <1>2 DEF NextFlushTrade
-----------------------------------------------------------------------------
(* The map of trades *)

LEMMA MapsStayMaps ==
  /\ NoTrade \in TradeRecord
  /\ \A m \in TradeMap, t \in Trade, p \in Pair, who \in Scan \cup Flush \cup {Manual} :
       Opened(m, t, p, who) \in TradeMap
  /\ TypeOK => \A t \in Trade \cup {None}, ok \in BOOLEAN :
                 Committed(t, ok) \in TradeMap /\ Within(Committed(t, ok))
<1>1. NoTrade \in TradeRecord /\ ~NoTrade.active
  BY DEF NoTrade, TradeRecord
<1>2. ASSUME NEW m \in TradeMap, NEW t \in Trade, NEW p \in Pair,
             NEW who \in Scan \cup Flush \cup {Manual}
      PROVE  Opened(m, t, p, who) \in TradeMap
  BY DEF Opened, TradeMap, TradeRecord
<1>3. ASSUME TypeOK, NEW t \in Trade \cup {None}, NEW ok \in BOOLEAN
      PROVE  Committed(t, ok) \in TradeMap /\ Within(Committed(t, ok))
  BY <1>1, <1>3 DEF TypeOK, Committed, Within, TradeMap
<1> QED
  BY <1>1, <1>2, <1>3

\* Trades only end: nothing is doubled by it.
LEMMA EndingKeepsDoubled ==
  ASSUME DoubledOnlyByOverlap, Within(trade')
  PROVE  DoubledOnlyByOverlap'
  BY DEF DoubledOnlyByOverlap, Within, Active

\* A trade opens on the map m: it doubles another only if that one's call overlaps.
LEMMA OpeningKeepsDoubled ==
  ASSUME DoubledOnlyByOverlap, NEW m \in TradeMap, Within(m), NEW t \in Trade, ~m[t].active,
         NEW p \in Pair, NEW who \in Scan \cup Flush \cup {Manual}, trade' = Opened(m, t, p, who),
         \/ who = Manual
         \/ who \in Flush /\ ~HasOpenTrade(m, p)
         \/ who \in Scan /\ \A u \in Trade : m[u].active /\ m[u].by = who => m[u].pair # p
  PROVE  DoubledOnlyByOverlap'
<1>1. /\ trade'[t] = [active |-> TRUE, pair |-> p, by |-> who]
      /\ \A u \in Trade \ {t} : trade'[u] = m[u] /\ (m[u].active => m[u] = trade[u])
  BY DEF Opened, TradeMap, Within
<1>2. ASSUME NEW u \in Trade \ {t}, trade'[u].active, trade'[u].pair = p,
             who # Manual, trade'[u].by # Manual
      PROVE  trade'[u].by # who /\ ~{who, trade'[u].by} \subseteq Flush
  BY <1>1, <1>2, ManagerAssumption DEF HasOpenTrade
<1> SUFFICES ASSUME NEW u \in Trade, NEW v \in Trade, trade'[u].active, trade'[v].active, u # v,
                    trade'[u].pair = trade'[v].pair, Manual \notin {trade'[u].by, trade'[v].by}
             PROVE  trade'[u].by # trade'[v].by /\ ~{trade'[u].by, trade'[v].by} \subseteq Flush
  BY DEF DoubledOnlyByOverlap, Active
<1>3. CASE u = t
  BY <1>1, <1>2, <1>3
<1>4. CASE v = t
  BY <1>1, <1>2, <1>4
<1>5. CASE u # t /\ v # t
  <2>1. /\ trade'[u] = trade[u] /\ trade'[v] = trade[v]
        /\ u \in Active /\ v \in Active
    BY <1>1, <1>5 DEF Active
  <2> QED
    BY <2>1 DEF DoubledOnlyByOverlap
<1> QED
  BY <1>3, <1>4, <1>5

\* The part of the invariant about trades and calls.
CallsOK ==
  /\ trade \in TradeMap /\ scan \in [Scan -> ScanRecord] /\ flush \in [Flush -> FlushRecord]
  /\ PlaceInv /\ FoundInv /\ DoubledOnlyByOverlap

\* Trades end, and no call moves.
LEMMA EndingKeeps ==
  ASSUME CallsOK, trade' \in TradeMap, Within(trade'), UNCHANGED <<scan, flush>>
  PROVE  CallsOK'
<1>1. FoundInv'
  BY DEF CallsOK, FoundInv, NotOpenedBy, Within
<1>2. PlaceInv'
  BY DEF CallsOK, PlaceInv
<1> QED
  BY <1>1, <1>2, EndingKeepsDoubled DEF CallsOK

LEMMA ScanMovesKeep ==
  ASSUME CallsOK, NEW s \in Scan, NEW m \in TradeMap, Within(m), NEW found \in SUBSET Pair,
         NotOpenedBy(s, m, found), ScanMoves(s, m, found), UNCHANGED flush
  PROVE  CallsOK'
<1>1. PICK c \in ScanRecord :
        /\ scan' = [scan EXCEPT ![s] = c] /\ ScanAt(c)
        /\ \/ trade' = m /\ c.found \subseteq found
           \/ \E p \in found, t \in Trade :
                ~m[t].active /\ trade' = Opened(m, t, p, s) /\ c.found \subseteq found \ {p}
  BY DEF ScanMoves
<1>2. /\ scan'[s] = c /\ scan' \in [Scan -> ScanRecord]
      /\ \A q \in Scan \ {s} : scan'[q] = scan[q]
  BY <1>1 DEF CallsOK
<1>3. PlaceInv'
  BY <1>1, <1>2 DEF CallsOK, PlaceInv
<1>4. CASE trade' = m /\ c.found \subseteq found
  <2>1. FoundInv'
    BY <1>2, <1>4 DEF CallsOK, FoundInv, NotOpenedBy, Within
  <2> QED
    BY <1>2, <1>3, <1>4, <2>1, EndingKeepsDoubled DEF CallsOK
<1>5. ASSUME NEW p \in found, NEW t \in Trade, ~m[t].active, trade' = Opened(m, t, p, s),
             c.found \subseteq found \ {p}
      PROVE  CallsOK'
  <2>1. trade' \in TradeMap
    BY <1>5, MapsStayMaps
  <2>2. DoubledOnlyByOverlap'
    BY <1>5, OpeningKeepsDoubled DEF CallsOK, NotOpenedBy
  <2>3. /\ trade'[t] = [active |-> TRUE, pair |-> p, by |-> s]
        /\ \A u \in Trade \ {t} : trade'[u] = m[u] /\ (m[u].active => m[u] = trade[u])
    BY <1>5 DEF Opened, TradeMap, Within
  <2>4. ASSUME NEW q \in Scan, NEW u \in Trade, trade'[u].active, trade'[u].by = q
        PROVE  trade'[u].pair \notin scan'[q].found
    <3>1. CASE u = t
      BY <1>2, <1>5, <2>3, <2>4, <3>1
    <3>2. CASE u # t /\ q = s
      BY <1>2, <1>5, <2>3, <2>4, <3>2 DEF NotOpenedBy
    <3>3. CASE u # t /\ q # s
      BY <1>2, <2>3, <2>4, <3>3 DEF CallsOK, FoundInv, NotOpenedBy
    <3> QED
      BY <3>1, <3>2, <3>3
  <2>5. FoundInv'
    BY <2>4 DEF FoundInv, NotOpenedBy
  <2> QED
    BY <1>2, <1>3, <2>1, <2>2, <2>5 DEF CallsOK
<1> QED
  BY <1>1, <1>4, <1>5

LEMMA FlushMovesKeep ==
  ASSUME CallsOK, NEW f \in Flush, NEW m \in TradeMap, Within(m), FlushMoves(f, m), UNCHANGED scan
  PROVE  CallsOK'
<1>1. PICK c \in FlushRecord :
        /\ flush' = [flush EXCEPT ![f] = c] /\ FlushAt(c)
        /\ \/ trade' = m
           \/ \E p \in Pair, t \in Trade :
                ~HasOpenTrade(m, p) /\ ~m[t].active /\ trade' = Opened(m, t, p, f)
  BY DEF FlushMoves
<1>2. flush' \in [Flush -> FlushRecord] /\ PlaceInv'
  BY <1>1 DEF CallsOK, PlaceInv
<1>3. CASE trade' = m
  <2>1. FoundInv'
    BY <1>3 DEF CallsOK, FoundInv, NotOpenedBy, Within
  <2> QED
    BY <1>2, <1>3, <2>1, EndingKeepsDoubled DEF CallsOK
<1>4. ASSUME NEW p \in Pair, NEW t \in Trade, ~HasOpenTrade(m, p), ~m[t].active,
             trade' = Opened(m, t, p, f)
      PROVE  CallsOK'
  <2>1. trade' \in TradeMap
    BY <1>4, MapsStayMaps
  <2>2. DoubledOnlyByOverlap'
    BY <1>4, OpeningKeepsDoubled DEF CallsOK
  <2>3. FoundInv'
    <3>1. /\ trade'[t].by \notin Scan
          /\ \A u \in Trade \ {t} : trade'[u] = m[u] /\ (m[u].active => m[u] = trade[u])
      BY <1>4, ManagerAssumption DEF Opened, TradeMap, Within
    <3> QED
      BY <3>1 DEF CallsOK, FoundInv, NotOpenedBy
  <2> QED
    BY <1>2, <2>1, <2>2, <2>3 DEF CallsOK
<1> QED
  BY <1>1, <1>3, <1>4

-----------------------------------------------------------------------------
(* The invariant of the manager *)

LEMMA ScanTickKeeps ==
  ASSUME TypeOK, CallsOK, NEW s \in Scan, ScanTick(s)
  PROVE  CallsOK'
<1>1. NextBroker(s, enabled, trade) /\ enabled \in SUBSET Broker /\ UNCHANGED flush
  BY DEF ScanTick, TypeOK
<1>2. ScanMoves(s, trade, {})
  BY <1>1, NextBrokerMoves
<1> QED
  BY <1>1, <1>2, ScanMovesKeep DEF CallsOK, Within, NotOpenedBy

LEMMA ScanConnectedKeeps ==
  ASSUME TypeOK, CallsOK, NEW s \in Scan, NEW ok \in BOOLEAN, ScanConnected(s, ok)
  PROVE  CallsOK'
<1>1. /\ scan[s] \in ScanRecord /\ scan[s].found \in SUBSET Pair /\ scan[s].todo \in SUBSET Broker
      /\ scan[s].broker \in Broker /\ NotOpenedBy(s, trade, scan[s].found) /\ UNCHANGED flush
  BY DEF ScanConnected, CallsOK, ScanRecord, PlaceInv, ScanAt, FoundInv
<1>2. ScanMoves(s, trade, scan[s].found)
  <2>1. CASE ok
    <3>1. PICK r \in ScanRecord : /\ r = [scan[s] EXCEPT !.pairs = Pair]
                                  /\ r.broker = scan[s].broker /\ r.found = scan[s].found
      BY <1>1, PairsListed
    <3> QED
      BY <1>1, <2>1, <3>1, NextPairMoves DEF ScanConnected
  <2>2. CASE ~ok
    BY <1>1, <2>2, NextBrokerMoves DEF ScanConnected
  <2> QED
    BY <2>1, <2>2
<1> QED
  BY <1>1, <1>2, ScanMovesKeep DEF CallsOK, Within

LEMMA SignalArrivesKeeps ==
  ASSUME TypeOK, CallsOK, NEW s \in Scan, NEW verdict, SignalArrives(s, verdict)
  PROVE  CallsOK'
<1>1. /\ scan[s] \in ScanRecord /\ scan[s].found \in SUBSET Pair /\ scan[s].pair \in Pair
      /\ scan[s].broker \in Broker /\ NotOpenedBy(s, trade, scan[s].found) /\ UNCHANGED flush
  BY DEF SignalArrives, CallsOK, ScanRecord, PlaceInv, ScanAt, FoundInv
<1>2. PICK r \in ScanRecord :
        /\ NextPair(s, r) /\ r.broker = scan[s].broker
        /\ \/ r.found = scan[s].found
           \/ ~HasOpenTrade(trade, scan[s].pair) /\ r.found = scan[s].found \cup {scan[s].pair}
  <2>1. CASE verdict = "enter" /\ ~HasOpenTrade(trade, scan[s].pair)
    <3>1. PICK r \in ScanRecord :
            /\ r = [scan[s] EXCEPT !.found = @ \cup {scan[s].pair}]
            /\ r.broker = scan[s].broker /\ r.found = scan[s].found \cup {scan[s].pair}
      BY <1>1, CandidateFound
    <3> QED
      BY <2>1, <3>1 DEF SignalArrives
  <2>2. CASE ~(verdict = "enter" /\ ~HasOpenTrade(trade, scan[s].pair))
    BY <1>1, <2>2 DEF SignalArrives
  <2> QED
    BY <2>1, <2>2
<1>3. NotOpenedBy(s, trade, r.found)
  BY <1>1, <1>2 DEF NotOpenedBy, HasOpenTrade
<1>4. ScanMoves(s, trade, r.found) /\ r.found \in SUBSET Pair
  BY <1>1, <1>2, NextPairMoves DEF ScanRecord
<1> QED
  BY <1>1, <1>3, <1>4, ScanMovesKeep DEF CallsOK, Within

LEMMA ScanCommittedKeeps ==
  ASSUME TypeOK, CallsOK, NEW s \in Scan, NEW ok \in BOOLEAN, ScanCommitted(s, ok)
  PROVE  CallsOK'
<1>1. /\ scan[s] \in ScanRecord /\ scan[s].found \in SUBSET Pair /\ scan[s].opened < MaxNew
      /\ scan[s].opened \in 0..MaxNew /\ scan[s].trade \in Trade \cup {None}
      /\ NotOpenedBy(s, trade, scan[s].found) /\ UNCHANGED flush
  BY DEF ScanCommitted, CallsOK, ScanRecord, PlaceInv, ScanAt, FoundInv
<1>2. PICK m \in TradeMap : m = Committed(scan[s].trade, ok) /\ Within(m)
  BY <1>1, MapsStayMaps
<1>3. PICK r \in ScanRecord : NextTrade(s, r, m) /\ r.found = scan[s].found
  <2>1. CASE ok
    <3>1. PICK r \in ScanRecord : r = [scan[s] EXCEPT !.opened = @ + 1] /\ r.found = scan[s].found
      BY <1>1, ScanCounted
    <3> QED
      BY <1>2, <2>1, <3>1 DEF ScanCommitted
  <2>2. CASE ~ok
    BY <1>1, <1>2, <2>2 DEF ScanCommitted
  <2> QED
    BY <2>1, <2>2
<1>4. ScanMoves(s, m, scan[s].found)
  BY <1>3, NextTradeMoves
<1>5. NotOpenedBy(s, m, scan[s].found)
  BY <1>1, <1>2 DEF NotOpenedBy, Within
<1> QED
  BY <1>1, <1>2, <1>4, <1>5, ScanMovesKeep

LEMMA FlushStepsKeep ==
  ASSUME TypeOK, CallsOK, NEW f \in Flush,
         FlushContinues(f) \/ \E b \in Broker : FlushTimerFires(f, b)
  PROVE  CallsOK'
<1>1. /\ flush[f] \in FlushRecord /\ trade \in TradeMap /\ Within(trade)
      /\ flush[f].opened \in 0..MaxNew /\ flush[f].trade \in Trade \cup {None}
  BY DEF CallsOK, FlushRecord, Within
<1>2. ASSUME NEW ok \in BOOLEAN, FlushConnected(f, ok)
      PROVE  CallsOK'
  <2>1. flush[f].broker \in Broker /\ queue[flush[f].broker] \in SUBSET Pair /\ UNCHANGED scan
    BY <1>2 DEF FlushConnected, CallsOK, PlaceInv, FlushAt, TypeOK
  <2>2. CASE ok
    <3>1. PICK r \in FlushRecord : /\ r = [flush[f] EXCEPT !.found = queue[flush[f].broker]]
                                   /\ r.broker = flush[f].broker
      BY <1>1, <2>1, QueueTaken
    <3>2. NextFlushTrade(f, r, trade)
      BY <1>2, <2>2, <3>1 DEF FlushConnected
    <3>3. FlushMoves(f, trade)
      BY <2>1, <3>1, <3>2, NextFlushTradeMoves
    <3> QED
      BY <1>1, <2>1, <3>3, FlushMovesKeep
  <2>3. CASE ~ok
    <3>1. FlushMoves(f, trade)
      BY <1>2, <2>3, FlushRecords DEF FlushConnected, FlushMoves
    <3> QED
      BY <1>1, <2>1, <3>1, FlushMovesKeep
  <2> QED
    BY <2>2, <2>3
<1>3. ASSUME NEW ok \in BOOLEAN, FlushCommitted(f, ok)
      PROVE  CallsOK'
  <2>1. /\ flush[f].broker \in Broker /\ flush[f].opened < MaxNew /\ UNCHANGED scan
    BY <1>3 DEF FlushCommitted, CallsOK, PlaceInv, FlushAt
  <2>2. PICK m \in TradeMap : m = Committed(flush[f].trade, ok) /\ Within(m)
    BY <1>1, MapsStayMaps
  <2>3. PICK r \in FlushRecord : NextFlushTrade(f, r, m) /\ r.broker = flush[f].broker
    <3>1. CASE ok
      <4>1. PICK r \in FlushRecord : /\ r = [flush[f] EXCEPT !.opened = @ + 1]
                                     /\ r.broker = flush[f].broker
        BY <1>1, <2>1, FlushCounted
      <4> QED
        BY <1>3, <2>2, <3>1, <4>1 DEF FlushCommitted
    <3>2. CASE ~ok
      BY <1>1, <1>3, <2>2, <3>2 DEF FlushCommitted
    <3> QED
      BY <3>1, <3>2
  <2>4. FlushMoves(f, m)
    BY <2>1, <2>3, NextFlushTradeMoves
  <2> QED
    BY <2>1, <2>2, <2>4, FlushMovesKeep
<1>4. ASSUME NEW b \in Broker, FlushTimerFires(f, b)
      PROVE  CallsOK'
  <2>1. UNCHANGED <<scan, trade>>
    BY <1>4 DEF FlushTimerFires
  <2>2. CASE UNCHANGED flush
    BY <1>1, <2>1, <2>2, EndingKeeps DEF Within
  <2>3. CASE ~(UNCHANGED flush)
    <3>1. FlushMoves(f, trade)
      BY <1>4, <2>1, <2>3, FlushRecords DEF FlushTimerFires, FlushMoves
    <3> QED
      BY <1>1, <2>1, <3>1, FlushMovesKeep
  <2> QED
    BY <2>2, <2>3
<1> QED
  BY <1>2, <1>3, <1>4 DEF FlushContinues

LEMMA StartConnectedKeeps ==
  ASSUME TypeOK, CallsOK, NEW b \in Broker, NEW ok \in BOOLEAN, StartConnected(b, ok)
  PROVE  CallsOK'
<1>1. trade \in TradeMap /\ Within(trade) /\ UNCHANGED flush
  BY DEF CallsOK, Within, StartConnected
<1>2. CASE ok
  <2>1. enabled' \in SUBSET Broker
    BY <1>2 DEF StartConnected, TypeOK
  <2>2. PICK s \in Scan : NextBroker(s, enabled', trade)
    BY <1>2 DEF StartConnected
  <2>3. ScanMoves(s, trade, {})
    BY <2>1, <2>2, NextBrokerMoves
  <2> QED
    BY <1>1, <2>3, ScanMovesKeep DEF NotOpenedBy
<1>3. CASE ~ok
  BY <1>1, <1>3, EndingKeeps DEF StartConnected, Within
<1> QED
  BY <1>2, <1>3

LEMMA TradeStepsKeep ==
  ASSUME TypeOK, CallsOK, NEW t \in Trade, TradeEnds(t) \/ \E p \in Pair : ManualTrade(t, p)
  PROVE  CallsOK'
<1>1. trade \in TradeMap /\ Within(trade) /\ UNCHANGED <<scan, flush>>
  BY DEF CallsOK, Within, TradeEnds, ManualTrade
<1>2. CASE TradeEnds(t)
  <2>1. trade' \in TradeMap /\ Within(trade')
    BY <1>1, <1>2 DEF TradeEnds, Within, NoTrade, TradeMap, TradeRecord
  <2> QED
    BY <1>1, <2>1, EndingKeeps
<1>3. ASSUME NEW p \in Pair, ManualTrade(t, p)
      PROVE  CallsOK'
  <2>1. ~trade[t].active /\ trade' = Opened(trade, t, p, Manual)
    BY <1>3 DEF ManualTrade, Free
  <2>2. trade' \in TradeMap /\ DoubledOnlyByOverlap'
    BY <1>1, <2>1, MapsStayMaps, OpeningKeepsDoubled DEF CallsOK
  <2>3. FoundInv'
    <3>1. trade'[t].by \notin Scan /\ \A u \in Trade \ {t} : trade'[u] = trade[u]
      BY <1>1, <2>1, ManagerAssumption DEF Opened, TradeMap
    <3> QED
      BY <1>1, <3>1 DEF CallsOK, FoundInv, NotOpenedBy
  <2>4. PlaceInv'
    BY <1>1 DEF CallsOK, PlaceInv
  <2> QED
    BY <1>1, <2>2, <2>3, <2>4 DEF CallsOK
<1> QED
  BY <1>2, <1>3

LEMMA CallsStep ==
  ASSUME TypeOK, CallsOK, [Next]_vars
  PROVE  CallsOK'
<1>1. UNCHANGED <<scan, flush, trade>> => CallsOK'
  BY EndingKeeps DEF CallsOK, Within
<1>2. ASSUME NEW b \in Broker,
             \/ StartAutoTrading(b) \/ StopAutoTrading({b})
             \/ \E p \in Pair :
                  EnqueueRealtimeSignal(b, p) \/ CheckExpires(b, p) \/ CooldownExpires(b, p)
      PROVE  CallsOK'
  BY <1>1, <1>2 DEF StartAutoTrading, StopAutoTrading, EnqueueRealtimeSignal, CheckExpires,
                    CooldownExpires
<1>3. ASSUME StopAutoTrading(enabled) \/ UNCHANGED vars
      PROVE  CallsOK'
  BY <1>1, <1>3 DEF StopAutoTrading, vars
<1>4. ASSUME NEW s \in Scan, ScanTick(s) \/ ScanContinues(s)
      PROVE  CallsOK'
  BY <1>4, ScanTickKeeps, ScanConnectedKeeps, SignalArrivesKeeps, ScanCommittedKeeps
  DEF ScanContinues
<1> QED
  BY <1>2, <1>3, <1>4, FlushStepsKeep, StartConnectedKeeps, TradeStepsKeep DEF Next

\* The types of what is not about a call or a trade.
SharedTypeOK ==
  /\ enabled \subseteq Broker /\ starting \subseteq Broker /\ timer \subseteq Broker
  /\ interval \subseteq {"signals", "monitor"}
  /\ checked \subseteq Broker \X Pair /\ cooldown \subseteq Broker \X Pair
  /\ queue \in [Broker -> SUBSET Pair]

LEMMA SharedTypeStep ==
  ASSUME TypeOK, CallsOK, [Next]_vars
  PROVE  SharedTypeOK'
<1> USE DEF SharedTypeOK, TypeOK
<1>1. ASSUME NEW s \in Scan, ScanTick(s) \/ ScanContinues(s)
      PROVE  SharedTypeOK'
  <2>1. scan[s].pc = "signal" => scan[s].broker \in Broker /\ scan[s].pair \in Pair
    BY DEF CallsOK, PlaceInv, ScanAt
  <2> QED
    BY <1>1, <2>1 DEF ScanTick, ScanContinues, ScanConnected, SignalArrives, ScanCommitted
<1>2. ASSUME NEW f \in Flush, FlushContinues(f)
      PROVE  SharedTypeOK'
  <2>1. flush[f].pc = "commit" => flush[f].broker \in Broker /\ flush[f].pair \in Pair
    BY DEF CallsOK, PlaceInv, FlushAt
  <2> QED
    BY <1>2, <2>1 DEF FlushContinues, FlushConnected, FlushCommitted
<1>3. ASSUME NEW f \in Flush, NEW b \in Broker, FlushTimerFires(f, b)
      PROVE  SharedTypeOK'
  BY <1>3 DEF FlushTimerFires
<1>4. ASSUME NEW b \in Broker, NEW p \in Pair,
             EnqueueRealtimeSignal(b, p) \/ CheckExpires(b, p) \/ CooldownExpires(b, p)
      PROVE  SharedTypeOK'
  BY <1>4 DEF EnqueueRealtimeSignal, CheckExpires, CooldownExpires
<1>5. ASSUME NEW b \in Broker, StartAutoTrading(b) \/ \E ok \in BOOLEAN : StartConnected(b, ok)
      PROVE  SharedTypeOK'
  BY <1>5 DEF StartAutoTrading, StartConnected
<1>6. ASSUME NEW brokers, StopAutoTrading(brokers)
      PROVE  SharedTypeOK'
  BY <1>6 DEF StopAutoTrading
<1>7. ASSUME NEW t \in Trade, TradeEnds(t) \/ \E p \in Pair : ManualTrade(t, p)
      PROVE  SharedTypeOK'
  BY <1>7 DEF TradeEnds, ManualTrade
<1>8. CASE UNCHANGED vars
  BY <1>8 DEF vars
<1> QED
  BY <1>1, <1>2, <1>3, <1>4, <1>5, <1>6, <1>7, <1>8 DEF Next

LEMMA InductiveInit == Init => IInv
<1> SUFFICES ASSUME Init PROVE IInv
  OBVIOUS
<1>1. TypeOK
  BY ScanRecords, FlushRecords, MapsStayMaps DEF Init, TypeOK
<1>2. PlaceInv /\ FoundInv
  BY ScanRecords, FlushRecords DEF Init, PlaceInv, FoundInv, NotOpenedBy
<1>3. DoubledOnlyByOverlap
  BY DEF Init, DoubledOnlyByOverlap, Active, NoTrade
<1> QED
  BY <1>1, <1>2, <1>3 DEF IInv

LEMMA InductiveStep == IInv /\ [Next]_vars => IInv'
<1> SUFFICES ASSUME IInv, [Next]_vars PROVE IInv'
  OBVIOUS
<1>1. TypeOK /\ CallsOK
  BY DEF IInv, CallsOK, TypeOK, TradeMap
<1>2. CallsOK' /\ SharedTypeOK'
  BY <1>1, CallsStep, SharedTypeStep
<1> QED
  BY <1>2 DEF IInv, CallsOK, SharedTypeOK, TypeOK, TradeMap

LEMMA IInvHolds == Spec => []IInv
  BY InductiveInit, InductiveStep, PTL DEF Spec

\* Type correctness: in particular neither a scan nor a flush opens more trades
\* of a broker in one cycle than maxNewTradesPerCycle allows.
THEOREM TypeCorrect == Spec => []TypeOK
<1>1. IInv => TypeOK
  BY DEF IInv
<1> QED
  BY <1>1, IInvHolds, PTL

\* Two active trades of one pair, neither opened by hand, come from different
\* calls, and one of these is a scan: hasOpenTradeForPair keeps a scan from
\* doubling its own trades, though it asks when a candidate is collected and not
\* again when it is executed, and keeps any two flushes apart, which ask again.
THEOREM DoublesNeedAScan == Spec => []DoubledOnlyByOverlap
<1>1. IInv => DoubledOnlyByOverlap
  BY DEF IInv
<1> QED
  BY <1>1, IInvHolds, PTL

\* Both intervals run while any broker is enabled, in whatever order brokers are
\* started, stopped and find themselves not connected.
THEOREM IntervalsRun == Spec => []EnabledMeansRunning
<1>1. Init => EnabledMeansRunning
  BY DEF Init, EnabledMeansRunning
<1>2. EnabledMeansRunning /\ [Next]_vars => EnabledMeansRunning'
  <2> SUFFICES ASSUME EnabledMeansRunning, [Next]_vars PROVE EnabledMeansRunning'
    OBVIOUS
  <2> USE DEF EnabledMeansRunning
  <2>1. ASSUME NEW b \in Broker, NEW ok \in BOOLEAN, StartConnected(b, ok)
        PROVE  EnabledMeansRunning'
    BY <2>1 DEF StartConnected
  <2>2. ASSUME NEW brokers, StopAutoTrading(brokers)
        PROVE  EnabledMeansRunning'
    BY <2>2 DEF StopAutoTrading
  <2>3. UNCHANGED <<enabled, interval>> => EnabledMeansRunning'
    OBVIOUS
  <2>4. ASSUME NEW s \in Scan, ScanTick(s) \/ ScanContinues(s)
        PROVE  EnabledMeansRunning'
    BY <2>4 DEF ScanTick, ScanContinues, ScanConnected, SignalArrives, ScanCommitted
  <2>5. ASSUME NEW f \in Flush, FlushContinues(f) \/ \E b \in Broker : FlushTimerFires(f, b)
        PROVE  EnabledMeansRunning'
    BY <2>5 DEF FlushContinues, FlushConnected, FlushCommitted, FlushTimerFires
  <2>6. ASSUME NEW b \in Broker,
               \/ StartAutoTrading(b)
               \/ \E p \in Pair :
                    EnqueueRealtimeSignal(b, p) \/ CheckExpires(b, p) \/ CooldownExpires(b, p)
        PROVE  EnabledMeansRunning'
    BY <2>6 DEF StartAutoTrading, EnqueueRealtimeSignal, CheckExpires, CooldownExpires
  <2>7. ASSUME NEW t \in Trade, TradeEnds(t) \/ \E p \in Pair : ManualTrade(t, p)
        PROVE  EnabledMeansRunning'
    BY <2>7 DEF TradeEnds, ManualTrade
  <2>8. CASE UNCHANGED vars
    BY <2>8 DEF vars
  <2> QED
    BY <2>1, <2>2, <2>4, <2>5, <2>6, <2>7, <2>8 DEF Next
<1> QED
  BY <1>1, <1>2, PTL DEF Spec
=============================================================================
