----------------------------- MODULE MarketSeries -----------------------------
(***************************************************************************)
(* What the EA bridge (ea-bridge-service.js) keeps of the market data of a *)
(* symbol on M1: the latest quote, the candles it builds from quotes       *)
(* itself, and the bars a terminal sends.                                  *)
(*                                                                         *)
(* Time is in minutes, a price is a number.  A terminal stamps a quote     *)
(* with its last tick, which may be a while ago; a snapshot is stamped     *)
(* with the time of the server.                                            *)
(***************************************************************************)
EXTENDS Integers, Sequences, FiniteSets, SequencesExt, FiniteSetsExt

CONSTANTS
  Prices,       \* prices of the market
  MaxAge,       \* maxQuoteAgeMs: how late a quote may be
  MaxCandles,   \* maxSyntheticCandlesPerSeries
  MaxSeries,    \* maxBarsPerSeries
  Depth,        \* numbers of bars a terminal sends at once
  MaxTime,      \* minutes (a bound)
  MaxQuotes     \* quotes recorded (a bound)

VARIABLES
  minute,    \* the time
  market,    \* closing price of each minute so far; the last one is the current price
  candles,   \* syntheticCandles, newest first
  quote,     \* price of latestQuotes; 0: none
  recentQ,   \* the latest quote is younger than 30 s
  bars,      \* latestBars, newest first
  quotes,    \* history: the quotes recorded
  sent       \* history: the last close received for each minute; 0: none

seriesVars == <<minute, market, candles, quote, recentQ, bars, quotes, sent>>

Minutes == 1..MaxTime
Larger(a, b) == IF a >= b THEN a ELSE b
Smaller(a, b) == IF a <= b THEN a ELSE b
Cut(q, n) == SubSeq(q, 1, Smaller(n, Len(q)))

\* Where a time comes first in a sequence, and the k-th of these places.
Firsts(q) == {i \in DOMAIN q : \A j \in 1..(i - 1) : q[j].time # q[i].time}

NthFirst(q, k) == CHOOSE i \in Firsts(q) : Cardinality({j \in Firsts(q) : j < i}) = k - 1

\* The first of the elements with one time, in the order of the sequence.
Dedupe(q) == [k \in 1..Cardinality(Firsts(q)) |-> q[NthFirst(q, k)]]

Init ==
  /\ minute = 1
  /\ market \in {<<p>> : p \in Prices}
  /\ candles = <<>> /\ bars = <<>> /\ quotes = <<>>
  /\ quote = 0 /\ recentQ = FALSE
  /\ sent = [t \in Minutes |-> 0]
-----------------------------------------------------------------------------
\* (faulty variant: the high is not raised)
WithCandleFlat(cs, t, p) ==
  LET top == cs # <<>> /\ cs[1].time = t
      updated == [cs[1] EXCEPT !.low = Smaller(@, p), !.close = p]
      opened == [time |-> t, open |-> p, high |-> p, low |-> p, close |-> p]
  IN Cut(Dedupe(IF top THEN <<updated>> \o Tail(cs) ELSE <<opened>> \o cs), MaxCandles)

\* recordSyntheticCandle: only the candle on top is updated; another time, older or
\* newer, gets a candle of its own on top.
WithCandle(cs, t, p) ==
  LET top == cs # <<>> /\ cs[1].time = t
      updated == [time |-> t, open |-> cs[1].open, high |-> Larger(cs[1].high, p),
                  low |-> Smaller(cs[1].low, p), close |-> p]
      opened == [time |-> t, open |-> p, high |-> p, low |-> p, close |-> p]
  IN Cut(Dedupe(IF top THEN <<updated>> \o Tail(cs) ELSE <<opened>> \o cs), MaxCandles)

\* recordQuote: the quote that arrived last is the latest, whatever its stamp.
RecordQuote(t, p) ==
  /\ Len(quotes) < MaxQuotes
  /\ quote' = p
  /\ recentQ' = TRUE
  /\ candles' = WithCandle(candles, t, p)
  /\ quotes' = Append(quotes, [time |-> t, price |-> p])

\* A terminal quote or a snapshot: stamps that are too old are ignored.
Quote(t) ==
  /\ t >= minute - MaxAge
  /\ RecordQuote(t, market[minute])
  /\ UNCHANGED <<minute, market, bars, sent>>

\* The bars a terminal sends: n of them from minute t back, newest first.
Payload(t, n) == [i \in 1..n |-> [time |-> t - i + 1, close |-> market[t - i + 1]]]

TimesOf(q) == {q[i].time : i \in DOMAIN q}

\* The element with the k-th newest time, and of those with this time the first.
NthNewest(q, k) ==
  LET at == CHOOSE t \in TimesOf(q) : Cardinality({u \in TimesOf(q) : u > t}) = k - 1
  IN q[CHOOSE i \in Firsts(q) : q[i].time = at]

\* Sorted by time (the sort is stable), one element for a time.
Sorted(q) == [k \in 1..Cardinality(TimesOf(q)) |-> NthNewest(q, k)]

\* (faulty variant: of two bars of a time the one already there is kept)
MergedKeepsOld(incoming) == Cut(Sorted(bars \o incoming), MaxSeries)

\* All bars sorted by time, the incoming ones before the ones already there.
Merged(incoming) == Cut(Sorted(incoming \o bars), MaxSeries)

\* recordMarketBars: without a recent quote one is made of the last bar of the payload.
Bars(t, n) ==
  LET incoming == Payload(t, n) IN
  /\ n <= t
  /\ IF recentQ THEN UNCHANGED <<quote, recentQ, candles, quotes>>
     ELSE RecordQuote(minute, Last(incoming).close)
  /\ bars' = Merged(incoming)
  /\ sent' = [u \in Minutes |-> IF u \in (t - n + 1)..t THEN market[u] ELSE sent[u]]
  /\ UNCHANGED <<minute, market>>

\* The market moves; a minute passes; the latest quote ages.
Move(p) ==
  /\ p # market[minute]
  /\ market' = [market EXCEPT ![minute] = p]
  /\ UNCHANGED <<minute, candles, quote, recentQ, bars, quotes, sent>>

NextMinute ==
  /\ minute < MaxTime
  /\ minute' = minute + 1
  /\ market' = Append(market, market[minute])
  /\ recentQ' = FALSE
  /\ UNCHANGED <<candles, quote, bars, quotes, sent>>

QuoteAges ==
  /\ recentQ
  /\ recentQ' = FALSE
  /\ UNCHANGED <<minute, market, candles, quote, bars, quotes, sent>>
-----------------------------------------------------------------------------
Next ==
  \/ \E t \in 1..minute : Quote(t)
  \/ \E t \in {minute, minute - 1} \cap Minutes, n \in Depth : Bars(t, n)
  \/ \E p \in Prices : Move(p)
  \/ NextMinute
  \/ QuoteAges

Spec == Init /\ [][Next]_seriesVars
-----------------------------------------------------------------------------
\* The quotes of a minute, and whether they came without one of another minute
\* between them.
Own(t) == {i \in DOMAIN quotes : quotes[i].time = t}
Together(t) == \A i, j \in Own(t) : (i..j) \subseteq Own(t)

OwnPrices(t) == {quotes[i].price : i \in Own(t)}
ExactCandle(t) ==
  [time |-> t, open |-> quotes[Min(Own(t))].price, high |-> Max(OwnPrices(t)),
   low |-> Min(OwnPrices(t)), close |-> quotes[Max(Own(t))].price]

\* A candle built from quotes is the candle of its minute unless a quote of another
\* minute came between; and while stamps never went back, the newest minutes are
\* there, newest first.
CandlesAreExact ==
  /\ \A k \in DOMAIN candles : Together(candles[k].time) => candles[k] = ExactCandle(candles[k].time)
  /\ (\A i \in 2..Len(quotes) : quotes[i - 1].time <= quotes[i].time)
       => LET times == {quotes[i].time : i \in DOMAIN quotes} IN
          /\ Len(candles) = Smaller(MaxCandles, Cardinality(times))
          /\ \A k \in DOMAIN candles :
               Cardinality({t \in times : t > candles[k].time}) = k - 1

\* However payloads overlap, the bars kept are the newest ones of all that were
\* received, each as it was last received.
BarsAreNewest ==
  LET times == {t \in Minutes : sent[t] # 0} IN
  /\ Len(bars) = Smaller(MaxSeries, Cardinality(times))
  /\ \A k \in DOMAIN bars :
       /\ bars[k].close = sent[bars[k].time]
       /\ Cardinality({t \in times : t > bars[k].time}) = k - 1
=============================================================================
