----------------------------- MODULE PriceFetcher -----------------------------
(***************************************************************************)
(* PriceDataFetcher (src/infrastructure/data/price-data-fetcher.js): gets  *)
(* series and quotes from market data providers, one provider after the    *)
(* other until one answers.  Every caller of a key shares the fetch that   *)
(* is under way for it.  A provider is left out while its circuit breaker  *)
(* is open, while it is in backoff, and when its quota is used up; what    *)
(* counts toward all three is recorded when a request has ended.           *)
(*                                                                         *)
(* The order in which providers are tried is a free choice (the code       *)
(* scores them).  Time is what has passed: a breaker counts down, a sample *)
(* leaves the window.  What the caches hold is left out: a caller that     *)
(* finds its key there starts no fetch.                                    *)
(***************************************************************************)
EXTENDS Integers, FiniteSets

CONSTANTS
  Provider,      \* configured providers
  Key,           \* what may be fetched: series and quotes, by cache key
  Serves,        \* Serves[p]: the keys provider p has a request for
  TellsItself,   \* providers that record their own requests as well
  MaxRequests,   \* requests per window
  Cooldown       \* how long a breaker stays open

VARIABLES
  fetch,     \* inFlight, quoteInFlight: what the fetch of each key is doing
  usage,     \* samples of each provider within its window
  breaker,   \* time until the circuit breaker expires; 0: closed
  backoff    \* providers in backoff

fetcherVars == <<fetch, usage, breaker, backoff>>

NoFetch == [under |-> FALSE, left |-> {}, at |-> {}]

Init ==
  /\ fetch = [k \in Key |-> NoFetch]
  /\ usage = [p \in Provider |-> 0]
  /\ breaker = [p \in Provider |-> 0]
  /\ backoff = {}
-----------------------------------------------------------------------------
\* (faulty variant: the quota is one request too large)
AllowedOneMore(p) ==
  /\ breaker[p] = 0
  /\ p \notin backoff
  /\ usage[p] <= MaxRequests

\* (faulty variant: the breaker is not looked at)
AllowedByQuota(p) ==
  /\ p \notin backoff
  /\ usage[p] < MaxRequests

\* canMakeRequest; an expired breaker is cleared.
Allowed(p) ==
  /\ breaker[p] = 0
  /\ p \notin backoff
  /\ usage[p] < MaxRequests

\* A caller that found nothing in the cache, or does not look there, starts a fetch
\* unless it can wait for one.
StartFetch(k) ==
  /\ ~fetch[k].under
  /\ fetch' = [fetch EXCEPT ![k] = [under |-> TRUE, left |-> Provider, at |-> {}]]
  /\ UNCHANGED <<usage, breaker, backoff>>

Between(k) == fetch[k].under /\ fetch[k].at = {}

Passed(k, p) == [fetch EXCEPT ![k] = [under |-> TRUE, left |-> @.left \ {p}, at |-> {}]]

\* A provider is passed over that is not allowed a request, or was not when the fetch
\* began: the check of a series uses the time of the start.
Skip(k, p) ==
  /\ Between(k) /\ p \in fetch[k].left
  /\ fetch' = Passed(k, p)
  /\ UNCHANGED <<usage, breaker, backoff>>

\* The request leaves; nothing is recorded yet.
Send(k, p) ==
  /\ Between(k) /\ p \in fetch[k].left
  /\ Allowed(p) /\ k \in Serves[p]
  /\ fetch' = [fetch EXCEPT ![k].at = {p}]
  /\ UNCHANGED <<usage, breaker, backoff>>

\* recordRequest with evaluateProviderHealth: a request that failed has quality 0,
\* which is below the quality threshold, so that it opens the breaker whatever the
\* number of failures before it; a short or slow answer may open it too.  An open
\* breaker starts anew.
Samples(p) == IF p \in TellsItself THEN 2 ELSE 1
Recorded(p, samples, opens) ==
  /\ usage' = [usage EXCEPT ![p] = @ + samples]
  /\ breaker' = IF opens THEN [breaker EXCEPT ![p] = Cooldown] ELSE breaker

\* A provider without a request for the key answers nothing, which is recorded as
\* a failed request.
NothingToAsk(k, p) ==
  /\ Between(k) /\ p \in fetch[k].left
  /\ Allowed(p) /\ k \notin Serves[p]
  /\ fetch' = Passed(k, p)
  /\ Recorded(p, 1, TRUE)
  /\ UNCHANGED backoff

\* An answer ends the fetch: every caller that waits gets it.
Answers(k, p, opens) ==
  /\ fetch[k].at = {p}
  /\ fetch' = [fetch EXCEPT ![k] = NoFetch]
  /\ Recorded(p, Samples(p), opens)
  /\ UNCHANGED backoff

\* No answer in time, an error, or no data; the provider may say it was asked too often.
Fails(k, p) ==
  /\ fetch[k].at = {p}
  /\ fetch' = Passed(k, p)
  /\ Recorded(p, Samples(p), TRUE)
  /\ backoff' \in {backoff, backoff \cup {p}}

\* No provider is left: every caller that waits gets the failure.
Exhausted(k) ==
  /\ Between(k) /\ fetch[k].left = {}
  /\ fetch' = [fetch EXCEPT ![k] = NoFetch]
  /\ UNCHANGED <<usage, breaker, backoff>>

BreakerRuns(p) ==
  /\ breaker[p] > 0
  /\ breaker' = [breaker EXCEPT ![p] = @ - 1]
  /\ UNCHANGED <<fetch, usage, backoff>>

SampleLeaves(p) ==
  /\ usage[p] > 0
  /\ usage' = [usage EXCEPT ![p] = @ - 1]
  /\ UNCHANGED <<fetch, breaker, backoff>>

BackoffEnds(p) ==
  /\ p \in backoff
  /\ backoff' = backoff \ {p}
  /\ UNCHANGED <<fetch, usage, breaker>>
-----------------------------------------------------------------------------
Ends(k, p) == Fails(k, p) \/ \E opens \in BOOLEAN : Answers(k, p, opens)

Next ==
  \/ \E k \in Key : StartFetch(k) \/ Exhausted(k)
  \/ \E k \in Key, p \in Provider :
       Skip(k, p) \/ Send(k, p) \/ NothingToAsk(k, p) \/ Ends(k, p)
  \/ \E p \in Provider : BreakerRuns(p) \/ SampleLeaves(p) \/ BackoffEnds(p)

Spec == Init /\ [][Next]_fetcherVars

\* Requests end, by their timeout at the latest, and time passes.
Fairness ==
  /\ \A k \in Key : WF_fetcherVars(\E p \in Provider : Ends(k, p))
  /\ \A p \in Provider : WF_fetcherVars(BreakerRuns(p))

FairSpec == Spec /\ Fairness
-----------------------------------------------------------------------------
\* A quota is exceeded by no more than the requests that can be under way at once,
\* one for each key, as often as each is counted: all of them may pass the check
\* before the first is recorded.
QuotaNearlyKept ==
  \A p \in Provider : usage[p] <= MaxRequests - 1 + Samples(p) * Cardinality(Key)

\* An open breaker closes: requests that were under way when it opened may start it
\* anew when they fail, but no new ones leave.
BreakerEnds == \A p \in Provider : breaker[p] > 0 ~> breaker[p] = 0
=============================================================================
