------------------------------ MODULE EaLearning ------------------------------
(***************************************************************************)
(* How the EA bridge (ea-bridge-service.js) learns from the transactions   *)
(* the terminals report: streaks, win rate, the factors for risk and stop  *)
(* it gives to all terminals, and the pause after a losing streak.  The    *)
(* counters are those of the server: every session feeds the same ones.    *)
(*                                                                         *)
(* A transaction is the sign of its profit: 0 for the deal that opens a    *)
(* position.  Factors are in thousandths, rounded down.                    *)
(***************************************************************************)
EXTENDS Integers, Sequences, FiniteSets, SequencesExt

CONSTANTS
  Session,          \* connected sessions
  MaxHistory,       \* maxHistorySize
  MaxLosses,        \* maxConsecutiveLosses
  MaxTransactions   \* transactions reported (a bound)

VARIABLES
  connected,   \* sessions the bridge knows
  trades,      \* tradeHistory: signs of the profits
  wins, losses,   \* consecutiveWins, consecutiveLosses
  risk,        \* riskAdjustmentFactor
  stop,        \* stopLossAdjustmentFactor
  reported     \* number of transactions

learnVars == <<connected, trades, wins, losses, risk, stop, reported>>

AtLeast(x, low) == IF x < low THEN low ELSE x
AtMost(x, high) == IF x > high THEN high ELSE x

Init ==
  /\ connected = {}
  /\ trades = <<>>
  /\ wins = 0 /\ losses = 0
  /\ risk = 1000 /\ stop = 1000
  /\ reported = 0
-----------------------------------------------------------------------------
\* A terminal connects, or its session ends.
Connect(s) ==
  /\ connected' = connected \cup {s}
  /\ UNCHANGED <<trades, wins, losses, risk, stop, reported>>

Disconnect(s) ==
  /\ connected' = connected \ {s}
  /\ UNCHANGED <<trades, wins, losses, risk, stop, reported>>

Recent(profit) ==
  LET all == Append(trades, profit) IN IF Len(all) > MaxHistory THEN Tail(all) ELSE all

\* Wins among the n trades remembered, against 40 % and 60 % of them.
Won(history) == Cardinality({i \in DOMAIN history : history[i] > 0})

\* (faulty variant: the risk is lowered once per streak)
NewRiskOnce(w, l) ==
  IF l = MaxLosses THEN AtLeast((risk * 8) \div 10, 500)
  ELSE IF w >= 3 THEN AtMost((risk * 11) \div 10, 1500)
  ELSE IF l = 0 /\ w = 0 THEN (risk * 95 + 5000) \div 100
  ELSE risk

\* adjustRiskParameters.  A streak of losses comes before one of wins; the way back
\* to 1 is taken while there is neither.
NewRisk(w, l) ==
  IF l >= MaxLosses THEN AtLeast((risk * 8) \div 10, 500)
  ELSE IF w >= 3 THEN AtMost((risk * 11) \div 10, 1500)
  ELSE IF l = 0 /\ w = 0 THEN (risk * 95 + 5000) \div 100
  ELSE risk

NewStop(history) ==
  IF Won(history) * 10 < 4 * Len(history) THEN AtLeast((stop * 95) \div 100, 700)
  ELSE IF Won(history) * 10 > 6 * Len(history) THEN AtMost((stop * 105) \div 100, 1300)
  ELSE stop

\* handleTransaction with learnFromTrade: an unknown session is turned away.
Transaction(s, profit) ==
  /\ s \in connected
  /\ reported < MaxTransactions
  /\ reported' = reported + 1
  /\ trades' = Recent(profit)
  /\ wins' = CASE profit > 0 -> wins + 1 [] profit < 0 -> 0 [] OTHER -> wins
  /\ losses' = CASE profit < 0 -> losses + 1 [] profit > 0 -> 0 [] OTHER -> losses
  /\ risk' = NewRisk(wins', losses')
  /\ stop' = NewStop(trades')
  /\ UNCHANGED connected

\* shouldEnableTrading
Paused == losses >= 2 * MaxLosses
-----------------------------------------------------------------------------
Next ==
  \E s \in Session :
    \/ Connect(s)
    \/ Disconnect(s)
    \/ \E profit \in {-1, 0, 1} : Transaction(s, profit)

Spec == Init /\ [][Next]_learnVars
-----------------------------------------------------------------------------
\* By the time a losing streak pauses trading, the risk of every terminal has been
\* taken down for the whole second half of it: from the highest factor, 1.5, at least
\* four reductions by a fifth, whatever sessions the losses came from and whatever
\* deals without profit came between them.
PausedRiskIsLow == Paused => risk <= (1500 * 4096) \div 10000
=============================================================================
