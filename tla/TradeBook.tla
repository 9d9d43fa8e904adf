------------------------------ MODULE TradeBook ------------------------------
(***************************************************************************)
(* What the execution engine promises about each trade id, whatever the    *)
(* broker does and however its callers interleave.  An id is opened at     *)
(* most once; a caller of closeTrade must claim it while it is open, and   *)
(* only a claim settles it.  The book does not promise that a claim is     *)
(* exclusive, nor that a trade whose opening failed is not settled by a    *)
(* claim made before: the history may then hold it (again).                *)
(***************************************************************************)
CONSTANTS Trade, Closer, NoTrade

VARIABLES
  state,   \* of each trade: "new", "open", "cancelled" or "closed"
  claim    \* the trade each closer has claimed, or NoTrade

vars == <<state, claim>>

Init ==
  /\ state = [t \in Trade |-> "new"]
  /\ claim = [c \in Closer |-> NoTrade]

Open(t) ==
  /\ state[t] = "new"
  /\ state' = [state EXCEPT ![t] = "open"]
  /\ UNCHANGED claim

\* The opening is refused, before the trade was open or after.
Cancel(t) ==
  /\ state[t] \in {"new", "open"}
  /\ state' = [state EXCEPT ![t] = "cancelled"]
  /\ UNCHANGED claim

Claim(c, t) ==
  /\ claim[c] = NoTrade
  /\ state[t] = "open"
  /\ claim' = [claim EXCEPT ![c] = t]
  /\ UNCHANGED state

Settle(c) ==
  /\ claim[c] # NoTrade
  /\ state' = [state EXCEPT ![claim[c]] = "closed"]
  /\ claim' = [claim EXCEPT ![c] = NoTrade]

Next ==
  \/ \E t \in Trade : Open(t) \/ Cancel(t)
  \/ \E c \in Closer : Settle(c) \/ \E t \in Trade : Claim(c, t)

Spec == Init /\ [][Next]_vars
=============================================================================
