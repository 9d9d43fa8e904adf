--------------------------- MODULE MCBrokerRouter ---------------------------
(* Small instances of BrokerRouter for TLC. *)
EXTENDS BrokerRouter, TLC

CONSTANTS r1, r2, r3, k1, b1

MCRequest == {r1, r2, r3}
MCKey == {k1}
MCBroker == {b1}
MCKinds == AllKinds

\* No action depends on which request it handles.
Symmetry == Permutations(MCRequest)
=============================================================================
