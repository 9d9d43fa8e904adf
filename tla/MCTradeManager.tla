--------------------------- MODULE MCTradeManager ---------------------------
(* Small instances of TradeManager for TLC. *)
EXTENDS TradeManager, TLC

CONSTANTS b1, b2, p1, p2, t1, t2, s1, f1, f2

MCBroker1 == {b1}
MCBroker2 == {b1, b2}
MCPair1 == {p1}
MCPair2 == {p1, p2}
MCTrade1 == {t1}
MCTrade2 == {t1, t2}
MCScan1 == {s1}
MCFlush1 == {f1}
MCFlush2 == {f1, f2}

Symmetry ==
  Permutations(MCBroker2) \cup Permutations(MCPair2) \cup Permutations(MCTrade2)
  \cup Permutations(MCFlush2)
=============================================================================
