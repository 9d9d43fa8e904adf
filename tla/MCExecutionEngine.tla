------------------------- MODULE MCExecutionEngine -------------------------
(* Small instances of ExecutionEngine for TLC. *)
EXTENDS ExecutionEngine, TLC

CONSTANTS t1, t2, c1, c2, p1, p2

MCTrade == {t1, t2}
MCCloser1 == {c1}
MCCloser2 == {c1, c2}
MCPair == {p1, p2}

\* No action depends on which trade, closer or pair it handles.
Symmetry == Permutations(MCTrade) \cup Permutations(MCCloser2) \cup Permutations(MCPair)
=============================================================================
