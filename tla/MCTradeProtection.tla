-------------------------- MODULE MCTradeProtection --------------------------
(* Instances of TradeProtection for TLC. *)
EXTENDS TradeProtection, TLC

CONSTANTS c1, c2

\* A plan with risk/reward 1.6: trailing 0.8 and step 0.2 of the stop distance,
\* breakeven at half and trailing from 0.6 of the target distance.
MCPlan == {[stop |-> 5, target |-> 8, breakeven |-> 4, activation |-> 5,
            trailing |-> 4, step |-> 1]}

\* For each direction: the stop, breakeven on the wrong side, the entry,
\* breakeven, the first two trailing steps and (in MCPrice) the target.
MCPrice == {2, 4, 5, 6, 10, 14, 15, 16, 18}
MCPriceSteps == {4, 5, 6, 10, 14, 15, 16}
MCPriceEnds == {5, 10, 14, 18}
MCBoth == {"BUY", "SELL"}

MCSymmetry == Permutations({c1, c2})

=============================================================================
