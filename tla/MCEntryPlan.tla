----------------------------- MODULE MCEntryPlan -----------------------------
(* Instances of EntryPlan for TLC. *)
EXTENDS EntryPlan

\* A score below the lower clamp, a missing one, which has the same key, and two
\* about the upper clamp, which the cache key rounds to 140; with the regimes they
\* reach both sides of the upper clamp of the stop multiple.
MCScores == {0, NoScore, 1396, 1404}
MCRegimes == {"calm", "normal", "volatile", "extreme"}

\* Three prices between ticks, as the middle of bid and ask is: the cache key rounds
\* the last two to the same tick, and the first is a tick away from the last.
MCPrices == {1000 * One + 400000, 1000 * One + 600000, 1001 * One + 400000}
MCPriceTick == {1000 * One + 400000}
=============================================================================
