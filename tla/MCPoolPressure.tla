--------------------------- MODULE MCPoolPressure ---------------------------
(* A large pool, whose floor is a twentieth of it, so that the headroom gate  *)
(* speaks before the ratio; a small one, where the ratio does.  The levels are *)
(* both sides of the lines: floor, gate, 15, 25 and 30 percent.               *)
EXTENDS PoolPressure, TLC

CONSTANTS media, root, cron, shell

MCPools == {media, root}
MCCap == media :> 40 @@ root :> 20
MCFloor == media :> 2 @@ root :> 3
MCLevels == media :> {1, 5, 6, 8} @@ root :> {2, 4, 5, 6, 7}
FewLevels == media :> {1, 6} @@ root :> {2, 4}
MCRuns == {cron, shell}
RunSymmetry == Permutations(MCRuns)
=============================================================================
