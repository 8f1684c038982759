---------------------------- MODULE MCPlanSizing ----------------------------
(* Instances of PlanSizing for TLC: weights that the default replaces and  *)
(* above it, negative and crossed bounds, targets nobody meets. Five files *)
(* are the fewest at which the split misses the optimum: 3, 3, 2, 2, 2.    *)
EXTENDS PlanSizing

MCFiles == 1 .. 5
MCCachedWeights == {0, 3}
MCBounds == {-1, 2, 3}
MCOverheads == {-1, 2}
MCTargets == {0, 5}
MCRequestedRunners == {0, 2, 3}
=============================================================================
