----------------------------- MODULE MCPlanRun -----------------------------
(* Instances of PlanRun for TLC. *)
EXTENDS PlanRun

MCFiles == 1 .. 3
MCWeight == <<1, 3, 1>>
=============================================================================
