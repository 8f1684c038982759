----------------------------- MODULE MCPlanning -----------------------------
(* Instances of Planning for TLC. *)
EXTENDS Planning

MCLevels == {"test", "suite"}
MCOutcomes == {"ok", "error"}
=============================================================================
