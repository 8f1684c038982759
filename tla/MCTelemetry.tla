----------------------------- MODULE MCTelemetry -----------------------------
(* Instances of Telemetry for TLC. *)
EXTENDS Telemetry, TLC

CONSTANTS k1, k2

MCKeys == {k1, k2}
MCValues == {1, 2}

Symmetry == Permutations(MCKeys)
=============================================================================
