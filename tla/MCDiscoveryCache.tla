-------------------------- MODULE MCDiscoveryCache --------------------------
(* Instances of DiscoveryCache for TLC. *)
EXTENDS DiscoveryCache, TLC

CONSTANTS v1, v2, c1, c2

MCVersions == {v1, v2}
MCConfigs == {c1, c2}

Symmetry == Permutations(MCVersions) \cup Permutations(MCConfigs)
=============================================================================
