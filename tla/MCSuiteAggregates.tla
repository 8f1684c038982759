-------------------------- MODULE MCSuiteAggregates --------------------------
(* Instances of SuiteAggregates for TLC.  The medians: no data, less than a *)
(* millisecond, and several; the latter divide by up to three tests.        *)
EXTENDS SuiteAggregates, TLC

CONSTANTS s1, s2, f1, f2, none

MCSuites == {s1, s2}
MCFiles == {f1, f2}
MCModes == {"full", "fast"}
MCMedians == {0, 6, 60}

Symmetry == Permutations(MCSuites) \cup Permutations(MCFiles)
=============================================================================
