---------------------------- MODULE Distribution ----------------------------
(***************************************************************************)
(* Weighted list scheduling of test files over parallel runners            *)
(* (internal/planner/distribution.go), as operators.  A test file is the   *)
(* rank of its path in byte order, so that comparing paths is comparing    *)
(* numbers.  A weight is the estimated duration of a file in milliseconds. *)
(***************************************************************************)
EXTENDS Integers, Sequences, FiniteSets, FiniteSetsExt

CONSTANTS
  Files,         \* the test files that can be discovered
  DefaultWeight  \* constants.DefaultTestFileWeight

ASSUME FilesAssumption == Files \subseteq Nat /\ IsFiniteSet(Files)
ASSUME DefaultWeightAssumption == DefaultWeight \in Nat \ {0}

-----------------------------------------------------------------------------

(* Mutants: weights without a floor, an order without weights, a file that *)
(* replaces those before it.                                               *)
WeightsWithoutFloor(cache, S) ==
  [f \in S |-> IF f \in DOMAIN cache THEN cache[f] ELSE DefaultWeight]
PathOrderOnly(w, f, g) == f < g
GiveToReplacing(builder, r, f, weight) ==
  [load   |-> [builder.load EXCEPT ![r] = @ + weight],
   result |-> [builder.result EXCEPT ![r] = <<f>>]]

-----------------------------------------------------------------------------

(* The weight each file of a list is distributed with: what the plan cache *)
(* holds for it, or the default when the cache has nothing usable.         *)
WeightsForFiles(cache, S) ==
  [f \in S |-> IF f \in DOMAIN cache /\ cache[f] > 0
               THEN cache[f] ELSE DefaultWeight]

(* A split builder always has at least one runner. *)
NormalizedRunners(n) == IF n <= 0 THEN 1 ELSE n

RunnerIndices(n) == 0 .. n - 1

(* Heavier files first; files of equal weight in path order. *)
Precedes(w, f, g) == w[f] > w[g] \/ (w[f] = w[g] /\ f < g)

(* The last file of S in this order, which is the order of the sorted list.*)
LastFile(w, S) == CHOOSE f \in S : \A g \in S \ {f} : Precedes(w, g, f)

(* The heap pops the least loaded runner, the lowest index among equals. *)
IsLightest(load, r) ==
  \A s \in DOMAIN load :
    load[r] < load[s] \/ (load[r] = load[s] /\ r <= s)

(* A builder is the load of each runner and the files given to it so far. *)
EmptyBuilder(n) ==
  [load   |-> [r \in RunnerIndices(n) |-> 0],
   result |-> [r \in RunnerIndices(n) |-> <<>>]]

GiveTo(builder, r, f, weight) ==
  [load   |-> [builder.load EXCEPT ![r] = @ + weight],
   result |-> [builder.result EXCEPT ![r] = Append(@, f)]]

(* The whole loop: built[S] is the builder when the loop has passed the     *)
(* files S of the sorted list; the lightest runner took the last of them.  *)
Build(w, n) ==
  LET built[S \in SUBSET DOMAIN w] ==
        IF S = {} THEN EmptyBuilder(NormalizedRunners(n))
        ELSE LET f == LastFile(w, S)
                 b == built[S \ {f}]
             IN  GiveTo(b, CHOOSE r \in DOMAIN b.load : IsLightest(b.load, r), f, w[f])
  IN  built[DOMAIN w]

Distribute(w, n) == Build(w, n).result

(* What the selection of the runner count compares. *)
Score(load) ==
  LET loads == {load[r] : r \in DOMAIN load}
  IN  [parallelRunners |-> Cardinality(DOMAIN load),
       wallTime        |-> Max(loads),
       imbalance       |-> Max(loads) - Min(loads),
       totalRuntime    |-> MapThenSumSet(LAMBDA r : load[r], DOMAIN load)]
=============================================================================
