----------------------------- MODULE PlanSizing -----------------------------
(***************************************************************************)
(* The size of a plan and its split (planner.Plan): the weights of the     *)
(* runnable files, the selection of the runner count (Parallelism), and    *)
(* the split of the same files between that many runners (SplitBuilder),   *)
(* or a copy of their list for a single one.                               *)
(* The selection is reported, and given to the CI provider, before the     *)
(* split is made, from a distribution that is made anew.                   *)
(***************************************************************************)
EXTENDS SplitBuilder

CONSTANTS
  Bounds,     \* values of --min-parallelism and --max-parallelism
  Overheads,  \* values of --ci-job-overhead
  Targets     \* values of --target-time

ASSUME SettingsAssumption ==
  Bounds \subseteq Int /\ Overheads \subseteq Int /\ Targets \subseteq Int

VARIABLES
  min, max, overhead, target, candidates, best, next, selected,  \* Parallelism
  splitting   \* CreateTestSplits has been called

Sizing == INSTANCE Parallelism WITH Weights <- Nat \ {0}

selection == <<min, max, overhead, target, candidates, best, next, selected>>
builder == <<runners, load, result, pending>>
sizingVars == <<weight, selection, builder, splitting>>

NewBuilder(n) ==
  /\ runners' = NormalizedRunners(n)
  /\ load' = EmptyBuilder(runners').load
  /\ result' = EmptyBuilder(runners').result
  /\ pending' = Runnable

SizingInit ==
  /\ ReadWeights /\ Sizing!Begin
  /\ runners = 1
  /\ load = EmptyBuilder(1).load /\ result = EmptyBuilder(1).result
  /\ pending = Runnable
  /\ splitting = FALSE

SelectCount == Sizing!Next /\ UNCHANGED <<builder, splitting>>

(* Mutant: the split is made for the minimum the user asked for.           *)
CreateTestSplitsForMinimum ==
  /\ selected > 0 /\ ~splitting
  /\ NewBuilder(IF min < selected THEN min ELSE selected)
  /\ splitting' = TRUE
  /\ UNCHANGED <<weight, selection>>

(* test-files.txt (writeTestFilesArtifact): the runnable files in the      *)
(* order of their paths.                                                   *)
ListsTestFiles(list) ==
  /\ \A f \in Runnable : \E i \in 1 .. Len(list) : list[i] = f
  /\ \A i, j \in 1 .. Len(list) : i < j => list[i] < list[j]

(* A single runner gets the whole list, without a builder; load is here    *)
(* the time of all the files, which nothing computes.                      *)
CopyTestFiles ==
  /\ runners' = 1
  /\ load' = [r \in {0} |-> MapThenSumSet(LAMBDA f : weight[f], Runnable)]
  /\ \E list \in [1 .. Cardinality(Runnable) -> Runnable] :
       ListsTestFiles(list) /\ result' = [r \in {0} |-> list]
  /\ pending' = {}

CreateTestSplits ==
  /\ selected > 0 /\ ~splitting
  /\ IF selected > 1 THEN NewBuilder(selected) ELSE CopyTestFiles
  /\ splitting' = TRUE
  /\ UNCHANGED <<weight, selection>>

SplitNext == splitting /\ Next /\ UNCHANGED <<selection, splitting>>

SizingNext == SelectCount \/ CreateTestSplits \/ SplitNext

SizingSpec == SizingInit /\ [][SizingNext]_sizingVars

-----------------------------------------------------------------------------
(* Properties: those of SplitBuilder, and                                  *)

(* The runner count is the best of all the counts between the bounds, as   *)
(* docs/running.md defines it.                                             *)
SelectsWhatIsDocumented == ~splitting => Sizing!SelectsWhatIsDocumented

(* The split that is written has the count, the wall time and the          *)
(* imbalance that the selection promised and the report shows.             *)
SplitIsAsSelected ==
  splitting /\ pending = {} =>
    /\ Sizing!Score(load) = Sizing!Choice
    /\ runners = selected
=============================================================================
