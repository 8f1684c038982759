---------------------------- MODULE SplitBuilder ----------------------------
(***************************************************************************)
(* The loop of testSplitBuilder.distributeSortedFiles                      *)
(* (internal/planner/distribution.go), one step per file.  It runs when    *)
(* the planner splits the runnable files between runners and when a CI     *)
(* node splits its own files between its workers.                          *)
(***************************************************************************)
EXTENDS Distribution
LOCAL INSTANCE SequencesExt

CONSTANTS
  CachedWeights,    \* what the plan cache can hold as the weight of a file
  RequestedRunners  \* the runner counts a caller can ask for

ASSUME CachedWeightsAssumption == CachedWeights \subseteq Int
ASSUME RequestedRunnersAssumption == RequestedRunners \subseteq Int

VARIABLES
  weight,   \* file -> weight it is distributed with
  runners,  \* number of runners of the builder
  load,     \* runner -> sum of the weights given to it: the heap
  result,   \* runner -> the files given to it, in order
  pending   \* files of the sorted list that the loop has not reached

vars == <<weight, runners, load, result, pending>>

Runners == RunnerIndices(runners)
Runnable == DOMAIN weight

TypeOK ==
  /\ Runnable \subseteq Files /\ weight \in [Runnable -> Nat \ {0}]
  /\ runners \in Nat \ {0}
  /\ load \in [Runners -> Nat]
  /\ result \in [Runners -> Seq(Runnable)]
  /\ pending \subseteq Runnable

-----------------------------------------------------------------------------

(* The files of a list, with what the plan cache holds for some of them.   *)
ReadWeights ==
  \E S \in SUBSET Files : \E cached \in SUBSET S :
    \E cache \in [cached -> CachedWeights] : weight = WeightsForFiles(cache, S)

Init ==
  /\ ReadWeights
  /\ \E n \in RequestedRunners : runners = NormalizedRunners(n)
  /\ load = EmptyBuilder(runners).load
  /\ result = EmptyBuilder(runners).result
  /\ pending = Runnable

(* The loop body, for the next file of the sorted list. *)
AddFile(f, r) ==
  /\ f \in pending
  /\ \A g \in pending \ {f} : Precedes(weight, f, g)
  /\ IsLightest(load, r)
  /\ LET b == GiveTo([load |-> load, result |-> result], r, f, weight[f])
     IN  load' = b.load /\ result' = b.result
  /\ pending' = pending \ {f}
  /\ UNCHANGED <<weight, runners>>

Next == \E f \in Runnable, r \in Runners : AddFile(f, r)

Spec == Init /\ [][Next]_vars

-----------------------------------------------------------------------------
(* Properties *)

(* No file is lost or given twice: a file the loop has passed is in exactly *)
(* one place of one runner's list, one it has not passed is nowhere.       *)
ExactlyOnce ==
  \A f \in Runnable :
    /\ f \notin pending =>
         \E r \in Runners : \E i \in 1 .. Len(result[r]) : result[r][i] = f
    /\ f \in pending =>
         \A r \in Runners : \A i \in 1 .. Len(result[r]) : result[r][i] # f
    /\ \A r, s \in Runners :
         \A i \in 1 .. Len(result[r]), j \in 1 .. Len(result[s]) :
           result[r][i] = f /\ result[s][j] = f => r = s /\ i = j

LastOf(r) == result[r][Len(result[r])]

(* List scheduling: without the last file it was given, a runner would be  *)
(* no busier than any other one.                                           *)
GreedyBalance ==
  \A r, s \in Runners :
    result[r] # <<>> => load[r] - weight[LastOf(r)] <= load[s]

(* No runner stays idle while another has two files to run.                *)
NoIdleRunner ==
  \A r, s \in Runners : Len(result[r]) >= 2 => result[s] # <<>>

(* Sorting by decreasing weight is what makes the schedule good: the       *)
(* slowest runner of a finished split needs at most 4/3 - 1/(3n) of the    *)
(* time of the best split there is.  Between two runners or more it is the *)
(* one that Build of module Distribution computes for the other modules.   *)
OptimalWallTime ==
  LET LoadUnder(a, r) ==
        MapThenSumSet(LAMBDA f : weight[f], {f \in Runnable : a[f] = r})
      WallTime(a) == Max({LoadUnder(a, r) : r \in Runners})
  IN  Min({WallTime(a) : a \in [Runnable -> Runners]})

NearOptimal ==
  pending = {} =>
    /\ runners > 1 => Build(weight, runners) = [load |-> load, result |-> result]
    /\ 3 * runners * Score(load).wallTime <= (4 * runners - 1) * OptimalWallTime
=============================================================================
