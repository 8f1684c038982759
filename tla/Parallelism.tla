---------------------------- MODULE Parallelism ----------------------------
(***************************************************************************)
(* How many runners a plan uses: calculateParallelRunnerSplitSelection     *)
(* (internal/planner/parallelism.go), one candidate count per step.  Times *)
(* are in milliseconds; a target of zero or less means there is none.      *)
(***************************************************************************)
EXTENDS Distribution

CONSTANTS
  Weights,    \* weights a runnable file can have
  Bounds,     \* values of --min-parallelism and --max-parallelism
  Overheads,  \* values of --ci-job-overhead
  Targets     \* values of --target-time

VARIABLES
  weight,      \* runnable file -> weight
  min, max,    \* --min-parallelism and --max-parallelism as given
  overhead, target,
  candidates,  \* the scores seen so far, in order
  best,        \* [withoutTarget, lowestWall, withinTarget, found]
  next,        \* the next count to score
  selected     \* the runner count of the selection, 0 while there is none

vars == <<weight, min, max, overhead, target, candidates, best, next, selected>>

ScoreFor(n) == Score(Build(weight, n).load)

(* The bounds the loop really uses. *)
Lower ==
  IF max <= 1 THEN 1
  ELSE LET atLeastOne == IF min < 1 THEN 1 ELSE min
       IN  IF max < atLeastOne THEN max ELSE atLeastOne

FilesCount == Cardinality(DOMAIN weight)

(* More runners than files are useless, unless the minimum asks for them.  *)
MaxUseful ==
  IF FilesCount < Lower THEN Lower
  ELSE IF FilesCount < max THEN FilesCount ELSE max

Upper ==
  IF max <= 1 THEN 1 ELSE IF FilesCount = 0 THEN Lower ELSE MaxUseful

-----------------------------------------------------------------------------
(* The orders between candidates *)

OverheadMillis == IF overhead <= 0 THEN 0 ELSE overhead

SelectionScore(s) == s.wallTime + s.parallelRunners * OverheadMillis

(* Lexicographic order of two tuples of numbers of the same length. *)
Below(a, b) ==
  \E i \in DOMAIN a : a[i] < b[i] /\ \A j \in 1 .. i - 1 : a[j] = b[j]

Better(s, t) ==
  Below(<<SelectionScore(s), s.parallelRunners, s.wallTime, s.imbalance>>,
        <<SelectionScore(t), t.parallelRunners, t.wallTime, t.imbalance>>)

BetterWallTime(s, t) ==
  Below(<<s.wallTime, s.parallelRunners, s.imbalance>>,
        <<t.wallTime, t.parallelRunners, t.imbalance>>)

MeetsTarget(s) == target > 0 /\ s.wallTime <= target

-----------------------------------------------------------------------------

(* The first candidate, for files with their weights.                      *)
Begin ==
  /\ min \in Bounds /\ max \in Bounds
  /\ overhead \in Overheads /\ target \in Targets
  /\ \E first \in {ScoreFor(Lower)} :
       /\ candidates = <<first>>
       /\ best = [withoutTarget |-> first, lowestWall |-> first,
                  withinTarget |-> first, found |-> MeetsTarget(first)]
  /\ next = Lower + 1
  /\ selected = 0

Init == (\E S \in SUBSET Files : weight \in [S -> Weights]) /\ Begin

Consider ==
  /\ selected = 0 /\ next <= Upper
  /\ LET s == ScoreFor(next)
         replaces == MeetsTarget(s) /\ (~ best.found \/ Better(s, best.withinTarget))
     IN  /\ candidates' = Append(candidates, s)
         /\ best' = [withoutTarget |-> IF Better(s, best.withoutTarget)
                                       THEN s ELSE best.withoutTarget,
                     lowestWall    |-> IF BetterWallTime(s, best.lowestWall)
                                       THEN s ELSE best.lowestWall,
                     withinTarget  |-> IF replaces THEN s ELSE best.withinTarget,
                     found         |-> best.found \/ replaces]
  /\ next' = next + 1
  /\ UNCHANGED <<weight, min, max, overhead, target, selected>>

(* Mutant: a target nobody meets is dropped. *)
ChoiceWithoutTarget ==
  IF best.found THEN best.withinTarget ELSE best.withoutTarget

(* A single candidate is selected without looking at the target.           *)
Choice ==
  IF best.found THEN best.withinTarget
  ELSE IF target <= 0 THEN best.withoutTarget
  ELSE best.lowestWall

Select ==
  /\ selected = 0 /\ next > Upper
  /\ selected' = Choice.parallelRunners
  /\ UNCHANGED <<weight, min, max, overhead, target, candidates, best, next>>

Next == Consider \/ Select

Spec == Init /\ [][Next]_vars

-----------------------------------------------------------------------------
(* Properties *)

Candidate ==
  [parallelRunners: Nat \ {0}, wallTime: Nat, imbalance: Nat, totalRuntime: Nat]

TypeOK ==
  /\ DOMAIN weight \subseteq Files /\ weight \in [DOMAIN weight -> Weights]
  /\ candidates \in Seq(Candidate)
  /\ best \in [withoutTarget: Candidate, lowestWall: Candidate,
               withinTarget: Candidate, found: BOOLEAN]
  /\ next \in Lower + 1 .. Upper + 1
  /\ selected \in Nat

(* The selection stays between the bounds the user gave, when they make    *)
(* sense, and is a count of at least one whatever they are.                *)
SelectionWithinBounds ==
  selected > 0 =>
    /\ 1 <= min /\ min <= max => min <= selected /\ selected <= max
    /\ selected >= 1
    /\ max >= 1 => selected <= max

(* docs/running.md, Parallelism Selection: the expected slowest worker     *)
(* plus the count times the overhead; ties go to fewer runners.  With a    *)
(* target, the same among the counts that meet it, and the lowest wall     *)
(* time if none does.  All counts between the bounds are compared here,    *)
(* also those the loop leaves out as useless.                              *)
AllCounts == Lower .. (IF max <= 1 THEN 1 ELSE max)

BestOf(S, Cost(_)) ==
  CHOOSE n \in S : \A m \in S : Cost(n) < Cost(m) \/ (Cost(n) = Cost(m) /\ n <= m)

Documented ==
  LET wall(n)   == ScoreFor(n).wallTime
      cost(n)   == wall(n) + n * OverheadMillis
      inTime    == {n \in AllCounts : wall(n) <= target}
  IN  IF target > 0 /\ inTime # {} THEN BestOf(inTime, cost)
      ELSE IF target > 0 THEN BestOf(AllCounts, wall)
      ELSE BestOf(AllCounts, cost)

SelectsWhatIsDocumented == selected > 0 => selected = Documented
=============================================================================
