------------------------------ MODULE PlanRun ------------------------------
(***************************************************************************)
(* The plan artifacts under .testoptimization/ and the commands that write *)
(* and read them: `ddtest plan' (planner.Plan), `ddtest run' in one        *)
(* working directory (runner.Run, sequential or parallel), and             *)
(* `ddtest run --ci-node N' on the CI nodes that share the artifacts.      *)
(*                                                                         *)
(* Commands on one working directory follow each other; only the CI nodes  *)
(* run at the same time.  A command can die, or fail to write a file,      *)
(* between any two writes and in the middle of one.  Between two commands  *)
(* the code under test changes, so each planning finds another set of      *)
(* runnable files and another useful number of runners.                    *)
(*                                                                         *)
(* The content of a list file is a set of files: order does not matter to  *)
(* the properties here, and a truncated list reads as an empty one.        *)
(***************************************************************************)
EXTENDS Distribution, SequencesExt

CONSTANTS
  Weight,         \* file -> estimated weight
  MaxRunners,     \* the largest useful number of runners
  CINodeWorkers,  \* --ci-node-workers
  Setups,         \* subset of {"local", "ci"}: who runs the tests
  MaxPlans,       \* bound on the number of plannings
  MaxFaults,      \* bound on crashes and failed writes
  MaxReadErrors,  \* bound on unreadable split files
  Absent, Empty   \* model values: no such file, a file that does not parse

ASSUME WeightAssumption == Weight \in [Files -> Nat \ {0}]
ASSUME BoundsAssumption ==
  /\ MaxRunners \in Nat \ {0} /\ CINodeWorkers \in Int
  /\ MaxPlans \in Nat /\ MaxFaults \in Nat /\ MaxReadErrors \in Nat
ASSUME MarksAssumption ==
  \A mark \in {Absent, Empty} : mark \notin Nat /\ \A S \in SUBSET Files : mark # S
ASSUME SetupsAssumption == Setups \subseteq {"local", "ci"}

VARIABLES
  setup,       \* "local": one working directory; "ci": a plan job and nodes
  disk,        \* the artifacts under .testoptimization/
  matrix,      \* number of CI nodes announced to the CI provider, 0 if none
  planner,     \* the planning that is under way, or the last one
  run,         \* one `ddtest run' per setting of --ci-node
  faults,      \* crashes and failed writes so far
  readErrors,  \* unreadable split files so far
  plans,       \* plannings so far
  executed     \* history: how many batches got each file since the last plan

vars == <<setup, disk, matrix, planner, run, faults, readErrors, plans, executed>>

Indices == RunnerIndices(MaxRunners)
Local   == -1                        \* --ci-node is off
Procs   == Indices \cup {Local}
PlanCommand == -2                    \* the `ddtest plan' command itself
Workers == 0 .. (IF CINodeWorkers > MaxRunners THEN CINodeWorkers ELSE MaxRunners) - 1

ArtifactSteps == {"manifest", "cache", "testFiles", "percentage",
                  "parallelRunners", "configure", "splits", "finish"}
RunEnds == {"ok", "failed", "failedRead", "stopped"}

NoBatch == [files |-> {}, state |-> "none"]

TypeOK ==
  /\ setup \in {"local", "ci"}
  /\ disk \in [manifest: {Absent, Empty, 1}, percentage: {Absent, Empty, 1},
               cache: {Absent, Empty} \cup SUBSET Files,
               testFiles: {Absent} \cup SUBSET Files,
               parallelRunners: {Absent, Empty} \cup (1 .. MaxRunners),
               splitsDir: BOOLEAN,
               splits: [Indices -> {Absent} \cup SUBSET Files]]
  /\ matrix \in 0 .. MaxRunners
  /\ planner \in [pc: ArtifactSteps \cup {"never", "prepare", "done", "failed"},
                  owner: Procs \cup {PlanCommand}, files: SUBSET Files,
                  runners: 0 .. MaxRunners, next: Nat]
  /\ run \in [Procs -> [pc: {"idle", "status", "planning", "load", "scan", "wait"}
                             \cup RunEnds,
                        todo: SUBSET Indices,
                        batch: [Workers -> [files: SUBSET Files,
                                            state: {"none", "running", "ok", "failed"}]]]]
  /\ faults \in 0 .. MaxFaults /\ readErrors \in 0 .. MaxReadErrors
  /\ plans \in 0 .. MaxPlans
  /\ executed \in [Files -> Nat]

-----------------------------------------------------------------------------

IdleRun == [pc |-> "idle", todo |-> {}, batch |-> [w \in Workers |-> NoBatch]]

Init ==
  /\ setup \in Setups
  /\ disk = [manifest |-> Absent, percentage |-> Absent, cache |-> Absent,
             testFiles |-> Absent, parallelRunners |-> Absent,
             splitsDir |-> FALSE, splits |-> [i \in Indices |-> Absent]]
  /\ matrix = 0
  /\ planner = [pc |-> "never", owner |-> PlanCommand, files |-> {}, runners |-> 0, next |-> 0]
  /\ run = [p \in Procs |-> IdleRun]
  /\ faults = 0 /\ readErrors = 0 /\ plans = 0
  /\ executed = [f \in Files |-> 0]

Planning  == planner.pc \in ArtifactSteps \cup {"prepare"}
Ended(p)  == run[p].pc \in RunEnds
NoneRuns  == \A p \in Procs : run[p].pc = "idle" \/ Ended(p)

-----------------------------------------------------------------------------
(* Planning *)

BeginPlanning(owner) ==
  /\ plans < MaxPlans
  /\ plans' = plans + 1
  /\ planner' = [pc |-> "prepare", owner |-> owner, files |-> {}, runners |-> 0, next |-> 0]
  /\ matrix' = 0
  /\ executed' = [f \in Files |-> 0]

(* `ddtest plan'. Whatever is on disk from an earlier plan stays there.    *)
StartPlan ==
  /\ ~ Planning /\ NoneRuns
  /\ BeginPlanning(PlanCommand)
  /\ run' = [p \in Procs |-> IdleRun]
  /\ UNCHANGED <<setup, disk, faults, readErrors>>

(* PreparePlanningData and the choice of the number of runners, whose      *)
(* outcome module Planning and module Parallelism are about.               *)
Prepare ==
  /\ planner.pc = "prepare"
  /\ \E S \in SUBSET Files, n \in 1 .. MaxRunners :
       planner' = [planner EXCEPT !.pc = "manifest", !.files = S, !.runners = n]
  /\ UNCHANGED <<setup, disk, matrix, run, faults, readErrors, plans, executed>>

(* StoreTestOptimizationPlanCache: the weights, of which runs use those of *)
(* the files that the plan has.                                            *)
PlanCache == planner.files

(* What the planner writes in each artifact. *)
Written(step) ==
  CASE step = "manifest"        -> [disk EXCEPT !.manifest = 1]
    [] step = "cache"           -> [disk EXCEPT !.cache = PlanCache]
    [] step = "testFiles"       -> [disk EXCEPT !.testFiles = planner.files]
    [] step = "percentage"      -> [disk EXCEPT !.percentage = 1]
    [] step = "parallelRunners" -> [disk EXCEPT !.parallelRunners = planner.runners]

(* os.WriteFile truncates first: a write cut short leaves an empty file.   *)
Truncated(step) ==
  CASE step = "manifest"        -> [disk EXCEPT !.manifest = Empty]
    [] step = "cache"           -> [disk EXCEPT !.cache = Empty]
    [] step = "testFiles"       -> [disk EXCEPT !.testFiles = {}]
    [] step = "percentage"      -> [disk EXCEPT !.percentage = Empty]
    [] step = "parallelRunners" -> [disk EXCEPT !.parallelRunners = Empty]
    [] step = "splits"          -> [disk EXCEPT !.splitsDir = TRUE,
                                                !.splits[planner.next] = {}]
    [] OTHER                    -> disk

(* Mutant: the marker of a plan written before what it announces. *)
MarkerFirst(step) ==
  CASE step = "manifest"        -> "parallelRunners"
    [] step = "parallelRunners" -> "cache"
    [] step = "cache"           -> "testFiles"
    [] step = "testFiles"       -> "percentage"
    [] step = "percentage"      -> "configure"

StepAfter(step) ==
  CASE step = "manifest"        -> "cache"
    [] step = "cache"           -> "testFiles"
    [] step = "testFiles"       -> "percentage"
    [] step = "percentage"      -> "parallelRunners"
    [] step = "parallelRunners" -> "configure"

WriteArtifact ==
  /\ planner.pc \in {"manifest", "cache", "testFiles", "percentage", "parallelRunners"}
  /\ disk' = Written(planner.pc)
  /\ planner' = [planner EXCEPT !.pc = StepAfter(@)]
  /\ UNCHANGED <<setup, matrix, run, faults, readErrors, plans, executed>>

(* Mutant: one CI node too few. *)
ConfigureTooFew ==
  /\ planner.pc = "configure"
  /\ matrix' = planner.runners - 1
  /\ planner' = [planner EXCEPT !.pc = "splits"]
  /\ UNCHANGED <<setup, disk, run, faults, readErrors, plans, executed>>

(* The CI provider is told the number of nodes; a failure is only logged.  *)
Configure ==
  /\ planner.pc = "configure"
  /\ matrix' \in {matrix, planner.runners}
  /\ planner' = [planner EXCEPT !.pc = "splits"]
  /\ UNCHANGED <<setup, disk, run, faults, readErrors, plans, executed>>

(* With one runner the split is a copy of test-files.txt.                  *)
SplitContent(i) ==
  IF planner.runners > 1
  THEN LET w == [f \in planner.files |-> Weight[f]]
       IN  ToSet(Distribute(w, planner.runners)[i])
  ELSE disk.testFiles

WriteSplit ==
  /\ planner.pc = "splits"
  /\ disk' = [disk EXCEPT !.splitsDir = TRUE,
                          !.splits[planner.next] = SplitContent(planner.next)]
  /\ planner' = [planner EXCEPT !.next = @ + 1,
                                !.pc = IF planner.next + 1 = planner.runners
                                       THEN "finish" ELSE @]
  /\ UNCHANGED <<setup, matrix, run, faults, readErrors, plans, executed>>

(* Resume the `ddtest run' that planned on the fly, if one did.            *)
ResumeRun(pc) ==
  run' = IF planner.owner \in Procs
         THEN [run EXCEPT ![planner.owner].pc = pc] ELSE run

FinishPlan ==
  /\ planner.pc = "finish"
  /\ planner' = [planner EXCEPT !.pc = "done"]
  /\ ResumeRun("load")
  /\ UNCHANGED <<setup, disk, matrix, faults, readErrors, plans, executed>>

(* The process dies, or the step in progress returns an error and Plan     *)
(* returns with it: what was written stays.                                *)
Interrupt ==
  /\ Planning
  /\ faults < MaxFaults
  /\ faults' = faults + 1
  /\ \/ disk' \in {disk, Truncated(planner.pc)}
     \/ planner.pc = "splits" /\ disk' = [disk EXCEPT !.splitsDir = TRUE]
  /\ planner' = [planner EXCEPT !.pc = "failed"]
  /\ ResumeRun("failed")
  /\ UNCHANGED <<setup, matrix, readErrors, plans, executed>>

-----------------------------------------------------------------------------
(* Running *)

(* A local run may be started at any time; the jobs of the CI nodes need   *)
(* the plan job, and their number comes from the matrix it announced.      *)
StartRun(p) ==
  /\ ~ Planning /\ run[p].pc = "idle"
  /\ disk.parallelRunners = Absent => plans < MaxPlans
  /\ IF setup = "local" THEN p = Local
     ELSE planner.pc = "done" /\ p \in 0 .. matrix - 1
  /\ run' = [run EXCEPT ![p].pc = "status"]
  /\ UNCHANGED <<setup, disk, matrix, planner, faults, readErrors, plans, executed>>

(* Only the presence of parallel-runners.txt is looked at; a look that     *)
(* fails is part of RunStops.                                              *)
CheckPlanStatus(p) ==
  /\ run[p].pc = "status"
  /\ IF disk.parallelRunners = Absent
     THEN BeginPlanning(p) /\ run' = [run EXCEPT ![p].pc = "planning"]
     ELSE /\ run' = [run EXCEPT ![p].pc = "load"]
          /\ UNCHANGED <<planner, matrix, plans, executed>>
  /\ UNCHANGED <<setup, disk, faults, readErrors>>

(* Start one worker per non-empty group of files; from here the run only   *)
(* waits for them, unless it still has split files to scan.                *)
StartBatches(p, groups, pc) ==
  /\ run' = [run EXCEPT ![p].pc = pc,
                        ![p].batch = [w \in Workers |->
                           IF w \in DOMAIN groups /\ groups[w] # {}
                           THEN [files |-> groups[w], state |-> "running"]
                           ELSE run[p].batch[w]]]
  /\ executed' = [f \in Files |->
       executed[f] + Cardinality({w \in DOMAIN groups : f \in groups[w]})]

FailRun(p, pc) ==
  /\ run' = [run EXCEPT ![p].pc = pc]
  /\ UNCHANGED executed

(* restoreTestOptimizationPlanCache.  A cache is written by a plan, which  *)
(* always stores its table of weights (planner.go:195, 791), so that none  *)
(* is recomputed from the suites (test_optimization_plan_cache.go:92-94).  *)
CacheLoads == disk.cache \notin {Absent, Empty}
CachedWeights == [f \in disk.cache |-> Weight[f]]

(* readParallelRunnersCount: a file that holds no number is refused.       *)
RunnersCountReads == disk.parallelRunners \notin {Absent, Empty}

(* loadTestBatch: the lines that are not blank, thus no tests in a file     *)
(* that was cut short; an error when there is no file.                     *)
Loads(content) == content # Absent

(* A node splits its own files between its workers, with cached weights.   *)
NodeGroups(S) ==
  LET result == Distribute(WeightsForFiles(CachedWeights, S), CINodeWorkers)
  IN  IF CINodeWorkers <= 1 THEN [w \in {0} |-> S]
      ELSE [w \in DOMAIN result |-> ToSet(result[w])]

RunCINode(p) ==
  IF Loads(disk.splits[p])
  THEN StartBatches(p, NodeGroups(disk.splits[p]), "wait")
  ELSE FailRun(p, "failed")

(* All entries of tests-split/, whoever wrote them. *)
SplitEntries == {i \in Indices : disk.splits[i] # Absent}

RunParallel(p) ==
  /\ run' = [run EXCEPT ![p].pc = IF disk.splitsDir THEN "scan" ELSE "failed",
                        ![p].todo = SplitEntries]
  /\ UNCHANGED executed

RunSequential(p) ==
  IF Loads(disk.testFiles)
  THEN StartBatches(p, [w \in {0} |-> disk.testFiles], "wait")
  ELSE FailRun(p, "failed")

(* LoadPlan, readParallelRunnersCount and the choice of the mode; between  *)
(* the two, the platform or its framework may not be detected: RunStops.   *)
LoadPlan(p) ==
  /\ run[p].pc = "load"
  /\ IF ~ CacheLoads \/ ~ RunnersCountReads
     THEN FailRun(p, "failed")
     ELSE IF p >= 0                     THEN RunCINode(p)
     ELSE IF disk.parallelRunners > 1   THEN RunParallel(p)
     ELSE RunSequential(p)
  /\ UNCHANGED <<setup, disk, matrix, planner, faults, readErrors, plans>>

(* Run returns before it starts anything: parallel-runners.txt cannot be   *)
(* looked at, or the platform or its framework is not detected.            *)
RunStops(p) ==
  /\ run[p].pc \in {"status", "load"}
  /\ FailRun(p, "stopped")
  /\ UNCHANGED <<setup, disk, matrix, planner, faults, readErrors, plans>>

(* One entry of tests-split/: its worker starts before the next is read.   *)
ScanEntry(p) ==
  /\ run[p].pc = "scan"
  /\ run[p].todo # {}
  /\ LET i == Min(run[p].todo)
         files == disk.splits[i]
     IN  /\ run' = [run EXCEPT ![p].todo = @ \ {i},
                               ![p].batch[i] = IF files = {} THEN @
                                 ELSE [files |-> files, state |-> "running"]]
         /\ executed' = [f \in Files |->
              executed[f] + IF f \in files THEN 1 ELSE 0]
  /\ UNCHANGED <<setup, disk, matrix, planner, faults, readErrors, plans>>

(* Mutant: an unreadable split file is skipped. *)
ScanSkips(p) ==
  /\ run[p].pc = "scan"
  /\ run[p].todo # {}
  /\ readErrors < MaxReadErrors
  /\ readErrors' = readErrors + 1
  /\ run' = [run EXCEPT ![p].todo = @ \ {Min(@)}]
  /\ UNCHANGED <<setup, disk, matrix, planner, faults, plans, executed>>

(* A split file cannot be read: runParallel returns at once.               *)
ScanFails(p) ==
  /\ run[p].pc = "scan"
  /\ run[p].todo # {}
  /\ readErrors < MaxReadErrors
  /\ readErrors' = readErrors + 1
  /\ FailRun(p, "failedRead")
  /\ UNCHANGED <<setup, disk, matrix, planner, faults, plans>>

ScanEnds(p) ==
  /\ run[p].pc = "scan"
  /\ run[p].todo = {}
  /\ run' = [run EXCEPT ![p].pc = "wait"]
  /\ UNCHANGED <<setup, disk, matrix, planner, faults, readErrors, plans, executed>>

(* A test process exits. *)
BatchEnds(p, w) ==
  /\ run[p].batch[w].state = "running"
  /\ \E verdict \in {"ok", "failed"} :
       run' = [run EXCEPT ![p].batch[w].state = verdict]
  /\ UNCHANGED <<setup, disk, matrix, planner, faults, readErrors, plans, executed>>

(* Mutant: the first failing worker ends the run. *)
WaitForFirstFailure(p) ==
  /\ run[p].pc = "wait"
  /\ \/ \A w \in Workers : run[p].batch[w].state # "running"
     \/ \E w \in Workers : run[p].batch[w].state = "failed"
  /\ run' = [run EXCEPT ![p].pc =
               IF \E w \in Workers : run[p].batch[w].state = "failed"
               THEN "failed" ELSE "ok"]
  /\ UNCHANGED <<setup, disk, matrix, planner, faults, readErrors, plans, executed>>

(* g.Wait: every worker has returned, one error fails the run.             *)
Wait(p) ==
  /\ run[p].pc = "wait"
  /\ \A w \in Workers : run[p].batch[w].state # "running"
  /\ run' = [run EXCEPT ![p].pc =
               IF \E w \in Workers : run[p].batch[w].state = "failed"
               THEN "failed" ELSE "ok"]
  /\ UNCHANGED <<setup, disk, matrix, planner, faults, readErrors, plans, executed>>

PlannerStep == Prepare \/ WriteArtifact \/ Configure \/ WriteSplit \/ FinishPlan

RunStep(p) ==
  \/ CheckPlanStatus(p) \/ LoadPlan(p)
  \/ ScanEntry(p) \/ ScanEnds(p) \/ Wait(p)

Next ==
  \/ StartPlan \/ PlannerStep \/ Interrupt
  \/ \E p \in Procs : StartRun(p) \/ RunStep(p) \/ ScanFails(p) \/ RunStops(p)
  \/ \E p \in Procs, w \in Workers : BatchEnds(p, w)

Spec == Init /\ [][Next]_vars

-----------------------------------------------------------------------------
(* Properties *)

ExecutedExactly ==
  \A f \in Files : executed[f] = IF f \in planner.files THEN 1 ELSE 0

PlanDone == planner.pc = "done"

(* When every CI node announced to the CI provider succeeds, the nodes     *)
(* have run each runnable file of the plan exactly once between them, and  *)
(* nothing else, whatever earlier plans and interrupted ones left on disk. *)
CINodesRunThePlan ==
  setup = "ci" /\ PlanDone /\ matrix > 0
    /\ (\A p \in 0 .. matrix - 1 : run[p].pc = "ok")
  => ExecutedExactly

(* parallel-runners.txt, whose presence means that there is a plan, comes  *)
(* after test-files.txt and the cache: if the first plan of a directory is *)
(* interrupted at any point, a later sequential run that succeeds has      *)
(* still run exactly the files of that plan.                               *)
SequentialSurvivesCrash ==
  plans = 1 /\ planner.pc = "failed" /\ run[Local].pc = "ok"
    /\ disk.parallelRunners = 1
  => ExecutedExactly

(* A run reports its result only when all of its workers have returned,    *)
(* one failing worker stops no other, and it succeeds only if they all do. *)
(* The exception is a split file that could not be read.                   *)
WaitsForAllWorkers ==
  \A p \in Procs, w \in Workers :
    /\ run[p].pc \in {"ok", "failed"} => run[p].batch[w].state # "running"
    /\ run[p].pc = "ok" => run[p].batch[w].state # "failed"

(* The first plan of a directory and the runs that use it, taken together, *)
(* take the steps of module Execution as long as nothing crashes and no    *)
(* write fails.                                                            *)
Verdict ==
  LET used == IF setup = "local" THEN {Local} ELSE 0 .. matrix - 1
      failing == \E p \in used : run[p].pc \in {"failed", "failedRead", "stopped"}
      succeeding == used # {} /\ \A p \in used : run[p].pc = "ok"
  IN  CASE ~ PlanDone              -> "planning"
        [] PlanDone /\ failing     -> "failed"
        [] PlanDone /\ succeeding  -> "ok"
        [] OTHER                   -> "executing"

Promise == INSTANCE Execution WITH
  planned  <- IF PlanDone THEN planner.files ELSE {},
  executed <- executed,
  verdict  <- Verdict

KeepsPromise ==
  /\ Promise!Init
  /\ [][faults' = 0 /\ plans' <= 1 => [Promise!Next]_(Promise!vars)]_vars
=============================================================================
