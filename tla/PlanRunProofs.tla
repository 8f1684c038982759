--------------------------- MODULE PlanRunProofs ---------------------------
(***************************************************************************)
(* Proofs about PlanRun, for any files, weights, numbers of runners and    *)
(* workers, plannings, crashes and read errors: what the CI nodes and a    *)
(* sequential run execute, when a run reports its result, and that the     *)
(* first plan and the runs that use it implement Execution.                *)
(***************************************************************************)
EXTENDS PlanRun, DistributionProofs

(* The files of runner i when the files S are split for n runners.         *)
Share(S, n, i) ==
  IF n > 1 THEN ToSet(Distribute([f \in S |-> Weight[f]], n)[i]) ELSE S

-----------------------------------------------------------------------------
(* The invariants *)

Sharing == planner.pc \in {"finish", "done"}
Shares(i) == Share(planner.files, planner.runners, i)
Counted == planner.pc \in {"configure", "splits", "finish", "done"}
Listed == Counted \/ planner.pc \in {"percentage", "parallelRunners"}
Cached == Listed \/ planner.pc = "testFiles"

(* What the planner has decided so far.                                    *)
PlanInv ==
  /\ planner.pc \in ArtifactSteps \cup {"done"} => planner.runners \in 1 .. MaxRunners
  /\ Planning /\ planner.pc \notin {"splits", "finish"} => planner.next = 0
  /\ planner.pc = "splits" => planner.next \in 0 .. planner.runners - 1
  /\ planner.pc \in {"splits", "finish", "done"} => matrix \in {0, planner.runners}
  /\ faults = 0 => planner.pc # "failed"
  /\ plans = 0 <=> planner.pc = "never"
  /\ planner.pc \notin {"splits", "finish", "done", "failed"} => matrix = 0
  /\ planner.owner \in Procs => setup = "local" /\ planner.owner = Local

(* What it has written so far: the plan, over whatever was there.          *)
DiskInv ==
  /\ Cached => disk.cache = planner.files
  /\ Listed => disk.testFiles = planner.files
  /\ Counted => disk.parallelRunners = planner.runners
  /\ planner.pc = "splits" => \A i \in 0 .. planner.next - 1 : disk.splits[i] = Shares(i)
  /\ Sharing => disk.splitsDir /\ \A i \in 0 .. planner.runners - 1 : disk.splits[i] = Shares(i)

(* The first plan finds an empty directory, and an interrupted one leaves  *)
(* no count without its files.                                             *)
FirstPlanInv ==
  plans <= 1 =>
    /\ ~ Counted /\ planner.pc # "failed" => disk.parallelRunners = Absent
    /\ ~ Sharing /\ planner.pc \notin {"splits", "failed"}
         => \A i \in Indices : disk.splits[i] = Absent
    /\ planner.pc = "splits" => \A i \in Indices : i >= planner.next => disk.splits[i] = Absent
    /\ Sharing => \A i \in Indices : i >= planner.runners => disk.splits[i] = Absent
    /\ planner.pc = "failed" /\ disk.parallelRunners = 1 => disk.testFiles = planner.files

(* Who runs when.                                                          *)
RunInv ==
  /\ \A p \in Procs : run[p].pc = "planning" <=> Planning /\ planner.owner = p
  /\ Planning => \A p \in Procs : run[p].pc \in {"idle", "planning"}
  /\ plans = 0 => \A p \in Procs : run[p].pc \in {"idle", "status", "stopped"}
  /\ setup = "local" => \A p \in Indices : run[p].pc = "idle"
  /\ setup = "ci" => run[Local].pc = "idle"
  /\ setup = "ci" => \A p \in Indices : run[p].pc # "idle" => PlanDone /\ p < matrix
  /\ \A p \in Indices : run[p].pc \notin {"scan", "failedRead"}
  /\ run[Local].pc = "scan" => run[Local].todo \subseteq SplitEntries

(* What the workers of a run are doing, at each point of its code.         *)
Settled(r) ==
  \A w \in Workers :
    /\ r.pc \in {"idle", "status", "planning", "load", "stopped"} => r.batch[w].state = "none"
    /\ r.pc \in {"ok", "failed"} => r.batch[w].state # "running"
    /\ r.pc = "ok" => r.batch[w].state # "failed"

BatchInv == \A p \in Procs : Settled(run[p])

(* Who has executed what: nothing before the first batches of a plan...    *)
Started(p) == run[p].pc \in {"wait", "ok", "failed"}
NothingExecuted == \A f \in Files : executed[f] = 0
Executes(i, f) == i \in 0 .. planner.runners - 1 /\ f \in Shares(i)
FirstLocal == setup = "local" /\ plans <= 1

CleanInv ==
  /\ Planning \/ plans = 0 => NothingExecuted
  /\ FirstLocal /\ run[Local].pc \in {"idle", "status", "load"} => NothingExecuted

(* ... the shares of the CI nodes that have started...                     *)
CIExecInv ==
  setup = "ci" /\ PlanDone =>
    \A f \in Files : executed[f] = IF \E p \in Indices : Executes(p, f) /\ Started(p) THEN 1 ELSE 0

(* ... all of the plan at once by a sequential run...                      *)
SequentialInv ==
  FirstLocal /\ planner.pc \in {"done", "failed"} /\ disk.parallelRunners = 1 =>
    run[Local].pc # "scan" /\ (run[Local].pc \in {"wait", "ok"} => ExecutedExactly)

(* ... and share by share by a parallel one.                               *)
ScanInv ==
  FirstLocal /\ PlanDone =>
    /\ run[Local].pc = "scan" =>
         /\ run[Local].todo \subseteq 0 .. planner.runners - 1
         /\ planner.runners > 1
         /\ \A f \in Files : executed[f] =
              IF \E i \in Indices \ run[Local].todo : Executes(i, f) THEN 1 ELSE 0
    /\ run[Local].pc \in {"wait", "ok"} => ExecutedExactly

ExecInv == CleanInv /\ CIExecInv /\ SequentialInv /\ ScanInv

-----------------------------------------------------------------------------
(* Splits as sets of files.                                                *)

(* A split holds every file of S, and no other, at one runner.             *)
LEMMA SplitPartitions ==
  ASSUME NEW S \in SUBSET Files, NEW w \in [S -> Nat], NEW n \in Nat \ {0}
  PROVE  /\ DOMAIN Distribute(w, n) = 0 .. n - 1
         /\ \A i \in 0 .. n - 1 : ToSet(Distribute(w, n)[i]) \subseteq S
         /\ \A f \in S : \E i \in 0 .. n - 1 : f \in ToSet(Distribute(w, n)[i])
         /\ \A i, j \in 0 .. n - 1 : \A f : f \in ToSet(Distribute(w, n)[i])
              /\ f \in ToSet(Distribute(w, n)[j]) => i = j
<1> DEFINE b == Build(w, n)
<1>1. Holds(b, S, n) /\ Distribute(w, n) = b.result
  <2>1. Weighted(w) /\ DOMAIN w = S
    BY DEF Weighted
  <2>2. NormalizedRunners(n) = n /\ n \in Int
    BY DEF NormalizedRunners
  <2> QED
    BY <2>1, <2>2, BuildHolds DEF Distribute
<1> HIDE DEF b
<1>2. b.result \in [0 .. n - 1 -> Seq(S)]
  BY <1>1 DEF Holds, RunnerIndices
<1>3. ASSUME NEW i \in 0 .. n - 1
      PROVE  \A f : f \in ToSet(b.result[i])
               <=> \E k \in 1 .. Len(b.result[i]) : b.result[i][k] = f
  BY <1>2 DEF ToSet
<1>4. \A i \in 0 .. n - 1 : ToSet(b.result[i]) \subseteq S
  BY <1>2 DEF ToSet
<1>5. \A f \in S : \E i \in 0 .. n - 1 : f \in ToSet(b.result[i])
  BY <1>1, <1>3 DEF Holds, RunnerIndices
<1>6. ASSUME NEW i \in 0 .. n - 1, NEW j \in 0 .. n - 1, NEW f,
             f \in ToSet(b.result[i]), f \in ToSet(b.result[j])
      PROVE  i = j
  <2>1. PICK k \in 1 .. Len(b.result[i]) : b.result[i][k] = f
    BY <1>3, <1>6
  <2>2. PICK l \in 1 .. Len(b.result[j]) : b.result[j][l] = f
    BY <1>3, <1>6
  <2>3. \A x, y \in 0 .. n - 1 :
          \A u \in 1 .. Len(b.result[x]), v \in 1 .. Len(b.result[y]) :
            b.result[x][u] = b.result[y][v] => x = y
    BY <1>1 DEF Holds, RunnerIndices
  <2> QED
    BY <2>1, <2>2, <2>3
<1> QED
  BY <1>1, <1>2, <1>4, <1>5, <1>6

(* Every file of the plan is in the share of one runner.                   *)
LEMMA SharesPartition ==
  ASSUME NEW S \in SUBSET Files, NEW n \in Nat \ {0}
  PROVE  /\ \A i \in 0 .. n - 1 : Share(S, n, i) \in SUBSET S
         /\ \A f \in S : \E i \in 0 .. n - 1 : f \in Share(S, n, i)
         /\ \A i, j \in 0 .. n - 1 : \A f : f \in Share(S, n, i) /\ f \in Share(S, n, j) => i = j
<1> DEFINE w == [f \in S |-> Weight[f]]
<1>1. w \in [S -> Nat]
  BY WeightAssumption
<1> HIDE DEF w
<1>2. CASE n > 1
  <2>1. \A i : Share(S, n, i) = ToSet(Distribute(w, n)[i])
    BY <1>2 DEF Share, w
  <2>2. /\ \A i \in 0 .. n - 1 : ToSet(Distribute(w, n)[i]) \subseteq S
        /\ \A f \in S : \E i \in 0 .. n - 1 : f \in ToSet(Distribute(w, n)[i])
        /\ \A i, j \in 0 .. n - 1 : \A f : f \in ToSet(Distribute(w, n)[i])
             /\ f \in ToSet(Distribute(w, n)[j]) => i = j
    BY <1>1, SplitPartitions
  <2> QED
    BY <2>1, <2>2
<1>3. CASE n = 1
  BY <1>3 DEF Share
<1> QED
  BY <1>2, <1>3

(* A CI node gives each of its files to one of its workers.                *)
LEMMA NodeGroupsPartition ==
  ASSUME disk.cache \in SUBSET Files, NEW S \in SUBSET Files
  PROVE  /\ IsFiniteSet(DOMAIN NodeGroups(S))
         /\ \A w \in DOMAIN NodeGroups(S) : NodeGroups(S)[w] \in SUBSET S
         /\ \A f \in S : \E w \in DOMAIN NodeGroups(S) : f \in NodeGroups(S)[w]
         /\ \A v, w \in DOMAIN NodeGroups(S) : \A f :
              f \in NodeGroups(S)[v] /\ f \in NodeGroups(S)[w] => v = w
<1> DEFINE weights == WeightsForFiles(CachedWeights, S)
<1>1. weights \in [S -> Nat]
  BY WeightAssumption, DefaultWeightAssumption DEF WeightsForFiles, CachedWeights
<1> HIDE DEF weights
<1>2. CASE CINodeWorkers <= 1
  <2>1. NodeGroups(S) = [w \in {0} |-> S]
    BY <1>2 DEF NodeGroups
  <2>2. IsFiniteSet({0})
    BY FS_Singleton
  <2> QED
    BY <2>1, <2>2
<1>3. CASE CINodeWorkers > 1
  <2> DEFINE result == Distribute(weights, CINodeWorkers)
  <2>1. CINodeWorkers \in Nat \ {0}
    BY <1>3, BoundsAssumption
  <2>2. NodeGroups(S) = [w \in DOMAIN result |-> ToSet(result[w])]
    BY <1>3, <2>1 DEF NodeGroups, weights
  <2>3. DOMAIN result = 0 .. CINodeWorkers - 1 /\ IsFiniteSet(0 .. CINodeWorkers - 1)
    <3>1. DOMAIN result = 0 .. CINodeWorkers - 1
      BY <1>1, <2>1, SplitPartitions
    <3> QED
      BY <2>1, <3>1, FS_Interval
  <2>4. /\ \A i \in 0 .. CINodeWorkers - 1 : ToSet(result[i]) \subseteq S
        /\ \A f \in S : \E i \in 0 .. CINodeWorkers - 1 : f \in ToSet(result[i])
        /\ \A i, j \in 0 .. CINodeWorkers - 1 : \A f :
             f \in ToSet(result[i]) /\ f \in ToSet(result[j]) => i = j
    BY <1>1, <2>1, SplitPartitions
  <2> HIDE DEF result
  <2> QED
    BY <2>2, <2>3, <2>4
<1> QED
  BY <1>2, <1>3, BoundsAssumption

(* Groups that partition files hand each of them out once.                 *)
LEMMA GroupsCount ==
  ASSUME NEW G, NEW S, IsFiniteSet(DOMAIN G), \A w \in DOMAIN G : G[w] \in SUBSET S,
         \A f \in S : \E w \in DOMAIN G : f \in G[w],
         \A v, w \in DOMAIN G : \A f : f \in G[v] /\ f \in G[w] => v = w,
         NEW f
  PROVE  Cardinality({w \in DOMAIN G : f \in G[w]}) = IF f \in S THEN 1 ELSE 0
<1>1. CASE f \in S
  <2>1. PICK w \in DOMAIN G : f \in G[w]
    BY <1>1
  <2>2. {v \in DOMAIN G : f \in G[v]} = {w}
    BY <2>1
  <2> QED
    BY <1>1, <2>2, FS_Singleton
<1>2. CASE f \notin S
  <2>1. {v \in DOMAIN G : f \in G[v]} = {}
    BY <1>2
  <2> QED
    BY <1>2, <2>1, FS_EmptySet
<1> QED
  BY <1>1, <1>2

-----------------------------------------------------------------------------
(* What the steps of a run change.                                         *)

RunPcs == {"idle", "status", "planning", "load", "scan", "wait"} \cup RunEnds
BatchStates == {"none", "running", "ok", "failed"}
BatchType == [Workers -> [files: SUBSET Files, state: BatchStates]]
RunType == [pc: RunPcs, todo: SUBSET Indices, batch: BatchType]

LEMMA ProcsAre ==
  /\ Indices = 0 .. MaxRunners - 1 /\ MaxRunners \in Nat \ {0}
  /\ Procs = Indices \cup {-1} /\ Local = -1 /\ PlanCommand \notin Procs
  /\ -1 \notin Indices /\ Indices \subseteq Nat
BY BoundsAssumption DEF Indices, RunnerIndices, Procs, Local, PlanCommand

(* Run p gets to another point of its code, and no other run does.         *)
Moves(p, pc) ==
  /\ run' \in [Procs -> RunType]
  /\ run'[p].pc = pc
  /\ \A q \in Procs \ {p} : run'[q] = run[q]

SameBatch(p) == run'[p].batch = run[p].batch
ElseUnchanged == UNCHANGED <<setup, disk, matrix, planner, faults, plans>>

LEMMA PcMoves ==
  ASSUME run \in [Procs -> RunType], NEW p \in Procs, NEW pc \in RunPcs,
         run' = [run EXCEPT ![p].pc = pc]
  PROVE  Moves(p, pc) /\ SameBatch(p) /\ run'[p].todo = run[p].todo
<1>1. run[p] \in RunType
  OBVIOUS
<1>2. [run[p] EXCEPT !.pc = pc] \in RunType
  BY <1>1 DEF RunType
<1>3. run' = [run EXCEPT ![p] = [run[p] EXCEPT !.pc = pc]]
  OBVIOUS
<1> QED
  BY <1>1, <1>2, <1>3 DEF Moves, SameBatch, RunType

(* Starting batches hands out the files of the groups, each once.          *)
LEMMA BatchesStart ==
  ASSUME TypeOK, NEW p \in Procs, NEW S \in SUBSET Files, NEW G,
         IsFiniteSet(DOMAIN G), \A w \in DOMAIN G : G[w] \in SUBSET S,
         \A f \in S : \E w \in DOMAIN G : f \in G[w],
         \A v, w \in DOMAIN G : \A f : f \in G[v] /\ f \in G[w] => v = w,
         NEW pc \in RunPcs, StartBatches(p, G, pc)
  PROVE  /\ Moves(p, pc)
         /\ executed' \in [Files -> Nat]
         /\ \A f \in Files : executed'[f] = executed[f] + IF f \in S THEN 1 ELSE 0
<1> DEFINE b == [w \in Workers |->
                   IF w \in DOMAIN G /\ G[w] # {}
                   THEN [files |-> G[w], state |-> "running"]
                   ELSE run[p].batch[w]]
<1>1. run \in [Procs -> RunType] /\ executed \in [Files -> Nat] /\ run[p] \in RunType
  BY DEF TypeOK, RunType, BatchType, BatchStates, RunPcs
<1>2. b \in BatchType
  <2>1. run[p].batch \in BatchType
    BY <1>1 DEF RunType
  <2> QED
    BY <2>1 DEF BatchType, BatchStates
<1>3. run' = [run EXCEPT ![p].pc = pc, ![p].batch = b]
  BY DEF StartBatches
<1> HIDE DEF b
<1>4. run' = [run EXCEPT ![p] = [run[p] EXCEPT !.pc = pc, !.batch = b]]
  BY <1>1, <1>3
<1>5. [run[p] EXCEPT !.pc = pc, !.batch = b] \in RunType
  BY <1>1, <1>2 DEF RunType
<1>6. Moves(p, pc)
  BY <1>1, <1>4, <1>5 DEF Moves, RunType
<1>7. \A f \in Files : executed'[f] = executed[f] + IF f \in S THEN 1 ELSE 0
  <2>1. \A f : Cardinality({w \in DOMAIN G : f \in G[w]}) = IF f \in S THEN 1 ELSE 0
    BY GroupsCount
  <2> QED
    BY <2>1 DEF StartBatches
<1>8. executed' \in [Files -> Nat]
  <2>1. executed' = [f \in Files |-> executed'[f]]
    BY DEF StartBatches
  <2> QED
    BY <1>1, <1>7, <2>1
<1> QED
  BY <1>6, <1>7, <1>8

LEMMA StartRunEffect ==
  ASSUME TypeOK, NEW p \in Procs, StartRun(p)
  PROVE  /\ Moves(p, "status") /\ SameBatch(p)
         /\ ElseUnchanged /\ UNCHANGED <<readErrors, executed>>
         /\ run[p].pc = "idle" /\ ~ Planning
         /\ disk.parallelRunners = Absent => plans < MaxPlans
         /\ IF setup = "local" THEN p = Local ELSE PlanDone /\ p \in 0 .. matrix - 1
<1>1. run \in [Procs -> RunType] /\ "status" \in RunPcs
  BY DEF TypeOK, RunType, BatchType, BatchStates, RunPcs
<1> QED
  BY <1>1, PcMoves DEF StartRun, ElseUnchanged, PlanDone

LEMMA WaitEffect ==
  ASSUME TypeOK, NEW p \in Procs, Wait(p)
  PROVE  /\ Moves(p, IF \E w \in Workers : run[p].batch[w].state = "failed"
                     THEN "failed" ELSE "ok")
         /\ SameBatch(p) /\ ElseUnchanged /\ UNCHANGED <<readErrors, executed>>
         /\ run[p].pc = "wait"
         /\ \A w \in Workers : run[p].batch[w].state # "running"
<1>1. run \in [Procs -> RunType] /\ {"ok", "failed"} \subseteq RunPcs
  BY DEF TypeOK, RunType, BatchType, BatchStates, RunPcs, RunEnds
<1>2. CASE \E w \in Workers : run[p].batch[w].state = "failed"
  BY <1>1, <1>2, PcMoves DEF Wait, ElseUnchanged
<1>3. CASE ~ \E w \in Workers : run[p].batch[w].state = "failed"
  BY <1>1, <1>3, PcMoves DEF Wait, ElseUnchanged
<1> QED
  BY <1>2, <1>3

LEMMA ScanEndsEffect ==
  ASSUME TypeOK, NEW p \in Procs, ScanEnds(p)
  PROVE  /\ Moves(p, "wait") /\ SameBatch(p)
         /\ ElseUnchanged /\ UNCHANGED <<readErrors, executed>>
         /\ run[p].pc = "scan" /\ run[p].todo = {}
<1>1. run \in [Procs -> RunType] /\ "wait" \in RunPcs
  BY DEF TypeOK, RunType, BatchType, BatchStates, RunPcs
<1> QED
  BY <1>1, PcMoves DEF ScanEnds, ElseUnchanged

LEMMA ScanFailsEffect ==
  ASSUME TypeOK, NEW p \in Procs, ScanFails(p)
  PROVE  /\ Moves(p, "failedRead") /\ SameBatch(p)
         /\ ElseUnchanged /\ UNCHANGED executed
         /\ run[p].pc = "scan" /\ readErrors' \in 0 .. MaxReadErrors
<1>1. run \in [Procs -> RunType] /\ "failedRead" \in RunPcs
  BY DEF TypeOK, RunType, BatchType, BatchStates, RunPcs, RunEnds
<1>2. readErrors' \in 0 .. MaxReadErrors
  BY BoundsAssumption DEF TypeOK, ScanFails
<1> QED
  BY <1>1, <1>2, PcMoves DEF ScanFails, FailRun, ElseUnchanged

LEMMA RunStopsEffect ==
  ASSUME TypeOK, NEW p \in Procs, RunStops(p)
  PROVE  /\ Moves(p, "stopped") /\ SameBatch(p)
         /\ ElseUnchanged /\ UNCHANGED <<readErrors, executed>>
         /\ run[p].pc \in {"status", "load"}
<1>1. run \in [Procs -> RunType] /\ "stopped" \in RunPcs
  BY DEF TypeOK, RunType, BatchType, BatchStates, RunPcs, RunEnds
<1> QED
  BY <1>1, PcMoves DEF RunStops, FailRun, ElseUnchanged

LEMMA BatchEndsEffect ==
  ASSUME TypeOK, NEW p \in Procs, NEW w \in Workers, BatchEnds(p, w)
  PROVE  /\ Moves(p, run[p].pc) /\ run'[p].todo = run[p].todo
         /\ ElseUnchanged /\ UNCHANGED <<readErrors, executed>>
         /\ run[p].batch[w].state = "running"
<1>1. run \in [Procs -> RunType]
  BY DEF TypeOK, RunType, BatchType, BatchStates, RunPcs
<1>2. PICK verdict \in {"ok", "failed"} : run' = [run EXCEPT ![p].batch[w].state = verdict]
  BY DEF BatchEnds
<1> DEFINE b == [run[p].batch EXCEPT ![w] = [@ EXCEPT !.state = verdict]]
<1>3. run' = [run EXCEPT ![p] = [run[p] EXCEPT !.batch = b]]
  BY <1>1, <1>2
<1>4. run[p] \in RunType /\ run[p].batch \in BatchType
  BY <1>1 DEF RunType
<1>5. b \in BatchType
  BY <1>4 DEF BatchType, BatchStates
<1> HIDE DEF b
<1>6. [run[p] EXCEPT !.batch = b] \in RunType
  BY <1>4, <1>5 DEF RunType
<1>7. Moves(p, run[p].pc) /\ run'[p].todo = run[p].todo
  BY <1>1, <1>3, <1>4, <1>6 DEF Moves, RunType
<1> QED
  BY <1>7 DEF BatchEnds, ElseUnchanged

LEMMA MinIsMember ==
  ASSUME NEW T \in SUBSET Indices, T # {}
  PROVE  Min(T) \in T
<1>1. T \in SUBSET Nat
  BY ProcsAre
<1>2. PICK m \in T : \A k \in T : m <= k
  BY <1>1, LeastNumber
<1> QED
  BY <1>2 DEF Min

LEMMA ScanEntryEffect ==
  ASSUME TypeOK, RunInv, NEW p \in Procs, ScanEntry(p)
  PROVE  /\ p = Local /\ Moves(p, "scan") /\ ElseUnchanged /\ UNCHANGED readErrors
         /\ run[p].pc = "scan" /\ executed' \in [Files -> Nat]
         /\ \E i \in run[p].todo :
              /\ disk.splits[i] \in SUBSET Files
              /\ run'[p].todo = run[p].todo \ {i}
              /\ \A f \in Files : executed'[f] = executed[f] + IF f \in disk.splits[i] THEN 1 ELSE 0
<1> DEFINE i == Min(run[p].todo)
           S == disk.splits[i]
           b == [run[p].batch EXCEPT ![i] = IF S = {} THEN @
                                            ELSE [files |-> S, state |-> "running"]]
<1>1. /\ run \in [Procs -> RunType] /\ run[p] \in RunType /\ executed \in [Files -> Nat]
      /\ run[p].todo \in SUBSET Indices /\ run[p].batch \in BatchType
      /\ disk.splits \in [Indices -> {Absent} \cup SUBSET Files]
  BY DEF TypeOK, RunType, BatchType, BatchStates, RunPcs
<1>2. i \in run[p].todo /\ i \in Indices
  BY <1>1, MinIsMember DEF ScanEntry
<1>3. p = Local /\ run[p].pc = "scan"
  BY ProcsAre DEF ScanEntry, RunInv
<1>4. S \in SUBSET Files
  BY <1>1, <1>2, <1>3 DEF RunInv, SplitEntries
<1>5. /\ run' = [run EXCEPT ![p].todo = @ \ {i},
                            ![p].batch[i] = IF S = {} THEN @
                                            ELSE [files |-> S, state |-> "running"]]
      /\ executed' = [f \in Files |-> executed[f] + IF f \in S THEN 1 ELSE 0]
  BY DEF ScanEntry
<1> HIDE DEF i, S
<1>6. b \in BatchType
  BY <1>1, <1>4 DEF BatchType, BatchStates
<1>7. run' = [run EXCEPT ![p] = [run[p] EXCEPT !.todo = @ \ {i}, !.batch = b]]
  BY <1>1, <1>5
<1> HIDE DEF b
<1>8. [run[p] EXCEPT !.todo = @ \ {i}, !.batch = b] \in RunType
  BY <1>1, <1>6 DEF RunType
<1>9. Moves(p, "scan") /\ run'[p].todo = run[p].todo \ {i}
  BY <1>1, <1>3, <1>7, <1>8 DEF Moves, RunType
<1>10. executed' \in [Files -> Nat]
       /\ \A f \in Files : executed'[f] = executed[f] + IF f \in S THEN 1 ELSE 0
  BY <1>1, <1>5
<1>11. ElseUnchanged /\ UNCHANGED readErrors
  BY DEF ScanEntry, ElseUnchanged
<1> QED
  BY <1>2, <1>3, <1>4, <1>9, <1>10, <1>11 DEF S

(* A run that loads a plan fails, starts its batches or starts to scan.    *)
Fails(p) == Moves(p, "failed") /\ SameBatch(p) /\ UNCHANGED executed

HandsOut(p, S) ==
  /\ S \in SUBSET Files /\ Moves(p, "wait")
  /\ executed' \in [Files -> Nat]
  /\ \A f \in Files : executed'[f] = executed[f] + IF f \in S THEN 1 ELSE 0

BeginsToScan(p) ==
  /\ Moves(p, "scan") /\ SameBatch(p) /\ UNCHANGED executed
  /\ run'[p].todo = SplitEntries

CanLoad == CacheLoads /\ RunnersCountReads

LEMMA LoadPlanEffect ==
  ASSUME TypeOK, NEW p \in Procs, LoadPlan(p)
  PROVE  /\ ElseUnchanged /\ UNCHANGED readErrors /\ run[p].pc = "load"
         /\ \/ ~ CanLoad /\ Fails(p)
            \/ CanLoad /\ p \in Indices /\ ~ Loads(disk.splits[p]) /\ Fails(p)
            \/ CanLoad /\ p \in Indices /\ Loads(disk.splits[p]) /\ HandsOut(p, disk.splits[p])
            \/ /\ CanLoad /\ p = Local /\ disk.parallelRunners > 1
               /\ \/ ~ disk.splitsDir /\ Fails(p)
                  \/ disk.splitsDir /\ BeginsToScan(p)
            \/ CanLoad /\ p = Local /\ ~ (disk.parallelRunners > 1)
               /\ ~ Loads(disk.testFiles) /\ Fails(p)
            \/ CanLoad /\ p = Local /\ ~ (disk.parallelRunners > 1)
               /\ Loads(disk.testFiles) /\ HandsOut(p, disk.testFiles)
<1>1. /\ run \in [Procs -> RunType] /\ run[p] \in RunType
      /\ {"failed", "scan", "wait"} \subseteq RunPcs
      /\ disk.splits \in [Indices -> {Absent} \cup SUBSET Files]
      /\ disk.testFiles \in {Absent} \cup SUBSET Files
      /\ disk.cache \in {Absent, Empty} \cup SUBSET Files
      /\ disk.splitsDir \in BOOLEAN
  BY DEF TypeOK, RunType, BatchType, BatchStates, RunPcs, RunEnds
<1>2. ElseUnchanged /\ UNCHANGED readErrors /\ run[p].pc = "load"
  BY DEF LoadPlan, ElseUnchanged
<1>3. ASSUME FailRun(p, "failed") PROVE Fails(p)
  BY <1>1, <1>3, PcMoves DEF FailRun, Fails
<1>4. CASE ~ CanLoad
  BY <1>2, <1>3, <1>4 DEF LoadPlan, CanLoad
<1>5. CASE CanLoad /\ p >= 0
  <2>1. p \in Indices /\ disk.cache \in SUBSET Files
    BY <1>1, <1>5, ProcsAre DEF CanLoad, CacheLoads
  <2>2. RunCINode(p)
    BY <1>5 DEF LoadPlan, CanLoad
  <2>3. CASE Loads(disk.splits[p])
    <3>1. disk.splits[p] \in SUBSET Files /\ StartBatches(p, NodeGroups(disk.splits[p]), "wait")
      BY <1>1, <2>1, <2>2, <2>3 DEF RunCINode, Loads
    <3>2. HandsOut(p, disk.splits[p])
      BY <1>1, <2>1, <3>1, NodeGroupsPartition, BatchesStart DEF HandsOut
    <3> QED
      BY <1>2, <1>5, <2>1, <2>3, <3>2
  <2>4. CASE ~ Loads(disk.splits[p])
    BY <1>2, <1>3, <1>5, <2>1, <2>2, <2>4 DEF RunCINode
  <2> QED
    BY <2>3, <2>4
<1>6. CASE CanLoad /\ ~ (p >= 0) /\ disk.parallelRunners > 1
  <2>1. p = Local /\ RunParallel(p)
    BY <1>6, ProcsAre DEF LoadPlan, CanLoad
  <2> DEFINE pc == IF disk.splitsDir THEN "scan" ELSE "failed"
  <2>2. run' = [run EXCEPT ![p] = [run[p] EXCEPT !.pc = pc, !.todo = SplitEntries]]
    BY <1>1, <2>1 DEF RunParallel
  <2>3. pc \in RunPcs /\ SplitEntries \in SUBSET Indices
    BY <1>1 DEF SplitEntries
  <2>4. pc = IF disk.splitsDir THEN "scan" ELSE "failed"
    OBVIOUS
  <2> HIDE DEF pc
  <2>5. [run[p] EXCEPT !.pc = pc, !.todo = SplitEntries] \in RunType
    BY <1>1, <2>3 DEF RunType
  <2>6. Moves(p, pc) /\ SameBatch(p) /\ run'[p].todo = SplitEntries
    BY <1>1, <2>2, <2>5 DEF Moves, SameBatch, RunType
  <2>7. executed' = executed
    BY <2>1 DEF RunParallel
  <2>8. CASE disk.splitsDir
    BY <1>2, <1>6, <2>1, <2>4, <2>6, <2>7, <2>8 DEF BeginsToScan
  <2>9. CASE ~ disk.splitsDir
    BY <1>2, <1>6, <2>1, <2>4, <2>6, <2>7, <2>9 DEF Fails
  <2> QED
    BY <2>8, <2>9
<1>7. CASE CanLoad /\ ~ (p >= 0) /\ ~ (disk.parallelRunners > 1)
  <2>1. p = Local /\ RunSequential(p)
    BY <1>7, ProcsAre DEF LoadPlan, CanLoad
  <2>2. CASE Loads(disk.testFiles)
    <3> DEFINE G == [w \in {0} |-> disk.testFiles]
    <3>1. disk.testFiles \in SUBSET Files /\ StartBatches(p, G, "wait")
      BY <1>1, <2>1, <2>2 DEF RunSequential, Loads
    <3>2. DOMAIN G = {0} /\ IsFiniteSet(DOMAIN G) /\ G[0] = disk.testFiles
      BY FS_Singleton
    <3> HIDE DEF G
    <3>3. HandsOut(p, disk.testFiles)
      BY <1>1, <3>1, <3>2, BatchesStart DEF HandsOut
    <3> QED
      BY <1>2, <1>7, <2>1, <2>2, <3>3
  <2>3. CASE ~ Loads(disk.testFiles)
    BY <1>2, <1>3, <1>7, <2>1, <2>3 DEF RunSequential
  <2> QED
    BY <2>2, <2>3
<1> QED
  BY <1>4, <1>5, <1>6, <1>7

-----------------------------------------------------------------------------
(* Planning and running keep the plan on disk.                             *)

LeadInv == TypeOK /\ PlanInv /\ DiskInv /\ FirstPlanInv /\ RunInv

LEMMA InitLead == Init => LeadInv
<1> SUFFICES ASSUME Init PROVE LeadInv
  OBVIOUS
<1>1. TypeOK
  BY ProcsAre, SetupsAssumption, BoundsAssumption DEF Init, TypeOK, IdleRun, NoBatch, RunEnds
<1>2. \A p \in Procs : run[p].pc = "idle"
  BY DEF Init, IdleRun
<1>3. PlanInv /\ DiskInv /\ FirstPlanInv
  BY ProcsAre DEF Init, PlanInv, DiskInv, FirstPlanInv, Planning, ArtifactSteps, Sharing, Counted,
     Listed, Cached
<1>4. RunInv
  BY <1>2, ProcsAre DEF Init, RunInv, Planning, ArtifactSteps
<1> QED
  BY <1>1, <1>3, <1>4 DEF LeadInv

(* A step of one run leaves the plan alone.                                *)
LEMMA RunStepKeeps ==
  ASSUME LeadInv, NEW p \in Procs, NEW pc, Moves(p, pc), ElseUnchanged,
         executed' \in [Files -> Nat], readErrors' \in 0 .. MaxReadErrors,
         \/ pc = run[p].pc /\ run'[p].todo = run[p].todo
         \/ /\ run[p].pc \notin {"idle", "status", "planning", "stopped"}
            /\ pc \notin {"idle", "planning"}
            /\ p \in Indices => pc \notin {"scan", "failedRead"}
            /\ pc = "scan" => run'[p].todo \subseteq SplitEntries
         \/ run[p].pc \in {"status", "load"} /\ pc = "stopped"
  PROVE  LeadInv'
<1>1. /\ setup' = setup /\ disk' = disk /\ matrix' = matrix /\ planner' = planner
      /\ faults' = faults /\ plans' = plans /\ SplitEntries' = SplitEntries
  BY DEF LeadInv, ElseUnchanged, SplitEntries
<1>2. TypeOK'
  BY <1>1 DEF LeadInv, TypeOK, Moves, RunType, RunPcs, BatchType, BatchStates
<1>3. PlanInv' /\ DiskInv' /\ FirstPlanInv'
  BY <1>1 DEF LeadInv, PlanInv, DiskInv, FirstPlanInv, Planning, Sharing, Counted, Listed, Cached,
     Shares
<1>4. RunInv'
  <2>1. /\ run'[p].pc = pc /\ \A q \in Procs : q # p => run'[q] = run[q]
        /\ p \in Procs /\ Local \in Procs /\ Indices \subseteq Procs
    BY ProcsAre DEF Moves
  <2>2. CASE pc = run[p].pc /\ run'[p].todo = run[p].todo
    <3>1. \A q \in Procs : run'[q].pc = run[q].pc /\ run'[q].todo = run[q].todo
      BY <2>1, <2>2
    <3> QED
      BY <1>1, <2>1, <3>1 DEF LeadInv, RunInv, Planning, PlanDone
  <2>3. CASE /\ run[p].pc \notin {"idle", "status", "planning", "stopped"}
             /\ pc \notin {"idle", "planning"}
             /\ p \in Indices => pc \notin {"scan", "failedRead"}
             /\ pc = "scan" => run'[p].todo \subseteq SplitEntries
    <3>1. ~ Planning /\ plans # 0
      BY <2>3 DEF LeadInv, RunInv
    <3>2. (setup = "local" => p \notin Indices) /\ (setup = "ci" => p # Local)
          /\ (setup = "ci" /\ p \in Indices => PlanDone /\ p < matrix)
      BY <2>3 DEF LeadInv, RunInv
    <3> QED
      BY <1>1, <2>1, <2>3, <3>1, <3>2 DEF LeadInv, RunInv, Planning, PlanDone
  <2>4. CASE run[p].pc \in {"status", "load"} /\ pc = "stopped"
    <3>1. ~ Planning
      BY <2>4 DEF LeadInv, RunInv
    <3>2. (setup = "local" => p \notin Indices) /\ (setup = "ci" => p # Local)
          /\ (setup = "ci" /\ p \in Indices => PlanDone /\ p < matrix)
      BY <2>4 DEF LeadInv, RunInv
    <3> QED
      BY <1>1, <2>1, <2>4, <3>1, <3>2 DEF LeadInv, RunInv, Planning, PlanDone
  <2> QED
    BY <2>2, <2>3, <2>4
<1> QED
  BY <1>2, <1>3, <1>4 DEF LeadInv

LEMMA StartRunLead ==
  ASSUME LeadInv, NEW p \in Procs, StartRun(p)
  PROVE  LeadInv'
<1>1. /\ Moves(p, "status") /\ ElseUnchanged /\ UNCHANGED <<readErrors, executed>>
      /\ run[p].pc = "idle" /\ ~ Planning
      /\ IF setup = "local" THEN p = Local ELSE PlanDone /\ p \in 0 .. matrix - 1
  BY StartRunEffect DEF LeadInv
<1>2. /\ setup' = setup /\ disk' = disk /\ matrix' = matrix /\ planner' = planner
      /\ faults' = faults /\ plans' = plans
      /\ run'[p].pc = "status" /\ \A q \in Procs : q # p => run'[q] = run[q]
      /\ Local \in Procs /\ Indices \subseteq Procs
  BY <1>1, ProcsAre DEF ElseUnchanged, Moves
<1>3. TypeOK'
  BY <1>1, <1>2 DEF LeadInv, TypeOK, Moves, RunType, RunPcs, BatchType, BatchStates
<1>4. PlanInv' /\ DiskInv' /\ FirstPlanInv'
  BY <1>2 DEF LeadInv, PlanInv, DiskInv, FirstPlanInv, Planning, Sharing, Counted, Listed, Cached,
     Shares
<1>5. setup = "local" \/ setup = "ci"
  BY DEF LeadInv, TypeOK
<1>6. matrix \in Nat
  BY BoundsAssumption DEF LeadInv, TypeOK
<1>7. (setup = "local" => p = Local) /\ (setup = "ci" => p # Local /\ PlanDone /\ p < matrix)
  BY <1>1, <1>5, <1>6, ProcsAre
<1>8. RunInv'
  BY <1>1, <1>2, <1>7, ProcsAre DEF LeadInv, RunInv, Planning, PlanDone, SplitEntries
<1> QED
  BY <1>3, <1>4, <1>8 DEF LeadInv

LEMMA LoadPlanLead ==
  ASSUME LeadInv, NEW p \in Procs, LoadPlan(p)
  PROVE  LeadInv'
<1>1. TypeOK /\ executed \in [Files -> Nat] /\ readErrors \in 0 .. MaxReadErrors
  BY DEF LeadInv, TypeOK
<1>2. ElseUnchanged /\ readErrors' = readErrors /\ run[p].pc = "load"
  BY <1>1, LoadPlanEffect
<1>3. CASE Fails(p)
  BY <1>1, <1>2, <1>3, RunStepKeeps DEF Fails
<1>4. CASE \E S \in SUBSET Files : HandsOut(p, S)
  BY <1>1, <1>2, <1>4, RunStepKeeps DEF HandsOut
<1>5. CASE p = Local /\ BeginsToScan(p)
  BY <1>1, <1>2, <1>5, RunStepKeeps, ProcsAre DEF BeginsToScan
<1> QED
  BY <1>1, <1>3, <1>4, <1>5, LoadPlanEffect DEF HandsOut

LEMMA ScanLead ==
  ASSUME LeadInv, NEW p \in Procs, ScanEntry(p) \/ ScanEnds(p) \/ ScanFails(p)
  PROVE  LeadInv'
<1>1. TypeOK /\ executed \in [Files -> Nat] /\ readErrors \in 0 .. MaxReadErrors /\ RunInv
  BY DEF LeadInv, TypeOK
<1>2. CASE ScanEntry(p)
  <2>1. /\ p = Local /\ Moves(p, "scan") /\ ElseUnchanged /\ readErrors' = readErrors
        /\ run[p].pc = "scan" /\ executed' \in [Files -> Nat]
        /\ run'[p].todo \subseteq run[p].todo
    BY <1>1, <1>2, ScanEntryEffect
  <2>2. p \notin Indices /\ run'[p].todo \subseteq SplitEntries
    BY <1>1, <2>1, ProcsAre DEF RunInv
  <2> QED
    BY <1>1, <2>1, <2>2, RunStepKeeps
<1>3. CASE ScanEnds(p)
  BY <1>1, <1>3, ScanEndsEffect, RunStepKeeps
<1>4. CASE ScanFails(p)
  <2>1. p \notin Indices
    BY <1>1, <1>4, ScanFailsEffect DEF RunInv
  <2> QED
    BY <1>1, <1>4, <2>1, ScanFailsEffect, RunStepKeeps
<1> QED
  BY <1>2, <1>3, <1>4

LEMMA EndLead ==
  ASSUME LeadInv, NEW p \in Procs,
         RunStops(p) \/ Wait(p) \/ \E w \in Workers : BatchEnds(p, w)
  PROVE  LeadInv'
<1>1. TypeOK /\ executed \in [Files -> Nat] /\ readErrors \in 0 .. MaxReadErrors
  BY DEF LeadInv, TypeOK
<1>2. CASE Wait(p)
  <2> DEFINE pc == IF \E w \in Workers : run[p].batch[w].state = "failed" THEN "failed" ELSE "ok"
  <2>1. Moves(p, pc) /\ ElseUnchanged /\ UNCHANGED <<readErrors, executed>> /\ run[p].pc = "wait"
    BY <1>1, <1>2, WaitEffect
  <2>2. pc = "failed" \/ pc = "ok"
    OBVIOUS
  <2> HIDE DEF pc
  <2> QED
    BY <1>1, <2>1, <2>2, RunStepKeeps
<1>3. CASE \E w \in Workers : BatchEnds(p, w)
  BY <1>1, <1>3, BatchEndsEffect, RunStepKeeps
<1>4. CASE RunStops(p)
  BY <1>1, <1>4, RunStopsEffect, RunStepKeeps
<1> QED
  BY <1>2, <1>3, <1>4

(* A planning begins, for the plan command or for a local run.             *)
LEMMA BeginLead ==
  ASSUME LeadInv, NEW owner \in Procs \cup {PlanCommand}, BeginPlanning(owner),
         UNCHANGED <<setup, disk, faults, readErrors>>, run' \in [Procs -> RunType],
         ~ Planning,
         owner \in Procs => setup = "local" /\ owner = Local /\ run'[owner].pc = "planning",
         \A p \in Procs \ {owner} : run'[p].pc = "idle"
  PROVE  LeadInv'
<1>1. /\ planner' = [pc |-> "prepare", owner |-> owner, files |-> {}, runners |-> 0, next |-> 0]
      /\ matrix' = 0 /\ plans' = plans + 1 /\ plans < MaxPlans
      /\ executed' = [f \in Files |-> 0]
      /\ setup' = setup /\ disk' = disk /\ faults' = faults /\ readErrors' = readErrors
      /\ plans \in Nat /\ plans \in 0 .. MaxPlans /\ MaxPlans \in Nat
  BY BoundsAssumption DEF BeginPlanning, LeadInv, TypeOK
<1>2. TypeOK'
  <2>1. planner' \in [pc: ArtifactSteps \cup {"never", "prepare", "done", "failed"},
                      owner: Procs \cup {PlanCommand}, files: SUBSET Files,
                      runners: 0 .. MaxRunners, next: Nat]
    BY <1>1, BoundsAssumption DEF ArtifactSteps
  <2>2. matrix' \in 0 .. MaxRunners /\ plans' \in 0 .. MaxPlans /\ executed' \in [Files -> Nat]
    BY <1>1, BoundsAssumption
  <2> QED
    BY <1>1, <2>1, <2>2
       DEF LeadInv, TypeOK, RunType, RunPcs, BatchType, BatchStates
<1>3. PlanInv' /\ DiskInv'
  BY <1>1 DEF PlanInv, DiskInv, Planning, ArtifactSteps, Sharing, Counted, Listed, Cached
<1>4. FirstPlanInv'
  <2>1. plans' <= 1 => planner.pc = "never" /\ plans <= 1
    BY <1>1 DEF LeadInv, PlanInv
  <2> QED
    BY <1>1, <2>1 DEF LeadInv, FirstPlanInv, Sharing, Counted
<1>5. RunInv'
  <2>1. Planning' /\ planner'.owner = owner /\ plans' # 0
    BY <1>1 DEF Planning
  <2>2. \A p \in Procs : run'[p].pc = "planning" <=> p = owner
    OBVIOUS
  <2>3. owner \notin Indices
    BY ProcsAre
  <2>4. owner \in Procs => owner = Local /\ setup = "local"
    OBVIOUS
  <2>5. setup' = setup /\ Local \in Procs /\ Indices \subseteq Procs /\ Local \notin Indices
    BY <1>1, ProcsAre
  <2>6. \A p \in Procs : run'[p].pc \in {"idle", "planning"}
    OBVIOUS
  <2>7. \A p \in Indices : run'[p].pc = "idle"
    BY <2>3, <2>5
  <2>8. setup' = "ci" => run'[Local].pc = "idle"
    BY <2>4, <2>5
  <2> QED
    BY <2>1, <2>2, <2>5, <2>6, <2>7, <2>8 DEF RunInv
<1> QED
  BY <1>2, <1>3, <1>4, <1>5 DEF LeadInv

LEMMA IdleRunType ==
  [p \in Procs |-> IdleRun] \in [Procs -> RunType] /\ IdleRun.pc = "idle"
BY DEF IdleRun, RunType, RunPcs, BatchType, BatchStates, NoBatch

LEMMA StartPlanLead ==
  ASSUME LeadInv, StartPlan
  PROVE  LeadInv'
<1>1. run' \in [Procs -> RunType] /\ \A p \in Procs : run'[p].pc = "idle"
  BY IdleRunType DEF StartPlan
<1>2. PlanCommand \notin Procs /\ plans \in Nat
  BY ProcsAre, BoundsAssumption DEF LeadInv, TypeOK
<1> QED
  BY <1>1, <1>2, BeginLead DEF StartPlan

LEMMA CheckPlanStatusLead ==
  ASSUME LeadInv, NEW p \in Procs, CheckPlanStatus(p)
  PROVE  LeadInv'
<1>1. run \in [Procs -> RunType] /\ {"planning", "load"} \subseteq RunPcs
      /\ run[p].pc = "status" /\ UNCHANGED <<setup, disk, faults, readErrors>>
  BY DEF LeadInv, TypeOK, RunType, BatchType, BatchStates, RunPcs, CheckPlanStatus
<1>2. ~ Planning /\ (setup = "local" => p = Local) /\ (setup = "ci" => p # Local /\ PlanDone /\ p < matrix)
      /\ (setup = "local" \/ setup = "ci")
  BY <1>1, ProcsAre DEF LeadInv, RunInv, TypeOK
<1>3. CASE disk.parallelRunners = Absent
  <2>1. BeginPlanning(p) /\ run' = [run EXCEPT ![p].pc = "planning"]
    BY <1>3 DEF CheckPlanStatus
  <2>2. setup = "local"
    <3>1. ASSUME PlanDone PROVE disk.parallelRunners \in Nat
      BY <3>1 DEF LeadInv, PlanInv, DiskInv, Counted, PlanDone
    <3> QED
      BY <1>2, <1>3, <3>1, MarksAssumption
  <2>3. Moves(p, "planning")
    BY <1>1, <2>1, PcMoves
  <2>4. \A q \in Procs \ {p} : run'[q].pc = "idle"
    BY <1>2, <2>2, <2>3, ProcsAre DEF Moves, LeadInv, RunInv
  <2> QED
    BY <1>1, <1>2, <2>1, <2>2, <2>3, <2>4, BeginLead DEF Moves
<1>4. CASE disk.parallelRunners # Absent
  <2>1. run' = [run EXCEPT ![p].pc = "load"] /\ UNCHANGED <<planner, matrix, plans, executed>>
    BY <1>4 DEF CheckPlanStatus
  <2>2. Moves(p, "load")
    BY <1>1, <2>1, PcMoves
  <2>3. plans # 0
    BY <1>4 DEF LeadInv, PlanInv, FirstPlanInv, Counted
  <2>4. /\ run'[p].pc = "load" /\ \A q \in Procs : q # p => run'[q] = run[q]
        /\ Local \in Procs /\ Indices \subseteq Procs
    BY <2>2, ProcsAre DEF Moves
  <2>5. /\ setup' = setup /\ disk' = disk /\ matrix' = matrix /\ planner' = planner
        /\ faults' = faults /\ plans' = plans /\ executed' = executed /\ readErrors' = readErrors
    BY <1>1, <2>1
  <2>6. TypeOK'
    BY <2>2, <2>5 DEF LeadInv, TypeOK, Moves, RunType, RunPcs, BatchType, BatchStates
  <2>7. PlanInv' /\ DiskInv' /\ FirstPlanInv'
    BY <2>5 DEF LeadInv, PlanInv, DiskInv, FirstPlanInv, Planning, Sharing, Counted, Listed, Cached,
       Shares
  <2>8. RunInv'
    BY <1>1, <1>2, <2>3, <2>4, <2>5, ProcsAre DEF LeadInv, RunInv, Planning, PlanDone, SplitEntries
  <2> QED
    BY <2>6, <2>7, <2>8 DEF LeadInv
<1> QED
  BY <1>3, <1>4

(* While the planner works, no run does.                                   *)
LEMMA PlannerKeepsRuns ==
  ASSUME LeadInv, Planning, Planning', planner'.owner = planner.owner,
         run' = run, setup' = setup, plans' = plans
  PROVE  RunInv'
<1>1. /\ \A p \in Procs : run[p].pc = "planning" <=> planner.owner = p
      /\ \A p \in Procs : run[p].pc \in {"idle", "planning"}
      /\ plans = 0 => \A p \in Procs : run[p].pc \in {"idle", "status", "stopped"}
      /\ setup = "local" => \A p \in Indices : run[p].pc = "idle"
      /\ setup = "ci" => run[Local].pc = "idle"
      /\ ~ PlanDone /\ Indices \subseteq Procs /\ Local \in Procs
  BY ProcsAre DEF LeadInv, RunInv, Planning, ArtifactSteps, PlanDone
<1>2. setup = "ci" => \A p \in Indices : run[p].pc = "idle"
  BY <1>1 DEF LeadInv, RunInv
<1> QED
  BY <1>1, <1>2 DEF RunInv

PlannerType ==
  [pc: ArtifactSteps \cup {"never", "prepare", "done", "failed"},
   owner: Procs \cup {PlanCommand}, files: SUBSET Files,
   runners: 0 .. MaxRunners, next: Nat]

DiskType ==
  [manifest: {Absent, Empty, 1}, percentage: {Absent, Empty, 1},
   cache: {Absent, Empty} \cup SUBSET Files,
   testFiles: {Absent} \cup SUBSET Files,
   parallelRunners: {Absent, Empty} \cup (1 .. MaxRunners),
   splitsDir: BOOLEAN,
   splits: [Indices -> {Absent} \cup SUBSET Files]]

LEMMA PrepareLead ==
  ASSUME LeadInv, Prepare
  PROVE  LeadInv'
<1>1. PICK S \in SUBSET Files, n \in 1 .. MaxRunners :
        planner' = [planner EXCEPT !.pc = "manifest", !.files = S, !.runners = n]
  BY Zenon DEF Prepare
<1>2. planner \in PlannerType /\ planner.pc = "prepare"
  BY DEF LeadInv, TypeOK, PlannerType, Prepare
<1>3. /\ planner' \in PlannerType
      /\ planner'.pc = "manifest" /\ planner'.runners = n /\ planner'.files = S
      /\ planner'.owner = planner.owner /\ planner'.next = planner.next
  <2>1. n \in 0 .. MaxRunners
    BY BoundsAssumption
  <2> QED
    BY <1>1, <1>2, <2>1 DEF PlannerType, ArtifactSteps
<1>4. /\ setup' = setup /\ disk' = disk /\ matrix' = matrix /\ run' = run /\ faults' = faults
      /\ readErrors' = readErrors /\ plans' = plans /\ executed' = executed
  BY Zenon DEF Prepare
<1>5. TypeOK'
  BY <1>3, <1>4 DEF LeadInv, TypeOK, PlannerType
<1>6. PlanInv' /\ DiskInv' /\ FirstPlanInv'
  BY <1>2, <1>3, <1>4 DEF LeadInv, PlanInv, DiskInv, FirstPlanInv, Planning, ArtifactSteps, Sharing,
     Counted, Listed, Cached
<1>7. RunInv'
  BY <1>2, <1>3, <1>4, PlannerKeepsRuns DEF Planning, ArtifactSteps
<1> QED
  BY <1>5, <1>6, <1>7 DEF LeadInv

LEMMA WriteArtifactLead ==
  ASSUME LeadInv, WriteArtifact
  PROVE  LeadInv'
<1>1. /\ planner \in PlannerType /\ disk \in DiskType
      /\ planner.pc \in {"manifest", "cache", "testFiles", "percentage", "parallelRunners"}
      /\ planner.runners \in 1 .. MaxRunners /\ planner.files \in SUBSET Files
      /\ disk' = Written(planner.pc)
      /\ planner' = [planner EXCEPT !.pc = StepAfter(@)]
      /\ setup' = setup /\ matrix' = matrix /\ run' = run /\ faults' = faults
      /\ readErrors' = readErrors /\ plans' = plans /\ executed' = executed
  BY DEF LeadInv, TypeOK, PlanInv, PlannerType, DiskType, WriteArtifact, ArtifactSteps
<1>2. /\ planner' \in PlannerType /\ planner'.pc = StepAfter(planner.pc)
      /\ planner'.runners = planner.runners /\ planner'.files = planner.files
      /\ planner'.owner = planner.owner /\ planner'.next = planner.next
  BY <1>1 DEF PlannerType, StepAfter, ArtifactSteps
<1>3. /\ planner'.pc \in {"cache", "testFiles", "percentage", "parallelRunners", "configure"}
      /\ planner.pc = "manifest" => planner'.pc = "cache"
      /\ planner.pc = "cache" => planner'.pc = "testFiles"
      /\ planner.pc = "testFiles" => planner'.pc = "percentage"
      /\ planner.pc = "percentage" => planner'.pc = "parallelRunners"
      /\ planner.pc = "parallelRunners" => planner'.pc = "configure"
  BY <1>1, <1>2 DEF StepAfter
<1>4. /\ disk' \in DiskType /\ disk'.splits = disk.splits
      /\ disk'.cache = IF planner.pc = "cache" THEN planner.files ELSE disk.cache
      /\ disk'.testFiles = IF planner.pc = "testFiles" THEN planner.files ELSE disk.testFiles
      /\ disk'.parallelRunners = IF planner.pc = "parallelRunners" THEN planner.runners
                                 ELSE disk.parallelRunners
  BY <1>1 DEF DiskType, Written, PlanCache
<1>5. TypeOK'
  BY <1>1, <1>2, <1>4 DEF LeadInv, TypeOK, PlannerType, DiskType
<1>6. PlanInv'
  BY <1>1, <1>2, <1>3 DEF LeadInv, PlanInv, Planning, ArtifactSteps
<1>7. DiskInv'
  BY <1>1, <1>2, <1>3, <1>4 DEF LeadInv, DiskInv, Sharing, Counted, Listed, Cached
<1>8. FirstPlanInv'
  BY <1>1, <1>2, <1>3, <1>4 DEF LeadInv, FirstPlanInv, Sharing, Counted
<1>9. RunInv'
  BY <1>1, <1>2, <1>3, PlannerKeepsRuns DEF Planning, ArtifactSteps
<1> QED
  BY <1>5, <1>6, <1>7, <1>8, <1>9 DEF LeadInv

LEMMA ConfigureLead ==
  ASSUME LeadInv, Configure
  PROVE  LeadInv'
<1>1. /\ planner \in PlannerType /\ planner.pc = "configure"
      /\ planner.runners \in 1 .. MaxRunners
      /\ matrix' \in {matrix, planner.runners}
      /\ planner' = [planner EXCEPT !.pc = "splits"]
      /\ setup' = setup /\ disk' = disk /\ run' = run /\ faults' = faults
      /\ readErrors' = readErrors /\ plans' = plans /\ executed' = executed
  BY DEF LeadInv, TypeOK, PlanInv, PlannerType, Configure, ArtifactSteps
<1>2. /\ planner' \in PlannerType /\ planner'.pc = "splits"
      /\ planner'.runners = planner.runners /\ planner'.files = planner.files
      /\ planner'.owner = planner.owner /\ planner'.next = planner.next
  BY <1>1 DEF PlannerType, ArtifactSteps
<1>3. planner.next = 0 /\ matrix = 0
  BY <1>1 DEF LeadInv, PlanInv, Planning, ArtifactSteps
<1>4. TypeOK'
  BY <1>1, <1>2 DEF LeadInv, TypeOK, PlannerType
<1>5. PlanInv' /\ DiskInv'
  BY <1>1, <1>2, <1>3 DEF LeadInv, PlanInv, DiskInv, Planning, ArtifactSteps, Sharing, Counted,
     Listed, Cached
<1>6. FirstPlanInv'
  BY <1>1, <1>2, <1>3 DEF LeadInv, FirstPlanInv, Sharing, Counted
<1>7. RunInv'
  BY <1>1, <1>2, PlannerKeepsRuns DEF Planning, ArtifactSteps
<1> QED
  BY <1>4, <1>5, <1>6, <1>7 DEF LeadInv

LEMMA WriteSplitLead ==
  ASSUME LeadInv, WriteSplit
  PROVE  LeadInv'
<1> DEFINE i == planner.next
           n == planner.runners
<1>1. /\ planner \in PlannerType /\ disk \in DiskType /\ planner.pc = "splits"
      /\ n \in 1 .. MaxRunners /\ i \in 0 .. n - 1 /\ planner.files \in SUBSET Files
      /\ disk' = [disk EXCEPT !.splitsDir = TRUE, !.splits[i] = SplitContent(i)]
      /\ planner' = [planner EXCEPT !.next = @ + 1,
                                    !.pc = IF planner.next + 1 = planner.runners
                                           THEN "finish" ELSE @]
      /\ setup' = setup /\ matrix' = matrix /\ run' = run /\ faults' = faults
      /\ readErrors' = readErrors /\ plans' = plans /\ executed' = executed
  BY DEF LeadInv, TypeOK, PlanInv, PlannerType, DiskType, WriteSplit, ArtifactSteps
<1>2. MaxRunners \in Nat /\ n \in Nat \ {0} /\ i \in Nat /\ i \in Indices /\ i < n
      /\ n <= MaxRunners
  BY <1>1, ProcsAre
<1>3. SplitContent(i) = Shares(i)
  BY <1>1 DEF LeadInv, DiskInv, Listed, Counted, SplitContent, Shares, Share
<1>4. Shares(i) \in SUBSET Files
  BY <1>1, <1>2, SharesPartition DEF Shares
<1>5. /\ disk' \in DiskType /\ disk'.splitsDir /\ disk'.cache = disk.cache
      /\ disk'.testFiles = disk.testFiles /\ disk'.parallelRunners = disk.parallelRunners
      /\ disk'.splits = [disk.splits EXCEPT ![i] = Shares(i)]
      /\ disk.splits \in [Indices -> {Absent} \cup SUBSET Files]
  BY <1>1, <1>2, <1>3, <1>4 DEF DiskType
<1>6. /\ planner'.pc = IF i + 1 = n THEN "finish" ELSE "splits"
      /\ planner'.next = i + 1 /\ planner'.runners = n /\ planner'.files = planner.files
      /\ planner'.owner = planner.owner
  BY <1>1 DEF PlannerType
<1>7. planner' \in PlannerType
  <2>1. planner' = [planner EXCEPT !.pc = planner'.pc, !.next = i + 1]
    BY <1>1, <1>6 DEF PlannerType
  <2>2. planner'.pc \in ArtifactSteps /\ i + 1 \in Nat
    BY <1>2, <1>6 DEF ArtifactSteps
  <2> QED
    BY <1>1, <2>1, <2>2 DEF PlannerType
<1>8. \A j \in Indices : Shares(j)' = Shares(j)
  BY <1>6 DEF Shares
<1> HIDE DEF i, n
<1>9. TypeOK'
  BY <1>1, <1>5, <1>7 DEF LeadInv, TypeOK, PlannerType, DiskType
<1>10. PlanInv'
  BY <1>1, <1>2, <1>6 DEF LeadInv, PlanInv, Planning, ArtifactSteps, n
<1>11. DiskInv'
  <2>1. \A j \in 0 .. i : disk'.splits[j] = Share(planner.files, n, j)
    <3>1. \A j \in 0 .. i - 1 : disk.splits[j] = Share(planner.files, n, j)
      BY <1>1 DEF LeadInv, DiskInv, Shares, i, n
    <3>2. \A j \in 0 .. i : j \in Indices /\ (j = i \/ j \in 0 .. i - 1)
      BY <1>2, ProcsAre
    <3>3. Shares(i) = Share(planner.files, n, i)
      BY DEF Shares, n
    <3> QED
      BY <1>5, <3>1, <3>2, <3>3
  <2>2. disk'.cache = planner.files /\ disk'.testFiles = planner.files
        /\ disk'.parallelRunners = n
    BY <1>1, <1>5 DEF LeadInv, DiskInv, Cached, Listed, Counted, n
  <2>3. CASE i + 1 = n
    <3>1. planner'.pc = "finish" /\ \A j \in 0 .. n - 1 : j \in 0 .. i
      BY <1>2, <1>6, <2>3
    <3> QED
      BY <1>5, <1>6, <2>1, <2>2, <3>1 DEF DiskInv, Cached, Listed, Counted, Sharing, Shares
  <2>4. CASE i + 1 # n
    <3>1. planner'.pc = "splits" /\ \A j \in 0 .. (i + 1) - 1 : j \in 0 .. i
      BY <1>2, <1>6, <2>4
    <3> QED
      BY <1>5, <1>6, <2>1, <2>2, <3>1 DEF DiskInv, Cached, Listed, Counted, Sharing, Shares
  <2> QED
    BY <2>3, <2>4
<1>12. FirstPlanInv'
  <2>1. ASSUME plans <= 1
        PROVE  \A j \in Indices : j >= i + 1 => disk'.splits[j] = Absent
    <3>1. \A j \in Indices : j >= i => disk.splits[j] = Absent
      BY <1>1, <2>1 DEF LeadInv, FirstPlanInv, i
    <3>2. \A j \in Indices : j >= i + 1 => j >= i /\ j # i
      BY <1>2, ProcsAre
    <3> QED
      BY <1>5, <3>1, <3>2
  <2>2. CASE i + 1 = n
    BY <1>1, <1>6, <2>1, <2>2 DEF FirstPlanInv, Counted, Sharing
  <2>3. CASE i + 1 # n
    BY <1>1, <1>6, <2>1, <2>3 DEF FirstPlanInv, Counted, Sharing
  <2> QED
    BY <2>2, <2>3
<1>13. RunInv'
  BY <1>1, <1>6, PlannerKeepsRuns DEF Planning, ArtifactSteps
<1> QED
  BY <1>9, <1>10, <1>11, <1>12, <1>13 DEF LeadInv

(* The end of a planning, good or bad, lets the run that waits go on.      *)
LEMMA ResumeLead ==
  ASSUME LeadInv, Planning, NEW to \in {"load", "failed"}, ResumeRun(to),
         planner'.owner = planner.owner, ~ Planning', setup' = setup, plans' = plans,
         to = "load" => SplitEntries' = SplitEntries
  PROVE  /\ run' \in [Procs -> RunType] /\ RunInv'
         /\ \A p \in Procs : /\ run'[p].pc \in {"idle", to}
                             /\ run[p].pc = "idle" => run'[p] = run[p]
                             /\ p \in Indices => run'[p].pc = "idle"
                             /\ SameBatch(p)
<1>1. /\ \A p \in Procs : run[p].pc = "planning" <=> planner.owner = p
      /\ \A p \in Procs : run[p].pc \in {"idle", "planning"}
      /\ planner.owner \in Procs => setup = "local" /\ planner.owner = Local
      /\ plans # 0
      /\ \A p \in Indices : run[p].pc = "idle"
      /\ Indices \subseteq Procs /\ Local \in Procs /\ Local \notin Indices
      /\ run \in [Procs -> RunType] /\ to \in RunPcs
  <2>1. \A p \in Procs : run[p].pc = "planning" <=> planner.owner = p
    BY DEF LeadInv, RunInv
  <2>2. \A p \in Procs : run[p].pc \in {"idle", "planning"}
    BY DEF LeadInv, RunInv
  <2>3. planner.owner \in Procs => setup = "local" /\ planner.owner = Local
    BY DEF LeadInv, PlanInv
  <2>4. plans # 0
    BY DEF LeadInv, PlanInv, Planning, ArtifactSteps
  <2>5. Indices \subseteq Procs /\ Local \in Procs /\ Local \notin Indices
    BY ProcsAre
  <2>6. run \in [Procs -> RunType] /\ to \in RunPcs
    BY DEF LeadInv, TypeOK, RunType, BatchType, BatchStates, RunPcs, RunEnds
  <2>7. \A p \in Indices : run[p].pc = "idle"
    BY <2>1, <2>2, <2>3, <2>5
  <2> QED
    BY <2>1, <2>2, <2>3, <2>4, <2>5, <2>6, <2>7
<1>2. CASE planner.owner \in Procs
  <2>1. run' = [run EXCEPT ![planner.owner].pc = to]
    BY <1>2 DEF ResumeRun
  <2>2. Moves(Local, to) /\ SameBatch(Local)
    BY <1>1, <1>2, <2>1, PcMoves
  <2>3. /\ run' \in [Procs -> RunType] /\ run'[Local].pc = to
        /\ \A p \in Procs : p # Local => run'[p] = run[p]
    BY <2>2 DEF Moves
  <2>4. RunInv'
    BY <1>1, <1>2, <2>3 DEF RunInv
  <2> QED
    BY <1>1, <1>2, <2>2, <2>3, <2>4 DEF SameBatch
<1>3. CASE planner.owner \notin Procs
  <2>1. run' = run
    BY <1>3 DEF ResumeRun
  <2>2. \A p \in Procs : run[p].pc = "idle"
    BY <1>1, <1>3
  <2>3. RunInv'
    BY <1>1, <1>3, <2>1, <2>2 DEF RunInv
  <2> QED
    BY <1>1, <2>1, <2>2, <2>3 DEF SameBatch
<1> QED
  BY <1>2, <1>3

LEMMA FinishPlanLead ==
  ASSUME LeadInv, FinishPlan
  PROVE  LeadInv'
<1>1. /\ planner \in PlannerType /\ planner.pc = "finish"
      /\ planner' = [planner EXCEPT !.pc = "done"]
      /\ setup' = setup /\ disk' = disk /\ matrix' = matrix /\ faults' = faults
      /\ readErrors' = readErrors /\ plans' = plans /\ executed' = executed
  BY DEF LeadInv, TypeOK, PlannerType, FinishPlan
<1>2. /\ planner' \in PlannerType /\ planner'.pc = "done"
      /\ planner'.runners = planner.runners /\ planner'.files = planner.files
      /\ planner'.owner = planner.owner /\ planner'.next = planner.next
      /\ \A i \in Indices : Shares(i)' = Shares(i)
  BY <1>1 DEF PlannerType, Shares
<1>3. run' \in [Procs -> RunType] /\ RunInv'
  <2>1. Planning /\ ~ Planning' /\ SplitEntries' = SplitEntries
    BY <1>1, <1>2 DEF Planning, ArtifactSteps, SplitEntries
  <2>2. ResumeRun("load")
    BY DEF FinishPlan
  <2> QED
    BY <1>1, <1>2, <2>1, <2>2, ResumeLead
<1>4. TypeOK'
  BY <1>1, <1>2, <1>3
     DEF LeadInv, TypeOK, PlannerType, RunType, RunPcs, BatchType, BatchStates
<1>5. PlanInv'
  BY <1>1, <1>2 DEF LeadInv, PlanInv, Planning, ArtifactSteps
<1>6. DiskInv'
  <2>1. planner.runners \in 1 .. MaxRunners
    BY <1>1 DEF LeadInv, PlanInv, ArtifactSteps
  <2>2. \A i \in 0 .. planner.runners - 1 : i \in Indices
    BY <2>1, ProcsAre
  <2> QED
    BY <1>1, <1>2, <2>2 DEF LeadInv, DiskInv, Sharing, Counted, Listed, Cached
<1>7. FirstPlanInv'
  BY <1>1, <1>2 DEF LeadInv, FirstPlanInv, Sharing, Counted
<1> QED
  BY <1>3, <1>4, <1>5, <1>6, <1>7 DEF LeadInv

LEMMA InterruptLead ==
  ASSUME LeadInv, Interrupt
  PROVE  LeadInv'
<1>1. /\ planner \in PlannerType /\ disk \in DiskType /\ Planning
      /\ planner' = [planner EXCEPT !.pc = "failed"]
      /\ \/ disk' = disk
         \/ disk' = Truncated(planner.pc)
         \/ planner.pc = "splits" /\ disk' = [disk EXCEPT !.splitsDir = TRUE]
      /\ setup' = setup /\ matrix' = matrix /\ faults' = faults + 1 /\ faults < MaxFaults
      /\ readErrors' = readErrors /\ plans' = plans /\ executed' = executed
  BY DEF LeadInv, TypeOK, PlannerType, DiskType, Interrupt
<1>2. /\ planner' \in PlannerType /\ planner'.pc = "failed"
      /\ planner'.owner = planner.owner /\ planner'.files = planner.files
  BY <1>1 DEF PlannerType
<1>3. run' \in [Procs -> RunType] /\ RunInv'
  <2>1. ~ Planning'
    BY <1>2 DEF Planning, ArtifactSteps
  <2>2. ResumeRun("failed")
    BY DEF Interrupt
  <2> QED
    BY <1>1, <1>2, <2>1, <2>2, ResumeLead
<1>4. planner.pc = "splits" => planner.next \in Indices
  <2> SUFFICES ASSUME planner.pc = "splits" PROVE planner.next \in Indices
    OBVIOUS
  <2>1. planner.runners \in 1 .. MaxRunners /\ planner.next \in 0 .. planner.runners - 1
    BY DEF LeadInv, PlanInv, ArtifactSteps
  <2> QED
    BY <2>1, ProcsAre
<1>5. Truncated(planner.pc) \in DiskType
  BY <1>1, <1>4 DEF Truncated, DiskType
<1>6. disk' \in DiskType
  BY <1>1, <1>5 DEF DiskType
<1>7. TypeOK'
  <2>1. faults' \in 0 .. MaxFaults
    BY <1>1, BoundsAssumption DEF LeadInv, TypeOK
  <2> QED
    BY <1>1, <1>2, <1>3, <1>6, <2>1
       DEF LeadInv, TypeOK, PlannerType, DiskType, RunType, RunPcs, BatchType, BatchStates
<1>8. PlanInv' /\ DiskInv'
  <2>1. faults' # 0 /\ plans # 0
    BY <1>1, BoundsAssumption DEF LeadInv, TypeOK, PlanInv, Planning, ArtifactSteps
  <2> QED
    BY <1>1, <1>2, <2>1 DEF LeadInv, PlanInv, DiskInv, Planning, ArtifactSteps, Sharing, Counted,
       Listed, Cached
<1>9. FirstPlanInv'
  <2>1. plans <= 1 /\ disk'.parallelRunners = 1 => disk'.testFiles = planner.files
    <3> SUFFICES ASSUME plans <= 1, disk'.parallelRunners = 1
                 PROVE  disk'.testFiles = planner.files
      OBVIOUS
    <3>1. Absent # 1 /\ Empty # 1
      BY MarksAssumption
    <3>2. planner.pc # "failed"
      BY <1>1 DEF Planning, ArtifactSteps
    <3>3. CASE Counted
      <4>1. disk.testFiles = planner.files
        BY <3>3 DEF LeadInv, DiskInv, Listed
      <4>2. planner.pc \notin {"manifest", "cache", "testFiles", "percentage", "parallelRunners"}
        BY <3>3 DEF Counted
      <4> QED
        BY <1>1, <4>1, <4>2 DEF Truncated, DiskType
    <3>4. CASE ~ Counted
      <4>1. disk.parallelRunners = Absent
        BY <3>2, <3>4 DEF LeadInv, FirstPlanInv
      <4>2. disk'.parallelRunners \in {Absent, Empty}
        BY <1>1, <4>1 DEF Truncated, DiskType
      <4> QED
        BY <3>1, <4>2
    <3> QED
      BY <3>3, <3>4
  <2> QED
    BY <1>1, <1>2, <2>1 DEF FirstPlanInv, Sharing, Counted
<1> QED
  BY <1>3, <1>7, <1>8, <1>9 DEF LeadInv

LEMMA NextLead == LeadInv /\ [Next]_vars => LeadInv'
<1> SUFFICES ASSUME LeadInv, [Next]_vars PROVE LeadInv'
  OBVIOUS
<1>1. CASE UNCHANGED vars
  BY <1>1 DEF vars, LeadInv, TypeOK, PlanInv, DiskInv, FirstPlanInv, RunInv, Planning, PlanDone,
     Sharing, Counted, Listed, Cached, Shares, SplitEntries
<1>2. CASE StartPlan \/ PlannerStep \/ Interrupt
  BY <1>2, StartPlanLead, PrepareLead, WriteArtifactLead, ConfigureLead, WriteSplitLead,
     FinishPlanLead, InterruptLead DEF PlannerStep
<1>3. CASE \E p \in Procs : StartRun(p) \/ RunStep(p) \/ ScanFails(p) \/ RunStops(p)
  BY <1>3, StartRunLead, CheckPlanStatusLead, LoadPlanLead, ScanLead, EndLead DEF RunStep
<1>4. CASE \E p \in Procs, w \in Workers : BatchEnds(p, w)
  BY <1>4, EndLead
<1> QED
  BY <1>1, <1>2, <1>3, <1>4 DEF Next

LEMMA LeadInvariant == Spec => []LeadInv
BY InitLead, NextLead, PTL DEF Spec

(* The state of the plan and of the runs keeps its shape.                  *)
THEOREM TypeCorrect == Spec => []TypeOK
<1>1. LeadInv => TypeOK
  BY DEF LeadInv
<1> QED
  BY <1>1, LeadInvariant, PTL

-----------------------------------------------------------------------------
(* A run reports its result when its workers have returned.                *)

LEMMA InitBatch == Init => BatchInv
BY DEF Init, BatchInv, Settled, IdleRun, NoBatch

(* Another state of run p alone.                                           *)
LEMMA OneRunSettles ==
  ASSUME BatchInv, NEW p \in Procs, NEW pc, Moves(p, pc), Settled(run'[p])
  PROVE  BatchInv'
BY DEF BatchInv, Moves

LEMMA NextBatch == LeadInv /\ BatchInv /\ [Next]_vars => BatchInv'
<1> SUFFICES ASSUME LeadInv, BatchInv, [Next]_vars PROVE BatchInv'
  OBVIOUS
<1>1. TypeOK /\ RunInv
  BY DEF LeadInv
<1>2. CASE UNCHANGED vars
  BY <1>2 DEF vars, BatchInv
<1>3. CASE StartPlan
  BY <1>3 DEF StartPlan, BatchInv, Settled, IdleRun, NoBatch
<1>4. CASE Prepare \/ WriteArtifact \/ Configure \/ WriteSplit
  <2>1. run' = run
    BY <1>4, Zenon DEF Prepare, WriteArtifact, Configure, WriteSplit
  <2> QED
    BY <2>1 DEF BatchInv
<1>5. CASE FinishPlan \/ Interrupt
  <2>1. Planning /\ ~ Planning' /\ UNCHANGED <<setup, plans>> /\ planner'.owner = planner.owner
    BY <1>1, <1>5 DEF FinishPlan, Interrupt, TypeOK, Planning, ArtifactSteps
  <2>2. \A p \in Procs : run[p].pc \in {"idle", "planning"}
    BY <1>1, <2>1 DEF RunInv
  <2>3. PICK to \in {"load", "failed"} : ResumeRun(to) /\ (to = "load" => FinishPlan)
    BY <1>5 DEF FinishPlan, Interrupt
  <2>4. to = "load" => SplitEntries' = SplitEntries
    BY <2>3 DEF FinishPlan, SplitEntries
  <2>5. \A p \in Procs : run'[p].pc \in {"idle", to} /\ SameBatch(p)
    BY <2>1, <2>3, <2>4, ResumeLead
  <2> QED
    BY <2>2, <2>5 DEF BatchInv, Settled, SameBatch
<1>6. ASSUME NEW p \in Procs, StartRun(p) \/ CheckPlanStatus(p)
      PROVE  BatchInv'
  <2>1. /\ run[p].pc \in {"idle", "status"} /\ SameBatch(p)
        /\ \E pc \in {"status", "planning", "load"} : Moves(p, pc)
    <3>1. CASE StartRun(p)
      BY <1>1, <3>1, StartRunEffect
    <3>2. CASE CheckPlanStatus(p)
      <4>1. run \in [Procs -> RunType] /\ {"planning", "load"} \subseteq RunPcs
        BY <1>1 DEF TypeOK, RunType, BatchType, BatchStates, RunPcs
      <4>2. PICK pc \in {"planning", "load"} : run' = [run EXCEPT ![p].pc = pc]
        BY <3>2 DEF CheckPlanStatus
      <4>3. run[p].pc = "status"
        BY <3>2 DEF CheckPlanStatus
      <4> QED
        BY <4>1, <4>2, <4>3, PcMoves
    <3> QED
      BY <1>6, <3>1, <3>2
  <2>2. Settled(run'[p])
    BY <2>1 DEF BatchInv, Settled, SameBatch, Moves
  <2> QED
    BY <2>1, <2>2, OneRunSettles
<1>7. ASSUME NEW p \in Procs, LoadPlan(p)
      PROVE  BatchInv'
  <2>1. run[p].pc = "load"
    BY <1>7 DEF LoadPlan
  <2>2. CASE Fails(p)
    BY <2>1, <2>2, OneRunSettles DEF Fails, BatchInv, Settled, SameBatch, Moves
  <2>3. CASE \E S \in SUBSET Files : HandsOut(p, S)
    BY <2>3, OneRunSettles DEF HandsOut, Settled, Moves
  <2>4. CASE BeginsToScan(p)
    BY <2>4, OneRunSettles DEF BeginsToScan, Settled, Moves
  <2> QED
    BY <1>1, <1>7, <2>2, <2>3, <2>4, LoadPlanEffect DEF HandsOut
<1>8. ASSUME NEW p \in Procs, ScanEntry(p) \/ ScanEnds(p) \/ ScanFails(p)
      PROVE  BatchInv'
  <2>1. \E pc \in {"scan", "wait", "failedRead"} : Moves(p, pc)
    BY <1>1, <1>8, ScanEntryEffect, ScanEndsEffect, ScanFailsEffect
  <2> QED
    BY <2>1, OneRunSettles DEF Settled, Moves
<1>9. ASSUME NEW p \in Procs, Wait(p)
      PROVE  BatchInv'
  <2> DEFINE failing == \E w \in Workers : run[p].batch[w].state = "failed"
             pc == IF failing THEN "failed" ELSE "ok"
  <2>1. Moves(p, pc) /\ SameBatch(p) /\ \A w \in Workers : run[p].batch[w].state # "running"
    BY <1>1, <1>9, WaitEffect
  <2>2. Settled(run'[p])
    BY <2>1 DEF Settled, SameBatch, Moves
  <2> QED
    BY <2>1, <2>2, OneRunSettles
<1>10. ASSUME NEW p \in Procs, NEW w \in Workers, BatchEnds(p, w)
       PROVE  BatchInv'
  <2>1. Moves(p, run[p].pc) /\ run[p].batch[w].state = "running"
    BY <1>1, <1>10, BatchEndsEffect
  <2>2. run[p].pc \notin {"idle", "status", "planning", "load", "stopped", "ok", "failed"}
    BY <2>1 DEF BatchInv, Settled
  <2>3. Settled(run'[p])
    BY <2>1, <2>2 DEF Settled, Moves
  <2> QED
    BY <2>1, <2>3, OneRunSettles
<1>11. ASSUME NEW p \in Procs, RunStops(p)
       PROVE  BatchInv'
  <2>1. Moves(p, "stopped") /\ SameBatch(p) /\ run[p].pc \in {"status", "load"}
    BY <1>1, <1>11, RunStopsEffect
  <2>2. Settled(run'[p])
    BY <2>1 DEF BatchInv, Settled, SameBatch, Moves
  <2> QED
    BY <2>1, <2>2, OneRunSettles
<1> QED
  BY <1>2, <1>3, <1>4, <1>5, <1>6, <1>7, <1>8, <1>9, <1>10, <1>11 DEF Next, PlannerStep, RunStep

(* A run reports its result only when all of its workers have returned,    *)
(* and it succeeds only if they all do.                                    *)
THEOREM NoWorkerLeftBehind == Spec => []WaitsForAllWorkers
<1>1. BatchInv => WaitsForAllWorkers
  BY DEF BatchInv, Settled, WaitsForAllWorkers
<1> QED
  BY <1>1, InitBatch, NextBatch, LeadInvariant, PTL DEF Spec

-----------------------------------------------------------------------------
(* What has been executed.                                                 *)

LEMMA InitExec == Init => ExecInv
<1> SUFFICES ASSUME Init PROVE ExecInv
  OBVIOUS
<1>1. NothingExecuted /\ planner.pc = "never" /\ run[Local].pc = "idle"
  BY ProcsAre DEF Init, NothingExecuted, IdleRun
<1> QED
  BY <1>1 DEF ExecInv, CleanInv, CIExecInv, SequentialInv, ScanInv, PlanDone

(* Nothing has been executed and no run has got further than loading.      *)
LEMMA StillClean ==
  ASSUME NothingExecuted',
         planner'.pc = "done" => \A p \in Procs : run'[p].pc \in {"idle", "load"},
         planner'.pc = "failed" => run'[Local].pc \in {"idle", "failed"}
  PROVE  ExecInv'
<1>1. CleanInv'
  BY DEF CleanInv
<1>2. CIExecInv'
  BY ProcsAre DEF CIExecInv, NothingExecuted, Started, PlanDone
<1>3. SequentialInv' /\ ScanInv'
  BY ProcsAre DEF SequentialInv, ScanInv, PlanDone
<1> QED
  BY <1>1, <1>2, <1>3 DEF ExecInv

LEMMA BeginIsClean ==
  ASSUME NEW owner, BeginPlanning(owner)
  PROVE  ExecInv'
<1>1. NothingExecuted' /\ planner'.pc = "prepare"
  BY DEF BeginPlanning, NothingExecuted
<1> QED
  BY <1>1, StillClean

LEMMA PlannerStepIsClean ==
  ASSUME LeadInv, ExecInv, Prepare \/ WriteArtifact \/ Configure \/ WriteSplit
  PROVE  ExecInv'
<1>1. executed' = executed /\ Planning
  BY Zenon DEF Prepare, WriteArtifact, Configure, WriteSplit, Planning, ArtifactSteps
<1>2. NothingExecuted'
  BY <1>1 DEF ExecInv, CleanInv, NothingExecuted
<1>3. planner \in PlannerType
  BY DEF LeadInv, TypeOK, PlannerType
<1>4. planner'.pc \notin {"done", "failed"}
  <2>1. CASE Prepare
    <3>1. PICK S \in SUBSET Files, n \in 1 .. MaxRunners :
            planner' = [planner EXCEPT !.pc = "manifest", !.files = S, !.runners = n]
      BY <2>1, Zenon DEF Prepare
    <3> QED
      BY <1>3, <3>1 DEF PlannerType
  <2>2. CASE WriteArtifact
    BY <1>3, <2>2 DEF WriteArtifact, PlannerType, StepAfter
  <2>3. CASE Configure
    BY <1>3, <2>3 DEF Configure, PlannerType
  <2>4. CASE WriteSplit
    BY <1>3, <2>4 DEF WriteSplit, PlannerType
  <2> QED
    BY <2>1, <2>2, <2>3, <2>4
<1> QED
  BY <1>2, <1>4, StillClean

LEMMA PlanEndIsClean ==
  ASSUME LeadInv, ExecInv, FinishPlan \/ Interrupt
  PROVE  ExecInv'
<1>1. /\ Planning /\ ~ Planning' /\ UNCHANGED <<setup, plans, executed>>
      /\ planner'.owner = planner.owner
      /\ FinishPlan => planner'.pc = "done"
      /\ Interrupt => planner'.pc = "failed"
  BY DEF FinishPlan, Interrupt, LeadInv, TypeOK, Planning, ArtifactSteps
<1>2. NothingExecuted'
  BY <1>1 DEF ExecInv, CleanInv, NothingExecuted
<1>3. CASE FinishPlan
  <2>1. ResumeRun("load") /\ SplitEntries' = SplitEntries
    BY <1>3 DEF FinishPlan, SplitEntries
  <2> QED
    BY <1>1, <1>2, <1>3, <2>1, ResumeLead, StillClean
<1>4. CASE Interrupt
  <2>1. ResumeRun("failed")
    BY <1>4 DEF Interrupt
  <2>2. Local \in Procs
    BY ProcsAre
  <2> QED
    BY <1>1, <1>2, <1>4, <2>1, <2>2, ResumeLead, StillClean
<1> QED
  BY <1>3, <1>4

(* A step of one run that executes nothing.                                *)
LEMMA StepExecutesNothing ==
  ASSUME LeadInv, ExecInv, NEW p \in Procs, NEW pc, Moves(p, pc), ElseUnchanged,
         executed' = executed,
         \/ pc = run[p].pc /\ run'[p].todo = run[p].todo
         \/ run[p].pc \in {"idle", "status"} /\ pc \in {"status", "load"}
         \/ run[p].pc = "wait" /\ pc \in {"ok", "failed"}
         \/ run[p].pc = "scan" /\ pc = "failedRead"
         \/ run[p].pc = "load" /\ pc = "failed" /\ p = Local
         \/ run[p].pc \in {"status", "load"} /\ pc = "stopped"
  PROVE  ExecInv'
<1>1. /\ setup' = setup /\ disk' = disk /\ planner' = planner /\ plans' = plans
      /\ run'[p].pc = pc /\ \A q \in Procs : q # p => run'[q] = run[q]
      /\ Local \in Procs /\ Indices \subseteq Procs /\ Local \notin Indices
  BY ProcsAre DEF ElseUnchanged, Moves
<1>2. /\ Planning' = Planning /\ NothingExecuted' = NothingExecuted
      /\ ExecutedExactly' = ExecutedExactly /\ PlanDone' = PlanDone
      /\ FirstLocal' = FirstLocal
      /\ \A i, f : Executes(i, f)' = Executes(i, f)
  BY <1>1 DEF Planning, NothingExecuted, ExecutedExactly, PlanDone, FirstLocal, Executes, Shares
<1>3. run'[Local].pc \in {"idle", "status", "load"} => run[Local].pc \in {"idle", "status", "load"}
  BY <1>1
<1>4. CleanInv'
  BY <1>1, <1>2, <1>3 DEF ExecInv, CleanInv
<1>5. CIExecInv'
  <2>1. \A q \in Indices : Started(q)' <=> Started(q)
    BY <1>1 DEF Started
  <2> QED
    BY <1>1, <1>2, <2>1 DEF ExecInv, CIExecInv
<1>6. /\ run'[Local].pc = "scan" => run[Local].pc = "scan" /\ run'[Local].todo = run[Local].todo
      /\ run'[Local].pc \in {"wait", "ok"} => run[Local].pc \in {"wait", "ok"}
  BY <1>1
<1>7. SequentialInv' /\ ScanInv'
  BY <1>1, <1>2, <1>6 DEF ExecInv, SequentialInv, ScanInv
<1> QED
  BY <1>4, <1>5, <1>7 DEF ExecInv

(* The files of the plan are those of its shares.                          *)
LEMMA PlannedIsShared ==
  ASSUME LeadInv, planner.pc \in {"finish", "done"}
  PROVE  /\ planner.runners \in Nat \ {0} /\ 0 .. planner.runners - 1 \subseteq Indices
         /\ planner.files \in SUBSET Files
         /\ \A i \in 0 .. planner.runners - 1 :
              /\ Shares(i) \in SUBSET planner.files
              /\ disk.splits[i] = Shares(i) /\ Loads(disk.splits[i])
         /\ \A f \in planner.files : \E i \in Indices : Executes(i, f)
         /\ \A i, j \in Indices : \A f : Executes(i, f) /\ Executes(j, f) => i = j
         /\ \A i \in Indices : \A f : Executes(i, f) => f \in planner.files
<1>1. planner.runners \in 1 .. MaxRunners /\ planner.files \in SUBSET Files
  BY DEF LeadInv, TypeOK, PlanInv, ArtifactSteps
<1>2. planner.runners \in Nat \ {0} /\ 0 .. planner.runners - 1 \subseteq Indices
  BY <1>1, ProcsAre
<1>3. /\ \A i \in 0 .. planner.runners - 1 : Shares(i) \in SUBSET planner.files
      /\ \A f \in planner.files : \E i \in 0 .. planner.runners - 1 : f \in Shares(i)
      /\ \A i, j \in 0 .. planner.runners - 1 : \A f : f \in Shares(i) /\ f \in Shares(j) => i = j
  BY <1>1, <1>2, SharesPartition DEF Shares
<1>4. \A i \in 0 .. planner.runners - 1 : disk.splits[i] = Shares(i)
  BY DEF LeadInv, DiskInv, Sharing
<1>5. \A i \in 0 .. planner.runners - 1 : Loads(disk.splits[i])
  BY <1>1, <1>3, <1>4, MarksAssumption DEF Loads
<1> QED
  BY <1>1, <1>2, <1>3, <1>4, <1>5 DEF Executes

LEMMA PlanLoads ==
  ASSUME LeadInv, PlanDone
  PROVE  CanLoad /\ Loads(disk.testFiles) /\ disk.splitsDir
<1>1. /\ disk.cache = planner.files /\ disk.testFiles = planner.files
      /\ disk.parallelRunners = planner.runners /\ disk.splitsDir
  BY DEF LeadInv, DiskInv, PlanDone, Cached, Listed, Counted, Sharing
<1>2. planner.files \in SUBSET Files /\ planner.runners \in Nat
  BY PlannedIsShared DEF PlanDone
<1> QED
  BY <1>1, <1>2, MarksAssumption DEF CanLoad, CacheLoads, RunnersCountReads, Loads

(* A CI node executes its share.                                           *)
LEMMA NodeLoadExec ==
  ASSUME LeadInv, ExecInv, NEW p \in Indices, LoadPlan(p)
  PROVE  ExecInv'
<1>1. TypeOK /\ p \in Procs /\ p # Local /\ Local \in Procs /\ matrix \in Nat
  BY ProcsAre, BoundsAssumption DEF LeadInv, TypeOK
<1>2. ElseUnchanged /\ run[p].pc = "load"
  BY <1>1, LoadPlanEffect
<1>3. setup = "ci" /\ PlanDone /\ p < matrix
  BY <1>1, <1>2 DEF LeadInv, RunInv, TypeOK
<1>4. matrix = planner.runners /\ p \in 0 .. planner.runners - 1
  BY <1>1, <1>3, ProcsAre DEF LeadInv, PlanInv, PlanDone
<1>5. HandsOut(p, Shares(p))
  BY <1>1, <1>3, <1>4, LoadPlanEffect, PlannedIsShared, PlanLoads DEF PlanDone
<1>6. /\ setup' = setup /\ planner' = planner /\ plans' = plans
      /\ run'[p].pc = "wait" /\ \A q \in Procs : q # p => run'[q] = run[q]
  BY <1>2, <1>5 DEF ElseUnchanged, HandsOut, Moves
<1>7. /\ \A f \in Files : executed'[f] = executed[f] + IF Executes(p, f) THEN 1 ELSE 0
      /\ executed \in [Files -> Nat]
  BY <1>1, <1>4, <1>5 DEF HandsOut, Executes, TypeOK
<1>8. CIExecInv'
  <2>1. /\ ~ Started(p) /\ Started(p)'
        /\ \A q \in Indices \ {p} : Started(q)' <=> Started(q)
    BY <1>1, <1>2, <1>6, ProcsAre DEF Started
  <2>2. \A i, f : Executes(i, f)' = Executes(i, f)
    BY <1>6 DEF Executes, Shares
  <2>3. \A f \in Files : executed[f] =
          IF \E q \in Indices : Executes(q, f) /\ Started(q) THEN 1 ELSE 0
    BY <1>3 DEF ExecInv, CIExecInv
  <2>4. ASSUME NEW f \in Files
        PROVE  executed'[f] = IF \E q \in Indices : Executes(q, f) /\ Started(q)' THEN 1 ELSE 0
    <3>1. CASE Executes(p, f)
      <4>1. \A q \in Indices : Executes(q, f) => q = p
        BY <1>3, <3>1, PlannedIsShared DEF PlanDone
      <4>2. executed[f] = 0
        BY <2>1, <2>3, <4>1
      <4> QED
        BY <1>7, <2>1, <3>1, <4>2
    <3>2. CASE ~ Executes(p, f)
      <4>1. (\E q \in Indices : Executes(q, f) /\ Started(q)')
              <=> \E q \in Indices : Executes(q, f) /\ Started(q)
        BY <2>1, <3>2
      <4>2. executed'[f] = executed[f]
        BY <1>7, <3>2
      <4> QED
        BY <2>3, <4>1, <4>2
    <3> QED
      BY <3>1, <3>2
  <2> QED
    BY <2>2, <2>4 DEF CIExecInv
<1>9. CleanInv' /\ SequentialInv' /\ ScanInv'
  <2>1. ~ Planning /\ plans # 0
    BY <1>1, <1>2 DEF LeadInv, RunInv
  <2> QED
    BY <1>3, <1>6, <2>1 DEF CleanInv, SequentialInv, ScanInv, FirstLocal, Planning
<1> QED
  BY <1>8, <1>9 DEF ExecInv

(* What the local run knows when it has got the plan.                      *)
LEMMA LocalLoads ==
  ASSUME LeadInv, ExecInv, run[Local].pc \notin {"idle", "status", "planning", "stopped"}
  PROVE  /\ setup = "local" /\ ~ Planning /\ plans # 0
         /\ FirstLocal /\ disk.parallelRunners = 1 /\ planner.pc \in {"done", "failed"}
              => disk.testFiles = planner.files
         /\ FirstLocal /\ PlanDone => disk.testFiles = planner.files
<1>1. setup = "local" /\ ~ Planning /\ plans # 0
  BY ProcsAre DEF LeadInv, RunInv, TypeOK
<1>2. PlanDone => disk.testFiles = planner.files
  BY DEF LeadInv, DiskInv, PlanDone, Listed, Counted
<1>3. FirstLocal /\ disk.parallelRunners = 1 /\ planner.pc = "failed"
        => disk.testFiles = planner.files
  BY DEF LeadInv, FirstPlanInv, FirstLocal
<1> QED
  BY <1>1, <1>2, <1>3 DEF PlanDone

(* A sequential run executes the whole plan, a parallel one starts to scan.*)
LEMMA LocalLoadExec ==
  ASSUME LeadInv, ExecInv, LoadPlan(Local)
  PROVE  ExecInv'
<1>1. TypeOK /\ Local \in Procs /\ Local \notin Indices
  BY ProcsAre DEF LeadInv
<1>2. ElseUnchanged /\ run[Local].pc = "load"
  BY <1>1, LoadPlanEffect
<1>3. /\ setup = "local" /\ ~ Planning /\ plans # 0
      /\ FirstLocal => NothingExecuted
  BY <1>2, LocalLoads DEF ExecInv, CleanInv
<1>4. /\ setup' = setup /\ planner' = planner /\ plans' = plans /\ disk' = disk
      /\ PlanDone' = PlanDone /\ FirstLocal' = FirstLocal
      /\ \A i, f : Executes(i, f)' = Executes(i, f)
  BY <1>2 DEF ElseUnchanged, PlanDone, FirstLocal, Executes, Shares
<1>5. CASE Fails(Local)
  BY <1>1, <1>2, <1>5, StepExecutesNothing DEF Fails
<1>6. CASE HandsOut(Local, disk.testFiles) /\ ~ (disk.parallelRunners > 1)
  <2>1. run'[Local].pc = "wait"
    BY <1>6 DEF HandsOut, Moves
  <2>2. FirstLocal /\ disk.testFiles = planner.files => ExecutedExactly'
    BY <1>3, <1>4, <1>6 DEF HandsOut, NothingExecuted, ExecutedExactly
  <2>3. CleanInv' /\ CIExecInv'
    BY <1>3, <1>4, <2>1 DEF CleanInv, CIExecInv, Planning
  <2>4. SequentialInv' /\ ScanInv'
    BY <1>2, <1>4, <2>1, <2>2, LocalLoads DEF SequentialInv, ScanInv
  <2> QED
    BY <2>3, <2>4 DEF ExecInv
<1>7. CASE BeginsToScan(Local) /\ CanLoad /\ disk.parallelRunners > 1
  <2>1. run'[Local].pc = "scan" /\ run'[Local].todo = SplitEntries /\ executed' = executed
    BY <1>7 DEF BeginsToScan, Moves
  <2>2. CleanInv' /\ CIExecInv'
    BY <1>3, <1>4, <2>1 DEF CleanInv, CIExecInv, Planning
  <2>3. SequentialInv'
    BY <1>4, <1>7, <2>1 DEF SequentialInv
  <2>4. ScanInv'
    <3> SUFFICES ASSUME FirstLocal, PlanDone
                 PROVE  /\ SplitEntries \subseteq 0 .. planner.runners - 1
                        /\ planner.runners > 1
                        /\ \A f \in Files : executed[f] =
                             IF \E i \in Indices \ SplitEntries : Executes(i, f) THEN 1 ELSE 0
      BY <1>4, <2>1 DEF ScanInv
    <3>1. \A i \in Indices : i >= planner.runners => disk.splits[i] = Absent
      BY DEF LeadInv, FirstPlanInv, FirstLocal, Sharing, PlanDone
    <3>2. \A i \in 0 .. planner.runners - 1 : i \in SplitEntries
      BY PlannedIsShared DEF PlanDone, SplitEntries, Loads
    <3>3. planner.runners \in Nat
      BY PlannedIsShared DEF PlanDone
    <3>4. SplitEntries \subseteq 0 .. planner.runners - 1
      BY <3>1, <3>3, ProcsAre DEF SplitEntries
    <3>5. \A f \in Files : ~ \E i \in Indices \ SplitEntries : Executes(i, f)
      BY <3>2 DEF Executes
    <3>6. planner.runners > 1
      BY <1>7 DEF LeadInv, DiskInv, PlanDone, Counted
    <3> QED
      BY <1>3, <3>4, <3>5, <3>6 DEF NothingExecuted
  <2> QED
    BY <2>2, <2>3, <2>4 DEF ExecInv
<1> QED
  BY <1>1, <1>5, <1>6, <1>7, LoadPlanEffect

LEMMA ScanEntryExec ==
  ASSUME LeadInv, ExecInv, NEW p \in Procs, ScanEntry(p)
  PROVE  ExecInv'
<1>1. TypeOK /\ RunInv /\ Local \in Procs /\ Local \notin Indices
  BY ProcsAre DEF LeadInv
<1>2. /\ p = Local /\ Moves(Local, "scan") /\ ElseUnchanged /\ run[Local].pc = "scan"
      /\ run[Local].todo \in SUBSET Indices
  BY <1>1, ScanEntryEffect DEF TypeOK
<1>3. PICK i \in run[Local].todo :
        /\ run'[Local].todo = run[Local].todo \ {i}
        /\ \A f \in Files : executed'[f] = executed[f] + IF f \in disk.splits[i] THEN 1 ELSE 0
  BY <1>1, <1>2, ScanEntryEffect
<1>4. setup = "local" /\ ~ Planning /\ plans # 0
  BY <1>2, LocalLoads
<1>5. /\ setup' = setup /\ planner' = planner /\ plans' = plans /\ disk' = disk
      /\ PlanDone' = PlanDone /\ FirstLocal' = FirstLocal
      /\ \A j, f : Executes(j, f)' = Executes(j, f)
      /\ run'[Local].pc = "scan"
  BY <1>2 DEF ElseUnchanged, PlanDone, FirstLocal, Executes, Shares, Moves
<1>6. CleanInv' /\ CIExecInv' /\ SequentialInv'
  BY <1>2, <1>4, <1>5 DEF ExecInv, CleanInv, CIExecInv, SequentialInv, Planning
<1>7. ScanInv'
  <2> SUFFICES ASSUME FirstLocal, PlanDone
               PROVE  /\ run'[Local].todo \subseteq 0 .. planner.runners - 1
                      /\ planner.runners > 1
                      /\ \A f \in Files : executed'[f] =
                           IF \E j \in Indices \ run'[Local].todo : Executes(j, f) THEN 1 ELSE 0
    BY <1>5 DEF ScanInv
  <2>1. /\ run[Local].todo \subseteq 0 .. planner.runners - 1
        /\ planner.runners > 1
        /\ \A f \in Files : executed[f] =
             IF \E j \in Indices \ run[Local].todo : Executes(j, f) THEN 1 ELSE 0
    BY <1>2 DEF ExecInv, ScanInv
  <2>2. i \in Indices /\ i \in 0 .. planner.runners - 1 /\ disk.splits[i] = Shares(i)
    BY <1>2, <2>1, PlannedIsShared DEF PlanDone
  <2>3. ASSUME NEW f \in Files
        PROVE  executed'[f] =
                 IF \E j \in Indices \ run'[Local].todo : Executes(j, f) THEN 1 ELSE 0
    <3>1. CASE Executes(i, f)
      <4>1. \A j \in Indices : Executes(j, f) => j = i
        BY <2>2, <3>1, PlannedIsShared DEF PlanDone
      <4>2. executed[f] = 0
        BY <1>2, <2>1, <4>1
      <4> QED
        BY <1>3, <2>2, <3>1, <4>2 DEF Executes
    <3>2. CASE ~ Executes(i, f)
      <4>1. (\E j \in Indices \ run'[Local].todo : Executes(j, f))
              <=> \E j \in Indices \ run[Local].todo : Executes(j, f)
        BY <1>3, <3>2
      <4>2. executed'[f] = executed[f]
        BY <1>1, <1>3, <2>2, <3>2 DEF Executes, TypeOK
      <4> QED
        BY <2>1, <4>1, <4>2
    <3> QED
      BY <3>1, <3>2
  <2> QED
    BY <1>3, <2>1, <2>3
<1> QED
  BY <1>6, <1>7 DEF ExecInv

LEMMA ScanEndsExec ==
  ASSUME LeadInv, ExecInv, NEW p \in Procs, ScanEnds(p)
  PROVE  ExecInv'
<1>1. TypeOK /\ RunInv /\ Local \in Procs /\ Local \notin Indices
  BY ProcsAre DEF LeadInv
<1>2. /\ Moves(p, "wait") /\ ElseUnchanged /\ executed' = executed
      /\ run[p].pc = "scan" /\ run[p].todo = {}
  BY <1>1, ScanEndsEffect
<1>3. p = Local
  BY <1>2, ProcsAre DEF LeadInv, RunInv
<1>4. setup = "local" /\ ~ Planning /\ plans # 0
  BY <1>2, <1>3, LocalLoads
<1>5. /\ setup' = setup /\ planner' = planner /\ plans' = plans /\ disk' = disk
      /\ PlanDone' = PlanDone /\ FirstLocal' = FirstLocal
      /\ ExecutedExactly' = ExecutedExactly
      /\ run'[Local].pc = "wait"
  BY <1>2, <1>3 DEF ElseUnchanged, PlanDone, FirstLocal, ExecutedExactly, Moves
<1>6. CleanInv' /\ CIExecInv' /\ SequentialInv'
  BY <1>2, <1>3, <1>4, <1>5 DEF ExecInv, CleanInv, CIExecInv, SequentialInv, Planning
<1>7. ScanInv'
  <2> SUFFICES ASSUME FirstLocal, PlanDone PROVE ExecutedExactly
    BY <1>5 DEF ScanInv
  <2>1. \A f \in Files : executed[f] = IF \E j \in Indices : Executes(j, f) THEN 1 ELSE 0
    BY <1>2, <1>3 DEF ExecInv, ScanInv
  <2>2. \A f \in Files : f \in planner.files <=> \E j \in Indices : Executes(j, f)
    BY PlannedIsShared DEF PlanDone
  <2> QED
    BY <2>1, <2>2 DEF ExecutedExactly
<1> QED
  BY <1>6, <1>7 DEF ExecInv

LEMMA NextExec == LeadInv /\ ExecInv /\ [Next]_vars => ExecInv'
<1> SUFFICES ASSUME LeadInv, ExecInv, [Next]_vars PROVE ExecInv'
  OBVIOUS
<1>1. TypeOK
  BY DEF LeadInv
<1>2. CASE UNCHANGED vars
  BY <1>2 DEF vars, ExecInv, CleanInv, CIExecInv, SequentialInv, ScanInv, Planning, PlanDone,
     NothingExecuted, ExecutedExactly, FirstLocal, Executes, Started, Shares
<1>3. CASE StartPlan
  BY <1>3, BeginIsClean DEF StartPlan
<1>4. CASE PlannerStep \/ Interrupt
  BY <1>4, PlannerStepIsClean, PlanEndIsClean DEF PlannerStep
<1>5. ASSUME NEW p \in Procs, StartRun(p)
      PROVE  ExecInv'
  BY <1>1, <1>5, StartRunEffect, StepExecutesNothing
<1>6. ASSUME NEW p \in Procs, CheckPlanStatus(p)
      PROVE  ExecInv'
  <2>1. CASE BeginPlanning(p)
    BY <2>1, BeginIsClean
  <2>2. CASE ~ BeginPlanning(p)
    <3>1. run \in [Procs -> RunType] /\ "load" \in RunPcs
      BY <1>1 DEF TypeOK, RunType, BatchType, BatchStates, RunPcs
    <3>2. /\ run' = [run EXCEPT ![p].pc = "load"] /\ run[p].pc = "status"
          /\ ElseUnchanged /\ executed' = executed
      BY <1>6, <2>2 DEF CheckPlanStatus, ElseUnchanged
    <3>3. Moves(p, "load")
      BY <3>1, <3>2, PcMoves
    <3> QED
      BY <3>2, <3>3, StepExecutesNothing
  <2> QED
    BY <2>1, <2>2
<1>7. ASSUME NEW p \in Procs, LoadPlan(p)
      PROVE  ExecInv'
  BY <1>7, NodeLoadExec, LocalLoadExec, ProcsAre
<1>8. ASSUME NEW p \in Procs, ScanFails(p)
      PROVE  ExecInv'
  BY <1>1, <1>8, ScanFailsEffect, StepExecutesNothing
<1>9. ASSUME NEW p \in Procs, Wait(p)
      PROVE  ExecInv'
  <2> DEFINE failing == \E w \in Workers : run[p].batch[w].state = "failed"
             pc == IF failing THEN "failed" ELSE "ok"
  <2>1. Moves(p, pc) /\ ElseUnchanged /\ executed' = executed /\ run[p].pc = "wait"
    BY <1>1, <1>9, WaitEffect
  <2>2. pc \in {"ok", "failed"}
    OBVIOUS
  <2> HIDE DEF pc
  <2> QED
    BY <2>1, <2>2, StepExecutesNothing
<1>10. ASSUME NEW p \in Procs, NEW w \in Workers, BatchEnds(p, w)
       PROVE  ExecInv'
  BY <1>1, <1>10, BatchEndsEffect, StepExecutesNothing
<1>11. ASSUME NEW p \in Procs, RunStops(p)
       PROVE  ExecInv'
  BY <1>1, <1>11, RunStopsEffect, StepExecutesNothing
<1> QED
  BY <1>2, <1>3, <1>4, <1>5, <1>6, <1>7, <1>8, <1>9, <1>10, <1>11, ScanEntryExec, ScanEndsExec
     DEF Next, RunStep

LEMMA ExecInvariant == Spec => []ExecInv
BY InitExec, NextExec, LeadInvariant, PTL DEF Spec

(* When all the announced CI nodes succeed, they have run each runnable    *)
(* file of the plan exactly once between them, and nothing else.           *)
THEOREM NodesCoverThePlan == Spec => []CINodesRunThePlan
<1>1. LeadInv /\ ExecInv => CINodesRunThePlan
  <2> SUFFICES ASSUME LeadInv, ExecInv, setup = "ci", PlanDone, matrix > 0,
                      \A p \in 0 .. matrix - 1 : run[p].pc = "ok"
               PROVE  ExecutedExactly
    BY DEF CINodesRunThePlan
  <2>1. matrix = planner.runners
    BY DEF LeadInv, PlanInv, PlanDone
  <2>2. \A f \in Files : executed[f] =
          IF \E p \in Indices : Executes(p, f) /\ Started(p) THEN 1 ELSE 0
    BY DEF ExecInv, CIExecInv
  <2>3. \A p : \A f : Executes(p, f) => Started(p)
    BY <2>1 DEF Executes, Started
  <2>4. \A f \in Files : f \in planner.files <=> \E p \in Indices : Executes(p, f)
    BY PlannedIsShared DEF PlanDone
  <2> QED
    BY <2>2, <2>3, <2>4 DEF ExecutedExactly
<1> QED
  BY <1>1, LeadInvariant, ExecInvariant, PTL

(* If the first plan of a directory is interrupted at any point, a later   *)
(* sequential run that succeeds has run exactly the files of that plan.    *)
THEOREM CrashLeavesWholePlan == Spec => []SequentialSurvivesCrash
<1>1. LeadInv /\ ExecInv => SequentialSurvivesCrash
  <2> SUFFICES ASSUME LeadInv, ExecInv, plans = 1, planner.pc = "failed",
                      run[Local].pc = "ok", disk.parallelRunners = 1
               PROVE  ExecutedExactly
    BY DEF SequentialSurvivesCrash
  <2>1. setup = "local"
    BY LocalLoads
  <2> QED
    BY <2>1 DEF ExecInv, SequentialInv, FirstLocal
<1> QED
  BY <1>1, LeadInvariant, ExecInvariant, PTL

-----------------------------------------------------------------------------
(* The first plan and its runs implement Execution.                        *)

Used == IF setup = "local" THEN {Local} ELSE 0 .. matrix - 1
Failing == \E p \in Used : run[p].pc \in {"failed", "failedRead", "stopped"}
Succeeding == Used # {} /\ \A p \in Used : run[p].pc = "ok"
VerdictRule ==
  /\ ~ PlanDone => Verdict = "planning"
  /\ PlanDone /\ Failing => Verdict = "failed"
  /\ PlanDone /\ Succeeding => Verdict = "ok"
  /\ PlanDone /\ ~ Failing /\ ~ Succeeding => Verdict = "executing"
Results == {"ok", "failed", "failedRead", "stopped"}

LEMMA VerdictIs == VerdictRule /\ VerdictRule'
<1>1. VerdictRule
  BY DEF VerdictRule, Verdict, Used, Failing, Succeeding
<1>2. VerdictRule'
  BY DEF VerdictRule, Verdict, Used, Failing, Succeeding
<1> QED
  BY <1>1, <1>2

FirstPlan == faults = 0 /\ plans <= 1

(* The part of the state that Execution speaks of.                         *)
Planned == IF PlanDone THEN planner.files ELSE {}

LEMMA PromiseStutters ==
  ASSUME Planned' = Planned, executed' = executed, Verdict' = Verdict
  PROVE  UNCHANGED Promise!vars
BY DEF Promise!vars, Planned

LEMMA PromiseInit == Init => Promise!Init
<1> SUFFICES ASSUME Init PROVE Promise!Init
  OBVIOUS
<1>1. ~ PlanDone /\ executed = [f \in Files |-> 0]
  BY DEF Init, PlanDone
<1> QED
  BY <1>1, VerdictIs DEF Promise!Init, VerdictRule

(* A run that has gone on is one that counts, and it has the whole plan.   *)
LEMMA RunsCount ==
  ASSUME LeadInv, FirstPlan, NEW p \in Procs,
         run[p].pc \notin {"idle", "status", "planning", "stopped"}
  PROVE  PlanDone /\ p \in Used /\ (setup = "local" => p = Local /\ FirstLocal)
<1>1. ~ Planning /\ plans # 0
  BY DEF LeadInv, RunInv
<1>2. PlanDone
  BY <1>1 DEF LeadInv, TypeOK, PlanInv, FirstPlan, Planning, PlanDone
<1>3. CASE setup = "local"
  BY <1>2, <1>3, ProcsAre DEF LeadInv, RunInv, Used, FirstPlan, FirstLocal
<1>4. CASE setup # "local"
  <2>1. setup = "ci" /\ matrix \in Nat
    BY <1>4, BoundsAssumption DEF LeadInv, TypeOK
  <2>2. p \in Indices /\ p < matrix
    BY <2>1, ProcsAre DEF LeadInv, RunInv
  <2> QED
    BY <1>2, <2>1, <2>2, ProcsAre DEF Used
<1> QED
  BY <1>3, <1>4

(* No result is reported, so the verdict stays.                            *)
LEMMA VerdictStays ==
  ASSUME LeadInv, NEW p \in Procs, NEW pc, Moves(p, pc), ElseUnchanged,
         pc = run[p].pc \/ (pc \notin Results /\ run[p].pc \notin Results)
  PROVE  Planned' = Planned /\ Verdict' = Verdict
<1>1. /\ PlanDone' = PlanDone /\ Used' = Used /\ planner' = planner
      /\ run'[p].pc = pc /\ \A q \in Procs : q # p => run'[q] = run[q]
  BY DEF ElseUnchanged, PlanDone, Used, Moves
<1>2. \A q \in Used : q \in Procs
  BY ProcsAre, BoundsAssumption DEF LeadInv, TypeOK, Used
<1>3. \A q \in Used : \A r \in Results : run'[q].pc = r <=> run[q].pc = r
  BY <1>1, <1>2 DEF Results
<1>4. Failing' = Failing /\ Succeeding' = Succeeding
  BY <1>1, <1>3 DEF Failing, Succeeding, Results
<1> QED
  BY <1>1, <1>4, VerdictIs DEF VerdictRule, Planned

(* A batch of files none of which was executed before.                     *)
LEMMA PromiseBatch ==
  ASSUME LeadInv, PlanDone, NEW p \in Procs, p \in Used, run[p].pc \notin Results,
         NEW S \in SUBSET planner.files, \A f \in S : executed[f] = 0,
         Planned' = Planned, Verdict' = Verdict,
         executed' \in [Files -> Nat],
         \A f \in Files : executed'[f] = executed[f] + IF f \in S THEN 1 ELSE 0
  PROVE  Promise!Next
<1>1. Verdict \in {"executing", "failed"}
  BY VerdictIs DEF VerdictRule, Failing, Succeeding, Results
<1>2. S \in SUBSET Files /\ executed \in [Files -> Nat] /\ Planned = planner.files
  BY DEF LeadInv, TypeOK, Planned
<1>3. executed' = [f \in Files |-> IF f \in S THEN 1 ELSE executed[f]]
  BY <1>2
<1>4. Promise!ExecuteBatch(S)
  BY <1>1, <1>2, <1>3 DEF Promise!ExecuteBatch, Planned
<1> QED
  BY <1>2, <1>4 DEF Promise!Next

LEMMA BeginPromise ==
  ASSUME LeadInv, ExecInv, FirstPlan', NEW owner, BeginPlanning(owner)
  PROVE  UNCHANGED Promise!vars
<1>1. plans = 0 /\ planner.pc = "never"
  BY BoundsAssumption DEF BeginPlanning, FirstPlan, LeadInv, TypeOK, PlanInv
<1>2. ~ PlanDone /\ ~ PlanDone'
  BY <1>1 DEF BeginPlanning, PlanDone
<1>3. executed' = executed
  <2>1. executed \in [Files -> Nat] /\ \A f \in Files : executed[f] = 0
    BY <1>1 DEF LeadInv, TypeOK, ExecInv, CleanInv, NothingExecuted
  <2> QED
    BY <2>1 DEF BeginPlanning
<1> QED
  BY <1>2, <1>3, VerdictIs, PromiseStutters DEF VerdictRule, Planned

LEMMA PlannerPromise ==
  ASSUME LeadInv, ExecInv, PlannerStep
  PROVE  Promise!Next \/ UNCHANGED Promise!vars
<1>1. planner \in PlannerType /\ Planning /\ ~ PlanDone
  <2>1. planner \in PlannerType
    BY DEF LeadInv, TypeOK, PlannerType
  <2>2. planner.pc \in ArtifactSteps \cup {"prepare"}
    BY Zenon DEF PlannerStep, Prepare, WriteArtifact, Configure, WriteSplit, FinishPlan,
       ArtifactSteps
  <2> QED
    BY <2>1, <2>2 DEF Planning, PlanDone, ArtifactSteps
<1>2. CASE FinishPlan
  <2>1. /\ PlanDone' /\ planner'.files = planner.files /\ executed' = executed
        /\ planner.files \in SUBSET Files /\ planner'.owner = planner.owner
        /\ ~ Planning' /\ setup' = setup /\ plans' = plans /\ matrix' = matrix
    BY <1>1, <1>2 DEF FinishPlan, PlannerType, PlanDone, Planning, ArtifactSteps
  <2>2. ResumeRun("load") /\ SplitEntries' = SplitEntries
    BY <1>2 DEF FinishPlan, SplitEntries
  <2>3. \A p \in Procs : run'[p].pc \in {"idle", "load"}
    BY <1>1, <2>1, <2>2, ResumeLead
  <2>4. \A p \in Used' : p \in Procs
    BY <2>1, ProcsAre, BoundsAssumption DEF LeadInv, TypeOK, Used
  <2>5. ~ Failing' /\ ~ Succeeding'
    BY <2>3, <2>4 DEF Failing, Succeeding
  <2>6. Verdict = "planning" /\ Verdict' = "executing"
    BY <1>1, <2>1, <2>5, VerdictIs DEF VerdictRule
  <2>7. Promise!Plan(planner.files)
    BY <2>1, <2>6 DEF Promise!Plan
  <2> QED
    BY <2>1, <2>7 DEF Promise!Next
<1>3. CASE Prepare \/ WriteArtifact \/ Configure \/ WriteSplit
  <2>1. ~ PlanDone'
    <3>1. CASE Prepare
      <4>1. PICK S \in SUBSET Files, n \in 1 .. MaxRunners :
              planner' = [planner EXCEPT !.pc = "manifest", !.files = S, !.runners = n]
        BY <3>1, Zenon DEF Prepare
      <4> QED
        BY <1>1, <4>1 DEF PlannerType, PlanDone
    <3>2. CASE WriteArtifact
      BY <1>1, <3>2 DEF WriteArtifact, PlannerType, StepAfter, PlanDone
    <3>3. CASE Configure
      BY <1>1, <3>3 DEF Configure, PlannerType, PlanDone
    <3>4. CASE WriteSplit
      BY <1>1, <3>4 DEF WriteSplit, PlannerType, PlanDone
    <3> QED
      BY <1>3, <3>1, <3>2, <3>3, <3>4
  <2>2. executed' = executed
    BY <1>3, Zenon DEF Prepare, WriteArtifact, Configure, WriteSplit
  <2> QED
    BY <1>1, <2>1, <2>2, VerdictIs, PromiseStutters DEF VerdictRule, Planned
<1> QED
  BY <1>2, <1>3 DEF PlannerStep

LEMMA LoadPromise ==
  ASSUME LeadInv, ExecInv, FirstPlan, NEW p \in Procs, LoadPlan(p)
  PROVE  Promise!Next \/ UNCHANGED Promise!vars
<1>1. TypeOK /\ planner.files \in SUBSET Files /\ executed \in [Files -> Nat]
  BY DEF LeadInv, TypeOK
<1>2. ElseUnchanged /\ run[p].pc = "load"
  BY <1>1, LoadPlanEffect
<1>3. PlanDone /\ p \in Used /\ (setup = "local" => p = Local /\ FirstLocal)
  BY <1>2, RunsCount
<1>4. CanLoad /\ Loads(disk.testFiles) /\ disk.splitsDir
  BY <1>3, PlanLoads
<1>5. CASE p \in Indices
  <2>1. setup = "ci" /\ p \in 0 .. matrix - 1 /\ matrix \in Nat
    BY <1>1, <1>3, <1>5, ProcsAre, BoundsAssumption DEF Used, TypeOK
  <2>2. p \in 0 .. planner.runners - 1
    BY <1>3, <2>1 DEF LeadInv, PlanInv, PlanDone
  <2>3. /\ Loads(disk.splits[p]) /\ disk.splits[p] = Shares(p)
        /\ Shares(p) \in SUBSET planner.files
    BY <1>3, <2>2, PlannedIsShared DEF PlanDone
  <2>4. HandsOut(p, Shares(p))
    BY <1>1, <1>4, <1>5, <2>3, LoadPlanEffect, ProcsAre
  <2>5. Planned' = Planned /\ Verdict' = Verdict
    BY <1>2, <2>4, VerdictStays DEF HandsOut, Results
  <2>6. ASSUME NEW f \in Shares(p) PROVE executed[f] = 0
    <3>1. Executes(p, f) /\ f \in Files
      BY <1>1, <2>2, <2>3 DEF Executes
    <3>2. \A q \in Indices : Executes(q, f) => q = p
      BY <1>3, <1>5, <3>1, PlannedIsShared DEF PlanDone
    <3>3. ~ Started(p)
      BY <1>2 DEF Started
    <3> QED
      BY <1>3, <2>1, <3>1, <3>2, <3>3 DEF ExecInv, CIExecInv
  <2> QED
    BY <1>2, <1>3, <2>3, <2>4, <2>5, <2>6, PromiseBatch DEF HandsOut, Results
<1>6. CASE p = Local /\ p \notin Indices
  <2>1. setup = "local" /\ NothingExecuted /\ disk.testFiles = planner.files
    <3>1. setup = "local"
      BY <1>2, <1>6, LocalLoads
    <3> QED
      BY <1>2, <1>3, <1>6, <3>1, LocalLoads DEF ExecInv, CleanInv
  <2>2. CASE HandsOut(p, disk.testFiles)
    <3>1. Planned' = Planned /\ Verdict' = Verdict
      BY <1>2, <2>2, VerdictStays DEF HandsOut, Results
    <3> QED
      BY <1>1, <1>2, <1>3, <2>1, <2>2, <3>1, PromiseBatch DEF HandsOut, Results, NothingExecuted
  <2>3. CASE BeginsToScan(p)
    <3>1. Planned' = Planned /\ Verdict' = Verdict
      BY <1>2, <2>3, VerdictStays DEF BeginsToScan, Results
    <3> QED
      BY <2>3, <3>1, PromiseStutters DEF BeginsToScan
  <2> QED
    BY <1>1, <1>4, <1>6, <2>2, <2>3, LoadPlanEffect
<1> QED
  BY <1>5, <1>6, ProcsAre

LEMMA ScanPromise ==
  ASSUME LeadInv, ExecInv, FirstPlan, NEW p \in Procs, ScanEntry(p)
  PROVE  Promise!Next
<1>1. TypeOK /\ RunInv /\ planner.files \in SUBSET Files /\ executed \in [Files -> Nat]
  BY DEF LeadInv, TypeOK
<1>2. /\ p = Local /\ Moves(p, "scan") /\ ElseUnchanged /\ run[p].pc = "scan"
      /\ executed' \in [Files -> Nat]
  BY <1>1, ScanEntryEffect
<1>3. PICK i \in run[p].todo :
        \A f \in Files : executed'[f] = executed[f] + IF f \in disk.splits[i] THEN 1 ELSE 0
  BY <1>1, ScanEntryEffect
<1>4. PlanDone /\ p \in Used /\ FirstLocal
  <2>1. setup = "local"
    BY <1>2, LocalLoads
  <2> QED
    BY <1>2, <2>1, RunsCount
<1>5. /\ run[p].todo \subseteq 0 .. planner.runners - 1
      /\ \A f \in Files : executed[f] =
           IF \E j \in Indices \ run[p].todo : Executes(j, f) THEN 1 ELSE 0
  BY <1>2, <1>4 DEF ExecInv, ScanInv
<1>6. /\ i \in 0 .. planner.runners - 1 /\ i \in Indices /\ disk.splits[i] = Shares(i)
      /\ Shares(i) \in SUBSET planner.files
  BY <1>4, <1>5, PlannedIsShared DEF PlanDone
<1>7. ASSUME NEW f \in Shares(i) PROVE executed[f] = 0
  <2>1. Executes(i, f) /\ f \in Files
    BY <1>1, <1>6 DEF Executes
  <2>2. \A j \in Indices : Executes(j, f) => j = i
    BY <1>4, <1>6, <2>1, PlannedIsShared DEF PlanDone
  <2> QED
    BY <1>5, <2>1, <2>2
<1>8. Planned' = Planned /\ Verdict' = Verdict
  BY <1>2, VerdictStays
<1> QED
  BY <1>2, <1>3, <1>4, <1>6, <1>7, <1>8, PromiseBatch DEF Results

LEMMA ScanFailsPromise ==
  ASSUME LeadInv, FirstPlan, NEW p \in Procs, ScanFails(p)
  PROVE  Promise!Next
<1>1. /\ Moves(p, "failedRead") /\ ElseUnchanged /\ executed' = executed
      /\ run[p].pc = "scan"
  BY ScanFailsEffect DEF LeadInv
<1>2. PlanDone /\ p \in Used
  BY <1>1, RunsCount
<1>3. /\ PlanDone' /\ Used' = Used /\ planner' = planner /\ run'[p].pc = "failedRead"
  BY <1>1, <1>2 DEF ElseUnchanged, PlanDone, Used, Moves
<1>4. Verdict # "ok" /\ Verdict' = "failed"
  <2>1. ~ Succeeding /\ Failing'
    BY <1>1, <1>2, <1>3 DEF Succeeding, Failing
  <2> QED
    BY <1>2, <1>3, <2>1, VerdictIs DEF VerdictRule
<1>5. Promise!Fail
  BY <1>1, <1>3, <1>4 DEF Promise!Fail, PlanDone
<1> QED
  BY <1>5 DEF Promise!Next

LEMMA RunStopsPromise ==
  ASSUME LeadInv, NEW p \in Procs, RunStops(p)
  PROVE  Promise!Next \/ UNCHANGED Promise!vars
<1>1. /\ Moves(p, "stopped") /\ ElseUnchanged /\ executed' = executed
      /\ run[p].pc \in {"status", "load"}
  BY RunStopsEffect DEF LeadInv
<1>2. p \in Used
  <2>1. setup = "local" => p = Local
    BY <1>1, ProcsAre DEF LeadInv, RunInv
  <2>2. setup # "local" => p \in Indices /\ p < matrix /\ matrix \in Nat
    BY <1>1, ProcsAre, BoundsAssumption DEF LeadInv, TypeOK, RunInv
  <2> QED
    BY <2>1, <2>2, ProcsAre DEF Used
<1>3. /\ PlanDone' = PlanDone /\ Used' = Used /\ planner' = planner /\ run'[p].pc = "stopped"
  BY <1>1 DEF ElseUnchanged, PlanDone, Used, Moves
<1>4. CASE PlanDone
  <2>1. ~ Succeeding /\ Failing'
    BY <1>1, <1>2, <1>3 DEF Succeeding, Failing
  <2>2. Verdict \in {"executing", "failed"} /\ Verdict' = "failed"
    BY <1>3, <1>4, <2>1, VerdictIs DEF VerdictRule
  <2>3. Promise!Fail
    BY <1>1, <1>3, <1>4, <2>2 DEF Promise!Fail, PlanDone
  <2> QED
    BY <2>3 DEF Promise!Next
<1>5. CASE ~ PlanDone
  BY <1>1, <1>3, <1>5, VerdictIs, PromiseStutters DEF VerdictRule, Planned
<1> QED
  BY <1>4, <1>5

LEMMA WaitPromise ==
  ASSUME LeadInv, ExecInv, ExecInv', LeadInv', FirstPlan, NEW p \in Procs, Wait(p)
  PROVE  Promise!Next \/ UNCHANGED Promise!vars
<1>1. /\ \E pc \in {"ok", "failed"} : Moves(p, pc)
      /\ ElseUnchanged /\ executed' = executed /\ run[p].pc = "wait"
  <2> DEFINE failing == \E w \in Workers : run[p].batch[w].state = "failed"
             pc == IF failing THEN "failed" ELSE "ok"
  <2>1. /\ Moves(p, pc) /\ ElseUnchanged /\ executed' = executed /\ run[p].pc = "wait"
    BY WaitEffect DEF LeadInv
  <2>2. pc \in {"ok", "failed"}
    OBVIOUS
  <2> HIDE DEF pc
  <2> QED
    BY <2>1, <2>2
<1>2. PlanDone /\ p \in Used /\ (setup = "local" => p = Local /\ FirstLocal)
  BY <1>1, RunsCount
<1>3. /\ PlanDone' /\ Used' = Used /\ planner' = planner /\ setup' = setup
      /\ plans' = plans /\ matrix' = matrix
      /\ run'[p].pc \in {"ok", "failed"} /\ \A q \in Procs : q # p => run'[q] = run[q]
  BY <1>1, <1>2 DEF ElseUnchanged, PlanDone, Used, Moves
<1>4. ~ Succeeding
  BY <1>1, <1>2 DEF Succeeding
<1>5. \A q \in Used : q \in Procs
  BY ProcsAre, BoundsAssumption DEF LeadInv, TypeOK, Used
<1>6. Failing => Failing'
  BY <1>1, <1>3, <1>5 DEF Failing
<1>7. CASE Failing'
  <2>1. Verdict # "ok" /\ Verdict' = "failed"
    BY <1>2, <1>3, <1>4, <1>7, VerdictIs DEF VerdictRule
  <2>2. Promise!Fail
    BY <1>1, <1>2, <1>3, <2>1 DEF Promise!Fail
  <2> QED
    BY <2>2 DEF Promise!Next
<1>8. CASE ~ Failing' /\ Succeeding'
  <2>1. Verdict = "executing" /\ Verdict' = "ok"
    BY <1>2, <1>3, <1>4, <1>6, <1>8, VerdictIs DEF VerdictRule
  <2>2. ExecutedExactly'
    <3>1. CASE setup = "local"
      <4>1. FirstLocal' /\ run'[Local].pc = "ok"
        BY <1>2, <1>3, <1>8, <3>1 DEF FirstLocal, Succeeding, Used
      <4> QED
        BY <1>3, <4>1 DEF ExecInv, ScanInv
    <3>2. CASE setup # "local"
      <4>1. /\ setup' = "ci" /\ matrix' \in Nat
            /\ \A q \in 0 .. matrix' - 1 : run'[q].pc = "ok"
            /\ matrix' > 0
        <5>1. setup' = "ci" /\ matrix' \in Nat
          BY <1>3, <3>2, BoundsAssumption DEF LeadInv, TypeOK
        <5>2. Used' = 0 .. matrix' - 1
          BY <5>1 DEF Used
        <5>3. Used' # {} /\ \A q \in Used' : run'[q].pc = "ok"
          BY <1>8 DEF Succeeding
        <5>4. \A q \in 0 .. matrix' - 1 : run'[q].pc = "ok"
          BY <5>2, <5>3
        <5>5. \A m \in Nat : 0 .. m - 1 # {} => m > 0
          OBVIOUS
        <5>6. matrix' > 0
          BY <5>1, <5>2, <5>3, <5>5
        <5> QED
          BY <5>1, <5>4, <5>6
      <4>2. matrix' = planner.runners
        BY <1>3, <4>1 DEF LeadInv, PlanInv, PlanDone
      <4>3. \A f \in Files : executed'[f] =
              IF \E q \in Indices : Executes(q, f)' /\ Started(q)' THEN 1 ELSE 0
        BY <1>3, <4>1 DEF ExecInv, CIExecInv
      <4>4. \A q, f : Executes(q, f)' <=> Executes(q, f)
        BY <1>3 DEF Executes, Shares
      <4>5. \A q \in Indices : \A f : Executes(q, f) => Started(q)'
        BY <4>1, <4>2 DEF Executes, Started
      <4>6. \A f \in Files : f \in planner.files <=> \E q \in Indices : Executes(q, f)
        BY <1>2, PlannedIsShared DEF PlanDone
      <4> QED
        BY <1>3, <4>3, <4>4, <4>5, <4>6 DEF ExecutedExactly
    <3> QED
      BY <3>1, <3>2
  <2>3. \A f \in Planned : executed[f] = 1
    <3>1. Planned \subseteq Files /\ Planned = planner.files
      BY <1>2 DEF LeadInv, TypeOK, Planned
    <3> QED
      BY <1>1, <1>3, <2>2, <3>1 DEF ExecutedExactly
  <2>4. Promise!Succeed
    BY <1>1, <1>2, <1>3, <2>1, <2>3 DEF Promise!Succeed, Planned
  <2> QED
    BY <2>4 DEF Promise!Next
<1>9. CASE ~ Failing' /\ ~ Succeeding'
  <2>1. Verdict = "executing" /\ Verdict' = "executing"
    BY <1>2, <1>3, <1>4, <1>6, <1>9, VerdictIs DEF VerdictRule
  <2> QED
    BY <1>1, <1>2, <1>3, <2>1, PromiseStutters DEF Planned
<1> QED
  BY <1>7, <1>8, <1>9

LEMMA NextPromise ==
  LeadInv /\ BatchInv /\ ExecInv /\ LeadInv' /\ ExecInv' /\ [Next]_vars
    /\ faults' = 0 /\ plans' <= 1 => Promise!Next \/ UNCHANGED Promise!vars
<1> SUFFICES ASSUME LeadInv, BatchInv, ExecInv, LeadInv', ExecInv', [Next]_vars, FirstPlan'
             PROVE  Promise!Next \/ UNCHANGED Promise!vars
  BY DEF FirstPlan
<1>1. TypeOK /\ RunInv
  BY DEF LeadInv
<1>2. FirstPlan
  <2>1. faults \in Nat /\ plans \in Nat /\ faults' \in Nat /\ plans' \in Nat
    BY <1>1, BoundsAssumption DEF LeadInv, TypeOK
  <2>2. faults' \in {faults, faults + 1} /\ plans' \in {plans, plans + 1}
    BY Zenon DEF vars, Next, PlannerStep, RunStep, StartPlan, BeginPlanning, Prepare, WriteArtifact,
       Configure, WriteSplit, FinishPlan, Interrupt, StartRun, CheckPlanStatus, LoadPlan, ScanEntry,
       ScanEnds, ScanFails, RunStops, Wait, BatchEnds
  <2> QED
    BY <2>1, <2>2 DEF FirstPlan
<1>3. CASE UNCHANGED vars
  <2>1. Planned' = Planned /\ executed' = executed /\ PlanDone' = PlanDone
        /\ Failing' = Failing /\ Succeeding' = Succeeding
    BY <1>3 DEF vars, Planned, PlanDone, Failing, Succeeding, Used
  <2> QED
    BY <2>1, VerdictIs, PromiseStutters DEF VerdictRule
<1>4. CASE StartPlan
  BY <1>4, BeginPromise DEF StartPlan
<1>5. CASE PlannerStep
  BY <1>5, PlannerPromise
<1>6. ~ Interrupt
  BY <1>1, BoundsAssumption DEF TypeOK, Interrupt, FirstPlan
<1>7. ASSUME NEW p \in Procs, StartRun(p)
      PROVE  UNCHANGED Promise!vars
  <2>1. /\ Moves(p, "status") /\ ElseUnchanged /\ executed' = executed /\ run[p].pc = "idle"
    BY <1>1, <1>7, StartRunEffect
  <2> QED
    BY <2>1, VerdictStays, PromiseStutters DEF Results
<1>8. ASSUME NEW p \in Procs, CheckPlanStatus(p)
      PROVE  UNCHANGED Promise!vars
  <2>1. CASE BeginPlanning(p)
    BY <2>1, BeginPromise
  <2>2. CASE ~ BeginPlanning(p)
    <3>1. run \in [Procs -> RunType] /\ "load" \in RunPcs
      BY <1>1 DEF TypeOK, RunType, BatchType, BatchStates, RunPcs
    <3>2. /\ run' = [run EXCEPT ![p].pc = "load"] /\ run[p].pc = "status"
          /\ ElseUnchanged /\ executed' = executed
      BY <1>8, <2>2 DEF CheckPlanStatus, ElseUnchanged
    <3>3. Moves(p, "load")
      BY <3>1, <3>2, PcMoves
    <3> QED
      BY <3>2, <3>3, VerdictStays, PromiseStutters DEF Results
  <2> QED
    BY <2>1, <2>2
<1>9. ASSUME NEW p \in Procs, ScanEnds(p)
      PROVE  UNCHANGED Promise!vars
  <2>1. Moves(p, "wait") /\ ElseUnchanged /\ executed' = executed /\ run[p].pc = "scan"
    BY <1>1, <1>9, ScanEndsEffect
  <2> QED
    BY <2>1, VerdictStays, PromiseStutters DEF Results
<1>10. ASSUME NEW p \in Procs, NEW w \in Workers, BatchEnds(p, w)
       PROVE  UNCHANGED Promise!vars
  <2>1. Moves(p, run[p].pc) /\ ElseUnchanged /\ executed' = executed
    BY <1>1, <1>10, BatchEndsEffect
  <2> QED
    BY <2>1, VerdictStays, PromiseStutters
<1> QED
  BY <1>2, <1>3, <1>4, <1>5, <1>6, <1>7, <1>8, <1>9, <1>10, LoadPromise, ScanPromise,
     ScanFailsPromise, RunStopsPromise, WaitPromise DEF Next, RunStep

(* The first plan of a directory and the runs that use it implement        *)
(* Execution as long as nothing crashes and no write fails.                *)
THEOREM FirstPlanIsKept == Spec => KeepsPromise
<1> DEFINE Keeps == faults' = 0 /\ plans' <= 1 => [Promise!Next]_(Promise!vars)
<1>1. LeadInv /\ BatchInv /\ ExecInv /\ LeadInv' /\ ExecInv' /\ [Next]_vars => [Keeps]_vars
  BY NextPromise
<1>2. Init => Promise!Init
  BY PromiseInit
<1>3. Spec => []BatchInv
  BY InitBatch, NextBatch, LeadInvariant, PTL DEF Spec
<1> QED
  BY <1>1, <1>2, <1>3, LeadInvariant, ExecInvariant, PTL DEF Spec, KeepsPromise
=============================================================================
