--------------------------- MODULE PlanningProofs ---------------------------
(***************************************************************************)
(* Proofs about Planning, for every setting, every answer of the backend   *)
(* and every interleaving of the three goroutines: what a cancellation of  *)
(* full discovery may cost, that TIA's suites do not depend on which       *)
(* discovery won, which failures strict discovery blames, and that no      *)
(* goroutine runs in circles; about DiscoveryCache, which spares a planning*)
(* its full discovery, for every number of versions, commits,              *)
(* configurations and plans; and about SuiteAggregates, what is planned of *)
(* the discovery that was chosen, for any tests, suites, files, skips and  *)
(* durations.                                                              *)
(***************************************************************************)
EXTENDS Planning, DiscoveryCache, SuiteAggregates, FiniteSetTheorems,
        WellFoundedInduction, TLAPS

Asked == {"skippables", "noSkips", "durations", "close", "done"}
Matched == {"noSkips", "durations", "close", "done"}

(* What the backend goroutine knows, unless it failed.                     *)
BackendInv ==
  /\ groupErr => backend.pc \in {"close", "done"}
  /\ backend.pc \in Asked /\ ~groupErr =>
       (backend.tia <=> TIAOn)
  /\ backend.pc \in Matched /\ ~groupErr => backend.matcher = Skippable(TIAOn)

(* Discovery is cancelled for a failure, or when TIA has nothing to skip   *)
(* and full discovery is not forced.                                       *)
CancelInv ==
  /\ cancelled => backend.pc \in Asked
  /\ cancelled /\ TIAOn /\ (input.skippables \/ input.force) => groupErr

(* Full discovery that neither broke nor succeeded was cancelled, and an   *)
(* error that counts is one that no cancellation explains.                 *)
FullInv ==
  /\ full.pc = "notNeeded" => ~Needed
  /\ full.pc \in {"killed", "failed", "stopped"} /\ ~cancelled => full.broken
  /\ full.pc = "stopped" /\ full.broken /\ ~full.err => cancelled
  /\ full.err => full.broken
  /\ full.broken => full.pc \in {"failed", "stopped"}

(* The plan is made once, when everything that it depends on is settled.   *)
ChoiceInv ==
  /\ plan.status # "preparing" => AllReturned
  /\ plan.status = "failedStrict" => input.strict /\ full.err
  /\ Planned =>
       /\ ~groupErr
       /\ FullSucceeded => plan.mode = "full" /\ plan.skips = backend.matcher
       /\ ~FullSucceeded =>
            /\ plan.mode = "fast" /\ ~(input.strict /\ full.err)
            /\ plan.skips = {k \in backend.matcher : k = "tia" /\ input.level = "suite"}

PlanningInv == TypeOK /\ BackendInv /\ CancelInv /\ FullInv /\ ChoiceInv

LEMMA InitPlanningInv == Init => PlanningInv
<1> SUFFICES ASSUME Init PROVE PlanningInv
  OBVIOUS
<1>1. TypeOK
  BY DEF Init, TypeOK
<1>2. BackendInv /\ CancelInv /\ FullInv /\ ChoiceInv
  BY DEF Init, BackendInv, CancelInv, FullInv, ChoiceInv, Asked, Matched, Planned
<1> QED
  BY <1>1, <1>2 DEF PlanningInv

-----------------------------------------------------------------------------
(* Each goroutine disturbs what is said of itself; a plan does not change. *)

LEMMA BackendSteps == PlanningInv /\ BackendStep => PlanningInv'
<1> SUFFICES ASSUME PlanningInv, BackendStep PROVE PlanningInv'
  OBVIOUS
<1> USE DEF PlanningInv, TypeOK, Inputs, BackendInv, CancelInv, FullInv, ChoiceInv, Asked,
            Matched, AllReturned, Planned, FullSucceeded, Needed, TIAOn, Skippable
<1>1. CASE Initialize
  <2>1. TypeOK'
    BY <1>1 DEF Initialize
  <2>2. BackendInv' /\ CancelInv'
    <3>1. PICK initialized \in InitializeOutcomes :
            /\ backend' = [backend EXCEPT !.pc = IF initialized = "ok" THEN "settings" ELSE "close"]
            /\ groupErr' = (initialized = "error")
      BY <1>1 DEF Initialize
    <3>2. CASE initialized = "ok"
      BY <1>1, <3>1, <3>2 DEF Initialize
    <3>3. CASE initialized = "error"
      BY <1>1, <3>1, <3>3 DEF Initialize
    <3> QED
      BY <3>1, <3>2, <3>3, InitializeOutcomesAssumption
  <2>3. FullInv' /\ ChoiceInv'
    BY <1>1 DEF Initialize
  <2> QED
    BY <2>1, <2>2, <2>3
<1>2. CASE ReadSettings
  <2>1. TypeOK'
    <3>1. backend' = [pc |-> "skippables", matcher |-> backend.matcher, tia |-> TIAOn]
      BY <1>2 DEF ReadSettings
    <3>2. cancelled' \in BOOLEAN /\ UNCHANGED <<input, full, fast, cacheFile, groupErr, plan>>
      BY <1>2 DEF ReadSettings
    <3> QED
      BY <3>1, <3>2
  <2>2. BackendInv' /\ CancelInv'
    BY <1>2 DEF ReadSettings
  <2>3. FullInv' /\ ChoiceInv'
    BY <1>2 DEF ReadSettings
  <2> QED
    BY <2>1, <2>2, <2>3
<1>3. CASE FetchSkippables
  <2>1. TypeOK'
    <3>1. backend' = [pc |-> "noSkips", tia |-> backend.tia,
                     matcher |-> Skippable(backend.tia)]
      BY <1>3 DEF FetchSkippables
    <3>2. Skippable(backend.tia) \in SUBSET Kinds
      OBVIOUS
    <3> HIDE DEF Skippable
    <3> QED
      BY <1>3, <3>1, <3>2 DEF FetchSkippables
  <2>2. BackendInv' /\ CancelInv'
    BY <1>3 DEF FetchSkippables
  <2>3. FullInv' /\ ChoiceInv'
    BY <1>3 DEF FetchSkippables
  <2> QED
    BY <2>1, <2>2, <2>3
<1>4. CASE StopUselessDiscovery
  <2>1. TypeOK'
    BY <1>4 DEF StopUselessDiscovery
  <2>2. BackendInv'
    BY <1>4 DEF StopUselessDiscovery
  <2>3. CancelInv'
    <3>1. TIAOn /\ input.skippables /\ ~groupErr => "tia" \in backend.matcher
      BY <1>4 DEF StopUselessDiscovery, Kinds
    <3> QED
      BY <1>4, <3>1 DEF StopUselessDiscovery
  <2>4. FullInv' /\ ChoiceInv'
    BY <1>4 DEF StopUselessDiscovery
  <2> QED
    BY <2>1, <2>2, <2>3, <2>4
<1>5. CASE FetchDurations
  BY <1>5 DEF FetchDurations
<1>6. CASE CloseBackend
  BY <1>6 DEF CloseBackend
<1> QED
  BY <1>1, <1>2, <1>3, <1>4, <1>5, <1>6 DEF BackendStep

LEMMA FullSteps ==
  PlanningInv /\ (FullStep \/ FrameworkStep) => PlanningInv'
<1> SUFFICES ASSUME PlanningInv, FullStep \/ FrameworkStep PROVE PlanningInv'
  OBVIOUS
<1> USE DEF PlanningInv, TypeOK, BackendInv, CancelInv, FullInv, ChoiceInv, FullEnds,
            AllReturned, Planned, FullSucceeded, Needed, TIAOn, Skippable
<1>1. CASE StartFull
  BY <1>1 DEF StartFull
<1>2. CASE RestoreCache
  BY <1>2 DEF RestoreCache
<1>3. CASE LaunchDiscovery
  BY <1>3 DEF LaunchDiscovery
<1>4. CASE KillDiscovery \/ KilledReturns
  BY <1>4 DEF KillDiscovery, KilledReturns
<1>5. CASE CheckCancelled
  <2>1. TypeOK'
    <3>1. full' = [pc |-> "stopped", err |-> ~cancelled, broken |-> full.broken]
      BY <1>5 DEF CheckCancelled
    <3>2. UNCHANGED <<input, cancelled, backend, fast, cacheFile, groupErr, plan>>
      BY <1>5 DEF CheckCancelled
    <3> QED
      BY <3>1, <3>2
  <2>2. BackendInv' /\ CancelInv'
    BY <1>5 DEF CheckCancelled
  <2>3. FullInv' /\ ChoiceInv'
    BY <1>5 DEF CheckCancelled
  <2> QED
    BY <2>1, <2>2, <2>3
<1>6. CASE StoreCache
  BY <1>6 DEF StoreCache
<1>7. CASE DiscoveryCompletes
  BY <1>7 DEF DiscoveryCompletes
<1>8. CASE DiscoveryBreaks
  <2>1. TypeOK'
    <3>1. full' = [pc |-> "failed", err |-> full.err, broken |-> TRUE]
      BY <1>8 DEF DiscoveryBreaks
    <3>2. /\ cacheFile' \in {cacheFile, "partial"}
          /\ UNCHANGED <<input, cancelled, backend, fast, groupErr, plan>>
      BY <1>8 DEF DiscoveryBreaks
    <3> QED
      BY <3>1, <3>2
  <2>2. BackendInv' /\ CancelInv'
    BY <1>8 DEF DiscoveryBreaks
  <2>3. FullInv' /\ ChoiceInv'
    BY <1>8 DEF DiscoveryBreaks
  <2> QED
    BY <2>1, <2>2, <2>3
<1> QED
  BY <1>1, <1>2, <1>3, <1>4, <1>5, <1>6, <1>7, <1>8 DEF FullStep, FrameworkStep

LEMMA FastStep == PlanningInv /\ FastDiscovery => PlanningInv'
BY DEF PlanningInv, TypeOK, BackendInv, CancelInv, FullInv, ChoiceInv, AllReturned, Planned,
   FullSucceeded, Needed, TIAOn, Skippable, FastDiscovery

LEMMA ChoiceStep == PlanningInv /\ ChooseDiscovery => PlanningInv'
<1> SUFFICES ASSUME PlanningInv, ChooseDiscovery PROVE PlanningInv'
  OBVIOUS
<1> USE DEF PlanningInv, TypeOK, Inputs, BackendInv, CancelInv, FullInv, ChoiceInv, AllReturned,
            Planned, FullSucceeded, Needed, TIAOn, Skippable, ChooseDiscovery, PlanWith, FailPlan
<1>1. CASE groupErr
  BY <1>1
<1>2. CASE ~groupErr /\ FullSucceeded
  BY <1>2
<1>3. CASE ~groupErr /\ ~FullSucceeded
  BY <1>3
<1> QED
  BY <1>1, <1>2, <1>3

LEMMA NextPlanningInv == PlanningInv /\ [Next]_vars => PlanningInv'
<1> SUFFICES ASSUME PlanningInv, [Next]_vars PROVE PlanningInv'
  OBVIOUS
<1>1. CASE UNCHANGED vars
  BY <1>1 DEF vars, PlanningInv, TypeOK, BackendInv, CancelInv, FullInv, ChoiceInv,
     AllReturned, Planned, FullSucceeded, Needed, TIAOn, Skippable
<1> QED
  BY <1>1, BackendSteps, FullSteps, FastStep, ChoiceStep DEF Next

LEMMA PlanningInvariant == Spec => []PlanningInv
BY InitPlanningInv, NextPlanningInv, PTL DEF Spec

-----------------------------------------------------------------------------

(* PreparePlanningData: whenever the backend cancels full discovery while  *)
(* TIA has something to skip, or full discovery is forced, no test that    *)
(* TIA or Test Management would skip is run for it.                        *)
THEOREM CancellationIsFree == Spec => []CancellationLosesNoSkips
<1>1. PlanningInv => CancellationLosesNoSkips
  <2> SUFFICES ASSUME PlanningInv, Planned, Needed, TIAOn, input.skippables \/ input.force,
                      ~full.broken
               PROVE  plan.skips = Skippable(TIAOn)
    BY DEF CancellationLosesNoSkips
  <2>1. AllReturned /\ ~groupErr
    BY DEF PlanningInv, ChoiceInv, Planned
  <2>2. ~cancelled /\ backend.matcher = Skippable(TIAOn)
    BY <2>1 DEF PlanningInv, BackendInv, CancelInv, Matched, AllReturned
  <2>3. FullSucceeded
    BY <2>1, <2>2 DEF PlanningInv, FullInv, FullEnds, FullSucceeded, AllReturned
  <2> QED
    BY <2>2, <2>3 DEF PlanningInv, ChoiceInv
<1> QED
  BY <1>1, PlanningInvariant, PTL

(* TIA's suites are skipped in suite level skipping exactly when the       *)
(* backend names some, with full and with fast discovery.                  *)
THEOREM SuiteSkipsAreStable == Spec => []SuiteSkipsDoNotDependOnTheRace
<1>1. PlanningInv => SuiteSkipsDoNotDependOnTheRace
  <2> SUFFICES ASSUME PlanningInv, Planned, input.level = "suite"
               PROVE  "tia" \in plan.skips <=> TIAOn /\ input.skippables
    BY DEF SuiteSkipsDoNotDependOnTheRace, TIAOn, PlanningInv, TypeOK, Inputs
  <2>1. backend.matcher = Skippable(TIAOn)
    BY DEF PlanningInv, BackendInv, ChoiceInv, Matched, AllReturned, Planned
  <2>2. "tia" \in backend.matcher <=> TIAOn /\ input.skippables
    BY <2>1 DEF Skippable, Kinds
  <2> QED
    BY <2>2 DEF PlanningInv, ChoiceInv
<1> QED
  BY <1>1, PlanningInvariant, PTL

(* The strict mode fails a plan for a broken discovery only, and for every *)
(* broken discovery that was not cancelled by then.                        *)
THEOREM StrictIsJust == Spec => []StrictBlamesOnlyRealFailures
<1>1. PlanningInv => StrictBlamesOnlyRealFailures
  BY DEF PlanningInv, TypeOK, Inputs, FullInv, ChoiceInv, AllReturned, FullEnds, Planned,
     FullSucceeded, StrictBlamesOnlyRealFailures
<1> QED
  BY <1>1, PlanningInvariant, PTL

(* Every variable of Planning has its type in every reachable state: a     *)
(* goroutine is only where its code has a line, and the plan has one       *)
(* outcome.                                                                *)
THEOREM PlanningTypeCorrect == Spec => []TypeOK
<1>1. PlanningInv => TypeOK
  BY DEF PlanningInv
<1> QED
  BY <1>1, PlanningInvariant, PTL

(* The steps that each goroutine and the choice of a discovery still take  *)
(* at most.                                                                *)
BackendLeft ==
  CASE backend.pc = "initialize" -> 6
    [] backend.pc = "settings"   -> 5
    [] backend.pc = "skippables" -> 4
    [] backend.pc = "noSkips"    -> 3
    [] backend.pc = "durations"  -> 2
    [] backend.pc = "close"      -> 1
    [] OTHER                     -> 0

FullLeft ==
  CASE full.pc = "start"               -> 6
    [] full.pc = "restore"             -> 5
    [] full.pc = "clean"               -> 4
    [] full.pc = "discover"            -> 3
    [] full.pc = "killed"              -> 2
    [] full.pc \in {"failed", "store"} -> 1
    [] OTHER                           -> 0

FastLeft == IF fast.pc = "discover" THEN 1 ELSE 0
ChoiceLeft == IF plan.status = "preparing" THEN 1 ELSE 0

PlanningLeft == BackendLeft + FullLeft + FastLeft + ChoiceLeft

LEMMA PlanningLeftBounded ==
  /\ BackendLeft \in 0 .. 6 /\ FullLeft \in 0 .. 6
  /\ FastLeft \in 0 .. 1 /\ ChoiceLeft \in 0 .. 1
  /\ PlanningLeft \in 0 .. 14
<1>1. BackendLeft \in 0 .. 6
  BY DEF BackendLeft
<1>2. FullLeft \in 0 .. 6
  BY DEF FullLeft
<1>3. FastLeft \in 0 .. 1 /\ ChoiceLeft \in 0 .. 1
  BY DEF FastLeft, ChoiceLeft
<1> QED
  BY <1>1, <1>2, <1>3 DEF PlanningLeft

(* A goroutine that comes nearer to its end while the others stay. *)
LEMMA OneShortens ==
  \A a, b, c, d, x \in Nat :
    x < a => /\ x + b + c + d < a + b + c + d
             /\ b + x + c + d < b + a + c + d
             /\ b + c + x + d < b + c + a + d
             /\ b + c + d + x < b + c + d + a
OBVIOUS

LEMMA PlanningShortens == TypeOK /\ Next => PlanningLeft' < PlanningLeft
<1> SUFFICES ASSUME TypeOK, Next PROVE PlanningLeft' < PlanningLeft
  OBVIOUS
<1>1. /\ BackendLeft \in Nat /\ FullLeft \in Nat /\ FastLeft \in Nat /\ ChoiceLeft \in Nat
      /\ BackendLeft' \in Nat /\ FullLeft' \in Nat /\ FastLeft' \in Nat /\ ChoiceLeft' \in Nat
  <2>1. BackendLeft \in Nat /\ BackendLeft' \in Nat
    BY DEF BackendLeft
  <2>2. FullLeft \in Nat /\ FullLeft' \in Nat
    BY DEF FullLeft
  <2>3. FastLeft \in Nat /\ FastLeft' \in Nat
    BY DEF FastLeft
  <2>4. ChoiceLeft \in Nat /\ ChoiceLeft' \in Nat
    BY DEF ChoiceLeft
  <2> QED
    BY <2>1, <2>2, <2>3, <2>4
<1>2. /\ backend.pc \in {"initialize", "settings", "skippables", "noSkips",
                         "durations", "close", "done"}
      /\ DOMAIN backend = {"pc", "tia", "matcher"}
  BY DEF TypeOK
<1>3. CASE BackendStep
  <2>1. UNCHANGED <<full, fast, plan>>
    BY <1>3 DEF BackendStep, Initialize, ReadSettings, FetchSkippables,
       StopUselessDiscovery, FetchDurations, CloseBackend
  <2>2. \/ backend.pc = "initialize" /\ backend'.pc \in {"settings", "close"}
        \/ backend.pc = "settings" /\ backend'.pc = "skippables"
        \/ backend.pc = "skippables" /\ backend'.pc = "noSkips"
        \/ backend.pc = "noSkips" /\ backend'.pc = "durations"
        \/ backend.pc = "durations" /\ backend'.pc = "close"
        \/ backend.pc = "close" /\ backend'.pc = "done"
    BY <1>2, <1>3 DEF BackendStep, Initialize, ReadSettings, FetchSkippables,
       StopUselessDiscovery, FetchDurations, CloseBackend
  <2>3. BackendLeft' < BackendLeft
    BY <2>2 DEF BackendLeft
  <2>4. FullLeft' = FullLeft /\ FastLeft' = FastLeft /\ ChoiceLeft' = ChoiceLeft
    BY <2>1 DEF FullLeft, FastLeft, ChoiceLeft
  <2> QED
    BY <1>1, OneShortens, <2>3, <2>4 DEF PlanningLeft
<1>4. CASE FullStep \/ FrameworkStep
  <2>1. UNCHANGED <<backend, fast, plan>>
    BY <1>4 DEF FullStep, StartFull, RestoreCache, LaunchDiscovery, KillDiscovery,
       CheckCancelled, StoreCache, FrameworkStep, DiscoveryCompletes, DiscoveryBreaks,
       KilledReturns
  <2>2. DOMAIN full = {"pc", "err", "broken"}
    BY DEF TypeOK
  <2>3. \/ full.pc = "start" /\ full'.pc \in {"restore", "notNeeded"}
        \/ full.pc = "restore" /\ full'.pc \in {"restored", "clean"}
        \/ full.pc = "clean" /\ full'.pc \in {"failed", "discover"}
        \/ full.pc = "discover" /\ full'.pc \in {"killed", "failed", "store"}
        \/ full.pc = "killed" /\ full'.pc = "failed"
        \/ full.pc \in {"failed", "store"} /\ full'.pc \in {"stopped", "succeeded"}
    BY <1>4, <2>2 DEF TypeOK, FullStep, StartFull, RestoreCache, LaunchDiscovery, KillDiscovery,
       CheckCancelled, StoreCache, FrameworkStep, DiscoveryCompletes, DiscoveryBreaks,
       KilledReturns
  <2>4. FullLeft' < FullLeft
    BY <2>3 DEF FullLeft
  <2>5. BackendLeft' = BackendLeft /\ FastLeft' = FastLeft /\ ChoiceLeft' = ChoiceLeft
    BY <2>1 DEF BackendLeft, FastLeft, ChoiceLeft
  <2> QED
    BY <1>1, OneShortens, <2>4, <2>5 DEF PlanningLeft
<1>5. CASE FastDiscovery
  <2>1. UNCHANGED <<backend, full, plan>> /\ FastLeft = 1 /\ FastLeft' = 0
    BY <1>5 DEF FastDiscovery, FastLeft
  <2>2. BackendLeft' = BackendLeft /\ FullLeft' = FullLeft /\ ChoiceLeft' = ChoiceLeft
    BY <2>1 DEF BackendLeft, FullLeft, ChoiceLeft
  <2> QED
    BY <1>1, <2>1, <2>2 DEF PlanningLeft
<1>6. CASE ChooseDiscovery
  <2>1. UNCHANGED <<backend, full, fast>> /\ plan.status = "preparing"
    BY <1>6 DEF ChooseDiscovery
  <2>2. plan'.status # "preparing"
    BY <1>6 DEF ChooseDiscovery, PlanWith, FailPlan, TypeOK
  <2>4. ChoiceLeft' < ChoiceLeft
    BY <2>1, <2>2 DEF ChoiceLeft
  <2>3. BackendLeft' = BackendLeft /\ FullLeft' = FullLeft /\ FastLeft' = FastLeft
    BY <2>1 DEF BackendLeft, FullLeft, FastLeft
  <2> QED
    BY <1>1, OneShortens, <2>4, <2>3 DEF PlanningLeft
<1> QED
  BY <1>3, <1>4, <1>5, <1>6 DEF Next

(* Planning does not turn in circles: no goroutine waits in a loop, goes   *)
(* back or is started twice, so PreparePlanningData returns after 14 steps *)
(* at most unless a step of it, like the framework's process, hangs.       *)
THEOREM PlanningIsShort ==
  Spec => /\ [](PlanningLeft \in 0 .. 14)
          /\ [][PlanningLeft' < PlanningLeft]_vars
<1>1. PlanningLeft \in 0 .. 14
  BY PlanningLeftBounded
<1>2. TypeOK /\ [Next]_vars => [PlanningLeft' < PlanningLeft]_vars
  BY PlanningShortens
<1> QED
  BY <1>1, <1>2, PlanningTypeCorrect, PTL DEF Spec

-----------------------------------------------------------------------------
(* The discovery cache. *)

(* Truthful(f): a stamp on f names an existing commit, the list under it   *)
(* has the configuration of the stamp and, unless there were local changes *)
(* when it was discovered, the content of that commit.  It is not          *)
(* inductive alone: Store stamps the list that Discover wrote some steps   *)
(* before with the commit that is checked out now, so the invariant also   *)
(* says that the list is still that of the tree, and marked if the tree    *)
(* has local changes.                                                      *)
Truthful(f) ==
  f.meta # NoMeta =>
    /\ f.meta.commit \in 1 .. Len(commits)
    /\ f.kind = "complete"
    /\ f.list.config = f.meta.config
    /\ f.list.version = commits[f.meta.commit] \/ f.list.dirty

Plans ==
  [pc: {"idle", "restore", "discover", "store", "planned"}, count: Nat, used: BOOLEAN]

ListNow == [version |-> work, config |-> config, dirty |-> ~ Clean]

CacheInv ==
  /\ commits \in Seq(Versions) /\ work \in Versions
  /\ planner \in Plans
  /\ head \in 1 .. Len(commits)
  /\ available \subseteq 1 .. Len(commits)
  /\ Truthful(file) /\ Truthful(external)
  /\ planner.pc = "store" => file = Complete(ListNow, NoMeta)

(* A list that is not stamped is truthful. *)
LEMMA UnstampedIsTruthful ==
  ASSUME NEW f, f.meta = NoMeta
  PROVE  Truthful(f)
BY DEF Truthful

(* Commits are only added: what was said of the old ones stays true. *)
LEMMA CommitKeepsTruth ==
  ASSUME CacheInv, Commit, NEW f, Truthful(f)
  PROVE  f.meta # NoMeta =>
           /\ f.meta.commit \in 1 .. Len(commits')
           /\ f.kind = "complete"
           /\ f.list.config = f.meta.config
           /\ f.list.version = commits'[f.meta.commit] \/ f.list.dirty
<1>1. Len(commits') = Len(commits) + 1 /\ Len(commits) \in Nat
  BY DEF Commit, CacheInv
<1>2. \A i \in 1 .. Len(commits) : commits'[i] = commits[i]
  BY DEF Commit, CacheInv
<1> QED BY <1>1, <1>2 DEF Truthful

(* The number of a new commit. *)
LEMMA NextNumber ==
  ASSUME NEW n \in Nat, NEW m, m = n + 1, NEW S, S \subseteq 1 .. n
  PROVE  m \in 1 .. m /\ S \cup {m} \subseteq 1 .. m
OBVIOUS

(* The initial repository has one commit and no list. *)
LEMMA InitCacheInv == CacheInit => CacheInv
<1> SUFFICES ASSUME CacheInit PROVE CacheInv
  OBVIOUS
<1>1. PICK v \in Versions : commits = <<v>> /\ work = v
  BY DEF CacheInit
<1>2. commits \in Seq(Versions) /\ Len(commits) = 1
  BY <1>1
<1>3. Truthful(file) /\ Truthful(external)
  BY UnstampedIsTruthful DEF CacheInit, NoReport
<1>4. planner.pc = "idle"
  BY DEF CacheInit
<1>5. planner \in Plans /\ work \in Versions
  BY <1>1 DEF CacheInit, Plans
<1> QED BY <1>2, <1>3, <1>4, <1>5 DEF CacheInit, CacheInv, NoPlanRuns

(* Every step of a user, of a CI job and of a plan keeps the lists true.   *)
LEMMA NextCacheInv ==
  ASSUME CacheInv, [CacheNext]_cacheVars
  PROVE  CacheInv'
<1> USE DEF CacheInv
<1>1. CASE Edit
  BY <1>1 DEF Edit, Truthful, NoPlanRuns
<1>2. CASE Commit
  <2>1. commits' \in Seq(Versions) /\ Len(commits') = Len(commits) + 1
    BY <1>2 DEF Commit
  <2>2. Len(commits) \in Nat
    OBVIOUS
  <2>3. head' \in 1 .. Len(commits') /\ available' \subseteq 1 .. Len(commits')
    <3>1. head' = Len(commits') /\ available' = available \cup {head'}
      BY <1>2 DEF Commit
    <3> QED BY <2>1, <2>2, <3>1, NextNumber
  <2>4. Truthful(file)' /\ Truthful(external)'
    BY <1>2, CommitKeepsTruth DEF Commit, Truthful
  <2>5. work' \in Versions /\ planner' \in Plans
    BY <1>2 DEF Commit
  <2>6. planner'.pc # "store" /\ NoPlanRuns'
    BY <1>2 DEF Commit, NoPlanRuns
  <2> QED BY <2>1, <2>3, <2>4, <2>5, <2>6
<1>3. CASE Checkout
  BY <1>3 DEF Checkout, Truthful, NoPlanRuns
<1>4. CASE Reconfigure
  BY <1>4 DEF Reconfigure, Truthful, NoPlanRuns
<1>5. CASE FreshClone
  BY <1>5 DEF FreshClone, Truthful, NoPlanRuns, NoReport
<1>6. CASE SaveExternal
  BY <1>6 DEF SaveExternal, repo, Truthful, NoPlanRuns
<1>7. CASE StartPlan
  <2>1. planner' \in Plans /\ planner'.pc = "restore"
    BY <1>7 DEF StartPlan, Plans
  <2>2. Truthful(file)'
    BY <1>7 DEF StartPlan, repo, Truthful, Partial
  <2> QED BY <1>7, <2>1, <2>2 DEF StartPlan, repo, Truthful
<1>8. CASE RestoreUsed
  <2>1. planner' \in Plans /\ planner'.pc = "planned"
    BY <1>8 DEF RestoreUsed, Plans
  <2> QED BY <1>8, <2>1 DEF RestoreUsed, repo, Truthful, NoPlanRuns
<1>9. CASE RestoreRefused
  <2>1. planner' \in Plans /\ planner'.pc = "discover"
    BY <1>9 DEF RestoreRefused, Plans, NoPlanRuns
  <2>2. Truthful(file)'
    BY <1>9 DEF RestoreRefused, Truthful, NoReport
  <2> QED BY <1>9, <2>1, <2>2 DEF RestoreRefused, repo, Truthful
<1>10. CASE Discover
  <2>1. planner' \in Plans /\ planner'.pc = "store"
    BY <1>10 DEF Discover, Plans, NoPlanRuns
  <2>2. file' = Complete(ListNow, NoMeta) /\ ListNow' = ListNow
    BY <1>10 DEF Discover, repo, ListNow, Clean
  <2>3. Truthful(file)' /\ Truthful(external)'
    BY <1>10, <2>2 DEF Complete, Truthful, Discover, repo
  <2> QED BY <1>10, <2>1, <2>2, <2>3 DEF Discover, repo
<1>11. CASE DiscoveryStops
  <2>1. planner' \in Plans /\ planner'.pc = "planned"
    BY <1>11 DEF DiscoveryStops, Plans
  <2>2. Truthful(file)'
    BY <1>11 DEF DiscoveryStops, Truthful, NoReport, Partial
  <2> QED BY <1>11, <2>1, <2>2 DEF DiscoveryStops, repo, Truthful, NoPlanRuns
<1>12. CASE Store
  <2>1. planner' \in Plans /\ planner'.pc = "planned"
    BY <1>12 DEF Store, Plans
  <2>2. file = Complete(ListNow, NoMeta)
    BY <1>12 DEF Store
  <2>3. [file EXCEPT !.meta = Stamp] = Complete(ListNow, Stamp)
    BY <2>2 DEF Complete
  <2>4. file' = file \/ file' = Complete(ListNow, Stamp)
    BY <1>12, <2>3 DEF Store
  <2>5. ListNow.config = config /\ (ListNow.version = commits[head] \/ ListNow.dirty)
    BY DEF ListNow, Clean
  <2>6. Truthful(file)'
    BY <1>12, <2>4, <2>5 DEF Store, repo, Truthful, Complete, Stamp
  <2> QED BY <1>12, <2>1, <2>6 DEF Store, repo, Truthful, NoPlanRuns
<1>13. CASE UNCHANGED cacheVars
  BY <1>13 DEF cacheVars, Truthful, ListNow, Clean
<1> QED
  BY <1>1, <1>2, <1>3, <1>4, <1>5, <1>6, <1>7, <1>8, <1>9, <1>10, <1>11, <1>12, <1>13
  DEF CacheNext

(* CacheInv holds throughout. *)
THEOREM CacheInvariant == CacheSpec => []CacheInv
<1>1. CacheInv /\ [CacheNext]_cacheVars => CacheInv'
  BY NextCacheInv
<1> QED BY InitCacheInv, <1>1, PTL DEF CacheSpec

(* Every stamped list, here and in the copy that CI keeps, has the         *)
(* configuration it is stamped with and, unless there were local changes   *)
(* under the test root when it was discovered, is the list of its commit.  *)
THEOREM StampsAreTrue == CacheSpec => []StampTellsTheTruth
<1>1. CacheInv => StampTellsTheTruth
  BY DEF CacheInv, Truthful, StampTellsTheTruth
<1> QED BY CacheInvariant, <1>1, PTL

(* A cached list is used only when it is the list that discovery would     *)
(* return now, or was discovered with local changes; whatever was edited,  *)
(* committed, checked out, cloned or copied since.                         *)
THEOREM RestoredListsAreCurrent == CacheSpec => RestoredListIsCurrent
<1>1. CacheInv /\ RestoreUsed =>
        file.list.config = config /\ (file.list.version = work \/ file.list.dirty)
  BY DEF CacheInv, Truthful, RestoreUsed, Valid, HasMetadata, ChangedInHistory,
         ChangedInTree
<1>2. CacheInv /\ [CacheNext]_cacheVars =>
        [RestoreUsed => /\ file.list.config = config
                        /\ file.list.version = work \/ file.list.dirty]_cacheVars
  BY <1>1
<1> QED BY CacheInvariant, <1>2, PTL DEF CacheSpec, RestoredListIsCurrent

(* What a stamp says of the file it is on: the list is whole; and HEAD is  *)
(* always in the clone.                                                    *)
WholeInv ==
  /\ head \in available
  /\ \A f \in {file, external} : f.meta # NoMeta => f.kind = "complete"
  /\ planner.pc = "store" => \E list : file = Complete(list, NoMeta)
  /\ planner \in Plans

LEMMA InitWhole == CacheInit => WholeInv
<1> SUFFICES ASSUME CacheInit PROVE WholeInv
  OBVIOUS
<1>1. planner \in Plans /\ planner.pc = "idle"
  BY DEF CacheInit, Plans
<1> QED
  BY <1>1 DEF CacheInit, WholeInv, NoReport

LEMMA NextWhole == WholeInv /\ [CacheNext]_cacheVars => WholeInv'
<1> SUFFICES ASSUME WholeInv, [CacheNext]_cacheVars PROVE WholeInv'
  OBVIOUS
<1> USE DEF WholeInv
<1>1. CASE Edit \/ Reconfigure \/ SaveExternal \/ UNCHANGED cacheVars
  BY <1>1 DEF Edit, Reconfigure, SaveExternal, cacheVars, repo
<1>2. CASE Commit
  BY <1>2 DEF Commit, NoPlanRuns
<1>3. CASE Checkout \/ FreshClone
  BY <1>3 DEF Checkout, FreshClone, NoPlanRuns, NoReport
<1>4. CASE StartPlan
  <2>1. planner' \in Plans /\ planner'.pc = "restore"
    BY <1>4 DEF StartPlan, Plans
  <2> QED
    BY <1>4, <2>1 DEF StartPlan, repo, Partial
<1>5. CASE RestoreUsed \/ RestoreRefused \/ DiscoveryStops
  <2>1. planner' \in Plans /\ planner'.pc \in {"planned", "discover"}
    BY <1>5 DEF RestoreUsed, RestoreRefused, DiscoveryStops, Plans
  <2> QED
    BY <1>5, <2>1 DEF RestoreUsed, RestoreRefused, DiscoveryStops, repo, NoReport, Partial
<1>6. CASE Discover
  <2>1. planner' \in Plans
    BY <1>6 DEF Discover, Plans
  <2>2. file' = Complete(ListNow, NoMeta)
    BY <1>6 DEF Discover, ListNow
  <2>3. file'.meta = NoMeta /\ external' = external
    BY <1>6, <2>2 DEF Discover, Complete
  <2>4. head' \in available'
    BY <1>6 DEF Discover, repo
  <2> QED
    BY <2>1, <2>2, <2>3, <2>4
<1>7. CASE Store
  <2>1. planner' \in Plans /\ planner'.pc = "planned"
    BY <1>7 DEF Store, Plans
  <2>2. PICK list : file = Complete(list, NoMeta)
    BY <1>7 DEF Store
  <2>3. [file EXCEPT !.meta = Stamp] = Complete(list, Stamp)
    BY <2>2 DEF Complete
  <2>4. file'.kind = "complete"
    BY <1>7, <2>2, <2>3 DEF Store, Complete
  <2> QED
    BY <1>7, <2>1, <2>4 DEF Store, repo
<1> QED
  BY <1>1, <1>2, <1>3, <1>4, <1>5, <1>6, <1>7 DEF CacheNext

(* A list that this clone has just stored is not refused while nothing has *)
(* changed, whatever was done to the repository before.                    *)
THEOREM FreshListsAreUsed == CacheSpec => FreshListIsNotRefused
<1>1. WholeInv /\ [CacheNext]_cacheVars =>
        [RestoreRefused => ~ (file.meta = [commit |-> head, config |-> config] /\ Clean)]_cacheVars
  <2> SUFFICES ASSUME WholeInv, RestoreRefused, Clean,
                      file.meta = [commit |-> head, config |-> config]
               PROVE  FALSE
    OBVIOUS
  <2>1. file.meta # NoMeta
    BY DEF NoMeta
  <2>2. Parses /\ HasMetadata
    BY <2>1 DEF WholeInv, Parses, HasMetadata
  <2>3. Valid
    BY <2>2 DEF WholeInv, Valid, ChangedInHistory, ChangedInTree, Clean
  <2> QED
    BY <2>2, <2>3 DEF RestoreRefused
<1> QED
  BY <1>1, InitWhole, NextWhole, PTL DEF CacheSpec, FreshListIsNotRefused
(* The shape of the repository, of the lists and of the planner.           *)
CommitNumbers == 1 .. Len(commits)
ListTyped(f) ==
  /\ f.kind \in {"absent", "partial", "complete"}
  /\ f.kind # "complete" => f.meta = NoMeta
  /\ f.kind = "complete" => f.list \in Lists
  /\ f.meta # NoMeta => f.meta.commit \in CommitNumbers /\ f.meta.config \in Configs

CacheTypeInv ==
  /\ commits \in Seq(Versions) /\ work \in Versions /\ config \in Configs
  /\ available \subseteq CommitNumbers
  /\ planner.count <= MaxPlans
  /\ ListTyped(file) /\ ListTyped(external)

(* The lists that a plan leaves without a stamp.                           *)
LEMMA UnstampedTyped ==
  /\ ListTyped(NoReport) /\ ListTyped(Partial)
  /\ \A list \in Lists : ListTyped(Complete(list, NoMeta))
BY DEF ListTyped, NoReport, Partial, Complete

LEMMA InitCacheType == CacheInit => CacheTypeInv
<1> SUFFICES ASSUME CacheInit PROVE CacheTypeInv
  OBVIOUS
<1>1. PICK v \in Versions : commits = <<v>> /\ work = v
  BY DEF CacheInit
<1>2. commits \in Seq(Versions) /\ CommitNumbers = {1}
  BY <1>1 DEF CommitNumbers
<1>3. planner.count = 0 /\ 0 <= MaxPlans
  BY BoundsAssumption DEF CacheInit
<1> QED
  BY <1>1, <1>2, <1>3, UnstampedTyped DEF CacheInit, CacheTypeInv

LEMMA NextCacheType ==
  CacheTypeInv /\ WholeInv /\ [CacheNext]_cacheVars => CacheTypeInv'
<1> SUFFICES ASSUME CacheTypeInv, WholeInv, [CacheNext]_cacheVars PROVE CacheTypeInv'
  OBVIOUS
<1> USE DEF CacheTypeInv
<1>1. planner \in Plans /\ head \in CommitNumbers
  BY DEF WholeInv
<1>9. \A i \in CommitNumbers : commits[i] \in Versions
  BY DEF CommitNumbers
<1>2. ASSUME commits' = commits
      PROVE  /\ CommitNumbers' = CommitNumbers
             /\ ListTyped(file') <=> ListTyped(file)'
             /\ ListTyped(external') <=> ListTyped(external)'
  BY <1>2 DEF CommitNumbers, ListTyped
<1>3. CASE Edit \/ Checkout \/ Reconfigure \/ UNCHANGED cacheVars
  <2>1. commits' = commits /\ UNCHANGED <<file, external, planner, available>>
    BY <1>3 DEF Edit, Checkout, Reconfigure, cacheVars
  <2>2. work' \in Versions /\ config' \in Configs
    BY <1>3, <1>9 DEF Edit, Checkout, Reconfigure, cacheVars
  <2> QED
    BY <1>2, <2>1, <2>2
<1>4. CASE Commit
  <2>1. /\ commits' \in Seq(Versions) /\ Len(commits') = Len(commits) + 1
        /\ Len(commits) \in Nat
    BY <1>4 DEF Commit
  <2>2. CommitNumbers \subseteq CommitNumbers' /\ Len(commits') \in CommitNumbers'
    BY <2>1 DEF CommitNumbers
  <2>3. ListTyped(file)' /\ ListTyped(external)'
    BY <1>4, <2>2 DEF Commit, ListTyped
  <2> QED
    BY <1>4, <2>1, <2>2, <2>3 DEF Commit
<1>5. CASE FreshClone \/ SaveExternal
  <2>1. commits' = commits /\ UNCHANGED <<planner, config>>
    BY <1>5 DEF FreshClone, SaveExternal, repo
  <2>2. ListTyped(file') /\ ListTyped(external')
    BY <1>5, UnstampedTyped DEF FreshClone, SaveExternal
  <2>3. work' \in Versions /\ available' \subseteq CommitNumbers
    <3>1. CASE FreshClone
      <4>1. head' \in CommitNumbers /\ work' = commits[head']
        BY <3>1 DEF FreshClone, CommitNumbers
      <4>2. available' = {head'} \/ available' = CommitNumbers
        BY <3>1 DEF FreshClone, CommitNumbers
      <4> QED
        BY <1>9, <4>1, <4>2
    <3>2. CASE SaveExternal
      BY <3>2 DEF SaveExternal, repo
    <3> QED
      BY <1>5, <3>1, <3>2
  <2> QED
    BY <1>2, <2>1, <2>2, <2>3
<1>6. CASE StartPlan
  <2>1. planner'.count = planner.count + 1 /\ planner'.count <= MaxPlans
    BY <1>6, <1>1, BoundsAssumption DEF StartPlan, Plans
  <2>2. ListTyped(file') /\ ListTyped(external')
    BY <1>6, UnstampedTyped DEF StartPlan
  <2> QED
    BY <1>2, <1>6, <2>1, <2>2 DEF StartPlan, repo
<1>10. ListNow \in Lists
  <2>1. (~ Clean) \in BOOLEAN
    OBVIOUS
  <2> QED
    BY <2>1 DEF ListNow, Lists
<1>7. CASE RestoreUsed \/ RestoreRefused \/ Discover \/ DiscoveryStops
  <2>1. planner'.count = planner.count /\ UNCHANGED <<repo, external>>
    BY <1>7, <1>1 DEF RestoreUsed, RestoreRefused, Discover, DiscoveryStops, Plans
  <2>2. ListTyped(file')
    BY <1>7, <1>10, UnstampedTyped
    DEF RestoreUsed, RestoreRefused, Discover, DiscoveryStops, ListNow
  <2> QED
    BY <1>2, <2>1, <2>2 DEF repo
<1>8. CASE Store
  <2>1. planner'.count = planner.count /\ UNCHANGED <<repo, external>>
    BY <1>8, <1>1 DEF Store, Plans
  <2>2. PICK list : file = Complete(list, NoMeta)
    BY <1>8 DEF Store, WholeInv
  <2>3. [file EXCEPT !.meta = Stamp] = Complete(list, Stamp)
    BY <2>2 DEF Complete
  <2>4. ListTyped(Complete(list, Stamp))
    <3>1. list \in Lists
      BY <2>2 DEF ListTyped, Complete
    <3> QED
      BY <1>1, <3>1 DEF ListTyped, Complete, Stamp
  <2>5. ListTyped(file')
    BY <1>8, <2>3, <2>4 DEF Store
  <2> QED
    BY <1>2, <2>1, <2>5 DEF repo
<1> QED
  BY <1>3, <1>4, <1>5, <1>6, <1>7, <1>8 DEF CacheNext

(* Everything has its type, also when discoveries run with local changes:  *)
(* HEAD is a commit of the clone, a stamp names a commit that exists, and  *)
(* only a whole list is stamped, whatever copies it came through.          *)
THEOREM CacheTypeCorrect == CacheSpec => []CacheTypeOK
<1>1. CacheTypeInv /\ WholeInv => CacheTypeOK
  <2> SUFFICES ASSUME CacheTypeInv, WholeInv PROVE CacheTypeOK
    OBVIOUS
  <2>1. planner \in Plans /\ planner.count \in 0 .. MaxPlans
    BY BoundsAssumption DEF CacheTypeInv, WholeInv, Plans
  <2>2. planner.pc = "store" => file.kind = "complete"
    BY DEF WholeInv, Complete
  <2> QED
    BY <2>1, <2>2 DEF CacheTypeOK, CacheTypeInv, WholeInv, ListTyped, CommitNumbers, Plans
<1> QED
  BY <1>1, InitWhole, NextWhole, InitCacheType, NextCacheType, PTL DEF CacheSpec

-----------------------------------------------------------------------------
(* SuiteAggregates.  What is true of every finite set is proved from a      *)
(* smallest set for which it would be false.                               *)

(* Among sets of subsets of a finite set, one has no smaller one beside it.*)
LEMMA MinimalSet ==
  ASSUME NEW D, IsFiniteSet(D), NEW F \in SUBSET SUBSET D, F # {}
  PROVE  \E A \in F : \A B \in F : B \subseteq A => B = A
<1>1. IsWellFoundedOn(StrictSubsetOrdering(D), SUBSET D)
  BY FS_StrictSubsetOrderingWellFounded, FS_FiniteSubsetsOfFinite
<1>2. \E A \in F : \A B \in F : ~ (<<B, A>> \in StrictSubsetOrdering(D))
  BY <1>1, WFMin
<1> QED
  BY <1>2 DEF StrictSubsetOrdering

(* The sums over the subsets of D. *)
IsSum(f, D, h) ==
  h = [S \in SUBSET D |->
         IF S = {} THEN 0
         ELSE f[CHOOSE s \in S : TRUE] + h[S \ {CHOOSE s \in S : TRUE}]]

(* A total is the sum over the whole domain.                              *)
LEMMA TotalIsChosen ==
  ASSUME NEW f
  PROVE  TotalOf(f) = (CHOOSE h : IsSum(f, DOMAIN f, h))[DOMAIN f]
BY DEF TotalOf, MapThenSumSet, MapThenFoldSet, IsSum

(* Two such sums agree wherever both are defined.                          *)
LEMMA SumsAgree ==
  ASSUME NEW f, NEW D, IsFiniteSet(D), NEW E, NEW h, NEW k,
         IsSum(f, D, h), IsSum(f, E, k), NEW S \in SUBSET D, S \subseteq E
  PROVE  h[S] = k[S]
<1> DEFINE Bad == {T \in SUBSET D : T \subseteq E /\ h[T] # k[T]}
<1>1. ASSUME Bad # {} PROVE FALSE
  <2>1. Bad \in SUBSET SUBSET D
    OBVIOUS
  <2> HIDE DEF Bad
  <2>2. PICK T \in Bad : \A B \in Bad : B \subseteq T => B = T
    BY <1>1, <2>1, MinimalSet
  <2> USE DEF Bad
  <2> DEFINE c == CHOOSE s \in T : TRUE
  <2>3. T \in SUBSET D /\ T \in SUBSET E /\ T \ {c} \in SUBSET D /\ T \ {c} \in SUBSET E
    OBVIOUS
  <2>4. CASE T = {}
    BY <2>3, <2>4 DEF IsSum
  <2>5. CASE T # {}
    <3>1. c \in T
      BY <2>5
    <3>2. h[T \ {c}] = k[T \ {c}]
      BY <2>2, <2>3, <3>1
    <3>3. h[T] = f[c] + h[T \ {c}] /\ k[T] = f[c] + k[T \ {c}]
      BY <2>3, <2>5 DEF IsSum
    <3> QED
      BY <3>2, <3>3
  <2> QED
    BY <2>4, <2>5
<1> QED
  BY <1>1

(* They exist for every finite set.                                        *)
LEMMA SumExists ==
  ASSUME NEW f, NEW D, IsFiniteSet(D)
  PROVE  \E h : IsSum(f, D, h)
<1> DEFINE Bad == {T \in SUBSET D : ~ \E h : IsSum(f, T, h)}
<1>1. ASSUME Bad # {} PROVE FALSE
  <2>1. Bad \in SUBSET SUBSET D
    OBVIOUS
  <2> HIDE DEF Bad
  <2>2. PICK T \in Bad : \A B \in Bad : B \subseteq T => B = T
    BY <1>1, <2>1, MinimalSet
  <2> DEFINE c(S) == CHOOSE s \in S : TRUE
             g(S) == CHOOSE h : IsSum(f, S, h)
             k == [S \in SUBSET T |->
                     IF S = {} THEN 0 ELSE f[c(S)] + g(S \ {c(S)})[S \ {c(S)}]]
  <2>3. ASSUME NEW S \in SUBSET T, S # T PROVE IsSum(f, S, g(S)) /\ IsFiniteSet(S)
    <3>1. S \in SUBSET D /\ S \notin Bad
      BY <2>1, <2>2, <2>3
    <3> QED
      BY <3>1, FS_Subset DEF Bad
  <2>4. ASSUME NEW S \in SUBSET T, S # {} PROVE c(S) \in S
    BY <2>4
  <2>5. ASSUME NEW R \in SUBSET T, R # T PROVE k[R] = g(R)[R]
    <3> HIDE DEF g, c
    <3>1. IsSum(f, R, g(R)) /\ IsFiniteSet(R) /\ R \in SUBSET R
      BY <2>3, <2>5
    <3>2. CASE R = {}
      BY <3>1, <3>2 DEF IsSum
    <3>3. CASE R # {}
      <4> DEFINE Q == R \ {c(R)}
      <4>1. Q \in SUBSET T /\ Q # T /\ Q \in SUBSET R /\ Q \in SUBSET Q
        BY <2>4, <2>5, <3>3
      <4>2. IsSum(f, Q, g(Q))
        BY <2>3, <4>1
      <4>3. g(R)[Q] = g(Q)[Q]
        <5> HIDE DEF Q
        <5>1. Q \subseteq Q
          OBVIOUS
        <5> QED
          BY <3>1, <4>1, <4>2, <5>1, SumsAgree
      <4>4. g(R)[R] = f[c(R)] + g(R)[Q]
        BY <3>1, <3>3 DEF IsSum, c
      <4> QED
        BY <3>3, <4>3, <4>4
    <3> QED
      BY <3>2, <3>3
  <2>6. k = [S \in SUBSET T |-> IF S = {} THEN 0 ELSE f[c(S)] + k[S \ {c(S)}]]
    <3> HIDE DEF g, c
    <3>1. ASSUME NEW S \in SUBSET T, S # {} PROVE k[S] = f[c(S)] + k[S \ {c(S)}]
      <4>1. S \ {c(S)} \in SUBSET T /\ S \ {c(S)} # T
        BY <2>4, <3>1
      <4>2. k[S \ {c(S)}] = g(S \ {c(S)})[S \ {c(S)}]
        BY <2>5, <4>1
      <4> QED
        BY <3>1, <4>2
    <3> QED
      BY <3>1
  <2>7. IsSum(f, T, k)
    BY <2>6 DEF IsSum
  <2> QED
    BY <2>2, <2>7 DEF Bad
<1> QED
  BY <1>1

(* The total of a finite domain is such a sum.                             *)
LEMMA TotalIsSum ==
  ASSUME NEW f, IsFiniteSet(DOMAIN f)
  PROVE  \E h : IsSum(f, DOMAIN f, h) /\ TotalOf(f) = h[DOMAIN f]
BY TotalIsChosen, SumExists

(* A sum of naturals is a natural that no part exceeds, it is 0 only if all*)
(* parts are, and it grows with its parts.                                 *)
LEMMA TotalsCompare ==
  ASSUME NEW D, IsFiniteSet(D), NEW f \in [D -> Nat], NEW g \in [D -> Nat],
         \A s \in D : g[s] <= f[s]
  PROVE  /\ TotalOf(f) \in Nat /\ TotalOf(g) \in Nat
         /\ TotalOf(g) <= TotalOf(f)
         /\ TotalOf(g) = TotalOf(f) <=> \A s \in D : g[s] = f[s]
         /\ TotalOf(f) = 0 <=> \A s \in D : f[s] = 0
         /\ \A s \in D : f[s] <= TotalOf(f)
<1>1. PICK h : IsSum(f, D, h) /\ TotalOf(f) = h[D]
  BY TotalIsSum
<1>2. PICK k : IsSum(g, D, k) /\ TotalOf(g) = k[D]
  BY TotalIsSum
<1> DEFINE Fine(T) ==
  /\ h[T] \in Nat /\ k[T] \in Nat /\ k[T] <= h[T]
  /\ k[T] = h[T] <=> \A s \in T : g[s] = f[s]
  /\ h[T] = 0 <=> \A s \in T : f[s] = 0
  /\ \A s \in T : f[s] <= h[T]
<1> DEFINE Bad == {T \in SUBSET D : ~ Fine(T)}
<1>3. ASSUME Bad # {} PROVE FALSE
  <2>1. Bad \in SUBSET SUBSET D
    OBVIOUS
  <2> HIDE DEF Bad
  <2>2. PICK T \in Bad : \A B \in Bad : B \subseteq T => B = T
    BY <1>3, <2>1, MinimalSet
  <2> USE DEF Bad
  <2>3. T \in SUBSET D
    BY <2>2
  <2>4. CASE T = {}
    <3>1. h[T] = 0 /\ k[T] = 0
      BY <1>1, <1>2, <2>3, <2>4 DEF IsSum
    <3> QED
      BY <2>2, <2>4, <3>1
  <2>5. CASE T # {}
    <3> DEFINE c == CHOOSE s \in T : TRUE
               R == T \ {c}
    <3>1. c \in T
      BY <2>5
    <3>2. h[T] = f[c] + h[R] /\ k[T] = g[c] + k[R]
      BY <1>1, <1>2, <2>3, <2>5 DEF IsSum
    <3> HIDE DEF c
    <3>3. R \in SUBSET D /\ R \notin Bad
      BY <2>2, <2>3, <3>1
    <3> HIDE DEF Fine
    <3>4. Fine(R)
      BY <3>3
    <3> USE DEF Fine
    <3>5. f[c] \in Nat /\ g[c] \in Nat /\ g[c] <= f[c] /\ T = R \cup {c}
      BY <2>3, <3>1
    <3>6. h[R] \in Nat /\ k[R] \in Nat /\ k[R] <= h[R]
      BY <3>4
    <3>7. h[T] \in Nat /\ k[T] \in Nat /\ k[T] <= h[T]
      BY <3>2, <3>5, <3>6
    <3>8. k[T] = h[T] <=> k[R] = h[R] /\ g[c] = f[c]
      BY <3>2, <3>5, <3>6
    <3>9. h[T] = 0 <=> h[R] = 0 /\ f[c] = 0
      BY <3>2, <3>5, <3>6
    <3>10. k[T] = h[T] <=> \A s \in T : g[s] = f[s]
      BY <3>4, <3>5, <3>8
    <3>11. h[T] = 0 <=> \A s \in T : f[s] = 0
      BY <3>4, <3>5, <3>9
    <3>12. \A s \in T : f[s] <= h[T]
      <4>1. ASSUME NEW s \in R PROVE f[s] <= h[T]
        <5>1. f[s] \in Nat /\ f[s] <= h[R]
          BY <2>3, <3>4
        <5> QED
          BY <3>2, <3>5, <3>6, <5>1
      <4>2. f[c] <= h[T]
        BY <3>2, <3>5, <3>6
      <4> QED
        BY <3>5, <4>1, <4>2
    <3>13. Fine(T)
      BY <3>7, <3>10, <3>11, <3>12
    <3> HIDE DEF Fine
    <3> QED
      BY <2>2, <3>13
  <2> QED
    BY <2>4, <2>5
<1>4. Fine(D)
  BY <1>3
<1> QED
  BY <1>1, <1>2, <1>4
(* The share of c - k tests in the duration of c tests.                    *)
LEMMA Share ==
  ASSUME NEW t \in Nat, NEW c \in Nat \ {0}, NEW k \in 0 .. c, t >= c
  PROVE  LET e == (t * (c - k)) \div c
         IN  /\ e \in Nat /\ e <= t
             /\ e = t <=> k = 0
             /\ e = 0 <=> k = c
<1> DEFINE p == t * (c - k)
           e == p \div c
<1>1. p \in Nat /\ e \in Nat
  OBVIOUS
<1>2. c * e <= p /\ p < c * e + c
  BY <1>1
<1>3. k = 0 => e = t
  OBVIOUS
<1>4. k = c => e = 0
  OBVIOUS
<1>5. k # 0 => e < t
  <2> SUFFICES ASSUME k # 0, e >= t PROVE FALSE
    BY <1>1
  <2>1. p = t * c - t * k
    OBVIOUS
  <2>2. t * k >= t /\ t >= 1
    OBVIOUS
  <2>3. t * c \in Int /\ t * k \in Int
    OBVIOUS
  <2>4. c * e >= t * c
    <3> HIDE DEF e
    <3> QED BY <1>1
  <2> HIDE DEF p, e
  <2> QED
    BY <1>1, <1>2, <2>1, <2>2, <2>3, <2>4
<1>6. k # c => e # 0
  <2> SUFFICES ASSUME k # c, e = 0 PROVE FALSE
    OBVIOUS
  <2>1. p >= t
    OBVIOUS
  <2> HIDE DEF p, e
  <2> QED
    BY <1>1, <1>2, <2>1
<1> HIDE DEF p
<1> SUFFICES /\ e \in Nat /\ e <= t
             /\ e = t <=> k = 0
             /\ e = 0 <=> k = c
  BY DEF p
<1> HIDE DEF e
<1>7. e <= t
  BY <1>1, <1>3, <1>5
<1> QED
  BY <1>1, <1>3, <1>4, <1>5, <1>6, <1>7

(* What the two discoveries have in common: how the steps follow each      *)
(* other, where files come from, and what an aggregate is.                 *)
FactsInv ==
  /\ facts.selection \subseteq Files /\ facts.tiaSuites \subseteq Suites
  /\ facts.median \in [Suites -> Medians]
  /\ facts.backendFile \in [Suites -> Files \cup {NoFile}]
  /\ facts.nameFile \in [Suites -> Files \cup {NoFile}]

Aggregates ==
  [file: Files \cup {NoFile}, total: Nat, estimated: Nat, count: Nat, skipped: Nat]

ShapeInv ==
  /\ phase \in {"tests", "estimate"} => facts.mode = "full"
  /\ phase \in {"files", "durations"} => facts.mode # "full"
  /\ phase \in {"tests", "estimate", "files", "durations", "markers", "weigh", "done"}
  /\ testFiles \subseteq facts.selection /\ tests \subseteq Tests
  /\ aggregates \in [Suites -> Aggregates]
  /\ \A s \in Suites :
       /\ aggregates[s].skipped <= aggregates[s].count
       /\ aggregates[s].file \in testFiles \cup {NoFile}
       /\ s \notin Recorded => aggregates[s] = Missing
       /\ phase \in {"tests", "estimate"} => aggregates[s].count <= MaxTests

(* Whether a suite stays skipped as a whole.                               *)
Kept(s) == phase \in {"weigh", "done"} /\ aggregates[s].file \in facts.marked
Whole(s) == aggregates[s].skipped = aggregates[s].count

(* Full discovery: the aggregates stand for the tests recorded so far.     *)
OneFile == \A t, u \in tests : t.suite = u.suite => t.file = u.file

TestsInv ==
  facts.mode = "full" =>
    /\ testFiles = {t.file : t \in tests} \ {NoFile}
    /\ \A s \in Suites : s \in Recorded <=> \E t \in tests : t.suite = s
    /\ \A s \in Recorded :
         Whole(s) <=> ~ Kept(s) /\ \A t \in tests : t.suite = s => Match(t) # "none"
    /\ OneFile => \A t \in tests : aggregates[t.suite].file = t.file

(* Fast discovery: the aggregates stand for the suites of the backend.     *)
SuitesInv ==
  facts.mode # "full" =>
    /\ phase # "files" => testFiles = facts.selection
    /\ \A s \in Recorded :
         /\ aggregates[s].file = SourceFileForSuite(s) /\ aggregates[s].file # NoFile
         /\ phase \in {"files", "durations"} => aggregates[s].skipped = 0
         /\ phase \notin {"files", "durations"} =>
              (Whole(s) <=> ~ Kept(s) /\ s \in facts.tiaSuites)
    /\ phase \notin {"files", "durations"} =>
         \A s \in facts.tiaSuites : SourceFileForSuite(s) \in testFiles => s \in Recorded

(* A marker leaves nothing skipped, and what runs is what was weighed.     *)
MarkedInv ==
  /\ \A s \in Recorded : Kept(s) => aggregates[s].skipped = 0
  /\ phase = "done" => PlannedFiles = {f \in testFiles : Runs(f)}

(* An estimate is the part of the total that is not skipped.               *)
TimesInv ==
  /\ phase \notin {"tests", "estimate"} => \A s \in Recorded :
       LET a == aggregates[s]
       IN  /\ a.total > 0 /\ a.estimated <= a.total
           /\ a.estimated = a.total <=> a.skipped = 0
           /\ a.estimated = 0 <=> Whole(s)
  /\ phase = "done" =>
       /\ outcome.total = TotalOf([s \in Recorded |-> aggregates[s].total])
       /\ outcome.estimated = TotalOf([s \in Recorded |-> aggregates[s].estimated])

AggregatesInv == FactsInv /\ ShapeInv /\ TestsInv /\ SuitesInv /\ MarkedInv /\ TimesInv

LEMMA InitAggregates == AggregatesInit => AggregatesInv
<1> SUFFICES ASSUME AggregatesInit PROVE AggregatesInv
  OBVIOUS
<1>1. aggregates = [s \in Suites |-> Missing] /\ Missing.count = 0 /\ Missing \in Aggregates
  BY DEF AggregatesInit, Missing, Aggregate, Aggregates
<1>2. Recorded = {}
  BY <1>1 DEF Recorded
<1>3. FactsInv
  BY DEF AggregatesInit, FactsInv
<1>4. ShapeInv
  BY <1>1, <1>2, UnitsAssumption DEF AggregatesInit, ShapeInv, Missing, Aggregate
<1> QED
  BY <1>2, <1>3, <1>4
  DEF AggregatesInit, AggregatesInv, TestsInv, SuitesInv, MarkedInv, TimesInv

(* One more test in an aggregate.                                          *)
LEMMA Counted ==
  ASSUME NEW r \in Aggregates, NEW d \in Nat, NEW q,
         q = [r EXCEPT !.count = @ + 1, !.skipped = @ + d]
  PROVE  q = Aggregate(r.file, r.total, r.estimated, r.count + 1, r.skipped + d)
BY DEF Aggregates, Aggregate

(* One test of a full discovery.                                           *)
LEMMA RecordTestKeeps ==
  ASSUME AggregatesInv, NEW test \in Tests, RecordTest(test) PROVE AggregatesInv'
<1> USE DEF AggregatesInv
<1> DEFINE q == test.suite
           a == aggregates[q]
           d == IF Match(test) = "none" THEN 0 ELSE 1
           g == IF a.file = NoFile THEN test.file ELSE a.file
<1>1. /\ q \in Suites /\ a \in Aggregates /\ d \in {0, 1}
      /\ phase = "tests" /\ phase' = phase /\ facts' = facts /\ outcome' = outcome
      /\ tests' = tests \cup {test} /\ testFiles' = testFiles \cup ({test.file} \ {NoFile})
      /\ test.file \in facts.selection \cup {NoFile} /\ facts.mode = "full"
  BY DEF RecordTest, ShapeInv, Tests
<1>2. aggregates' = [aggregates EXCEPT ![q] =
        [SuiteAggregateForTest(test) EXCEPT !.count = @ + 1, !.skipped = @ + d]]
  BY DEF RecordTest
<1>3. SuiteAggregateForTest(test) = Aggregate(g, a.total, a.estimated, a.count, a.skipped)
  BY <1>1 DEF SuiteAggregateForTest, Aggregates, Aggregate
<1>4. aggregates'[q] = Aggregate(g, a.total, a.estimated, a.count + 1, a.skipped + d)
  <2> DEFINE r == SuiteAggregateForTest(test)
  <2>1. r \in Aggregates
    BY <1>1, <1>3 DEF Aggregate, Aggregates, Tests
  <2>2. /\ r.file = g /\ r.total = a.total /\ r.estimated = a.estimated
        /\ r.count = a.count /\ r.skipped = a.skipped
    BY <1>3 DEF Aggregate
  <2>3. d \in Nat
    OBVIOUS
  <2>4. aggregates'[q] = [r EXCEPT !.count = @ + 1, !.skipped = @ + d]
    BY <1>1, <1>2 DEF ShapeInv
  <2> HIDE DEF r, d, g
  <2>5. aggregates'[q] = Aggregate(r.file, r.total, r.estimated, r.count + 1, r.skipped + d)
    BY <2>1, <2>3, <2>4, Counted
  <2> QED
    BY <2>2, <2>5
<1>5. \A s \in Suites \ {q} : aggregates'[s] = aggregates[s]
  BY <1>1, <1>2 DEF ShapeInv
<1>6. a.count < MaxTests
  <2> DEFINE f == [s \in Suites |-> aggregates[s].count]
  <2>1. f \in [Suites -> Nat]
    BY DEF ShapeInv, Aggregates
  <2>2. TotalOf(f) \in Nat /\ f[q] <= TotalOf(f)
    <3> HIDE DEF f
    <3>1. \A s \in Suites : f[s] <= f[s]
      BY <2>1
    <3> QED
      BY <1>1, <2>1, <3>1, SuitesAssumption, TotalsCompare
  <2>3. TotalOf(f) < MaxTests
    BY DEF RecordTest, RecordedCount
  <2>4. f[q] = a.count /\ a.count \in Nat
    BY <1>1 DEF Aggregates
  <2> HIDE DEF f
  <2> QED
    BY <2>2, <2>3, <2>4, UnitsAssumption
<1> HIDE DEF d, g
<1>7. /\ aggregates'[q].file = g /\ aggregates'[q].count = a.count + 1
      /\ aggregates'[q].skipped = a.skipped + d
      /\ a.count \in Nat /\ a.skipped \in Nat /\ a.skipped <= a.count
      /\ d \in {0, 1}
  BY <1>1, <1>4 DEF Aggregate, Aggregates, ShapeInv
<1>8. Recorded' = Recorded \cup {q}
  BY <1>1, <1>5, <1>7 DEF Recorded
<1>9. g \in testFiles' \cup {NoFile} /\ g \in Files \cup {NoFile}
  BY <1>1 DEF g, ShapeInv, Tests, Aggregates
<1>10. FactsInv'
  BY <1>1 DEF FactsInv
<1>11. ShapeInv'
  <2>1. aggregates'[q] \in Aggregates
    BY <1>1, <1>4, <1>7, <1>9 DEF Aggregate, Aggregates
  <2>2. aggregates' \in [Suites -> Aggregates]
    BY <1>1, <1>2, <1>5, <2>1 DEF ShapeInv
  <2>3. testFiles' \subseteq facts'.selection /\ tests' \subseteq Tests
    BY <1>1 DEF ShapeInv
  <2>4. ASSUME NEW s \in Suites
        PROVE  /\ aggregates'[s].skipped <= aggregates'[s].count
               /\ aggregates'[s].file \in testFiles' \cup {NoFile}
               /\ s \notin Recorded' => aggregates'[s] = Missing
               /\ aggregates'[s].count <= MaxTests
    <3>1. CASE s = q
      BY <1>6, <1>7, <1>8, <1>9, <3>1, UnitsAssumption
    <3>2. CASE s # q
      BY <1>1, <1>5, <1>8, <3>2 DEF ShapeInv
    <3> QED
      BY <3>1, <3>2
  <2> QED
    BY <1>1, <2>2, <2>3, <2>4 DEF ShapeInv
<1>12. TestsInv'
  <2>1. testFiles' = {t.file : t \in tests'} \ {NoFile}
    BY <1>1 DEF TestsInv
  <2>2. \A s \in Suites : s \in Recorded' <=> \E t \in tests' : t.suite = s
    BY <1>1, <1>8 DEF TestsInv
  <2>3. \A t : Match(t)' = Match(t)
    BY <1>1 DEF Match
  <2>4. ASSUME NEW s \in Recorded'
        PROVE  Whole(s)' <=> \A t \in tests' : t.suite = s => Match(t) # "none"
    <3>1. CASE s # q
      <4>1. s \in Recorded /\ s \in Suites
        BY <1>8, <3>1 DEF Recorded
      <4> QED
        BY <1>1, <1>5, <3>1, <4>1 DEF TestsInv, Whole, Kept
    <3>2. CASE s = q /\ q \in Recorded
      <4>1. Whole(q) <=> \A t \in tests : t.suite = q => Match(t) # "none"
        BY <1>1, <3>2 DEF TestsInv, Kept
      <4>2. Whole(q)' <=> Whole(q) /\ d = 1
        BY <1>7 DEF Whole
      <4> QED
        BY <1>1, <3>2, <4>1, <4>2 DEF d
    <3>3. CASE s = q /\ q \notin Recorded
      <4>1. a.count = 0 /\ a.skipped = 0
        BY <1>1, <3>3 DEF ShapeInv, Missing, Aggregate
      <4>2. \A t \in tests : t.suite # q
        BY <1>1, <3>3 DEF TestsInv
      <4>3. Whole(q)' <=> d = 1
        BY <1>7, <4>1 DEF Whole
      <4> QED
        BY <1>1, <3>3, <4>2, <4>3 DEF d
    <3> QED
      BY <3>1, <3>2, <3>3
  <2>5. ASSUME OneFile', NEW t \in tests' PROVE aggregates'[t.suite].file = t.file
    <3>1. OneFile
      BY <1>1, <2>5 DEF OneFile
    <3>2. \A u \in tests : aggregates[u.suite].file = u.file /\ u.suite \in Suites
      BY <1>1, <3>1 DEF TestsInv, ShapeInv, Tests
    <3>3. CASE t.suite # q
      BY <1>1, <1>5, <3>2, <3>3
    <3>4. CASE t.suite = q
      <4>1. t.file = test.file
        BY <1>1, <2>5, <3>4 DEF OneFile
      <4>2. a.file = NoFile \/ a.file = test.file
        <5>1. CASE q \in Recorded
          BY <1>1, <2>5, <3>2, <5>1 DEF TestsInv, OneFile
        <5>2. CASE q \notin Recorded
          BY <1>1, <5>2 DEF ShapeInv, Missing, Aggregate
        <5> QED
          BY <5>1, <5>2
      <4> QED
        BY <1>7, <3>4, <4>1, <4>2 DEF g
    <3> QED
      BY <3>3, <3>4
  <2>6. \A s : ~ Kept(s)'
    BY <1>1 DEF Kept
  <2> QED
    BY <2>1, <2>2, <2>3, <2>4, <2>5, <2>6 DEF TestsInv
<1>13. SuitesInv' /\ MarkedInv' /\ TimesInv'
  BY <1>1 DEF SuitesInv, MarkedInv, TimesInv, Kept
<1> QED
  BY <1>10, <1>11, <1>12, <1>13

(* The end of a full discovery, and the estimates made of it.              *)
LEMMA EstimateKeeps ==
  ASSUME AggregatesInv, EstimateDiscoveredSuiteDurations PROVE AggregatesInv'
<1> USE DEF AggregatesInv
<1>1. /\ phase = "estimate" /\ phase' = "markers" /\ facts' = facts /\ tests' = tests
      /\ testFiles' = testFiles /\ outcome' = outcome /\ facts.mode = "full"
  BY DEF EstimateDiscoveredSuiteDurations, ShapeInv
<1>2. aggregates' = [s \in Suites |-> IF s \in Recorded THEN Estimated(s) ELSE aggregates[s]]
  BY DEF EstimateDiscoveredSuiteDurations
<1>3. ASSUME NEW s \in Recorded
      PROVE  /\ s \in Suites /\ aggregates'[s] \in Aggregates
             /\ aggregates'[s].file = aggregates[s].file
             /\ aggregates'[s].count = aggregates[s].count
             /\ aggregates'[s].skipped = aggregates[s].skipped
             /\ aggregates'[s].total > 0 /\ aggregates'[s].estimated <= aggregates'[s].total
             /\ aggregates'[s].estimated = aggregates'[s].total <=> aggregates[s].skipped = 0
             /\ aggregates'[s].estimated = 0 <=> aggregates[s].skipped = aggregates[s].count
  <2> DEFINE a == aggregates[s]
             t == IF facts.median[s] > 0 THEN facts.median[s] ELSE a.count * Second
             e == (t * (a.count - a.skipped)) \div a.count
  <2>1. /\ s \in Suites /\ a \in Aggregates /\ a.count > 0 /\ a.count <= MaxTests
        /\ a.skipped <= a.count /\ facts.median[s] \in Medians
    BY <1>1 DEF Recorded, ShapeInv, FactsInv
  <2>2. a.count \in Nat \ {0} /\ a.skipped \in 0 .. a.count
    BY <2>1 DEF Aggregates
  <2>3. t \in Nat /\ t >= a.count
    <3>1. CASE facts.median[s] > 0
      <4>1. facts.median[s] \in Nat /\ facts.median[s] >= MaxTests
        <5>1. \A m \in Medians : m \in Nat /\ (m > 0 => m >= MaxTests)
          BY UnitsAssumption
        <5> QED
          BY <2>1, <3>1, <5>1
      <4> HIDE DEF a
      <4> QED
        BY <2>1, <2>2, <3>1, <4>1, UnitsAssumption
    <3>2. CASE ~ (facts.median[s] > 0)
      <4>1. \A c, u \in Nat \ {0} : c * u >= c /\ c * u \in Nat
        OBVIOUS
      <4> QED
        BY <2>2, <3>2, <4>1, UnitsAssumption
    <3> QED
      BY <3>1, <3>2
  <2>4. e \in Nat /\ e <= t /\ (e = t <=> a.skipped = 0) /\ (e = 0 <=> a.skipped = a.count)
    <3> HIDE DEF a, t
    <3> QED
      BY <2>2, <2>3, Share
  <2>5. aggregates'[s] = [a EXCEPT !.total = t, !.estimated = e]
    BY <1>2, <2>1 DEF Estimated
  <2> HIDE DEF t, e
  <2>6. aggregates'[s] = Aggregate(a.file, t, e, a.count, a.skipped)
    BY <2>1, <2>5 DEF Aggregates, Aggregate
  <2> QED
    BY <2>1, <2>2, <2>3, <2>4, <2>6 DEF Aggregate, Aggregates
<1>4. \A s \in Suites \ Recorded : aggregates'[s] = aggregates[s]
  BY <1>2
<1>5. Recorded' = Recorded
  BY <1>3, <1>4 DEF Recorded
<1>6. FactsInv'
  BY <1>1 DEF FactsInv
<1>7. ShapeInv'
  <2>1. aggregates' \in [Suites -> Aggregates]
    BY <1>2, <1>3, <1>4 DEF ShapeInv
  <2>2. ASSUME NEW s \in Suites
        PROVE  /\ aggregates'[s].skipped <= aggregates'[s].count
               /\ aggregates'[s].file \in testFiles' \cup {NoFile}
               /\ s \notin Recorded' => aggregates'[s] = Missing
    BY <1>1, <1>3, <1>4, <1>5 DEF ShapeInv
  <2> QED
    BY <1>1, <2>1, <2>2 DEF ShapeInv
<1>8. \A s \in Recorded : Whole(s)' <=> Whole(s)
  BY <1>3 DEF Whole
<1>9. \A t : Match(t)' = Match(t)
  BY <1>1 DEF Match
<1>10. \A s : ~ Kept(s) /\ ~ Kept(s)'
  BY <1>1 DEF Kept
<1>11. TestsInv'
  <2>1. \A t \in tests : t.suite \in Recorded
    BY <1>1 DEF TestsInv, ShapeInv, Tests
  <2>2. OneFile' => \A t \in tests : aggregates'[t.suite].file = t.file
    BY <1>1, <1>3, <2>1 DEF TestsInv, OneFile
  <2> QED
    BY <1>1, <1>5, <1>8, <1>9, <1>10, <2>2 DEF TestsInv
<1>12. SuitesInv' /\ MarkedInv'
  BY <1>1, <1>10 DEF SuitesInv, MarkedInv
<1>13. TimesInv'
  BY <1>1, <1>3, <1>5, <1>8 DEF TimesInv, Whole
<1> QED
  BY <1>6, <1>7, <1>11, <1>12, <1>13

(* The files of a fast discovery.                                          *)
LEMMA FilesKeep ==
  ASSUME AggregatesInv, RecordFastDiscoveryFallbackFiles PROVE AggregatesInv'
<1> USE DEF AggregatesInv
<1>1. /\ phase = "files" /\ phase' = "durations" /\ facts' = facts /\ tests' = tests
      /\ testFiles' = facts.selection /\ aggregates' = aggregates /\ outcome' = outcome
      /\ facts.mode # "full"
  BY DEF RecordFastDiscoveryFallbackFiles, ShapeInv
<1>2. Recorded' = Recorded
  BY <1>1 DEF Recorded
<1>3. FactsInv'
  BY <1>1 DEF FactsInv
<1>4. ShapeInv'
  BY <1>1, <1>2 DEF ShapeInv
<1>5. TestsInv' /\ SuitesInv' /\ MarkedInv' /\ TimesInv'
  BY <1>1, <1>2 DEF TestsInv, SuitesInv, MarkedInv, TimesInv, Kept, Whole, SourceFileForSuite
<1> QED
  BY <1>3, <1>4, <1>5

(* One suite of the backend's durations.                                   *)
LEMMA DurationKeeps ==
  ASSUME AggregatesInv, NEW suite \in Suites, AddDurationData(suite) PROVE AggregatesInv'
<1> USE DEF AggregatesInv
<1>1. /\ phase = "durations" /\ phase' = phase /\ facts' = facts /\ tests' = tests
      /\ testFiles' = testFiles /\ outcome' = outcome /\ facts.mode # "full"
  BY DEF AddDurationData, ShapeInv
<1>2. FactsInv'
  BY <1>1 DEF FactsInv
<1>3. CASE ~ AddsDuration(suite)
  <2>1. aggregates' = aggregates
    BY <1>3 DEF AddDurationData
  <2>2. Recorded' = Recorded
    BY <2>1 DEF Recorded
  <2>3. ShapeInv'
    BY <1>1, <2>1, <2>2 DEF ShapeInv
  <2> QED
    BY <1>1, <1>2, <2>1, <2>2, <2>3
    DEF TestsInv, SuitesInv, MarkedInv, TimesInv, Kept, Whole, SourceFileForSuite
<1>4. CASE AddsDuration(suite)
  <2> DEFINE b == facts.backendFile[suite]
             m == facts.median[suite]
  <2>1. aggregates' = [aggregates EXCEPT ![suite] = Aggregate(b, m, m, 1, 0)]
    BY <1>4 DEF AddDurationData
  <2>2. b \in testFiles /\ b \in Files /\ m \in Nat /\ m > 0 /\ b # NoFile
    BY <1>4, UnitsAssumption, NoFileAssumption DEF AddsDuration, FactsInv, ShapeInv
  <2>3. aggregates'[suite] = Aggregate(b, m, m, 1, 0)
    BY <2>1 DEF ShapeInv
  <2>4. \A s \in Suites \ {suite} : aggregates'[s] = aggregates[s]
    BY <2>1 DEF ShapeInv
  <2>5. /\ aggregates'[suite].file = b /\ aggregates'[suite].total = m
        /\ aggregates'[suite].estimated = m /\ aggregates'[suite].count = 1
        /\ aggregates'[suite].skipped = 0
    BY <2>3 DEF Aggregate
  <2>6. Recorded' = Recorded \cup {suite}
    BY <2>4, <2>5 DEF Recorded
  <2>7. aggregates'[suite] \in Aggregates
    BY <2>2, <2>3 DEF Aggregate, Aggregates
  <2>8. SourceFileForSuite(suite)' = b
    BY <1>1, <2>2 DEF SourceFileForSuite
  <2>9. \A s : SourceFileForSuite(s)' = SourceFileForSuite(s)
    BY <1>1 DEF SourceFileForSuite
  <2> HIDE DEF b, m
  <2>10. ShapeInv'
    <3>1. aggregates' \in [Suites -> Aggregates]
      BY <2>1, <2>4, <2>7 DEF ShapeInv
    <3>2. ASSUME NEW s \in Suites
          PROVE  /\ aggregates'[s].skipped <= aggregates'[s].count
                 /\ aggregates'[s].file \in testFiles' \cup {NoFile}
                 /\ s \notin Recorded' => aggregates'[s] = Missing
      BY <1>1, <2>2, <2>4, <2>5, <2>6 DEF ShapeInv
    <3> QED
      BY <1>1, <3>1, <3>2 DEF ShapeInv
  <2>11. SuitesInv'
    <3>1. ASSUME NEW s \in Recorded'
          PROVE  /\ aggregates'[s].file = SourceFileForSuite(s)
                 /\ aggregates'[s].file # NoFile /\ aggregates'[s].skipped = 0
      BY <1>1, <2>2, <2>4, <2>5, <2>6, <2>8, <2>9, <3>1 DEF SuitesInv, Recorded
    <3> QED
      BY <1>1, <2>9, <3>1 DEF SuitesInv
  <2>12. TimesInv'
    <3>1. ASSUME NEW s \in Recorded'
          PROVE  LET a == aggregates'[s]
                 IN  /\ a.total > 0 /\ a.estimated <= a.total
                     /\ a.estimated = a.total <=> a.skipped = 0
                     /\ a.estimated = 0 <=> a.skipped = a.count
      <4>1. CASE s = suite
        BY <2>2, <2>5, <4>1
      <4>2. CASE s # suite
        BY <1>1, <2>4, <2>6, <4>2 DEF TimesInv, Whole, Recorded
      <4> QED
        BY <4>1, <4>2
    <3> QED
      BY <1>1, <3>1 DEF TimesInv, Whole
  <2> QED
    BY <1>1, <1>2, <2>10, <2>11, <2>12 DEF TestsInv, MarkedInv, Kept
<1> QED
  BY <1>3, <1>4

(* The skippable suites of a fast discovery.                               *)
LEMMA SuiteSkipsKeep ==
  ASSUME AggregatesInv, RecordSuiteLevelSkippables PROVE AggregatesInv'
<1> USE DEF AggregatesInv
<1> DEFINE Skipped == {s \in facts.tiaSuites : SourceFileForSuite(s) \in testFiles}
<1>1. /\ phase = "durations" /\ phase' = "markers" /\ facts' = facts /\ tests' = tests
      /\ testFiles' = testFiles /\ outcome' = outcome /\ facts.mode # "full"
      /\ aggregates' = [s \in Suites |->
                          IF s \in Skipped THEN SkippedAggregate(s) ELSE aggregates[s]]
  BY DEF RecordSuiteLevelSkippables, ShapeInv
<1>2. Skipped \in SUBSET Suites
  BY DEF FactsInv
<1>3. ASSUME NEW s \in Skipped
      PROVE  /\ aggregates'[s] \in Aggregates
             /\ aggregates'[s].file = SourceFileForSuite(s)
             /\ aggregates'[s].total > 0 /\ aggregates'[s].estimated = 0
             /\ aggregates'[s].count > 0 /\ aggregates'[s].skipped = aggregates'[s].count
  <2> DEFINE a == aggregates[s]
             m == IF facts.median[s] > 0 THEN facts.median[s] ELSE Second
             t == IF a.total <= 0 THEN m ELSE a.total
             c == IF a.count = 0 THEN 1 ELSE a.count
  <2>1. s \in Suites /\ a \in Aggregates /\ facts.median[s] \in Nat
    BY <1>2, UnitsAssumption DEF ShapeInv, FactsInv
  <2>2. a.total \in Nat /\ a.count \in Nat
    BY <2>1 DEF Aggregates
  <2>3. m \in Nat \ {0}
    BY <2>1, UnitsAssumption
  <2>4. t \in Nat \ {0} /\ c \in Nat \ {0}
    <3> HIDE DEF m, a
    <3> QED
      BY <2>2, <2>3
  <2>5. aggregates'[s] = Aggregate(SourceFileForSuite(s), t, 0, c, c)
    BY <1>1, <2>1 DEF SkippedAggregate
  <2> HIDE DEF t, c
  <2>6. SourceFileForSuite(s) \in Files \cup {NoFile}
    BY <2>1 DEF FactsInv, SourceFileForSuite
  <2> QED
    BY <2>4, <2>5, <2>6 DEF Aggregate, Aggregates
<1>4. \A s \in Suites \ Skipped : aggregates'[s] = aggregates[s]
  BY <1>1
<1> HIDE DEF Skipped
<1>5. Recorded' = Recorded \cup Skipped
  BY <1>2, <1>3, <1>4 DEF Recorded
<1>6. FactsInv'
  BY <1>1 DEF FactsInv
<1>7. ShapeInv'
  <2>1. aggregates' \in [Suites -> Aggregates]
    BY <1>1, <1>3, <1>4 DEF ShapeInv
  <2>2. ASSUME NEW s \in Suites
        PROVE  /\ aggregates'[s].skipped <= aggregates'[s].count
               /\ aggregates'[s].file \in testFiles' \cup {NoFile}
               /\ s \notin Recorded' => aggregates'[s] = Missing
    <3>1. CASE s \in Skipped
      <4>1. aggregates'[s].count \in Nat /\ SourceFileForSuite(s) \in testFiles
        BY <1>3, <3>1 DEF Aggregates, Skipped
      <4> QED
        BY <1>1, <1>3, <1>5, <3>1, <4>1
    <3>2. CASE s \notin Skipped
      BY <1>1, <1>4, <1>5, <3>2 DEF ShapeInv
    <3> QED
      BY <3>1, <3>2
  <2> QED
    BY <1>1, <2>1, <2>2 DEF ShapeInv
<1>8. \A s : SourceFileForSuite(s)' = SourceFileForSuite(s)
  BY <1>1 DEF SourceFileForSuite
<1>9. SuitesInv'
  <2>1. ASSUME NEW s \in Recorded'
        PROVE  /\ aggregates'[s].file = SourceFileForSuite(s) /\ aggregates'[s].file # NoFile
               /\ aggregates'[s].skipped = aggregates'[s].count <=> s \in facts.tiaSuites
    <3>1. CASE s \in Skipped
      BY <1>3, <3>1, NoFileAssumption DEF Skipped, ShapeInv, FactsInv
    <3>2. CASE s \notin Skipped
      <4>1. /\ s \in Recorded /\ s \in Suites /\ aggregates'[s] = aggregates[s]
            /\ aggregates[s].file = SourceFileForSuite(s) /\ aggregates[s].file # NoFile
            /\ aggregates[s].skipped = 0 /\ aggregates[s].count > 0
            /\ aggregates[s].file \in testFiles \cup {NoFile}
        BY <1>1, <1>4, <1>5, <3>2 DEF SuitesInv, Recorded, ShapeInv
      <4> QED
        BY <3>2, <4>1 DEF Skipped
    <3> QED
      BY <3>1, <3>2
  <2>2. \A s : ~ Kept(s)'
    BY <1>1 DEF Kept
  <2>3. \A s \in facts.tiaSuites : SourceFileForSuite(s) \in testFiles => s \in Recorded'
    BY <1>5 DEF Skipped
  <2> QED
    BY <1>1, <1>8, <2>1, <2>2, <2>3 DEF SuitesInv, Whole
<1>10. TimesInv'
  <2>1. ASSUME NEW s \in Recorded'
        PROVE  LET a == aggregates'[s]
               IN  /\ a.total > 0 /\ a.estimated <= a.total
                   /\ a.estimated = a.total <=> a.skipped = 0
                   /\ a.estimated = 0 <=> a.skipped = a.count
    <3>1. CASE s \in Skipped
      <4>1. aggregates'[s].total \in Nat /\ aggregates'[s].count \in Nat
        BY <1>3, <3>1 DEF Aggregates
      <4> QED
        BY <1>3, <3>1, <4>1
    <3>2. CASE s \notin Skipped
      BY <1>1, <1>4, <1>5, <3>2 DEF TimesInv, Whole, Recorded
    <3> QED
      BY <3>1, <3>2
  <2> QED
    BY <1>1, <2>1 DEF TimesInv, Whole
<1> QED
  BY <1>1, <1>6, <1>7, <1>9, <1>10 DEF TestsInv, MarkedInv, Kept

(* An aggregate without skips.                                             *)
LEMMA Uncounted ==
  ASSUME NEW r \in Aggregates, NEW q,
         q = [r EXCEPT !.skipped = 0, !.estimated = r.total]
  PROVE  q \in Aggregates /\ q = Aggregate(r.file, r.total, r.total, r.count, 0)
BY DEF Aggregates, Aggregate

(* The suites whose file has a marker.                                     *)
LEMMA MarkersKeep ==
  ASSUME AggregatesInv, KeepUnskippableMarkerSuitesRunnable PROVE AggregatesInv'
<1> USE DEF AggregatesInv
<1>1. /\ phase = "markers" /\ phase' = "weigh" /\ facts' = facts /\ tests' = tests
      /\ testFiles' = testFiles /\ outcome' = outcome
  BY DEF KeepUnskippableMarkerSuitesRunnable
<1> DEFINE freed(s) == [aggregates[s] EXCEPT !.skipped = 0, !.estimated = aggregates[s].total]
<1>0. aggregates' = [s \in Suites |-> IF s \in Forced THEN freed(s) ELSE aggregates[s]]
  BY DEF KeepUnskippableMarkerSuitesRunnable
<1>2. ASSUME NEW s \in Forced
      PROVE  /\ aggregates'[s] \in Aggregates
             /\ aggregates'[s].file = aggregates[s].file
             /\ aggregates'[s].total = aggregates[s].total
             /\ aggregates'[s].estimated = aggregates[s].total
             /\ aggregates'[s].count = aggregates[s].count /\ aggregates'[s].skipped = 0
  <2>1. s \in Suites /\ aggregates[s] \in Aggregates
    BY DEF Forced, Recorded, ShapeInv
  <2>2. aggregates'[s] = freed(s)
    <3> HIDE DEF freed
    <3> QED
      BY <1>0, <1>2, <2>1
  <2>3. /\ aggregates'[s] \in Aggregates
        /\ aggregates'[s] = Aggregate(aggregates[s].file, aggregates[s].total,
                                      aggregates[s].total, aggregates[s].count, 0)
    BY <2>1, <2>2, Uncounted
  <2> QED
    BY <2>3 DEF Aggregate
<1> HIDE DEF freed
<1>3. \A s \in Suites \ Forced : aggregates'[s] = aggregates[s]
  BY <1>0
<1>4. Recorded' = Recorded
  <2>1. Forced \subseteq Recorded
    BY DEF Forced
  <2> QED
    BY <1>2, <1>3, <2>1 DEF Recorded
<1>5. FactsInv'
  BY <1>1 DEF FactsInv
<1>6. ShapeInv'
  <2>1. aggregates' \in [Suites -> Aggregates]
    BY <1>0, <1>2, <1>3 DEF ShapeInv
  <2>2. ASSUME NEW s \in Suites
        PROVE  /\ aggregates'[s].skipped <= aggregates'[s].count
               /\ aggregates'[s].file \in testFiles' \cup {NoFile}
               /\ s \notin Recorded' => aggregates'[s] = Missing
    <3>1. CASE s \in Forced
      <4>1. s \in Recorded' /\ aggregates[s].file \in testFiles \cup {NoFile}
        BY <1>4, <3>1 DEF Forced, ShapeInv
      <4>2. aggregates'[s].count \in Nat /\ aggregates'[s].skipped = 0
        BY <1>2, <3>1 DEF Aggregates
      <4>3. aggregates'[s].file = aggregates[s].file
        BY <1>2, <3>1
      <4> QED
        BY <1>1, <4>1, <4>2, <4>3
    <3>2. CASE s \notin Forced
      BY <1>1, <1>3, <1>4, <3>2 DEF ShapeInv
    <3> QED
      BY <3>1, <3>2
  <2> QED
    BY <1>1, <2>1, <2>2 DEF ShapeInv
<1>7. ASSUME NEW s \in Recorded
      PROVE  /\ s \in Suites /\ ~ Kept(s)
             /\ aggregates'[s].file = aggregates[s].file
             /\ Kept(s)' <=> aggregates[s].file \in facts.marked
             /\ Kept(s)' => aggregates'[s].skipped = 0
             /\ Whole(s)' <=> ~ Kept(s)' /\ Whole(s)
  <2>1. /\ s \in Suites /\ aggregates[s].count > 0 /\ aggregates[s].count \in Nat
        /\ aggregates[s].skipped \in Nat
    BY DEF Recorded, ShapeInv, Aggregates
  <2>2. CASE s \in Forced
    <3>1. /\ aggregates'[s].file = aggregates[s].file /\ aggregates'[s].skipped = 0
          /\ aggregates'[s].count = aggregates[s].count /\ aggregates[s].file \in facts.marked
      BY <1>2, <2>2 DEF Forced
    <3>2. ~ Kept(s) /\ Kept(s)' /\ ~ Whole(s)'
      BY <1>1, <2>1, <3>1 DEF Kept, Whole
    <3> QED
      BY <2>1, <3>1, <3>2
  <2>3. CASE s \notin Forced
    <3>1. aggregates[s].file \in facts.marked => aggregates[s].skipped = 0
      BY <2>1, <2>3 DEF Forced
    <3>2. aggregates'[s] = aggregates[s]
      BY <1>3, <2>1, <2>3
    <3>3. ~ Kept(s) /\ (Kept(s)' <=> aggregates[s].file \in facts.marked)
      BY <1>1, <3>2 DEF Kept
    <3>4. Whole(s)' <=> Whole(s)
      BY <3>2 DEF Whole
    <3>5. aggregates[s].file \in facts.marked => ~ Whole(s)
      BY <2>1, <3>1 DEF Whole
    <3> QED
      BY <2>1, <3>1, <3>2, <3>3, <3>4, <3>5
  <2> QED
    BY <2>2, <2>3
<1>8. TestsInv'
  <2>1. \A t : Match(t)' = Match(t)
    BY <1>1 DEF Match
  <2>2. \A t \in tests : t.suite \in Recorded \/ facts.mode # "full"
    BY DEF TestsInv, ShapeInv, Tests
  <2>3. OneFile' /\ facts.mode = "full" => \A t \in tests : aggregates'[t.suite].file = t.file
    BY <1>1, <1>7, <2>2 DEF TestsInv, OneFile
  <2> QED
    BY <1>1, <1>4, <1>7, <2>1, <2>3 DEF TestsInv
<1>9. SuitesInv'
  <2>1. \A s : SourceFileForSuite(s)' = SourceFileForSuite(s)
    BY <1>1 DEF SourceFileForSuite
  <2> QED
    BY <1>1, <1>4, <1>7, <2>1 DEF SuitesInv
<1>10. MarkedInv'
  BY <1>1, <1>4, <1>7 DEF MarkedInv
<1>11. TimesInv'
  <2>1. ASSUME NEW s \in Recorded
        PROVE  LET a == aggregates'[s]
               IN  /\ a.total > 0 /\ a.estimated <= a.total
                   /\ a.estimated = a.total <=> a.skipped = 0
                   /\ a.estimated = 0 <=> a.skipped = a.count
    <3>1. s \in Suites /\ aggregates[s] \in Aggregates /\ aggregates[s].count > 0
      BY DEF Recorded, ShapeInv
    <3>2. aggregates[s].total > 0
      BY <1>1 DEF TimesInv
    <3>3. CASE s \in Forced
      BY <1>2, <3>1, <3>2, <3>3 DEF Aggregates
    <3>4. CASE s \notin Forced
      BY <1>1, <1>3, <3>1, <3>4 DEF TimesInv, Whole
    <3> QED
      BY <3>3, <3>4
  <2> QED
    BY <1>1, <1>4, <2>1 DEF TimesInv, Whole
<1> QED
  BY <1>5, <1>6, <1>8, <1>9, <1>10, <1>11

(* The weights.                                                            *)
LEMMA WeightsKeep ==
  ASSUME AggregatesInv, CalculateFileWeights PROVE AggregatesInv'
<1> USE DEF AggregatesInv
<1>1. /\ phase = "weigh" /\ phase' = "done" /\ facts' = facts /\ tests' = tests
      /\ testFiles' = testFiles /\ aggregates' = aggregates
  BY DEF CalculateFileWeights
<1>2. Recorded' = Recorded
  BY <1>1 DEF Recorded
<1>3. FactsInv'
  BY <1>1 DEF FactsInv
<1>4. ShapeInv'
  BY <1>1, <1>2 DEF ShapeInv
<1>5. \A s : (Kept(s)' <=> Kept(s)) /\ (Whole(s)' <=> Whole(s))
  BY <1>1 DEF Kept, Whole
<1>6. \A s, t : SourceFileForSuite(s)' = SourceFileForSuite(s) /\ Match(t)' = Match(t)
  BY <1>1 DEF SourceFileForSuite, Match
<1>7. TestsInv' /\ SuitesInv'
  BY <1>1, <1>2, <1>5, <1>6 DEF TestsInv, SuitesInv, OneFile
<1>8. MarkedInv'
  <2>1. \A f : Runs(f)' <=> Runs(f)
    BY <1>1, <1>2 DEF Runs, SuitesOf, RunnableSuites
  <2>2. PlannedFiles' = {f \in testFiles : Runs(f)}
    BY DEF CalculateFileWeights, PlannedFiles
  <2>3. PlannedFiles' = {f \in testFiles' : Runs(f)'}
    BY <1>1, <2>1, <2>2
  <2> QED
    BY <1>1, <1>2, <1>5, <2>3 DEF MarkedInv
<1>9. TimesInv'
  <2>1. /\ outcome'.total = TotalOf([s \in Recorded |-> aggregates[s].total])
        /\ outcome'.estimated = TotalOf([s \in Recorded |-> aggregates[s].estimated])
    BY DEF CalculateFileWeights
  <2>2. /\ outcome'.total = TotalOf([s \in Recorded' |-> aggregates'[s].total])
        /\ outcome'.estimated = TotalOf([s \in Recorded' |-> aggregates'[s].estimated])
    BY <1>1, <1>2, <2>1
  <2> QED
    BY <1>1, <1>2, <1>5, <2>2 DEF TimesInv
<1> QED
  BY <1>3, <1>4, <1>7, <1>8, <1>9

LEMMA NextAggregates == AggregatesInv /\ [AggregatesNext]_aggregatesVars => AggregatesInv'
<1> SUFFICES ASSUME AggregatesInv, [AggregatesNext]_aggregatesVars PROVE AggregatesInv'
  OBVIOUS
<1>1. ASSUME NEW test \in Tests, RecordTest(test) PROVE AggregatesInv'
  BY <1>1, RecordTestKeeps
<1>2. CASE AllTestsRecorded
  <2>1. /\ phase = "tests" /\ phase' = "estimate" /\ facts' = facts /\ tests' = tests
        /\ testFiles' = testFiles /\ aggregates' = aggregates /\ outcome' = outcome
    BY <1>2 DEF AllTestsRecorded
  <2>2. Recorded' = Recorded
    BY <2>1 DEF Recorded
  <2>3. \A s, t : SourceFileForSuite(s)' = SourceFileForSuite(s) /\ Match(t)' = Match(t)
    BY <2>1 DEF SourceFileForSuite, Match
  <2>4. \A s : (Kept(s)' <=> Kept(s)) /\ (Whole(s)' <=> Whole(s))
    BY <2>1 DEF Kept, Whole
  <2> USE DEF AggregatesInv
  <2>5. FactsInv' /\ ShapeInv'
    BY <2>1, <2>2 DEF FactsInv, ShapeInv
  <2>6. TestsInv' /\ SuitesInv'
    BY <2>1, <2>2, <2>3, <2>4 DEF TestsInv, SuitesInv, OneFile, ShapeInv
  <2>7. MarkedInv' /\ TimesInv'
    BY <2>1, <2>2, <2>4 DEF MarkedInv, TimesInv
  <2> QED
    BY <2>5, <2>6, <2>7
<1>3. CASE UNCHANGED aggregatesVars
  BY <1>3 DEF aggregatesVars, AggregatesInv, FactsInv, ShapeInv, TestsInv, SuitesInv, MarkedInv,
    TimesInv, OneFile, Kept, Whole, Recorded, Match, SourceFileForSuite, PlannedFiles, Runs,
    SuitesOf, RunnableSuites
<1> QED
  BY <1>1, <1>2, <1>3, EstimateKeeps, FilesKeep, DurationKeeps, SuiteSkipsKeep, MarkersKeep,
     WeightsKeep DEF AggregatesNext

(* AggregatesInv holds throughout. *)
LEMMA AggregatesInvariant == AggregatesSpec => []AggregatesInv
BY InitAggregates, NextAggregates, PTL DEF AggregatesSpec

(* A marked file runs, whatever is skipped or disabled in it and whichever *)
(* suites share it.                                                        *)
THEOREM MarkedFilesAreKept == AggregatesSpec => []MarkedFilesRun
<1>1. AggregatesInv => MarkedFilesRun
  <2> SUFFICES ASSUME AggregatesInv, Done, NEW f \in facts.marked \cap testFiles
               PROVE  f \in PlannedFiles
    BY DEF MarkedFilesRun
  <2>1. ASSUME NEW s \in SuitesOf(f) PROVE s \in RunnableSuites(f)
    <3>1. s \in Recorded /\ s \in Suites /\ aggregates[s].file = f
      BY DEF SuitesOf, Recorded
    <3>2. aggregates[s].skipped = 0
      BY <3>1 DEF AggregatesInv, MarkedInv, Kept, Done
    <3>3. aggregates[s].count > 0 /\ aggregates[s].count \in Nat
      BY <3>1 DEF Recorded, AggregatesInv, ShapeInv, Aggregates
    <3> QED
      BY <3>2, <3>3 DEF RunnableSuites
  <2>2. Runs(f)
    BY <2>1 DEF Runs
  <2> QED
    BY <2>2 DEF AggregatesInv, MarkedInv, Done
<1> QED
  BY <1>1, AggregatesInvariant, PTL

(* The plan is what is left, in full discovery ...                         *)
LEMMA FullPlan ==
  ASSUME AggregatesInv, Done, facts.mode = "full", OneFile
  PROVE  PlannedFiles = FilesRunnableInFull
<1> USE DEF AggregatesInv
<1>1. /\ PlannedFiles = {f \in testFiles : Runs(f)}
      /\ \A s : Kept(s) <=> aggregates[s].file \in facts.marked
  BY DEF MarkedInv, Done, Kept
<1>2. ASSUME NEW f \in testFiles
      PROVE  /\ f \in facts.selection /\ f # NoFile /\ TestsOf(f) # {}
             /\ SuitesOf(f) = {t.suite : t \in TestsOf(f)}
  <2>1. f \in facts.selection /\ f # NoFile /\ TestsOf(f) # {}
    BY NoFileAssumption DEF TestsInv, ShapeInv, FactsInv, TestsOf
  <2>2. ASSUME NEW s \in SuitesOf(f) PROVE s \in {t.suite : t \in TestsOf(f)}
    <3>1. s \in Recorded /\ s \in Suites /\ aggregates[s].file = f
      BY DEF SuitesOf, Recorded
    <3>2. PICK t \in tests : t.suite = s
      BY <3>1 DEF TestsInv
    <3>3. t.file = f
      BY <3>1, <3>2 DEF TestsInv
    <3> QED
      BY <3>2, <3>3 DEF TestsOf
  <2>3. ASSUME NEW t \in TestsOf(f) PROVE t.suite \in SuitesOf(f)
    <3>1. t \in tests /\ t.file = f /\ t.suite \in Suites
      BY DEF TestsOf, ShapeInv, Tests
    <3>2. t.suite \in Recorded /\ aggregates[t.suite].file = f
      BY <3>1 DEF TestsInv
    <3> QED
      BY <3>2 DEF SuitesOf
  <2> QED
    BY <2>1, <2>2, <2>3
<1>3. \A t \in tests : Match(t) = "none"
                        <=> ~ t.disabled /\ ~ t.tia /\ t.suite \notin facts.tiaSuites
  BY DEF Match
<1>4. ASSUME NEW f \in testFiles PROVE Runs(f) <=> f \in FilesRunnableInFull
  <2>1. Runs(f) <=> \E t \in TestsOf(f) : ~ Whole(t.suite)
    BY <1>2, <1>4 DEF Runs, RunnableSuites, Whole
  <2>2. ASSUME NEW t \in TestsOf(f)
        PROVE  ~ Whole(t.suite) <=> \/ f \in facts.marked
                                    \/ \E u \in TestsOf(f) : u.suite = t.suite /\ Match(u) = "none"
    <3>1. t \in tests /\ t.file = f /\ t.suite \in Recorded /\ aggregates[t.suite].file = f
      BY <1>2, <1>4 DEF TestsOf, SuitesOf
    <3>2. \A u \in tests : u.suite = t.suite => u \in TestsOf(f)
      BY <3>1 DEF OneFile, TestsOf
    <3>3. \A u \in TestsOf(f) : u \in tests
      BY DEF TestsOf
    <3> QED
      BY <1>1, <3>1, <3>2, <3>3 DEF TestsInv
  <2>3. Runs(f) <=> f \in facts.marked \/ \E t \in TestsOf(f) : Match(t) = "none"
    BY <1>2, <1>4, <2>1, <2>2
  <2>4. \A t \in TestsOf(f) : t \in tests
    BY DEF TestsOf
  <2> QED
    BY <1>2, <1>3, <1>4, <2>3, <2>4 DEF FilesRunnableInFull
<1>5. FilesRunnableInFull \subseteq testFiles
  <2> SUFFICES ASSUME NEW f \in FilesRunnableInFull PROVE f \in testFiles
    OBVIOUS
  <2>1. f \in Files /\ TestsOf(f) # {}
    BY DEF FilesRunnableInFull, FactsInv
  <2> QED
    BY <2>1, NoFileAssumption DEF TestsOf, TestsInv
<1> QED
  BY <1>1, <1>4, <1>5

(* ... and in fast discovery.                                              *)
LEMMA FastPlan ==
  ASSUME AggregatesInv, Done, facts.mode = "fast",
         \A s, r \in Suites : s # r =>
           SourceFileForSuite(s) # SourceFileForSuite(r) \/ SourceFileForSuite(s) = NoFile
  PROVE  PlannedFiles = FilesRunnableInFast
<1> USE DEF AggregatesInv
<1>1. /\ PlannedFiles = {f \in facts.selection : Runs(f)} /\ testFiles = facts.selection
      /\ \A s : Kept(s) <=> aggregates[s].file \in facts.marked
      /\ facts.selection \subseteq Files /\ facts.tiaSuites \subseteq Suites
  BY DEF MarkedInv, SuitesInv, Done, Kept, FactsInv
<1>2. ASSUME NEW s \in Recorded
      PROVE  /\ s \in Suites /\ aggregates[s].file = SourceFileForSuite(s)
             /\ Whole(s) <=> SourceFileForSuite(s) \notin facts.marked /\ s \in facts.tiaSuites
  BY <1>1 DEF SuitesInv, Done, Recorded
<1>3. ASSUME NEW s \in facts.tiaSuites, SourceFileForSuite(s) \in facts.selection
      PROVE  s \in Recorded
  BY <1>1, <1>3 DEF SuitesInv, Done
<1>4. ASSUME NEW f \in facts.selection PROVE Runs(f) <=> f \in FilesRunnableInFast
  <2>1. Runs(f) <=> \/ \A s \in Recorded : SourceFileForSuite(s) # f
                    \/ \E s \in Recorded : SourceFileForSuite(s) = f /\ ~ Whole(s)
    BY <1>2 DEF Runs, SuitesOf, RunnableSuites, Whole
  <2>2. CASE f \in facts.marked
    BY <1>2, <2>1, <2>2 DEF FilesRunnableInFast
  <2>3. CASE f \notin facts.marked
    <3>1. Runs(f) <=> \/ \A s \in Recorded : SourceFileForSuite(s) # f
                      \/ \E s \in Recorded : SourceFileForSuite(s) = f /\ s \notin facts.tiaSuites
      BY <1>2, <2>1, <2>3
    <3>2. \A s, r \in Suites : SourceFileForSuite(s) = f /\ SourceFileForSuite(r) = f => s = r
      BY <1>1, NoFileAssumption
    <3>3. f \in FilesRunnableInFast <=> \A s \in facts.tiaSuites : SourceFileForSuite(s) # f
      BY <2>3 DEF FilesRunnableInFast
    <3> QED
      BY <1>1, <1>2, <1>3, <3>1, <3>2, <3>3
  <2> QED
    BY <2>2, <2>3
<1> QED
  BY <1>1, <1>4 DEF FilesRunnableInFast

(* The plan runs what is neither skipped nor disabled, and what is marked. *)
THEOREM PlanIsWhatIsLeft == AggregatesSpec => []PlanRunsWhatIsLeft
<1>1. AggregatesInv => PlanRunsWhatIsLeft
  BY FullPlan, FastPlan DEF PlanRunsWhatIsLeft, OneFile
<1> QED
  BY <1>1, AggregatesInvariant, PTL

(* The saved time is what the skips make of it.                            *)
THEOREM SavedTimeConsistent == AggregatesSpec => []SavedTimeIsConsistent
<1>1. AggregatesInv => SavedTimeIsConsistent
  <2> SUFFICES ASSUME AggregatesInv, Done
               PROVE  /\ 0 <= outcome.estimated /\ outcome.estimated <= outcome.total
                      /\ outcome.estimated = outcome.total
                           <=> \A s \in Suites : aggregates[s].skipped = 0
                      /\ outcome.estimated = 0 <=> \A s \in Suites : Whole(s)
    BY DEF SavedTimeIsConsistent, Whole
  <2> USE DEF AggregatesInv
  <2> DEFINE f == [s \in Recorded |-> aggregates[s].total]
             g == [s \in Recorded |-> aggregates[s].estimated]
  <2>1. Recorded \subseteq Suites /\ IsFiniteSet(Recorded)
    BY SuitesAssumption, FS_Subset DEF Recorded
  <2>2. ASSUME NEW s \in Recorded
        PROVE  /\ f[s] \in Nat /\ g[s] \in Nat /\ g[s] <= f[s]
               /\ g[s] = f[s] <=> aggregates[s].skipped = 0
               /\ g[s] = 0 <=> Whole(s)
    BY <2>1 DEF TimesInv, ShapeInv, Aggregates, Done
  <2>3. \A s \in Suites \ Recorded : aggregates[s].skipped = 0 /\ Whole(s)
    BY DEF ShapeInv, Missing, Aggregate, Whole
  <2>4. outcome.total = TotalOf(f) /\ outcome.estimated = TotalOf(g)
    BY DEF TimesInv, Done
  <2>5. f \in [Recorded -> Nat] /\ g \in [Recorded -> Nat]
    BY <2>2
  <2> HIDE DEF f, g
  <2>6. /\ TotalOf(f) \in Nat /\ TotalOf(g) \in Nat /\ TotalOf(g) <= TotalOf(f)
        /\ TotalOf(g) = TotalOf(f) <=> \A s \in Recorded : g[s] = f[s]
    BY <2>1, <2>2, <2>5, TotalsCompare
  <2>7. TotalOf(g) = 0 <=> \A s \in Recorded : g[s] = 0
    <3>1. \A s \in Recorded : g[s] <= g[s]
      BY <2>2
    <3> QED
      BY <2>1, <2>5, <3>1, TotalsCompare
  <2>8. outcome.estimated = outcome.total <=> \A s \in Suites : aggregates[s].skipped = 0
    BY <2>1, <2>2, <2>3, <2>4, <2>6
  <2>9. outcome.estimated = 0 <=> \A s \in Suites : Whole(s)
    BY <2>1, <2>2, <2>3, <2>4, <2>7
  <2> QED
    BY <2>4, <2>6, <2>8, <2>9
<1> QED
  BY <1>1, AggregatesInvariant, PTL

(* A weight is a whole number of milliseconds and at least one: what the   *)
(* floor of the code is for, and what balancing the runners rests on.      *)
LEMMA WeightPositive ==
  ASSUME AggregatesInv, NEW name
  PROVE  FileWeight(name) \in Int /\ FileWeight(name) >= 1
<1> DEFINE f == [s \in RunnableSuites(name) |-> aggregates[s].estimated]
           d == TotalOf(f)
<1>1. RunnableSuites(name) \subseteq Suites /\ IsFiniteSet(RunnableSuites(name))
  BY SuitesAssumption, FS_Subset DEF RunnableSuites, SuitesOf, Recorded
<1>2. f \in [RunnableSuites(name) -> Nat]
  BY <1>1 DEF AggregatesInv, ShapeInv, Aggregates
<1>3. d \in Nat
  <2> HIDE DEF f
  <2>1. \A s \in RunnableSuites(name) : f[s] <= f[s]
    BY <1>2
  <2> QED
    BY <1>1, <1>2, <2>1, TotalsCompare
<1> HIDE DEF f
<1>4. Second \div Millisecond \in Int /\ Second \div Millisecond >= 1
  BY UnitsAssumption
<1>5. d \div Millisecond \in Int
  BY <1>3, UnitsAssumption
<1>6. ASSUME NEW n \in Int PROVE Max({1, n}) \in Int /\ Max({1, n}) >= 1
  <2> DEFINE m == IF n >= 1 THEN n ELSE 1
  <2>1. m \in {1, n} /\ \A y \in {1, n} : m >= y
    BY <1>6
  <2>2. Max({1, n}) \in {1, n} /\ \A y \in {1, n} : Max({1, n}) >= y
    BY <2>1 DEF Max
  <2> QED
    BY <1>6, <2>2
<1>7. FileWeight(name) = IF d = 0 THEN Second \div Millisecond ELSE Max({1, d \div Millisecond})
  BY DEF FileWeight, f
<1> QED
  BY <1>4, <1>5, <1>6, <1>7

(* What the types need beyond AggregatesInv: the counts of the report, no  *)
(* times before they are estimated and no weights before the end.          *)
Counts == [tiaTests: Nat, tiaSuites: SUBSET Suites, disabled: Nat, forced: Nat]

CountsInv == pending \subseteq Suites /\ stats \in Counts

WeightsInv ==
  /\ phase \in {"tests", "estimate"} =>
       \A s \in Suites : aggregates[s].total = 0 /\ aggregates[s].estimated = 0
  /\ phase # "done" => DOMAIN outcome.weights = {}
  /\ DOMAIN outcome.weights \subseteq testFiles
  /\ \A f \in DOMAIN outcome.weights : outcome.weights[f] >= 1

LEMMA InitCounts == AggregatesInit => CountsInv /\ WeightsInv
<1> SUFFICES ASSUME AggregatesInit PROVE CountsInv /\ WeightsInv
  OBVIOUS
<1>1. aggregates = [s \in Suites |-> Missing] /\ Missing.total = 0 /\ Missing.estimated = 0
  BY DEF AggregatesInit, Missing, Aggregate
<1>2. outcome.weights = [f \in {} |-> 0]
  BY DEF AggregatesInit
<1> QED
  BY <1>1, <1>2 DEF AggregatesInit, CountsInv, Counts, WeightsInv

LEMMA CountsStep ==
  AggregatesInv /\ CountsInv /\ [AggregatesNext]_aggregatesVars => CountsInv'
<1> SUFFICES ASSUME AggregatesInv, CountsInv, [AggregatesNext]_aggregatesVars PROVE CountsInv'
  OBVIOUS
<1> USE DEF CountsInv
<1>1. ASSUME NEW test \in Tests, RecordTest(test) PROVE CountsInv'
  <2>1. test.suite \in Suites /\ pending' = pending /\ stats' = StatsWith(Match(test), test.suite)
    BY <1>1 DEF Tests, RecordTest
  <2> QED
    BY <2>1 DEF StatsWith, Counts
<1>2. CASE RecordSuiteLevelSkippables
  <2>1. facts.tiaSuites \subseteq Suites
    BY DEF AggregatesInv, FactsInv
  <2> QED
    BY <1>2, <2>1 DEF RecordSuiteLevelSkippables, Counts
<1>3. CASE KeepUnskippableMarkerSuitesRunnable
  <2>1. IsFiniteSet(Forced)
    BY SuitesAssumption, FS_Subset DEF Forced, Recorded
  <2>2. Cardinality(Forced) \in Nat
    BY <2>1, FS_CardinalityType
  <2> QED
    BY <1>3, <2>2 DEF KeepUnskippableMarkerSuitesRunnable, Counts
<1>4. CASE \/ AllTestsRecorded \/ EstimateDiscoveredSuiteDurations
           \/ RecordFastDiscoveryFallbackFiles \/ CalculateFileWeights
           \/ UNCHANGED aggregatesVars \/ \E suite \in Suites : AddDurationData(suite)
  BY <1>4 DEF AllTestsRecorded, EstimateDiscoveredSuiteDurations,
     RecordFastDiscoveryFallbackFiles, CalculateFileWeights, aggregatesVars, AddDurationData
<1> QED
  BY <1>1, <1>2, <1>3, <1>4 DEF AggregatesNext

LEMMA WeightsStep ==
  AggregatesInv /\ WeightsInv /\ [AggregatesNext]_aggregatesVars => WeightsInv'
<1> SUFFICES ASSUME AggregatesInv, WeightsInv, [AggregatesNext]_aggregatesVars PROVE WeightsInv'
  OBVIOUS
<1>1. ASSUME NEW test \in Tests, RecordTest(test) PROVE WeightsInv'
  <2>1. /\ phase = "tests" /\ phase' = "tests" /\ outcome' = outcome /\ test.suite \in Suites
    BY <1>1 DEF Tests, RecordTest
  <2>2. /\ aggregates \in [Suites -> Aggregates]
        /\ aggregates[test.suite].total = 0 /\ aggregates[test.suite].estimated = 0
    BY <2>1 DEF WeightsInv, AggregatesInv, ShapeInv
  <2>3. SuiteAggregateForTest(test).total = 0 /\ SuiteAggregateForTest(test).estimated = 0
    BY <2>1, <2>2 DEF SuiteAggregateForTest, Aggregates
  <2>4. \A s \in Suites : aggregates'[s].total = 0 /\ aggregates'[s].estimated = 0
    <3> DEFINE d == IF Match(test) = "none" THEN 0 ELSE 1
    <3>1. /\ aggregates' = [aggregates EXCEPT ![test.suite] =
               [SuiteAggregateForTest(test) EXCEPT !.count = @ + 1, !.skipped = @ + d]]
          /\ d \in Nat
      BY <1>1 DEF RecordTest
    <3>2. SuiteAggregateForTest(test) \in Aggregates
      BY <2>1, <2>2, <1>1 DEF SuiteAggregateForTest, Aggregates, Tests
    <3> HIDE DEF d
    <3>3. aggregates'[test.suite].total = 0 /\ aggregates'[test.suite].estimated = 0
      <4> DEFINE r == SuiteAggregateForTest(test)
      <4>1. aggregates'[test.suite] = [r EXCEPT !.count = @ + 1, !.skipped = @ + d]
        BY <2>1, <2>2, <3>1
      <4> HIDE DEF r
      <4>2. aggregates'[test.suite] = Aggregate(r.file, r.total, r.estimated, r.count + 1, r.skipped + d)
        BY <3>1, <3>2, <4>1, Counted DEF r
      <4>3. r.total = 0 /\ r.estimated = 0
        BY <2>3 DEF r
      <4> QED
        BY <4>2, <4>3 DEF Aggregate
    <3> QED
      BY <2>1, <2>2, <3>1, <3>3 DEF WeightsInv
  <2> QED
    BY <2>1, <2>4 DEF WeightsInv
<1>2. CASE CalculateFileWeights
  <2>1. outcome'.weights = [f \in {g \in testFiles : Runs(g)} |-> FileWeight(f)]
    BY <1>2 DEF CalculateFileWeights
  <2>2. phase' = "done" /\ testFiles' = testFiles
    BY <1>2 DEF CalculateFileWeights
  <2> QED
    BY <2>1, <2>2, WeightPositive DEF WeightsInv
<1>3. CASE \/ EstimateDiscoveredSuiteDurations \/ RecordFastDiscoveryFallbackFiles
           \/ RecordSuiteLevelSkippables \/ KeepUnskippableMarkerSuitesRunnable
           \/ \E suite \in Suites : AddDurationData(suite)
  BY <1>3 DEF WeightsInv, EstimateDiscoveredSuiteDurations, RecordFastDiscoveryFallbackFiles,
     RecordSuiteLevelSkippables, KeepUnskippableMarkerSuitesRunnable, AddDurationData
<1>4. CASE AllTestsRecorded \/ UNCHANGED aggregatesVars
  BY <1>4 DEF WeightsInv, AllTestsRecorded, aggregatesVars
<1> QED
  BY <1>1, <1>2, <1>3, <1>4 DEF AggregatesNext

(* Everything has its type; in particular no suite skips more tests than   *)
(* it has, no estimate exceeds its total, only discovered files are planned*)
(* and each planned file weighs at least a millisecond.                    *)
THEOREM AggregatesTypeCorrect == AggregatesSpec => []AggregatesTypeOK
<1>1. AggregatesInv /\ CountsInv /\ WeightsInv => AggregatesTypeOK
  <2> SUFFICES ASSUME AggregatesInv, CountsInv, WeightsInv PROVE AggregatesTypeOK
    OBVIOUS
  <2>1. testFiles \subseteq Files
    BY DEF AggregatesInv, FactsInv, ShapeInv
  <2>2. ASSUME NEW s \in Suites
        PROVE  /\ aggregates[s].file \in Files \cup {NoFile}
               /\ aggregates[s].skipped \in 0 .. aggregates[s].count
               /\ aggregates[s].file # NoFile => aggregates[s].file \in testFiles
    BY DEF AggregatesInv, ShapeInv, Aggregates
  <2>3. ASSUME NEW s \in Suites PROVE aggregates[s].estimated \in 0 .. aggregates[s].total
    <3>1. aggregates[s].estimated \in Nat /\ aggregates[s].total \in Nat
      BY DEF AggregatesInv, ShapeInv, Aggregates
    <3>2. CASE s \in Recorded
      BY <3>1, <3>2 DEF AggregatesInv, TimesInv, WeightsInv
    <3>3. CASE s \notin Recorded
      BY <3>3 DEF AggregatesInv, ShapeInv, Missing, Aggregate
    <3> QED
      BY <3>2, <3>3
  <2>4. phase \in {"tests", "estimate", "files", "durations", "markers", "weigh", "done"}
    BY DEF AggregatesInv, ShapeInv
  <2> QED
    BY <2>1, <2>2, <2>3, <2>4 DEF AggregatesTypeOK, CountsInv, Counts, WeightsInv
<1> QED
  BY <1>1, AggregatesInvariant, InitCounts, CountsStep, WeightsStep, PTL DEF AggregatesSpec
=============================================================================
