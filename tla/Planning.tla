------------------------------ MODULE Planning ------------------------------
(***************************************************************************)
(* TestPlanner.PreparePlanningData (internal/planner/planner.go): three    *)
(* goroutines of one errgroup.  The backend goroutine decides whether Test *)
(* Impact Analysis (TIA) skips anything and may cancel full discovery; the *)
(* full discovery goroutine restores the discovery cache or runs the test  *)
(* framework in discovery mode; the fast discovery goroutine lists the     *)
(* test files.  When all three have returned the planner chooses which     *)
(* discovery to plan with.                                                 *)
(*                                                                         *)
(* The settings, what the backend answers and the state of the discovery   *)
(* cache are the input of a behaviour, chosen in Init.  What the processes *)
(* of the test framework do is chosen when they end, if they do: no        *)
(* timeout bounds them.                                                    *)
(*                                                                         *)
(* The matcher skips for TIA (tests, or suites) and for Test Management    *)
(* (single tests that are disabled): a set of Kinds says for which.        *)
(***************************************************************************)
EXTENDS Naturals

CONSTANTS
  Levels,            \* the skipping levels checked: subset of {"test", "suite"}
  InitializeOutcomes \* what Initialize may return: subset of {"ok", "error"}

ASSUME LevelsAssumption == Levels \subseteq {"test", "suite"}
ASSUME InitializeOutcomesAssumption == InitializeOutcomes \subseteq {"ok", "error"}

VARIABLES
  input,      \* settings and backend data; never changes
  cancelled,  \* discoveryCtx is done
  backend,    \* [pc, tia, matcher]: goroutine 1
  full,       \* [pc, err, broken]: goroutine 2
  fast,       \* [pc, err]: goroutine 3
  cacheFile,  \* tests-discovery/tests.json
  groupErr,   \* a goroutine returned an error
  plan        \* [status, mode, skips]: what the planner makes of it, and
              \* the kinds of skips that it applies

vars == <<input, cancelled, backend, full, fast, cacheFile, groupErr, plan>>

Kinds == {"tia", "disabled"}

Inputs ==
  [level: Levels, supported: BOOLEAN, force: BOOLEAN, strict: BOOLEAN,
   repositorySettings: {"none", "tia", "noTia"}, skippables: BOOLEAN, disabled: BOOLEAN]

FullEnds == {"notNeeded", "restored", "succeeded", "stopped"}

TypeOK ==
  /\ input \in Inputs
  /\ cancelled \in BOOLEAN /\ groupErr \in BOOLEAN
  /\ backend \in [pc: {"initialize", "settings", "skippables", "noSkips",
                       "durations", "close", "done"},
                  tia: BOOLEAN, matcher: SUBSET Kinds]
  /\ full \in [pc: {"start", "restore", "clean", "discover", "killed", "failed", "store"}
                     \cup FullEnds,
               err: BOOLEAN, broken: BOOLEAN]
  /\ fast \in [pc: {"discover", "done"}, err: BOOLEAN]
  /\ cacheFile \in {"absent", "unusable", "partial", "usable"}
  /\ plan \in [status: {"preparing", "planned", "failedGroup", "failedStrict",
                        "failedFast", "failedProcessing"},
               mode: {"none", "full", "fast"}, skips: SUBSET Kinds]

Needed == input.supported /\ (input.level = "test" \/ input.force)

(* TIA skips something in this plan: test by test, only with full discovery. *)
TIAOn ==
  /\ input.repositorySettings = "tia"
  /\ input.level = "test" => input.supported

(* What the backend has to skip. *)
Skippable(tia) ==
  {k \in Kinds : /\ k = "tia" => tia /\ input.skippables
                 /\ k = "disabled" => input.disabled /\ input.repositorySettings # "none"}

Init ==
  /\ input \in Inputs
  /\ cancelled = FALSE /\ groupErr = FALSE
  /\ backend = [pc |-> "initialize", tia |-> FALSE, matcher |-> {}]
  /\ full = [pc |-> "start", err |-> FALSE, broken |-> FALSE]
  /\ fast = [pc |-> "discover", err |-> FALSE]
  /\ cacheFile \in {"absent", "unusable", "usable"}
  /\ plan = [status |-> "preparing", mode |-> "none", skips |-> {}]

-----------------------------------------------------------------------------
(* Goroutine 1: the backend *)

(* An error makes the errgroup cancel planningCtx, and discovery with it.  *)
(* The deferred StoreCacheAndExit still runs first.                        *)
Initialize ==
  /\ backend.pc = "initialize"
  /\ \E outcome \in InitializeOutcomes :
       /\ backend' = [backend EXCEPT !.pc = IF outcome = "ok" THEN "settings" ELSE "close"]
       /\ groupErr' = (outcome = "error")
  /\ UNCHANGED <<input, cancelled, full, fast, cacheFile, plan>>

(* Without settings nothing is skipped, and nothing is cancelled either.   *)
ReadSettings ==
  /\ backend.pc = "settings"
  /\ backend' = [backend EXCEPT !.pc = "skippables", !.tia = TIAOn]
  /\ cancelled' = (cancelled \/ (input.repositorySettings # "none" /\ ~ TIAOn))
  /\ UNCHANGED <<input, full, fast, cacheFile, groupErr, plan>>

(* fetchSkippables: the TIA skippables only when TIA is on, the disabled   *)
(* tests whenever there are settings.                                      *)
FetchSkippables ==
  /\ backend.pc = "skippables"
  /\ backend' = [backend EXCEPT !.pc = "noSkips", !.matcher = Skippable(backend.tia)]
  /\ UNCHANGED <<input, cancelled, full, fast, cacheFile, groupErr, plan>>

(* Mutant: the cancellation forgets the count of skippable tests. *)
StopDiscoveryUnderTIA ==
  /\ backend.pc = "noSkips"
  /\ cancelled' = (cancelled \/ (backend.tia /\ ~ input.force))
  /\ backend' = [backend EXCEPT !.pc = "durations"]
  /\ UNCHANGED <<input, full, fast, cacheFile, groupErr, plan>>

(* TIA is on but has nothing to skip: full discovery is not worth it, not  *)
(* even for disabled tests.                                                *)
StopUselessDiscovery ==
  /\ backend.pc = "noSkips"
  /\ cancelled' = (cancelled \/ (backend.tia /\ "tia" \notin backend.matcher /\ ~ input.force))
  /\ backend' = [backend EXCEPT !.pc = "durations"]
  /\ UNCHANGED <<input, full, fast, cacheFile, groupErr, plan>>

FetchDurations ==
  /\ backend.pc = "durations"
  /\ backend' = [backend EXCEPT !.pc = "close"]
  /\ UNCHANGED <<input, cancelled, full, fast, cacheFile, groupErr, plan>>

(* StoreCacheAndExit, then the errgroup sees what the goroutine returned.  *)
CloseBackend ==
  /\ backend.pc = "close"
  /\ backend' = [backend EXCEPT !.pc = "done"]
  /\ cancelled' = (cancelled \/ groupErr)
  /\ UNCHANGED <<input, full, fast, cacheFile, groupErr, plan>>

BackendStep ==
  \/ Initialize \/ ReadSettings \/ FetchSkippables
  \/ StopUselessDiscovery \/ FetchDurations \/ CloseBackend

-----------------------------------------------------------------------------
(* Goroutine 2: full discovery *)

StartFull ==
  /\ full.pc = "start"
  /\ full' = [full EXCEPT !.pc = IF Needed THEN "restore" ELSE "notNeeded"]
  /\ UNCHANGED <<input, cancelled, backend, fast, cacheFile, groupErr, plan>>

RestoreCache ==
  /\ full.pc = "restore"
  /\ full' = [full EXCEPT !.pc = IF cacheFile = "usable" THEN "restored" ELSE "clean"]
  /\ UNCHANGED <<input, cancelled, backend, fast, cacheFile, groupErr, plan>>

(* discovery.Cleanup, then the framework starts writing the file; nothing  *)
(* is started when the context is already done.                            *)
LaunchDiscovery ==
  /\ full.pc = "clean"
  /\ full' = [full EXCEPT !.pc = IF cancelled THEN "failed" ELSE "discover"]
  /\ cacheFile' \in IF cancelled THEN {"absent"} ELSE {"absent", "partial"}
  /\ UNCHANGED <<input, cancelled, backend, fast, groupErr, plan>>

(* The framework has listed at least one test. *)
DiscoveryCompletes ==
  /\ full.pc = "discover"
  /\ full' = [full EXCEPT !.pc = "store"]
  /\ cacheFile' = "partial"
  /\ UNCHANGED <<input, cancelled, backend, fast, groupErr, plan>>

(* The framework fails, its report does not parse, or it lists no test.    *)
DiscoveryBreaks ==
  /\ full.pc = "discover"
  /\ full' = [full EXCEPT !.pc = "failed", !.broken = TRUE]
  /\ cacheFile' \in {cacheFile, "partial"}
  /\ UNCHANGED <<input, cancelled, backend, fast, groupErr, plan>>

(* Mutant: the process runs under planningCtx. *)
KilledByGroupOnly ==
  /\ full.pc = "discover"
  /\ groupErr /\ cancelled
  /\ full' = [full EXCEPT !.pc = "killed"]
  /\ UNCHANGED <<input, cancelled, backend, fast, cacheFile, groupErr, plan>>

(* A done context kills the process that was started. *)
KillDiscovery ==
  /\ full.pc = "discover"
  /\ cancelled
  /\ full' = [full EXCEPT !.pc = "killed"]
  /\ UNCHANGED <<input, cancelled, backend, fast, cacheFile, groupErr, plan>>

(* CombinedOutput returns when no descendant of the killed process holds   *)
(* its output any more, whatever they have written so far.                 *)
KilledReturns ==
  /\ full.pc = "killed"
  /\ full' = [full EXCEPT !.pc = "failed"]
  /\ cacheFile' \in {cacheFile, "partial"}
  /\ UNCHANGED <<input, cancelled, backend, fast, groupErr, plan>>

(* Mutant: every error counts. *)
CountEveryError ==
  /\ full.pc = "failed"
  /\ full' = [full EXCEPT !.pc = "stopped", !.err = TRUE]
  /\ UNCHANGED <<input, cancelled, backend, fast, cacheFile, groupErr, plan>>

(* The error only counts if the context is not done by now. *)
CheckCancelled ==
  /\ full.pc = "failed"
  /\ full' = [full EXCEPT !.pc = "stopped", !.err = ~ cancelled]
  /\ UNCHANGED <<input, cancelled, backend, fast, cacheFile, groupErr, plan>>

(* discoveryCache.store appends the metadata; a failure is only logged.    *)
StoreCache ==
  /\ full.pc = "store"
  /\ full' = [full EXCEPT !.pc = "succeeded"]
  /\ cacheFile' \in {cacheFile, "usable"}
  /\ UNCHANGED <<input, cancelled, backend, fast, groupErr, plan>>

FullStep ==
  StartFull \/ RestoreCache \/ LaunchDiscovery \/ KillDiscovery
    \/ CheckCancelled \/ StoreCache

(* What the processes of the framework may do, and may never do. *)
FrameworkStep == DiscoveryCompletes \/ DiscoveryBreaks \/ KilledReturns

-----------------------------------------------------------------------------
(* Goroutine 3: fast discovery.  It walks the test root or, in adapters of *)
(* JavaScript, runs a listing of the framework that nothing cancels.       *)

FastDiscovery ==
  /\ fast.pc = "discover"
  /\ \E err \in BOOLEAN : fast' = [pc |-> "done", err |-> err]
  /\ UNCHANGED <<input, cancelled, backend, full, cacheFile, groupErr, plan>>

-----------------------------------------------------------------------------
(* After g.Wait *)

FullSucceeded == full.pc \in {"restored", "succeeded"}

AllReturned ==
  backend.pc = "done" /\ full.pc \in FullEnds /\ fast.pc = "done"

(* The chosen discovery is recorded, or its results cannot be processed.   *)
PlanWith(mode, skips) ==
  \/ plan' = [status |-> "planned", mode |-> mode, skips |-> skips]
  \/ plan' = [plan EXCEPT !.status = "failedProcessing"]

FailPlan(status) == plan' = [plan EXCEPT !.status = status]

(* Mutant: the fast fallback never applies skippable suites. *)
ChooseWithoutSuites ==
  /\ plan.status = "preparing"
  /\ AllReturned
  /\ IF groupErr THEN FailPlan("failedGroup")
     ELSE IF FullSucceeded THEN PlanWith("full", backend.matcher)
     ELSE IF input.strict /\ full.err THEN FailPlan("failedStrict")
     ELSE IF fast.err THEN FailPlan("failedFast")
     ELSE PlanWith("fast", {})
  /\ UNCHANGED <<input, cancelled, backend, full, fast, cacheFile, groupErr>>

(* Full discovery matches its tests with everything to skip.  Fast         *)
(* discovery only sees files: it applies TIA's suites, in suite level      *)
(* skipping.                                                               *)
ChooseDiscovery ==
  /\ plan.status = "preparing"
  /\ AllReturned
  /\ IF groupErr THEN FailPlan("failedGroup")
     ELSE IF FullSucceeded THEN PlanWith("full", backend.matcher)
     ELSE IF input.strict /\ full.err THEN FailPlan("failedStrict")
     ELSE IF fast.err THEN FailPlan("failedFast")
     ELSE PlanWith("fast", {k \in backend.matcher : k = "tia" /\ input.level = "suite"})
  /\ UNCHANGED <<input, cancelled, backend, full, fast, cacheFile, groupErr>>

Next == BackendStep \/ FullStep \/ FrameworkStep \/ FastDiscovery \/ ChooseDiscovery

Spec == Init /\ [][Next]_vars

(* Every goroutine goes on, requests to the backend have timeouts, and a   *)
(* done context kills.  What a process of the framework does is not        *)
(* ddtest's: a discovery or a listing may hang, and after a kill           *)
(* descendants may hold the pipe for ever.                                 *)
Fairness == WF_vars(BackendStep) /\ WF_vars(FullStep) /\ WF_vars(ChooseDiscovery)

FairSpec == Spec /\ Fairness

-----------------------------------------------------------------------------
(* Properties *)

Planned == plan.status = "planned"

(* As long as TIA has something to skip, or full discovery is forced, the  *)
(* backend never cancels it at the expense of a skip: a plan that misses   *)
(* one, of TIA or of a disabled test, does so because full discovery       *)
(* itself broke.  (Without both the plan may lose its disabled tests: the  *)
(* cancellations of planner.go:373-384 only ask for TIA.)                  *)
CancellationLosesNoSkips ==
  Planned /\ Needed /\ TIAOn /\ (input.skippables \/ input.force) /\ ~ full.broken
    => plan.skips = Skippable(TIAOn)

(* In suite level skipping, whether TIA's suites are skipped does not      *)
(* depend on which discovery won the race.  Disabled tests do depend on    *)
(* it: they are skipped one by one, which takes full discovery.            *)
SuiteSkipsDoNotDependOnTheRace ==
  Planned /\ input.level = "suite" =>
    ("tia" \in plan.skips) = (TIAOn /\ input.skippables)

(* Strict discovery: a plan fails for it only when full discovery really   *)
(* broke, never for having been cancelled; and a break that was not        *)
(* overtaken by a cancellation fails the plan.                             *)
StrictBlamesOnlyRealFailures ==
  /\ plan.status = "failedStrict" => full.broken /\ input.strict
  /\ Planned /\ input.strict /\ full.broken => cancelled /\ plan.mode = "fast"

(* Cancelling works as far as ddtest can make it: from a cancellation on,  *)
(* planning ends, or waits for ever for descendants of the process that it *)
(* killed, or for the listing of fast discovery.  It never waits for a     *)
(* discovery process that it could still kill.                             *)
CancelledPlanningEnds ==
  cancelled ~> \/ plan.status # "preparing"
               \/ [](full.pc = "killed" \/ fast.pc = "discover")

=============================================================================
