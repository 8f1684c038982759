# A TLA+ model of ddtest

`ddtest` plans and runs a test suite in CI: `ddtest plan` finds the test files, asks the Datadog
Test Optimization backend what may be skipped, chooses a number of runners and writes one list of
files per runner; `ddtest run` starts the test framework on such lists, on one machine or on many.
This directory holds TLA+ modules translated from the Go source, TLC configurations that check them on
small instances, and theorems checked by TLAPS for every instance.

Paths below are relative to `src/internal/` unless they start with `docs/`.

## 1. The system

### Components

| Component | State it keeps | Operations | Interacts with |
|---|---|---|---|
| Planner (`planner/planner.go`) | results of discovery, suite aggregates, durations, counts of skips | `Plan`, `PreparePlanningData`, `LoadPlan` | everything below; three goroutines in one errgroup share its fields |
| Aggregates (`planner/discovered_tests.go`, second half of `planner.go`) | one aggregate per suite, set of test files | record a test or file, apply skips, keep marked files, estimate | reads what the goroutines left; feeds weights to the next two |
| Parallelism (`planner/parallelism.go`) | candidates and best scores | choose the number of runners | scores candidate splits of the distribution |
| Distribution (`planner/distribution.go`) | a load and a list per runner, a heap | give the next file to the lightest runner | split files |
| Plan artifacts (`planner/plan_files.go`, `test_optimization_plan_cache.go`) | files under `.testoptimization/` | write in order, read back | written by `plan`, read by `run`, perhaps in another job |
| Discovery cache (`planner/discovery_cache.go`) | `tests-discovery/tests.json` with a stamp, an external copy | import, validate, restore, store, save | git, and CI caches that outlive a clone |
| Runner (`runner/`) | errors of the workers | sequential, parallel, and CI node mode | artifacts; the planner, when there is no plan yet |
| Test Optimization client (`testoptimization/`) | settings, features, close actions, `sync.Once`s | initialise, fetch, upload git data, store the cache files, close | backend, git, a signal handler of its own |
| HTTP transport (`testoptimization/api/`, `httptransport/`) | raw responses, connection | requests with retries, paging, multipart uploads | backend |
| Git (`git/`) | two `sync.Once`s: git's version, whether the clone is shallow | unshallow, list commits, pack objects | the client's upload and the discovery cache |
| Telemetry client (`telemetry/`) | buffers of counts and distributions | submit, flush | intake; submitters in every goroutine |
| Frameworks, platforms, discovery (`framework/`, `platform/`, `discovery/`) | the user's command, shared by all workers; temporary files; the report of a dry run | detect, list files, discover tests, run the tests of a worker | planner and runner; the framework's own processes |
| Process execution (`ext/`) | a child process, a channel of signals | run, kill on cancellation, forward signals | planner and runner |
| CI providers, environment tags, settings, command line | none (environment) | read variables, announce the matrix of CI nodes | planner |

`PROJECT.json` lists each with its files and what is modelled of it.

### Where it is hard, and what makes it correct

* **Artifacts and runs.** Nothing but the presence of `parallel-runners.txt` says that there is a plan; planning
  can die between two writes or inside one, earlier plans leave files, CI nodes run while other
  jobs plan. Correct means: every planned file reaches exactly one worker, and success is only
  reported when all of them have run.
* **Planning goroutines.** The backend goroutine may cancel full discovery at any point of its work. Correct
  means: a cancellation loses no skips of TIA, is never reported as a failure, and leaves no process to wait for that ddtest could kill.
* **Aggregates.** Go map order, tests of files outside the selection, suites in several files, markers.
  Correct means: the plan runs what is not skipped, in whatever order it was recorded.
* **Discovery cache.** A stamp says what a list was made from while trees are edited and clones are shallow.
  Correct means: a list is restored only when discovery would return the same one.
* **Client.** A planner and a signal handler close the same client while an upload may hang. Correct means:
  bounded waits, no deadlock, settings that belong to the uploaded commits, complete cache files.
* **Telemetry.** A flush takes the points away and may have to put them back among newer ones. Correct
  means: nothing lost, doubled or reordered.
* **Git upload.** Up to twenty git commands and requests in a row, each of which may fail, three ways of
  fetching, temporary packs, and a process that may end in between. Correct means: packs are removed, success
  means that every pack was accepted, and only what the backend misses is packed.
* **Requests.** Retries, back-off and rate limits that the server names, on top of them pages, and raw responses
  that outlive a call. Correct means: bounded delays, all pages or none, no response of an earlier call.
* **Lists of files.** Nine frameworks are asked in five ways, with fall-backs, candidates that may be too many
  and patterns that mean different things to each. Correct means: a list is exactly what the patterns and the
  framework stand for, or the discovery fails.
* **Worker processes.** Workers share the words of the user's command, rewrite options and Node options, and pass on
  signals while their process may end. Correct means: each runs its own files, the user's options
  survive, instrumentation is loaded once where it belongs, the first signal is passed on, nothing is left behind.
* **Pure algorithms.** Distribution and the choice of the runner count, with ties and odd bounds.

Every such place is listed at its line under `hazards` in `PROJECT.json`, with the properties aimed at it.

## 2. The modules

| Module | Models | Extends or instantiates |
|---|---|---|
| `Distribution` | weights, order, heap choice, the whole loop as a recursive function, score | |
| `SplitBuilder` | the same loop one file at a time | `Distribution` |
| `Parallelism` | bounds, candidates, choice of the number of runners | `Distribution` |
| `PlanSizing` | composition: choice of the number, then the split that is made for it | `SplitBuilder`, `Parallelism` (instance) |
| `Planning` | `PreparePlanningData`: three goroutines and the choice of a discovery | |
| `SuiteAggregates` | what the planner makes of the chosen discovery | |
| `Execution` | abstract: what planning and running promise together | |
| `PlanRun` | plan artifacts, crashes, runs in one directory and on CI nodes | `Distribution`, `Execution` (refinement mapping) |
| `DiscoveryCache` | the cache of discovered tests over the life of a repository | |
| `Telemetry` | buffers, flush, restore | |
| `Client` | settings, upload, features, cache files, close, signal | |
| `GitUpload` | the upload that `Client` starts, one git command or request at a time | |
| `Backend` | where calls go, one request with its retries, pages, remembered responses | |
| `TestFiles` | discovery of files and tests by the nine adapters | |
| `CommandLines` | arguments and Node options of the processes that adapters start; operators only | |
| `WorkerRun` | composition: a discovery, the workers that get its files, their processes and signals | `TestFiles`, `CommandLines` |
| `*Proofs` | theorems about `SplitBuilder` (with `PlanSizing`), `Distribution`, `PlanRun` (with `Execution`), `Planning` (with `DiscoveryCache` and `SuiteAggregates`), `Client`, `GitUpload`, `Backend` (with `Telemetry`), `WorkerRun` (with `TestFiles` and `CommandLines`) | the modules, `TLAPS` |
| `MC*` | finite values of the constants for TLC | the module |

An operator or action whose comment starts with "Mutant" (or that stands under such a comment) is a
plausible mistake in the definition that follows it. No specification uses it; it exists to show that a
property notices when the code is changed that way (`mutants` in `PROJECT.json`).

### How state and actions correspond to the code

**Distribution, SplitBuilder.** `load` and `result` are the fields of `testSplitBuilder`; `pending` the files the
loop has not reached, taken in the order of `sortedWeightedTestFiles` (heavier first, then by path).
`AddFile` is one turn of the loop with `addFile`; `IsLightest` the order of the heap. A file is a
number, the numbers are in path order. `Build` is the whole loop as a recursive function of the set of files, for the
modules that need a split at once; `LoopIsBuild` proves that both agree.

**Parallelism.** `Consider` is one turn of the loop in `calculateParallelRunnerSplitSelection`, `best` its three
local variables, `Select` the return. Times are integers in milliseconds; settings are any of the values
configured, also zero, negative and crossed bounds.

**Planning.** `backend`, `full` and `fast` are the program counters of the errgroup's goroutines, `cancelled` is
`discoveryCtx`, one action per statement that another goroutine can observe. `groupErr` also cancels,
because the discovery context derives from the group's. The discovery process may complete, break, hang or be killed (`KillDiscovery`),
and a killed one keeps `CombinedOutput` waiting as long as a descendant holds its output (`KilledReturns`);
the cache file it writes is absent, partial or usable. `ChooseDiscovery` is the code after `g.Wait`.
Settings and answers of the backend are chosen once in `Init`: what there is to skip is of two kinds, the skippables of TIA and
the disabled tests of Test Management, which `fetchSkippables` puts into one matcher. Only full discovery applies
the second kind, test by test, beside suites as well.

**SuiteAggregates.** `aggregates`, `testFiles` and `stats` are the planner's maps and counters. One action records one
test; map iteration is `\E` over what is left. A zero aggregate is a key that is not in the map.
Durations are integers with `Millisecond` and `Second` as constants, so that the cut-offs are
where the code has them. Their unit is so small that a median that is not nothing can be divided among the tests of a suite
(`UnitsAssumption`), as nanoseconds are.

**PlanRun.** `disk` holds every artifact (absent, empty after a truncating open, or its content), `planner`
the step of the planning, `run[p]` one `ddtest run`, locally or with `--ci-node p`. `StepAfter` is the order
in which `Plan` writes. `Interrupt` ends the planning before a write or in the middle of one, by a
crash or a failed write. `ScanEntry`, `ScanFails`, `ScanEnds` and `Wait` are the loop of
`runParallel` with its early return. `RunStops` is a run that ends before it starts anything: the look at `parallel-runners.txt`
fails, or no platform or framework is detected. A plan cache is always one that this version wrote, with its table of weights;
the code that recomputes weights for a cache without one is not modelled. Content of lists is a set of files. Between commands the code under test changes, so each planning
finds another set of runnable files and another useful number of runners.

**DiscoveryCache.** `work` is the content of the test root, `commits[head]` that of HEAD, `available` what a shallow
clone has. A list of tests remembers, for the properties alone, whether the tree was `dirty` when it was discovered.
`StartPlan` is `importExternal`, whose copy may fail or break off, `Valid` is `validate` (including the failing `git diff` on a
missing commit), `Discover` and `DiscoveryStops` the framework, `Store` is `store`. `SaveExternal`, `FreshClone`,
`Edit`, `Commit`, `Checkout` and `Reconfigure` are what users and CI do between plans.

**Telemetry.** `counts` and `distributions` are the buffers under `mu`; `flush` is what a `Flush` has drained
and where it is. Drain, send, and the two critical sections that restore are separate actions,
submissions happen between any two. `submitted` and `accepted` are history.

**Client.** `stage[t]` is the place of the planner (`Main`) and of the signal handler (`Handler`), `once` is
`settingsOnce`, `mutex` is `closeActionsMutex`, `closeActions` the number of actions pushed. A wait for one minute is
a wait that may end at any moment, and `timedOut` remembers that it did. Writing a cache file is two steps, because
`os.WriteFile` truncates first. `TornRead` is a data race of the code: the handler reads raw responses that feature goroutines
write; its outcomes are the old value, the new value, or a crash. `SettingsData` is the set of settings the backend may
answer, after the environment overrides.

**PlanSizing.** `SelectCount` runs the loop of `Parallelism` over the weights, `CreateTestSplits` starts a new builder with
the selected number, `SplitNext` is `SplitBuilder`; for a single runner it copies `test-files.txt`, in the order of paths
(`CopyTestFiles`). The two halves of the code compute the same distribution twice, the first
time only for its score; `SplitIsAsSelected` compares them.

**GitUpload.** The history is a line: commit 1 is HEAD, the clone shows `1 .. visible`. `stage` is the next command of
the goroutine: the two searches, the three fetches of `UnshallowGitRepository`, `rev-list`, the temporary directory,
`pack-objects`, the sends and the removal. `memo` is the `sync.Once` of the shallow check, which forgets its
error. `git log` lists the latest commits only (`-n 1000`, here `LogLimit`), `rev-list` all that are shown. `folders` is what is on disk: a failure in the system's directory is followed by an attempt in the working directory.
`ProcessExit` is the end of ddtest at any moment. `Client` sees all of this as one operation with an outcome.

**Backend.** `target` is the resolved connection with the tags that requests need, from any environment. One call is under way
at a time, because calls of different features write different fields of the transport. `Retry`
is the loop of `SendRequest`: an attempt, its delay, the count. `waited` adds up the delays of one request. Pages are numbers,
`merged[p]` how often the tests of page `p` are in the result, `raw[e]` the remembered response: its call and its tests.

**TestFiles.** A repository is five sets of files: those the location pattern matches, those the exclude pattern matches, those
below a directory that it matches (a walk does not enter it), those below `node_modules`, and those that the framework would list
(`tree`, chosen when the files are first looked at). `explicit` and `selection` are the `TestFileSet` of `ResolveTestFiles`. `step` is the next
command or file operation; every return runs the deferred removals (`Return`). `report` is `tests.json` of
full discovery: absent, stale, torn or fresh. `lists` is false for a Vitest that can be asked in neither of two ways.

**CommandLines.** An argument is a word, an option, or an option with an inline value; the tables of the adapters say how many values
an option takes. `RunArgs` and `DiscoveryArgs` are the adapters' command builders, `PlatformOptions`, `DiscoveryOptions` and
`WorkerOptions` the Node options. `Owns`, `FilesRead` and `OptionsRead` are external: how a framework reads
its arguments, which is what the properties compare with. Vitest's subcommand goes behind the first word that is named like its
executable (`VitestPlace`), whatever that word is. A module in NODE_OPTIONS is searched for in the text (`Mentions`) and removed by its exact
name (`Strip`); Node loads it by its name or by a path (`Loads`), and a module of the user's may have the name in its path (`Lookalike`).
A path separator `--`, executables, and launchers of Vitest that do not name it (`npm run x`, which `docs/running.md` does not show) are left out.

**WorkerRun.** `ListNext` lists the files; `RunListed` hands them to two workers, in any split and order, and forgets the discovery.
`cells` is the room behind the words of the command in their array: `append` in `rspec.go` and `minitest.go` writes a worker's
files there, one `WriteCell` per file, and `StartProcess` reads them when `exec` copies the arguments. That two
goroutines write the same memory is a data race; its outcomes here are the interleavings of whole cells. `pending[w]` is the channel
of `signal.Notify`, with room for one signal: the runtime drops one that finds it full. `sent[w]` and `passed[w]` are the signals that came
while the worker watched and those its process got, in order. `HandlerExits` is the signal handler that a planning on
the fly leaves behind in the same process.

## 3. What TLC checks

| Run | Instance | Shows | Distinct states |
|---|---|---|---|
| `plan_sizing` | up to 5 files, weights 3, 0 or none (the default 2 replaces both), bounds -1, 2, 3, with and without overhead and target | `SelectsWhatIsDocumented`: the loop, which stops at the last useful count, chooses what `docs/running.md` says about all counts; `ExactlyOnce`, `NoIdleRunner`, `NearOptimal` (at most 4/3 - 1/(3n) of the best of all splits) of the split that is then made, and `SplitIsAsSelected`: it is as fast as the selection said | 48,696 |
| `planning` | every setting and answer of the backend, disabled tests among them, both skipping levels, processes that hang | what a cancellation may and may not change: `CancellationLosesNoSkips`, `SuiteSkipsDoNotDependOnTheRace`, `StrictBlamesOnlyRealFailures`, `CancelledPlanningEnds` | 63,984 |
| `aggregates` | 2 suites, 2 files, up to 3 tests, medians 0, below and above a millisecond, both kinds of discovery | `PlanRunsWhatIsLeft`, `MarkedFilesRun`, `SavedTimeIsConsistent` | 517,354 |
| `plan_run` | 3 files, up to 3 runners, 2 workers per node, 2 plannings, 1 crash or failed write, 1 unreadable split, local and CI | who runs what, and `KeepsPromise` (section 4) | 332,016 |
| `discovery_cache` | 2 versions, 2 configurations, 3 commits, 3 plans, external copies that may break off, with and without local changes | `RestoredListIsCurrent`, lists that were discovered with local changes excepted; `FreshListIsNotRefused`: the cache is also of use | 129,678 |
| `telemetry` | 2 keys, 2 values, 5 submissions | conservation and order of counts and distributions | 438,079 |
| `client` | 5 kinds of settings, every failure, a signal at any moment | `SettingsFollowTheUpload`, `UploadIsAwaited`, `CacheIsComplete`, `SignalStoresSettings`, `ProcessEnds` | 717,721 |
| `git_upload` | 4 commits, any of them shown and known to the backend, the latest 2 listed by `git log`, up to 2 packs, every command failing or not, git commands that hang, an exit at any moment | `PacksAreRemoved`, `SuccessMeansAccepted`, `OnlyMissingIsPacked`, `UploadEnds` | 41,620 |
| `backend` | every environment, 2 calls of any of the 5 features, 3 pages, 3 retries, resets that are absent, valid, at the limit and beyond, a backend that may forget a cursor | `CompleteOrNothing`, `NoStaleResponse`, `WaitIsBounded`, `CallEnds` | 94,142 |
| `worker_run` | 9 frameworks, every placement of 2 files under the patterns, lists of at most 1 candidate, 27 commands, 12 values of NODE_OPTIONS, 2 workers, 2 signals of 2 kinds | `ListIsExact`, `ReportIsFresh`, `OwnFilesWhenPrivate`, `OptionsAreKept`, `InstrumentationIsRight`, `SignalsAreNotLost`, `NothingIsLeftBehind` | 3,797,884 |

Two more runs show a fault of the code; TLC finds a counterexample in each:

| Run | Property | What happens |
|---|---|---|
| `git_upload_crash` | `UploadDoesNotCrash` | `git fetch` succeeds and prints nothing; the code takes the branch of a failure and calls `Error()` on a nil error (`git.go:515-516`, and again `:536`), which ends ddtest. The comments there want the next way of fetching |
| `worker_run_aliasing` | `OwnFiles` | two RSpec workers (or Minitest workers under Rails) append to the same slice of the command (`rspec.go:90`, `minitest.go:100`); with room in its array one is started with the files of the other, and its own are not run. `OwnFilesWhenPrivate` is what does hold |

### Met while modelling

These are disagreements with the documentation or corners of the code that no run is spent on. Where one of them
touches a property, it occurs in the instance that TLC checks, and the property names it as an exception.

* A second plan with fewer runners leaves `runner-N` files of the first, and a local run executes them
  (`runner/parallel_executor.go:23`; `docs/running.md:12`, `docs/layout.md:95`). CI nodes are not affected (`CINodesRunThePlan`).
* Repository settings that switch TIA off cancel a forced full discovery (`planner/planner.go:373`; `docs/settings.md:21`).
* Tests discovered with local changes are stamped with HEAD and restored once the changes are gone
  (`planner/discovery_cache.go:260`), although `docs/best_practices.md:97-98` has the cache used only when it is safe.
  `RestoredListIsCurrent` excepts exactly the lists that were discovered so.
* Both cancellations of full discovery ask for TIA only (`planner/planner.go:373`, `:381`): with nothing to skip for TIA, a plan loses the skips of
  disabled tests, which only full discovery applies (`planner/planner.go:621`). `CancellationLosesNoSkips` speaks of plans for which TIA
  has something to skip, or full discovery is forced.
* Fast discovery of the JavaScript adapters runs a listing that nothing cancels or times out (`framework/jest.go:105`), and
  a killed discovery is waited for until its descendants close their output (`ext/command.go:54`). `CancelledPlanningEnds` names both waits.
* `git log` lists a thousand commits (`git/git.go:428`), `rev-list` all (`:627`): when the backend has none of the listed commits,
  older ones that it has are packed again (`OnlyMissingIsPacked`).
* The body of a rejected request is remembered, and becomes a cache file (`api/settings_api.go:117`; `docs/layout.md:41`).
* Jest answers with the candidates of the walk when there is an exclude pattern, the others filter what the framework lists
  (`framework/jest.go:96`, `planner/planner.go:319`; `docs/running.md:253`). An exclude pattern that matches a directory
  stops the walks, but a framework's own list is only matched file by file. `ListIsExact` is stated from the settings and the repository
  alone, with Jest's case as its named exception (`JestIsNotAsked`).
* `--worker-env NODE_OPTIONS=...` replaces what the platform prepared, instrumentation included; `InstrumentationIsRight` speaks of workers without it.
* A run that plans on the fly keeps the planning's signal handler, which may exit before a worker has passed the signal on
  and leaves its process behind (`testoptimization.go:437`); a signal between `cmd.Start` and `signal.Notify` ends ddtest alone
  (`ext/command.go:86-97`). A signal that finds a worker's channel full is dropped. `SignalsAreNotLost` says which one is never lost.
* With the variables of two CI providers set, the map order decides which gives the tags (`environment/ci_providers.go:445`).
* The listing only takes out `dd-trace/ci/init` after `-r` or `--require` and, for Vitest, `dd-trace/register.js` after `--import`
  (`framework/jest.go:197`, `framework/vitest.go:317`): a path to one of them, or the other form, stays (`IsRemovable`). The search for the
  name in the text takes a module whose path contains it for the library, which is then not loaded (`IsMistakenFor`, `platform/javascript.go:53`).
  `InstrumentationIsRight` excepts both by these names.
* Dropping an option can change what a later word means: with `--project a --shard 1 file`, Playwright's listing is asked for a project
  named `file` (`framework/playwright.go:260`, `:286`; `FileIsMistaken`). Cypress loses the first `run` or `open`, also when it is the value of an
  option (`framework/cypress.go:282`), and Vitest's subcommand goes behind a value `vitest` (`framework/vitest.go:239`; both `ValueIsMistaken`),
  against `docs/running.md:361-366` and `:379-382`. `MCCommands` has such commands; `OptionsAreKept` and `OwnFilesWhenPrivate` except them by name.
* Unreadable directories are skipped by the walk (`discovery/discovery.go`), so a list is exact for what can be read.
* The shallow check forgets its error (`git/git.go:577`): a failed check makes the clone count as complete. An empty `rev-list`
  counts as one object (`git.go:632`), which `pack-objects` then refuses.
* A durations answer that says there is a next page without naming it starts from the first one again
  (`api/durations_api.go`): with a backend that always does so the call does not end. `CallEnds` excludes exactly this.
* Two suites that share a file in fast discovery, one of them skippable: the map order decides whether the file runs (the comment
  at `planner.go:679` assumes one suite per file). Known tests that only the report asks for are fetched after the cache files were
  stored (`CacheIsComplete` speaks of what was planned with).

### Bounds, and why they are enough

* Two keys, suites, versions and configurations: the modules compare them for equality only, so
  symmetry is sound where it is used, and a third one adds no new kind of step. Three files and three
  runners give splits with leftovers, empty splits, and a heavy file next to two light ones.
* Two plannings are an earlier plan and a later one; the disk keeps nothing older than what the two leave. One fault:
  a second crash meets the same artifacts as the first, in a state that `MaxPlans = 2` already reaches.
* Three plans and three commits: store, change, validate, and once more on the way back to the
  first commit. Five submissions: two before, two during and one after a flush of one key.
* Five files with weights 2 (the default) and 3 on up to three runners: the fewest at which the greedy split misses the optimum.
  Weights 3, 3, 2, 2, 2 on two runners give 7 instead of 6, exactly the 7/6 that `NearOptimal` allows. With fewer files in the plan there
  are more runners than files, and the bounds are negative, equal, crossed or in order.
* Four commits: shown and hidden ones, each known to the backend or not, listed by `git log` (the latest two) or not, and a deepening that shows some of the rest. Two packs: one accepted and one
  refused, in both orders. Files, commits, packs and signals are any number in the theorems.
* Two calls: an earlier and a later one. Three pages: a first, a middle and a last one. Three retries are those of
  `DefaultMaxRetries`; `WaitIsBounded` is proved for any number.
* Two files are a candidate list within `MaxExplicit = 1` and one beyond it; each file has every combination of matched, excluded, pruned, vendored and listed.
  Three spare cells hold two words of RSpec and one file, so that a worker that fits and one that does not meet.
  Workers are followed for one choice of the settings that they do not depend on (`FollowedSettings`), and NODE_OPTIONS varies with the plain command only.
* Two signals of two kinds: one for a channel that is empty and one for a channel that is full; `SIGHUP` reaches the workers, but not the planning's handler.
* `CHECK_DEADLOCK FALSE`: commands, plannings and processes end, and the bounds end the rest.

### Fairness

* `Planning!FairSpec`: weak fairness of the backend goroutine, whose requests have timeouts, of what the full discovery goroutine does itself,
  the kill of a cancelled process among it, and of the choice at the end. What processes of the framework do is not fair: discovery may hang,
  a killed one may leave descendants that hold its output, and fast discovery may wait for a listing. So the module claims that a
  cancelled planning ends or waits for one of the last two for ever.
* `Client!FairSpec`: weak fairness of `Step`, everything the two threads and the feature requests do.
  `UploadEnds` is not fair there, since git commands have no time limit, and nothing makes a signal come.
  That `Close` may give up after a minute is what `ProcessEnds` rests on.
* `GitUpload!FairSpec`: weak fairness of the file operations and the sends alone, since `git` runs without a timeout. `UploadEnds` says that
  the upload ends or waits for ever for one git command (`GitStages`).
* `Backend!FairSpec`: weak fairness of `Step`: the HTTP client has a timeout and sleeps end.

## 4. The abstract specification

`Execution` promises that the planned files are handed out in disjoint batches and that the whole is a success only
when each was executed. `PlanRun!KeepsPromise` maps `PlanRun` to it: `planned` is the set of files of the finished planning,
`executed` the count per file, `verdict` is derived from the states of the runs that the plan has use for. A run that stops before it starts (`RunStops`) is a failure of the whole. Every step of
`PlanRun` is then a step of `Execution` or leaves its variables alone, as long as only one plan was made and nothing
crashed. With a second plan or a crash the promise does not hold (a local run then executes the leftovers of the
first plan), so there the weaker invariants say what is left of it. `FirstPlanIsKept` proves this step by step for every
value of the constants: until a second planning starts or something crashes, each step of `PlanRun` is a step of
`Execution` or a stutter.

## 5. What is proved

For every value of the constants that satisfies the named assumptions in the modules:

| Module | Theorems | Inductive invariant, and why it is needed |
|---|---|---|
| `DistributionProofs` | `BuildHolds`: a whole split has every file once and each load is the sum of its list. `MoreRunnersAreUseless`: with a runner per file the longest list is no longer than with any other number, which is why the loop over runner counts may stop there. `BuildIsNearOptimal`: when some assignment to `n` runners keeps each within `W`, the slowest runner of the loop's split needs at most (4n - 1)W / 3n | none; induction on the number of files, written as a smallest counterexample. For the bound, let `l` be the last file of the slowest runner. If `l` weighs at most a third of `W`, the runner was the lightest when it took `l`, so an average of the loads bounds it (`ScheduledIsNear`). Otherwise every file before `l` weighs more than a third, no runner of the assignment has three of them, and a count of files against runners shows that `l` found room (`LightestFits`). Sums over sets of files are defined by a fold; their lemmas (`SumRemove`, `SumSplits`, `SumOfShares`) come first |
| `SplitBuilderProofs` | `TypeCorrect`, `SplitIsExact`, `SplitIsBalanced`, `NoRunnerIdles`, `LoopIsBuild`, `SplitIsNearOptimal` | `ExactlyOnce` is inductive with `TypeOK`. `BalanceInv` adds that a runner has load exactly when it has a file, and that the last file is not all of the load of a runner with two: both rest on weights being positive (`WeightsArePositive`), which is what the floor in `testFileWeightsForFiles` is for. `LoopInv`: files passed precede pending ones, and the builder is what `Build` makes of them, so that `BuildIsNearOptimal` is about the loop |
| the same, of `PlanSizing` | `SplitAsSelected`, `SelectionIsDocumented`, `SelectionRespectsBounds`, `PlannedSplit` | `SizeInv`: the candidates considered so far have the scores of `Build`'s splits. `BestInv`: the best so far is the documented choice among the counts considered; that the counts not considered cannot win is `MoreRunnersAreUseless`. `SplitInv` carries what is known of a builder over to the one that a plan starts for the selected count; for a single runner, `Copied`: the list is that of all files and takes as long as the split of `Build` |
| `PlanRunProofs` | `TypeCorrect`, `NoWorkerLeftBehind`, `NodesCoverThePlan`, `CrashLeavesWholePlan`, `FirstPlanIsKept` (the refinement of section 4) | `LeadInv`: types, the step the planning is at and what is on disk by then (`PlanInv`, `DiskInv`), which for a first plan is only its own (`FirstPlanInv`), and who runs when (`RunInv`). `BatchInv`: at each point of a run, what its workers may be doing. `ExecInv`: who has executed what: nothing before the first batches of a plan (`CleanInv`), the shares of the nodes that have started (`CIExecInv`), the plan as a whole (`SequentialInv`), or share by share while the directory is scanned (`ScanInv`) |
| `PlanningProofs`, of `Planning` | `PlanningTypeCorrect`, `CancellationIsFree`, `SuiteSkipsAreStable`, `StrictIsJust`, `PlanningIsShort` | `PlanningInv`: `BackendInv` is what the backend goroutine knows at each of its stages unless it failed, `CancelInv` the two reasons of a cancellation, `FullInv` that a discovery that neither broke nor succeeded was cancelled, `ChoiceInv` that the choice is made when all of this is settled. `PlanningLeft` is the sum of what each goroutine has still to do |
| the same, of `DiscoveryCache` | `CacheTypeCorrect`, `StampsAreTrue`, `RestoredListsAreCurrent`, `FreshListsAreUsed` | `CacheInv`: the list that waits for its stamp is that of the tree, marked when the tree has local changes, and every stamped list is `Truthful`: it has the configuration of its stamp and, unless marked, the content of its commit. `WholeInv`: a stamped list is whole, and HEAD is in the clone; `CacheTypeInv`. None of the theorems assumes clean trees |
| the same, of `SuiteAggregates` | `AggregatesTypeCorrect`, `MarkedFilesAreKept`, `PlanIsWhatIsLeft`, `SavedTimeConsistent` | `AggregatesInv`: in what order the phases come and what an aggregate is (`FactsInv`, `ShapeInv`); the aggregates stand for the tests recorded so far (`TestsInv`) or for the suites of the backend (`SuitesInv`): a suite is skipped as a whole exactly when all of its tests are; a marker leaves nothing skipped (`MarkedInv`); an estimate is the part of the total that is not skipped (`TimesInv`), so that the sums are; each weight is at least a millisecond (`WeightPositive`), which `SplitBuilder` relies on |
| `ClientProofs` | `TypeCorrect`, `SettingsAfterUpload`, `UploadAwaited`, `CacheCompleted`, `SignalStored`, `NoCircularWait`, `ProcessIsShort` | `OnceInv`: one thread at a time is inside `settingsOnce`, and what it knows at each stage. `AwaitInv`: a running upload that was not given its minute has a close action from the end of `settingsOnce` until a close, and no thread behind a close has left one. `StoreInv`: files are left to store, or truncated, in two stages only. `FetchInv`: the planner is behind its requests once it has asked, and an answer left its raw response. `CalmInv`: without a signal, what has to be in the cache is there or among the files being stored. `SignalInv`: the handler has stored the settings, or will, unless the planner has just truncated the file to store the same. `LockInv`: who holds `settingsOnce` and `closeActionsMutex`, and at which stage. `OpenInv`: a cache file that is open has a response to be written, and no answer comes twice. `ProcessLeft` ranks the stages of both threads, and counts the files still to store, the requests and the upload |
| `GitUploadProofs` | `TypeCorrect`, `PacksRemoved`, `SuccessIsAcceptance`, `MissingIsPacked`, `UploadIsShort` | `GitInv`: `FoldersInv`, only the directory in use is on disk and only while it is in use; `AcceptInv`, every packed commit is at the backend, in a pack still to send, or a failure is remembered; `MissingInv`, until the objects are listed the last answer is about exactly the latest commits that the clone shows, which is why a deepening must be followed by a new search, and why the conclusion has the exception of a backend that has none of them. `StepsLeft` is the rank of the stage and the packs still to send; the search that a deepening goes back to is told from the first one by `again` |
| `BackendProofs` | `BackendTypeCorrect`, `WaitBounded`, `ResponseIsFresh`, `AllPagesOrFailure`, `CallIsShort` | `WaitInv`: each attempt so far has added at most one longest delay. `RawInv`: while a call runs its feature has no remembered response, and a feature that the tags do not allow to ask for never has. `PagesInv`: a request for page `p` is made with the pages before it merged once, and, but for durations that may have started over, no others. `CallLeft` counts the attempts left for this page and those of the pages to come. Assumes that the longest accepted reset is not below the longest back-off (`BackendAssumption`), as it is in the code |
| the same, of `Telemetry` | `TelemetryTypeCorrect`, `CountsConserved`, `DistributionsConserved`, `LastTimesKept` | `CountsRestoredFirst`: a flush reaches its last stage only with no counts left to restore. `TimesInv` orders the times of what is buffered and what is in flight |
| `WorkerRunProofs` | `TypeCorrect`, `ListExact`, `ReportFresh`, `NothingLeft`, `SignalsKept` | `RunInv`: `PathInv`, which steps a discovery can be at and that its outcome comes last; `ExactInv`, candidates are those of the walk and only the settings decide who is asked; `FreshInv`, the old report is gone before the dry run; `TempsInv`; `SignalInv`, the first signal that came is the first passed on or waits in the channel, and passed and waiting ones are no more than came; and `WorkInv`, a worker without a process has no adapter file, and workers exist only when the discovery is over, so that its steps and theirs do not mix |
| the same | `OwnFilesKept`, `InstrumentationRight` | `WholeRunInv` adds `FoundInv`, a discovery finds files of the repository only, and `GivenInv`, the words are those a user writes, and a process was given what `RunArgs` and `WorkerOptions` make of them and, unless a shared array lies between, of its worker's files. The rest are lemmas on `CommandLines`: what is left when words are dropped keeps its order, a value goes the way of its option, and no framework takes the files of a worker for values. |
| the same | `OptionsKept` | `ArgsInv`: a process was given what `RunArgs` makes of the user's command and of some list of files, also when the workers share an array and the list is that of another worker or has places where nothing was written; so this property holds there too. The lemmas follow the options of a command (`Opts`) through each adapter: a table that knows fewer options than the framework takes along the values it does not know about (`GoesAlong`), and dropping options leaves the others with their values when the words without an option are dropped too (`DropFree`), or when none of them comes to stand behind an option that still takes one (`ListingOwns`). No command is assumed away: the exceptions are those of the property |

Each follows the same argument: the initial states satisfy the invariant, each action preserves it (one step per
action), and it implies the property; the temporal step is PTL. The invariants were checked by TLC on the run of their module
before they were proved. Theorems about formulas that no configuration has (the type invariants, `SplitIsBalanced`,
`SelectionRespectsBounds`, `StampsAreTrue`, `LastTimesKept`, `BuildHolds`, `LoopIsBuild`, `NoCircularWait`, the measures) were
checked by TLC in the same way first, `BuildIsNearOptimal` as `NearOptimal`.

Every invariant and every action property of a passing run is stated by a theorem. Of the liveness properties the theorems
`UploadIsShort`, `CallIsShort`, `PlanningIsShort` and `ProcessIsShort` state the part that does not need fairness: a
natural number that the bounds limit and that every step decreases, so that no order of the steps, however unfair, runs for
ever. What is left to TLC is that the system does not stop before it has ended; the one place where two threads wait
for each other's locks is `NoCircularWait`.

Assumptions on constants are what the code guarantees: there are finitely many files and suites, a marker of the model
(`Absent`, `Empty`) is not a value that a file may hold (`MarksAssumption`), durations have a unit that divides, and a millisecond is no longer than a second
(`UnitsAssumption`), commands and Node options are sequences of arguments (`WorkerRunAssumption`). Facts that need induction
over finite sets or numbers are proved from a smallest counterexample, since the induction rules of the library take
an operator as a parameter, which the installed provers cannot instantiate.

Only checked by TLC:

* liveness and fairness (`CancelledPlanningEnds`, `ProcessEnds`, `UploadEnds`, `CallEnds`) and anything about `ENABLED`, which the
  prover does not support;
* the shape of the candidates in `Parallelism` (`TypeOK`); what its choice is made from is in `SizeInv` and `BestInv`;
* `UploadDoesNotCrash` and `OwnFiles`, which do not hold: their counterexamples are what there is to show. What is true instead
  (`SuccessMeansAccepted`, `OwnFilesWhenPrivate`) is proved.

## 6. What is not modelled, and why

* Tables of environment variables of sixteen CI providers, names of telemetry metrics, text of reports, error codes, flag parsing,
  the parser of pytest's configuration files: they build strings or read variables in one call and keep no state.
* JSON, globbing, path normalisation and git output are abstracted to what they decide.
* Inside `PlanRun` a planning that does not fail yields any set of files: what it should be is the subject of
  `Planning`, `SuiteAggregates` and `TestFiles`. `WorkerRun` gives workers any split of a list: that splits
  are exact is the subject of `SplitBuilder`.
* Clocks going backwards and durations that overflow are out of scope; time is only added up in `Backend`.
* An intake that receives a payload whose answer is lost gets the points twice; the protocol has nothing to tell
  it so, and `Telemetry` speaks of flushes that the client knows to have succeeded.

## 7. Plan

Done, in this order: `Distribution`, `SplitBuilder`, `PlanRun` with `Execution`, `Planning`, `Parallelism`, `SuiteAggregates`,
`DiscoveryCache`, `Telemetry`, `Client`; then `PlanSizing`, `GitUpload`, `Backend`, `TestFiles` and `CommandLines` with `WorkerRun`; proofs
along with each module of the table in section 5, among them the refinement of `Execution`.

What is left, most important first:

1. `GitUpload` as the implementation of the single upload of `Client`: `Goroutine == Running` until `Ended`.
2. Resources that are shared between processes: two ddtest commands at once in one directory.
3. Pure parts worth a reference definition: comparison of versions (`version/version.go`), precedence of settings, merging of
   environment tags, data of the planning report.
4. Proofs: a bound on the steps of `WorkerRun` and `PlanRun` like those of section 5.

## 8. Using it

    tlc -config MCPlanRun.cfg MCPlanRun
    tlapm SplitBuilderProofs.tla

`PROJECT.json` lists the runs, the source lines behind every definition, the mutants, hazards, findings and theorems.
