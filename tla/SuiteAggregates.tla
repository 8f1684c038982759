---------------------------- MODULE SuiteAggregates ----------------------------
(***************************************************************************)
(* What the planner makes of the chosen discovery, after the goroutines of *)
(* Planning (internal/planner/discovered_tests.go and the second half of   *)
(* planner.go): test by test (full discovery) or file by file (fast        *)
(* discovery) it builds one aggregate per suite, subtracts what is skipped,*)
(* keeps marked files runnable, and derives the weight of every file that  *)
(* is to run and the share of time that is saved.                          *)
(*                                                                         *)
(* A zero aggregate stands for a key missing from the Go map: every        *)
(* recorded aggregate has at least one test.  Durations are integers, in   *)
(* units so small that the share of one test in a suite is not nothing     *)
(* (the code has nanoseconds in floats); a median of 0 stands for no       *)
(* usable p50.  A suite is its (module, suite) key.                        *)
(***************************************************************************)
EXTENDS Integers, FiniteSets, FiniteSetsExt

CONSTANTS
  Suites, Files,
  NoFile,       \* a suite or test without a source file
  Modes,        \* subset of {"full", "fast"}
  Medians,      \* the p50 durations of the backend
  Millisecond, Second,
  MaxTests      \* bound: tests that full discovery reports

ASSUME NoFileAssumption == NoFile \notin Files
ASSUME SuitesAssumption == IsFiniteSet(Suites)
ASSUME UnitsAssumption ==
  /\ Medians \subseteq Nat /\ \A m \in Medians : m = 0 \/ m >= MaxTests
  /\ Millisecond \in Nat \ {0} /\ Second \in Nat \ {0} /\ MaxTests \in Nat
  /\ Millisecond <= Second

VARIABLES
  facts,       \* skips, backend data and the test selection; never changes
  phase,
  pending,     \* suites of the backend data still to be looked at
  tests,       \* the tests recorded so far (for the properties)
  testFiles, aggregates, stats,
  outcome      \* [weights, total, estimated]: what the plan is made from

aggregatesVars == <<facts, phase, pending, tests, testFiles, aggregates, stats, outcome>>

Tests ==
  [suite: Suites, file: Files \cup {NoFile}, disabled: BOOLEAN, tia: BOOLEAN]

Aggregate(file, total, estimated, count, skipped) ==
  [file |-> file, total |-> total, estimated |-> estimated,
   count |-> count, skipped |-> skipped]

Missing == Aggregate(NoFile, 0, 0, 0, 0)

Recorded == {s \in Suites : aggregates[s].count > 0}

(* The sum of a function over the suites of its domain. *)
TotalOf(f) == MapThenSumSet(LAMBDA s : f[s], DOMAIN f)

AggregatesTypeOK ==
  /\ phase \in {"tests", "estimate", "files", "durations", "markers", "weigh", "done"}
  /\ pending \subseteq Suites
  /\ testFiles \subseteq Files
  /\ \A s \in Suites :
       LET a == aggregates[s]
       IN  /\ a.file \in Files \cup {NoFile}
           /\ a.skipped \in 0 .. a.count
           /\ a.estimated \in 0 .. a.total
           /\ a.file # NoFile => a.file \in testFiles
  /\ stats \in [tiaTests: Nat, tiaSuites: SUBSET Suites, disabled: Nat, forced: Nat]
  /\ DOMAIN outcome.weights \subseteq testFiles
  /\ \A f \in DOMAIN outcome.weights : outcome.weights[f] >= 1

(* level: TIA skips tests, or suites, or is off.  The backend may know the *)
(* median and the source file of a suite; a framework may tell the file of *)
(* a suite by its name.                                                    *)
AggregatesInit ==
  /\ facts \in [mode: Modes, level: {"off", "test", "suite"},
                tiaSuites: SUBSET Suites, selection: SUBSET Files,
                median: [Suites -> Medians],
                backendFile: [Suites -> Files \cup {NoFile}],
                nameFile: [Suites -> Files \cup {NoFile}],
                marked: SUBSET Files]
  /\ facts.level # "suite" => facts.tiaSuites = {}
  /\ IF facts.mode = "full"
     THEN facts.backendFile = [s \in Suites |-> NoFile]
            /\ facts.nameFile = [s \in Suites |-> NoFile]
     ELSE \A s \in Suites : NoFile \in {facts.backendFile[s], facts.nameFile[s]}
  /\ phase = IF facts.mode = "full" THEN "tests" ELSE "files"
  /\ pending = Suites
  /\ tests = {}
  /\ testFiles = {}
  /\ aggregates = [s \in Suites |-> Missing]
  /\ stats = [tiaTests |-> 0, tiaSuites |-> {}, disabled |-> 0, forced |-> 0]
  /\ outcome = [weights |-> [f \in {} |-> 0], total |-> 0, estimated |-> 0]

-----------------------------------------------------------------------------
(* Full discovery *)

(* Mutant: only what TIA skips counts. *)
MatchTIAOnly(test) ==
  IF test.suite \in facts.tiaSuites THEN "tiaSuite"
  ELSE IF test.tia THEN "tiaTest"
  ELSE "none"

Match(test) ==
  IF test.disabled THEN "disabled"
  ELSE IF test.suite \in facts.tiaSuites THEN "tiaSuite"
  ELSE IF test.tia THEN "tiaTest"
  ELSE "none"

(* The first file that a suite's tests name stays its file. *)
SuiteAggregateForTest(test) ==
  LET a == aggregates[test.suite]
  IN  IF a.file = NoFile THEN [a EXCEPT !.file = test.file] ELSE a

StatsWith(match, suite) ==
  CASE match = "tiaTest"  -> [stats EXCEPT !.tiaTests = @ + 1]
    [] match = "tiaSuite" -> [stats EXCEPT !.tiaSuites = @ \cup {suite}]
    [] match = "disabled" -> [stats EXCEPT !.disabled = @ + 1]
    [] OTHER              -> stats

RecordedCount == TotalOf([s \in Suites |-> aggregates[s].count])

(* recordFullDiscoveryResults, one test: nothing happens to a test of a    *)
(* file outside the selection; a test without a file is kept.              *)
RecordTest(test) ==
  /\ phase = "tests"
  /\ RecordedCount < MaxTests
  /\ test.tia => facts.level = "test"
  /\ test.file \in facts.selection \cup {NoFile}
  /\ testFiles' = testFiles \cup ({test.file} \ {NoFile})
  /\ LET skipped == IF Match(test) = "none" THEN 0 ELSE 1
     IN  aggregates' = [aggregates EXCEPT ![test.suite] =
           [SuiteAggregateForTest(test) EXCEPT !.count = @ + 1, !.skipped = @ + skipped]]
  /\ stats' = StatsWith(Match(test), test.suite)
  /\ tests' = tests \cup {test}
  /\ UNCHANGED <<facts, phase, pending, outcome>>

AllTestsRecorded ==
  /\ phase = "tests"
  /\ phase' = "estimate"
  /\ UNCHANGED <<facts, pending, tests, testFiles, aggregates, stats, outcome>>

(* A suite takes its median, or a second per test; skipped tests take      *)
(* their share of it away.                                                 *)
Estimated(suite) ==
  LET a     == aggregates[suite]
      total == IF facts.median[suite] > 0 THEN facts.median[suite] ELSE a.count * Second
  IN  [a EXCEPT !.total = total, !.estimated = (total * (a.count - a.skipped)) \div a.count]

EstimateDiscoveredSuiteDurations ==
  /\ phase = "estimate"
  /\ aggregates' =
       [s \in Suites |-> IF s \in Recorded THEN Estimated(s) ELSE aggregates[s]]
  /\ phase' = "markers"
  /\ UNCHANGED <<facts, pending, tests, testFiles, stats, outcome>>

-----------------------------------------------------------------------------
(* Fast discovery *)

RecordFastDiscoveryFallbackFiles ==
  /\ phase = "files"
  /\ testFiles' = facts.selection
  /\ phase' = "durations"
  /\ UNCHANGED <<facts, pending, tests, aggregates, stats, outcome>>

(* The keys of aggregates are new here, so a file is in seenSourceFiles    *)
(* when one of them has it.                                                *)
AddsDuration(suite) ==
  /\ facts.backendFile[suite] \in testFiles
  /\ facts.median[suite] > 0
  /\ \A s \in Recorded : aggregates[s].file # facts.backendFile[suite]

(* One pass of the loop of addDurationDataForFastDiscoveryFallback: Go     *)
(* ranges over the maps of suites in any order.                            *)
AddDurationData(suite) ==
  /\ phase = "durations"
  /\ suite \in pending
  /\ pending' = pending \ {suite}
  /\ aggregates' = IF AddsDuration(suite)
       THEN [aggregates EXCEPT ![suite] = Aggregate(facts.backendFile[suite],
               facts.median[suite], facts.median[suite], 1, 0)]
       ELSE aggregates
  /\ UNCHANGED <<facts, phase, tests, testFiles, stats, outcome>>

(* The file that the backend knows comes before the framework's guess.     *)
SourceFileForSuite(suite) ==
  IF facts.backendFile[suite] # NoFile THEN facts.backendFile[suite]
  ELSE facts.nameFile[suite]

SkippedAggregate(suite) ==
  LET a      == aggregates[suite]
      median == IF facts.median[suite] > 0 THEN facts.median[suite] ELSE Second
      count  == IF a.count = 0 THEN 1 ELSE a.count
  IN  Aggregate(SourceFileForSuite(suite), IF a.total <= 0 THEN median ELSE a.total,
                0, count, count)

(* Skippable suites apply in suite level skipping only; a suite without a  *)
(* discovered file is left alone.                                          *)
RecordSuiteLevelSkippables ==
  /\ phase = "durations"
  /\ pending = {}
  /\ LET skipped == {s \in facts.tiaSuites : SourceFileForSuite(s) \in testFiles}
     IN  /\ aggregates' = [s \in Suites |->
               IF s \in skipped THEN SkippedAggregate(s) ELSE aggregates[s]]
         /\ stats' = [stats EXCEPT !.tiaSuites = skipped]
  /\ phase' = "markers"
  /\ UNCHANGED <<facts, pending, tests, testFiles, outcome>>

-----------------------------------------------------------------------------
(* Both discoveries *)

Forced ==
  {s \in Recorded : aggregates[s].skipped > 0 /\ aggregates[s].file \in facts.marked}

(* Mutants: only the counts change, or only the estimate.                  *)
ForceCountsOnly ==
  /\ phase = "markers"
  /\ aggregates' = [s \in Suites |-> IF s \in Forced
       THEN [aggregates[s] EXCEPT !.skipped = 0] ELSE aggregates[s]]
  /\ stats' = [stats EXCEPT !.forced = Cardinality(Forced)]
  /\ phase' = "weigh"
  /\ UNCHANGED <<facts, pending, tests, testFiles, outcome>>

ForceEstimatesOnly ==
  /\ phase = "markers"
  /\ aggregates' = [s \in Suites |-> IF s \in Forced
       THEN [aggregates[s] EXCEPT !.estimated = aggregates[s].total] ELSE aggregates[s]]
  /\ stats' = [stats EXCEPT !.forced = Cardinality(Forced)]
  /\ phase' = "weigh"
  /\ UNCHANGED <<facts, pending, tests, testFiles, outcome>>

KeepUnskippableMarkerSuitesRunnable ==
  /\ phase = "markers"
  /\ aggregates' = [s \in Suites |-> IF s \in Forced
       THEN [aggregates[s] EXCEPT !.skipped = 0, !.estimated = aggregates[s].total]
       ELSE aggregates[s]]
  /\ stats' = [stats EXCEPT !.forced = Cardinality(Forced)]
  /\ phase' = "weigh"
  /\ UNCHANGED <<facts, pending, tests, testFiles, outcome>>

SuitesOf(file) == {s \in Recorded : aggregates[s].file = file}

RunnableSuites(file) == {s \in SuitesOf(file) : aggregates[s].count # aggregates[s].skipped}

(* A file that nothing is known about runs. *)
Runs(file) == SuitesOf(file) = {} \/ RunnableSuites(file) # {}

FileWeight(file) ==
  LET duration == TotalOf([s \in RunnableSuites(file) |-> aggregates[s].estimated])
  IN  IF duration = 0 THEN Second \div Millisecond
      ELSE Max({1, duration \div Millisecond})

CalculateFileWeights ==
  /\ phase = "weigh"
  /\ outcome' =
       [weights   |-> [f \in {g \in testFiles : Runs(g)} |-> FileWeight(f)],
        total     |-> TotalOf([s \in Recorded |-> aggregates[s].total]),
        estimated |-> TotalOf([s \in Recorded |-> aggregates[s].estimated])]
  /\ phase' = "done"
  /\ UNCHANGED <<facts, pending, tests, testFiles, aggregates, stats>>

AggregatesNext ==
  \/ \E test \in Tests : RecordTest(test)
  \/ AllTestsRecorded \/ EstimateDiscoveredSuiteDurations
  \/ RecordFastDiscoveryFallbackFiles
  \/ \E suite \in Suites : AddDurationData(suite)
  \/ RecordSuiteLevelSkippables
  \/ KeepUnskippableMarkerSuitesRunnable \/ CalculateFileWeights

AggregatesSpec == AggregatesInit /\ [][AggregatesNext]_aggregatesVars

-----------------------------------------------------------------------------
(* Properties *)

Done == phase = "done"
PlannedFiles == DOMAIN outcome.weights
TestsOf(file) == {t \in tests : t.file = file}

FilesRunnableInFull ==
  {f \in facts.selection : TestsOf(f) # {} /\
     (f \in facts.marked \/ \E t \in TestsOf(f) :
        ~ t.disabled /\ ~ t.tia /\ t.suite \notin facts.tiaSuites)}
FilesRunnableInFast ==
  {f \in facts.selection :
     f \in facts.marked \/ \A s \in facts.tiaSuites : SourceFileForSuite(s) # f}

(* The plan runs, whatever the order in which tests, files and suites are  *)
(* met: in full discovery, when every suite keeps to one file, the selected*)
(* files with a test that is neither disabled nor skipped, and the marked  *)
(* files; in fast discovery, when no file has two suites, every discovered *)
(* file but those of a skippable suite without a marker.                   *)
PlanRunsWhatIsLeft ==
  /\ Done /\ facts.mode = "full"
       /\ (\A t, u \in tests : t.suite = u.suite => t.file = u.file)
     => PlannedFiles = FilesRunnableInFull
  /\ Done /\ facts.mode = "fast"
       /\ (\A s, r \in Suites : s # r =>
             SourceFileForSuite(s) # SourceFileForSuite(r) \/ SourceFileForSuite(s) = NoFile)
     => PlannedFiles = FilesRunnableInFast

(* A discovered file with the unskippable marker runs, whatever is skipped *)
(* or disabled in it and whichever suites share it.                        *)
MarkedFilesRun == Done => facts.marked \cap testFiles \subseteq PlannedFiles

(* The saved time that the runner count and the report are based on: never *)
(* negative, nothing when no test stays skipped, and everything when all   *)
(* of them are.                                                            *)
SavedTimeIsConsistent ==
  Done =>
    /\ 0 <= outcome.estimated /\ outcome.estimated <= outcome.total
    /\ (outcome.estimated = outcome.total) <=> (\A s \in Suites : aggregates[s].skipped = 0)
    /\ (outcome.estimated = 0) <=>
         (\A s \in Suites : aggregates[s].skipped = aggregates[s].count)

=============================================================================
