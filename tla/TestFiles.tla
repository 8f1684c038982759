----------------------------- MODULE TestFiles -----------------------------
(***************************************************************************)
(* Discovery of test files and tests by a framework adapter: `ddtest plan` *)
(* from the detection of the platform to the list that the adapter hands   *)
(* to the planner.  The frameworks of Ruby and Python are listed by a walk *)
(* of the directories, those of JavaScript by the framework itself, which  *)
(* an adapter asks through a temporary file.                               *)
(*                                                                         *)
(* A file is what the patterns and the framework say of it: the location   *)
(* pattern matches it, the exclude pattern matches it or a directory above *)
(* it, it is below node_modules, the framework lists it.                   *)
(***************************************************************************)
EXTENDS Naturals, FiniteSets

CONSTANTS
  Files,        \* files of the repository
  MaxExplicit   \* MaxExplicitTestFiles

ASSUME TestFilesAssumption == IsFiniteSet(Files) /\ MaxExplicit \in Nat

Ruby == {"rspec", "minitest"}
Python == {"pytest"}
JavaScript == {"jest", "vitest", "mocha", "cucumber", "cypress", "playwright"}
Walkers == Ruby \cup Python

Supported(p) ==
  CASE p = "ruby" -> Ruby [] p = "python" -> Python [] p = "javascript" -> JavaScript

(* These adapters refuse a command that hides the framework's executable.  *)
ReadCommand == {"mocha", "cucumber", "cypress", "playwright"}

(* With an exclude pattern all but Jest ask the framework all the same.    *)
Authoritative == JavaScript \ {"jest"}

VARIABLES
  platform, fw,       \* settings
  location, exclude,  \* is there a location pattern, an exclude pattern
  full,               \* full test discovery, in the second goroutine
  direct,             \* the command names the framework's executable
  removable,          \* files that were made can be removed
  lists,              \* the framework can be asked which files it has
  step,               \* the next thing to do
  tree,               \* the files as the patterns and the framework see them
  explicit,           \* TestFileSet has a list of files,
  selection,          \* this one
  temps,              \* temporary files on disk
  report,             \* tests.json: "absent", "stale", "fresh" or "torn"
  listed,             \* the files that are returned
  outcome             \* of the discovery

lvars == <<platform, fw, location, exclude, full, direct, removable, lists, step, tree,
           explicit, selection, temps, report, listed, outcome>>

Settings == <<platform, fw, location, exclude, full, direct, removable, lists>>
Selected == <<tree, explicit, selection>>

Trees == [matching : SUBSET Files, excluded : SUBSET Files, pruned : SUBSET Files,
          vendored : SUBSET Files, native : SUBSET Files]

NoTree == [matching |-> {}, excluded |-> {}, pruned |-> {}, vendored |-> {},
           native |-> {}]

(* Full discovery is only asked of frameworks that support it.  A Vitest   *)
(* that knows neither --filesOnly nor the API of 1.6 cannot be asked for   *)
(* its files, and is the only framework that DDTest goes on without.       *)
ListInit ==
  /\ platform \in {"ruby", "python", "javascript"}
  /\ fw \in Walkers \cup JavaScript
  /\ location \in BOOLEAN /\ exclude \in BOOLEAN
  /\ full \in BOOLEAN /\ (full => fw \in Walkers)
  /\ direct \in BOOLEAN /\ removable \in BOOLEAN
  /\ lists \in BOOLEAN /\ (~lists => fw = "vitest")
  /\ step = "sanity" /\ tree = NoTree
  /\ explicit = FALSE /\ selection = {}
  /\ temps = {} /\ report \in {"absent", "stale"}
  /\ listed = {} /\ outcome = "none"

Remaining == IF removable THEN {} ELSE temps

(* Every return runs the deferred removals.                                *)
Return(o) == step' = "done" /\ outcome' = o /\ temps' = Remaining

Fail == Return("error") /\ UNCHANGED listed

Goto(s) == step' = s /\ UNCHANGED outcome

-----------------------------------------------------------------------------
(* The platform.                                                           *)

(* DetectPlatform: the tracer's version, or Node and the tracer.           *)
SanityCheck ==
  /\ step = "sanity"
  /\ \/ Fail
     \/ Goto("tags") /\ UNCHANGED <<temps, listed>>
  /\ UNCHANGED <<Settings, Selected, report>>

(* CreateTagsMap: a script of the platform writes a file.                  *)
RunTagScript ==
  /\ step = "tags"
  /\ \/ Fail
     \/ Goto("readTags") /\ temps' = {"tags"} /\ UNCHANGED listed
  /\ UNCHANGED <<Settings, Selected, report>>

ReadTags ==
  /\ step = "readTags"
  /\ \/ Fail
     \/ Goto("framework") /\ temps' = Remaining /\ UNCHANGED listed
  /\ UNCHANGED <<Settings, Selected, report>>

DetectFramework ==
  /\ step = "framework"
  /\ IF fw \in Supported(platform)
     THEN Goto("resolve") /\ UNCHANGED <<temps, listed>>
     ELSE Fail
  /\ UNCHANGED <<Settings, Selected, report>>

-----------------------------------------------------------------------------
(* Which files to look for.                                                *)

(* discoverTestFiles: what is below an excluded directory is not visited.  *)
Walk(t, excludes) ==
  t.matching \ (t.vendored \cup IF excludes THEN t.excluded \cup t.pruned ELSE {})

Select(t) ==
  LET walk == IF exclude THEN Walk(t, TRUE) ELSE {}
  IN  /\ explicit' = (exclude /\ Cardinality(walk) <= MaxExplicit)
      /\ selection' = IF explicit' THEN walk ELSE {}

(* ResolveTestFiles: a list of files only with an exclude pattern, and     *)
(* only when it is not too long.                                           *)
ResolveTestFiles ==
  /\ step = "resolve"
  /\ \E t \in Trees :
       /\ ~exclude => t.excluded = {} /\ t.pruned = {}
       /\ tree' = t
       /\ \/ exclude /\ Fail /\ UNCHANGED <<explicit, selection>>
          \/ Select(t) /\ Goto("discover") /\ UNCHANGED <<temps, listed>>
  /\ UNCHANGED <<Settings, report>>

-----------------------------------------------------------------------------
(* DiscoverTestFiles.                                                      *)

Answer(files) == Return("ok") /\ listed' = files

(* A list of candidates is the answer of every adapter but those that ask  *)
(* the framework all the same.                                             *)
TakesCandidates ==
  explicit /\ (fw \in Walkers \cup {"jest"} \/ (fw \in {"vitest", "mocha"} /\ ~exclude))

ListWithoutFramework ==
  /\ step = "discover" /\ ~full
  /\ \/ TakesCandidates /\ Answer(selection)
     \/ /\ fw \in Walkers /\ ~explicit
        /\ Fail \/ Answer(Walk(tree, exclude))
  /\ UNCHANGED <<Settings, Selected, report>>

(* The command is taken apart before anything is created.                  *)
AskFramework ==
  /\ step = "discover" /\ ~full
  /\ fw \in JavaScript /\ ~TakesCandidates
  /\ \/ fw \in ReadCommand /\ (~direct \/ fw = "cypress") /\ Fail
     \/ /\ fw \in ReadCommand => direct
        /\ Goto(IF fw = "jest" THEN "command" ELSE "prepare")
        /\ UNCHANGED <<temps, listed>>
  /\ UNCHANGED <<Settings, Selected, report>>

(* Directory, adapter, reporter or configuration; when it cannot be        *)
(* completed it is removed and the discovery fails.                        *)
Prepare ==
  /\ step = "prepare"
  /\ \/ Fail
     \/ /\ ~removable /\ step' = "done" /\ outcome' = "error"
        /\ temps' = temps \cup {"adapter"} /\ UNCHANGED listed
     \/ Goto("command") /\ temps' = temps \cup {"adapter"} /\ UNCHANGED listed
  /\ UNCHANGED <<Settings, Selected, report>>

(* The framework's command fails, or prints what the adapter asked for.    *)
Command ==
  /\ step = "command" /\ ~full
  /\ \/ Fail
     \/ lists /\ Goto("answer") /\ UNCHANGED <<temps, listed>>
  /\ UNCHANGED <<Settings, Selected, report>>

(* Playwright fails when there are no tests, and its reporter then names   *)
(* this as the only error.                                                 *)
PlaywrightFindsNone ==
  /\ step = "command" /\ ~full
  /\ fw = "playwright" /\ tree.native = {}
  /\ Answer({})
  /\ UNCHANGED <<Settings, Selected, report>>

(* A Vitest that does not know --filesOnly is asked in another way.        *)
VitestRefuses ==
  /\ step = "command" /\ ~full
  /\ fw = "vitest"
  /\ Goto("nodeAPI") /\ UNCHANGED <<temps, listed>>
  /\ UNCHANGED <<Settings, Selected, report>>

(* The answer is missing, broken, or the list of the framework's files.    *)
ReadAnswer ==
  /\ step = "answer"
  /\ \/ Fail
     \/ Goto("filter") /\ UNCHANGED <<temps, listed>>
  /\ UNCHANGED <<Settings, Selected, report>>

(* The API of Vitest 1.6; without it the files are found by a walk.        *)
VitestFallback ==
  /\ step = "nodeAPI"
  /\ \/ lists /\ Goto("filter") /\ UNCHANGED <<temps, listed>>
     \/ Fail
     \/ ~lists /\ Answer(Walk(tree, exclude))
  /\ UNCHANGED <<Settings, Selected, report>>

(* Mutant: candidates of the walk restrict what the framework lists.       *)
FilteredByCandidates ==
  {f \in tree.native : /\ exclude => f \notin tree.excluded
                       /\ IF explicit THEN f \in selection
                          ELSE location => f \in tree.matching}

(* filterJavaScriptTestFiles and its likes: the exclude pattern and the    *)
(* user's location, neither candidates nor the default pattern.  The       *)
(* pattern matches paths of files, never the directories above them.       *)
Filtered ==
  {f \in tree.native : /\ exclude => f \notin tree.excluded
                       /\ location => f \in tree.matching}

(* Cypress fails when it cannot remove its file from the project.          *)
Filter ==
  /\ step = "filter"
  /\ IF fw = "cypress" /\ ~removable THEN Fail ELSE Answer(Filtered)
  /\ UNCHANGED <<Settings, Selected, report>>

-----------------------------------------------------------------------------
(* DiscoverTests: a dry run of the framework writes the report.            *)

(* Mutant: the report of an earlier discovery is not removed.              *)
StartFullUnclean ==
  /\ step = "discover" /\ full
  /\ Goto("dryRun") /\ UNCHANGED <<temps, listed, report>>
  /\ UNCHANGED <<Settings, Selected>>

(* pytest, which takes no pattern, is given the files of a walk.           *)
PytestFiles == Walk(tree, FALSE)

(* The report of an earlier discovery is removed.  Without files nothing   *)
(* is run.                                                                 *)
StartFull ==
  /\ step = "discover" /\ full
  /\ report' = IF removable THEN "absent" ELSE report
  /\ LET nothing == \/ explicit /\ selection = {}
                    \/ fw = "pytest" /\ ~explicit /\ PytestFiles = {}
     IN  \/ nothing /\ Answer({})
         \/ ~nothing /\ Goto("dryRun") /\ UNCHANGED <<temps, listed>>
         \/ fw = "pytest" /\ ~explicit /\ Fail
  /\ UNCHANGED <<Settings, Selected>>

(* The command ends, whatever it wrote, or is cancelled.                   *)
DryRun ==
  /\ step = "dryRun"
  /\ report' \in {report, "torn", "fresh"}
  /\ \/ Fail
     \/ Goto("parse") /\ UNCHANGED <<temps, listed>>
  /\ UNCHANGED <<Settings, Selected>>

(* What the dry run was asked for; Rake is only given the pattern.         *)
Asked ==
  IF explicit THEN (IF fw = "minitest" THEN tree.matching ELSE selection)
  ELSE IF fw = "pytest" THEN PytestFiles ELSE tree.matching

ParseReport ==
  /\ step = "parse"
  /\ IF report \in {"absent", "torn"} THEN Fail ELSE Answer(Asked)
  /\ UNCHANGED <<Settings, Selected, report>>

-----------------------------------------------------------------------------

ListNext ==
  \/ SanityCheck \/ RunTagScript \/ ReadTags \/ DetectFramework
  \/ ResolveTestFiles
  \/ ListWithoutFramework \/ AskFramework \/ Prepare
  \/ Command \/ PlaywrightFindsNone \/ VitestRefuses \/ ReadAnswer
  \/ VitestFallback \/ Filter
  \/ StartFull \/ DryRun \/ ParseReport

ListSpec == ListInit /\ [][ListNext]_lvars

ListTypeOK ==
  /\ platform \in {"ruby", "python", "javascript"}
  /\ fw \in Walkers \cup JavaScript
  /\ location \in BOOLEAN /\ exclude \in BOOLEAN /\ full \in BOOLEAN
  /\ direct \in BOOLEAN /\ removable \in BOOLEAN /\ lists \in BOOLEAN
  /\ step \in {"sanity", "tags", "readTags", "framework", "resolve", "discover",
               "prepare", "command", "answer", "nodeAPI", "filter", "dryRun", "parse", "done"}
  /\ tree \in Trees
  /\ explicit \in BOOLEAN /\ selection \subseteq Files
  /\ temps \subseteq {"tags", "adapter"}
  /\ report \in {"absent", "stale", "fresh", "torn"}
  /\ listed \subseteq Files
  /\ outcome \in {"none", "ok", "error"}

(* What a user may expect, from the settings and the repository alone: the *)
(* files that match the patterns and are below no directory that is left   *)
(* out, or those of the framework that the user's patterns leave.          *)
MatchingFiles ==
  {f \in tree.matching : f \notin tree.vendored
     /\ (exclude => f \notin tree.excluded /\ f \notin tree.pruned)}
FrameworkFiles ==
  {f \in tree.native : (exclude => f \notin tree.excluded) /\ (location => f \in tree.matching)}

(* Jest is not asked when an exclude pattern leaves few enough files       *)
(* (jest.go:96-98), although docs/running.md:252-254 has the pattern       *)
(* filter the list that Jest returns.                                      *)
JestIsNotAsked ==
  fw = "jest" /\ exclude /\ Cardinality(MatchingFiles) <= MaxExplicit

(* A discovery of files that succeeds has the files it promises, and never *)
(* fewer because a command failed, an answer broke, a list was too long or *)
(* the exclude pattern made a list of candidates: docs/running.md has      *)
(* Ruby and Python found by their patterns and JavaScript by the framework *)
(* with the user's patterns applied afterwards, except for a Vitest that   *)
(* cannot be asked and for JestIsNotAsked.                                 *)
ListIsExact ==
  ~full /\ outcome = "ok" =>
    listed = IF fw \in Walkers \/ ~lists \/ JestIsNotAsked
             THEN MatchingFiles ELSE FrameworkFiles

(* No temporary file outlives a discovery, whichever step of it failed;    *)
(* a Cypress list is never returned while its file is in the project.      *)
TempsAreRemoved ==
  step = "done" /\ (removable \/ (fw = "cypress" /\ listed # {})) =>
    "adapter" \notin temps /\ (removable => temps = {})

(* Tests of an earlier discovery are never taken for tests of this one,    *)
(* unless its report could not be removed.                                 *)
ReportIsFresh ==
  full /\ removable /\ outcome = "ok" /\ listed # {} => report = "fresh"

=============================================================================
