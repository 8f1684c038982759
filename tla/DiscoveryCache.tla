---------------------------- MODULE DiscoveryCache ----------------------------
(***************************************************************************)
(* The cache of full test discovery (internal/planner/discovery_cache.go)  *)
(* over the life of a repository: the test root is edited, committed and   *)
(* checked out, CI jobs start from fresh, perhaps shallow clones, and each *)
(* plan either restores the list of tests or discovers it anew.            *)
(*                                                                         *)
(* A commit is its number; a version stands for the content of the files   *)
(* under the test root.  What the framework discovers is a function of     *)
(* that version and of the configuration (platform, framework, tests       *)
(* location and exclude pattern), so a list of tests is the pair of both;  *)
(* it remembers, for the properties alone, whether the test root had local *)
(* changes when it was discovered.  The tests file is read and written     *)
(* whole, except by a framework that is killed while it writes and by a    *)
(* copy that breaks off.  Nobody edits the tree while a plan is made.      *)
(***************************************************************************)
EXTENDS Naturals, Sequences, FiniteSets

CONSTANTS
  Versions, Configs,
  MaxCommits,        \* bound: commits
  MaxPlans,          \* bound: plans
  External           \* --test-discovery-cache is given

ASSUME BoundsAssumption == MaxCommits \in Nat /\ MaxPlans \in Nat
ASSUME SwitchAssumption == External \in BOOLEAN

VARIABLES
  commits,    \* the version of the test root in every commit
  head, work, \* the commit checked out, and the version in the working tree
  available,  \* the commits that the local clone has
  config,
  file,       \* .testoptimization/tests-discovery/tests.json
  external,   \* the copy that CI keeps between jobs
  planner     \* [pc, count, used]: the planner

cacheVars == <<commits, head, work, available, config, file, external, planner>>
repo == <<commits, head, work, available, config>>

Lists == [version: Versions, config: Configs, dirty: BOOLEAN]

NoMeta == [commit |-> 0]
NoReport == [kind |-> "absent", meta |-> NoMeta]
Partial == [kind |-> "partial", meta |-> NoMeta]
Complete(list, meta) == [kind |-> "complete", list |-> list, meta |-> meta]

CacheTypeOK ==
  /\ commits \in Seq(Versions)
  /\ head \in available /\ available \subseteq 1 .. Len(commits)
  /\ work \in Versions /\ config \in Configs
  /\ planner.pc \in {"idle", "restore", "discover", "store", "planned"}
  /\ planner.count \in 0 .. MaxPlans /\ planner.used \in BOOLEAN
  /\ planner.pc = "store" => file.kind = "complete"
  /\ \A f \in {file, external} :
       /\ f.kind \in {"absent", "partial", "complete"}
       /\ f.kind # "complete" => f.meta = NoMeta
       /\ f.kind = "complete" => f.list \in Lists
       /\ f.meta # NoMeta => f.meta.commit \in 1 .. Len(commits) /\ f.meta.config \in Configs

CacheInit ==
  /\ \E v \in Versions : commits = <<v>> /\ work = v
  /\ head = 1 /\ available = {1}
  /\ config \in Configs
  /\ file = NoReport /\ external = NoReport
  /\ planner = [pc |-> "idle", count |-> 0, used |-> FALSE]

-----------------------------------------------------------------------------
(* The repository and its users *)

Clean == work = commits[head]

NoPlanRuns == planner.pc \in {"idle", "planned"}

Edit ==
  /\ NoPlanRuns
  /\ work' \in Versions \ {work}
  /\ UNCHANGED <<commits, head, available, config, file, external, planner>>

Commit ==
  /\ NoPlanRuns
  /\ Len(commits) < MaxCommits
  /\ commits' = Append(commits, work)
  /\ head' = Len(commits')
  /\ available' = available \cup {head'}
  /\ UNCHANGED <<work, config, file, external, planner>>

(* git checkout, with local changes stashed or dropped. *)
Checkout ==
  /\ NoPlanRuns
  /\ head' \in available
  /\ work' = commits[head']
  /\ UNCHANGED <<commits, available, config, file, external, planner>>

Reconfigure ==
  /\ NoPlanRuns
  /\ config' \in Configs
  /\ UNCHANGED <<commits, head, work, available, file, external, planner>>

(* A CI job starts in an empty workspace, from a shallow or a full clone.  *)
FreshClone ==
  /\ External
  /\ NoPlanRuns
  /\ head' \in 1 .. Len(commits)
  /\ available' \in {{head'}, 1 .. Len(commits)}
  /\ work' = commits[head']
  /\ file' = NoReport
  /\ UNCHANGED <<commits, config, external, planner>>

(* "Save latest discovery cache" (docs/best_practices.md), always() run.   *)
SaveExternal ==
  /\ External
  /\ NoPlanRuns
  /\ file # NoReport
  /\ external' = file
  /\ UNCHANGED <<repo, file, planner>>

-----------------------------------------------------------------------------
(* The plan *)

(* importExternal: the copy replaces the internal file; when either cannot *)
(* be opened that file stays, and a copy that breaks off is cut short.     *)
StartPlan ==
  /\ NoPlanRuns
  /\ planner.count < MaxPlans
  /\ planner' = [pc |-> "restore", count |-> planner.count + 1, used |-> FALSE]
  /\ file' \in IF External /\ external # NoReport THEN {external, Partial, file} ELSE {file}
  /\ UNCHANGED <<repo, external>>

(* readDiscoveryCacheMetadata: the last line that is not empty is metadata, *)
(* which a file that breaks off no longer has.                             *)
HasMetadata == file.meta # NoMeta

(* git diff --name-status of the source commit and HEAD, and git status,   *)
(* each with the old and the new name of a file that moved: a name below   *)
(* the test root is there iff the content of the root differs.             *)
ChangedInHistory(commit) == commits[commit] # commits[head]
ChangedInTree == work # commits[head]

(* Mutants of validate: the diff is against the newest commit; git status  *)
(* is not asked.                                                           *)
ComparesWithNewest ==
  /\ HasMetadata
  /\ file.meta.config = config
  /\ file.meta.commit \in available
  /\ commits[file.meta.commit] = commits[Len(commits)] /\ ~ ChangedInTree

IgnoresTree ==
  /\ HasMetadata
  /\ file.meta.config = config
  /\ file.meta.commit \in available
  /\ ~ ChangedInHistory(file.meta.commit)

(* validate: the configuration is the same, the commit is in the clone and *)
(* no file under the test root has changed since.                          *)
Valid ==
  /\ HasMetadata
  /\ file.meta.config = config
  /\ file.meta.commit \in available
  /\ ~ ChangedInHistory(file.meta.commit) /\ ~ ChangedInTree

(* parseCachedDiscoveryTests reads every record, so a broken list is none. *)
Parses == file.kind = "complete"

RestoreUsed ==
  /\ planner.pc = "restore"
  /\ Valid /\ Parses
  /\ planner' = [planner EXCEPT !.pc = "planned", !.used = TRUE]
  /\ UNCHANGED <<repo, file, external>>

(* discovery.Cleanup removes the file before the framework is started.     *)
RestoreRefused ==
  /\ planner.pc = "restore"
  /\ ~ (Valid /\ Parses)
  /\ planner' = [planner EXCEPT !.pc = "discover"]
  /\ file' = NoReport
  /\ UNCHANGED <<repo, external>>

Discover ==
  /\ planner.pc = "discover"
  /\ planner' = [planner EXCEPT !.pc = "store"]
  /\ file' = Complete([version |-> work, config |-> config, dirty |-> ~ Clean], NoMeta)
  /\ UNCHANGED <<repo, external>>

(* Full discovery is cancelled or breaks: the plan goes on with fast       *)
(* discovery.                                                              *)
DiscoveryStops ==
  /\ planner.pc = "discover"
  /\ planner' = [planner EXCEPT !.pc = "planned"]
  /\ file' \in {NoReport, Partial}
  /\ UNCHANGED <<repo, external>>

(* HEAD is read when discovery is over. *)
Stamp == [commit |-> head, config |-> config]

(* A failing git or a failing write is only logged. *)
Store ==
  /\ planner.pc = "store"
  /\ planner' = [planner EXCEPT !.pc = "planned"]
  /\ file' \in {file, [file EXCEPT !.meta = Stamp]}
  /\ UNCHANGED <<repo, external>>

CacheNext ==
  \/ Edit \/ Commit \/ Checkout \/ Reconfigure \/ FreshClone \/ SaveExternal
  \/ StartPlan \/ RestoreUsed \/ RestoreRefused \/ Discover \/ DiscoveryStops \/ Store

CacheSpec == CacheInit /\ [][CacheNext]_cacheVars

-----------------------------------------------------------------------------
(* Properties *)

(* A plan that skips full discovery for a cached list of tests has exactly *)
(* the list that discovery would return now, with one exception: a list    *)
(* that was discovered with local changes under the test root, which the   *)
(* stamp passes off as that of the commit.  Once these changes are gone    *)
(* the list is used although it is stale, against "skips full discovery    *)
(* when the cache is still safe to use" (docs/best_practices.md:97-98).    *)
(* Even such a list was discovered with the configuration of the plan.     *)
RestoredListIsCurrent ==
  [][RestoreUsed => /\ file.list.config = config
                    /\ file.list.version = work \/ file.list.dirty]_cacheVars

(* What makes this so: every stamped list, in whatever job it was made and *)
(* through whatever copies it came, has the configuration of its stamp     *)
(* and, unless there were local changes, the content of its commit.        *)
StampTellsTheTruth ==
  \A f \in {file, external} : f.meta # NoMeta =>
    /\ f.kind = "complete"
    /\ f.list.config = f.meta.config
    /\ f.list.version = commits[f.meta.commit] \/ f.list.dirty

(* The cache works: a list that this clone has just stored is not refused  *)
(* while nothing has changed.                                              *)
FreshListIsNotRefused ==
  [][RestoreRefused =>
       ~ (file.meta = [commit |-> head, config |-> config] /\ Clean)]_cacheVars
=============================================================================
