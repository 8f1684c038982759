------------------------------- MODULE Client -------------------------------
(***************************************************************************)
(* The Test Optimization client during one ddtest process: settings and    *)
(* features are fetched once, the git upload runs in the background, what  *)
(* the backend answered is cached in files for the test workers, and a     *)
(* signal makes a second goroutine store and close the client as well,     *)
(* whatever the planner is doing at that moment.                           *)
(*                                                                         *)
(* Processes are the planner's backend goroutine (and, when it has ended,  *)
(* the report) as Main, the signal handler as Handler, the upload, and one *)
(* goroutine for each feature that is fetched.  Time is not measured: a    *)
(* wait of one minute is a wait that may end at any moment.                *)
(***************************************************************************)
EXTENDS Naturals, Sequences

Main == "main"
Handler == "handler"
Threads == {Main, Handler}

(* What the backend serves besides the settings; each has a cache file.    *)
Features == {"known", "skippable", "management"}
Files == Features \cup {"settings"}

(* The repository settings the backend may answer, as the set of what they *)
(* switch on.  "tia" stands for the planner's tiaSkippingEnabled, which    *)
(* needs TestsSkipping ("skippable").                                      *)
CONSTANT SettingsData
ASSUME SettingsAssumption ==
  \A on \in SettingsData :
    /\ on \subseteq Features \cup {"tia"}
    /\ "tia" \in on => "skippable" \in on

VARIABLES
  status,       \* of the process
  stage,        \* stage[t]: where thread t is
  writes,       \* writes[t]: the cache files thread t still has to store
  opened,       \* opened[t]: thread t has truncated the first of them
  transport,    \* the API transport could be created
  once,         \* settingsOnce
  gitRequired,  \* the first settings asked for the git upload
  available,    \* the client has settings
  enabled,      \* what they switch on
  upload,       \* the git upload
  timedOut,     \* a wait for the upload took its whole minute
  fetched,      \* testOptimizationOnce is done
  fetch,        \* fetch[f]: the request for feature f
  closeActions, \* number of close actions
  mutex,        \* closeActionsMutex
  reporting,    \* the planner has closed the client and prints its report
  raw,          \* raw[f]: the raw response the transport remembers
  file,         \* file[f]: what the cache file holds
  writeFailed   \* some cache file could not be written

threadVars == <<status, stage, writes, opened, reporting>>
settingsVars == <<transport, once, gitRequired, available, enabled>>
uploadVars == <<upload, timedOut, closeActions, mutex>>
fetchVars == <<fetched, fetch>>
cacheVars == <<file, writeFailed>>
vars == <<threadVars, settingsVars, uploadVars, fetchVars, raw, cacheVars>>

Stages ==
  {"none", "idle", "initialize", "settings", "request", "waitGit", "repeat",
   "push", "decide", "features", "fetching", "skippables", "store", "lock",
   "close", "report", "leave", "flush"}

TypeOK ==
  /\ status \in {"running", "returned", "signalled", "crashed"}
  /\ stage \in [Threads -> Stages]
  /\ \A t \in Threads : writes[t] \in Seq(Files) /\ Len(writes[t]) <= 3
  /\ opened \in [Threads -> BOOLEAN]
  /\ {transport, gitRequired, available, timedOut, fetched, reporting,
      writeFailed} \subseteq BOOLEAN
  /\ once \in {"new", "running", "done"}
  /\ enabled \subseteq Features \cup {"tia"}
  /\ upload \in {"none", "running", "done"}
  /\ fetch \in [Features -> {"off", "running", "data", "rejected", "failed"}]
  /\ closeActions \in {0, 1}
  /\ mutex \in Threads \cup {"free"}
  /\ raw \in [Files -> {"none", "git", "data", "error"}]
  /\ file \in [Files -> {"before", "partial", "git", "data", "error"}]

-----------------------------------------------------------------------------

(* A file holds "before" what an earlier process left, or does not exist.  *)
Init ==
  /\ status = "running"
  /\ stage = [t \in Threads |-> IF t = Main THEN "initialize" ELSE "none"]
  /\ writes = [t \in Threads |-> <<>>]
  /\ opened = [t \in Threads |-> FALSE]
  /\ transport \in BOOLEAN
  /\ once = "new" /\ gitRequired = FALSE /\ available = FALSE /\ enabled = {}
  /\ upload = "none" /\ timedOut = FALSE
  /\ fetched = FALSE /\ fetch = [f \in Features |-> "off"]
  /\ closeActions = 0 /\ mutex = "free"
  /\ reporting = FALSE
  /\ raw = [f \in Files |-> "none"]
  /\ file = [f \in Files |-> "before"] /\ writeFailed = FALSE

(* What StoreCacheAndExit and GetSkippables store, in this order.          *)
StoredAt(s) ==
  CASE s = "store" -> <<"settings", "known", "management">>
    [] s = "skippables" -> <<"skippable">>
    [] OTHER -> <<>>

Goto(t, s) ==
  /\ stage' = [stage EXCEPT ![t] = s]
  /\ writes' = [writes EXCEPT ![t] = StoredAt(s)]
  /\ UNCHANGED <<status, opened>>

OnlyThreadsMove ==
  UNCHANGED <<reporting, settingsVars, uploadVars, fetchVars, raw, cacheVars>>

At(t, s) == status = "running" /\ stage[t] = s

(* Initialize prepares the session once, which registers the handler.      *)
Initialize ==
  /\ At(Main, "initialize")
  /\ stage' = [t \in Threads |-> IF t = Main THEN "settings" ELSE "idle"]
  /\ UNCHANGED <<status, writes, opened, reporting, settingsVars, uploadVars,
                 fetchVars, raw, cacheVars>>

(* Mutant: the handler takes closeActionsMutex before it asks for settings. *)
SignalLocks ==
  /\ At(Handler, "idle") /\ mutex = "free"
  /\ mutex' = Handler
  /\ Goto(Handler, "settings")
  /\ UNCHANGED <<reporting, settingsVars, upload, timedOut, closeActions,
                 fetchVars, raw, cacheVars>>

(* SIGINT or SIGTERM arrives; the handler starts with StoreCacheAndExit,   *)
(* hence with GetSettings.  Later signals are dropped.                     *)
Signal ==
  /\ At(Handler, "idle")
  /\ Goto(Handler, "settings")
  /\ OnlyThreadsMove

-----------------------------------------------------------------------------
(* ensureSettingsInitialization, under settingsOnce *)

(* Mutant: the handler closes the client and stores nothing.               *)
AfterSettingsClose(t) == Goto(t, IF t = Main THEN "decide" ELSE "lock")

AfterSettings(t) == Goto(t, IF t = Main THEN "decide" ELSE "store")

(* once.Do blocks while the other thread runs it.                          *)
SettingsKnown(t) ==
  /\ At(t, "settings") /\ once = "done"
  /\ AfterSettings(t)
  /\ OnlyThreadsMove

NoTransport(t) ==
  /\ At(t, "settings") /\ once = "new" /\ ~ transport
  /\ once' = "done"
  /\ AfterSettings(t)
  /\ UNCHANGED <<reporting, transport, gitRequired, available, enabled,
                 uploadVars, fetchVars, raw, cacheVars>>

(* uploadRepositoryChangesAsync starts before the settings are requested.  *)
StartSettings(t) ==
  /\ At(t, "settings") /\ once = "new" /\ transport
  /\ once' = "running" /\ upload' = "running"
  /\ Goto(t, "request")
  /\ UNCHANGED <<reporting, transport, gitRequired, available, enabled, timedOut,
                 closeActions, mutex, fetchVars, raw, cacheVars>>

(* A request that is rejected leaves the body of the answer; one that      *)
(* fails leaves none.                                                      *)
RawOf(answer) == IF answer = "rejected" THEN "error" ELSE "none"

(* Mutant: the failure forgets that the upload is still running.           *)
SettingsFailUnawaited(t) ==
  /\ At(t, "request")
  /\ \E answer \in {"rejected", "failed"} :
       raw' = [raw EXCEPT !["settings"] = RawOf(answer)]
  /\ once' = "done"
  /\ AfterSettings(t)
  /\ UNCHANGED <<reporting, transport, gitRequired, available, enabled,
                 uploadVars, fetchVars, cacheVars>>

(* The settings are unknown, which still waits for the upload at the end.  *)
SettingsFail(t) ==
  /\ At(t, "request")
  /\ \E answer \in {"rejected", "failed"} :
       raw' = [raw EXCEPT !["settings"] = RawOf(answer)]
  /\ Goto(t, "push")
  /\ UNCHANGED <<reporting, settingsVars, uploadVars, fetchVars, cacheVars>>

(* applyEnvironmentOverrides: the user can switch off test management; the *)
(* other overrides concern what only the tests' processes use.             *)
AfterOverrides(on) == {on, on \ {"management"}}

SettingsArrive(t) ==
  /\ At(t, "request")
  /\ \E on \in SettingsData : enabled' \in AfterOverrides(on) /\ available' = TRUE
  /\ raw' = [raw EXCEPT !["settings"] = "data"]
  /\ Goto(t, "push")
  /\ UNCHANGED <<reporting, transport, once, gitRequired, uploadVars, fetchVars,
                 cacheVars>>

(* These settings only say that the backend first needs the commits.       *)
SettingsRequireGit(t) ==
  /\ At(t, "request")
  /\ gitRequired' = TRUE
  /\ raw' = [raw EXCEPT !["settings"] = "git"]
  /\ Goto(t, "waitGit")
  /\ UNCHANGED <<reporting, transport, once, available, enabled, uploadVars,
                 fetchVars, cacheVars>>

(* Mutant: the settings are requested again although the upload is late.   *)
RepeatAnyway(t) ==
  /\ At(t, "waitGit")
  /\ timedOut' = TRUE
  /\ Goto(t, "repeat")
  /\ UNCHANGED <<reporting, settingsVars, upload, closeActions, mutex, fetchVars,
                 raw, cacheVars>>

UploadArrived(t) ==
  /\ At(t, "waitGit") /\ upload = "done"
  /\ Goto(t, "repeat")
  /\ OnlyThreadsMove

(* Without the upload there are no settings, and nothing is left to close. *)
UploadTooLate(t) ==
  /\ At(t, "waitGit")
  /\ timedOut' = TRUE /\ once' = "done"
  /\ AfterSettings(t)
  /\ UNCHANGED <<reporting, transport, gitRequired, available, enabled, upload,
                 closeActions, mutex, fetchVars, raw, cacheVars>>

RepeatArrives(t) ==
  /\ At(t, "repeat")
  /\ \E on \in SettingsData : enabled' \in AfterOverrides(on) /\ available' = TRUE
  /\ raw' = [raw EXCEPT !["settings"] = "data"]
  /\ Goto(t, "push")
  /\ UNCHANGED <<reporting, transport, once, gitRequired, uploadVars, fetchVars,
                 cacheVars>>

RepeatFails(t) ==
  /\ At(t, "repeat")
  /\ \E answer \in {"rejected", "failed"} :
       raw' = [raw EXCEPT !["settings"] = RawOf(answer)]
  /\ once' = "done"
  /\ AfterSettings(t)
  /\ UNCHANGED <<reporting, transport, gitRequired, available, enabled,
                 uploadVars, fetchVars, cacheVars>>

PushCloseAction(t) ==
  /\ At(t, "push") /\ mutex = "free"
  /\ closeActions' = 1 /\ once' = "done"
  /\ AfterSettings(t)
  /\ UNCHANGED <<reporting, transport, gitRequired, available, enabled, upload,
                 timedOut, mutex, fetchVars, raw, cacheVars>>

(* uploadRepositoryChanges ends, with or without an error.                 *)
UploadEnds ==
  /\ status = "running" /\ upload = "running"
  /\ upload' = "done"
  /\ UNCHANGED <<threadVars, settingsVars, timedOut, closeActions, mutex,
                 fetchVars, raw, cacheVars>>

EnsureSettings(t) ==
  \/ SettingsKnown(t) \/ NoTransport(t) \/ StartSettings(t)
  \/ SettingsFail(t) \/ SettingsArrive(t) \/ SettingsRequireGit(t)
  \/ UploadArrived(t) \/ UploadTooLate(t)
  \/ RepeatArrives(t) \/ RepeatFails(t) \/ PushCloseAction(t)

-----------------------------------------------------------------------------
(* The planner's use of the client *)

(* fetchSkippables asks for skippables under TIA, and for disabled tests   *)
(* when they are managed; durations are fetched next and change nothing    *)
(* here.                                                                   *)
Decide ==
  /\ At(Main, "decide")
  /\ Goto(Main, IF enabled \cap {"tia", "management"} # {}
                  THEN "features" ELSE "store")
  /\ OnlyThreadsMove

AfterFeatures ==
  Goto(Main, IF reporting \/ "tia" \in enabled THEN "skippables" ELSE "store")

(* ensureTestOptimizationInitialized: nothing to fetch, or fetched before. *)
FeaturesKnown ==
  /\ At(Main, "features") /\ (fetched \/ ~ available)
  /\ fetched' = TRUE
  /\ AfterFeatures
  /\ UNCHANGED <<reporting, settingsVars, uploadVars, fetch, raw, cacheVars>>

FetchFeatures ==
  /\ At(Main, "features") /\ ~ fetched /\ available
  /\ fetch' = [f \in Features |-> IF f \in enabled THEN "running" ELSE "off"]
  /\ Goto(Main, "fetching")
  /\ UNCHANGED <<reporting, settingsVars, uploadVars, fetched, raw, cacheVars>>

(* Known tests, which come in pages, are remembered only when complete.    *)
FeatureAnswered(f) ==
  /\ status = "running" /\ fetch[f] = "running"
  /\ \E answer \in {"data", "rejected", "failed"} :
       /\ fetch' = [fetch EXCEPT ![f] = answer]
       /\ raw' = [raw EXCEPT ![f] =
                    IF answer = "data" THEN "data"
                    ELSE IF f = "known" THEN "none" ELSE RawOf(answer)]
  /\ UNCHANGED <<threadVars, settingsVars, uploadVars, fetched, cacheVars>>

FeaturesFetched ==
  /\ At(Main, "fetching") /\ \A f \in Features : fetch[f] # "running"
  /\ fetched' = TRUE
  /\ AfterFeatures
  /\ UNCHANGED <<reporting, settingsVars, uploadVars, fetch, raw, cacheVars>>

(* A report, when it is enabled, asks for everything again.                *)
Report ==
  /\ At(Main, "report")
  /\ \/ reporting' = TRUE /\ Goto(Main, "features")
     \/ reporting' = FALSE /\ Goto(Main, "leave")
  /\ UNCHANGED <<settingsVars, uploadVars, fetchVars, raw, cacheVars>>

Leave ==
  /\ At(Main, "leave")
  /\ status' = "returned"
  /\ UNCHANGED <<stage, writes, opened, reporting, settingsVars, uploadVars,
                 fetchVars, raw, cacheVars>>

-----------------------------------------------------------------------------
(* Cache files: os.WriteFile truncates, then writes *)

NextFile(t) == Head(writes[t])
HasFile(t) == status = "running" /\ writes[t] # <<>>
Stored(t) == writes' = [writes EXCEPT ![t] = Tail(@)]

(* Mutant: an absent response truncates the file.                          *)
StoreAnything(t) ==
  /\ HasFile(t) /\ ~ opened[t] /\ raw[NextFile(t)] = "none"
  /\ Stored(t)
  /\ file' = [file EXCEPT ![NextFile(t)] = "partial"]
  /\ UNCHANGED <<status, stage, opened, reporting, settingsVars, uploadVars,
                 fetchVars, raw, writeFailed>>

NothingToStore(t) ==
  /\ HasFile(t) /\ ~ opened[t] /\ raw[NextFile(t)] = "none"
  /\ Stored(t)
  /\ UNCHANGED <<status, stage, opened, reporting, settingsVars, uploadVars,
                 fetchVars, raw, cacheVars>>

OpenFile(t) ==
  /\ HasFile(t) /\ ~ opened[t] /\ raw[NextFile(t)] # "none"
  /\ opened' = [opened EXCEPT ![t] = TRUE]
  /\ file' = [file EXCEPT ![NextFile(t)] = "partial"]
  /\ UNCHANGED <<status, stage, writes, reporting, settingsVars, uploadVars,
                 fetchVars, raw, writeFailed>>

WriteFile(t) ==
  /\ HasFile(t) /\ opened[t]
  /\ opened' = [opened EXCEPT ![t] = FALSE]
  /\ Stored(t)
  /\ file' = [file EXCEPT ![NextFile(t)] = raw[NextFile(t)]]
  /\ UNCHANGED <<status, stage, reporting, settingsVars, uploadVars, fetchVars,
                 raw, writeFailed>>

(* The directory, the file or the disk refuses; the error is only logged.  *)
StoreFails(t) ==
  /\ HasFile(t) /\ raw[NextFile(t)] # "none"
  /\ opened' = [opened EXCEPT ![t] = FALSE]
  /\ Stored(t)
  /\ writeFailed' = TRUE
  /\ UNCHANGED <<status, stage, reporting, settingsVars, uploadVars, fetchVars,
                 raw, file>>

(* A data race: the handler reads the raw response of a feature while its  *)
(* goroutine writes the slice, and may follow a nil pointer.               *)
TornRead ==
  /\ HasFile(Handler) /\ ~ opened[Handler]
  /\ NextFile(Handler) \in Features /\ fetch[NextFile(Handler)] = "running"
  /\ status' = "crashed"
  /\ UNCHANGED <<stage, writes, opened, reporting, settingsVars, uploadVars,
                 fetchVars, raw, cacheVars>>

AllStored(t) ==
  /\ status = "running" /\ stage[t] \in {"store", "skippables"}
  /\ writes[t] = <<>>
  /\ Goto(t, IF stage[t] = "store" THEN "lock"
             ELSE IF reporting THEN "leave" ELSE "store")
  /\ OnlyThreadsMove

StoreFiles(t) ==
  NothingToStore(t) \/ OpenFile(t) \/ WriteFile(t) \/ StoreFails(t) \/ AllStored(t)

-----------------------------------------------------------------------------
(* exitTestOptimization: the close actions run under closeActionsMutex *)

Lock(t) ==
  /\ At(t, "lock") /\ mutex = "free"
  /\ mutex' = t
  /\ Goto(t, "close")
  /\ UNCHANGED <<reporting, settingsVars, upload, timedOut, closeActions,
                 fetchVars, raw, cacheVars>>

Close(t) ==
  /\ At(t, "close")
  /\ \/ (closeActions = 0 \/ upload = "done") /\ timedOut' = timedOut
     \/ closeActions = 1 /\ timedOut' = TRUE
  /\ closeActions' = 0 /\ mutex' = "free"
  /\ Goto(t, IF t = Main THEN "report" ELSE "flush")
  /\ UNCHANGED <<reporting, settingsVars, upload, fetchVars, raw, cacheVars>>

(* The handler flushes the telemetry and ends the process.                 *)
ExitOnSignal ==
  /\ At(Handler, "flush")
  /\ status' = "signalled"
  /\ UNCHANGED <<stage, writes, opened, reporting, settingsVars, uploadVars,
                 fetchVars, raw, cacheVars>>

-----------------------------------------------------------------------------

(* What happens by itself; an upload runs git, which may hang.             *)
Step ==
  \/ Initialize \/ Decide \/ FeaturesKnown \/ FetchFeatures \/ FeaturesFetched
  \/ Report \/ Leave \/ TornRead \/ ExitOnSignal
  \/ \E f \in Features : FeatureAnswered(f)
  \/ \E t \in Threads :
       EnsureSettings(t) \/ StoreFiles(t) \/ Lock(t) \/ Close(t)

Next == Step \/ Signal \/ UploadEnds

Spec == Init /\ [][Next]_vars

(* Requests and waits have time limits and files are local, so every       *)
(* thread goes on; the upload has no limit and need not end.               *)
FairSpec == Spec /\ WF_vars(Step)

-----------------------------------------------------------------------------

Signalled == stage[Handler] \notin {"none", "idle"}

(* Settings that the backend could only compute with the commits of this   *)
(* checkout are never used unless the upload had ended before.             *)
SettingsFollowTheUpload == available /\ gitRequired => upload = "done"

(* Whichever thread ends the process, and however they interleave, an      *)
(* upload that is cut off had been given its minute.                       *)
UploadIsAwaited ==
  status \in {"returned", "signalled"} /\ upload = "running" => timedOut

(* An undisturbed process leaves in the cache what it planned with: the    *)
(* settings, and each feature the planner asked for.                       *)
PlannedWith ==
  (IF available THEN {"settings"} ELSE {})
  \cup { f \in Features :
           /\ fetch[f] = "data"
           /\ \/ f = "known" /\ enabled \cap {"tia", "management"} # {}
              \/ f = "skippable" /\ "tia" \in enabled
              \/ f = "management" }
CacheIsComplete ==
  status = "returned" /\ ~ Signalled /\ ~ writeFailed
    => /\ \A f \in PlannedWith : file[f] = "data"
       /\ \A f \in Files : file[f] # "partial"

(* A signal during planning waits for the settings and stores them, unless *)
(* the planner is storing them again at the very end.                      *)
SignalStoresSettings ==
  status = "signalled" /\ available /\ ~ writeFailed
    => \/ file["settings"] = "data"
       \/ opened[Main] /\ NextFile(Main) = "settings"

(* Neither a hanging upload nor a signal at any moment keeps the process   *)
(* from ending.                                                            *)
ProcessEnds == <>(status # "running")
=============================================================================
