---------------------------- MODULE ClientProofs ----------------------------
(***************************************************************************)
(* Proofs about Client, for any settings the backend may answer: settings  *)
(* that need the git upload are used only after it, no thread ends the     *)
(* process with an upload running that was not given its minute, the cache *)
(* that an undisturbed or a signalled process leaves is complete, threads  *)
(* never wait for each other in a circle, and every step nears the end.    *)
(***************************************************************************)
EXTENDS Client, TLAPS

(* The thread that runs the body of settingsOnce, and the stages that a    *)
(* thread reaches only behind it.                                          *)
OnceStages == {"request", "waitGit", "repeat", "push"}
InOnce(t) == stage[t] \in OnceStages
EarlyStages == {"none", "idle", "initialize", "settings"}
BehindOnce(t) == stage[t] \notin EarlyStages \cup OnceStages

(* One thread at a time asks for settings, and what it knows when.         *)
OnceInv ==
  /\ stage \in [Threads -> Stages]
  /\ \A t \in Threads : InOnce(t) => once = "running"
  /\ \A s, t \in Threads : InOnce(s) /\ InOnce(t) => s = t
  /\ \A t \in Threads : BehindOnce(t) => once = "done"
  /\ once = "new" => ~ available /\ ~ gitRequired
  /\ \A t \in Threads : stage[t] = "request" => ~ available /\ ~ gitRequired
  /\ \A t \in Threads : stage[t] = "waitGit" => ~ available
  /\ \A t \in Threads : stage[t] = "repeat" => upload = "done"
  /\ SettingsFollowTheUpload

(* An upload that still runs without having been given its minute has a    *)
(* close action, unless the settings are still being fetched; and a thread *)
(* that has closed the client leaves no such upload behind.                *)
Awaited == upload = "running" => timedOut
AwaitInv ==
  /\ once = "new" => upload = "none"
  /\ once = "done" => Awaited \/ closeActions = 1
  /\ stage[Main] \in {"report", "leave"} \/ reporting => once = "done" /\ Awaited
  /\ stage[Handler] = "flush" => Awaited
  /\ status = "returned" => stage[Main] = "leave"
  /\ status = "signalled" => stage[Handler] = "flush"

(* Goto moves one thread and leaves the other where it is.                 *)
LEMMA GotoEffect ==
  ASSUME stage \in [Threads -> Stages],
         NEW t \in Threads, NEW s \in Stages, Goto(t, s)
  PROVE  /\ stage' \in [Threads -> Stages]
         /\ stage'[t] = s
         /\ \A u \in Threads : u # t => stage'[u] = stage[u]
         /\ status' = status
BY DEF Goto

(* The stages behind settingsOnce, and what leaves settings and upload     *)
(* alone: a move from one of them to another, or no move at all.           *)
LateStages == Stages \ (EarlyStages \cup OnceStages)
LEMMA LateMove ==
  ASSUME OnceInv, NEW t \in Threads, BehindOnce(t),
         NEW s \in LateStages, Goto(t, s), UNCHANGED <<settingsVars, upload>>
  PROVE  OnceInv'
<1>1. /\ stage' \in [Threads -> Stages] /\ stage'[t] = s
      /\ \A u \in Threads : u # t => stage'[u] = stage[u]
  BY GotoEffect DEF OnceInv, LateStages
<1>2. /\ once' = once /\ once = "done" /\ upload' = upload
      /\ available' = available /\ gitRequired' = gitRequired
  BY DEF settingsVars, OnceInv
<1> QED
  BY <1>1, <1>2 DEF OnceInv, InOnce, BehindOnce, LateStages, OnceStages, EarlyStages,
     SettingsFollowTheUpload

(* OnceInv reads nothing but the stages, the settings and the upload.      *)
LEMMA Standstill ==
  ASSUME OnceInv, UNCHANGED <<stage, settingsVars, upload>>
  PROVE  OnceInv'
BY DEF OnceInv, InOnce, BehindOnce, settingsVars, SettingsFollowTheUpload

(* Every step keeps one thread at a time at the settings.                  *)
LEMMA OnceNext == OnceInv /\ [Next]_vars => OnceInv'
<1> SUFFICES ASSUME OnceInv, [Next]_vars PROVE OnceInv'
  OBVIOUS
<1> USE DEF OnceInv, InOnce, BehindOnce, OnceStages, EarlyStages, Stages,
            SettingsFollowTheUpload, At
<1>1. CASE Initialize
  BY <1>1 DEF Initialize, settingsVars, uploadVars, Threads, Main, Handler
<1>2. CASE Signal
  BY <1>2, GotoEffect DEF Signal, OnlyThreadsMove, settingsVars, uploadVars, Threads
<1>3. ASSUME NEW t \in Threads, EnsureSettings(t) PROVE OnceInv'
  <2>1. CASE SettingsKnown(t)
    BY <2>1, <1>3, GotoEffect DEF SettingsKnown, AfterSettings, OnlyThreadsMove, settingsVars, uploadVars
  <2>2. CASE NoTransport(t)
    BY <2>2, <1>3, GotoEffect DEF NoTransport, AfterSettings, uploadVars
  <2>3. CASE StartSettings(t)
    BY <2>3, <1>3, GotoEffect DEF StartSettings
  <2>4. CASE SettingsFail(t)
    BY <2>4, <1>3, GotoEffect DEF SettingsFail, settingsVars, uploadVars
  <2>5. CASE SettingsArrive(t)
    BY <2>5, <1>3, GotoEffect DEF SettingsArrive, uploadVars
  <2>6. CASE SettingsRequireGit(t)
    BY <2>6, <1>3, GotoEffect DEF SettingsRequireGit, uploadVars
  <2>7. CASE UploadArrived(t)
    BY <2>7, <1>3, GotoEffect DEF UploadArrived, OnlyThreadsMove, settingsVars, uploadVars
  <2>8. CASE UploadTooLate(t)
    BY <2>8, <1>3, GotoEffect DEF UploadTooLate, AfterSettings
  <2>9. CASE RepeatArrives(t)
    BY <2>9, <1>3, GotoEffect DEF RepeatArrives, uploadVars
  <2>10. CASE RepeatFails(t)
    BY <2>10, <1>3, GotoEffect DEF RepeatFails, AfterSettings, uploadVars
  <2>11. CASE PushCloseAction(t)
    BY <2>11, <1>3, GotoEffect DEF PushCloseAction, AfterSettings
  <2> QED
    BY <1>3, <2>1, <2>2, <2>3, <2>4, <2>5, <2>6, <2>7, <2>8, <2>9, <2>10, <2>11
       DEF EnsureSettings
<1>4. CASE UploadEnds
  BY <1>4 DEF UploadEnds, threadVars, settingsVars
<1>5. CASE Decide \/ FeaturesKnown \/ FetchFeatures \/ FeaturesFetched \/ Report
  <2>1. BehindOnce(Main) /\ UNCHANGED <<settingsVars, upload>>
    BY <1>5 DEF Decide, FeaturesKnown, FetchFeatures, FeaturesFetched, Report,
       AfterFeatures, OnlyThreadsMove, uploadVars
  <2>2. PICK s \in LateStages : Goto(Main, s)
    BY <1>5 DEF Decide, FeaturesKnown, FetchFeatures, FeaturesFetched, Report,
       AfterFeatures, LateStages
  <2> QED
    BY <2>1, <2>2, LateMove DEF Threads
<1>6. CASE Leave \/ TornRead \/ ExitOnSignal
  BY <1>6, Standstill DEF Leave, TornRead, ExitOnSignal, uploadVars
<1>7. ASSUME NEW f \in Features, FeatureAnswered(f) PROVE OnceInv'
  BY <1>7, Standstill DEF FeatureAnswered, threadVars, uploadVars
<1>8. ASSUME NEW t \in Threads, StoreFiles(t) PROVE OnceInv'
  <2>1. CASE AllStored(t)
    <3>1. BehindOnce(t) /\ UNCHANGED <<settingsVars, upload>>
      BY <2>1 DEF AllStored, OnlyThreadsMove, uploadVars
    <3>2. PICK s \in LateStages : Goto(t, s)
      BY <2>1 DEF AllStored, LateStages
    <3> QED
      BY <3>1, <3>2, <1>8, LateMove
  <2>2. CASE ~ AllStored(t)
    <3>1. UNCHANGED <<stage, settingsVars, upload>>
      BY <2>2, <1>8 DEF StoreFiles, NothingToStore, OpenFile, WriteFile, StoreFails,
         uploadVars
    <3> QED
      BY <3>1, Standstill
  <2> QED
    BY <2>1, <2>2
<1>9. ASSUME NEW t \in Threads, Lock(t) \/ Close(t) PROVE OnceInv'
  <2>1. BehindOnce(t) /\ UNCHANGED <<settingsVars, upload>>
    BY <1>9 DEF Lock, Close
  <2>2. PICK s \in LateStages : Goto(t, s)
    BY <1>9 DEF Lock, Close, LateStages
  <2> QED
    BY <2>1, <2>2, <1>9, LateMove
<1>10. CASE UNCHANGED vars
  BY <1>10 DEF vars, threadVars, settingsVars, uploadVars
<1> QED
  BY <1>1, <1>2, <1>3, <1>4, <1>5, <1>6, <1>7, <1>8, <1>9, <1>10 DEF Next, Step

(* Settings that the backend could only compute with the commits of this   *)
(* checkout are never used unless the upload had ended before.             *)
THEOREM SettingsAfterUpload == Spec => []SettingsFollowTheUpload
<1>1. Init => OnceInv
  BY DEF Init, OnceInv, InOnce, BehindOnce, OnceStages, EarlyStages, Stages,
         Threads, Main, Handler, SettingsFollowTheUpload
<1>2. OnceInv => SettingsFollowTheUpload
  BY DEF OnceInv
<1> QED
  BY <1>1, <1>2, OnceNext, PTL DEF Spec

-----------------------------------------------------------------------------

(* A thread moves and nothing else that AwaitInv reads changes; it may     *)
(* only enter the stages behind Close where AwaitInv allows it.            *)
AwaitVars == <<once, upload, timedOut, closeActions, reporting>>
LEMMA AwaitMove ==
  ASSUME OnceInv, AwaitInv, status = "running", UNCHANGED AwaitVars,
         NEW t \in Threads, NEW s \in Stages, Goto(t, s),
         s \in {"report", "leave"} => once = "done" /\ Awaited,
         s = "flush" => Awaited
  PROVE  AwaitInv'
<1>1. /\ stage'[t] = s /\ status' = "running"
      /\ \A u \in Threads : u # t => stage'[u] = stage[u]
  BY GotoEffect DEF OnceInv
<1>2. CASE t = Main
  BY <1>1, <1>2 DEF AwaitInv, Awaited, AwaitVars, Threads, Main, Handler
<1>3. CASE t = Handler
  BY <1>1, <1>3 DEF AwaitInv, Awaited, AwaitVars, Threads, Main, Handler
<1> QED
  BY <1>2, <1>3 DEF Threads

(* While the settings are not known no thread is behind Close, so only the *)
(* first two conjuncts of AwaitInv are at stake.                           *)
LEMMA AwaitEarly ==
  ASSUME OnceInv, AwaitInv, status = "running", once # "done",
         NEW t \in Threads, NEW s \in Stages \ {"report", "leave", "flush"},
         Goto(t, s), reporting' = reporting,
         once' = "new" => upload' = "none",
         once' = "done" => Awaited' \/ closeActions' = 1
  PROVE  AwaitInv'
<1>1. /\ stage'[t] = s /\ status' = "running"
      /\ \A u \in Threads : u # t => stage'[u] = stage[u]
  BY GotoEffect DEF OnceInv
<1>2. \A u \in Threads : stage[u] \notin {"report", "leave", "flush"}
  BY DEF OnceInv, BehindOnce, EarlyStages, OnceStages
<1>3. ~ reporting
  BY DEF AwaitInv
<1>4. \A u \in Threads : stage'[u] \notin {"report", "leave", "flush"}
  BY <1>1, <1>2
<1> QED
  BY <1>1, <1>3, <1>4 DEF AwaitInv, Threads

(* AwaitInv reads nothing but these variables.                             *)
LEMMA AwaitStandstill ==
  ASSUME AwaitInv, UNCHANGED <<stage, status, AwaitVars>>
  PROVE  AwaitInv'
BY DEF AwaitInv, Awaited, AwaitVars

(* Every step keeps the upload awaited; OnceInv tells who is behind the    *)
(* settings, so that a close action cannot be pushed after it has run.     *)
LEMMA AwaitNext == OnceInv /\ AwaitInv /\ [Next]_vars => AwaitInv'
<1> SUFFICES ASSUME OnceInv, AwaitInv, [Next]_vars PROVE AwaitInv'
  OBVIOUS
<1>0. /\ stage \in [Threads -> Stages] /\ Main \in Threads /\ Handler \in Threads
      /\ \A t \in Threads : InOnce(t) => once = "running"
      /\ \A t \in Threads : stage[t] = "repeat" => upload = "done"
  BY DEF OnceInv, Threads
<1>1. CASE Initialize
  <2>1. stage'[Main] = "settings" /\ stage'[Handler] = "idle" /\ status' = "running"
    BY <1>1, <1>0 DEF Initialize, Main, Handler, At
  <2> QED
    BY <1>1, <2>1 DEF Initialize, AwaitInv, Awaited, settingsVars, uploadVars
<1>2. CASE Signal
  BY <1>2, <1>0, AwaitMove DEF Signal, OnlyThreadsMove, settingsVars, uploadVars, AwaitVars,
     At, Stages
<1>3. ASSUME NEW t \in Threads, EnsureSettings(t) PROVE AwaitInv'
  <2>1. CASE SettingsKnown(t)
    <3>1. PICK s \in {"decide", "store"} : Goto(t, s)
      BY <2>1 DEF SettingsKnown, AfterSettings
    <3> QED
      BY <2>1, <3>1, AwaitMove DEF SettingsKnown, At, OnlyThreadsMove, settingsVars,
         uploadVars, AwaitVars, Stages
  <2>2. CASE ~ SettingsKnown(t)
    <3>1. /\ status = "running" /\ reporting' = reporting /\ once # "done"
      BY <2>2, <1>3, <1>0 DEF EnsureSettings, NoTransport, StartSettings, SettingsFail,
         SettingsArrive, SettingsRequireGit, UploadArrived, UploadTooLate, RepeatArrives,
         RepeatFails, PushCloseAction, OnlyThreadsMove, At, InOnce, OnceStages
    <3>2. PICK s \in Stages \ {"report", "leave", "flush"} : Goto(t, s)
      BY <2>2, <1>3 DEF EnsureSettings, NoTransport, StartSettings, SettingsFail,
         SettingsArrive, SettingsRequireGit, UploadArrived, UploadTooLate, RepeatArrives,
         RepeatFails, PushCloseAction, AfterSettings, Stages
    <3>3. once' = "new" => upload' = "none"
      BY <2>2, <1>3, <1>0 DEF EnsureSettings, NoTransport, StartSettings, SettingsFail,
         SettingsArrive, SettingsRequireGit, UploadArrived, UploadTooLate, RepeatArrives,
         RepeatFails, PushCloseAction, OnlyThreadsMove, At, InOnce, OnceStages,
         settingsVars, uploadVars
    <3>4. once' = "done" => Awaited' \/ closeActions' = 1
      BY <2>2, <1>3, <1>0 DEF EnsureSettings, NoTransport, StartSettings, SettingsFail,
         SettingsArrive, SettingsRequireGit, UploadArrived, UploadTooLate, RepeatArrives,
         RepeatFails, PushCloseAction, OnlyThreadsMove, At, InOnce, OnceStages,
         settingsVars, uploadVars, AwaitInv, Awaited
    <3> QED
      BY <3>1, <3>2, <3>3, <3>4, AwaitEarly
  <2> QED
    BY <2>1, <2>2
<1>4. CASE UploadEnds
  BY <1>4 DEF UploadEnds, threadVars, settingsVars, AwaitInv, Awaited
<1>5. CASE Decide \/ FeaturesKnown \/ FetchFeatures \/ FeaturesFetched
  <2>1. status = "running" /\ UNCHANGED AwaitVars
    BY <1>5 DEF Decide, FeaturesKnown, FetchFeatures, FeaturesFetched, At,
       OnlyThreadsMove, settingsVars, uploadVars, AwaitVars
  <2>2. PICK s \in {"features", "fetching", "skippables", "store"} : Goto(Main, s)
    BY <1>5 DEF Decide, FeaturesKnown, FetchFeatures, FeaturesFetched, AfterFeatures
  <2> QED
    BY <2>1, <2>2, <1>0, AwaitMove DEF Stages
<1>6. CASE Report
  <2>1. status = "running" /\ status' = status /\ once = "done" /\ Awaited
    BY <1>6 DEF Report, At, AwaitInv, Goto
  <2>2. stage'[Handler] = stage[Handler]
    BY <1>6, <1>0 DEF Report, Goto, Main, Handler
  <2> QED
    BY <1>6, <2>1, <2>2 DEF Report, settingsVars, uploadVars, AwaitInv, Awaited
<1>7. CASE Leave \/ TornRead \/ ExitOnSignal
  BY <1>7 DEF Leave, TornRead, ExitOnSignal, At, settingsVars, uploadVars, AwaitInv,
     Awaited
<1>8. ASSUME NEW f \in Features, FeatureAnswered(f) PROVE AwaitInv'
  BY <1>8, AwaitStandstill DEF FeatureAnswered, threadVars, settingsVars, uploadVars,
     AwaitVars
<1>9. ASSUME NEW t \in Threads, StoreFiles(t) PROVE AwaitInv'
  <2>1. CASE AllStored(t)
    <3>1. status = "running" /\ UNCHANGED AwaitVars
      BY <2>1 DEF AllStored, OnlyThreadsMove, settingsVars, uploadVars, AwaitVars
    <3>2. PICK s \in {"lock", "store", "leave"} : Goto(t, s) /\ (s = "leave" => reporting)
      BY <2>1 DEF AllStored
    <3>3. s = "leave" => once = "done" /\ Awaited
      BY <3>2 DEF AwaitInv
    <3> QED
      BY <3>1, <3>2, <3>3, <1>9, AwaitMove DEF Stages
  <2>2. CASE ~ AllStored(t)
    BY <2>2, <1>9, AwaitStandstill DEF StoreFiles, NothingToStore, OpenFile, WriteFile,
       StoreFails, settingsVars, uploadVars, AwaitVars
  <2> QED
    BY <2>1, <2>2
<1>10. ASSUME NEW t \in Threads, Lock(t) PROVE AwaitInv'
  BY <1>10, AwaitMove DEF Lock, At, settingsVars, AwaitVars, Stages
<1>11. ASSUME NEW t \in Threads, Close(t) PROVE AwaitInv'
  <2>1. once = "done" /\ once' = once /\ upload' = upload /\ status = "running"
        /\ reporting' = reporting
    BY <1>11 DEF Close, At, settingsVars, OnceInv, BehindOnce, EarlyStages, OnceStages
  <2>2. Awaited'
    BY <2>1, <1>11 DEF Close, AwaitInv, Awaited
  <2>3. PICK s \in {"report", "flush"} : Goto(t, s)
    BY <1>11 DEF Close
  <2>4. stage' \in [Threads -> Stages] /\ status' = "running"
    BY <2>1, <2>3, <1>0, GotoEffect DEF Stages
  <2> QED
    BY <2>1, <2>2, <2>4 DEF AwaitInv
<1>12. CASE UNCHANGED vars
  BY <1>12, AwaitStandstill DEF vars, threadVars, settingsVars, uploadVars, AwaitVars
<1> QED
  BY <1>1, <1>2, <1>3, <1>4, <1>5, <1>6, <1>7, <1>8, <1>9, <1>10, <1>11, <1>12
     DEF Next, Step

(* Whichever thread ends the process, and however they interleave, an      *)
(* upload that is cut off had been given its minute.                       *)
THEOREM UploadAwaited == Spec => []UploadIsAwaited
<1>1. Init => OnceInv /\ AwaitInv
  BY DEF Init, OnceInv, InOnce, BehindOnce, OnceStages, EarlyStages, Stages,
         Threads, Main, Handler, SettingsFollowTheUpload, AwaitInv, Awaited
<1>2. AwaitInv => UploadIsAwaited
  BY DEF AwaitInv, Awaited, UploadIsAwaited
<1> QED
  BY <1>1, <1>2, OnceNext, AwaitNext, PTL DEF Spec

-----------------------------------------------------------------------------

(* The cache files that a thread still has to store.                       *)
Unstored(t) == {writes[t][i] : i \in 1 .. Len(writes[t])}

(* A thread has files to store in two stages only, and has truncated a     *)
(* file only while it stores it; settings come with their raw response.    *)
StoreInv ==
  /\ writes \in [Threads -> Seq(Files)] /\ opened \in [Threads -> BOOLEAN]
  /\ raw \in [Files -> {"none", "git", "data", "error"}]
  /\ DOMAIN file = Files
  /\ \A t \in Threads : writes[t] # <<>> => stage[t] \in {"store", "skippables"}
  /\ \A t \in Threads : opened[t] => writes[t] # <<>>
  /\ stage[Main] = "initialize" => stage[Handler] = "none"
  /\ stage[Handler] # "skippables"
  /\ \A t \in Threads : stage[t] = "repeat" => ~ available
  /\ available => raw["settings"] = "data"

(* The planner is behind its requests for features once it has asked for   *)
(* them, and no answer comes later.                                        *)
Asked == enabled \cap {"tia", "management"} # {}
StoreStages == {"store", "lock", "close", "report", "leave"}
FetchInv ==
  /\ DOMAIN fetch = Features
  /\ \A f \in Features : fetch[f] # "off" => once = "done" /\ f \in enabled
  /\ \A f \in Features : fetch[f] = "running" => stage[Main] = "fetching"
  /\ stage[Main] = "fetching" => ~ fetched
  /\ \A f \in Features : fetch[f] = "data" => raw[f] = "data"
  /\ Asked /\ (stage[Main] \in StoreStages \cup {"skippables"} \/ reporting) => fetched

(* What has to be in the cache by now, or among the files that the planner *)
(* is storing. A report may ask for features that were not planned with.   *)
Due(f) ==
  /\ stage[Main] \in StoreStages \/ reporting \/ (f = "skippable" /\ stage[Main] = "skippables")
  /\ f \in Features => Asked
  /\ f = "skippable" => "tia" \in enabled
UpToDate(f) == raw[f] = "none" \/ file[f] = raw[f]
CalmInv ==
  ~ Signalled /\ ~ writeFailed =>
    /\ \A f \in Files : file[f] = "partial" => opened[Main] /\ NextFile(Main) = f
    /\ \A f \in Files : Due(f) => UpToDate(f) \/ f \in Unstored(Main)

(* The handler has stored the settings, or will, unless the planner has    *)
(* just truncated the file to store the same.                              *)
SignalInv ==
  available /\ ~ writeFailed /\ stage[Handler] \in {"store", "lock", "close", "flush"} =>
    \/ file["settings"] = "data"
    \/ "settings" \in Unstored(Handler)
    \/ opened[Main] /\ NextFile(Main) = "settings"

(* What a thread stores in a stage that it enters.                         *)
LEMMA StoredAtStages ==
  ASSUME NEW s \in Stages
  PROVE  /\ StoredAt(s) \in Seq(Files)
         /\ StoredAt(s) # <<>> => s \in {"store", "skippables"}
<1>1. CASE s = "store"
  BY <1>1 DEF StoredAt, Files, Features
<1>2. CASE s = "skippables"
  BY <1>2 DEF StoredAt, Files, Features
<1>3. CASE s \notin {"store", "skippables"}
  BY <1>3 DEF StoredAt
<1> QED
  BY <1>1, <1>2, <1>3

(* Storing one file leaves the others to be stored.                        *)
LEMMA UnstoredTail ==
  ASSUME NEW w \in Seq(Files), w # <<>>
  PROVE  /\ Tail(w) \in Seq(Files) /\ Head(w) \in Files
         /\ \A i \in 1 .. Len(w) :
              w[i] = Head(w) \/ \E j \in 1 .. Len(Tail(w)) : Tail(w)[j] = w[i]
<1>1. /\ Tail(w) \in Seq(Files) /\ Len(Tail(w)) = Len(w) - 1 /\ Len(w) \in Nat \ {0}
      /\ \A j \in 1 .. Len(w) - 1 : Tail(w)[j] = w[j + 1]
      /\ Head(w) = w[1] /\ Head(w) \in Files
  OBVIOUS
<1>2. ASSUME NEW i \in 1 .. Len(w), i # 1
      PROVE  i - 1 \in 1 .. Len(Tail(w)) /\ Tail(w)[i - 1] = w[i]
  BY <1>1, <1>2
<1> QED
  BY <1>1, <1>2

(* A thread that enters a stage has the files of that stage to store.      *)
LEMMA MoveEffect ==
  ASSUME OnceInv, StoreInv, NEW t \in Threads, NEW s \in Stages, Goto(t, s)
  PROVE  /\ stage' \in [Threads -> Stages] /\ stage'[t] = s
         /\ writes' \in [Threads -> Seq(Files)] /\ writes'[t] = StoredAt(s)
         /\ \A u \in Threads : u # t => stage'[u] = stage[u] /\ writes'[u] = writes[u]
         /\ opened' = opened /\ status' = status
BY StoredAtStages, GotoEffect DEF Goto, OnceInv, StoreInv

(* Where the steps of settingsOnce lead: the planner on to its decision,   *)
(* the handler to storing what there is.                                   *)
LEMMA EnsureMoves ==
  ASSUME OnceInv, StoreInv, NEW t \in Threads, EnsureSettings(t)
  PROVE  /\ stage[t] \in OnceStages \cup {"settings"} /\ status = "running"
         /\ \E s \in OnceStages \cup {"decide", "store"} :
              /\ Goto(t, s)
              /\ s = "store" => t = Handler
              /\ s = "repeat" => ~ available'
<1> USE DEF At, OnceStages
<1>1. ASSUME AfterSettings(t)
      PROVE  \E s \in {"decide", "store"} : Goto(t, s) /\ (s = "store" => t = Handler)
  <2>1. CASE t = Main
    BY <1>1, <2>1 DEF AfterSettings
  <2>2. CASE t # Main
    BY <1>1, <2>2 DEF AfterSettings, Threads
  <2> QED
    BY <2>1, <2>2
<1>2. CASE SettingsKnown(t) \/ NoTransport(t) \/ UploadTooLate(t) \/ RepeatFails(t)
           \/ PushCloseAction(t)
  BY <1>1, <1>2 DEF SettingsKnown, NoTransport, UploadTooLate, RepeatFails, PushCloseAction
<1>3. CASE StartSettings(t)
  <2>1. (\E s \in {"request"} : Goto(t, s)) /\ stage[t] = "settings" /\ status = "running"
    BY <1>3 DEF StartSettings
  <2> QED
    BY <2>1
<1>4. CASE SettingsFail(t) \/ SettingsArrive(t) \/ RepeatArrives(t)
  <2>1. (\E s \in {"push"} : Goto(t, s)) /\ stage[t] \in {"request", "repeat"} /\ status = "running"
    BY <1>4 DEF SettingsFail, SettingsArrive, RepeatArrives
  <2> QED
    BY <2>1
<1>5. CASE SettingsRequireGit(t)
  <2>1. (\E s \in {"waitGit"} : Goto(t, s)) /\ stage[t] = "request" /\ status = "running"
    BY <1>5 DEF SettingsRequireGit
  <2> QED
    BY <2>1
<1>6. CASE UploadArrived(t)
  BY <1>6 DEF UploadArrived, OnlyThreadsMove, settingsVars, OnceInv
<1> QED
  BY <1>2, <1>3, <1>4, <1>5, <1>6 DEF EnsureSettings

(* The steps of settingsOnce bring settings only with their raw response,  *)
(* and leave features and files alone.                                     *)
LEMMA EnsureKeeps ==
  ASSUME OnceInv, StoreInv, NEW t \in Threads, EnsureSettings(t)
  PROVE  /\ UNCHANGED <<reporting, fetched, fetch, file, writeFailed>>
         /\ raw' \in [Files -> {"none", "git", "data", "error"}]
         /\ \A f \in Features : raw'[f] = raw[f]
         /\ stage[t] = "settings" => UNCHANGED <<raw, available, enabled>>
         /\ available' => raw'["settings"] = "data"
<1> USE DEF At, OnlyThreadsMove, settingsVars, uploadVars, fetchVars, cacheVars
<1>0. /\ raw \in [Files -> {"none", "git", "data", "error"}]
      /\ available => raw["settings"] = "data"
      /\ stage[t] \in {"request", "waitGit", "repeat"} => ~ available
      /\ "settings" \in Files /\ \A f \in Features : f \in Files /\ f # "settings"
  BY DEF StoreInv, OnceInv, Files, Features
<1>1. CASE \/ SettingsKnown(t) \/ NoTransport(t) \/ StartSettings(t) \/ UploadArrived(t)
           \/ UploadTooLate(t) \/ PushCloseAction(t)
  <2>1. UNCHANGED <<raw, available, enabled>>
    BY <1>1 DEF SettingsKnown, NoTransport, StartSettings, UploadArrived, UploadTooLate,
       PushCloseAction
  <2>2. UNCHANGED <<reporting, fetched, fetch, file, writeFailed>>
    BY <1>1 DEF SettingsKnown, NoTransport, StartSettings, UploadArrived, UploadTooLate,
       PushCloseAction
  <2> QED
    BY <1>0, <2>1, <2>2
<1>2. CASE SettingsFail(t) \/ RepeatFails(t)
  <2>1. PICK answer \in {"rejected", "failed"} :
          raw' = [raw EXCEPT !["settings"] = RawOf(answer)]
    BY <1>2 DEF SettingsFail, RepeatFails
  <2>2. RawOf(answer) \in {"error", "none"}
    BY DEF RawOf
  <2>3. available' = available /\ stage[t] # "settings" /\ ~ available
        /\ UNCHANGED <<reporting, fetched, fetch, file, writeFailed>>
    BY <1>0, <1>2 DEF SettingsFail, RepeatFails
  <2> QED
    BY <1>0, <2>1, <2>2, <2>3
<1>3. CASE SettingsArrive(t) \/ RepeatArrives(t)
  BY <1>0, <1>3 DEF SettingsArrive, RepeatArrives
<1>4. CASE SettingsRequireGit(t)
  BY <1>0, <1>4 DEF SettingsRequireGit
<1> QED
  BY <1>1, <1>2, <1>3, <1>4 DEF EnsureSettings

(* Behind settingsOnce, threads move without touching settings or files;   *)
(* a thread that stores leaves its stage with nothing left to store.       *)
LateStep(t) ==
  \/ t = Main /\ (Decide \/ FeaturesKnown \/ FetchFeatures \/ FeaturesFetched \/ Report)
  \/ AllStored(t) \/ Lock(t) \/ Close(t)
LEMMA LateEffect ==
  ASSUME OnceInv, StoreInv, NEW t \in Threads, LateStep(t)
  PROVE  /\ UNCHANGED <<settingsVars, raw, file, writeFailed>>
         /\ BehindOnce(t) /\ writes[t] = <<>> /\ status = "running"
         /\ \E s \in LateStages :
              Goto(t, s) /\ (t = Handler => s \in {"store", "lock", "close", "flush"})
<1>1. BehindOnce(t) /\ writes[t] = <<>> /\ status = "running"
  BY DEF LateStep, Decide, FeaturesKnown, FetchFeatures, FeaturesFetched, Report, AllStored,
     Lock, Close, At, BehindOnce, EarlyStages, OnceStages, StoreInv
<1>2. UNCHANGED <<settingsVars, raw, file, writeFailed>>
  BY DEF LateStep, Decide, FeaturesKnown, FetchFeatures, FeaturesFetched, Report, AllStored,
     Lock, Close, OnlyThreadsMove, cacheVars
<1>3. CASE t = Main
  <2>1. \E s \in {"features", "skippables", "store", "fetching", "leave", "lock", "close",
                  "report"} : Goto(t, s)
    BY <1>3 DEF LateStep, Decide, FeaturesKnown, FetchFeatures, FeaturesFetched, Report,
       AllStored, Lock, Close, AfterFeatures
  <2>2. t # Handler
    BY <1>3 DEF Main, Handler
  <2>3. {"features", "skippables", "store", "fetching", "leave", "lock", "close", "report"}
          \subseteq LateStages
    BY DEF LateStages, Stages, EarlyStages, OnceStages
  <2> QED
    BY <1>1, <1>2, <2>1, <2>2, <2>3
<1>4. CASE t = Handler
  <2>1. AllStored(t) => \E s \in {"lock"} : Goto(t, s)
    BY <1>4 DEF AllStored, StoreInv
  <2>2. Lock(t) => \E s \in {"close"} : Goto(t, s)
    BY DEF Lock
  <2>3. Close(t) => \E s \in {"flush"} : Goto(t, s)
    BY <1>4 DEF Close, Main, Handler
  <2>4. AllStored(t) \/ Lock(t) \/ Close(t)
    BY <1>4 DEF LateStep, Main, Handler
  <2>5. \E s \in {"lock", "close", "flush"} : Goto(t, s)
    BY <2>1, <2>2, <2>3, <2>4
  <2>6. {"lock", "close", "flush"} \subseteq LateStages
    BY DEF LateStages, Stages, EarlyStages, OnceStages
  <2> QED
    BY <1>1, <1>2, <2>5, <2>6
<1> QED
  BY <1>3, <1>4 DEF Threads

(* One step of storing: the next file is truncated, or done with.          *)
StoreStep(t) == NothingToStore(t) \/ OpenFile(t) \/ WriteFile(t) \/ StoreFails(t)
LEMMA StoreEffect ==
  ASSUME StoreInv, NEW t \in Threads, StoreStep(t)
  PROVE  /\ UNCHANGED <<status, stage, reporting, settingsVars, uploadVars, fetchVars, raw>>
         /\ writes[t] \in Seq(Files) /\ writes[t] # <<>> /\ NextFile(t) \in Files
         /\ writeFailed' = writeFailed \/ writeFailed'
         /\ \/ /\ writes' = writes /\ opened' = [opened EXCEPT ![t] = TRUE]
               /\ file' = [file EXCEPT ![NextFile(t)] = "partial"]
            \/ /\ writes' = [writes EXCEPT ![t] = Tail(@)]
               /\ opened' = [opened EXCEPT ![t] = FALSE]
               /\ \/ file' = file /\ ~ opened[t] /\ raw[NextFile(t)] = "none"
                  \/ file' = [file EXCEPT ![NextFile(t)] = raw[NextFile(t)]]
                  \/ writeFailed' /\ file' = file
<1>1. writes[t] \in Seq(Files) /\ writes[t] # <<>> /\ NextFile(t) \in Files
  <2>1. writes[t] \in Seq(Files) /\ writes[t] # <<>>
    BY DEF StoreStep, NothingToStore, OpenFile, WriteFile, StoreFails, HasFile, StoreInv
  <2> QED
    BY <2>1, UnstoredTail DEF NextFile
<1>2. ~ opened[t] => opened = [opened EXCEPT ![t] = FALSE]
  BY DEF StoreInv
<1>3. UNCHANGED <<status, stage, reporting, settingsVars, uploadVars, fetchVars, raw>>
  BY DEF StoreStep, NothingToStore, OpenFile, WriteFile, StoreFails
<1>4. writeFailed' = writeFailed \/ writeFailed'
  BY DEF StoreStep, NothingToStore, OpenFile, WriteFile, StoreFails, cacheVars
<1>5. CASE NothingToStore(t)
  BY <1>1, <1>2, <1>3, <1>4, <1>5 DEF NothingToStore, Stored, cacheVars
<1>6. CASE OpenFile(t)
  BY <1>1, <1>3, <1>4, <1>6 DEF OpenFile
<1>7. CASE WriteFile(t)
  BY <1>1, <1>3, <1>4, <1>7 DEF WriteFile, Stored
<1>8. CASE StoreFails(t)
  BY <1>1, <1>3, <1>4, <1>8 DEF StoreFails, Stored
<1> QED
  BY <1>5, <1>6, <1>7, <1>8 DEF StoreStep

(* The steps of the program, by what they change.                          *)
LEMMA NextCases ==
  ASSUME [Next]_vars
  PROVE  \/ Initialize \/ Signal \/ UploadEnds
         \/ \E f \in Features : FeatureAnswered(f)
         \/ \E t \in Threads : EnsureSettings(t)
         \/ \E t \in Threads : LateStep(t)
         \/ \E t \in Threads : StoreStep(t)
         \/ Leave \/ TornRead \/ ExitOnSignal
         \/ UNCHANGED vars
BY DEF Next, Step, StoreFiles, StoreStep, LateStep, Threads

(* Nothing that the invariants on files read changes.                      *)
LEMMA StoreStandstill ==
  ASSUME StoreInv, UNCHANGED <<stage, writes, opened, raw, file, available>>
  PROVE  StoreInv'
BY DEF StoreInv

(* A thread that has nothing to store moves.                               *)
LEMMA StoreMove ==
  ASSUME OnceInv, StoreInv, NEW t \in Threads, NEW s \in Stages \ {"none", "initialize"},
         Goto(t, s), stage[t] # "none", writes[t] = <<>>, file' = file,
         t = Handler => s # "skippables",
         raw' \in [Files -> {"none", "git", "data", "error"}],
         available' => raw'["settings"] = "data",
         s = "repeat" => ~ available',
         available' = available \/ InOnce(t)
  PROVE  StoreInv'
<1>1. /\ stage' \in [Threads -> Stages] /\ stage'[t] = s
      /\ writes' \in [Threads -> Seq(Files)] /\ writes'[t] = StoredAt(s)
      /\ \A u \in Threads : u # t => stage'[u] = stage[u] /\ writes'[u] = writes[u]
      /\ opened' = opened
  BY MoveEffect
<1>2. \A u \in Threads : writes'[u] # <<>> => stage'[u] \in {"store", "skippables"}
  BY <1>1, StoredAtStages DEF StoreInv
<1>3. \A u \in Threads : opened'[u] => writes'[u] # <<>>
  BY <1>1 DEF StoreInv
<1>4. \A u \in Threads : stage'[u] = "repeat" => ~ available'
  <2> SUFFICES ASSUME NEW u \in Threads, u # t, stage[u] = "repeat" PROVE ~ available'
    BY <1>1
  <2>1. InOnce(u)
    BY DEF InOnce, OnceStages
  <2>2. ~ InOnce(t)
    BY <2>1 DEF OnceInv
  <2> QED
    BY <2>2 DEF StoreInv
<1>5. stage'[Main] = "initialize" => stage'[Handler] = "none"
  BY <1>1 DEF StoreInv, Threads, Main, Handler
<1>6. stage'[Handler] # "skippables"
  BY <1>1 DEF StoreInv, Threads
<1> QED
  BY <1>1, <1>2, <1>3, <1>4, <1>5, <1>6 DEF StoreInv

(* Every step keeps the order of storing and the raw response of settings. *)
LEMMA StoreNext == OnceInv /\ StoreInv /\ [Next]_vars => StoreInv'
<1> SUFFICES ASSUME OnceInv, StoreInv, [Next]_vars PROVE StoreInv'
  OBVIOUS
<1>1. CASE Initialize
  <2>1. /\ stage' = [t \in Threads |-> IF t = Main THEN "settings" ELSE "idle"]
        /\ UNCHANGED <<writes, opened, raw, file, available>>
    BY <1>1 DEF Initialize, settingsVars, cacheVars
  <2>2. stage[Main] = "initialize" /\ stage[Handler] = "none"
    BY <1>1 DEF Initialize, At, StoreInv
  <2>3. \A t \in Threads : writes[t] = <<>>
    BY <2>2 DEF StoreInv, Threads
  <2> QED
    BY <2>1, <2>3 DEF StoreInv, Threads, Main, Handler
<1>2. CASE Signal
  <2>1. /\ \E s \in {"settings"} : Goto(Handler, s)
        /\ stage[Handler] = "idle" /\ UNCHANGED <<raw, file, available>>
    BY <1>2 DEF Signal, At, OnlyThreadsMove, settingsVars, cacheVars
  <2>2. writes[Handler] = <<>> /\ Handler \in Threads
    BY <2>1 DEF StoreInv, Threads
  <2> QED
    BY <2>1, <2>2, StoreMove DEF StoreInv, Stages
<1>3. CASE UploadEnds
  BY <1>3, StoreStandstill DEF UploadEnds, threadVars, settingsVars, cacheVars
<1>4. ASSUME NEW f \in Features, FeatureAnswered(f) PROVE StoreInv'
  <2>1. PICK answer \in {"data", "rejected", "failed"} :
          raw' = [raw EXCEPT ![f] = IF answer = "data" THEN "data"
                                    ELSE IF f = "known" THEN "none" ELSE RawOf(answer)]
    BY <1>4 DEF FeatureAnswered
  <2>2. RawOf(answer) \in {"none", "error"} /\ f \in Files /\ f # "settings" /\ "settings" \in Files
    BY DEF RawOf, Files, Features
  <2>3. UNCHANGED <<stage, writes, opened, file, available>>
    BY <1>4 DEF FeatureAnswered, threadVars, settingsVars, cacheVars
  <2> QED
    BY <2>1, <2>2, <2>3 DEF StoreInv
<1>5. ASSUME NEW t \in Threads, EnsureSettings(t) PROVE StoreInv'
  <2>1. PICK s \in OnceStages \cup {"decide", "store"} :
          Goto(t, s) /\ (s = "store" => t = Handler) /\ (s = "repeat" => ~ available')
    BY <1>5, EnsureMoves
  <2>2. /\ stage[t] \in OnceStages \cup {"settings"}
        /\ file' = file /\ raw' \in [Files -> {"none", "git", "data", "error"}]
        /\ available' => raw'["settings"] = "data"
        /\ stage[t] = "settings" => available' = available
    BY <1>5, EnsureMoves, EnsureKeeps
  <2>3. writes[t] = <<>> /\ stage[t] # "none" /\ (available' = available \/ InOnce(t))
    BY <2>2 DEF StoreInv, OnceStages, InOnce
  <2>4. s \in Stages \ {"none", "initialize"} /\ s # "skippables"
    BY DEF Stages, OnceStages
  <2> QED
    BY <2>1, <2>2, <2>3, <2>4, StoreMove
<1>6. ASSUME NEW t \in Threads, LateStep(t) PROVE StoreInv'
  <2>1. PICK s \in LateStages :
          Goto(t, s) /\ (t = Handler => s \in {"store", "lock", "close", "flush"})
    BY <1>6, LateEffect
  <2>2. /\ UNCHANGED <<available, raw, file>>
        /\ BehindOnce(t) /\ writes[t] = <<>>
    BY <1>6, LateEffect DEF settingsVars
  <2>3. stage[t] # "none" /\ s \in Stages \ {"none", "initialize"} /\ s # "repeat"
    BY <2>2 DEF BehindOnce, EarlyStages, LateStages, OnceStages
  <2>4. t = Handler => s # "skippables"
    BY <2>1
  <2> QED
    BY <2>1, <2>2, <2>3, <2>4, StoreMove DEF StoreInv
<1>7. ASSUME NEW t \in Threads, StoreStep(t) PROVE StoreInv'
  <2>1. /\ UNCHANGED <<stage, available, raw>>
        /\ writes[t] \in Seq(Files) /\ writes[t] # <<>> /\ NextFile(t) \in Files
        /\ DOMAIN file' = DOMAIN file
    BY <1>7, StoreEffect DEF settingsVars
  <2>2. CASE writes' = writes /\ opened' = [opened EXCEPT ![t] = TRUE]
    BY <2>1, <2>2 DEF StoreInv
  <2>3. CASE writes' = [writes EXCEPT ![t] = Tail(@)] /\ opened' = [opened EXCEPT ![t] = FALSE]
    <3>1. Tail(writes[t]) \in Seq(Files)
      BY <2>1, UnstoredTail
    <3> QED
      BY <2>1, <2>3, <3>1 DEF StoreInv
  <2> QED
    BY <1>7, <2>2, <2>3, StoreEffect
<1>8. CASE Leave \/ TornRead \/ ExitOnSignal
  BY <1>8, StoreStandstill DEF Leave, TornRead, ExitOnSignal, settingsVars, cacheVars
<1>9. CASE UNCHANGED vars
  BY <1>9, StoreStandstill DEF vars, threadVars, settingsVars, cacheVars
<1> QED
  BY <1>1, <1>2, <1>3, <1>4, <1>5, <1>6, <1>7, <1>8, <1>9, NextCases

(* A step that neither asks for features nor is answered.                  *)
DecidedStages == StoreStages \cup {"skippables"}
LEMMA FetchMove ==
  ASSUME FetchInv, UNCHANGED <<reporting, fetched, fetch>>,
         \A f \in Features : raw'[f] = raw[f],
         once = "done" => once' = "done" /\ enabled' = enabled,
         enabled' = enabled \/ (stage'[Main] \notin DecidedStages /\ ~ reporting),
         stage[Main] = "fetching" <=> stage'[Main] = "fetching",
         stage'[Main] \in DecidedStages => stage[Main] \in DecidedStages \/ ~ Asked
  PROVE  FetchInv'
BY DEF FetchInv, Asked, DecidedStages

(* The features are asked for by the planner once it has decided to.       *)
LEMMA FetchNext ==
  OnceInv /\ AwaitInv /\ StoreInv /\ FetchInv /\ [Next]_vars => FetchInv'
<1> SUFFICES ASSUME OnceInv, AwaitInv, StoreInv, FetchInv, [Next]_vars PROVE FetchInv'
  OBVIOUS
<1>0. Main \in Threads /\ Handler \in Threads /\ Main # Handler
      /\ DecidedStages \subseteq LateStages /\ "fetching" \in LateStages
  BY DEF Threads, Main, Handler, DecidedStages, StoreStages, LateStages, Stages, EarlyStages,
     OnceStages
<1>1. CASE Initialize
  <2>1. stage[Main] = "initialize" /\ stage'[Main] = "settings"
        /\ UNCHANGED <<reporting, fetched, fetch, raw, enabled, once>>
    BY <1>0, <1>1 DEF Initialize, At, settingsVars, fetchVars
  <2> QED
    BY <1>0, <2>1, FetchMove DEF LateStages, EarlyStages
<1>2. CASE Signal
  <2>1. \E s \in {"settings"} : Goto(Handler, s)
    BY <1>2 DEF Signal
  <2>2. stage'[Main] = stage[Main]
    BY <1>0, <2>1, GotoEffect DEF OnceInv, Stages
  <2> QED
    BY <1>2, <2>2, FetchMove DEF Signal, OnlyThreadsMove, settingsVars, fetchVars
<1>3. CASE UploadEnds
  BY <1>3, FetchMove DEF UploadEnds, threadVars, settingsVars, fetchVars
<1>4. ASSUME NEW f \in Features, FeatureAnswered(f) PROVE FetchInv'
  <2>1. PICK answer \in {"data", "rejected", "failed"} :
          /\ fetch' = [fetch EXCEPT ![f] = answer]
          /\ raw' = [raw EXCEPT ![f] = IF answer = "data" THEN "data"
                                       ELSE IF f = "known" THEN "none" ELSE RawOf(answer)]
    BY <1>4 DEF FeatureAnswered
  <2>2. UNCHANGED <<stage, reporting, once, enabled, fetched>> /\ Features \subseteq Files
        /\ fetch[f] = "running"
    BY <1>4 DEF FeatureAnswered, threadVars, settingsVars, Files
  <2> QED
    BY <2>1, <2>2 DEF FetchInv, Asked, StoreInv
<1>5. ASSUME NEW t \in Threads, EnsureSettings(t) PROVE FetchInv'
  <2>1. PICK s \in OnceStages \cup {"decide", "store"} :
          Goto(t, s) /\ (s = "store" => t = Handler)
    BY <1>5, EnsureMoves
  <2>2. /\ stage[t] \in OnceStages \cup {"settings"}
        /\ UNCHANGED <<reporting, fetched, fetch>> /\ \A f \in Features : raw'[f] = raw[f]
        /\ stage[t] = "settings" => enabled' = enabled
    BY <1>5, EnsureMoves, EnsureKeeps
  <2>3. stage'[t] = s /\ \A u \in Threads : u # t => stage'[u] = stage[u]
    BY <2>1, GotoEffect DEF OnceInv, Stages, OnceStages
  <2>4. (OnceStages \cup {"settings", "decide"}) \cap (DecidedStages \cup {"fetching"}) = {}
    BY DEF OnceStages, DecidedStages, StoreStages
  <2>5. InOnce(t) => ~ reporting /\ stage[Main] \notin DecidedStages
    BY <1>0 DEF OnceInv, AwaitInv, BehindOnce, LateStages
  <2>6. t = Main => s # "store" /\ stage[Main] \notin DecidedStages \cup {"fetching"}
                    /\ stage'[Main] \notin DecidedStages \cup {"fetching"}
    BY <1>0, <2>1, <2>2, <2>3, <2>4
  <2>7. t # Main => stage'[Main] = stage[Main]
    BY <1>0, <2>3
  <2>8. enabled' = enabled \/ InOnce(t)
    BY <2>2 DEF InOnce
  <2>9. enabled' = enabled \/ (stage'[Main] \notin DecidedStages /\ ~ reporting)
    BY <2>5, <2>6, <2>7, <2>8
  <2>10. once = "done" => once' = "done" /\ enabled' = enabled
    <3> SUFFICES ASSUME once = "done" PROVE once' = "done" /\ enabled' = enabled
      OBVIOUS
    <3>1. stage[t] = "settings"
      BY <2>2 DEF OnceInv, InOnce
    <3>2. SettingsKnown(t)
      BY <1>5, <3>1 DEF EnsureSettings, NoTransport, StartSettings, SettingsFail,
         SettingsArrive, SettingsRequireGit, UploadArrived, UploadTooLate, RepeatArrives,
         RepeatFails, PushCloseAction, At
    <3> QED
      BY <3>2 DEF SettingsKnown, OnlyThreadsMove, settingsVars
  <2> QED
    BY <2>2, <2>6, <2>7, <2>9, <2>10, FetchMove
<1>6. ASSUME NEW t \in Threads, LateStep(t) PROVE FetchInv'
  <2>1. UNCHANGED <<once, enabled, raw>> /\ BehindOnce(t)
    BY <1>6, LateEffect DEF settingsVars
  <2>2. PICK s \in LateStages : Goto(t, s)
    BY <1>6, LateEffect
  <2>3. stage'[t] = s /\ \A u \in Threads : u # t => stage'[u] = stage[u]
    BY <2>2, GotoEffect DEF OnceInv, LateStages
  <2>4. CASE AllStored(t) \/ Lock(t) \/ Close(t)
    <3>1. UNCHANGED <<reporting, fetched, fetch>>
      BY <2>4 DEF AllStored, Lock, Close, OnlyThreadsMove, fetchVars
    <3>2. t = Main => stage[Main] \in DecidedStages
      BY <2>4 DEF AllStored, Lock, Close, At, DecidedStages, StoreStages
    <3>3. t = Main => \E u \in {"lock", "leave", "store", "close", "report"} : Goto(t, u)
      BY <2>4 DEF AllStored, Lock, Close
    <3>4. {"lock", "leave", "store", "close", "report"} \subseteq Stages
      BY DEF Stages
    <3>5. t = Main => stage'[Main] \in {"lock", "leave", "store", "close", "report"}
      BY <3>3, <3>4, GotoEffect DEF OnceInv
    <3>6. "fetching" \notin DecidedStages
      BY DEF DecidedStages, StoreStages
    <3>7. t = Main => stage[Main] # "fetching" /\ stage'[Main] # "fetching"
      BY <3>2, <3>5, <3>6
    <3>8. t # Main => stage'[Main] = stage[Main]
      BY <1>0, <2>3
    <3> QED
      BY <2>1, <3>1, <3>2, <3>7, <3>8, FetchMove
  <2>5. CASE Decide
    <3>1. /\ Goto(Main, IF Asked THEN "features" ELSE "store") /\ stage[Main] = "decide"
          /\ UNCHANGED <<reporting, fetched, fetch>>
      BY <2>5 DEF Decide, At, OnlyThreadsMove, fetchVars, Asked
    <3>2. stage'[Main] = IF Asked THEN "features" ELSE "store"
      BY <1>0, <3>1, GotoEffect DEF OnceInv, Stages
    <3> QED
      BY <2>1, <3>1, <3>2, FetchMove DEF DecidedStages, StoreStages
  <2>6. CASE FeaturesKnown \/ FeaturesFetched
    <3>1. fetched' = TRUE /\ UNCHANGED <<reporting, fetch>>
          /\ \E u \in {"skippables", "store"} : Goto(Main, u)
      BY <2>6 DEF FeaturesKnown, FeaturesFetched, AfterFeatures
    <3>2. stage'[Main] \in {"skippables", "store"}
      BY <1>0, <3>1, GotoEffect DEF OnceInv, Stages
    <3>3. \A f \in Features : fetch[f] # "running"
      BY <2>6 DEF FeaturesKnown, FeaturesFetched, At, FetchInv
    <3> QED
      BY <2>1, <3>1, <3>2, <3>3 DEF FetchInv
  <2>7. CASE FetchFeatures
    <3>1. /\ fetch' = [f \in Features |-> IF f \in enabled THEN "running" ELSE "off"]
          /\ UNCHANGED <<reporting, fetched>> /\ ~ fetched /\ \E u \in {"fetching"} : Goto(Main, u)
      BY <2>7 DEF FetchFeatures
    <3>2. stage'[Main] = "fetching"
      BY <1>0, <3>1, GotoEffect DEF OnceInv, Stages
    <3> QED
      BY <1>0, <2>1, <3>1, <3>2 DEF FetchInv, Asked, StoreStages, OnceInv, BehindOnce,
         LateStages
  <2>8. CASE Report
    <3>1. stage[Main] = "report" /\ UNCHANGED <<fetched, fetch>>
          /\ \E u \in {"features", "leave"} : Goto(Main, u)
      BY <2>8 DEF Report, At, fetchVars
    <3>2. stage'[Main] \in {"features", "leave"}
      BY <1>0, <3>1, GotoEffect DEF OnceInv, Stages
    <3> QED
      BY <2>1, <3>1, <3>2 DEF FetchInv, Asked, StoreStages
  <2> QED
    BY <1>6, <2>4, <2>5, <2>6, <2>7, <2>8 DEF LateStep
<1>7. ASSUME NEW t \in Threads, StoreStep(t) PROVE FetchInv'
  BY <1>7, StoreEffect, FetchMove DEF settingsVars, fetchVars
<1>8. CASE Leave \/ TornRead \/ ExitOnSignal
  BY <1>8, FetchMove DEF Leave, TornRead, ExitOnSignal, settingsVars, fetchVars
<1>9. CASE UNCHANGED vars
  BY <1>9, FetchMove DEF vars, threadVars, settingsVars, fetchVars
<1> QED
  BY <1>1, <1>2, <1>3, <1>4, <1>5, <1>6, <1>7, <1>8, <1>9, NextCases

(* What a thread that enters a stage finds to store.                       *)
LEMMA UnstoredAtStages ==
  ASSUME NEW t \in Threads, NEW s, writes'[t] = StoredAt(s)
  PROVE  /\ s = "store" => {"settings", "known", "management"} \subseteq Unstored(t)'
         /\ s = "skippables" => "skippable" \in Unstored(t)'
<1>1. CASE s = "store"
  <2>1. /\ Len(writes'[t]) = 3 /\ writes'[t][1] = "settings" /\ writes'[t][2] = "known"
        /\ writes'[t][3] = "management"
    BY <1>1 DEF StoredAt
  <2>2. 1 \in 1 .. Len(writes'[t]) /\ 2 \in 1 .. Len(writes'[t]) /\ 3 \in 1 .. Len(writes'[t])
    BY <2>1
  <2> QED
    BY <1>1, <2>1, <2>2 DEF Unstored
<1>2. CASE s = "skippables"
  <2>1. Len(writes'[t]) = 1 /\ writes'[t][1] = "skippable"
    BY <1>2 DEF StoredAt
  <2>2. 1 \in 1 .. Len(writes'[t])
    BY <2>1
  <2> QED
    BY <1>2, <2>1, <2>2 DEF Unstored
<1> QED
  BY <1>1, <1>2

(* What is stored is dealt with; what comes after it still has to be.      *)
LEMMA UnstoredAfter ==
  ASSUME NEW t \in Threads, writes[t] \in Seq(Files), writes[t] # <<>>
  PROVE  /\ NextFile(t) \in Unstored(t)
         /\ writes'[t] = Tail(writes[t]) =>
              \A f \in Unstored(t) : f = NextFile(t) \/ f \in Unstored(t)'
<1>1. NextFile(t) \in Unstored(t)
  <2>1. 1 \in 1 .. Len(writes[t]) /\ Head(writes[t]) = writes[t][1]
    OBVIOUS
  <2> QED
    BY <2>1 DEF NextFile, Unstored
<1>2. ASSUME writes'[t] = Tail(writes[t]), NEW f \in Unstored(t)
      PROVE  f = NextFile(t) \/ f \in Unstored(t)'
  <2>1. PICK i \in 1 .. Len(writes[t]) : writes[t][i] = f
    BY DEF Unstored
  <2> QED
    BY <1>2, <2>1, UnstoredTail DEF Unstored, NextFile
<1> QED
  BY <1>1, <1>2

Calm == ~ Signalled /\ ~ writeFailed

(* The planner moves when it has nothing to store; what becomes due is     *)
(* among the files it is to store then.                                    *)
LEMMA CalmMove ==
  ASSUME StoreInv, CalmInv, Calm, writes[Main] = <<>>, UNCHANGED <<opened, file>>,
         \A f \in Files : Due(f)' => \/ Due(f) /\ raw'[f] = raw[f]
                                     \/ f \in Unstored(Main)'
  PROVE  CalmInv'
<1>1. Unstored(Main) = {} /\ ~ opened[Main]
  BY DEF Unstored, StoreInv, Threads
<1>2. \A f \in Files : file'[f] # "partial"
  BY <1>1 DEF CalmInv, Calm
<1>3. \A f \in Files : Due(f)' => UpToDate(f)' \/ f \in Unstored(Main)'
  BY <1>1 DEF CalmInv, Calm, UpToDate
<1> QED
  BY <1>2, <1>3 DEF CalmInv

(* The planner behind settingsOnce: what becomes due, it has to store.     *)
LEMMA CalmLate ==
  ASSUME OnceInv, StoreInv, CalmInv, Calm, LateStep(Main)
  PROVE  CalmInv'
<1>1. UNCHANGED <<enabled, raw, file>> /\ writes[Main] = <<>> /\ Main \in Threads
  BY LateEffect DEF settingsVars, Threads
<1>2. PICK s \in LateStages : Goto(Main, s)
  BY <1>1, LateEffect
<1>3. /\ stage'[Main] = s /\ writes'[Main] = StoredAt(s) /\ opened' = opened
  BY <1>1, <1>2, MoveEffect DEF LateStages
<1>4. /\ s = "store" => {"settings", "known", "management"} \subseteq Unstored(Main)'
      /\ s = "skippables" => "skippable" \in Unstored(Main)'
  BY <1>1, <1>3, UnstoredAtStages
<1>5. \A u \in Stages : Goto(Main, u) => s = u
  BY <1>1, <1>3, GotoEffect DEF OnceInv
<1>6. Asked' = Asked
  BY <1>1 DEF Asked
<1> SUFFICES ASSUME NEW f \in Files, Due(f)' PROVE Due(f) \/ f \in Unstored(Main)'
  BY <1>1, <1>3, CalmMove
<1>7. CASE Decide
  <2>1. reporting' = reporting /\ s = IF Asked THEN "features" ELSE "store"
    BY <1>5, <1>7 DEF Decide, OnlyThreadsMove, Asked, Stages
  <2>2. CASE reporting
    BY <1>1, <1>6, <2>1, <2>2 DEF Due
  <2>3. CASE ~ reporting
    BY <1>1, <1>3, <1>4, <1>6, <2>1, <2>3 DEF Due, StoreStages, Files
  <2> QED
    BY <2>2, <2>3
<1>8. CASE FeaturesKnown \/ FeaturesFetched
  <2>1. reporting' = reporting
        /\ Goto(Main, IF reporting \/ "tia" \in enabled THEN "skippables" ELSE "store")
    BY <1>8 DEF FeaturesKnown, FeaturesFetched, AfterFeatures
  <2>2. s = IF reporting \/ "tia" \in enabled THEN "skippables" ELSE "store"
    BY <1>5, <2>1 DEF Stages
  <2>3. CASE reporting
    BY <1>1, <1>6, <2>1, <2>3 DEF Due
  <2>4. CASE ~ reporting
    BY <1>1, <1>3, <1>4, <1>6, <2>1, <2>2, <2>4 DEF Due, StoreStages, Files, Features
  <2> QED
    BY <2>3, <2>4
<1>9. CASE FetchFeatures
  <2>1. reporting' = reporting /\ Goto(Main, "fetching")
    BY <1>9 DEF FetchFeatures
  <2>2. s = "fetching"
    BY <1>5, <2>1 DEF Stages
  <2> QED
    BY <1>1, <1>3, <1>6, <2>1, <2>2 DEF Due, StoreStages
<1>10. CASE Report
  BY <1>1, <1>6, <1>10 DEF Due, StoreStages, Report, At
<1>11. CASE AllStored(Main)
  <2>1. /\ reporting' = reporting /\ stage[Main] \in {"store", "skippables"}
        /\ Goto(Main, IF stage[Main] = "store" THEN "lock"
                      ELSE IF reporting THEN "leave" ELSE "store")
    BY <1>11 DEF AllStored, OnlyThreadsMove
  <2>2. s = IF stage[Main] = "store" THEN "lock" ELSE IF reporting THEN "leave" ELSE "store"
    BY <1>5, <2>1 DEF Stages
  <2>3. CASE stage[Main] = "store" \/ reporting
    BY <1>1, <1>6, <2>1, <2>3 DEF Due, StoreStages
  <2>4. CASE stage[Main] = "skippables" /\ ~ reporting
    <3>1. CASE f = "skippable"
      BY <1>1, <1>6, <2>4, <3>1 DEF Due
    <3>2. CASE f # "skippable"
      BY <1>4, <2>2, <2>4, <3>2 DEF Files, Features
    <3> QED
      BY <3>1, <3>2
  <2> QED
    BY <2>1, <2>3, <2>4
<1>12. CASE Lock(Main) \/ Close(Main)
  <2>1. reporting' = reporting /\ stage[Main] \in StoreStages
    BY <1>12 DEF Lock, Close, At, StoreStages
  <2> QED
    BY <1>1, <1>6, <2>1 DEF Due
<1> QED
  BY <1>7, <1>8, <1>9, <1>10, <1>11, <1>12 DEF LateStep

(* The planner stores a file.                                              *)
LEMMA CalmStore ==
  ASSUME StoreInv, CalmInv, Calm, StoreStep(Main), ~ writeFailed'
  PROVE  CalmInv'
<1>1. /\ UNCHANGED <<stage, reporting, enabled, raw>> /\ Main \in Threads
      /\ writes[Main] \in Seq(Files) /\ writes[Main] # <<>> /\ NextFile(Main) \in Files
  BY StoreEffect DEF settingsVars, Threads
<1>2. \A f \in Files : Due(f)' = Due(f)
  BY <1>1 DEF Due, Asked
<1>3. /\ NextFile(Main) \in Unstored(Main)
      /\ writes'[Main] = Tail(writes[Main]) =>
           \A f \in Unstored(Main) : f = NextFile(Main) \/ f \in Unstored(Main)'
  BY <1>1, UnstoredAfter
<1>4. /\ \A f \in Files : file[f] = "partial" => opened[Main] /\ NextFile(Main) = f
      /\ \A f \in Files : Due(f) => UpToDate(f) \/ f \in Unstored(Main)
  BY DEF CalmInv, Calm
<1>5. DOMAIN file = Files /\ opened \in [Threads -> BOOLEAN] /\ writes \in [Threads -> Seq(Files)]
      /\ \A f \in Files : raw[f] # "partial"
  BY DEF StoreInv
<1>6. CASE /\ writes' = writes /\ opened' = [opened EXCEPT ![Main] = TRUE]
           /\ file' = [file EXCEPT ![NextFile(Main)] = "partial"]
  <2>1. NextFile(Main)' = NextFile(Main) /\ Unstored(Main)' = Unstored(Main) /\ opened'[Main]
    BY <1>1, <1>5, <1>6 DEF NextFile, Unstored
  <2> QED
    BY <1>1, <1>2, <1>3, <1>4, <1>5, <1>6, <2>1 DEF CalmInv, UpToDate
<1>7. CASE /\ writes' = [writes EXCEPT ![Main] = Tail(@)]
           /\ \/ file' = file /\ ~ opened[Main] /\ raw[NextFile(Main)] = "none"
              \/ file' = [file EXCEPT ![NextFile(Main)] = raw[NextFile(Main)]]
  <2>1. writes'[Main] = Tail(writes[Main])
    BY <1>1, <1>5, <1>7
  <2>2. \A f \in Files : f = NextFile(Main) => UpToDate(f)'
    BY <1>1, <1>5, <1>7 DEF UpToDate
  <2>3. \A f \in Files : f # NextFile(Main) => file'[f] = file[f]
    BY <1>1, <1>5, <1>7
  <2>4. \A f \in Files : file'[f] # "partial"
    BY <1>1, <1>4, <1>5, <1>7, <2>3
  <2>5. \A f \in Files : Due(f)' => UpToDate(f)' \/ f \in Unstored(Main)'
    <3> SUFFICES ASSUME NEW f \in Files, Due(f)', f # NextFile(Main)
                 PROVE  UpToDate(f)' \/ f \in Unstored(Main)'
      BY <2>2
    <3>1. UpToDate(f) => UpToDate(f)'
      BY <1>1, <2>3 DEF UpToDate
    <3> QED
      BY <1>2, <1>3, <1>4, <2>1, <3>1
  <2> QED
    BY <2>4, <2>5 DEF CalmInv
<1> QED
  BY <1>1, <1>6, <1>7, StoreEffect

(* Without signals and refusals, the planner's cache is what is due.       *)
LEMMA CalmNext ==
  OnceInv /\ AwaitInv /\ StoreInv /\ FetchInv /\ CalmInv /\ [Next]_vars => CalmInv'
<1> SUFFICES ASSUME OnceInv, AwaitInv, StoreInv, FetchInv, CalmInv, [Next]_vars, Calm'
             PROVE  CalmInv'
  BY DEF CalmInv, Calm
<1>0. Main \in Threads /\ Handler \in Threads /\ Main # Handler
  BY DEF Threads, Main, Handler
<1>a. ASSUME NEW t \in Threads, NEW s \in Stages \ {"none", "idle"}, Goto(t, s)
      PROVE  t = Main /\ stage'[Handler] = stage[Handler] /\ stage'[Main] = s
  <2>1. stage'[t] = s /\ \A u \in Threads : u # t => stage'[u] = stage[u]
    BY <1>a, GotoEffect DEF OnceInv
  <2>2. t # Handler
    BY <2>1 DEF Calm, Signalled
  <2> QED
    BY <1>0, <2>1, <2>2 DEF Threads
<1>b. ASSUME UNCHANGED <<stage, writes, opened, reporting, enabled, raw, file, writeFailed>>
      PROVE  CalmInv'
  BY <1>b DEF CalmInv, Signalled, NextFile, Due, Asked, UpToDate, Unstored
<1>c. stage'[Handler] = stage[Handler] /\ writeFailed' = writeFailed => Calm
  BY DEF Calm, Signalled
<1>1. CASE Initialize
  <2>1. stage[Main] = "initialize" /\ stage'[Main] = "settings" /\ stage[Handler] = "none"
        /\ UNCHANGED <<writes, opened, reporting, enabled, raw, file, writeFailed>>
    BY <1>0, <1>1 DEF Initialize, At, settingsVars, cacheVars, StoreInv
  <2>2. Calm /\ writes[Main] = <<>>
    BY <1>0, <2>1 DEF Calm, Signalled, StoreInv
  <2>3. \A f \in Files : Due(f)' => Due(f)
    BY <2>1 DEF Due, Asked, StoreStages
  <2> QED
    BY <2>1, <2>2, <2>3, CalmMove
<1>2. CASE Signal
  <2>1. \E s \in {"settings"} : Goto(Handler, s)
    BY <1>2 DEF Signal
  <2> QED
    BY <1>0, <1>a, <2>1 DEF Stages
<1>3. CASE UploadEnds
  BY <1>3, <1>b DEF UploadEnds, threadVars, settingsVars, cacheVars
<1>4. ASSUME NEW f \in Features, FeatureAnswered(f) PROVE CalmInv'
  <2>1. /\ UNCHANGED <<stage, writes, opened, reporting, enabled, file, writeFailed>>
        /\ \A g \in Files : g # f => raw'[g] = raw[g]
    BY <1>4 DEF FeatureAnswered, threadVars, settingsVars, cacheVars, StoreInv
  <2>2. fetch[f] = "running"
    BY <1>4 DEF FeatureAnswered
  <2>3. ~ Due(f)
    BY <2>2 DEF Due, FetchInv, StoreStages
  <2>4. Calm /\ \A g \in Files : Due(g)' = Due(g)
    BY <1>c, <2>1 DEF Due, Asked
  <2>5. \A g \in Files : Due(g)' => UpToDate(g)' \/ g \in Unstored(Main)'
    BY <2>1, <2>3, <2>4 DEF CalmInv, Calm, UpToDate, Unstored
  <2> QED
    BY <2>1, <2>4, <2>5 DEF CalmInv, Calm, NextFile
<1>5. ASSUME NEW t \in Threads, EnsureSettings(t) PROVE CalmInv'
  <2>1. PICK s \in OnceStages \cup {"decide", "store"} :
          Goto(t, s) /\ (s = "store" => t = Handler)
    BY <1>5, EnsureMoves
  <2>2. s \in Stages \ {"none", "idle"}
    BY DEF OnceStages, Stages
  <2>3. t = Main /\ stage'[Handler] = stage[Handler] /\ stage'[Main] = s
    BY <1>a, <2>1, <2>2
  <2>4. /\ stage[Main] \in OnceStages \cup {"settings"}
        /\ UNCHANGED <<reporting, file, writeFailed>>
        /\ stage[Main] = "settings" => UNCHANGED <<raw, enabled>>
    BY <1>5, <2>3, EnsureMoves, EnsureKeeps
  <2>5. writes[Main] = <<>> /\ opened' = opened
    BY <1>0, <2>1, <2>2, <2>4, MoveEffect DEF StoreInv, OnceStages
  <2>6. s \notin StoreStages \cup {"skippables"}
    BY <1>0, <2>1, <2>3 DEF OnceStages, StoreStages
  <2>7. reporting => UNCHANGED <<raw, enabled>>
    BY <1>0, <2>4 DEF OnceInv, AwaitInv, InOnce
  <2>8. \A f \in Files : Due(f)' => Due(f) /\ raw'[f] = raw[f]
    BY <2>3, <2>4, <2>6, <2>7 DEF Due, Asked
  <2> QED
    BY <1>c, <2>3, <2>4, <2>5, <2>8, CalmMove
<1>6. ASSUME NEW t \in Threads, LateStep(t) PROVE CalmInv'
  <2>1. \E s \in LateStages : Goto(t, s)
    BY <1>6, LateEffect
  <2>2. t = Main /\ stage'[Handler] = stage[Handler]
    BY <1>a, <2>1 DEF LateStages, EarlyStages
  <2>3. writeFailed' = writeFailed
    BY <1>6, LateEffect
  <2> QED
    BY <1>6, <1>c, <2>2, <2>3, CalmLate
<1>7. ASSUME NEW t \in Threads, StoreStep(t) PROVE CalmInv'
  <2>1. stage' = stage /\ writes[t] # <<>>
    BY <1>7, StoreEffect
  <2>2. t # Handler
    BY <2>1 DEF StoreInv, Calm, Signalled
  <2>3. writeFailed' = writeFailed
    BY <1>7 DEF StoreStep, NothingToStore, OpenFile, WriteFile, StoreFails, cacheVars, Calm
  <2> QED
    BY <1>7, <1>c, <2>1, <2>2, <2>3, CalmStore DEF Threads, Calm
<1>8. CASE Leave \/ TornRead \/ ExitOnSignal
  BY <1>8, <1>b DEF Leave, TornRead, ExitOnSignal, settingsVars, cacheVars
<1>9. CASE UNCHANGED vars
  BY <1>9, <1>b DEF vars, threadVars, settingsVars, cacheVars
<1> QED
  BY <1>1, <1>2, <1>3, <1>4, <1>5, <1>6, <1>7, <1>8, <1>9, NextCases

(* The stages in which the handler stores the settings and after.          *)
HandlerStages == {"store", "lock", "close", "flush"}

(* A step that does not store: the handler enters its stages with the      *)
(* settings to store, and nothing it relies on changes behind it.          *)
LEMMA SignalMove ==
  ASSUME SignalInv, UNCHANGED <<file, writeFailed>>,
         opened'[Main] = opened[Main], opened[Main] => NextFile(Main)' = NextFile(Main),
         \/ stage'[Handler] \notin HandlerStages
         \/ "settings" \in Unstored(Handler)'
         \/ stage[Handler] \in HandlerStages /\ available' = available
              /\ Unstored(Handler) \subseteq Unstored(Handler)'
  PROVE  SignalInv'
BY DEF SignalInv, HandlerStages

(* A thread stores a file.                                                 *)
LEMMA SignalStore ==
  ASSUME StoreInv, SignalInv, NEW t \in Threads, StoreStep(t)
  PROVE  SignalInv'
<1>0. Main \in Threads /\ Handler \in Threads /\ Main # Handler
      /\ \A u \in Threads : u = Main \/ u = Handler
  BY DEF Threads, Main, Handler
<1>1. /\ UNCHANGED <<stage, available, raw>>
      /\ writes[t] \in Seq(Files) /\ writes[t] # <<>> /\ NextFile(t) \in Files
  BY StoreEffect DEF settingsVars
<1> SUFFICES ASSUME available, ~ writeFailed', stage[Handler] \in HandlerStages
             PROVE  \/ file'["settings"] = "data"
                    \/ "settings" \in Unstored(Handler)'
                    \/ opened'[Main] /\ NextFile(Main)' = "settings"
  BY <1>1 DEF SignalInv, HandlerStages
<1>2. ~ writeFailed
  BY DEF StoreStep, NothingToStore, OpenFile, WriteFile, StoreFails, cacheVars
<1>3. \/ file["settings"] = "data"
      \/ "settings" \in Unstored(Handler)
      \/ opened[Main] /\ NextFile(Main) = "settings"
  BY <1>2 DEF SignalInv, HandlerStages
<1>4. /\ NextFile(t) \in Unstored(t)
      /\ writes'[t] = Tail(writes[t]) =>
           \A f \in Unstored(t) : f = NextFile(t) \/ f \in Unstored(t)'
  BY <1>1, UnstoredAfter
<1>5. /\ DOMAIN file = Files /\ opened \in [Threads -> BOOLEAN] /\ raw["settings"] = "data"
      /\ writes \in [Threads -> Seq(Files)] /\ "settings" \in Files
  BY DEF StoreInv, Files
<1>6. CASE /\ writes' = writes /\ opened' = [opened EXCEPT ![t] = TRUE]
           /\ file' = [file EXCEPT ![NextFile(t)] = "partial"]
  <2>1. Unstored(Handler)' = Unstored(Handler) /\ NextFile(Main)' = NextFile(Main)
    BY <1>6 DEF NextFile, Unstored
  <2>2. opened'[t] /\ (opened[Main] => opened'[Main])
    BY <1>0, <1>5, <1>6
  <2>3. NextFile(t) # "settings" => file'["settings"] = file["settings"]
    BY <1>1, <1>5, <1>6
  <2>4. t = Main \/ t = Handler
    BY <1>0
  <2> QED
    BY <1>3, <1>4, <2>1, <2>2, <2>3, <2>4
<1>7. CASE /\ writes' = [writes EXCEPT ![t] = Tail(@)] /\ opened' = [opened EXCEPT ![t] = FALSE]
           /\ \/ file' = file /\ ~ opened[t] /\ raw[NextFile(t)] = "none"
              \/ file' = [file EXCEPT ![NextFile(t)] = raw[NextFile(t)]]
  <2>1. /\ writes'[t] = Tail(writes[t])
        /\ \A u \in Threads : u # t => writes'[u] = writes[u] /\ opened'[u] = opened[u]
    BY <1>1, <1>5, <1>7
  <2>2. CASE NextFile(t) = "settings"
    BY <1>1, <1>5, <1>7, <2>2
  <2>3. CASE NextFile(t) # "settings"
    <3>1. file'["settings"] = file["settings"]
      BY <1>1, <1>5, <1>7, <2>3
    <3>2. CASE t = Main
      <4>1. Unstored(Handler)' = Unstored(Handler)
        BY <1>0, <2>1, <3>2 DEF Unstored
      <4> QED
        BY <1>3, <2>3, <3>1, <3>2, <4>1
    <3>3. CASE t = Handler
      <4>1. opened'[Main] = opened[Main] /\ NextFile(Main)' = NextFile(Main)
        BY <1>0, <2>1, <3>3 DEF NextFile
      <4>2. "settings" \in Unstored(Handler) => "settings" \in Unstored(Handler)'
        BY <1>4, <2>1, <2>3, <3>3
      <4> QED
        BY <1>3, <3>1, <4>1, <4>2
    <3> QED
      BY <1>0, <3>2, <3>3
  <2> QED
    BY <2>2, <2>3
<1> QED
  BY <1>6, <1>7, StoreEffect

(* A signal stores the settings, whatever the planner does meanwhile.      *)
LEMMA SignalNext == OnceInv /\ StoreInv /\ SignalInv /\ [Next]_vars => SignalInv'
<1> SUFFICES ASSUME OnceInv, StoreInv, SignalInv, [Next]_vars PROVE SignalInv'
  OBVIOUS
<1>0. Main \in Threads /\ Handler \in Threads /\ Main # Handler
      /\ HandlerStages \subseteq LateStages
  BY DEF Threads, Main, Handler, HandlerStages, LateStages, Stages, EarlyStages, OnceStages
<1>a. ASSUME UNCHANGED <<stage, writes, opened, available, file, writeFailed>>
      PROVE  SignalInv'
  BY <1>a DEF SignalInv, NextFile, Unstored
<1>1. CASE Initialize
  <2>1. /\ stage'[Handler] = "idle"
        /\ UNCHANGED <<writes, opened, file, writeFailed>>
    BY <1>0, <1>1 DEF Initialize, cacheVars
  <2> QED
    BY <2>1, SignalMove DEF HandlerStages, NextFile
<1>2. CASE Signal
  <2>1. /\ \E s \in {"settings"} : Goto(Handler, s)
        /\ UNCHANGED <<file, writeFailed>>
    BY <1>2 DEF Signal, OnlyThreadsMove, cacheVars
  <2>2. /\ stage'[Handler] = "settings" /\ writes'[Main] = writes[Main] /\ opened' = opened
    BY <1>0, <2>1, MoveEffect DEF Stages
  <2> QED
    BY <2>1, <2>2, SignalMove DEF HandlerStages, NextFile
<1>3. CASE UploadEnds
  BY <1>3, <1>a DEF UploadEnds, threadVars, settingsVars, cacheVars
<1>4. ASSUME NEW f \in Features, FeatureAnswered(f) PROVE SignalInv'
  BY <1>4, <1>a DEF FeatureAnswered, threadVars, settingsVars, cacheVars
<1>5. ASSUME NEW t \in Threads, EnsureSettings(t) PROVE SignalInv'
  <2>1. PICK s \in OnceStages \cup {"decide", "store"} : Goto(t, s)
    BY <1>5, EnsureMoves
  <2>2. /\ stage[t] \in OnceStages \cup {"settings"}
        /\ UNCHANGED <<file, writeFailed>>
        /\ stage[t] = "settings" => available' = available
    BY <1>5, EnsureMoves, EnsureKeeps
  <2>3. /\ stage'[t] = s /\ writes'[t] = StoredAt(s) /\ opened' = opened
        /\ \A u \in Threads : u # t => stage'[u] = stage[u] /\ writes'[u] = writes[u]
    BY <2>1, MoveEffect DEF Stages, OnceStages
  <2>4. s = "store" => "settings" \in Unstored(t)'
    BY <2>3, UnstoredAtStages
  <2>5. s # "store" => s \notin HandlerStages
    BY DEF HandlerStages, OnceStages
  <2>6. CASE t = Handler
    <3>1. NextFile(Main)' = NextFile(Main)
      BY <1>0, <2>3, <2>6 DEF NextFile
    <3> QED
      BY <2>2, <2>3, <2>4, <2>5, <2>6, <3>1, SignalMove
  <2>7. CASE t # Handler
    <3>1. t = Main
      BY <2>7 DEF Threads
    <3>2. writes[Main] = <<>> /\ ~ opened[Main]
      BY <1>0, <2>2, <3>1 DEF StoreInv, OnceStages
    <3>3. stage[Handler] \in HandlerStages => ~ InOnce(Main)
      BY <1>0 DEF OnceInv, BehindOnce, LateStages
    <3>4. stage[Handler] \in HandlerStages => available' = available
      BY <2>2, <3>1, <3>3 DEF InOnce
    <3>5. stage'[Handler] = stage[Handler] /\ Unstored(Handler)' = Unstored(Handler)
      BY <1>0, <2>3, <3>1 DEF Unstored
    <3> QED
      BY <2>2, <2>3, <3>2, <3>4, <3>5, SignalMove
  <2> QED
    BY <2>6, <2>7
<1>6. ASSUME NEW t \in Threads, LateStep(t) PROVE SignalInv'
  <2>1. PICK s \in LateStages : Goto(t, s)
    BY <1>6, LateEffect
  <2>2. /\ UNCHANGED <<available, file, writeFailed>> /\ writes[t] = <<>>
    BY <1>6, LateEffect DEF settingsVars
  <2>3. /\ opened' = opened
        /\ \A u \in Threads : u # t => stage'[u] = stage[u] /\ writes'[u] = writes[u]
    BY <2>1, MoveEffect DEF LateStages
  <2>4. CASE t = Handler
    <3>1. stage[Handler] \in HandlerStages
      BY <1>0, <1>6, <2>4 DEF LateStep, AllStored, Lock, Close, At, StoreInv, HandlerStages
    <3>2. Unstored(Handler) = {} /\ NextFile(Main)' = NextFile(Main)
      BY <1>0, <2>2, <2>3, <2>4 DEF Unstored, NextFile
    <3> QED
      BY <2>2, <2>3, <3>1, <3>2, SignalMove
  <2>5. CASE t # Handler
    <3>1. t = Main
      BY <2>5 DEF Threads
    <3>2. ~ opened[Main]
      BY <1>0, <2>2, <3>1 DEF StoreInv
    <3>3. stage'[Handler] = stage[Handler] /\ Unstored(Handler)' = Unstored(Handler)
      BY <1>0, <2>3, <3>1 DEF Unstored
    <3> QED
      BY <2>2, <2>3, <3>2, <3>3, SignalMove
  <2> QED
    BY <2>4, <2>5
<1>7. ASSUME NEW t \in Threads, StoreStep(t) PROVE SignalInv'
  BY <1>7, SignalStore
<1>8. CASE Leave \/ TornRead \/ ExitOnSignal
  BY <1>8, <1>a DEF Leave, TornRead, ExitOnSignal, settingsVars, cacheVars
<1>9. CASE UNCHANGED vars
  BY <1>9, <1>a DEF vars, threadVars, settingsVars, cacheVars
<1> QED
  BY <1>1, <1>2, <1>3, <1>4, <1>5, <1>6, <1>7, <1>8, <1>9, NextCases

(* How the client starts.                                                  *)
LEMMA ClientInit ==
  Init => OnceInv /\ AwaitInv /\ StoreInv /\ FetchInv /\ CalmInv /\ SignalInv
<1> SUFFICES ASSUME Init
             PROVE  OnceInv /\ AwaitInv /\ StoreInv /\ FetchInv /\ CalmInv /\ SignalInv
  OBVIOUS
<1>0. stage[Main] = "initialize" /\ stage[Handler] = "none"
      /\ \A t \in Threads : stage[t] \in {"initialize", "none"}
  BY DEF Init, Threads, Main, Handler
<1>1. OnceInv
  BY DEF Init, OnceInv, InOnce, BehindOnce, OnceStages, EarlyStages, Stages, Threads, Main,
     Handler, SettingsFollowTheUpload
<1>2. AwaitInv
  BY <1>0 DEF Init, AwaitInv, Awaited
<1>3. StoreInv
  BY <1>0 DEF Init, StoreInv
<1>4. FetchInv
  BY <1>0 DEF Init, FetchInv, StoreStages
<1>5. CalmInv
  BY <1>0 DEF Init, CalmInv, Due, StoreStages
<1>6. SignalInv
  BY <1>0 DEF Init, SignalInv
<1> QED
  BY <1>1, <1>2, <1>3, <1>4, <1>5, <1>6

(* CacheIsComplete: a process that no signal and no refused file disturbs  *)
(* leaves behind, for the test workers, the settings and every feature it  *)
(* planned with, and no file half written (StoreCacheAndExit stores what   *)
(* the transport remembers; GetSkippables is stored when it is asked for). *)
THEOREM CacheCompleted == Spec => []CacheIsComplete
<1> DEFINE IInv == OnceInv /\ AwaitInv /\ StoreInv /\ FetchInv /\ CalmInv
<1>1. Init => IInv
  BY ClientInit
<1>2. IInv /\ [Next]_vars => IInv'
  BY OnceNext, AwaitNext, StoreNext, FetchNext, CalmNext
<1>3. IInv => CacheIsComplete
  <2> SUFFICES ASSUME IInv, status = "returned", ~ Signalled, ~ writeFailed
               PROVE  /\ \A f \in PlannedWith : file[f] = "data"
                      /\ \A f \in Files : file[f] # "partial"
    BY DEF CacheIsComplete
  <2>1. stage[Main] = "leave" /\ Main \in Threads
    BY DEF AwaitInv, Threads
  <2>2. writes[Main] = <<>> /\ ~ opened[Main] /\ Unstored(Main) = {}
    BY <2>1 DEF StoreInv, Unstored
  <2>3. \A f \in Files : Due(f) => UpToDate(f)
    BY <2>2 DEF CalmInv
  <2>4. ASSUME NEW f \in PlannedWith
        PROVE  file[f] = "data"
    <3>1. CASE f = "settings" /\ available
      <4>1. Due(f) /\ f \in Files /\ raw[f] = "data"
        BY <2>1, <3>1 DEF Due, StoreStages, StoreInv, Files, Features
      <4> QED
        BY <2>3, <4>1 DEF UpToDate
    <3>2. CASE /\ f \in Features /\ fetch[f] = "data"
               /\ \/ f = "known" /\ Asked
                  \/ f = "skippable" /\ "tia" \in enabled
                  \/ f = "management" /\ Asked
      <4>1. f \in Files /\ raw[f] = "data"
        BY <3>2 DEF FetchInv, Files
      <4>2. Due(f)
        BY <2>1, <3>2 DEF Due, StoreStages, Asked
      <4> QED
        BY <2>3, <4>1, <4>2 DEF UpToDate
    <3> QED
      BY <3>1, <3>2 DEF PlannedWith, Asked, FetchInv
  <2> QED
    BY <2>2, <2>4 DEF CalmInv
<1> QED
  BY <1>1, <1>2, <1>3, PTL DEF Spec

(* SignalStoresSettings: the handler, which shares settings, files and     *)
(* mutex with a planner at any point of its work, ends the process with    *)
(* the settings in the cache or a planner that is storing them again.      *)
THEOREM SignalStored == Spec => []SignalStoresSettings
<1> DEFINE IInv == OnceInv /\ AwaitInv /\ StoreInv /\ SignalInv
<1>1. Init => IInv
  BY ClientInit
<1>2. IInv /\ [Next]_vars => IInv'
  BY OnceNext, AwaitNext, StoreNext, SignalNext
<1>3. IInv => SignalStoresSettings
  <2> SUFFICES ASSUME IInv, status = "signalled", available, ~ writeFailed
               PROVE  \/ file["settings"] = "data"
                      \/ opened[Main] /\ NextFile(Main) = "settings"
    BY DEF SignalStoresSettings
  <2>1. stage[Handler] = "flush" /\ Handler \in Threads
    BY DEF AwaitInv, Threads
  <2>2. Unstored(Handler) = {}
    <3>1. writes[Handler] = <<>>
      BY <2>1 DEF StoreInv
    <3> QED
      BY <3>1 DEF Unstored
  <2> QED
    BY <2>1, <2>2 DEF SignalInv
<1> QED
  BY <1>1, <1>2, <1>3, PTL DEF Spec
-----------------------------------------------------------------------------
(* The two threads do not wait for each other: sync.Once and the mutex of  *)
(* the close actions are never held and waited for in a circle.            *)

(* closeActionsMutex is held while the client is closed, and settingsOnce  *)
(* runs as long as a thread is in its body.                                *)
LockInv ==
  /\ mutex \in Threads \cup {"free"}
  /\ \A t \in Threads : stage[t] = "close" <=> mutex = t
  /\ once = "running" => \E t \in Threads : InOnce(t)

Waiting(t) ==
  \/ stage[t] = "settings" /\ once = "running"
  \/ stage[t] \in {"push", "lock"} /\ mutex # "free"

WaitsForBusy ==
  \A t \in Threads : Waiting(t) =>
    \E u \in Threads : u # t /\ ~ Waiting(u) /\ stage[u] \in OnceStages \cup {"close"}

LEMMA LockInit == Init => LockInv
<1> SUFFICES ASSUME Init PROVE LockInv
  OBVIOUS
<1>1. \A t \in Threads : stage[t] \in {"initialize", "none"}
  BY DEF Init
<1>2. mutex = "free" /\ once = "new"
  BY DEF Init
<1> QED
  BY <1>1, <1>2 DEF LockInv, Threads, Main, Handler

(* A step that neither takes nor leaves the mutex nor ends settingsOnce.   *)
LEMMA LockMove ==
  ASSUME OnceInv, LockInv, NEW t \in Threads, NEW s \in Stages, Goto(t, s), mutex' = mutex,
         stage[t] # "close", s # "close",
         s \in OnceStages \/ once' # "running" \/ (once' = once /\ ~ InOnce(t))
  PROVE  LockInv'
<1>1. /\ stage'[t] = s /\ \A u \in Threads : u # t => stage'[u] = stage[u]
  BY GotoEffect DEF OnceInv
<1>2. \A u \in Threads : stage'[u] = "close" <=> mutex' = u
  BY <1>1 DEF LockInv
<1>3. ASSUME once' = "running" PROVE \E u \in Threads : InOnce(u)'
  <2>1. CASE s \in OnceStages
    BY <1>1, <2>1 DEF InOnce
  <2>2. CASE once' = once /\ ~ InOnce(t)
    <3>1. PICK u \in Threads : InOnce(u)
      BY <1>3, <2>2 DEF LockInv
    <3>2. u # t /\ stage'[u] = stage[u]
      BY <1>1, <2>2, <3>1
    <3> QED
      BY <3>1, <3>2 DEF InOnce
  <2> QED
    BY <1>3, <2>1, <2>2
<1> QED
  BY <1>2, <1>3 DEF LockInv

LEMMA LockStandstill ==
  ASSUME LockInv, UNCHANGED <<stage, mutex, once>>
  PROVE  LockInv'
BY DEF LockInv, InOnce

LEMMA LockEnsure ==
  ASSUME OnceInv, LockInv, NEW t \in Threads, EnsureSettings(t)
  PROVE  LockInv'
<1> USE DEF At, OnlyThreadsMove, settingsVars, uploadVars
<1>1. ASSUME AfterSettings(t) PROVE \E s \in {"decide", "store"} : Goto(t, s)
  BY <1>1 DEF AfterSettings
<1>2. CASE SettingsKnown(t) \/ NoTransport(t) \/ UploadTooLate(t) \/ RepeatFails(t)
           \/ PushCloseAction(t)
  <2>1. PICK s \in {"decide", "store"} : Goto(t, s)
    BY <1>1, <1>2 DEF SettingsKnown, NoTransport, UploadTooLate, RepeatFails, PushCloseAction
  <2>2. mutex' = mutex /\ stage[t] # "close" /\ s \in Stages /\ s # "close"
    BY <1>2, <2>1 DEF SettingsKnown, NoTransport, UploadTooLate, RepeatFails, PushCloseAction,
       Stages
  <2>3. once' = "done"
    BY <1>2 DEF SettingsKnown, NoTransport, UploadTooLate, RepeatFails, PushCloseAction
  <2> QED
    BY <2>1, <2>2, <2>3, LockMove
<1>3. CASE StartSettings(t) \/ SettingsFail(t) \/ SettingsArrive(t) \/ RepeatArrives(t)
           \/ SettingsRequireGit(t) \/ UploadArrived(t)
  <2>1. PICK s \in OnceStages : Goto(t, s)
    BY <1>3 DEF StartSettings, SettingsFail, SettingsArrive, RepeatArrives,
       SettingsRequireGit, UploadArrived, OnceStages
  <2>2. mutex' = mutex /\ stage[t] # "close" /\ s \in Stages /\ s # "close"
    BY <1>3, <2>1 DEF StartSettings, SettingsFail, SettingsArrive, RepeatArrives,
       SettingsRequireGit, UploadArrived, OnceStages, Stages
  <2> QED
    BY <2>1, <2>2, LockMove
<1> QED
  BY <1>2, <1>3 DEF EnsureSettings

LEMMA LockNext == OnceInv /\ StoreInv /\ LockInv /\ [Next]_vars => LockInv'
<1> SUFFICES ASSUME OnceInv, StoreInv, LockInv, [Next]_vars PROVE LockInv'
  OBVIOUS
<1> USE DEF At, OnlyThreadsMove, settingsVars, uploadVars
<1>1. CASE Initialize
  <2>1. /\ mutex' = mutex /\ once' = once /\ stage[Main] = "initialize" /\ stage[Handler] = "none"
        /\ \A t \in Threads : stage'[t] \in {"settings", "idle"}
    BY <1>1 DEF Initialize, StoreInv
  <2>2. \A t \in Threads : stage[t] # "close" /\ ~ InOnce(t)
    BY <2>1 DEF Threads, InOnce, OnceStages
  <2>3. \A t \in Threads : stage'[t] # "close"
    BY <2>1
  <2> QED
    BY <2>1, <2>2, <2>3 DEF LockInv
<1>2. CASE Signal
  <2>1. Goto(Handler, "settings") /\ mutex' = mutex /\ once' = once /\ stage[Handler] = "idle"
    BY <1>2 DEF Signal
  <2> QED
    BY <2>1, LockMove DEF Threads, Stages, InOnce, OnceStages
<1>3. ASSUME NEW t \in Threads, EnsureSettings(t) PROVE LockInv'
  BY <1>3, LockEnsure
<1>4. ASSUME NEW t \in Threads, LateStep(t), ~ Lock(t), ~ Close(t) PROVE LockInv'
  <2>1. BehindOnce(t) /\ once' = once
    BY <1>4, LateEffect
  <2>2. mutex' = mutex /\ stage[t] # "close"
    BY <1>4 DEF LateStep, Decide, FeaturesKnown, FetchFeatures, FeaturesFetched, Report,
       AllStored
  <2>3. PICK s \in Stages : Goto(t, s) /\ s # "close"
    BY <1>4 DEF LateStep, Decide, FeaturesKnown, FetchFeatures, FeaturesFetched, Report,
       AllStored, AfterFeatures, Stages
  <2>4. ~ InOnce(t)
    BY <2>1 DEF BehindOnce, InOnce
  <2> QED
    BY <2>1, <2>2, <2>3, <2>4, LockMove
<1>5. ASSUME NEW t \in Threads, Lock(t) PROVE LockInv'
  <2>1. /\ mutex = "free" /\ mutex' = t /\ stage[t] = "lock" /\ once' = once
        /\ Goto(t, "close")
    BY <1>5 DEF Lock
  <2>2. stage'[t] = "close" /\ \A u \in Threads : u # t => stage'[u] = stage[u]
    BY <2>1, GotoEffect DEF OnceInv, Stages
  <2>3. \A u \in Threads : u # t => stage[u] # "close"
    BY <2>1 DEF LockInv, Threads, Main, Handler
  <2>4. once' = "running" => \E u \in Threads : InOnce(u)'
    BY <2>1, <2>2 DEF LockInv, InOnce, OnceStages
  <2> QED
    BY <2>1, <2>2, <2>3, <2>4 DEF LockInv
<1>6. ASSUME NEW t \in Threads, Close(t) PROVE LockInv'
  <2>1. mutex' = "free" /\ stage[t] = "close" /\ once' = once /\ mutex = t
    BY <1>6 DEF Close, LockInv
  <2>2. PICK s \in {"report", "flush"} : Goto(t, s)
    BY <1>6 DEF Close
  <2>3. stage'[t] = s /\ \A u \in Threads : u # t => stage'[u] = stage[u]
    BY <2>2, GotoEffect DEF OnceInv, Stages
  <2>4. \A u \in Threads : stage'[u] # "close"
    BY <2>1, <2>2, <2>3 DEF LockInv
  <2>5. once' = "running" => \E u \in Threads : InOnce(u)'
    BY <2>1, <2>3 DEF LockInv, InOnce, OnceStages
  <2>6. "free" \notin Threads
    BY DEF Threads, Main, Handler
  <2> QED
    BY <2>1, <2>4, <2>5, <2>6 DEF LockInv
<1>7. ASSUME NEW t \in Threads, StoreStep(t) PROVE LockInv'
  BY <1>7, StoreEffect, LockStandstill
<1>8. CASE UploadEnds \/ Leave \/ TornRead \/ ExitOnSignal
           \/ \E f \in Features : FeatureAnswered(f)
  BY <1>8, LockStandstill DEF UploadEnds, Leave, TornRead, ExitOnSignal, FeatureAnswered,
     threadVars
<1>9. CASE UNCHANGED vars
  BY <1>9, LockStandstill DEF vars, threadVars
<1> QED
  BY <1>1, <1>2, <1>3, <1>4, <1>5, <1>6, <1>7, <1>8, <1>9, NextCases

(* Neither the planner nor the signal handler ever waits for the other     *)
(* while that waits too: whoever waits, in settingsOnce.Do or for          *)
(* closeActionsMutex, waits for a thread that fetches the settings or      *)
(* closes the client, which needs nothing but answers and time limits.     *)
THEOREM NoCircularWait == Spec => []WaitsForBusy
<1> DEFINE IInv == OnceInv /\ StoreInv /\ LockInv
<1>1. Init => IInv
  BY ClientInit, LockInit
<1>2. IInv /\ [Next]_vars => IInv'
  BY OnceNext, StoreNext, LockNext
<1>3. IInv => WaitsForBusy
  <2> SUFFICES ASSUME IInv, NEW t \in Threads, Waiting(t)
               PROVE  \E u \in Threads : u # t /\ ~ Waiting(u) /\ stage[u] \in OnceStages \cup {"close"}
    BY DEF WaitsForBusy
  <2>1. CASE stage[t] = "settings" /\ once = "running"
    <3>1. PICK u \in Threads : InOnce(u)
      BY <2>1 DEF LockInv
    <3>2. u # t /\ stage[u] # "settings" /\ stage[u] # "lock"
      BY <2>1, <3>1 DEF InOnce, OnceStages
    <3>3. ASSUME mutex # "free" PROVE FALSE
      <4>1. PICK v \in Threads : mutex = v /\ stage[v] = "close"
        BY <3>3 DEF LockInv
      <4>2. v # t /\ v # u
        BY <2>1, <3>1, <4>1 DEF InOnce, OnceStages
      <4> QED
        BY <3>2, <4>2 DEF Threads
    <3> QED
      BY <3>1, <3>2, <3>3 DEF Waiting, InOnce
  <2>2. CASE stage[t] \in {"push", "lock"} /\ mutex # "free"
    <3>1. PICK u \in Threads : mutex = u /\ stage[u] = "close"
      BY <2>2 DEF LockInv
    <3> QED
      BY <2>2, <3>1 DEF Waiting
  <2> QED
    BY <2>1, <2>2 DEF Waiting
<1> QED
  BY <1>1, <1>2, <1>3, PTL DEF Spec
-----------------------------------------------------------------------------
(* The process does not turn in circles.                                   *)

(* How far a thread is from its end; a report takes the planner back to    *)
(* the features, once.                                                     *)
RankOf(s, again) ==
  CASE s \in {"none", "initialize"} -> 18
    [] s = "idle"       -> 17
    [] s = "settings"   -> 16
    [] s = "request"    -> 15
    [] s = "waitGit"    -> 14
    [] s = "repeat"     -> 13
    [] s = "push"       -> 12
    [] s = "decide"     -> 11
    [] s = "features"   -> IF again THEN 3 ELSE 10
    [] s = "fetching"   -> IF again THEN 2 ELSE 9
    [] s = "skippables" -> IF again THEN 1 ELSE 8
    [] s = "store"      -> 7
    [] s = "lock"       -> 6
    [] s = "close"      -> 5
    [] s = "report"     -> 4
    [] OTHER            -> 0

Rank(t) == RankOf(stage[t], t = Main /\ reporting)
StoreLeft(t) == 2 * Len(writes[t]) - (IF opened[t] THEN 1 ELSE 0)
Running(f) == IF fetch[f] = "running" THEN 1 ELSE 0
FetchLeft == Running("known") + Running("skippable") + Running("management")
UploadLeft == IF upload = "running" THEN 1 ELSE 0
StatusLeft == IF status = "running" THEN 1 ELSE 0
OtherLeft == FetchLeft + UploadLeft + StatusLeft
ProcessLeft ==
  10 * (Rank(Main) + Rank(Handler)) + StoreLeft(Main) + StoreLeft(Handler) + OtherLeft

(* What the measure rests on: at most three files are stored in a row, and *)
(* a report is only printed at the very end.                               *)
ShortInv ==
  /\ \A t \in Threads : Len(writes[t]) <= 3
  /\ reporting \in BOOLEAN
  /\ reporting => stage[Main] \in {"features", "fetching", "skippables", "leave"}

LEMMA RankTyped == \A s, again : RankOf(s, again) \in 0 .. 18
BY DEF RankOf

LEMMA StoredAtLength == \A s : StoredAt(s) \in Seq(Files) /\ Len(StoredAt(s)) <= 3
<1> SUFFICES ASSUME NEW s PROVE StoredAt(s) \in Seq(Files) /\ Len(StoredAt(s)) <= 3
  OBVIOUS
<1>1. CASE s = "store"
  BY <1>1 DEF StoredAt, Files, Features
<1>2. CASE s = "skippables"
  BY <1>2 DEF StoredAt, Files, Features
<1>3. CASE s \notin {"store", "skippables"}
  BY <1>3 DEF StoredAt
<1> QED
  BY <1>1, <1>2, <1>3

(* A thread that moves on, with the files of its next stage to store and   *)
(* the requests it starts, is nearer to its end; so is one that stores a   *)
(* file, and a process of which anything else ends.                        *)
LEMMA MeasureShrinks ==
  \A a, b, c, d, e, x, y, z \in Nat :
    /\ x < a /\ y <= 6 /\ z <= e + 3 =>
         /\ 10 * (x + b) + y + d + z < 10 * (a + b) + c + d + e
         /\ 10 * (b + x) + d + y + z < 10 * (b + a) + d + c + e
    /\ y < c => /\ 10 * (a + b) + y + d + e < 10 * (a + b) + c + d + e
                /\ 10 * (a + b) + d + y + e < 10 * (a + b) + d + c + e
    /\ z < e => 10 * (a + b) + c + d + z < 10 * (a + b) + c + d + e
OBVIOUS

MeasureOK ==
  /\ \A t \in Threads : Rank(t) \in 0 .. 18 /\ StoreLeft(t) \in 0 .. 6
  /\ FetchLeft \in 0 .. 3 /\ OtherLeft \in Nat /\ ProcessLeft \in Nat

LEMMA FilesLeft ==
  ASSUME NEW w \in Seq(Files), Len(w) <= 3
  PROVE  /\ 2 * Len(w) - 0 \in 0 .. 6
         /\ w # <<>> => 2 * Len(w) - 1 \in 0 .. 6
<1>1. Len(w) \in Nat /\ (w # <<>> => Len(w) # 0)
  OBVIOUS
<1>2. \A n \in Nat : n <= 3 => 2 * n - 0 \in 0 .. 6 /\ (n # 0 => 2 * n - 1 \in 0 .. 6)
  OBVIOUS
<1> QED
  BY <1>1, <1>2

LEMMA MeasureTyped == StoreInv /\ ShortInv => MeasureOK
<1> SUFFICES ASSUME StoreInv, ShortInv PROVE MeasureOK
  OBVIOUS
<1>1. ASSUME NEW t \in Threads PROVE Rank(t) \in 0 .. 18 /\ StoreLeft(t) \in 0 .. 6
  <2>1. Rank(t) \in 0 .. 18
    BY RankTyped DEF Rank
  <2>2. /\ writes[t] \in Seq(Files) /\ Len(writes[t]) <= 3
        /\ opened[t] => writes[t] # <<>>
    BY <1>1 DEF StoreInv, ShortInv
  <2>3. StoreLeft(t) \in 0 .. 6
    BY <2>2, FilesLeft DEF StoreLeft
  <2> QED
    BY <2>1, <2>3
<1>2. \A f : Running(f) \in 0 .. 1
  BY DEF Running
<1>3. FetchLeft \in 0 .. 3
  BY <1>2 DEF FetchLeft
<1>4. OtherLeft \in Nat
  BY <1>3 DEF OtherLeft, UploadLeft, StatusLeft
<1>5. Main \in Threads /\ Handler \in Threads
  BY DEF Threads
<1>6. /\ Rank(Main) \in 0 .. 18 /\ Rank(Handler) \in 0 .. 18
      /\ StoreLeft(Main) \in 0 .. 6 /\ StoreLeft(Handler) \in 0 .. 6
  BY <1>1, <1>5
<1>7. ProcessLeft \in Nat
  BY <1>4, <1>6 DEF ProcessLeft
<1> QED
  BY <1>1, <1>3, <1>4, <1>7 DEF MeasureOK

-----------------------------------------------------------------------------

(* The stages a thread goes through are in one order.                      *)
LEMMA EnsureDescends ==
  ASSUME OnceInv, StoreInv, ShortInv, NEW t \in Threads, EnsureSettings(t)
  PROVE  \E s \in Stages : /\ Goto(t, s) /\ reporting' = reporting
                           /\ \A again : RankOf(s, again) < RankOf(stage[t], again)
<1> USE DEF At, OnlyThreadsMove
<1>1. ASSUME AfterSettings(t) PROVE \E s \in {"decide", "store"} : Goto(t, s)
  BY <1>1 DEF AfterSettings
<1>2. CASE SettingsKnown(t) \/ NoTransport(t) \/ UploadTooLate(t) \/ RepeatFails(t)
           \/ PushCloseAction(t)
  <2>1. PICK s \in {"decide", "store"} : Goto(t, s)
    BY <1>1, <1>2 DEF SettingsKnown, NoTransport, UploadTooLate, RepeatFails, PushCloseAction
  <2>2. stage[t] \in {"settings", "waitGit", "repeat", "push"} /\ reporting' = reporting
    BY <1>2 DEF SettingsKnown, NoTransport, UploadTooLate, RepeatFails, PushCloseAction
  <2>3. \A again : RankOf(s, again) <= 11 /\ RankOf(stage[t], again) >= 12
    BY <2>1, <2>2 DEF RankOf
  <2>4. \A again : RankOf(s, again) < RankOf(stage[t], again)
    BY <2>3, RankTyped
  <2> QED
    BY <2>1, <2>2, <2>4 DEF Stages
<1>3. ASSUME NEW from \in Stages, NEW to \in Stages, stage[t] = from, Goto(t, to),
             reporting' = reporting,
             \/ from = "settings" /\ to = "request"
             \/ from = "request" /\ to \in {"waitGit", "push"}
             \/ from = "waitGit" /\ to = "repeat"
             \/ from = "repeat" /\ to = "push"
      PROVE  \E s \in Stages : /\ Goto(t, s) /\ reporting' = reporting
                               /\ \A again : RankOf(s, again) < RankOf(stage[t], again)
  <2>1. \A again : RankOf(to, again) < RankOf(from, again)
    BY <1>3 DEF RankOf
  <2> QED
    BY <1>3, <2>1
<1> HIDE DEF OnlyThreadsMove
<1>4. CASE StartSettings(t)
  BY <1>3, <1>4 DEF StartSettings, Stages
<1>5. CASE SettingsFail(t) \/ SettingsArrive(t)
  BY <1>3, <1>5 DEF SettingsFail, SettingsArrive, Stages
<1>6. CASE SettingsRequireGit(t)
  BY <1>3, <1>6 DEF SettingsRequireGit, Stages
<1>7. CASE UploadArrived(t)
  BY <1>3, <1>7 DEF UploadArrived, OnlyThreadsMove, Stages
<1>8. CASE RepeatArrives(t)
  BY <1>3, <1>8 DEF RepeatArrives, Stages
<1> QED
  BY <1>2, <1>4, <1>5, <1>6, <1>7, <1>8 DEF EnsureSettings

LEMMA LateDescends ==
  ASSUME OnceInv, StoreInv, ShortInv, NEW t \in Threads, LateStep(t)
  PROVE  \E s \in Stages :
           /\ Goto(t, s) /\ reporting' \in BOOLEAN
           /\ t = Handler => reporting' = reporting
           /\ t = Main /\ reporting' => s \in {"features", "fetching", "skippables", "leave"}
           /\ RankOf(s, t = Main /\ reporting') < RankOf(stage[t], t = Main /\ reporting)
<1> USE DEF At, OnlyThreadsMove
<1> DEFINE Descends(s) ==
             /\ Goto(t, s) /\ reporting' \in BOOLEAN
             /\ t = Handler => reporting' = reporting
             /\ t = Main /\ reporting' => s \in {"features", "fetching", "skippables", "leave"}
             /\ RankOf(s, t = Main /\ reporting') < RankOf(stage[t], t = Main /\ reporting)
<1>0. /\ reporting \in BOOLEAN /\ Main # Handler
      /\ reporting => stage[Main] \in {"features", "fetching", "skippables", "leave"}
  BY DEF ShortInv, Main, Handler
<1>1. CASE t = Main /\ Decide
  <2>1. PICK s \in {"features", "store"} : Goto(t, s)
    BY <1>1 DEF Decide
  <2>2. stage[t] = "decide" /\ reporting' = reporting /\ ~ reporting
    BY <1>0, <1>1 DEF Decide
  <2> QED
    BY <1>0, <1>1, <2>1, <2>2 DEF RankOf, Stages
<1>2. CASE t = Main /\ (FeaturesKnown \/ FeaturesFetched)
  <2>1. PICK s \in {"skippables", "store"} : Goto(t, s) /\ (reporting => s = "skippables")
    BY <1>2 DEF FeaturesKnown, FeaturesFetched, AfterFeatures
  <2>2. stage[t] \in {"features", "fetching"} /\ reporting' = reporting
    BY <1>2 DEF FeaturesKnown, FeaturesFetched
  <2> QED
    BY <1>0, <1>2, <2>1, <2>2 DEF RankOf, Stages
<1>3. CASE t = Main /\ FetchFeatures
  <2>1. Goto(t, "fetching") /\ stage[t] = "features" /\ reporting' = reporting
    BY <1>3 DEF FetchFeatures
  <2> QED
    BY <1>0, <1>3, <2>1 DEF RankOf, Stages
<1>4. CASE t = Main /\ Report
  <2>1. stage[t] = "report" /\ ~ reporting
    BY <1>0, <1>4 DEF Report
  <2>2. \/ reporting' = TRUE /\ Goto(t, "features")
        \/ reporting' = FALSE /\ Goto(t, "leave")
    BY <1>4 DEF Report
  <2>3. RankOf(stage[t], t = Main /\ reporting) = 4
    BY <2>1 DEF RankOf
  <2>4. CASE reporting' = TRUE /\ Goto(t, "features")
    <3>1. RankOf("features", t = Main /\ reporting') = 3
      BY <1>4, <2>4 DEF RankOf
    <3>2. RankOf("features", t = Main /\ reporting') < RankOf(stage[t], t = Main /\ reporting)
      BY ONLY <2>3, <3>1
    <3>3. /\ Goto(t, "features") /\ reporting' \in BOOLEAN
          /\ t = Handler => reporting' = reporting
          /\ t = Main /\ reporting' => "features" \in {"features", "fetching", "skippables", "leave"}
      BY <1>0, <1>4, <2>4
    <3>4. "features" \in Stages
      BY DEF Stages
    <3> QED
      BY <3>2, <3>3, <3>4, Zenon
  <2>5. CASE reporting' = FALSE /\ Goto(t, "leave")
    <3>1. RankOf("leave", t = Main /\ reporting') = 0
      BY DEF RankOf
    <3>2. RankOf("leave", t = Main /\ reporting') < RankOf(stage[t], t = Main /\ reporting)
      BY ONLY <2>3, <3>1
    <3>3. /\ Goto(t, "leave") /\ reporting' \in BOOLEAN
          /\ t = Handler => reporting' = reporting
          /\ t = Main /\ reporting' => "leave" \in {"features", "fetching", "skippables", "leave"}
      BY <1>0, <1>4, <2>5
    <3>4. "leave" \in Stages
      BY DEF Stages
    <3> QED
      BY <3>2, <3>3, <3>4, Zenon
  <2> QED
    BY <2>2, <2>4, <2>5
<1>5. CASE AllStored(t)
  <2>1. \/ stage[t] = "store" /\ Goto(t, "lock")
        \/ stage[t] = "skippables" /\ reporting /\ Goto(t, "leave")
        \/ stage[t] = "skippables" /\ ~ reporting /\ Goto(t, "store")
    BY <1>0, <1>5 DEF AllStored
  <2>2. reporting' = reporting /\ (stage[t] = "skippables" => t = Main)
    BY <1>5 DEF AllStored, StoreInv, Threads
  <2>3. stage[t] = "store" => ~ (t = Main /\ reporting)
    BY <1>0
  <2>4. CASE stage[t] = "store" /\ Goto(t, "lock")
    BY <1>0, <2>2, <2>3, <2>4 DEF RankOf, Stages
  <2>5. CASE stage[t] = "skippables" /\ reporting /\ Goto(t, "leave")
    BY <1>0, <2>2, <2>5 DEF RankOf, Stages
  <2>6. CASE stage[t] = "skippables" /\ ~ reporting /\ Goto(t, "store")
    BY <1>0, <2>2, <2>6 DEF RankOf, Stages
  <2> QED
    BY <2>1, <2>4, <2>5, <2>6
<1>6. CASE Lock(t) \/ Close(t)
  <2>1. \/ stage[t] = "lock" /\ Goto(t, "close")
        \/ stage[t] = "close" /\ \E s \in {"report", "flush"} : Goto(t, s)
    BY <1>6 DEF Lock, Close
  <2>2. reporting' = reporting
    BY <1>6 DEF Lock, Close
  <2>3. ~ (t = Main /\ reporting)
    BY <1>0, <2>1
  <2> QED
    BY <1>0, <2>1, <2>2, <2>3 DEF RankOf, Stages
<1> QED
  BY <1>1, <1>2, <1>3, <1>4, <1>5, <1>6 DEF LateStep

(* A thread that moves brings the process nearer to its end.               *)
LEMMA MoveShortens ==
  ASSUME OnceInv, StoreInv, ShortInv, StoreInv', ShortInv',
         NEW t \in Threads, NEW s \in Stages, Goto(t, s),
         RankOf(s, t = Main /\ reporting') < RankOf(stage[t], t = Main /\ reporting),
         t = Handler => reporting' = reporting,
         OtherLeft' <= OtherLeft + 3
  PROVE  ProcessLeft' < ProcessLeft
<1>1. /\ stage'[t] = s /\ opened' = opened
      /\ \A u \in Threads : u # t => stage'[u] = stage[u] /\ writes'[u] = writes[u]
  BY MoveEffect
<1>2. Rank(t)' < Rank(t)
  BY <1>1 DEF Rank
<1>3. Main \in Threads /\ Handler \in Threads /\ Main # Handler
  BY DEF Threads, Main, Handler
<1>4. \A u \in Threads : u # t => Rank(u)' = Rank(u) /\ StoreLeft(u)' = StoreLeft(u)
  BY <1>1, <1>3 DEF Rank, StoreLeft, Threads
<1>5. /\ Rank(Main) \in Nat /\ Rank(Handler) \in Nat
      /\ StoreLeft(Main) \in Nat /\ StoreLeft(Handler) \in Nat /\ OtherLeft \in Nat
  BY <1>3, MeasureTyped DEF MeasureOK
<1>6. /\ Rank(t)' \in Nat /\ StoreLeft(t)' \in Nat /\ StoreLeft(t)' <= 6
      /\ OtherLeft' \in Nat
  <2>1. (StoreInv /\ ShortInv => MeasureOK)'
    BY MeasureTyped, PTL
  <2>2. MeasureOK'
    BY <2>1
  <2> QED
    BY <2>2 DEF MeasureOK
<1>7. CASE t = Main
  <2>1. Rank(Handler)' = Rank(Handler) /\ StoreLeft(Handler)' = StoreLeft(Handler)
    BY <1>3, <1>4, <1>7
  <2> QED
    BY <1>2, <1>5, <1>6, <1>7, <2>1, MeasureShrinks DEF ProcessLeft
<1>8. CASE t = Handler
  <2>1. Rank(Main)' = Rank(Main) /\ StoreLeft(Main)' = StoreLeft(Main)
    BY <1>3, <1>4, <1>8
  <2> QED
    BY <1>2, <1>5, <1>6, <1>8, <2>1, MeasureShrinks DEF ProcessLeft
<1> QED
  BY <1>7, <1>8 DEF Threads

-----------------------------------------------------------------------------

LEMMA ShortInit == Init => ShortInv
<1> SUFFICES ASSUME Init PROVE ShortInv
  OBVIOUS
<1>1. \A t \in Threads : writes[t] = <<>>
  BY DEF Init
<1>2. Len(<<>>) = 0
  OBVIOUS
<1>3. \A t \in Threads : Len(writes[t]) <= 3
  BY <1>1, <1>2
<1> QED
  BY <1>3 DEF Init, ShortInv

LEMMA ShortMove ==
  ASSUME OnceInv, StoreInv, ShortInv, NEW t \in Threads, NEW s \in Stages, Goto(t, s),
         reporting' \in BOOLEAN,
         reporting' => stage'[Main] \in {"features", "fetching", "skippables", "leave"}
  PROVE  ShortInv'
<1>1. /\ writes'[t] = StoredAt(s)
      /\ \A u \in Threads : u # t => writes'[u] = writes[u]
  BY MoveEffect
<1>2. \A u \in Threads : Len(writes'[u]) <= 3
  BY <1>1, StoredAtLength DEF ShortInv
<1> QED
  BY <1>2 DEF ShortInv

LEMMA ThreeCounts ==
  \A a, b, c, x, y \in Nat :
    /\ a + b + c \in Nat
    /\ x < a => x + b + c < a + b + c
    /\ x <= 3 /\ a <= 3 => x + b + c <= a + b + c + 3
    /\ y <= 1 /\ b <= 1 => a + y + c <= a + b + c + 3
OBVIOUS

(* What a move can start: three requests, or the upload.                   *)
LEMMA OtherMoves ==
  ASSUME status' = status, fetch' = fetch \/ upload' = upload
  PROVE  OtherLeft' <= OtherLeft + 3
<1>1. \A f : Running(f) \in 0 .. 1 /\ Running(f)' \in 0 .. 1
  BY DEF Running
<1>2. FetchLeft \in 0 .. 3 /\ FetchLeft' \in 0 .. 3
  BY <1>1 DEF FetchLeft
<1>3. UploadLeft \in 0 .. 1 /\ UploadLeft' \in 0 .. 1
  BY DEF UploadLeft
<1>4. StatusLeft \in 0 .. 1 /\ StatusLeft' = StatusLeft
  BY DEF StatusLeft
<1>5. FetchLeft' = FetchLeft \/ UploadLeft' = UploadLeft
  BY DEF FetchLeft, Running, UploadLeft
<1>6. /\ FetchLeft \in Nat /\ FetchLeft <= 3 /\ FetchLeft' \in Nat /\ FetchLeft' <= 3
      /\ UploadLeft \in Nat /\ UploadLeft <= 1 /\ UploadLeft' \in Nat /\ UploadLeft' <= 1
      /\ StatusLeft \in Nat
  BY <1>2, <1>3, <1>4
<1> QED
  BY <1>2, <1>3, <1>4, <1>5, <1>6, ThreeCounts DEF OtherLeft

(* A thread that moves and keeps what the measure rests on.                *)
LEMMA Moves ==
  ASSUME OnceInv, StoreInv, ShortInv, StoreInv',
         NEW t \in Threads, EnsureSettings(t) \/ LateStep(t) \/ (t = Handler /\ Signal)
  PROVE  ShortInv' /\ ProcessLeft' < ProcessLeft
<1>1. Main \in Threads /\ Handler \in Threads /\ Main # Handler
  BY DEF Threads, Main, Handler
<1>2. ASSUME NEW s \in Stages, Goto(t, s), reporting' = reporting, t = Main => ~ reporting,
             \A again : RankOf(s, again) < RankOf(stage[t], again),
             fetch' = fetch \/ upload' = upload
      PROVE  ShortInv' /\ ProcessLeft' < ProcessLeft
  <2>1. \A u \in Threads : u # t => stage'[u] = stage[u]
    BY <1>2, MoveEffect
  <2>2. status' = status
    BY <1>2, MoveEffect
  <2>3. reporting' => stage'[Main] \in {"features", "fetching", "skippables", "leave"}
    BY <1>1, <1>2, <2>1 DEF ShortInv
  <2>4. ShortInv'
    BY <1>2, <2>3, ShortMove DEF ShortInv
  <2>5. OtherLeft' <= OtherLeft + 3
    BY <1>2, <2>2, OtherMoves
  <2>6. RankOf(s, t = Main /\ reporting') < RankOf(stage[t], t = Main /\ reporting)
    BY <1>2
  <2> QED
    BY <1>2, <2>4, <2>5, <2>6, MoveShortens
<1>3. CASE EnsureSettings(t)
  <2>1. PICK s \in Stages : /\ Goto(t, s) /\ reporting' = reporting
                            /\ \A again : RankOf(s, again) < RankOf(stage[t], again)
    BY <1>3, EnsureDescends
  <2>2. fetch' = fetch
    BY <1>3, EnsureKeeps
  <2>3. t = Main => ~ reporting
    BY <1>3, EnsureMoves DEF ShortInv, OnceStages
  <2> QED
    BY <1>2, <2>1, <2>2, <2>3
<1>4. CASE t = Handler /\ Signal
  <2>1. /\ Goto(t, "settings") /\ stage[t] = "idle" /\ "settings" \in Stages
        /\ reporting' = reporting /\ upload' = upload
    BY <1>4 DEF Signal, At, OnlyThreadsMove, uploadVars, Stages
  <2>2. \A again : RankOf("settings", again) < RankOf("idle", again)
    BY DEF RankOf
  <2> QED
    BY <1>1, <1>2, <1>4, <2>1, <2>2
<1>5. CASE LateStep(t)
  <2>1. PICK s \in Stages :
          /\ Goto(t, s) /\ reporting' \in BOOLEAN
          /\ t = Handler => reporting' = reporting
          /\ t = Main /\ reporting' => s \in {"features", "fetching", "skippables", "leave"}
          /\ RankOf(s, t = Main /\ reporting') < RankOf(stage[t], t = Main /\ reporting)
    BY <1>5, LateDescends
  <2>2. stage'[t] = s /\ status' = status /\ \A u \in Threads : u # t => stage'[u] = stage[u]
    BY <2>1, MoveEffect
  <2>3. reporting' => stage'[Main] \in {"features", "fetching", "skippables", "leave"}
    BY <1>1, <2>1, <2>2 DEF ShortInv, Threads
  <2>4. ShortInv'
    BY <2>1, <2>3, ShortMove
  <2>5. upload' = upload
    BY <1>5 DEF LateStep, Decide, FeaturesKnown, FetchFeatures, FeaturesFetched, Report,
       AllStored, Lock, Close, OnlyThreadsMove, uploadVars
  <2>6. OtherLeft' <= OtherLeft + 3
    BY <2>2, <2>5, OtherMoves
  <2> QED
    BY <2>1, <2>4, <2>6, MoveShortens
<1> QED
  BY <1>3, <1>4, <1>5

(* A thread stores one file more: nothing else moves.                      *)
LEMMA StoreCounts ==
  ASSUME StoreInv, ShortInv, NEW t \in Threads,
         UNCHANGED <<status, stage, reporting, upload, fetch>>,
         StoreLeft(t)' < StoreLeft(t), StoreLeft(t)' \in Nat,
         \A u \in Threads : u # t => StoreLeft(u)' = StoreLeft(u),
         \A u \in Threads : Len(writes'[u]) <= 3
  PROVE  ShortInv' /\ ProcessLeft' < ProcessLeft
<1>1. ShortInv'
  BY DEF ShortInv
<1>2. Rank(Main)' = Rank(Main) /\ Rank(Handler)' = Rank(Handler) /\ OtherLeft' = OtherLeft
  BY DEF Rank, OtherLeft, FetchLeft, Running, UploadLeft, StatusLeft
<1>3. Main \in Threads /\ Handler \in Threads /\ Main # Handler
  BY DEF Threads, Main, Handler
<1>4. /\ Rank(Main) \in Nat /\ Rank(Handler) \in Nat /\ OtherLeft \in Nat
      /\ StoreLeft(Main) \in Nat /\ StoreLeft(Handler) \in Nat
  <2>1. MeasureOK
    BY MeasureTyped
  <2>2. \A u \in Threads : Rank(u) \in Nat /\ StoreLeft(u) \in Nat
    BY ONLY <2>1 DEF MeasureOK
  <2> QED
    BY ONLY <1>3, <2>1, <2>2 DEF MeasureOK
<1>5. CASE t = Main
  <2>1. StoreLeft(Handler)' = StoreLeft(Handler)
    BY <1>3, <1>5
  <2> QED
    BY <1>1, <1>2, <1>4, <1>5, <2>1, MeasureShrinks DEF ProcessLeft
<1>6. CASE t = Handler
  <2>1. StoreLeft(Main)' = StoreLeft(Main)
    BY <1>3, <1>6
  <2> QED
    BY <1>1, <1>2, <1>4, <1>6, <2>1, MeasureShrinks DEF ProcessLeft
<1> QED
  BY <1>5, <1>6 DEF Threads

LEMMA StoreShortens ==
  ASSUME StoreInv, ShortInv, NEW t \in Threads, StoreStep(t)
  PROVE  ShortInv' /\ ProcessLeft' < ProcessLeft
<1>1. /\ UNCHANGED <<status, stage, reporting, uploadVars, fetchVars>>
      /\ writes[t] \in Seq(Files) /\ writes[t] # <<>>
  BY StoreEffect
<1>2. /\ Len(writes[t]) \in Nat \ {0} /\ Len(Tail(writes[t])) = Len(writes[t]) - 1
      /\ Len(writes[t]) <= 3
  BY <1>1 DEF ShortInv
<1>3. writes \in [Threads -> Seq(Files)] /\ opened \in [Threads -> BOOLEAN]
  BY DEF StoreInv
<1>4. CASE OpenFile(t)
  <2>1. /\ ~ opened[t] /\ opened' = [opened EXCEPT ![t] = TRUE] /\ writes' = writes
    BY <1>4 DEF OpenFile
  <2>2. StoreLeft(t)' < StoreLeft(t) /\ StoreLeft(t)' \in Nat
    <3>1. StoreLeft(t) = 2 * Len(writes[t]) - 0 /\ StoreLeft(t)' = 2 * Len(writes[t]) - 1
      BY <1>3, <2>1 DEF StoreLeft
    <3> QED
      BY <1>2, <3>1
  <2>3. \A u \in Threads : u # t => StoreLeft(u)' = StoreLeft(u)
    BY <1>3, <2>1 DEF StoreLeft
  <2>4. \A u \in Threads : Len(writes'[u]) <= 3
    BY <2>1 DEF ShortInv
  <2> QED
    BY <1>1, <2>2, <2>3, <2>4, StoreCounts DEF uploadVars, fetchVars
<1>5. CASE ~ OpenFile(t)
  <2>1. /\ opened' = [opened EXCEPT ![t] = FALSE] /\ writes' = [writes EXCEPT ![t] = Tail(@)]
    BY <1>3, <1>5 DEF StoreStep, NothingToStore, WriteFile, StoreFails, Stored
  <2>2. StoreLeft(t)' < StoreLeft(t) /\ StoreLeft(t)' \in Nat
    <3>1. StoreLeft(t)' = 2 * (Len(writes[t]) - 1) - 0
      BY <1>2, <1>3, <2>1 DEF StoreLeft
    <3>2. StoreLeft(t) \in {2 * Len(writes[t]) - 1, 2 * Len(writes[t]) - 0}
      BY DEF StoreLeft
    <3> QED
      BY <1>2, <3>1, <3>2
  <2>3. \A u \in Threads : u # t => StoreLeft(u)' = StoreLeft(u)
    BY <1>3, <2>1 DEF StoreLeft
  <2>4. \A u \in Threads : Len(writes'[u]) <= 3
    BY <1>2, <1>3, <2>1 DEF ShortInv
  <2> QED
    BY <1>1, <2>2, <2>3, <2>4, StoreCounts DEF uploadVars, fetchVars
<1> QED
  BY <1>4, <1>5

(* Something ends: a request, the upload, or the process.                  *)
LEMMA EndShortens ==
  ASSUME StoreInv, ShortInv, FetchInv,
         \/ UploadEnds \/ Leave \/ TornRead \/ ExitOnSignal
         \/ \E f \in Features : FeatureAnswered(f)
  PROVE  ShortInv' /\ ProcessLeft' < ProcessLeft
<1>1. UNCHANGED <<stage, writes, opened, reporting>>
  BY DEF UploadEnds, Leave, TornRead, ExitOnSignal, FeatureAnswered, threadVars
<1>2. ShortInv'
  BY <1>1 DEF ShortInv
<1>3. /\ UploadLeft \in Nat /\ UploadLeft' \in Nat
      /\ StatusLeft \in Nat /\ StatusLeft' \in Nat
  BY DEF UploadLeft, StatusLeft
<1>4. FetchLeft \in Nat /\ FetchLeft' \in Nat
  <2>1. \A f : Running(f) \in Nat /\ Running(f)' \in Nat
    BY DEF Running
  <2> QED
    BY <2>1 DEF FetchLeft
<1>5. OtherLeft' < OtherLeft
  <2>1. CASE UploadEnds
    <3>1. FetchLeft' = FetchLeft /\ StatusLeft' = StatusLeft
      BY <2>1 DEF UploadEnds, FetchLeft, Running, fetchVars, threadVars, StatusLeft
    <3>2. UploadLeft = 1 /\ UploadLeft' = 0
      BY <2>1 DEF UploadEnds, UploadLeft
    <3> QED
      BY <1>3, <1>4, <3>1, <3>2 DEF OtherLeft
  <2>2. CASE Leave \/ TornRead \/ ExitOnSignal
    <3>1. FetchLeft' = FetchLeft /\ UploadLeft' = UploadLeft
      BY <2>2 DEF Leave, TornRead, ExitOnSignal, FetchLeft, Running, fetchVars, uploadVars,
         UploadLeft
    <3>2. StatusLeft = 1 /\ StatusLeft' = 0
      BY <2>2 DEF Leave, TornRead, ExitOnSignal, At, HasFile, StatusLeft
    <3> QED
      BY <1>3, <1>4, <3>1, <3>2 DEF OtherLeft
  <2>3. ASSUME NEW f \in Features, FeatureAnswered(f) PROVE OtherLeft' < OtherLeft
    <3>1. PICK answer \in {"data", "rejected", "failed"} : fetch' = [fetch EXCEPT ![f] = answer]
      BY <2>3 DEF FeatureAnswered
    <3>2. fetch[f] = "running" /\ DOMAIN fetch = Features
      BY <2>3 DEF FeatureAnswered, FetchInv
    <3>3. Running(f) = 1 /\ Running(f)' = 0
      BY <3>1, <3>2 DEF Running
    <3>4. \A g \in Features : g # f => Running(g)' = Running(g)
      BY <3>1, <3>2 DEF Running
    <3>5. \A g : Running(g) \in Nat
      BY DEF Running
    <3>6. FetchLeft' < FetchLeft
      BY <3>3, <3>4, <3>5 DEF FetchLeft, Features
    <3>7. UploadLeft' = UploadLeft /\ StatusLeft' = StatusLeft
      BY <2>3 DEF FeatureAnswered, uploadVars, threadVars, UploadLeft, StatusLeft
    <3> QED
      BY <1>3, <1>4, <3>6, <3>7, ThreeCounts DEF OtherLeft
  <2> QED
    BY <2>1, <2>2, <2>3
<1>6. /\ Rank(Main)' = Rank(Main) /\ Rank(Handler)' = Rank(Handler)
      /\ StoreLeft(Main)' = StoreLeft(Main) /\ StoreLeft(Handler)' = StoreLeft(Handler)
  BY <1>1 DEF Rank, StoreLeft
<1>7. /\ Rank(Main) \in Nat /\ Rank(Handler) \in Nat
      /\ StoreLeft(Main) \in Nat /\ StoreLeft(Handler) \in Nat
  BY MeasureTyped DEF MeasureOK, Threads
<1>8. OtherLeft \in Nat /\ OtherLeft' \in Nat
  BY <1>3, <1>4, ThreeCounts DEF OtherLeft
<1> QED
  BY <1>2, <1>5, <1>6, <1>7, <1>8, MeasureShrinks DEF ProcessLeft

LEMMA InitializeShortens ==
  ASSUME OnceInv, StoreInv, ShortInv, Initialize
  PROVE  ShortInv' /\ ProcessLeft' < ProcessLeft
<1>1. /\ stage[Main] = "initialize" /\ stage[Handler] = "none"
      /\ stage'[Main] = "settings" /\ stage'[Handler] = "idle"
      /\ UNCHANGED <<writes, opened, reporting, status, upload, fetch>>
  BY DEF Initialize, At, StoreInv, uploadVars, fetchVars, Threads, Main, Handler
<1>2. ~ reporting
  BY <1>1 DEF ShortInv
<1>3. ShortInv'
  BY <1>1, <1>2 DEF ShortInv
<1>4. /\ Rank(Main) = 18 /\ Rank(Handler) = 18 /\ Rank(Main)' = 16 /\ Rank(Handler)' = 17
  BY <1>1 DEF Rank, RankOf
<1>5. /\ StoreLeft(Main)' = StoreLeft(Main) /\ StoreLeft(Handler)' = StoreLeft(Handler)
      /\ OtherLeft' = OtherLeft
  BY <1>1 DEF StoreLeft, OtherLeft, FetchLeft, Running, UploadLeft, StatusLeft
<1>6. StoreLeft(Main) \in Nat /\ StoreLeft(Handler) \in Nat /\ OtherLeft \in Nat
  BY MeasureTyped DEF MeasureOK, Threads
<1> QED
  BY <1>3, <1>4, <1>5, <1>6 DEF ProcessLeft

LEMMA ClientShortens ==
  ASSUME OnceInv, StoreInv, FetchInv, ShortInv, StoreInv', [Next]_vars
  PROVE  ShortInv' /\ [ProcessLeft' < ProcessLeft]_vars
<1>1. CASE Initialize
  BY <1>1, InitializeShortens
<1>2. CASE Signal
  BY <1>2, Moves DEF Threads
<1>3. ASSUME NEW t \in Threads, EnsureSettings(t) \/ LateStep(t)
      PROVE  ShortInv' /\ [ProcessLeft' < ProcessLeft]_vars
  BY <1>3, Moves
<1>4. ASSUME NEW t \in Threads, StoreStep(t)
      PROVE  ShortInv' /\ [ProcessLeft' < ProcessLeft]_vars
  BY <1>4, StoreShortens
<1>5. CASE \/ UploadEnds \/ Leave \/ TornRead \/ ExitOnSignal
           \/ \E f \in Features : FeatureAnswered(f)
  BY <1>5, EndShortens
<1>6. CASE UNCHANGED vars
  BY <1>6 DEF vars, threadVars, ShortInv
<1> QED
  BY <1>1, <1>2, <1>3, <1>4, <1>5, <1>6, NextCases

LEMMA StartsAt361 == Init => ProcessLeft = 361
<1> SUFFICES ASSUME Init PROVE ProcessLeft = 361
  OBVIOUS
<1>1. /\ stage[Main] = "initialize" /\ stage[Handler] = "none" /\ ~ reporting
      /\ \A t \in Threads : writes[t] = <<>> /\ ~ opened[t]
      /\ status = "running" /\ upload = "none"
      /\ \A f \in Features : fetch[f] = "off"
  BY DEF Init, Threads, Main, Handler
<1>2. Rank(Main) = 18 /\ Rank(Handler) = 18
  BY <1>1 DEF Rank, RankOf
<1>3. StoreLeft(Main) = 0 /\ StoreLeft(Handler) = 0
  <2>1. Len(<<>>) = 0
    OBVIOUS
  <2> QED
    BY <1>1, <2>1 DEF StoreLeft, Threads
<1>4. OtherLeft = 1
  BY <1>1 DEF OtherLeft, FetchLeft, Running, Features, UploadLeft, StatusLeft
<1> QED
  BY <1>2, <1>3, <1>4 DEF ProcessLeft

(* Every step of the planner, of the signal handler, of the upload and of  *)
(* the requests brings the process nearer to its end: no step is undone or *)
(* repeated without bound, so a process that does not end hangs in one of  *)
(* its at most 361 steps.                                                  *)
THEOREM ProcessIsShort ==
  Spec => [](ProcessLeft \in 0 .. 361) /\ [][ProcessLeft' < ProcessLeft]_vars
<1> DEFINE IInv == OnceInv /\ AwaitInv /\ StoreInv /\ FetchInv /\ ShortInv
           Natural == ProcessLeft \in Nat
           Bounded == ProcessLeft \in 0 .. 361
<1>1. Init => IInv /\ Bounded
  BY ClientInit, ShortInit, StartsAt361
<1>2. IInv /\ [Next]_vars => IInv' /\ [ProcessLeft' < ProcessLeft]_vars
  BY OnceNext, AwaitNext, StoreNext, FetchNext, ClientShortens
<1>3. IInv => Natural
  BY MeasureTyped DEF MeasureOK
<1>4. Bounded /\ Natural' /\ [ProcessLeft' < ProcessLeft]_vars => Bounded'
  <2> SUFFICES ASSUME Bounded, Natural', [ProcessLeft' < ProcessLeft]_vars
               PROVE  Bounded'
    OBVIOUS
  <2>1. CASE ProcessLeft' < ProcessLeft
    BY <2>1
  <2>2. CASE UNCHANGED vars
    <3>1. ProcessLeft' = ProcessLeft
      BY <2>2 DEF vars, threadVars, uploadVars, fetchVars, ProcessLeft, Rank, StoreLeft,
         OtherLeft, FetchLeft, Running, UploadLeft, StatusLeft
    <3> QED
      BY <3>1
  <2> QED
    BY <2>1, <2>2
<1> HIDE DEF IInv, Bounded, Natural
<1>5. Spec => []IInv /\ [][ProcessLeft' < ProcessLeft]_vars
  BY <1>1, <1>2, PTL DEF Spec
<1>6. Spec => []Bounded
  BY <1>1, <1>2, <1>3, <1>4, PTL DEF Spec
<1> QED
  BY <1>5, <1>6, PTL DEF Bounded
-----------------------------------------------------------------------------
(* The values the variables take.                                          *)

(* A file is only truncated when there is a response to write, and that    *)
(* does not vanish before it is written: no answer comes twice.            *)
OpenInv ==
  /\ \A f \in Features : fetch[f] \in {"off", "running"} => raw[f] = "none"
  /\ ~ fetched /\ stage[Main] # "fetching" => \A f \in Features : fetch[f] = "off"
  /\ \A t \in Threads : opened[t] => raw[NextFile(t)] # "none"

LEMMA OpenInit == Init => OpenInv
BY DEF Init, OpenInv, Files, Features

(* A thread moves that stores nothing, and no response that is being       *)
(* stored changes.                                                         *)
LEMMA OpenMove ==
  ASSUME OnceInv, StoreInv, OpenInv, NEW t \in Threads, NEW s \in Stages, Goto(t, s),
         writes[t] = <<>>,
         \A u \in Threads : opened[u] => UNCHANGED raw,
         \A f \in Features : fetch'[f] \in {"off", "running"} => raw'[f] = "none",
         ~ fetched' /\ stage'[Main] # "fetching" => \A f \in Features : fetch'[f] = "off"
  PROVE  OpenInv'
<1>1. /\ opened' = opened
      /\ \A u \in Threads : u # t => writes'[u] = writes[u]
  BY MoveEffect
<1>2. ASSUME NEW u \in Threads, opened'[u] PROVE raw'[NextFile(u)'] # "none"
  <2>1. u # t /\ raw' = raw /\ opened[u]
    BY <1>1, <1>2 DEF StoreInv
  <2>2. NextFile(u)' = NextFile(u)
    BY <1>1, <2>1 DEF NextFile
  <2> QED
    BY <2>1, <2>2 DEF OpenInv
<1> QED
  BY <1>2 DEF OpenInv

LEMMA OpenNext ==
  ASSUME OnceInv, StoreInv, FetchInv, OpenInv, [Next]_vars
  PROVE  OpenInv'
<1>0. Main \in Threads /\ Handler \in Threads /\ Main # Handler
  BY DEF Threads, Main, Handler
<1>1. CASE Initialize
  <2>1. /\ UNCHANGED <<writes, opened, raw, fetched, fetch>>
        /\ stage[Main] = "initialize"
    BY <1>1 DEF Initialize, At, fetchVars
  <2> QED
    BY <2>1 DEF OpenInv, NextFile
<1>2. CASE Signal
  <2>1. /\ Goto(Handler, "settings") /\ stage[Handler] = "idle" /\ "settings" \in Stages
        /\ UNCHANGED <<raw, fetched, fetch>>
    BY <1>2 DEF Signal, At, OnlyThreadsMove, fetchVars, Stages
  <2>2. writes[Handler] = <<>> /\ stage'[Main] = stage[Main]
    BY <1>0, <2>1, MoveEffect DEF StoreInv
  <2> QED
    BY <1>0, <2>1, <2>2, OpenMove DEF OpenInv
<1>3. ASSUME NEW t \in Threads, EnsureSettings(t) PROVE OpenInv'
  <2>1. /\ stage[t] \in OnceStages \cup {"settings"}
        /\ UNCHANGED <<fetched, fetch>> /\ \A f \in Features : raw'[f] = raw[f]
        /\ stage[t] = "settings" => raw' = raw
    BY <1>3, EnsureMoves, EnsureKeeps
  <2>2. PICK s \in OnceStages \cup {"decide", "store"} : Goto(t, s)
    BY <1>3, EnsureMoves
  <2>3. s \in Stages /\ s # "fetching" /\ stage[t] # "fetching"
    BY <2>1, <2>2 DEF OnceStages, Stages
  <2>4. writes[t] = <<>>
    BY <2>1 DEF StoreInv, OnceStages
  <2>5. ASSUME NEW u \in Threads, opened[u] PROVE raw' = raw
    <3>1. stage[u] \in {"store", "skippables"}
      BY <2>5 DEF StoreInv
    <3>2. once = "done"
      BY <3>1 DEF OnceInv, BehindOnce, EarlyStages, OnceStages
    <3>3. ~ InOnce(t)
      BY <3>2 DEF OnceInv
    <3> QED
      BY <2>1, <3>3 DEF InOnce
  <2>6. stage'[Main] # "fetching" => stage[Main] # "fetching"
    <3>1. stage'[t] = s /\ \A u \in Threads : u # t => stage'[u] = stage[u]
      BY <1>3, <2>2, <2>3, MoveEffect
    <3> QED
      BY <1>0, <2>3, <3>1
  <2> QED
    BY <2>1, <2>2, <2>3, <2>4, <2>5, <2>6, OpenMove DEF OpenInv
<1>4. ASSUME NEW t \in Threads, LateStep(t) PROVE OpenInv'
  <2>1. raw' = raw /\ writes[t] = <<>>
    BY <1>4, LateEffect
  <2>2. PICK s \in LateStages : Goto(t, s)
    BY <1>4, LateEffect
  <2>3. stage'[t] = s /\ \A u \in Threads : u # t => stage'[u] = stage[u]
    BY <2>2, MoveEffect DEF LateStages
  <2>4. CASE t = Main /\ FetchFeatures
    <3>1. /\ ~ fetched /\ stage[Main] = "features" /\ fetched' = fetched
          /\ fetch' = [f \in Features |-> IF f \in enabled THEN "running" ELSE "off"]
          /\ Goto(t, "fetching") /\ "fetching" \in Stages
      BY <2>4 DEF FetchFeatures, At, Stages
    <3>2. \A f \in Features : raw[f] = "none"
      BY <3>1 DEF OpenInv
    <3>3. stage'[Main] = "fetching"
      BY <1>0, <2>4, <3>1, MoveEffect
    <3> QED
      BY <2>1, <3>1, <3>2, <3>3, OpenMove
  <2>5. CASE ~ (t = Main /\ FetchFeatures)
    <3>1. fetch' = fetch
      BY <1>4, <2>5 DEF LateStep, Decide, FeaturesKnown, FeaturesFetched, Report,
         AllStored, Lock, Close, OnlyThreadsMove, fetchVars
    <3>2. fetched' = TRUE \/ (fetched' = fetched /\ (t = Main => stage[Main] # "fetching"))
      BY <1>4, <2>5 DEF LateStep, Decide, FeaturesKnown, FeaturesFetched, Report,
         AllStored, Lock, Close, OnlyThreadsMove, fetchVars, At
    <3>3. ~ fetched' /\ stage'[Main] # "fetching" => \A f \in Features : fetch'[f] = "off"
      BY <1>0, <2>3, <3>1, <3>2 DEF OpenInv
    <3> QED
      BY <2>1, <2>2, <3>1, <3>3, OpenMove DEF OpenInv, LateStages
  <2> QED
    BY <2>4, <2>5
<1>5. ASSUME NEW t \in Threads, StoreStep(t) PROVE OpenInv'
  <2>1. /\ UNCHANGED <<stage, fetched, fetch, raw>>
        /\ writes \in [Threads -> Seq(Files)] /\ opened \in [Threads -> BOOLEAN]
    BY <1>5, StoreEffect DEF fetchVars, StoreInv
  <2>2. CASE OpenFile(t)
    BY <2>1, <2>2 DEF OpenFile, OpenInv, NextFile
  <2>3. CASE ~ OpenFile(t)
    <3>1. opened' = [opened EXCEPT ![t] = FALSE] /\ writes' = [writes EXCEPT ![t] = Tail(@)]
      BY <1>5, <2>1, <2>3 DEF StoreStep, NothingToStore, WriteFile, StoreFails, Stored
    <3> QED
      BY <2>1, <3>1 DEF OpenInv, NextFile
  <2> QED
    BY <2>2, <2>3
<1>6. ASSUME NEW f \in Features, FeatureAnswered(f) PROVE OpenInv'
  <2>1. /\ UNCHANGED <<stage, writes, opened, fetched>> /\ fetch[f] = "running"
        /\ fetch' = [fetch EXCEPT ![f] = fetch'[f]] /\ raw' = [raw EXCEPT ![f] = raw'[f]]
        /\ fetch'[f] \notin {"off", "running"}
    BY <1>6 DEF FeatureAnswered, threadVars, FetchInv, StoreInv, Files
  <2>2. raw[f] = "none" /\ stage[Main] = "fetching"
    BY <2>1 DEF OpenInv, FetchInv
  <2>3. ASSUME NEW t \in Threads, opened'[t] PROVE raw'[NextFile(t)'] # "none"
    <3>1. NextFile(t)' = NextFile(t) /\ raw[NextFile(t)] # "none"
      BY <2>1, <2>3 DEF OpenInv, NextFile
    <3>2. NextFile(t) \in Files
      BY <2>1, <2>3, UnstoredTail DEF StoreInv, NextFile
    <3> QED
      BY <2>1, <2>2, <3>1, <3>2 DEF StoreInv
  <2>4. \A g \in Features : fetch'[g] \in {"off", "running"} => raw'[g] = "none"
    BY <2>1 DEF OpenInv, FetchInv, StoreInv, Files
  <2> QED
    BY <2>1, <2>2, <2>3, <2>4 DEF OpenInv
<1>7. CASE UploadEnds \/ Leave \/ TornRead \/ ExitOnSignal
  BY <1>7 DEF UploadEnds, Leave, TornRead, ExitOnSignal, OpenInv, NextFile, fetchVars, threadVars
<1>8. CASE UNCHANGED vars
  BY <1>8 DEF vars, OpenInv, NextFile, fetchVars, threadVars
<1> QED
  BY <1>1, <1>2, <1>3, <1>4, <1>5, <1>6, <1>7, <1>8, NextCases

(* What the other invariants do not say of the variables.                  *)
ValuesInv ==
  /\ status \in {"running", "returned", "signalled", "crashed"}
  /\ {transport, gitRequired, available, timedOut, fetched, writeFailed} \subseteq BOOLEAN
  /\ once \in {"new", "running", "done"}
  /\ enabled \subseteq Features \cup {"tia"}
  /\ upload \in {"none", "running", "done"}
  /\ fetch \in [Features -> {"off", "running", "data", "rejected", "failed"}]
  /\ closeActions \in {0, 1}
  /\ file \in [Files -> {"before", "partial", "git", "data", "error"}]

LEMMA ValuesInit == Init => ValuesInv
<1> SUFFICES ASSUME Init PROVE ValuesInv
  OBVIOUS
<1>1. /\ fetch \in [Features -> {"off", "running", "data", "rejected", "failed"}]
      /\ file \in [Files -> {"before", "partial", "git", "data", "error"}]
  BY DEF Init
<1>2. {transport, gitRequired, available, timedOut, fetched, writeFailed} \subseteq BOOLEAN
  BY DEF Init
<1> QED
  BY <1>1, <1>2 DEF Init, ValuesInv

LEMMA ValuesNext ==
  ASSUME OnceInv, StoreInv, OpenInv, ValuesInv, [Next]_vars
  PROVE  ValuesInv'
<1> USE DEF ValuesInv, OnlyThreadsMove, settingsVars, uploadVars, fetchVars, cacheVars, threadVars
<1>1. CASE Initialize \/ UploadEnds
  BY <1>1 DEF Initialize, UploadEnds
<1>2. CASE Signal
  BY <1>2 DEF Signal, Goto
<1>3. ASSUME NEW t \in Threads, EnsureSettings(t) PROVE ValuesInv'
  <2>1. status' = status /\ UNCHANGED <<fetched, fetch, file, writeFailed>>
    BY <1>3, EnsureMoves, EnsureKeeps DEF Goto
  <2>2. CASE SettingsArrive(t) \/ RepeatArrives(t)
    <3>1. PICK on \in SettingsData : enabled' \in AfterOverrides(on) /\ available' = TRUE
      BY <2>2 DEF SettingsArrive, RepeatArrives
    <3>2. enabled' \subseteq Features \cup {"tia"}
      BY <3>1, SettingsAssumption DEF AfterOverrides
    <3> QED
      BY <2>1, <2>2, <3>1, <3>2 DEF SettingsArrive, RepeatArrives
  <2>3. CASE ~ SettingsArrive(t) /\ ~ RepeatArrives(t)
    BY <1>3, <2>1, <2>3 DEF EnsureSettings, SettingsKnown, NoTransport, StartSettings,
       SettingsFail, SettingsRequireGit, UploadArrived, UploadTooLate, RepeatFails,
       PushCloseAction
  <2> QED
    BY <2>2, <2>3
<1>4. ASSUME NEW t \in Threads, LateStep(t) PROVE ValuesInv'
  <2>1. status' = status /\ UNCHANGED <<settingsVars, file, writeFailed>>
    BY <1>4, LateEffect DEF Goto
  <2>2. /\ upload' = upload /\ closeActions' \in {closeActions, 0}
        /\ timedOut' \in BOOLEAN /\ fetched' \in BOOLEAN
    BY <1>4 DEF LateStep, Decide, FeaturesKnown, FetchFeatures, FeaturesFetched, Report,
       AllStored, Lock, Close
  <2>3. fetch' \in [Features -> {"off", "running", "data", "rejected", "failed"}]
    BY <1>4 DEF LateStep, Decide, FeaturesKnown, FetchFeatures, FeaturesFetched, Report,
       AllStored, Lock, Close
  <2> QED
    BY <2>1, <2>2, <2>3
<1>5. ASSUME NEW t \in Threads, StoreStep(t) PROVE ValuesInv'
  <2>1. UNCHANGED <<status, settingsVars, uploadVars, fetchVars>> /\ NextFile(t) \in Files
    BY <1>5, StoreEffect
  <2>2. raw[NextFile(t)] \in {"none", "git", "data", "error"}
    BY <2>1 DEF StoreInv
  <2>3. opened[t] => raw[NextFile(t)] # "none"
    BY DEF OpenInv
  <2>4. file' \in [Files -> {"before", "partial", "git", "data", "error"}]
    BY <1>5, <2>1, <2>2, <2>3 DEF StoreStep, NothingToStore, OpenFile, WriteFile, StoreFails
  <2>5. writeFailed' \in BOOLEAN
    BY <1>5 DEF StoreStep, NothingToStore, OpenFile, WriteFile, StoreFails
  <2> QED
    BY <2>1, <2>4, <2>5
<1>6. ASSUME NEW f \in Features, FeatureAnswered(f) PROVE ValuesInv'
  BY <1>6 DEF FeatureAnswered
<1>7. CASE Leave \/ TornRead \/ ExitOnSignal
  BY <1>7 DEF Leave, TornRead, ExitOnSignal
<1>8. CASE UNCHANGED vars
  BY <1>8 DEF vars
<1> QED
  BY <1>1, <1>2, <1>3, <1>4, <1>5, <1>6, <1>7, <1>8, NextCases

LEMMA ClientTyped ==
  ASSUME OnceInv, StoreInv, LockInv, ShortInv, ValuesInv
  PROVE  TypeOK
<1>1. \A t \in Threads : writes[t] \in Seq(Files) /\ Len(writes[t]) <= 3
  BY DEF StoreInv, ShortInv
<1>2. mutex \in Threads \cup {"free"} /\ stage \in [Threads -> Stages]
      /\ opened \in [Threads -> BOOLEAN]
      /\ raw \in [Files -> {"none", "git", "data", "error"}]
  BY DEF LockInv, OnceInv, StoreInv
<1>3. reporting \in BOOLEAN
  BY DEF ShortInv
<1> QED
  BY <1>1, <1>2, <1>3 DEF TypeOK, ValuesInv

(* Every variable has its type in every reachable state; in particular a   *)
(* cache file that was truncated never receives an absent response, also   *)
(* when the signal handler stores it while the answers come in.            *)
THEOREM TypeCorrect == Spec => []TypeOK
<1> DEFINE IInv == /\ OnceInv /\ AwaitInv /\ StoreInv /\ FetchInv
                   /\ LockInv /\ ShortInv /\ OpenInv /\ ValuesInv
<1>1. Init => IInv
  BY ClientInit, LockInit, ShortInit, OpenInit, ValuesInit
<1>2. IInv /\ [Next]_vars => IInv'
  BY OnceNext, AwaitNext, StoreNext, FetchNext, LockNext, ClientShortens, OpenNext, ValuesNext
<1>3. IInv => TypeOK
  BY ClientTyped
<1> QED
  BY <1>1, <1>2, <1>3, PTL DEF Spec
=============================================================================
