-------------------------- MODULE GitUploadProofs --------------------------
(***************************************************************************)
(* Proofs about GitUpload, for a history of any length, any limit of git   *)
(* log, any set of commits at the backend and any number of packs: the     *)
(* pack directory is removed on every way out, success means that every    *)
(* pack was accepted, packs hold only what the backend misses if it has    *)
(* one of the commits it is asked about, and every step nears the end.     *)
(***************************************************************************)
EXTENDS GitUpload, FiniteSetTheorems, TLAPS

(* Stages with a pack directory on disk, and those between the search and  *)
(* the list of objects.                                                    *)
WithFolder == {"pack", "send", "cleanup"}
Searched == {"unshallow", "log", "fetchHead", "upstream", "fetchUpstream",
             "fetchRemote", "objects"}
Early == Searched \cup {"metadata", "search"}
Late == {"mkdir"} \cup WithFolder

(* Only the directory in use is on disk, and only while it is in use.      *)
FoldersInv ==
  /\ stage \in Early \cup Late \cup Ended
  /\ stage \in WithFolder => folders = {folder}
  /\ stage \in Early \cup {"mkdir", "done"} => folders = {}

(* What was packed is at the backend, in a pack still to send, or in one   *)
(* whose loss is remembered.                                               *)
Accounted == \A c \in sent : c \in backend \/ \E p \in DOMAIN packs : c \in packs[p]
AcceptInv ==
  /\ result # "none" => stage = "done"
  /\ stage = "send" => failed \/ Accounted
  /\ stage = "cleanup" => failed \/ sent \subseteq backend
  /\ SuccessMeansAccepted

(* Until the objects are listed the last answer is about the latest        *)
(* commits that the clone shows, and nothing reaches the backend before a  *)
(* pack is sent.                                                           *)
MissingInv ==
  /\ visible \in Nat
  /\ stage \in Searched => remote = backend \cap Latest
  /\ stage \in {"mkdir", "pack"} => sent \cap backend = {} \/ Latest \cap backend = {}

GitInv == FoldersInv /\ AcceptInv /\ MissingInv

LEMMA InitGitInv == Init => GitInv
<1> SUFFICES ASSUME Init PROVE GitInv
  OBVIOUS
<1>1. stage \in {"metadata", "search"} /\ folders = {} /\ result = "none"
  BY DEF Init
<1>2. visible \in Nat
  BY GitUploadAssumption DEF Init, Commits
<1> QED
  BY <1>1, <1>2 DEF GitInv, FoldersInv, AcceptInv, MissingInv, Early, Late, WithFolder,
     Searched, Ended, SuccessMeansAccepted

(* Before the objects are listed a step leaves packs and backend alone,    *)
(* and when it goes on without a new search, clone and answer too.         *)
LEMMA EarlyMove ==
  ASSUME GitInv, stage \in Early, UNCHANGED <<Packing, Sending, result>>,
         visible' \in Nat, stage' \in Early \cup {"crashed"},
         stage' \in Searched => stage \in Searched /\ UNCHANGED <<visible, remote>>
  PROVE  GitInv'
BY DEF GitInv, FoldersInv, AcceptInv, MissingInv, Early, Late, WithFolder, Searched, Ended,
   SuccessMeansAccepted, Packing, Sending, Latest

LEMMA EarlySteps ==
  ASSUME GitInv,
         Metadata \/ UnshallowCheck \/ UnshallowPossible \/ FetchHead
           \/ UpstreamName \/ FetchUpstream \/ FetchRemote
  PROVE  GitInv'
<1> USE DEF Early, Searched, Goto, Clone, Search, SendInitial
<1>1. visible \in Nat
  BY DEF GitInv, MissingInv
<1>2. Deepened => visible' \in Nat
  BY <1>1, GitUploadAssumption DEF Deepened
<1>3. CASE Metadata
  BY <1>1, <1>3, EarlyMove DEF Metadata, CheckShallow
<1>4. CASE UnshallowCheck
  BY <1>1, <1>4, EarlyMove DEF UnshallowCheck, CheckShallow
<1>5. CASE UnshallowPossible
  BY <1>1, <1>5, EarlyMove DEF UnshallowPossible
<1>6. CASE FetchHead
  BY <1>1, <1>2, <1>6, EarlyMove DEF FetchHead, FetchTry, Unshallowed
<1>7. CASE UpstreamName
  BY <1>1, <1>7, EarlyMove DEF UpstreamName
<1>8. CASE FetchUpstream
  BY <1>1, <1>2, <1>8, EarlyMove DEF FetchUpstream, FetchTry, Unshallowed
<1>9. CASE FetchRemote
  BY <1>1, <1>2, <1>9, EarlyMove DEF FetchRemote, Unshallowed
<1> QED
  BY <1>3, <1>4, <1>5, <1>6, <1>7, <1>8, <1>9

(* A search that goes on knows what the backend has of the clone.          *)
LEMMA SearchStep == GitInv /\ SearchCommits => GitInv'
<1> SUFFICES ASSUME GitInv, SearchCommits PROVE GitInv'
  OBVIOUS
<1> USE DEF Early, Late, WithFolder, Searched, Ended
<1>1. /\ stage = "search" /\ UNCHANGED <<visible, folders, folder, packs, sent, backend, failed>>
      /\ \/ stage' = "done" /\ result' \in {"nothing", "error"}
         \/ /\ stage' \in {"objects", "unshallow"} /\ result' = result
            /\ remote' = backend \cap Latest
  <2>1. PICK local \in LocalCommits :
          \/ Finish("nothing") /\ remote' = remote
          \/ local # {} /\ Finish("error") /\ remote' = remote
          \/ /\ local # {}
             /\ remote' = Known(local)
             /\ IF again THEN Goto("objects") /\ UNCHANGED result
                ELSE IF Missing(local) = {} THEN Finish("nothing")
                ELSE Goto("unshallow") /\ UNCHANGED result
    BY DEF SearchCommits
  <2>2. local # {} => local = Latest
    BY DEF LocalCommits
  <2>3. stage = "search" /\ UNCHANGED <<visible, folders, folder, packs, sent, backend, failed>>
    BY DEF SearchCommits, Clone, Packing, Sending
  <2> QED
    BY <2>1, <2>2, <2>3 DEF Finish, Goto, Known
<1>2. FoldersInv'
  BY <1>1 DEF GitInv, FoldersInv
<1>3. AcceptInv'
  BY <1>1 DEF GitInv, AcceptInv, SuccessMeansAccepted
<1>4. MissingInv'
  BY <1>1 DEF GitInv, MissingInv, Latest
<1> QED
  BY <1>2, <1>3, <1>4 DEF GitInv

(* What is listed is newer than all that the backend has of the latest     *)
(* commits, and if it has one of them this makes it one of them, too.      *)
LEMMA ListedIsMissing ==
  ASSUME visible \in Nat, remote = backend \cap Latest
  PROVE  Objects \cap backend = {} \/ Latest \cap backend = {}
<1> SUFFICES ASSUME NEW c \in Objects, c \in backend, NEW e \in Latest, e \in backend
             PROVE  FALSE
  OBVIOUS
<1>1. c \in 1 .. visible /\ \A d \in remote : c < d
  BY DEF Objects
<1>2. c \in remote
  <2>1. c < e /\ e \in 1 .. visible /\ e <= LogLimit
    BY <1>1 DEF Latest
  <2>2. c <= LogLimit
    BY <1>1, <2>1, GitUploadAssumption
  <2> QED
    BY <1>1, <2>2 DEF Latest
<1>3. c < c
  BY <1>1, <1>2
<1>4. c \in Nat
  BY <1>1
<1> QED
  BY <1>3, <1>4

LEMMA ObjectsStep == GitInv /\ (ListObjects \/ MakeFolder) => GitInv'
<1> SUFFICES ASSUME GitInv, ListObjects \/ MakeFolder PROVE GitInv'
  OBVIOUS
<1> USE DEF GitInv, FoldersInv, AcceptInv, MissingInv, Early, Late, WithFolder, Searched,
            Ended, SuccessMeansAccepted, Goto, Finish, Clone, Search, Sending
<1>1. CASE ListObjects
  <2>1. visible \in Nat /\ (stage = "objects" => remote = backend \cap Latest)
    OBVIOUS
  <2>2. stage = "objects" => Objects \cap backend = {} \/ Latest \cap backend = {}
    BY <2>1, ListedIsMissing
  <2>3. Latest' = Latest
    BY <1>1 DEF ListObjects, Latest
  <2> QED
    BY <1>1, <2>2, <2>3 DEF ListObjects
<1>2. CASE MakeFolder
  BY <1>2 DEF MakeFolder, NextFolder, Latest
<1> QED
  BY <1>1, <1>2

(* Packing: every object that is left is in one of the packs.              *)
LEMMA PackStep == GitInv /\ PackObjects => GitInv'
<1> SUFFICES ASSUME GitInv, PackObjects PROVE GitInv'
  OBVIOUS
<1> USE DEF GitInv, FoldersInv, AcceptInv, MissingInv, Early, Late, WithFolder, Searched,
            Ended, SuccessMeansAccepted, Goto, Finish, Latest
<1>1. stage = "pack" /\ UNCHANGED <<visible, remote, backend, failed>>
  BY DEF PackObjects, Clone, Search, Sending
<1>2. CASE NextFolder /\ folders' = folders \ {folder} /\ UNCHANGED <<packs, sent>>
  BY <1>1, <1>2 DEF NextFolder
<1>3. CASE ~(NextFolder /\ folders' = folders \ {folder} /\ UNCHANGED <<packs, sent>>)
  <2>1. PICK n \in 1 .. MaxPacks : \E of \in [sent -> 1 .. n], found \in SUBSET (1 .. n) :
          /\ packs' = [p \in found |-> {c \in sent : of[c] = p}]
          /\ sent' = {c \in sent : of[c] \in found}
          /\ IF found = {}
             THEN folders' = folders \ {folder} /\ Finish("nothing")
             ELSE folders' = folders /\ Goto("send") /\ UNCHANGED result
          /\ UNCHANGED folder
    BY <1>3 DEF PackObjects
  <2>2. Accounted' /\ sent' \subseteq sent
    BY <2>1 DEF Accounted
  <2>3. \/ folders' = folders \ {folder} /\ Finish("nothing")
        \/ folders' = folders /\ Goto("send") /\ UNCHANGED result
    BY <2>1
  <2>4. folder' = folder
    BY <2>1
  <2> QED
    BY <1>1, <2>2, <2>3, <2>4
<1> QED
  BY <1>2, <1>3

LEMMA EmptyDomain == \A f : f = <<>> => DOMAIN f = {}
OBVIOUS

(* Sending: a pack that leaves the list is at the backend, or remembered.  *)
LEMMA SendStep == GitInv /\ (SendPack \/ CleanupPackFiles) => GitInv'
<1> SUFFICES ASSUME GitInv, SendPack \/ CleanupPackFiles PROVE GitInv'
  OBVIOUS
<1> USE DEF GitInv, FoldersInv, AcceptInv, MissingInv, Early, Late, WithFolder, Searched,
            Ended, SuccessMeansAccepted, Goto, Finish
<1>1. CASE SendPack
  <2>1. /\ stage = "send"
        /\ UNCHANGED <<visible, remote, folders, folder, sent, result>>
    BY <1>1 DEF SendPack, Clone, Search
  <2>2. PICK p \in DOMAIN packs :
          /\ packs' = [q \in DOMAIN packs \ {p} |-> packs[q]]
          /\ \/ /\ backend' = backend \cup packs[p] /\ failed' = failed
                /\ Goto(IF packs' = <<>> THEN "cleanup" ELSE "send")
             \/ /\ backend' = backend /\ failed' = TRUE
                /\ Goto(IF packs' = <<>> THEN "cleanup" ELSE "send")
             \/ /\ backend' = backend /\ failed' = TRUE
                /\ Goto("cleanup")
    BY <1>1 DEF SendPack
  <2>3. stage' \in {"send", "cleanup"}
    BY <2>2
  <2>4. CASE failed' = TRUE
    BY <2>1, <2>3, <2>4
  <2>5. CASE /\ backend' = backend \cup packs[p] /\ failed' = failed
             /\ Goto(IF packs' = <<>> THEN "cleanup" ELSE "send")
    <3>1. failed' \/ Accounted'
      BY <2>1, <2>2, <2>5 DEF Accounted
    <3>2. stage' = "cleanup" => packs' = <<>>
      BY <2>5
    <3>3. packs' = <<>> => DOMAIN packs' = {}
      BY EmptyDomain
    <3>4. stage' = "cleanup" => failed' \/ sent' \subseteq backend'
      BY <3>1, <3>2, <3>3 DEF Accounted
    <3> QED
      BY <2>1, <2>3, <3>1, <3>4
  <2> QED
    BY <2>2, <2>4, <2>5
<1>2. CASE CleanupPackFiles
  BY <1>2 DEF CleanupPackFiles, Clone, Search, Sending
<1> QED
  BY <1>1, <1>2

LEMMA NextGitInv == GitInv /\ [Next]_vars => GitInv'
<1> SUFFICES ASSUME GitInv, [Next]_vars PROVE GitInv'
  OBVIOUS
<1>1. CASE Step
  BY <1>1, EarlySteps, SearchStep, ObjectsStep, PackStep, SendStep DEF Step
<1>2. CASE ProcessExit
  BY <1>2 DEF ProcessExit, Goto, Clone, Search, Packing, Sending, GitInv, FoldersInv,
     AcceptInv, MissingInv, Early, Late, WithFolder, Searched, Ended, SuccessMeansAccepted
<1>3. CASE UNCHANGED vars
  BY <1>3 DEF vars, GitInv, FoldersInv, AcceptInv, MissingInv, Accounted,
     SuccessMeansAccepted, Latest
<1> QED
  BY <1>1, <1>2, <1>3 DEF Next

LEMMA GitInvariant == Spec => []GitInv
BY InitGitInv, NextGitInv, PTL DEF Spec

(* No pack directory outlives an upload that returns: sendObjectsPackFile  *)
(* and CreatePackFiles remove it whichever of their steps fails.           *)
THEOREM PacksRemoved == Spec => []PacksAreRemoved
<1>1. GitInv => PacksAreRemoved
  BY DEF GitInv, FoldersInv, PacksAreRemoved
<1> QED
  BY <1>1, GitInvariant, PTL

(* SendPackFiles reports success only when every pack was accepted.        *)
THEOREM SuccessIsAcceptance == Spec => []SuccessMeansAccepted
<1>1. GitInv => SuccessMeansAccepted
  BY DEF GitInv, AcceptInv
<1> QED
  BY <1>1, GitInvariant, PTL

(* uploadRepositoryChangesFromGit packs nothing the backend has, also      *)
(* after the clone was deepened between its two searches, as soon as the   *)
(* backend has one of the commits it is asked about.                       *)
THEOREM MissingIsPacked == Spec => OnlyMissingIsPacked
<1>1. GitInv /\ [Next]_vars =>
          [stage = "pack" /\ stage' = "send" =>
             sent' \cap backend = {} \/ Latest \cap backend = {}]_vars
  <2> SUFFICES ASSUME GitInv, [Next]_vars, stage = "pack", stage' = "send"
               PROVE  sent' \cap backend = {} \/ Latest \cap backend = {}
    OBVIOUS
  <2>1. sent \cap backend = {} \/ Latest \cap backend = {}
    BY DEF GitInv, MissingInv
  <2>2. PackObjects
    BY DEF Next, Step, ProcessExit, vars, Goto, Ended, Metadata, SearchCommits, UnshallowCheck,
       UnshallowPossible, FetchHead, FetchTry, UpstreamName, FetchUpstream, FetchRemote,
       ListObjects, MakeFolder, SendPack, CleanupPackFiles
  <2>3. sent' \subseteq sent
    BY <2>2 DEF PackObjects
  <2> QED
    BY <2>1, <2>3
<1> QED
  BY <1>1, GitInvariant, PTL DEF Spec, OnlyMissingIsPacked

-----------------------------------------------------------------------------
(* Types, and the end of the upload.                                       *)

Stages == {"metadata", "search", "unshallow", "log", "fetchHead",
           "upstream", "fetchUpstream", "fetchRemote", "objects",
           "mkdir", "pack", "send", "cleanup"} \cup Ended

LEMMA InitTypeOK == Init => TypeOK
<1> SUFFICES ASSUME Init PROVE TypeOK
  OBVIOUS
<1>1. DOMAIN packs = {}
  BY EmptyDomain DEF Init
<1> QED
  BY <1>1 DEF Init, TypeOK

(* Before the objects are listed only the clone and the answer change.     *)
LEMMA EarlyTyped ==
  ASSUME TypeOK, UNCHANGED <<version, Packing, Sending, result>>,
         stage' \in Stages, visible' \in Commits, memo' \in {"unset", "shallow", "full"},
         again' \in BOOLEAN, remote' \in SUBSET Commits
  PROVE  TypeOK'
BY DEF TypeOK, Stages, Packing, Sending, Commits

LEMMA EarlyTypes ==
  ASSUME TypeOK,
         Metadata \/ UnshallowCheck \/ UnshallowPossible \/ FetchHead
           \/ UpstreamName \/ FetchUpstream \/ FetchRemote
  PROVE  TypeOK'
<1> USE DEF Stages, Goto, Clone, Search, SendInitial
<1>1. /\ visible \in Commits /\ memo \in {"unset", "shallow", "full"}
      /\ again \in BOOLEAN /\ remote \in SUBSET Commits
  BY DEF TypeOK
<1>2. Deepened => visible' \in Commits
  BY <1>1, GitUploadAssumption DEF Deepened, Commits
<1>3. CASE Metadata
  BY <1>1, <1>3, EarlyTyped DEF Metadata, CheckShallow
<1>4. CASE UnshallowCheck
  BY <1>1, <1>4, EarlyTyped DEF UnshallowCheck, CheckShallow
<1>5. CASE UnshallowPossible
  BY <1>1, <1>5, EarlyTyped DEF UnshallowPossible, Ended
<1>6. CASE FetchHead
  BY <1>1, <1>2, <1>6, EarlyTyped DEF FetchHead, FetchTry, Unshallowed, Ended
<1>7. CASE UpstreamName
  BY <1>1, <1>7, EarlyTyped DEF UpstreamName
<1>8. CASE FetchUpstream
  BY <1>1, <1>2, <1>8, EarlyTyped DEF FetchUpstream, FetchTry, Unshallowed, Ended
<1>9. CASE FetchRemote
  BY <1>1, <1>2, <1>9, EarlyTyped DEF FetchRemote, Unshallowed
<1> QED
  BY <1>3, <1>4, <1>5, <1>6, <1>7, <1>8, <1>9

LEMMA SearchTypes == TypeOK /\ SearchCommits => TypeOK'
<1> SUFFICES ASSUME TypeOK, SearchCommits PROVE TypeOK'
  OBVIOUS
<1>1. /\ stage' \in {"done", "objects", "unshallow"}
      /\ result' \in {result, "nothing", "error"}
      /\ remote' = remote \/ remote' \subseteq backend
      /\ UNCHANGED <<visible, memo, version, again, folders, folder, packs, sent, backend, failed>>
  <2>1. PICK local \in LocalCommits :
          \/ Finish("nothing") /\ remote' = remote
          \/ local # {} /\ Finish("error") /\ remote' = remote
          \/ /\ local # {}
             /\ remote' = Known(local)
             /\ IF again THEN Goto("objects") /\ UNCHANGED result
                ELSE IF Missing(local) = {} THEN Finish("nothing")
                ELSE Goto("unshallow") /\ UNCHANGED result
    BY DEF SearchCommits
  <2>2. UNCHANGED <<visible, memo, version, again, folders, folder, packs, sent, backend, failed>>
    BY DEF SearchCommits, Clone, Packing, Sending
  <2> QED
    BY <2>1, <2>2 DEF Finish, Goto, Known
<1> QED
  BY <1>1 DEF TypeOK, Ended, Commits

LEMMA ObjectsTypes == TypeOK /\ (ListObjects \/ MakeFolder) => TypeOK'
<1> SUFFICES ASSUME TypeOK, ListObjects \/ MakeFolder PROVE TypeOK'
  OBVIOUS
<1> USE DEF TypeOK, Ended, Goto, Finish, Clone, Search, Sending
<1>1. CASE ListObjects
  <2>1. Objects \subseteq Commits
    <3>1. visible \in 1 .. History /\ History \in Nat
      BY GitUploadAssumption DEF Commits
    <3> QED
      BY ONLY <3>1 DEF Objects, Commits
  <2>2. /\ stage' \in {"done", "mkdir"} /\ result' \in {result, "nothing"} /\ sent' \in {sent, Objects}
        /\ UNCHANGED <<visible, memo, version, again, remote, folders, folder, packs, backend, failed>>
    BY <1>1 DEF ListObjects
  <2> QED
    BY <2>1, <2>2 DEF Commits
<1>2. CASE MakeFolder
  <2>1. /\ stage' \in {"done", "mkdir", "pack"} /\ result' \in {result, "nothing"}
        /\ folder' \in {folder, 2} /\ folders' \in {folders, folders \cup {folder}}
        /\ UNCHANGED <<visible, memo, version, again, remote, packs, sent, backend, failed>>
    BY <1>2 DEF MakeFolder, NextFolder
  <2> QED
    BY <2>1 DEF Commits
<1> QED
  BY <1>1, <1>2

LEMMA PackTypes == TypeOK /\ PackObjects => TypeOK'
<1> SUFFICES ASSUME TypeOK, PackObjects PROVE TypeOK'
  OBVIOUS
<1>1. UNCHANGED <<visible, memo, version, again, remote, backend, failed>>
  BY DEF PackObjects, Clone, Search, Sending
<1>2. /\ stage' \in {"done", "mkdir", "send"} /\ result' \in {result, "nothing"}
      /\ folder' \in {folder, 2} /\ folders' \subseteq folders /\ sent' \subseteq sent
      /\ DOMAIN packs' \subseteq 1 .. MaxPacks
      /\ \A p \in DOMAIN packs' : packs'[p] \subseteq Commits
  <2>1. CASE NextFolder /\ folders' = folders \ {folder} /\ UNCHANGED <<packs, sent>>
    BY <2>1 DEF NextFolder, Goto, Finish, TypeOK
  <2>2. CASE ~(NextFolder /\ folders' = folders \ {folder} /\ UNCHANGED <<packs, sent>>)
    <3>1. PICK n \in 1 .. MaxPacks : \E of \in [sent -> 1 .. n], found \in SUBSET (1 .. n) :
            /\ packs' = [p \in found |-> {c \in sent : of[c] = p}]
            /\ sent' = {c \in sent : of[c] \in found}
            /\ IF found = {}
               THEN folders' = folders \ {folder} /\ Finish("nothing")
               ELSE folders' = folders /\ Goto("send") /\ UNCHANGED result
            /\ UNCHANGED folder
      BY <2>2 DEF PackObjects
    <3>2. \A m \in 1 .. n : m \in 1 .. MaxPacks
      BY GitUploadAssumption
    <3>3. sent \subseteq Commits
      BY DEF TypeOK
    <3> QED
      BY <3>1, <3>2, <3>3 DEF Goto, Finish
  <2> QED
    BY <2>1, <2>2
<1> QED
  BY <1>1, <1>2 DEF TypeOK, Ended, Commits

LEMMA SendTypes == TypeOK /\ (SendPack \/ CleanupPackFiles) => TypeOK'
<1> SUFFICES ASSUME TypeOK, SendPack \/ CleanupPackFiles PROVE TypeOK'
  OBVIOUS
<1>1. CASE SendPack
  <2>1. PICK p \in DOMAIN packs :
          /\ packs' = [q \in DOMAIN packs \ {p} |-> packs[q]]
          /\ \/ /\ backend' = backend \cup packs[p] /\ failed' = failed
                /\ Goto(IF packs' = <<>> THEN "cleanup" ELSE "send")
             \/ /\ backend' = backend /\ failed' = TRUE
                /\ Goto(IF packs' = <<>> THEN "cleanup" ELSE "send")
             \/ /\ backend' = backend /\ failed' = TRUE
                /\ Goto("cleanup")
    BY <1>1 DEF SendPack
  <2>2. UNCHANGED <<visible, memo, version, again, remote, folders, folder, sent, result>>
    BY <1>1 DEF SendPack, Clone, Search
  <2>3. /\ stage' \in {"send", "cleanup"} /\ backend' \subseteq Commits /\ failed' \in BOOLEAN
        /\ DOMAIN packs' \subseteq 1 .. MaxPacks
        /\ \A q \in DOMAIN packs' : packs'[q] \subseteq Commits
    BY <2>1 DEF TypeOK, Goto
  <2> QED
    BY <2>2, <2>3 DEF TypeOK, Commits
<1>2. CASE CleanupPackFiles
  <2>1. DOMAIN packs' = {}
    BY <1>2, EmptyDomain DEF CleanupPackFiles
  <2>2. /\ stage' = "done" /\ result' \in {"error", "ok"} /\ folders' \subseteq folders
        /\ UNCHANGED <<visible, memo, version, again, remote, folder, sent, backend, failed>>
    BY <1>2 DEF CleanupPackFiles, Finish, Goto, Clone, Search, Sending
  <2> QED
    BY <2>1, <2>2 DEF TypeOK, Ended, Commits
<1> QED
  BY <1>1, <1>2

LEMMA NextTypeOK == TypeOK /\ [Next]_vars => TypeOK'
<1> SUFFICES ASSUME TypeOK, [Next]_vars PROVE TypeOK'
  OBVIOUS
<1>1. CASE Step
  BY <1>1, EarlyTypes, SearchTypes, ObjectsTypes, PackTypes, SendTypes DEF Step
<1>2. CASE ProcessExit
  BY <1>2 DEF ProcessExit, Goto, Clone, Search, Packing, Sending, TypeOK, Ended, Commits
<1>3. CASE UNCHANGED vars
  BY <1>3 DEF vars, TypeOK, Commits
<1> QED
  BY <1>1, <1>2, <1>3 DEF Next

(* An upload has the state that its types say, for any history.            *)
THEOREM TypeCorrect == Spec => []TypeOK
BY InitTypeOK, NextTypeOK, PTL DEF Spec

-----------------------------------------------------------------------------

(* The most steps that the upload can still take: once around the search   *)
(* and the ways to deepen the clone, two attempts to pack, one step for    *)
(* each pack.                                                              *)
StepsLeft ==
  CASE stage \in Ended -> 0
    [] stage = "metadata" -> MaxPacks + 15
    [] stage = "search" /\ ~again -> MaxPacks + 14
    [] stage = "unshallow" -> MaxPacks + 13
    [] stage = "log" -> MaxPacks + 12
    [] stage = "fetchHead" -> MaxPacks + 11
    [] stage = "upstream" -> MaxPacks + 10
    [] stage = "fetchUpstream" -> MaxPacks + 9
    [] stage = "fetchRemote" -> MaxPacks + 8
    [] stage = "search" /\ again -> MaxPacks + 7
    [] stage = "objects" -> MaxPacks + 6
    [] stage = "mkdir" /\ folder = 1 -> MaxPacks + 5
    [] stage = "pack" /\ folder = 1 -> MaxPacks + 4
    [] stage = "mkdir" /\ folder # 1 -> MaxPacks + 3
    [] stage = "pack" /\ folder # 1 -> MaxPacks + 2
    [] stage = "send" -> Cardinality(DOMAIN packs) + 1
    [] stage = "cleanup" -> 1

(* What is left at each stage.                                             *)
LeftAtStage ==
  /\ stage \in Ended => StepsLeft = 0
  /\ stage = "cleanup" => StepsLeft = 1
  /\ stage = "send" => StepsLeft = Cardinality(DOMAIN packs) + 1
  /\ stage = "pack" /\ folder = 1 => StepsLeft = MaxPacks + 4
  /\ stage = "pack" /\ folder # 1 => StepsLeft = MaxPacks + 2
  /\ stage = "mkdir" /\ folder = 1 => StepsLeft = MaxPacks + 5
  /\ stage = "mkdir" /\ folder # 1 => StepsLeft = MaxPacks + 3
  /\ stage = "objects" => StepsLeft = MaxPacks + 6
  /\ stage = "search" /\ again => StepsLeft = MaxPacks + 7
  /\ stage = "search" /\ ~again => StepsLeft = MaxPacks + 14
  /\ stage = "fetchRemote" => StepsLeft = MaxPacks + 8
  /\ stage = "fetchUpstream" => StepsLeft = MaxPacks + 9
  /\ stage = "upstream" => StepsLeft = MaxPacks + 10
  /\ stage = "fetchHead" => StepsLeft = MaxPacks + 11
  /\ stage = "log" => StepsLeft = MaxPacks + 12
  /\ stage = "unshallow" => StepsLeft = MaxPacks + 13
  /\ stage = "metadata" => StepsLeft = MaxPacks + 15

LEMMA LeftAt == LeftAtStage
BY DEF LeftAtStage, StepsLeft, Ended

(* Each step leaves fewer.                                                 *)
LEMMA PacksCounted ==
  ASSUME TypeOK
  PROVE  /\ IsFiniteSet(DOMAIN packs) /\ Cardinality(DOMAIN packs) \in 0 .. MaxPacks
         /\ \A p \in DOMAIN packs :
              Cardinality(DOMAIN packs \ {p}) = Cardinality(DOMAIN packs) - 1
<1>1. IsFiniteSet(1 .. MaxPacks) /\ Cardinality(1 .. MaxPacks) = MaxPacks
  BY GitUploadAssumption, FS_Interval
<1>2. IsFiniteSet(DOMAIN packs) /\ Cardinality(DOMAIN packs) <= MaxPacks
  BY <1>1, FS_Subset DEF TypeOK
<1>3. Cardinality(DOMAIN packs) \in Nat
  BY <1>2, FS_CardinalityType
<1> QED
  BY <1>2, <1>3, FS_RemoveElement, GitUploadAssumption

LEMMA LeftCounted == TypeOK => StepsLeft \in 0 .. MaxPacks + 15
<1> SUFFICES ASSUME TypeOK PROVE StepsLeft \in 0 .. MaxPacks + 15
  OBVIOUS
<1>1. Cardinality(DOMAIN packs) \in 0 .. MaxPacks /\ MaxPacks \in Nat
  BY PacksCounted, GitUploadAssumption
<1> QED
  BY <1>1, LeftAt DEF LeftAtStage, Ended, TypeOK

LEMMA StepNears == TypeOK /\ TypeOK' /\ Step => StepsLeft' < StepsLeft
<1> SUFFICES ASSUME TypeOK, TypeOK', Step PROVE StepsLeft' < StepsLeft
  OBVIOUS
<1>1. MaxPacks \in Nat \ {0} /\ Cardinality(DOMAIN packs) \in 0 .. MaxPacks
  BY PacksCounted, GitUploadAssumption
<1>2. (Cardinality(DOMAIN packs) \in 0 .. MaxPacks)'
  <2>1. (TypeOK => Cardinality(DOMAIN packs) \in 0 .. MaxPacks)'
    BY PacksCounted, PTL
  <2> QED
    BY <2>1
<1>0. LeftAtStage /\ LeftAtStage'
  BY LeftAt, PTL
<1> USE DEF Goto, SendInitial, Finish
<1>3. CASE Metadata \/ UnshallowCheck
  BY <1>0, <1>1, <1>3 DEF Metadata, UnshallowCheck, CheckShallow, LeftAtStage, Ended
<1>4. CASE UnshallowPossible \/ UpstreamName
  BY <1>0, <1>1, <1>4 DEF UnshallowPossible, UpstreamName, LeftAtStage, Ended
<1>5. CASE FetchHead \/ FetchUpstream \/ FetchRemote
  BY <1>0, <1>1, <1>5 DEF FetchHead, FetchUpstream, FetchTry, FetchRemote, Unshallowed, LeftAtStage, Ended
<1>6. CASE SearchCommits
  <2>1. PICK local \in LocalCommits :
          \/ Finish("nothing") /\ remote' = remote
          \/ local # {} /\ Finish("error") /\ remote' = remote
          \/ /\ local # {}
             /\ remote' = Known(local)
             /\ IF again THEN Goto("objects") /\ UNCHANGED result
                ELSE IF Missing(local) = {} THEN Finish("nothing")
                ELSE Goto("unshallow") /\ UNCHANGED result
    BY <1>6 DEF SearchCommits
  <2>2. stage = "search" /\ (stage' = "done" \/ stage' = "objects" \/ (~again /\ stage' = "unshallow"))
    BY <1>6, <2>1 DEF SearchCommits, TypeOK
  <2> QED
    BY <1>0, <1>1, <2>2 DEF LeftAtStage, Ended
<1>7. CASE ListObjects \/ MakeFolder
  BY <1>0, <1>1, <1>7 DEF ListObjects, MakeFolder, NextFolder, LeftAtStage, Ended
<1>8. CASE PackObjects
  <2>1. /\ stage = "pack"
        /\ stage' \in {"done", "send"} \/ (folder = 1 /\ stage' = "mkdir" /\ folder' = 2)
    BY <1>8 DEF PackObjects, NextFolder
  <2> QED
    BY <1>0, <1>1, <1>2, <2>1 DEF LeftAtStage, Ended
<1>9. CASE SendPack
  <2>1. PICK p \in DOMAIN packs : packs' = [q \in DOMAIN packs \ {p} |-> packs[q]]
    BY <1>9 DEF SendPack
  <2>2. Cardinality(DOMAIN packs') = Cardinality(DOMAIN packs) - 1
    BY <2>1, PacksCounted
  <2>3. stage = "send" /\ stage' \in {"send", "cleanup"}
    BY <1>9 DEF SendPack
  <2>4. Cardinality(DOMAIN packs) >= 1
    BY <1>1, <1>2, <2>2
  <2> QED
    BY <1>0, <1>1, <1>2, <2>2, <2>3, <2>4 DEF LeftAtStage, Ended
<1>10. CASE CleanupPackFiles
  BY <1>0, <1>1, <1>10 DEF CleanupPackFiles, LeftAtStage, Ended
<1> QED
  BY <1>3, <1>4, <1>5, <1>6, <1>7, <1>8, <1>9, <1>10 DEF Step

(* An exit leaves none.                                                    *)
LEMMA ExitEnds == TypeOK /\ ProcessExit => StepsLeft' < StepsLeft
<1> SUFFICES ASSUME TypeOK, ProcessExit PROVE StepsLeft' < StepsLeft
  OBVIOUS
<1>1. MaxPacks \in Nat /\ Cardinality(DOMAIN packs) \in Nat
  BY PacksCounted, GitUploadAssumption
<1>2. stage \notin Ended /\ stage \in Stages /\ stage' = "exited"
  BY DEF ProcessExit, Goto, TypeOK, Stages
<1>3. StepsLeft' = 0
  <2>1. LeftAtStage'
    BY LeftAt, PTL
  <2> QED
    BY <1>2, <2>1 DEF LeftAtStage, Ended
<1>4. StepsLeft \in Nat /\ StepsLeft >= 1
  BY <1>1, <1>2, LeftAt DEF LeftAtStage, Ended, Stages
<1> QED
  BY <1>1, <1>3, <1>4

(* Whatever the repository and the backend, the upload is over after at    *)
(* most MaxPacks + 15 git commands, requests and file operations: the      *)
(* clone is deepened once, and no way of fetching or packing is tried      *)
(* again.  So only a git command that never returns can hold it.           *)
THEOREM UploadIsShort ==
  Spec => [](StepsLeft \in 0 .. MaxPacks + 15) /\ [][StepsLeft' < StepsLeft]_vars
<1>1. TypeOK /\ TypeOK' /\ [Next]_vars => [StepsLeft' < StepsLeft]_vars
  BY StepNears, ExitEnds DEF Next
<1> QED
  BY <1>1, LeftCounted, TypeCorrect, PTL DEF Spec
=============================================================================
