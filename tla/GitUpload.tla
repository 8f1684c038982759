----------------------------- MODULE GitUpload -----------------------------
(***************************************************************************)
(* The git upload: the goroutine that tells the backend about commits it   *)
(* does not have.  It asks which of the local commits the backend knows,   *)
(* deepens a shallow clone, asks again, packs what is missing in temporary *)
(* files, sends the packs one by one and removes them.  The process can    *)
(* exit at any moment: a signal, or a client that no longer waits.         *)
(*                                                                         *)
(* The history is a line: commit 1 is HEAD and c + 1 is the parent of c;   *)
(* the clone shows the commits 1..visible.  One action is one git command, *)
(* request or file operation, with every outcome the code tells apart; a   *)
(* git command may also never return.                                      *)
(***************************************************************************)
EXTENDS Naturals, FiniteSets

CONSTANTS
  History,   \* number of commits
  LogLimit,  \* commits that git log lists at most: 1000 in the code
  MaxPacks   \* most pack files that git makes of one list of objects

ASSUME GitUploadAssumption ==
  History \in Nat \ {0} /\ LogLimit \in Nat \ {0} /\ MaxPacks \in Nat \ {0}

Commits == 1 .. History

VARIABLES
  stage,     \* the next thing the goroutine does
  visible,   \* the commits of the clone are 1..visible
  memo,      \* isAShallowCloneRepositoryOnce and its value
  version,   \* what getGitVersion finds: at least 2.27, older, or an error
  again,     \* the repository has been unshallowed
  remote,    \* the backend's last answer to the local commits
  backend,   \* commits the backend has
  folders,   \* temporary pack directories on disk: 1 system, 2 working dir
  folder,    \* the one in use
  packs,     \* packs[p]: the commits of pack file p that is still to send
  failed,    \* SendPackFiles has an error
  sent,      \* the objects to pack, then those in the packs on disk
  result     \* of the upload

vars == <<stage, visible, memo, version, again, remote, backend, folders,
          folder, packs, failed, sent, result>>

Ended == {"done", "crashed", "exited"}

(* getGitVersion, asked once: at least 2.27, older, or not understood.     *)
Versions == {"new", "old", "broken"}

Init ==
  /\ stage \in {"metadata", "search"}
  /\ visible \in Commits
  /\ memo = "unset"
  /\ version \in Versions
  /\ again = FALSE
  /\ remote = {}
  /\ backend \in SUBSET Commits
  /\ folders = {} /\ folder = 1 /\ packs = <<>>
  /\ failed = FALSE /\ sent = {} /\ result = "none"

Goto(s) == stage' = s
Clone == <<visible, memo, version>>
Search == <<again, remote>>
Packing == <<folders, folder, packs, sent>>
Sending == <<backend, failed>>

Finish(r) == stage' = "done" /\ result' = r

-----------------------------------------------------------------------------
(* Shallow clones.                                                         *)

(* The check runs once: its error is told to the caller that ran it, later *)
(* callers find the value false and no error.                              *)
CheckShallow(whenShallow, whenFull, onError) ==
  \/ /\ memo = "unset"
     /\ \/ memo' = "full" /\ onError
        \/ memo' = (IF visible < History THEN "shallow" ELSE "full")
           /\ IF visible < History THEN whenShallow ELSE whenFull
  \/ /\ memo # "unset"
     /\ memo' = memo
     /\ IF memo = "shallow" THEN whenShallow ELSE whenFull

(* FetchCommitData, for the tags of a pull request, before the client is   *)
(* made.  It may fetch the commit of the pull request, which is not in the *)
(* line of HEAD, so only the check leaves a trace.                         *)
Metadata ==
  /\ stage = "metadata"
  /\ CheckShallow(
       Goto("search"), Goto("search"), Goto("search"))
  /\ UNCHANGED <<visible, version, Search, Packing, Sending, result>>

(* An error of the unshallowing, or no need of it, sends what the first    *)
(* search found.                                                           *)
SendInitial == Goto("objects")

UnshallowCheck ==
  /\ stage = "unshallow"
  /\ CheckShallow(Goto("log"), SendInitial, SendInitial)
  /\ UNCHANGED <<visible, version, Search, Packing, Sending, result>>

(* git log -n 2.                                                           *)
HasMoreThanOneCommit == visible > 1

(* More than one commit in the log, an old git or none: nothing to do.     *)
UnshallowPossible ==
  /\ stage = "log"
  /\ \/ SendInitial                     \* git log, git version or HEAD fails
     \/ /\ ~HasMoreThanOneCommit /\ version = "new"
        /\ Goto("fetchHead")
  /\ UNCHANGED <<Clone, Search, Packing, Sending, result>>

(* Mutant: the clone is deepened until it is whole. *)
UnshallowAgain ==
  /\ memo' = "unset" /\ again' = FALSE /\ Goto("search")

Unshallowed ==
  /\ memo' = "unset" /\ again' = TRUE /\ Goto("search")

Deepened == visible' \in visible .. History

(* The first two ways of fetching: a success without output is treated as  *)
(* a failure, but there is no error whose text could be logged.            *)
FetchTry(s, onError) ==
  /\ stage = s
  /\ \/ Deepened /\ Unshallowed
     \/ Deepened /\ Goto("crashed") /\ UNCHANGED <<memo, again>>
     \/ onError /\ UNCHANGED <<visible, memo, again>>
  /\ UNCHANGED <<version, remote, Packing, Sending, result>>

FetchHead == FetchTry("fetchHead", Goto("upstream"))
FetchUpstream == FetchTry("fetchUpstream", Goto("fetchRemote"))

(* Is there a branch to fetch instead?                                     *)
UpstreamName ==
  /\ stage = "upstream"
  /\ Goto("fetchUpstream") \/ Goto("fetchRemote")
  /\ UNCHANGED <<Clone, Search, Packing, Sending, result>>

(* The last way: everything of the remote, and its output does not matter. *)
FetchRemote ==
  /\ stage = "fetchRemote"
  /\ \/ Deepened /\ Unshallowed
     \/ SendInitial /\ UNCHANGED <<visible, memo, again>>
  /\ UNCHANGED <<version, remote, Packing, Sending, result>>

-----------------------------------------------------------------------------
(* Which commits the backend misses.                                       *)

(* GetLastLocalGitCommitShas: the latest of them, git log -n 1000; none    *)
(* when git log fails.                                                     *)
Latest == {c \in 1 .. visible : c <= LogLimit}
LocalCommits == {{}, Latest}

(* GetCommits: those of the local commits that the backend has.            *)
Known(local) == backend \cap local

Missing(local) == local \ remote'

(* Mutant: after the unshallowing the first answer is used.                *)
SearchCommitsOnce ==
  /\ stage = "search"
  /\ \E local \in LocalCommits :
       \/ local = {} /\ Finish("nothing") /\ remote' = remote
       \/ /\ again /\ Goto("objects") /\ UNCHANGED <<remote, result>>
       \/ /\ ~again /\ local # {}
          /\ remote' = Known(local)
          /\ IF Missing(local) = {} THEN Finish("nothing")
             ELSE Goto("unshallow") /\ UNCHANGED result
  /\ UNCHANGED <<Clone, again, Packing, Sending>>

(* getSearchCommits.  Without local commits or transport the upload ends;  *)
(* the first answer also ends it when nothing is missing.                  *)
SearchCommits ==
  /\ stage = "search"
  /\ \E local \in LocalCommits :
       \/ Finish("nothing") /\ remote' = remote
       \/ local # {} /\ Finish("error") /\ remote' = remote
       \/ /\ local # {}
          /\ remote' = Known(local)
          /\ IF again THEN Goto("objects") /\ UNCHANGED result
             ELSE IF Missing(local) = {} THEN Finish("nothing")
             ELSE Goto("unshallow") /\ UNCHANGED result
  /\ UNCHANGED <<Clone, again, Packing, Sending>>

-----------------------------------------------------------------------------
(* Pack files.                                                             *)

(* git rev-list HEAD ^remote...: not the ancestors of what is excluded,    *)
(* and without the limit of git log.                                       *)
Objects == {c \in 1 .. visible : \A e \in remote : c < e}

(* An error of rev-list is an empty list, which ends the upload; an empty  *)
(* output is a list with one empty line.                                   *)
ListObjects ==
  /\ stage = "objects"
  /\ \/ Finish("nothing") /\ UNCHANGED sent
     \/ Goto("mkdir") /\ sent' = Objects /\ UNCHANGED result
  /\ UNCHANGED <<Clone, Search, folders, folder, packs, Sending>>

NextFolder ==
  IF folder = 1 THEN folder' = 2 /\ Goto("mkdir") /\ UNCHANGED result
                ELSE folder' = 2 /\ Finish("nothing")

MakeFolder ==
  /\ stage = "mkdir"
  /\ \/ NextFolder /\ UNCHANGED folders
     \/ /\ folders' = folders \cup {folder} /\ Goto("pack")
        /\ UNCHANGED <<folder, result>>
  /\ UNCHANGED <<Clone, Search, packs, sent, Sending>>

(* Mutant: the directory of a failed attempt stays.                        *)
PackObjectsLeaves ==
  /\ stage = "pack"
  /\ NextFolder /\ UNCHANGED <<folders, packs>>
  /\ UNCHANGED <<Clone, Search, sent, Sending>>

(* git pack-objects; it refuses an empty line.  The files it names may be  *)
(* gone (found); with none left there is nothing to send.                  *)
PackObjects ==
  /\ stage = "pack"
  /\ \/ /\ NextFolder
        /\ folders' = folders \ {folder} /\ UNCHANGED <<packs, sent>>
     \/ /\ sent # {}
        /\ \E n \in 1 .. MaxPacks : \E of \in [sent -> 1 .. n], found \in SUBSET (1 .. n) :
             /\ packs' = [p \in found |-> {c \in sent : of[c] = p}]
             /\ sent' = {c \in sent : of[c] \in found}
             /\ IF found = {}
                THEN folders' = folders \ {folder} /\ Finish("nothing")
                ELSE folders' = folders /\ Goto("send") /\ UNCHANGED result
        /\ UNCHANGED folder
  /\ UNCHANGED <<Clone, Search, Sending>>

-----------------------------------------------------------------------------
(* SendPackFiles and the deferred removal of the packs.                    *)

(* Mutant: a pack that is accepted clears the error of an earlier one.     *)
SendPackForgets ==
  /\ stage = "send"
  /\ \E p \in DOMAIN packs :
       /\ packs' = [q \in DOMAIN packs \ {p} |-> packs[q]]
       /\ \/ backend' = backend \cup packs[p] /\ failed' = FALSE
          \/ backend' = backend /\ failed' = TRUE
       /\ Goto(IF packs' = <<>> THEN "cleanup" ELSE "send")
  /\ UNCHANGED <<Clone, Search, folders, folder, sent, result>>

(* One pack is read and sent: a file that cannot be read and a request     *)
(* without answer stop the loop, a refusal is remembered and passed over.  *)
SendPack ==
  /\ stage = "send"
  /\ \E p \in DOMAIN packs :
       /\ packs' = [q \in DOMAIN packs \ {p} |-> packs[q]]
       /\ \/ /\ backend' = backend \cup packs[p] /\ failed' = failed
             /\ Goto(IF packs' = <<>> THEN "cleanup" ELSE "send")
          \/ /\ backend' = backend /\ failed' = TRUE
             /\ Goto(IF packs' = <<>> THEN "cleanup" ELSE "send")
          \/ /\ backend' = backend /\ failed' = TRUE
             /\ Goto("cleanup")
  /\ UNCHANGED <<Clone, Search, folders, folder, sent, result>>

CleanupPackFiles ==
  /\ stage = "cleanup"
  /\ folders' = folders \ {folder} /\ packs' = <<>>
  /\ Finish(IF failed THEN "error" ELSE "ok")
  /\ UNCHANGED <<Clone, Search, folder, sent, Sending>>

-----------------------------------------------------------------------------

Step ==
  \/ Metadata \/ SearchCommits
  \/ UnshallowCheck \/ UnshallowPossible
  \/ FetchHead \/ UpstreamName \/ FetchUpstream \/ FetchRemote
  \/ ListObjects \/ MakeFolder \/ PackObjects
  \/ SendPack \/ CleanupPackFiles

(* os.Exit of the signal handler, or the end of main.                      *)
ProcessExit ==
  /\ stage \notin Ended
  /\ Goto("exited")
  /\ UNCHANGED <<Clone, Search, Packing, Sending, result>>

Next == Step \/ ProcessExit

Spec == Init /\ [][Next]_vars

(* Files are written and removed, and the HTTP client has a timeout.  Of   *)
(* the git commands nothing is assumed: none has one.                      *)
FairSpec == Spec /\ WF_vars(MakeFolder \/ SendPack \/ CleanupPackFiles)

(* The stages in which the goroutine waits for git (search: git log, then  *)
(* a request).                                                             *)
GitStages == {"metadata", "search", "unshallow", "log", "fetchHead", "upstream",
              "fetchUpstream", "fetchRemote", "objects", "pack"}

-----------------------------------------------------------------------------

TypeOK ==
  /\ stage \in {"metadata", "search", "unshallow", "log", "fetchHead",
                "upstream", "fetchUpstream", "fetchRemote", "objects",
                "mkdir", "pack", "send", "cleanup"} \cup Ended
  /\ visible \in Commits
  /\ memo \in {"unset", "shallow", "full"}
  /\ version \in Versions
  /\ {again, failed} \subseteq BOOLEAN
  /\ {remote, backend, sent} \subseteq SUBSET Commits
  /\ folders \subseteq {1, 2} /\ folder \in {1, 2}
  /\ DOMAIN packs \subseteq 1 .. MaxPacks
  /\ \A p \in DOMAIN packs : packs[p] \subseteq Commits
  /\ result \in {"none", "nothing", "error", "ok"}

(* No pack directory outlives an upload that returns, whichever command,   *)
(* folder, file or request failed on the way.                              *)
PacksAreRemoved == stage = "done" => folders = {}

(* An upload that reports success has delivered every pack: one that is    *)
(* refused is not forgotten when a later one is accepted.                  *)
SuccessMeansAccepted == result = "ok" => sent \subseteq backend

(* Packs hold only commits the backend does not have, also after a         *)
(* deepening, when the first answer says nothing of the commits that have  *)
(* appeared.  The exception is a backend that has none of the latest       *)
(* commits, the only ones it is asked about: older ones that it has are    *)
(* then packed again, as rev-list goes further back than git log.          *)
OnlyMissingIsPacked ==
  [][stage = "pack" /\ stage' = "send" =>
       sent' \cap backend = {} \/ Latest \cap backend = {}]_vars

(* git.go:516-518: a fetch that did not help is followed by the next way   *)
(* of fetching; it never breaks the program.                               *)
UploadDoesNotCrash == stage # "crashed"

(* Every upload ends, unless it waits for ever for one git command: it     *)
(* never goes in circles, and packs, requests and folders cannot hold it.  *)
UploadEnds ==
  <>(stage \in Ended) \/ \E s \in GitStages : <>[](stage = s)

=============================================================================
