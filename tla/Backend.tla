------------------------------ MODULE Backend ------------------------------
(***************************************************************************)
(* Calls to the backend: where they go, how one request is retried, how an *)
(* answer is paged together, and which raw response is remembered for the  *)
(* HTTP cache.  One call is under way at a time; the fields of the         *)
(* transport that calls of different features write are distinct.          *)
(*                                                                         *)
(* Page p of known tests and of durations is the number p: the backend     *)
(* holds the pages 1..Pages, an honest one gives a cursor with every page  *)
(* but the last.  Time is in tenths of a second.                           *)
(***************************************************************************)
EXTENDS Naturals, FiniteSets

CONSTANTS
  Pages,       \* pages of known tests and of durations
  Calls,       \* calls that are made one after another
  MaxRetries,  \* DefaultMaxRetries
  MaxReset,    \* maxRateLimitResetSeconds, in tenths
  Resets       \* values of X-RateLimit-Reset, in tenths

ASSUME BackendAssumption ==
  /\ {Pages, Calls} \subseteq Nat \ {0}
  /\ MaxRetries \in Nat /\ MaxReset \in Nat /\ MaxReset >= 100
  /\ Resets \subseteq Nat

Paged == {"known", "durations"}
Remembered == {"settings", "known", "skippable", "management"}
Endpoints == Paged \cup Remembered

VARIABLES
  target,    \* where requests go
  honest,    \* the backend never forgets a cursor
  calls,     \* calls begun; the number of the current one
  endpoint,  \* of the current call
  stage,     \* "idle", "request" or "failed"
  attempt,   \* of the current request
  waited,    \* slept since the current request began
  page,      \* the page that is asked for
  merged,    \* merged[p]: how often the tests of page p are in the result
  raw,       \* raw[e]: the remembered response: its call, its tests
  result     \* of the last call

vars == <<target, honest, calls, endpoint, stage, attempt, waited, page,
          merged, raw, result>>

-----------------------------------------------------------------------------
(* Where requests go.                                                      *)

(* AgentURLFromEnv: an explicit URL that is complete, an explicit host or  *)
(* port, the default socket when it exists, the default address.           *)
Agent(env) ==
  CASE env.url \in {"http", "unix"} -> env.url
    [] env.url \notin {"http", "unix"} /\ (env.host \/ env.port) -> "http"
    [] OTHER -> IF env.socket THEN "unix" ELSE "http"

(* ResolveDatadogConnection: agentless needs a key.                        *)
Connection(env) ==
  IF ~env.agentless THEN Agent(env)
  ELSE IF env.key THEN "agentless" ELSE "none"

Environments ==
  [agentless : BOOLEAN, key : BOOLEAN, url : {"", "http", "unix", "broken"},
   host : BOOLEAN, port : BOOLEAN, socket : BOOLEAN]

(* The tags that matter here: which of them are known and not empty.       *)
Tags == {"repository", "sha"}

(* GetLocalGitData: the URL of the remote and the commit of HEAD, each     *)
(* from a git command that may fail.                                       *)
LocalGitData == SUBSET Tags

(* getProviderTags: what the user gives replaces what the CI provider      *)
(* gives.                                                                  *)
ProviderTags(provider, user) == user \cup provider

(* createCITagsMap: the local repository gives what is still missing.      *)
CITags(given, git) == given \cup git

(* newTransport: there is no transport without a connection.               *)
Target(env, tags) ==
  [way |-> Connection(env), repository |-> "repository" \in tags,
   sha |-> "sha" \in tags]

-----------------------------------------------------------------------------

Nothing == [call |-> 0, tests |-> [p \in 1 .. Pages |-> 0]]
NoTests == [p \in 1 .. Pages |-> 0]
AllOnce == [p \in 1 .. Pages |-> 1]

Init ==
  /\ \E env \in Environments, provider, user \in SUBSET Tags, git \in LocalGitData :
       target = Target(env, CITags(ProviderTags(provider, user), git))
  /\ honest \in BOOLEAN
  /\ calls = 0 /\ endpoint = "settings" /\ stage = "idle"
  /\ attempt = 0 /\ waited = 0 /\ page = 1 /\ merged = NoTests
  /\ raw = [e \in Remembered |-> Nothing]
  /\ result = "none"

Fixed == <<target, honest>>

(* What a call gives up with: durations are optional and become empty.     *)
Failure == IF endpoint' = "durations" THEN "empty" ELSE "error"

Return(r) == stage' = "idle" /\ result' = r

NewRequest(p) == page' = p /\ attempt' = 0 /\ waited' = 0 /\ stage' = "request"

(* Mutant: the response of the last call is kept until there is a new one. *)
BeginCallKeepsRaw(e) ==
  /\ stage = "idle" /\ target.way # "none" /\ calls < Calls
  /\ calls' = calls + 1 /\ endpoint' = e
  /\ merged' = NoTests
  /\ NewRequest(1) /\ result' = "none" /\ raw' = raw
  /\ UNCHANGED Fixed

(* The start of GetSettings, GetKnownTests, GetSkippableTests,             *)
(* GetTestManagementTests and GetTestSuiteDurations: the raw response of   *)
(* an earlier call is forgotten.                                           *)
BeginCall(e) ==
  /\ stage = "idle" /\ target.way # "none" /\ calls < Calls
  /\ calls' = calls + 1 /\ endpoint' = e
  /\ merged' = NoTests
  /\ IF target.repository /\ (target.sha \/ e \in {"management", "durations"})
     THEN /\ NewRequest(1) /\ result' = "none"
          /\ raw' = [f \in Remembered |-> IF f = e THEN Nothing ELSE raw[f]]
     ELSE Return(Failure) /\ UNCHANGED <<raw, attempt, waited, page>>
  /\ UNCHANGED Fixed

-----------------------------------------------------------------------------
(* One request: SendRequest and internalSendRequest.                       *)

(* getExponentialBackoffDuration: from 0.1 s, at most 10 s.                *)
Backoff == IF 2 ^ attempt \in 1 .. 100 THEN 2 ^ attempt ELSE 100

(* Mutant: any number of seconds is believed.                              *)
RateLimitDelayUnbounded(reset) == IF reset > 0 THEN reset ELSE Backoff

(* parseRateLimitReset: what is absent, not positive or too long does not  *)
(* count.                                                                  *)
RateLimitDelay(reset) == IF reset \in 1 .. MaxReset THEN reset ELSE Backoff

(* The attempt failed; it sleeps also after the last one.                  *)
Retry(delay) ==
  /\ stage = "request"
  /\ waited' = waited + delay
  /\ attempt' = attempt + 1
  /\ stage' = IF attempt < MaxRetries THEN "request" ELSE "failed"
  /\ UNCHANGED <<Fixed, calls, endpoint, page, merged, raw, result>>

(* No answer, or a status of 406 or more.                                  *)
NoAnswer == Retry(Backoff)

(* Status 429.                                                             *)
RateLimited == \E reset \in Resets : Retry(RateLimitDelay(reset))

(* A body that cannot be read or decompressed ends the request at once.    *)
BrokenBody ==
  /\ stage = "request"
  /\ stage' = "failed"
  /\ UNCHANGED <<Fixed, calls, endpoint, attempt, waited, page, merged, raw,
                 result>>

(* The error of SendRequest is the error of the call; nothing that was     *)
(* read before counts.                                                     *)
CallFails ==
  /\ stage = "failed"
  /\ UNCHANGED endpoint /\ Return(Failure)
  /\ UNCHANGED <<Fixed, calls, attempt, waited, page, merged, raw>>

-----------------------------------------------------------------------------
(* Answers with a status below 406.  Only a 2xx whose body is JSON of the  *)
(* expected form can be unmarshalled.                                      *)

Remember(e, tests) ==
  raw' = [f \in Remembered |->
            IF f = e THEN [call |-> calls, tests |-> tests] ELSE raw[f]]

(* Settings, skippables and test management: the body is remembered before *)
(* anybody knows whether it is data.                                       *)
SingleAnswer ==
  /\ stage = "request" /\ endpoint \notin Paged
  /\ \E usable \in BOOLEAN :
       /\ Remember(endpoint, NoTests)
       /\ Return(IF usable THEN "ok" ELSE "error")
  /\ UNCHANGED <<Fixed, calls, endpoint, attempt, waited, page, merged>>

(* A page that cannot be used fails the call.                              *)
UselessPage ==
  /\ stage = "request" /\ endpoint \in Paged
  /\ UNCHANGED endpoint /\ Return(Failure)
  /\ UNCHANGED <<Fixed, calls, attempt, waited, page, merged, raw>>

(* What the answer says of the next page: none, its cursor, or that there  *)
(* is one, without a cursor.                                               *)
Cursors ==
  IF page = Pages THEN {0}
  ELSE {page + 1} \cup IF honest THEN {} ELSE {Pages + 1}

Lost == Pages + 1

(* Mutant: a missing cursor is taken for the start of the list.            *)
KnownTestsPageUnchecked ==
  /\ stage = "request" /\ endpoint = "known"
  /\ merged' = [merged EXCEPT ![page] = 1]
  /\ \E cursor \in Cursors :
       \/ /\ cursor = 0
          /\ Return("ok") /\ Remember("known", merged')
          /\ UNCHANGED <<attempt, waited, page>>
       \/ /\ cursor # 0
          /\ NewRequest(IF cursor = Lost THEN 1 ELSE cursor)
          /\ UNCHANGED <<raw, result>>
  /\ UNCHANGED <<Fixed, calls, endpoint>>

(* Mutant: every page is remembered as it comes.                           *)
KnownTestsPageEarly ==
  /\ stage = "request" /\ endpoint = "known"
  /\ merged' = [merged EXCEPT ![page] = 1]
  /\ Remember("known", merged')
  /\ \E cursor \in Cursors \ {Lost} :
       IF cursor = 0 THEN Return("ok") /\ UNCHANGED <<attempt, waited, page>>
       ELSE NewRequest(cursor) /\ UNCHANGED result
  /\ UNCHANGED <<Fixed, calls, endpoint>>

(* GetKnownTests: tests are appended, a missing cursor is an error, and    *)
(* the whole is remembered at the end, also when it took several pages.    *)
KnownTestsPage ==
  /\ stage = "request" /\ endpoint = "known"
  /\ merged' = [merged EXCEPT ![page] = @ + 1]
  /\ \E cursor \in Cursors :
       \/ /\ cursor = 0
          /\ Return("ok") /\ Remember("known", merged')
          /\ UNCHANGED <<attempt, waited, page>>
       \/ /\ cursor = Lost
          /\ Return("error")
          /\ UNCHANGED <<attempt, waited, page, raw>>
       \/ /\ cursor \in 1 .. Pages
          /\ NewRequest(cursor)
          /\ UNCHANGED <<raw, result>>
  /\ UNCHANGED <<Fixed, calls, endpoint>>

(* fetchTestSuiteDurations: suites replace suites of the same name; an     *)
(* empty cursor asks for the first page again.                             *)
DurationsPage ==
  /\ stage = "request" /\ endpoint = "durations"
  /\ merged' = [merged EXCEPT ![page] = 1]
  /\ \E cursor \in Cursors :
       \/ /\ cursor = 0
          /\ Return("ok")
          /\ UNCHANGED <<attempt, waited, page>>
       \/ /\ cursor # 0
          /\ NewRequest(IF cursor = Lost THEN 1 ELSE cursor)
          /\ UNCHANGED result
  /\ UNCHANGED <<Fixed, calls, endpoint, raw>>

-----------------------------------------------------------------------------

Step ==
  \/ NoAnswer \/ RateLimited \/ BrokenBody \/ CallFails
  \/ SingleAnswer \/ UselessPage \/ KnownTestsPage \/ DurationsPage

Next == Step \/ \E e \in Endpoints : BeginCall(e)

Spec == Init /\ [][Next]_vars

(* The HTTP client has a timeout and sleeps end: a request goes on.        *)
FairSpec == Spec /\ WF_vars(Step)

-----------------------------------------------------------------------------

TypeOK ==
  /\ target \in [way : {"none", "agentless", "http", "unix"},
                 repository : BOOLEAN, sha : BOOLEAN]
  /\ honest \in BOOLEAN
  /\ calls \in 0 .. Calls
  /\ endpoint \in Endpoints
  /\ stage \in {"idle", "request", "failed"}
  /\ attempt \in 0 .. MaxRetries + 1
  /\ waited \in Nat
  /\ page \in 1 .. Pages
  /\ merged \in [1 .. Pages -> 0 .. 1]
  /\ raw \in [Remembered -> [call : 0 .. Calls, tests : [1 .. Pages -> 0 .. 1]]]
  /\ result \in {"none", "ok", "empty", "error"}

(* A call that succeeds has every test of every page, once, and the raw    *)
(* known tests are never a part of them: an error on a later page, and a   *)
(* cursor that is missing, leave nothing behind.                           *)
CompleteOrNothing ==
  /\ endpoint \in Paged /\ result = "ok" => merged = AllOnce
  /\ raw["known"].call # 0 => raw["known"].tests = AllOnce

(* A remembered response was received by the last call of its feature      *)
(* that asked the backend, so it never outlives a later failure: while a   *)
(* call runs, or when it failed without an answer, there is none.          *)
NoStaleResponse ==
  endpoint \in Remembered /\ raw[endpoint].call # 0 =>
    raw[endpoint].call = calls /\ stage = "idle"

(* Whatever the servers answer, one request does not keep the CLI waiting  *)
(* for more than its attempts, each at the longest accepted delay.         *)
WaitIsBounded == waited <= (MaxRetries + 1) * MaxReset

(* Every call ends, but for durations of a backend that forgets cursors:   *)
(* these ask for the first page until it comes with one.                   *)
CallEnds ==
  (stage # "idle" /\ ~(endpoint = "durations" /\ ~honest)) ~> stage = "idle"

=============================================================================
