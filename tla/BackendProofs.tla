--------------------------- MODULE BackendProofs ---------------------------
(***************************************************************************)
(* Proofs about the two clients that send requests.  About Backend, for    *)
(* any number of pages, calls and retries and whatever the servers answer: *)
(* a call has all pages or fails, a response that is remembered is the     *)
(* answer to the last call of its feature, a request waits a bounded time, *)
(* and a call takes a bounded number of steps.  About Telemetry, for every *)
(* set of metric keys and values and any number of submissions and flushes:*)
(* nothing is lost, doubled or reordered by a flush that fails.            *)
(***************************************************************************)
EXTENDS Backend, Telemetry, TLAPS

Busy == stage # "idle"

(* While a call reads pages it has those before the current one: exactly   *)
(* these for known tests, at least these for durations, which may start    *)
(* over.                                                                   *)
PagesInv ==
  /\ page \in 1 .. Pages
  /\ Busy => result = "none"
  /\ Busy /\ endpoint = "known" =>
       merged = [p \in 1 .. Pages |-> IF p < page THEN 1 ELSE 0]
  /\ Busy /\ endpoint = "durations" =>
       /\ merged \in [1 .. Pages -> {0, 1}]
       /\ \A p \in 1 .. Pages : p < page => merged[p] = 1
  /\ CompleteOrNothing

(* A feature that the tags do not allow to ask for was never remembered.   *)
Allowed(e) == target.repository /\ (target.sha \/ e \in {"management", "durations"})
RawInv ==
  /\ Busy => Allowed(endpoint) /\ (endpoint \in Remembered => raw[endpoint].call = 0)
  /\ \A e \in Remembered : ~Allowed(e) => raw[e].call = 0
  /\ NoStaleResponse

(* Every attempt that is left may wait once more.                          *)
Left == MaxRetries + 1 - attempt
WaitInv ==
  /\ attempt \in 0 .. MaxRetries + 1
  /\ stage = "request" => attempt <= MaxRetries
  /\ waited \in Nat
  /\ waited + Left * MaxReset <= (MaxRetries + 1) * MaxReset

-----------------------------------------------------------------------------
(* One request waits a bounded time.                                       *)

LEMMA Product == \A k, m \in Nat : k * m \in Nat /\ (k + 1) * m = k * m + m
OBVIOUS

(* No delay is longer than the longest that is accepted.                   *)
LEMMA DelayBounded ==
  ASSUME attempt \in Nat
  PROVE  /\ Backoff \in 0 .. MaxReset
         /\ \A reset \in Resets : RateLimitDelay(reset) \in 0 .. MaxReset
<1>1. Backoff \in 0 .. MaxReset
  BY BackendAssumption DEF Backoff
<1> QED
  BY <1>1, BackendAssumption DEF RateLimitDelay

LEMMA InitWait == Init => WaitInv
BY BackendAssumption DEF Init, WaitInv, Left

LEMMA RetryWait ==
  ASSUME WaitInv, NEW delay \in 0 .. MaxReset, Retry(delay)
  PROVE  WaitInv'
<1>1. /\ attempt \in 0 .. MaxRetries /\ attempt' = attempt + 1
      /\ waited \in Nat /\ waited' = waited + delay
      /\ stage' = IF attempt < MaxRetries THEN "request" ELSE "failed"
  BY BackendAssumption DEF WaitInv, Retry
<1>2. Left = Left' + 1 /\ Left' \in Nat
  BY <1>1, BackendAssumption DEF Left
<1>3. Left * MaxReset = Left' * MaxReset + MaxReset
  BY <1>2, Product, BackendAssumption
<1>4. Left' * MaxReset \in Nat /\ (MaxRetries + 1) * MaxReset \in Nat
  <2>1. \A k \in Nat : k * MaxReset \in Nat
    BY Product, BackendAssumption
  <2>2. MaxRetries + 1 \in Nat
    BY BackendAssumption
  <2> QED
    BY <1>2, <2>1, <2>2
<1>5. waited + Left * MaxReset <= (MaxRetries + 1) * MaxReset
  BY DEF WaitInv
<1>6. waited' + Left' * MaxReset <= (MaxRetries + 1) * MaxReset
  BY <1>1, <1>3, <1>4, <1>5, BackendAssumption
<1> QED
  BY <1>1, <1>6, BackendAssumption DEF WaitInv

LEMMA NextWait == WaitInv /\ [Next]_vars => WaitInv'
<1> SUFFICES ASSUME WaitInv, [Next]_vars PROVE WaitInv'
  OBVIOUS
<1>1. attempt \in Nat
  BY DEF WaitInv
<1>2. CASE NoAnswer \/ RateLimited
  BY <1>1, <1>2, DelayBounded, RetryWait DEF NoAnswer, RateLimited
<1>3. ASSUME NEW p, NewRequest(p) PROVE WaitInv'
  BY <1>3, BackendAssumption DEF NewRequest, WaitInv, Left
<1>4. ASSUME UNCHANGED <<attempt, waited>>, stage' \in {stage, "idle", "failed"}
      PROVE  WaitInv'
  BY <1>4 DEF WaitInv, Left
<1>5. CASE BrokenBody \/ CallFails \/ SingleAnswer \/ UselessPage
  BY <1>5, <1>4 DEF BrokenBody, CallFails, SingleAnswer, UselessPage, Return
<1>6. CASE KnownTestsPage
  BY <1>6, <1>3, <1>4 DEF KnownTestsPage, Return
<1>7. CASE DurationsPage
  BY <1>7, <1>3, <1>4, BackendAssumption DEF DurationsPage, Return, Cursors
<1>8. ASSUME NEW e \in Endpoints, BeginCall(e) PROVE WaitInv'
  BY <1>8, <1>3, <1>4 DEF BeginCall, Return
<1>9. CASE UNCHANGED vars
  BY <1>9, <1>4 DEF vars
<1> QED
  BY <1>2, <1>5, <1>6, <1>7, <1>8, <1>9 DEF Next, Step

(* SendRequest gives up after a time that no server can extend.            *)
THEOREM WaitBounded == Spec => []WaitIsBounded
<1>1. WaitInv => WaitIsBounded
  <2> SUFFICES ASSUME WaitInv PROVE WaitIsBounded
    OBVIOUS
  <2>1. Left \in Nat
    BY BackendAssumption DEF WaitInv, Left
  <2>2. Left * MaxReset \in Nat /\ (MaxRetries + 1) * MaxReset \in Nat
    BY <2>1, Product, BackendAssumption
  <2> QED
    BY <2>2 DEF WaitInv, WaitIsBounded
<1> QED
  BY <1>1, InitWait, NextWait, PTL DEF Spec

-----------------------------------------------------------------------------
(* What is remembered.                                                     *)

LEMMA InitRaw == Init => RawInv
BY DEF Init, RawInv, Busy, NoStaleResponse, Nothing

LEMMA NextRaw == RawInv /\ [Next]_vars => RawInv'
<1> SUFFICES ASSUME RawInv, [Next]_vars PROVE RawInv'
  OBVIOUS
<1> USE DEF RawInv, Busy, NoStaleResponse, Allowed
<1>1. ASSUME UNCHANGED <<target, endpoint, raw, calls>>, stage' \in {stage, "idle"} \/ Busy
      PROVE  RawInv'
  BY <1>1
<1>2. CASE NoAnswer \/ RateLimited \/ BrokenBody \/ CallFails \/ UselessPage \/ DurationsPage
  BY <1>1, <1>2 DEF NoAnswer, RateLimited, Retry, BrokenBody, CallFails, UselessPage,
     DurationsPage, Fixed
<1>3. CASE SingleAnswer
  BY <1>3 DEF SingleAnswer, Remember, Return, Fixed
<1>4. CASE KnownTestsPage
  BY <1>4 DEF KnownTestsPage, Remember, Return, Fixed, Remembered
<1>5. ASSUME NEW e \in Endpoints, BeginCall(e) PROVE RawInv'
  BY <1>5 DEF BeginCall, Nothing, Return, Fixed
<1>6. CASE UNCHANGED vars
  BY <1>6, <1>1 DEF vars
<1> QED
  BY <1>2, <1>3, <1>4, <1>5, <1>6 DEF Next, Step

(* The raw response that ends in the HTTP cache is never that of an        *)
(* earlier call: GetSettings and its likes forget it before they ask.      *)
THEOREM ResponseIsFresh == Spec => []NoStaleResponse
<1>1. RawInv => NoStaleResponse
  BY DEF RawInv
<1> QED
  BY <1>1, InitRaw, NextRaw, PTL DEF Spec

-----------------------------------------------------------------------------
(* Pages.                                                                  *)

LEMMA InitPages == Init => PagesInv
<1> SUFFICES ASSUME Init PROVE PagesInv
  OBVIOUS
<1>1. stage = "idle" /\ result = "none" /\ page = 1 /\ page \in 1 .. Pages
  BY BackendAssumption DEF Init
<1>2. raw["known"].call = 0
  BY DEF Init, Remembered, Nothing
<1> QED
  BY <1>1, <1>2 DEF PagesInv, Busy, CompleteOrNothing

(* A step that reads no page, forgets none and brings no success.          *)
LEMMA SamePages ==
  ASSUME PagesInv, Busy, UNCHANGED <<endpoint, page, merged>>,
         raw'["known"] = raw["known"],
         Busy' => result' = "none",
         endpoint \in Paged => result' # "ok"
  PROVE  PagesInv'
BY DEF PagesInv, Busy, CompleteOrNothing

(* The last page completes what was merged.                                *)
LEMMA LastKnown ==
  ASSUME PagesInv, Busy, endpoint = "known", page = Pages
  PROVE  [merged EXCEPT ![page] = @ + 1] = AllOnce
<1>1. merged = [p \in 1 .. Pages |-> IF p < page THEN 1 ELSE 0]
  BY DEF PagesInv
<1> QED
  BY <1>1, BackendAssumption DEF AllOnce

LEMMA KnownStep == PagesInv /\ KnownTestsPage => PagesInv'
<1> SUFFICES ASSUME PagesInv, KnownTestsPage PROVE PagesInv'
  OBVIOUS
<1>1. /\ stage = "request" /\ endpoint = "known" /\ endpoint' = endpoint
      /\ merged' = [merged EXCEPT ![page] = @ + 1] /\ page \in 1 .. Pages
      /\ merged = [p \in 1 .. Pages |-> IF p < page THEN 1 ELSE 0]
      /\ result = "none"
  BY DEF KnownTestsPage, PagesInv, Busy
<1>2. CASE page = Pages /\ Return("ok") /\ Remember("known", merged')
           /\ UNCHANGED page
  <2>1. merged' = AllOnce
    BY <1>1, <1>2, LastKnown DEF Busy
  <2>2. raw'["known"].tests = AllOnce
    BY <1>2, <2>1 DEF Remember, Remembered
  <2> QED
    BY <1>1, <1>2, <2>1, <2>2 DEF PagesInv, CompleteOrNothing, Return, Busy
<1>3. CASE Return("error") /\ UNCHANGED <<page, raw>>
  BY <1>1, <1>3 DEF PagesInv, CompleteOrNothing, Return, Busy
<1>4. CASE NewRequest(page + 1) /\ page + 1 \in 1 .. Pages /\ UNCHANGED <<raw, result>>
  <2>1. merged' = [p \in 1 .. Pages |-> IF p < page' THEN 1 ELSE 0]
    BY <1>1, <1>4, BackendAssumption DEF NewRequest
  <2> QED
    BY <1>1, <1>4, <2>1 DEF PagesInv, CompleteOrNothing, NewRequest, Busy
<1>5. PICK cursor \in Cursors :
        \/ cursor = 0 /\ Return("ok") /\ Remember("known", merged') /\ UNCHANGED page
        \/ cursor = Lost /\ Return("error") /\ UNCHANGED <<page, raw>>
        \/ cursor \in 1 .. Pages /\ NewRequest(cursor) /\ UNCHANGED <<raw, result>>
  BY DEF KnownTestsPage
<1>6. /\ cursor = 0 => page = Pages
      /\ cursor \in 1 .. Pages => cursor = page + 1
  BY <1>1, BackendAssumption DEF Cursors
<1> QED
  BY <1>2, <1>3, <1>4, <1>5, <1>6

LEMMA DurationsStep == PagesInv /\ DurationsPage => PagesInv'
<1> SUFFICES ASSUME PagesInv, DurationsPage PROVE PagesInv'
  OBVIOUS
<1>1. /\ stage = "request" /\ endpoint = "durations" /\ endpoint' = endpoint /\ raw' = raw
      /\ merged' = [merged EXCEPT ![page] = 1] /\ page \in 1 .. Pages
      /\ merged \in [1 .. Pages -> {0, 1}]
      /\ \A p \in 1 .. Pages : p < page => merged[p] = 1
      /\ result = "none"
  BY DEF DurationsPage, PagesInv, Busy
<1>2. /\ merged' \in [1 .. Pages -> {0, 1}]
      /\ \A p \in 1 .. Pages : p < page + 1 => merged'[p] = 1
  BY <1>1, BackendAssumption
<1>3. CASE page = Pages /\ Return("ok") /\ UNCHANGED page
  <2>1. merged' = AllOnce
    <3>1. \A p \in 1 .. Pages : p < page + 1
      BY <1>3, BackendAssumption
    <3>2. \A p \in 1 .. Pages : merged'[p] = 1
      BY <1>2, <3>1
    <3> QED
      BY <1>2, <3>2 DEF AllOnce
  <2> QED
    BY <1>1, <1>3, <2>1 DEF PagesInv, CompleteOrNothing, Return, Busy
<1>4. ASSUME NEW p \in {1, page + 1}, p \in 1 .. Pages, NewRequest(p), UNCHANGED result
      PROVE  PagesInv'
  <2>1. \A q \in 1 .. Pages : q < page' => merged'[q] = 1
    BY <1>1, <1>2, <1>4, BackendAssumption DEF NewRequest
  <2> QED
    BY <1>1, <1>2, <1>4, <2>1 DEF PagesInv, CompleteOrNothing, NewRequest, Busy
<1>5. PICK cursor \in Cursors :
        \/ cursor = 0 /\ Return("ok") /\ UNCHANGED page
        \/ cursor # 0 /\ NewRequest(IF cursor = Lost THEN 1 ELSE cursor) /\ UNCHANGED result
  BY DEF DurationsPage
<1>6. /\ cursor = 0 => page = Pages
      /\ cursor # 0 /\ cursor # Lost => cursor = page + 1 /\ page + 1 \in 1 .. Pages
      /\ 1 \in 1 .. Pages
  BY <1>1, BackendAssumption DEF Cursors, Lost
<1> QED
  BY <1>3, <1>4, <1>5, <1>6

LEMMA NextPages == PagesInv /\ [Next]_vars => PagesInv'
<1> SUFFICES ASSUME PagesInv, [Next]_vars PROVE PagesInv'
  OBVIOUS
<1>1. CASE NoAnswer \/ RateLimited \/ BrokenBody
  <2>1. Busy /\ UNCHANGED <<endpoint, page, merged, raw, result>>
    BY <1>1 DEF NoAnswer, RateLimited, Retry, BrokenBody, Busy
  <2> QED
    BY <2>1, SamePages DEF PagesInv
<1>2. CASE CallFails \/ UselessPage
  <2>1. /\ Busy /\ ~Busy' /\ UNCHANGED <<endpoint, page, merged, raw>>
        /\ result' \in {"empty", "error"}
    BY <1>2 DEF CallFails, UselessPage, Busy, Return, Failure
  <2> QED
    BY <2>1, SamePages
<1>3. CASE SingleAnswer
  <2>1. Busy /\ ~Busy' /\ UNCHANGED <<endpoint, page, merged>> /\ endpoint \notin Paged
    BY <1>3 DEF SingleAnswer, Busy, Return
  <2>2. raw'["known"] = raw["known"]
    BY <1>3 DEF SingleAnswer, Remember, Paged, Remembered
  <2> QED
    BY <2>1, <2>2, SamePages
<1>4. CASE KnownTestsPage
  BY <1>4, KnownStep
<1>5. CASE DurationsPage
  BY <1>5, DurationsStep
<1>6. ASSUME NEW e \in Endpoints, BeginCall(e) PROVE PagesInv'
  <2>1. merged' = NoTests /\ endpoint' = e
    BY <1>6 DEF BeginCall
  <2>2. raw'["known"] = raw["known"] \/ raw'["known"].call = 0
    BY <1>6 DEF BeginCall, Nothing, Remembered
  <2>3. \/ page' = 1 /\ Busy' /\ result' = "none"
        \/ page' = page /\ ~Busy' /\ result' \in {"empty", "error"}
    BY <1>6 DEF BeginCall, NewRequest, Return, Failure, Busy
  <2> QED
    BY <2>1, <2>2, <2>3, BackendAssumption DEF PagesInv, CompleteOrNothing, NoTests
<1>7. CASE UNCHANGED vars
  BY <1>7 DEF vars, PagesInv, Busy, CompleteOrNothing
<1> QED
  BY <1>1, <1>2, <1>3, <1>4, <1>5, <1>6, <1>7 DEF Next, Step

(* GetKnownTests and GetTestSuiteDurations give every page, once, or fail; *)
(* the known tests that are remembered are never a part of them.           *)
THEOREM AllPagesOrFailure == Spec => []CompleteOrNothing
<1>1. PagesInv => CompleteOrNothing
  BY DEF PagesInv
<1> QED
  BY <1>1, InitPages, NextPages, PTL DEF Spec

-----------------------------------------------------------------------------
(* The values the variables take, and how short a call is.                 *)

LEMMA InitBackend == Init => TypeOK
<1> SUFFICES ASSUME Init PROVE TypeOK
  OBVIOUS
<1>1. target \in [way : {"none", "agentless", "http", "unix"},
                  repository : BOOLEAN, sha : BOOLEAN]
  <2>1. \E env \in Environments : \E tags : target = Target(env, tags)
    BY DEF Init
  <2>2. \A env \in Environments : Connection(env) \in {"none", "agentless", "http", "unix"}
    BY DEF Connection, Agent, Environments
  <2> QED
    BY <2>1, <2>2 DEF Target
<1>2. /\ honest \in BOOLEAN /\ calls = 0 /\ endpoint = "settings" /\ stage = "idle"
      /\ attempt = 0 /\ waited = 0 /\ page = 1 /\ merged = NoTests
      /\ raw = [e \in Remembered |-> Nothing] /\ result = "none"
  BY DEF Init
<1>3. NoTests \in [1 .. Pages -> 0 .. 1] /\ Nothing.tests = NoTests /\ Nothing.call = 0
  BY DEF NoTests, Nothing
<1>4. raw \in [Remembered -> [call : 0 .. Calls, tests : [1 .. Pages -> 0 .. 1]]]
  BY <1>2, <1>3, BackendAssumption DEF Nothing, NoTests
<1> QED
  BY <1>1, <1>2, <1>3, <1>4, BackendAssumption DEF TypeOK, Endpoints, Remembered

(* A step that remembers nothing it was not given. *)
LEMMA SameTypes ==
  ASSUME TypeOK, UNCHANGED <<target, honest>>, WaitInv', PagesInv',
         calls' \in 0 .. Calls, endpoint' \in Endpoints,
         stage' \in {"idle", "request", "failed"},
         merged' \in [1 .. Pages -> 0 .. 1],
         result' \in {"none", "ok", "empty", "error"},
         \A e \in Remembered : raw'[e] = raw[e] \/ raw'[e] \in
           [call : 0 .. Calls, tests : [1 .. Pages -> 0 .. 1]],
         raw' = [e \in Remembered |-> raw'[e]]
  PROVE  TypeOK'
BY DEF TypeOK, WaitInv, PagesInv

LEMMA NextBackend ==
  ASSUME TypeOK, WaitInv, PagesInv, [Next]_vars
  PROVE  TypeOK'
<1>1. WaitInv' /\ PagesInv'
  BY NextWait, NextPages
<1>2. UNCHANGED <<target, honest>>
  BY DEF Next, Step, NoAnswer, RateLimited, Retry, BrokenBody, CallFails, SingleAnswer,
     UselessPage, KnownTestsPage, DurationsPage, BeginCall, Fixed, vars
<1>3. calls' \in 0 .. Calls /\ endpoint' \in Endpoints
  BY BackendAssumption DEF TypeOK, Next, Step, NoAnswer, RateLimited, Retry, BrokenBody,
     CallFails, SingleAnswer, UselessPage, KnownTestsPage, DurationsPage, BeginCall, vars
<1>4. stage' \in {"idle", "request", "failed"}
  BY DEF TypeOK, Next, Step, NoAnswer, RateLimited, Retry, BrokenBody, CallFails,
     SingleAnswer, UselessPage, KnownTestsPage, DurationsPage, BeginCall, Return,
     NewRequest, vars
<1>5. result' \in {"none", "ok", "empty", "error"}
  BY DEF TypeOK, Next, Step, NoAnswer, RateLimited, Retry, BrokenBody, CallFails,
     SingleAnswer, UselessPage, KnownTestsPage, DurationsPage, BeginCall, Return,
     Failure, NewRequest, vars
<1>6. merged' \in [1 .. Pages -> 0 .. 1]
  <2>1. merged \in [1 .. Pages -> 0 .. 1] /\ NoTests \in [1 .. Pages -> 0 .. 1]
    BY DEF TypeOK, NoTests
  <2>2. CASE KnownTestsPage
    <3>1. merged[page] = 0 /\ merged' = [merged EXCEPT ![page] = @ + 1]
      BY <2>2 DEF PagesInv, Busy, KnownTestsPage
    <3> QED
      BY <2>1, <3>1, 0 + 1 \in 0 .. 1
  <2>3. CASE DurationsPage
    BY <2>1, <2>3, 1 \in 0 .. 1 DEF DurationsPage
  <2>4. CASE merged' \in {merged, NoTests}
    BY <2>1, <2>4
  <2> QED
    BY <2>2, <2>3, <2>4 DEF Next, Step, NoAnswer, RateLimited, Retry, BrokenBody,
       CallFails, SingleAnswer, UselessPage, BeginCall, vars
<1> DEFINE Responses == [call : 0 .. Calls, tests : [1 .. Pages -> 0 .. 1]]
           RawKept == /\ \A e \in Remembered : raw'[e] = raw[e] \/ raw'[e] \in Responses
                      /\ raw' = [e \in Remembered |-> raw'[e]]
<1>7. RawKept
  <2>1. CASE UNCHANGED raw
    BY <2>1 DEF TypeOK
  <2>2. ASSUME NEW e, NEW tests \in [1 .. Pages -> 0 .. 1], Remember(e, tests)
        PROVE  RawKept
    BY <2>2 DEF Remember, TypeOK
  <2>3. NoTests \in [1 .. Pages -> 0 .. 1] /\ Nothing = [call |-> 0, tests |-> NoTests]
    BY DEF NoTests, Nothing
  <2>4. CASE SingleAnswer
    BY <2>2, <2>3, <2>4 DEF SingleAnswer
  <2>5. CASE KnownTestsPage
    BY <1>6, <2>1, <2>2, <2>5 DEF KnownTestsPage
  <2>6. ASSUME NEW e \in Endpoints, BeginCall(e), ~ UNCHANGED raw PROVE RawKept
    BY <2>3, <2>6, BackendAssumption DEF BeginCall
  <2> QED
    BY <2>1, <2>4, <2>5, <2>6 DEF Next, Step, NoAnswer, RateLimited, Retry, BrokenBody,
       CallFails, UselessPage, DurationsPage, vars
<1> QED
  BY <1>1, <1>2, <1>3, <1>4, <1>5, <1>6, <1>7, SameTypes

(* Every variable has its type in every reachable state: in particular no  *)
(* page is appended twice, and no response is remembered of a call that    *)
(* was not made.                                                           *)
THEOREM BackendTypeCorrect == Spec => []TypeOK
<1> DEFINE Inv == TypeOK /\ WaitInv /\ PagesInv
<1>1. Init => Inv
  BY InitBackend, InitWait, InitPages
<1>2. Inv /\ [Next]_vars => Inv'
  BY NextBackend, NextWait, NextPages
<1> QED
  BY <1>1, <1>2, PTL DEF Spec

(* The steps a call still takes at most: an attempt and its retries for    *)
(* every page that is left, and the end.                                   *)
CallLeft ==
  CASE stage = "idle"    -> 0
    [] stage = "failed"  -> 1
    [] stage = "request" -> (Pages - page) * (MaxRetries + 1) + Left + 1

(* The pages that are left have their attempts. *)
LEMMA AttemptsOfPages ==
  ASSUME NEW p \in 1 .. Pages
  PROVE  /\ (Pages - p) * (MaxRetries + 1) \in Nat
         /\ (Pages - p) * (MaxRetries + 1) + (MaxRetries + 1) <= Pages * (MaxRetries + 1)
         /\ p + 1 \in 1 .. Pages =>
              (Pages - p) * (MaxRetries + 1) =
                (Pages - (p + 1)) * (MaxRetries + 1) + (MaxRetries + 1)
<1>1. MaxRetries + 1 \in Nat /\ Pages \in Nat /\ p \in Nat /\ Pages - p \in Nat
      /\ p - 1 \in Nat
  BY BackendAssumption
<1>2. \A a, b, m \in Nat : (a + b) * m = a * m + b * m /\ a * m \in Nat
  OBVIOUS
<1>3. (Pages - p) * (MaxRetries + 1) \in Nat
  BY <1>1, <1>2
<1>4. Pages = (Pages - p) + 1 + (p - 1)
  BY <1>1
<1>5. Pages * (MaxRetries + 1) = (Pages - p) * (MaxRetries + 1) + (MaxRetries + 1)
                                   + (p - 1) * (MaxRetries + 1)
  <2>1. Pages * (MaxRetries + 1) =
          ((Pages - p) + 1) * (MaxRetries + 1) + (p - 1) * (MaxRetries + 1)
    BY <1>1, <1>2, <1>4
  <2>2. ((Pages - p) + 1) * (MaxRetries + 1) =
          (Pages - p) * (MaxRetries + 1) + (MaxRetries + 1)
    BY <1>1, Product
  <2> QED
    BY <2>1, <2>2
<1>6. (p - 1) * (MaxRetries + 1) \in Nat
  BY <1>1, <1>2
<1>7. ASSUME p + 1 \in 1 .. Pages
      PROVE  (Pages - p) * (MaxRetries + 1) =
               (Pages - (p + 1)) * (MaxRetries + 1) + (MaxRetries + 1)
  <2>1. Pages - (p + 1) \in Nat /\ Pages - p = (Pages - (p + 1)) + 1
    BY <1>1, <1>7
  <2> QED
    BY <1>1, <2>1, Product
<1>8. (Pages - p) * (MaxRetries + 1) + (MaxRetries + 1) <= Pages * (MaxRetries + 1)
  <2> DEFINE a == (Pages - p) * (MaxRetries + 1)
             b == (p - 1) * (MaxRetries + 1)
             c == Pages * (MaxRetries + 1)
  <2>1. a \in Nat /\ b \in Nat /\ c = a + (MaxRetries + 1) + b
    BY <1>3, <1>5, <1>6
  <2> HIDE DEF a, b, c
  <2>2. a + (MaxRetries + 1) <= c
    BY <1>1, <2>1
  <2> QED
    BY <2>2 DEF a, c
<1> QED
  BY <1>3, <1>7, <1>8

LEMMA CallLeftBounded ==
  ASSUME TypeOK, WaitInv
  PROVE  CallLeft \in 0 .. Pages * (MaxRetries + 1) + 1
<1> DEFINE a == (Pages - page) * (MaxRetries + 1)
           c == Pages * (MaxRetries + 1)
<1>1. a \in Nat /\ a + (MaxRetries + 1) <= c
  BY AttemptsOfPages DEF TypeOK
<1>2. c \in Nat
  BY Product, BackendAssumption
<1>3. Left \in 0 .. MaxRetries + 1
  BY BackendAssumption DEF WaitInv, Left
<1>4. CallLeft \in {0, 1, a + Left + 1}
  BY DEF CallLeft, TypeOK
<1> HIDE DEF a, c
<1>5. CallLeft \in 0 .. c + 1
  BY <1>1, <1>2, <1>3, <1>4, BackendAssumption
<1> QED
  BY <1>5 DEF c

LEMMA StepShortens ==
  ASSUME TypeOK, WaitInv, Next, stage # "idle", honest \/ endpoint # "durations"
  PROVE  CallLeft' < CallLeft
<1> DEFINE a == (Pages - page) * (MaxRetries + 1)
<1>1. a \in Nat
  BY AttemptsOfPages DEF TypeOK
<1>2. /\ stage = "failed" => CallLeft = 1
      /\ stage = "request" => CallLeft = a + Left + 1 /\ Left \in 1 .. MaxRetries + 1
  BY BackendAssumption DEF CallLeft, Left, WaitInv
<1> HIDE DEF a
<1>3. CallLeft \in Nat /\ CallLeft > 0 /\ (stage = "request" => CallLeft > 1)
  BY <1>1, <1>2, BackendAssumption DEF TypeOK
<1>4. CASE stage' = "idle" \/ (stage = "request" /\ stage' = "failed")
  BY <1>3, <1>4 DEF CallLeft
<1>5. ASSUME NEW delay, Retry(delay) PROVE CallLeft' < CallLeft
  <2>1. /\ stage = "request" /\ page' = page /\ attempt' = attempt + 1
        /\ stage' \in {"request", "failed"}
    BY <1>5 DEF Retry
  <2>2. CASE stage' = "request"
    <3>1. CallLeft' = a + Left' + 1
      BY <2>1, <2>2 DEF CallLeft, a
    <3>2. Left' = Left - 1
      BY <2>1, BackendAssumption DEF Left, WaitInv
    <3> QED
      BY <1>1, <1>2, <2>1, <3>1, <3>2
  <2> QED
    BY <1>4, <2>1, <2>2
<1>6. ASSUME stage = "request", NewRequest(page + 1), page + 1 \in 1 .. Pages
      PROVE  CallLeft' < CallLeft
  <2> DEFINE b == (Pages - (page + 1)) * (MaxRetries + 1)
  <2>1. a = b + (MaxRetries + 1) /\ b \in Nat
    BY <1>6, AttemptsOfPages DEF TypeOK, a
  <2>2. CallLeft' = b + (MaxRetries + 1) + 1
    BY <1>6, BackendAssumption DEF NewRequest, CallLeft, Left
  <2> HIDE DEF b
  <2> QED
    BY <1>1, <1>2, <1>6, <2>1, <2>2, BackendAssumption
<1>7. CASE KnownTestsPage
  <2>1. PICK cursor \in Cursors :
          \/ stage' = "idle"
          \/ cursor \in 1 .. Pages /\ NewRequest(cursor)
    BY <1>7 DEF KnownTestsPage, Return
  <2>2. cursor \in 1 .. Pages => cursor = page + 1
    BY <2>1, BackendAssumption DEF Cursors
  <2>3. cursor \in 1 .. Pages /\ NewRequest(cursor) =>
          page + 1 \in 1 .. Pages /\ NewRequest(page + 1)
    BY <2>2 DEF NewRequest
  <2>4. stage = "request"
    BY <1>7 DEF KnownTestsPage
  <2> QED
    BY <1>4, <1>6, <2>1, <2>3, <2>4
<1>8. CASE DurationsPage
  <2>1. PICK cursor \in Cursors :
          \/ stage' = "idle"
          \/ cursor # 0 /\ NewRequest(IF cursor = Lost THEN 1 ELSE cursor)
    BY <1>8 DEF DurationsPage, Return
  <2>2. honest
    BY <1>8 DEF DurationsPage
  <2>3. cursor # 0 => cursor = page + 1 /\ cursor \in 1 .. Pages /\ cursor # Lost
    BY <2>1, <2>2, BackendAssumption DEF Cursors, Lost, TypeOK
  <2>4. cursor # 0 /\ NewRequest(IF cursor = Lost THEN 1 ELSE cursor) =>
          page + 1 \in 1 .. Pages /\ NewRequest(page + 1)
    BY <2>3 DEF NewRequest
  <2>5. stage = "request"
    BY <1>8 DEF DurationsPage
  <2> QED
    BY <1>4, <1>6, <2>1, <2>4, <2>5
<1>9. CASE NoAnswer \/ RateLimited
  BY <1>5, <1>9 DEF NoAnswer, RateLimited
<1>10. CASE BrokenBody \/ CallFails \/ SingleAnswer \/ UselessPage
  <2>1. stage' = "idle" \/ (stage = "request" /\ stage' = "failed")
    BY <1>10 DEF BrokenBody, CallFails, SingleAnswer, UselessPage, Return
  <2> QED
    BY <1>4, <2>1
<1>11. ~ \E e \in Endpoints : BeginCall(e)
  BY DEF BeginCall
<1> QED
  BY <1>7, <1>8, <1>9, <1>10, <1>11 DEF Next, Step

(* A call takes at most one request for each page and each retry, whatever *)
(* the servers answer, but for the durations of a backend that forgets     *)
(* cursors: every step of a call comes nearer to its end.                  *)
THEOREM CallIsShort ==
  Spec => /\ [](CallLeft \in 0 .. Pages * (MaxRetries + 1) + 1)
          /\ [][stage # "idle" /\ (honest \/ endpoint # "durations") =>
                  CallLeft' < CallLeft]_vars
<1> DEFINE Inv == TypeOK /\ WaitInv /\ PagesInv
<1>1. Init => Inv
  BY InitBackend, InitWait, InitPages
<1>2. Inv /\ [Next]_vars => Inv'
  BY NextBackend, NextWait, NextPages
<1>3. Inv => CallLeft \in 0 .. Pages * (MaxRetries + 1) + 1
  BY CallLeftBounded
<1>4. Inv /\ [Next]_vars =>
        [stage # "idle" /\ (honest \/ endpoint # "durations") => CallLeft' < CallLeft]_vars
  BY StepShortens
<1> QED
  BY <1>1, <1>2, <1>3, <1>4, PTL DEF Spec

-----------------------------------------------------------------------------
(* Telemetry.                                                              *)

(* Putting a prefix back in front: concatenation is associative. *)
LEMMA ConcatAssociates ==
  ASSUME NEW S, NEW a \in Seq(S), NEW b \in Seq(S), NEW c \in Seq(S)
  PROVE  (a \o b) \o c = a \o (b \o c)
OBVIOUS

(* Concatenation stays within the sequences over the same values. *)
LEMMA ConcatTypes ==
  ASSUME NEW S, NEW a \in Seq(S), NEW b \in Seq(S)
  PROVE  a \o b \in Seq(S)
OBVIOUS

(* The empty sequence is neutral. *)
LEMMA ConcatEmpty ==
  ASSUME NEW S, NEW a \in Seq(S)
  PROVE  a \o <<>> = a /\ <<>> \o a = a
OBVIOUS

(* Appending to the last part appends to the whole. *)
LEMMA ConcatAppend ==
  ASSUME NEW S, NEW a \in Seq(S), NEW b \in Seq(S), NEW v \in S
  PROVE  a \o Append(b, v) = Append(a \o b, v)
OBVIOUS

-----------------------------------------------------------------------------
(* What the actions do to the data of one key *)

CountData == [Keys -> Points]
DistributionData == [Keys -> Seq(Values)]
Submitted == [counts: [Keys -> Int], distributions: DistributionData, times: [Keys -> Nat]]
Accepted == [counts: [Keys -> Int], distributions: DistributionData]

(* A merged count has the sum of the values and the later of the times.    *)
LEMMA MergeIsPoint ==
  ASSUME NEW p \in Points, NEW q \in Points
  PROVE  /\ Merge(p, q) \in Points
         /\ Merge(p, q).value = p.value + q.value
         /\ Merge(p, q).time = Later(p.time, q.time)
BY DEF Merge, Points, Later

(* Empty count buffers have neutral values and times. *)
LEMMA NoCountsType ==
  /\ NoCounts \in CountData
  /\ \A k \in Keys : NoCounts[k].value = 0 /\ NoCounts[k].time = 0
BY DEF NoCounts, CountData, Points

(* Empty distribution buffers are well typed. *)
LEMMA NoDistributionsType == NoDistributions \in DistributionData
BY DEF NoDistributions, DistributionData

-----------------------------------------------------------------------------
(* Type correctness *)

(* A new client has empty, well typed buffers. *)
LEMMA InitTypeOK == TelemetryInit => TelemetryTypeOK
BY NoCountsType, NoDistributionsType, BoundAssumption
DEF TelemetryInit, TelemetryTypeOK, NoFlush, CountData, DistributionData

(* Every submission and every stage of a flush keeps the types. *)
LEMMA NextTypeOK ==
  ASSUME TelemetryTypeOK, [TelemetryNext]_telemetryVars
  PROVE  TelemetryTypeOK'
<1> USE DEF TelemetryTypeOK
<1>1. ASSUME NEW k \in Keys, NEW v \in Values, SubmitCount(k, v)
      PROVE  TelemetryTypeOK'
  <2>1. [value |-> counts[k].value + v, time |-> clock + 1] \in Points
    BY ValuesAssumption DEF Points
  <2>2. counts' \in [Keys -> Points]
    BY <1>1, <2>1 DEF SubmitCount
  <2>3. clock' \in 0 .. MaxSubmits
    BY <1>1, BoundAssumption DEF SubmitCount
  <2>4. submitted.counts[k] + v \in Int
    BY ValuesAssumption
  <2>5. submitted' = [counts |-> [submitted.counts EXCEPT ![k] = @ + v],
                      distributions |-> submitted.distributions,
                      times |-> [submitted.times EXCEPT ![k] = clock + 1]]
    BY <1>1 DEF SubmitCount
  <2>6. [submitted.counts EXCEPT ![k] = @ + v] \in [Keys -> Int]
    BY <2>4
  <2>7. [submitted.times EXCEPT ![k] = clock + 1] \in [Keys -> Nat]
    OBVIOUS
  <2>8. submitted' \in Submitted
    BY <2>5, <2>6, <2>7 DEF Submitted, DistributionData
  <2>9. UNCHANGED <<distributions, flush, accepted>>
    BY <1>1 DEF SubmitCount
  <2>10. flush' \in [stage: {"none", "send", "counts", "distributions"},
                counts: [Keys -> Points], distributions: [Keys -> Seq(Values)]]
         /\ distributions' \in [Keys -> Seq(Values)] /\ accepted' \in Accepted
    BY <2>9 DEF Accepted, DistributionData
  <2>11. (flush.stage = "none" => flush = NoFlush)'
    BY <2>9 DEF NoFlush, NoCounts, NoDistributions
  <2> HIDE DEF TelemetryTypeOK
  <2> QED
    BY <2>2, <2>3, <2>8, <2>10, <2>11 DEF TelemetryTypeOK, Submitted, Accepted, DistributionData
<1>2. ASSUME NEW k \in Keys, NEW v \in Values, SubmitDistribution(k, v)
      PROVE  TelemetryTypeOK'
  <2>1. /\ Append(distributions[k], v) \in Seq(Values)
        /\ Append(submitted.distributions[k], v) \in Seq(Values)
    OBVIOUS
  <2>2. distributions' \in [Keys -> Seq(Values)]
    BY <1>2, <2>1 DEF SubmitDistribution
  <2>3. clock' \in 0 .. MaxSubmits
    BY <1>2, BoundAssumption DEF SubmitDistribution
  <2>4. submitted' = [counts |-> submitted.counts,
                      distributions |-> [submitted.distributions EXCEPT ![k] = Append(@, v)],
                      times |-> submitted.times]
    BY <1>2 DEF SubmitDistribution
  <2>5. [submitted.distributions EXCEPT ![k] = Append(@, v)] \in [Keys -> Seq(Values)]
    BY <2>1
  <2>6. submitted' \in Submitted
    BY <2>4, <2>5 DEF Submitted, DistributionData
  <2>7. UNCHANGED <<counts, flush, accepted>>
    BY <1>2 DEF SubmitDistribution
  <2>10. flush' \in [stage: {"none", "send", "counts", "distributions"},
                counts: [Keys -> Points], distributions: [Keys -> Seq(Values)]]
         /\ counts' \in [Keys -> Points] /\ accepted' \in Accepted
    BY <2>7 DEF Accepted, DistributionData
  <2>11. (flush.stage = "none" => flush = NoFlush)'
    BY <2>7 DEF NoFlush, NoCounts, NoDistributions
  <2> HIDE DEF TelemetryTypeOK
  <2> QED
    BY <2>2, <2>3, <2>6, <2>10, <2>11 DEF TelemetryTypeOK, Submitted, Accepted, DistributionData
<1>3. CASE Drain
  BY <1>3, NoCountsType, NoDistributionsType DEF Drain, CountData, DistributionData
<1>4. CASE SendSucceeds
  <2>1. flush' = NoFlush
    BY <1>4 DEF SendSucceeds
  <2>2. \A k \in Keys : accepted.counts[k] + flush.counts[k].value \in Int
    BY DEF Points
  <2>3. \A k \in Keys : accepted.distributions[k] \o flush.distributions[k] \in Seq(Values)
    BY ConcatTypes
  <2>4. accepted' \in Accepted
    BY <1>4, <2>2, <2>3 DEF SendSucceeds, Accepted, DistributionData
  <2> QED BY <1>4, <2>1, <2>4, NoCountsType, NoDistributionsType
          DEF SendSucceeds, NoFlush, Accepted, CountData, DistributionData
<1>5. CASE SendFails
  BY <1>5 DEF SendFails
<1>6. CASE RestoreCounts
  <2>1. counts' \in [Keys -> Points]
    BY <1>6, MergeIsPoint DEF RestoreCounts
  <2> QED BY <1>6, <2>1, NoCountsType DEF RestoreCounts, CountData
<1>7. CASE RestoreDistributions
  <2>1. distributions' \in [Keys -> Seq(Values)]
    BY <1>7, ConcatTypes DEF RestoreDistributions
  <2> QED BY <1>7, <2>1, NoCountsType, NoDistributionsType
          DEF RestoreDistributions, NoFlush, CountData, DistributionData
<1>8. CASE UNCHANGED telemetryVars
  BY <1>8 DEF telemetryVars
<1> QED BY <1>1, <1>2, <1>3, <1>4, <1>5, <1>6, <1>7, <1>8 DEF TelemetryNext

(* The buffers, the flush in flight and the clock keep their types. *)
THEOREM TelemetryTypeCorrect == TelemetrySpec => []TelemetryTypeOK
BY InitTypeOK, NextTypeOK, PTL DEF TelemetrySpec

-----------------------------------------------------------------------------
(* Conservation *)

(* CountsAreConserved is not inductive alone: the flush forgets its counts *)
(* when it ends, so they must have been restored by then.                  *)
CountsRestoredFirst == flush.stage = "distributions" => flush.counts = NoCounts

(* A flush reaches its last stage only after its counts were put back. *)
LEMMA NextCountsRestoredFirst ==
  ASSUME TelemetryTypeOK, CountsRestoredFirst, [TelemetryNext]_telemetryVars
  PROVE  CountsRestoredFirst'
<1> USE DEF TelemetryTypeOK, CountsRestoredFirst, NoFlush
<1>1. ASSUME NEW k \in Keys, NEW v \in Values, SubmitCount(k, v)
      PROVE  CountsRestoredFirst'
  BY <1>1 DEF SubmitCount, NoCounts
<1>2. ASSUME NEW k \in Keys, NEW v \in Values, SubmitDistribution(k, v)
      PROVE  CountsRestoredFirst'
  BY <1>2 DEF SubmitDistribution, NoCounts
<1>3. CASE Drain
  BY <1>3 DEF Drain
<1>4. CASE SendSucceeds
  BY <1>4 DEF SendSucceeds
<1>5. CASE SendFails
  BY <1>5 DEF SendFails
<1>6. CASE RestoreCounts
  BY <1>6 DEF RestoreCounts, NoCounts
<1>7. CASE RestoreDistributions
  BY <1>7 DEF RestoreDistributions
<1>8. CASE UNCHANGED telemetryVars
  BY <1>8 DEF telemetryVars, NoCounts
<1> QED BY <1>1, <1>2, <1>3, <1>4, <1>5, <1>6, <1>7, <1>8 DEF TelemetryNext

(* One step at a time, no counted value appears or disappears. *)
LEMMA NextCounts ==
  ASSUME TelemetryTypeOK, CountsRestoredFirst, CountsAreConserved, [TelemetryNext]_telemetryVars
  PROVE  CountsAreConserved'
<1> USE DEF TelemetryTypeOK
<1> SUFFICES ASSUME NEW j \in Keys
    PROVE  submitted'.counts[j] =
             accepted'.counts[j] + flush'.counts[j].value + counts'[j].value
  BY DEF CountsAreConserved
<1>0. submitted.counts[j] = accepted.counts[j] + flush.counts[j].value + counts[j].value
  BY DEF CountsAreConserved
<1>T. /\ submitted.counts[j] \in Int /\ accepted.counts[j] \in Int
      /\ flush.counts[j] \in Points /\ counts[j] \in Points
      /\ flush.counts[j].value \in Int /\ counts[j].value \in Int
  BY DEF Points
<1>1. ASSUME NEW k \in Keys, NEW v \in Values, SubmitCount(k, v)
      PROVE  submitted'.counts[j] =
               accepted'.counts[j] + flush'.counts[j].value + counts'[j].value
  <2>1. v \in Int
    BY ValuesAssumption
  <2>2. CASE j = k
    <3>1. submitted'.counts[j] = submitted.counts[j] + v
      BY <1>1, <2>2 DEF SubmitCount
    <3>2. counts'[j] = [value |-> counts[j].value + v, time |-> clock + 1]
      BY <1>1, <2>2 DEF SubmitCount
    <3>3. accepted' = accepted /\ flush' = flush
      BY <1>1 DEF SubmitCount
    <3>4. counts'[j].value = counts[j].value + v
      BY <3>2
    <3> HIDE DEF TelemetryTypeOK
    <3> QED BY <1>0, <1>T, <2>1, <3>1, <3>3, <3>4
  <2>3. CASE j # k
    <3>1. submitted'.counts[j] = submitted.counts[j] /\ counts'[j] = counts[j]
      BY <1>1, <2>3 DEF SubmitCount
    <3> QED BY <1>0, <1>1, <3>1 DEF SubmitCount
  <2> QED BY <2>2, <2>3
<1>2. ASSUME NEW k \in Keys, NEW v \in Values, SubmitDistribution(k, v)
      PROVE  submitted'.counts[j] =
               accepted'.counts[j] + flush'.counts[j].value + counts'[j].value
  <2>1. submitted'.counts = submitted.counts
    BY <1>2 DEF SubmitDistribution
  <2> QED BY <1>0, <1>2, <2>1 DEF SubmitDistribution
<1>3. CASE Drain
  <2>1. flush.counts[j].value = 0
    BY <1>3, NoCountsType DEF Drain, NoFlush
  <2>2. flush'.counts = counts /\ counts'[j].value = 0
    BY <1>3, NoCountsType DEF Drain
  <2> QED BY <1>0, <1>3, <1>T, <2>1, <2>2 DEF Drain
<1>4. CASE SendSucceeds
  <2>1. accepted'.counts[j] = accepted.counts[j] + flush.counts[j].value
    BY <1>4 DEF SendSucceeds
  <2>2. flush'.counts[j].value = 0
    BY <1>4, NoCountsType DEF SendSucceeds, NoFlush
  <2> QED BY <1>0, <1>4, <1>T, <2>1, <2>2 DEF SendSucceeds
<1>5. CASE SendFails
  <2>1. flush'.counts = flush.counts
    BY <1>5 DEF SendFails
  <2> QED BY <1>0, <1>5, <2>1 DEF SendFails
<1>6. CASE RestoreCounts
  <2>1. counts'[j].value = flush.counts[j].value + counts[j].value
    BY <1>6, <1>T, MergeIsPoint DEF RestoreCounts
  <2>2. flush'.counts[j].value = 0
    BY <1>6, NoCountsType DEF RestoreCounts
  <2> QED BY <1>0, <1>6, <1>T, <2>1, <2>2 DEF RestoreCounts
<1>7. CASE RestoreDistributions
  <2>1. flush.counts[j].value = 0
    BY <1>7, NoCountsType DEF RestoreDistributions, CountsRestoredFirst
  <2>2. flush'.counts[j].value = 0
    BY <1>7, NoCountsType DEF RestoreDistributions, NoFlush
  <2> QED BY <1>0, <1>7, <2>1, <2>2 DEF RestoreDistributions
<1>8. CASE UNCHANGED telemetryVars
  BY <1>0, <1>8 DEF telemetryVars
<1> QED BY <1>1, <1>2, <1>3, <1>4, <1>5, <1>6, <1>7, <1>8 DEF TelemetryNext

(* One step at a time, no value of a distribution appears, disappears or   *)
(* overtakes another one: what failed returns in front of what came later. *)
LEMMA NextDistributions ==
  ASSUME TelemetryTypeOK, DistributionsAreConserved, [TelemetryNext]_telemetryVars
  PROVE  DistributionsAreConserved'
<1> DEFINE S(j) == submitted.distributions[j]
           A(j) == accepted.distributions[j]
           F(j) == flush.distributions[j]
           B(j) == distributions[j]
<1> USE DEF TelemetryTypeOK
<1> SUFFICES ASSUME NEW j \in Keys
    PROVE  S(j)' = (A(j)' \o F(j)') \o B(j)'
  BY DEF DistributionsAreConserved
<1>0. S(j) = (A(j) \o F(j)) \o B(j)
  BY DEF DistributionsAreConserved
<1>T. /\ S(j) \in Seq(Values) /\ A(j) \in Seq(Values)
      /\ F(j) \in Seq(Values) /\ B(j) \in Seq(Values)
  OBVIOUS
<1>1. ASSUME NEW k \in Keys, NEW v \in Values, SubmitCount(k, v)
      PROVE  S(j)' = (A(j)' \o F(j)') \o B(j)'
  <2>1. submitted'.distributions = submitted.distributions
    BY <1>1 DEF SubmitCount
  <2> QED BY <1>0, <1>1, <2>1 DEF SubmitCount
<1>2. ASSUME NEW k \in Keys, NEW v \in Values, SubmitDistribution(k, v)
      PROVE  S(j)' = (A(j)' \o F(j)') \o B(j)'
  <2>1. A(j)' = A(j) /\ F(j)' = F(j)
    BY <1>2 DEF SubmitDistribution
  <2>2. CASE j = k
    <3>1. S(j)' = Append(S(j), v) /\ B(j)' = Append(B(j), v)
      BY <1>2, <2>2 DEF SubmitDistribution
    <3> HIDE DEF S, A, F, B, TelemetryTypeOK
    <3>2. A(j) \o F(j) \in Seq(Values)
      BY <1>T, ConcatTypes
    <3>3. (A(j) \o F(j)) \o Append(B(j), v) = Append((A(j) \o F(j)) \o B(j), v)
      BY <1>T, <3>2, ConcatAppend
    <3> QED BY <1>0, <2>1, <3>1, <3>3
  <2>3. CASE j # k
    <3>1. S(j)' = S(j) /\ B(j)' = B(j)
      BY <1>2, <2>3 DEF SubmitDistribution
    <3> QED BY <1>0, <2>1, <3>1
  <2> QED BY <2>2, <2>3
<1>3. CASE Drain
  <2>1. F(j) = <<>>
    BY <1>3 DEF Drain, NoFlush, NoDistributions
  <2>2. F(j)' = B(j) /\ B(j)' = <<>> /\ A(j)' = A(j) /\ S(j)' = S(j)
    BY <1>3 DEF Drain, NoDistributions
  <2>3. A(j) \o <<>> = A(j) /\ (A(j) \o B(j)) \o <<>> = A(j) \o B(j)
    BY <1>T, ConcatEmpty, ConcatTypes
  <2> QED BY <1>0, <2>1, <2>2, <2>3
<1>4. CASE SendSucceeds
  <2>1. A(j)' = A(j) \o F(j) /\ F(j)' = <<>> /\ B(j)' = B(j) /\ S(j)' = S(j)
    BY <1>4 DEF SendSucceeds, NoFlush, NoDistributions
  <2>2. (A(j) \o F(j)) \o <<>> = A(j) \o F(j)
    BY <1>T, ConcatEmpty, ConcatTypes
  <2> QED BY <1>0, <2>1, <2>2
<1>5. CASE SendFails
  <2>1. flush'.distributions = flush.distributions
    BY <1>5 DEF SendFails
  <2> QED BY <1>0, <1>5, <2>1 DEF SendFails
<1>6. CASE RestoreCounts
  <2>1. flush'.distributions = flush.distributions
    BY <1>6 DEF RestoreCounts
  <2> QED BY <1>0, <1>6, <2>1 DEF RestoreCounts
<1>7. CASE RestoreDistributions
  <2>1. B(j)' = F(j) \o B(j) /\ F(j)' = <<>> /\ A(j)' = A(j) /\ S(j)' = S(j)
    BY <1>7 DEF RestoreDistributions, NoFlush, NoDistributions
  <2> HIDE DEF S, A, F, B, TelemetryTypeOK
  <2>2. A(j) \o <<>> = A(j)
    BY <1>T, ConcatEmpty
  <2>3. (A(j) \o F(j)) \o B(j) = A(j) \o (F(j) \o B(j))
    BY <1>T, ConcatAssociates
  <2> QED BY <1>0, <2>1, <2>2, <2>3
<1>8. CASE UNCHANGED telemetryVars
  BY <1>0, <1>8 DEF telemetryVars
<1> QED BY <1>1, <1>2, <1>3, <1>4, <1>5, <1>6, <1>7, <1>8 DEF TelemetryNext

(* Everything that is submitted is sent, in flight or buffered, once. *)
THEOREM CountsConserved == TelemetrySpec => []CountsAreConserved
<1> DEFINE Inv == TelemetryTypeOK /\ CountsRestoredFirst /\ CountsAreConserved
<1>1. TelemetryInit => Inv
  <2> SUFFICES ASSUME TelemetryInit PROVE CountsRestoredFirst /\ CountsAreConserved
    BY InitTypeOK
  <2> QED BY NoCountsType DEF TelemetryInit, CountsRestoredFirst, CountsAreConserved, NoFlush
<1>2. Inv /\ [TelemetryNext]_telemetryVars => Inv'
  BY NextTypeOK, NextCountsRestoredFirst, NextCounts
<1>3. Inv => CountsAreConserved
  OBVIOUS
<1> QED BY <1>1, <1>2, <1>3, PTL DEF TelemetrySpec

(* The values of a distribution are sent once and in order. *)
THEOREM DistributionsConserved == TelemetrySpec => []DistributionsAreConserved
<1> DEFINE Inv == TelemetryTypeOK /\ DistributionsAreConserved
<1>1. TelemetryInit => Inv
  <2> SUFFICES ASSUME TelemetryInit PROVE DistributionsAreConserved
    BY InitTypeOK
  <2>1. <<>> \in Seq(Values)
    OBVIOUS
  <2>2. (<<>> \o <<>>) \o <<>> = <<>>
    BY <2>1, ConcatEmpty
  <2> SUFFICES ASSUME NEW k \in Keys
      PROVE  submitted.distributions[k] =
               (accepted.distributions[k] \o flush.distributions[k]) \o distributions[k]
    BY DEF DistributionsAreConserved
  <2>3. /\ submitted.distributions[k] = <<>> /\ accepted.distributions[k] = <<>>
        /\ flush.distributions[k] = <<>> /\ distributions[k] = <<>>
    BY DEF TelemetryInit, NoFlush, NoDistributions
  <2> QED BY <2>2, <2>3 DEF TelemetryInit, DistributionsAreConserved, NoFlush, NoDistributions
<1>2. Inv /\ [TelemetryNext]_telemetryVars => Inv'
  BY NextTypeOK, NextDistributions
<1>3. Inv => DistributionsAreConserved
  OBVIOUS
<1> QED BY <1>1, <1>2, <1>3, PTL DEF TelemetrySpec

(* The time of a count: what is buffered is newer than what is in flight.  *)
TimesInv ==
  \A k \in Keys :
    /\ submitted.times[k] <= clock
    /\ counts[k].time \in {0, submitted.times[k]}
    /\ flush.counts[k].time <= submitted.times[k]
    /\ counts[k].time = 0 => flush.counts[k].time \in {0, submitted.times[k]}

(* Submissions only make times later, and Merge keeps the later one. *)
LEMMA NextTimes ==
  ASSUME TelemetryTypeOK, CountsRestoredFirst, TimesInv, [TelemetryNext]_telemetryVars
  PROVE  TimesInv'
<1> DEFINE P(j) == /\ submitted.times[j] <= clock
                   /\ counts[j].time \in {0, submitted.times[j]}
                   /\ flush.counts[j].time <= submitted.times[j]
                   /\ counts[j].time = 0 => flush.counts[j].time \in {0, submitted.times[j]}
<1> USE DEF TelemetryTypeOK
<1> SUFFICES ASSUME NEW j \in Keys PROVE P(j)'
  BY DEF TimesInv
<1>0. P(j)
  BY DEF TimesInv
<1>T. /\ submitted.times[j] \in Nat /\ clock \in Nat
      /\ flush.counts[j] \in Points /\ counts[j] \in Points
      /\ flush.counts[j].time \in Nat /\ counts[j].time \in Nat
  BY BoundAssumption DEF Points
<1>1. ASSUME NEW k \in Keys, NEW v \in Values, SubmitCount(k, v)
      PROVE  P(j)'
  <2>1. clock' = clock + 1 /\ flush' = flush
    BY <1>1 DEF SubmitCount
  <2>2. CASE j = k
    <3>1. submitted'.times[j] = clock + 1
      BY <1>1, <2>2 DEF SubmitCount
    <3>2. counts'[j] = [value |-> counts[j].value + v, time |-> clock + 1]
      BY <1>1, <2>2 DEF SubmitCount
    <3>3. counts'[j].time = clock + 1
      BY <3>2
    <3> HIDE DEF TelemetryTypeOK
    <3> QED BY <1>0, <1>T, <2>1, <3>1, <3>3
  <2>3. CASE j # k
    <3>1. submitted'.times[j] = submitted.times[j] /\ counts'[j] = counts[j]
      BY <1>1, <2>3 DEF SubmitCount
    <3> HIDE DEF TelemetryTypeOK
    <3> QED BY <1>0, <1>T, <2>1, <3>1
  <2> QED BY <2>2, <2>3
<1>2. ASSUME NEW k \in Keys, NEW v \in Values, SubmitDistribution(k, v)
      PROVE  P(j)'
  <2>1. submitted'.times = submitted.times /\ clock' = clock + 1
    BY <1>2 DEF SubmitDistribution
  <2>2. counts' = counts /\ flush' = flush
    BY <1>2 DEF SubmitDistribution
  <2> HIDE DEF TelemetryTypeOK
  <2> QED BY <1>0, <1>T, <2>1, <2>2
<1>3. CASE Drain
  <2>1. flush'.counts[j] = counts[j] /\ counts'[j].time = 0 /\ flush.counts[j].time = 0
    BY <1>3, NoCountsType DEF Drain, NoFlush
  <2> QED BY <1>0, <1>3, <1>T, <2>1 DEF Drain
<1>4. CASE SendSucceeds
  <2>1. flush'.counts[j].time = 0
    BY <1>4, NoCountsType DEF SendSucceeds, NoFlush
  <2> QED BY <1>0, <1>4, <1>T, <2>1 DEF SendSucceeds
<1>5. CASE SendFails
  <2>1. flush'.counts = flush.counts
    BY <1>5 DEF SendFails
  <2> QED BY <1>0, <1>5, <2>1 DEF SendFails
<1>6. CASE RestoreCounts
  <2>1. counts'[j].time = Later(flush.counts[j].time, counts[j].time)
    BY <1>6, <1>T, MergeIsPoint DEF RestoreCounts
  <2>2. flush'.counts[j].time = 0
    BY <1>6, NoCountsType DEF RestoreCounts
  <2>3. submitted' = submitted /\ clock' = clock
    BY <1>6 DEF RestoreCounts
  <2> HIDE DEF TelemetryTypeOK
  <2> QED BY <1>0, <1>T, <2>1, <2>2, <2>3 DEF Later
<1>7. CASE RestoreDistributions
  <2>1. flush.counts[j].time = 0 /\ flush'.counts[j].time = 0
    BY <1>7, NoCountsType DEF RestoreDistributions, CountsRestoredFirst, NoFlush
  <2> QED BY <1>0, <1>7, <1>T, <2>1 DEF RestoreDistributions
<1>8. CASE UNCHANGED telemetryVars
  BY <1>0, <1>8 DEF telemetryVars
<1> QED BY <1>1, <1>2, <1>3, <1>4, <1>5, <1>6, <1>7, <1>8 DEF TelemetryNext

(* A count that is still to be sent carries the time of its last submission. *)
THEOREM LastTimesKept == TelemetrySpec => []CountsCarryTheirLastTime
<1> DEFINE Inv == TelemetryTypeOK /\ CountsRestoredFirst /\ TimesInv
<1>1. TelemetryInit => Inv
  <2> SUFFICES ASSUME TelemetryInit PROVE CountsRestoredFirst /\ TimesInv
    BY InitTypeOK
  <2> QED BY NoCountsType DEF TelemetryInit, CountsRestoredFirst, TimesInv, NoFlush
<1>2. Inv /\ [TelemetryNext]_telemetryVars => Inv'
  BY NextTypeOK, NextCountsRestoredFirst, NextTimes
<1>3. Inv => CountsCarryTheirLastTime
  <2> SUFFICES ASSUME Inv, NEW k \in Keys, PendingTime(k) # 0
      PROVE  PendingTime(k) = submitted.times[k]
    BY DEF CountsCarryTheirLastTime
  <2>1. flush.counts[k].time \in Nat /\ counts[k].time \in Nat /\ submitted.times[k] \in Nat
    BY DEF TelemetryTypeOK, Points
  <2> QED BY <2>1 DEF TimesInv, PendingTime, Later
<1> QED BY <1>1, <1>2, <1>3, PTL DEF TelemetrySpec
=============================================================================
