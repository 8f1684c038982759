------------------------------- MODULE Telemetry -------------------------------
(***************************************************************************)
(* The telemetry client (internal/telemetry/telemetry.go): metrics are     *)
(* submitted by any goroutine while Flush sends what was submitted so far. *)
(* Flush drains the buffers, sends one request without holding their lock, *)
(* and puts back what could not be sent, counts and distributions in two   *)
(* separate critical sections.  flushMu lets one flush run at a time; the  *)
(* calls that wait for it are not represented.                             *)
(*                                                                         *)
(* A key is a metric name with its sorted tags.  A count whose time is 0   *)
(* stands for a key that is not in the map; the clock starts at 1.         *)
(***************************************************************************)
EXTENDS Integers, Sequences

CONSTANTS
  Keys, Values,
  MaxSubmits    \* bound: submitted values

ASSUME ValuesAssumption == Values \subseteq Int
ASSUME BoundAssumption == MaxSubmits \in Nat

VARIABLES
  counts, distributions, \* the buffers of the client
  flush,     \* [stage, counts, distributions]: the flush that holds flushMu
  clock,
  submitted, \* [counts, distributions, times]: what callers submitted
  accepted   \* [counts, distributions]: what successful flushes sent

telemetryVars == <<counts, distributions, flush, clock, submitted, accepted>>

Points == [value: Int, time: Nat]
NoCounts == [k \in Keys |-> [value |-> 0, time |-> 0]]
NoDistributions == [k \in Keys |-> <<>>]

NoFlush == [stage |-> "none", counts |-> NoCounts, distributions |-> NoDistributions]

TelemetryTypeOK ==
  /\ counts \in [Keys -> Points]
  /\ distributions \in [Keys -> Seq(Values)]
  /\ flush \in [stage: {"none", "send", "counts", "distributions"},
                counts: [Keys -> Points], distributions: [Keys -> Seq(Values)]]
  /\ flush.stage = "none" => flush = NoFlush
  /\ clock \in 0 .. MaxSubmits
  /\ submitted \in [counts: [Keys -> Int], distributions: [Keys -> Seq(Values)],
                    times: [Keys -> Nat]]
  /\ accepted \in [counts: [Keys -> Int], distributions: [Keys -> Seq(Values)]]

TelemetryInit ==
  /\ counts = NoCounts /\ distributions = NoDistributions
  /\ flush = NoFlush
  /\ clock = 0
  /\ submitted = [counts |-> [k \in Keys |-> 0], distributions |-> NoDistributions,
                  times |-> [k \in Keys |-> 0]]
  /\ accepted = [counts |-> [k \in Keys |-> 0], distributions |-> NoDistributions]

SubmitCount(k, v) ==
  /\ clock < MaxSubmits
  /\ clock' = clock + 1
  /\ counts' = [counts EXCEPT ![k] = [value |-> counts[k].value + v, time |-> clock + 1]]
  /\ submitted' = [submitted EXCEPT !.counts[k] = @ + v, !.times[k] = clock + 1]
  /\ UNCHANGED <<distributions, flush, accepted>>

SubmitDistribution(k, v) ==
  /\ clock < MaxSubmits
  /\ clock' = clock + 1
  /\ distributions' = [distributions EXCEPT ![k] = Append(@, v)]
  /\ submitted' = [submitted EXCEPT !.distributions[k] = Append(@, v)]
  /\ UNCHANGED <<counts, flush, accepted>>

(* A flush that finds nothing sends nothing. *)
Drain ==
  /\ flush.stage = "none"
  /\ counts # NoCounts \/ distributions # NoDistributions
  /\ flush' = [stage |-> "send", counts |-> counts, distributions |-> distributions]
  /\ counts' = NoCounts /\ distributions' = NoDistributions
  /\ UNCHANGED <<clock, submitted, accepted>>

SendSucceeds ==
  /\ flush.stage = "send"
  /\ flush' = NoFlush
  /\ accepted' =
       [counts |-> [k \in Keys |-> accepted.counts[k] + flush.counts[k].value],
        distributions |->
          [k \in Keys |-> accepted.distributions[k] \o flush.distributions[k]]]
  /\ UNCHANGED <<counts, distributions, clock, submitted>>

(* No connection, no answer in time, a cancelled context, or a status that *)
(* is not 2xx; the receiver may well have got the request.                 *)
SendFails ==
  /\ flush.stage = "send"
  /\ flush' = [flush EXCEPT !.stage = "counts"]
  /\ UNCHANGED <<counts, distributions, clock, submitted, accepted>>

(* Mutant: a key that is there again keeps only its new value.             *)
KeepNew(old, new) == IF new.time = 0 THEN old ELSE new

(* The later of both times; a missing key is neutral on either side.       *)
Merge(old, new) ==
  [value |-> old.value + new.value,
   time  |-> IF old.time > new.time THEN old.time ELSE new.time]

RestoreCounts ==
  /\ flush.stage = "counts"
  /\ counts' = [k \in Keys |-> Merge(flush.counts[k], counts[k])]
  /\ flush' = [flush EXCEPT !.stage = "distributions", !.counts = NoCounts]
  /\ UNCHANGED <<distributions, clock, submitted, accepted>>

(* Mutant: what failed goes behind what came in the meantime.              *)
RestoreBehind ==
  /\ flush.stage = "distributions"
  /\ distributions' = [k \in Keys |-> distributions[k] \o flush.distributions[k]]
  /\ flush' = NoFlush
  /\ UNCHANGED <<counts, clock, submitted, accepted>>

RestoreDistributions ==
  /\ flush.stage = "distributions"
  /\ distributions' = [k \in Keys |-> flush.distributions[k] \o distributions[k]]
  /\ flush' = NoFlush
  /\ UNCHANGED <<counts, clock, submitted, accepted>>

TelemetryNext ==
  \/ \E k \in Keys, v \in Values : SubmitCount(k, v) \/ SubmitDistribution(k, v)
  \/ Drain \/ SendSucceeds \/ SendFails \/ RestoreCounts \/ RestoreDistributions

TelemetrySpec == TelemetryInit /\ [][TelemetryNext]_telemetryVars

-----------------------------------------------------------------------------
(* Properties *)

(* However submissions and failing flushes overlap, a counted value is in  *)
(* exactly one place: sent by a successful flush, in flight, or buffered   *)
(* ("Failed payloads remain buffered for the next call", telemetry.go:46). *)
CountsAreConserved ==
  \A k \in Keys : submitted.counts[k] =
    accepted.counts[k] + flush.counts[k].value + counts[k].value

(* The same for the values of a distribution, which also keep their order. *)
DistributionsAreConserved ==
  \A k \in Keys : submitted.distributions[k] =
    (accepted.distributions[k] \o flush.distributions[k]) \o distributions[k]

(* A count that is still to be sent carries the time of its latest         *)
(* submission, also when that was restored behind a newer one.             *)
Later(t, u) == IF t > u THEN t ELSE u
PendingTime(k) == Later(flush.counts[k].time, counts[k].time)
CountsCarryTheirLastTime ==
  \A k \in Keys : PendingTime(k) # 0 => PendingTime(k) = submitted.times[k]
=============================================================================
