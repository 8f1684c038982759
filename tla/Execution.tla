----------------------------- MODULE Execution -----------------------------
(***************************************************************************)
(* What planning and running the tests promise together, whoever runs      *)
(* them: the planned files are handed out in disjoint batches, and the     *)
(* execution can only be called a success once every one of them has been. *)
(***************************************************************************)
EXTENDS Naturals

CONSTANT Files

VARIABLES
  planned,   \* the files of the plan
  executed,  \* file -> number of batches it was in
  verdict    \* "planning", "executing", "ok" or "failed"

vars == <<planned, executed, verdict>>

Init ==
  /\ planned = {}
  /\ executed = [f \in Files |-> 0]
  /\ verdict = "planning"

Plan(S) ==
  /\ verdict = "planning"
  /\ planned' = S
  /\ verdict' = "executing"
  /\ UNCHANGED executed

(* Batches that were assigned keep starting after another one has failed.  *)
ExecuteBatch(S) ==
  /\ verdict \in {"executing", "failed"}
  /\ S \subseteq {f \in planned : executed[f] = 0}
  /\ executed' = [f \in Files |-> IF f \in S THEN 1 ELSE executed[f]]
  /\ verdict' \in {verdict, "failed"}
  /\ UNCHANGED planned

Fail ==
  /\ verdict # "ok"
  /\ verdict' = "failed"
  /\ UNCHANGED <<planned, executed>>

Succeed ==
  /\ verdict = "executing"
  /\ \A f \in planned : executed[f] = 1
  /\ verdict' = "ok"
  /\ UNCHANGED <<planned, executed>>

Next ==
  \/ \E S \in SUBSET Files : Plan(S) \/ ExecuteBatch(S)
  \/ Fail \/ Succeed

Spec == Init /\ [][Next]_vars
=============================================================================
