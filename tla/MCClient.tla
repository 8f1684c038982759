------------------------------ MODULE MCClient ------------------------------
(* Instances of Client for TLC. *)
EXTENDS Client

(* Nothing, each reason to fetch features, and everything.                 *)
MCSettings ==
  { {}, {"known"}, {"management"}, {"skippable", "tia"},
    {"known", "skippable", "management", "tia"} }
=============================================================================
