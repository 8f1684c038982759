----------------------------- MODULE MCBackend -----------------------------
(* Instances of Backend for TLC: headers that are absent, valid, at the    *)
(* limit and beyond it.                                                    *)
EXTENDS Backend

MCResets == {0, 10, 300, 310, 6000}
=============================================================================
