---------------------------- MODULE MCGitUpload ----------------------------
(* Instances of GitUpload for TLC. *)
EXTENDS GitUpload
=============================================================================
