----------------------------- MODULE MCGitSync -----------------------------
(* A two-layer stack for TLC. *)
EXTENDS GitSync
=============================================================================
