---------------------------- MODULE MCRunAttempts -----------------------------
(* Small instances of RunAttempts. *)
EXTENDS RunAttempts
================================================================================
