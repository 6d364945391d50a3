-------------------------- MODULE MCAttemptCoordinator --------------------------
(***************************************************************************)
(* AttemptCoordinator on a small policy; the constants are in the cfgs.    *)
(***************************************************************************)
EXTENDS AttemptCoordinator
================================================================================
