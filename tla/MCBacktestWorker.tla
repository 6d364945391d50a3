--------------------------- MODULE MCBacktestWorker ----------------------------
(* Small instances of BacktestWorker. *)
EXTENDS BacktestWorker, TLC

\* Workers run the same code.
Symmetry == Permutations(Workers)
================================================================================
