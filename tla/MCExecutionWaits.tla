-------------------------- MODULE MCExecutionWaits --------------------------
(* Model-checking instance of ExecutionWaits.                              *)
EXTENDS ExecutionWaits, TLC

CallerSymmetry == Permutations(Callers)
=============================================================================
