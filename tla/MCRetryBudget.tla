--------------------------- MODULE MCRetryBudget ----------------------------
(* Instances of RetryBudget for TLC.                                        *)
EXTENDS RetryBudget, TLC

Symmetry == Permutations(Callers)
=============================================================================
