----------------------------- MODULE MCBreaker ------------------------------
(* Instances of Breaker for TLC.                                            *)
EXTENDS Breaker, TLC

Symmetry == Permutations(Calls)
=============================================================================
