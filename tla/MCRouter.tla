------------------------------ MODULE MCRouter -------------------------------
(* Instances of Router for TLC.                                             *)
EXTENDS Router, TLC

\* round_robin, and any custom score, whose choices include those of
\* first_healthy, of least_in_flight and of p2c.
SomeStrategies == {[signal |-> "picks", sample |-> N],
                   [signal |-> "custom", sample |-> N]}
Symmetry == Permutations(Callers)
=============================================================================
