----------------------------- MODULE PermitPool -----------------------------
(***************************************************************************)
(* What a concurrency limit promises: at most Permits of its tasks hold a  *)
(* permit at any time, and a permit given back can be taken again.         *)
(***************************************************************************)
EXTENDS Naturals, FiniteSets

CONSTANTS Tasks, Permits

VARIABLE holders

Init == holders = {}

Take(t) == /\ t \notin holders
           /\ Cardinality(holders) < Permits
           /\ holders' = holders \cup {t}

Give(t) == /\ t \in holders
           /\ holders' = holders \ {t}

Next == \E t \in Tasks : Take(t) \/ Give(t)

Spec == Init /\ [][Next]_holders
=============================================================================
