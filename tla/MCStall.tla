------------------------------- MODULE MCStall ------------------------------
(* Instance of Stall for TLC.                                               *)
EXTENDS Stall

CONSTANTS s1, s2

\* Two operations on one thread, and one among other threads.
TwoOrOne == {[inline |-> TRUE, watched |-> {s1, s2}],
             [inline |-> FALSE, watched |-> {s1}]}
=============================================================================
