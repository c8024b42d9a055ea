------------------------------- MODULE Window -------------------------------
(***************************************************************************)
(* The time-bucketed sliding window behind the failure-ratio breaker       *)
(* (src/src/breaker.rs, struct Window).                                    *)
(*                                                                         *)
(* The code keeps a Vec of (start, failures, total) in insertion order.    *)
(* A bucket is only pushed when it starts at least BucketWidth after the   *)
(* last one, so the starts are strictly increasing and the vector is the   *)
(* same thing as a set of buckets whose last element is the youngest one.  *)
(* BucketWidth stands for max(span / 10, 1 ms).                            *)
(***************************************************************************)
EXTENDS Naturals

Sets == INSTANCE FiniteSetsExt   \* named, so that proofs can cite its folds

CONSTANTS Span,         \* sampling window, in clock ticks
          BucketWidth   \* width of one bucket, in clock ticks

ASSUME WindowAssumption == Span \in Nat /\ BucketWidth \in Nat \ {0}

Bucket == [start : Nat, fails : Nat, total : Nat]

NoBuckets == {}

\* Mutant of Evict: old buckets stay.
EvictNothing(w, t) == w

\* Window::evict.  Where now - span is not representable nothing is evicted,
\* which is what the comparison says of natural numbers.
Evict(w, t) == {b \in w : b.start + Span >= t}

\* Window::record.  The subtraction t - start saturates at zero in the code:
\* a vote stamped before the youngest bucket is merged into it.
RecordVote(w, t, failed) ==
    LET kept  == Evict(w, t)
        one   == IF failed THEN 1 ELSE 0
        young == {b \in kept : /\ \A x \in kept : x.start <= b.start
                               /\ t < b.start + BucketWidth}
    IN IF young = {}
       THEN kept \cup {[start |-> t, fails |-> one, total |-> 1]}
       ELSE LET b == CHOOSE x \in young : TRUE
            IN (kept \ {b}) \cup
                   {[start |-> b.start, fails |-> b.fails + one,
                     total |-> b.total + 1]}

\* Window::totals.
Failures(w) == Sets!MapThenSumSet(LAMBDA b : b.fails, w)
Total(w)    == Sets!MapThenSumSet(LAMBDA b : b.total, w)

=============================================================================
