-------------------------------- MODULE Call ---------------------------------
(***************************************************************************)
(* What a call under a policy promises, whatever timers, permits, budgets  *)
(* and delays do to it: attempts one after another, never more than the    *)
(* limit, then at most one answer, which the attempts made must have       *)
(* earned.  Engine implements it.                                          *)
(***************************************************************************)
EXTENDS Naturals, Sequences

VARIABLES limit,   \* how many attempts the policy allows
          phase,   \* "between" attempts, "attempting", "over"
          ends,    \* how the attempts that ended did
          answer   \* what kind of answer was given, if any

vars == <<limit, phase, ends, answer>>

Init ==
    /\ limit \in Nat \ {0}
    /\ phase = "between"
    /\ ends = <<>>
    /\ answer = "none"

Attempt ==
    /\ phase = "between"
    /\ Len(ends) < limit
    /\ phase' = "attempting"
    /\ UNCHANGED <<limit, ends, answer>>

End ==
    /\ phase = "attempting"
    /\ \E how \in {"ok", "error", "timeout"} : ends' = Append(ends, how)
    /\ phase' = "between"
    /\ UNCHANGED <<limit, answer>>

\* An answer is earned: Ok by the last attempt, an error of the operation by
\* some attempt, a timeout or an exhausted budget by there having been one.
Earned(kind) ==
    CASE kind = "Ok" -> ends # <<>> /\ ends[Len(ends)] = "ok"
      [] kind = "Operation" -> \E i \in DOMAIN ends : ends[i] = "error"
      [] kind \in {"AttemptTimeout", "RetryBudgetExhausted"} -> ends # <<>>
      [] kind = "CircuitOpen" -> ends = <<>>
      [] kind \in {"TotalTimeout", "ConcurrencyRejected"} -> TRUE

\* Only the total deadline ends a call in the middle of an attempt.
Answer(kind) ==
    /\ \/ phase = "between"
       \/ phase = "attempting" /\ kind = "TotalTimeout"
    /\ Earned(kind)
    /\ answer' = kind
    /\ phase' = "over"
    /\ UNCHANGED <<limit, ends>>

Abandon ==
    /\ phase # "over"
    /\ phase' = "over"
    /\ UNCHANGED <<limit, ends, answer>>

Next ==
    \/ Attempt \/ End \/ Abandon
    \/ \E kind \in {"Ok", "Operation", "AttemptTimeout", "TotalTimeout",
                    "CircuitOpen", "ConcurrencyRejected",
                    "RetryBudgetExhausted"} : Answer(kind)

Spec == Init /\ [][Next]_vars
=============================================================================
