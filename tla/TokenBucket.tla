---------------------------- MODULE TokenBucket -----------------------------
(***************************************************************************)
(* What a shared retry budget promises, as if every operation on it were   *)
(* one step: a call that starts pays in, a retry is granted against        *)
(* RetryCost tokens, and is denied only when the bucket holds fewer.       *)
(***************************************************************************)
EXTENDS Integers

CONSTANTS Callers, MaxTokens, Deposit, RetryCost

VARIABLES tokens,   \* in the bucket
          status    \* per caller: "out" of a call, "in" one, or "denied"

Init == /\ tokens = MaxTokens
        /\ status = [c \in Callers |-> "out"]

Enter(c) ==
    /\ status[c] = "out"
    /\ tokens' = IF tokens + Deposit <= MaxTokens THEN tokens + Deposit
                                                  ELSE MaxTokens
    /\ status' = [status EXCEPT ![c] = "in"]

Grant(c) ==
    /\ status[c] = "in"
    /\ tokens >= RetryCost
    /\ tokens' = tokens - RetryCost
    /\ UNCHANGED status

Deny(c) ==
    /\ status[c] = "in"
    /\ tokens < RetryCost
    /\ status' = [status EXCEPT ![c] = "denied"]
    /\ UNCHANGED tokens

Leave(c) ==
    /\ status[c] \in {"in", "denied"}
    /\ status' = [status EXCEPT ![c] = "out"]
    /\ UNCHANGED tokens

Next == \E c \in Callers : Enter(c) \/ Grant(c) \/ Deny(c) \/ Leave(c)

Spec == Init /\ [][Next]_<<tokens, status>>
=============================================================================
