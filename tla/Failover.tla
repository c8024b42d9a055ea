------------------------------ MODULE Failover -------------------------------
(***************************************************************************)
(* What a router promises its callers: of the members it finds worth       *)
(* trying, each is tried at most once, one at a time; the first success or *)
(* permanent error ends the call; when none is left the caller learns      *)
(* whether an operation failed.  Router implements it.                     *)
(***************************************************************************)
EXTENDS Naturals

CONSTANTS Members, Callers

VARIABLES phase,   \* per call: "out", "looking", "choosing", "trying"
          left,    \* members worth trying, not tried yet; the one on trial
          trying,  \* the member on trial, 0 if none
          tries,   \* members tried, as long as the call runs or was served
          failed,  \* of a running call: an operation failed
          answer   \* "none" while the call runs and when it was dropped

vars == <<phase, left, trying, tries, failed, answer>>

Init ==
    /\ phase = [c \in Callers |-> "out"]
    /\ left = [c \in Callers |-> {}]
    /\ trying = [c \in Callers |-> 0]
    /\ tries = [c \in Callers |-> 0]
    /\ failed = [c \in Callers |-> FALSE]
    /\ answer = [c \in Callers |-> "none"]

Goto(c, where) == phase' = [phase EXCEPT ![c] = where]

End(c, kind) ==
    /\ Goto(c, "out")
    /\ answer' = [answer EXCEPT ![c] = kind]
    /\ left' = [left EXCEPT ![c] = {}]
    /\ trying' = [trying EXCEPT ![c] = 0]
    /\ tries' = [tries EXCEPT ![c] = IF kind = "Served" THEN @ ELSE 0]
    /\ failed' = [failed EXCEPT ![c] = FALSE]

Begin(c) ==
    /\ phase[c] = "out"
    /\ Goto(c, "looking")
    /\ tries' = [tries EXCEPT ![c] = 0]
    /\ answer' = [answer EXCEPT ![c] = "none"]
    /\ UNCHANGED <<left, trying, failed>>

Find(c) ==
    /\ phase[c] = "looking"
    /\ \/ End(c, "AllUnavailable")
       \/ /\ Goto(c, "choosing")
          /\ \E found \in (SUBSET Members) \ {{}} :
                left' = [left EXCEPT ![c] = found]
          /\ UNCHANGED <<trying, tries, failed, answer>>

Try(c) ==
    /\ phase[c] = "choosing"
    /\ Goto(c, "trying")
    /\ \E m \in left[c] : trying' = [trying EXCEPT ![c] = m]
    /\ tries' = [tries EXCEPT ![c] = @ + 1]
    /\ UNCHANGED <<left, failed, answer>>

\* Success, or an error that another member would not cure.
Resolve(c) ==
    /\ phase[c] = "trying"
    /\ \E kind \in {"Served", "Exhausted"} : End(c, kind)

\* Another member gets its try, unless none is left.
Advance(c) ==
    /\ phase[c] = "trying"
    /\ \E error \in BOOLEAN :
          LET anyFailed == failed[c] \/ error
          IN IF left[c] = {trying[c]}
             THEN End(c, IF anyFailed THEN "Exhausted" ELSE "AllUnavailable")
             ELSE /\ Goto(c, "choosing")
                  /\ left' = [left EXCEPT ![c] = @ \ {trying[c]}]
                  /\ trying' = [trying EXCEPT ![c] = 0]
                  /\ failed' = [failed EXCEPT ![c] = anyFailed]
                  /\ UNCHANGED <<tries, answer>>

\* A score that cannot be compared ends the call.
Misscore(c) == phase[c] = "choosing" /\ End(c, "Score")

Drop(c) == phase[c] = "trying" /\ End(c, "none")

Next == \E c \in Callers :
            \/ Begin(c) \/ Find(c) \/ Try(c) \/ Resolve(c) \/ Advance(c)
            \/ Misscore(c) \/ Drop(c)

Spec == Init /\ [][Next]_vars
=============================================================================
