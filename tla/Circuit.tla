------------------------------ MODULE Circuit -------------------------------
(***************************************************************************)
(* What a circuit breaker promises, as if every call asked it and told it  *)
(* in one step each and the cooldown were a switch: no clock, no lock.     *)
(* A call inside the circuit ends by voting or, unseen, without a vote.    *)
(***************************************************************************)
EXTENDS Naturals

CONSTANTS Calls, Threshold, HalfOpenMaxCalls

VARIABLES
    state,
    cooling,    \* the circuit is open and its cooldown not over
    slots,      \* of the half-open period: taken
    successes,  \* of the half-open period: counted
    failures,   \* in a row, while not half-open; Threshold is enough
    inside      \* calls let in that have not ended

vars == <<state, cooling, slots, successes, failures, inside>>

Init ==
    /\ state = "Closed"
    /\ cooling = FALSE
    /\ slots = 0
    /\ successes = 0
    /\ failures = 0
    /\ inside = {}

\* A trip, and every later failure that counts as one, starts a cooldown,
\* which may already be over when it is slow to be told.
Open ==
    /\ state' = "Open"
    /\ cooling' \in BOOLEAN
    /\ slots' = 0
    /\ successes' = 0

Admit(c) ==
    /\ c \notin inside
    /\ inside' = inside \cup {c}
    /\ \/ state = "Closed" /\ UNCHANGED <<state, slots, successes>>
       \/ /\ state = "Open" /\ ~cooling
          /\ state' = "HalfOpen"
          /\ slots' = 1
          /\ successes' = 0
       \/ /\ state = "HalfOpen" /\ slots < HalfOpenMaxCalls
          /\ slots' = slots + 1
          /\ UNCHANGED <<state, successes>>
    /\ UNCHANGED <<cooling, failures>>

Succeed(c) ==
    /\ c \in inside
    /\ inside' = inside \ {c}
    /\ \/ /\ state = "HalfOpen" /\ successes + 1 < HalfOpenMaxCalls
          /\ successes' = successes + 1
          /\ slots' = IF slots = 0 THEN 0 ELSE slots - 1
          /\ UNCHANGED <<state, failures>>
       \/ /\ state = "HalfOpen" /\ successes + 1 >= HalfOpenMaxCalls
          /\ state' = "Closed"
          /\ slots' = 0 /\ successes' = 0 /\ failures' = 0
       \/ /\ state # "HalfOpen"
          /\ failures' = 0
          /\ UNCHANGED <<state, slots, successes>>
    /\ UNCHANGED cooling

Fail(c) ==
    /\ c \in inside
    /\ inside' = inside \ {c}
    /\ \/ state = "HalfOpen" /\ Open /\ UNCHANGED failures
       \/ /\ state # "HalfOpen"
          /\ failures' = IF failures < Threshold THEN failures + 1
                                                ELSE Threshold
          /\ IF failures' = Threshold
             THEN Open
             ELSE UNCHANGED <<state, cooling, slots, successes>>

EndUnseen(c) ==
    /\ c \in inside
    /\ inside' = inside \ {c}
    /\ UNCHANGED <<state, cooling, slots, successes, failures>>

CoolDown ==
    /\ cooling
    /\ cooling' = FALSE
    /\ UNCHANGED <<state, slots, successes, failures, inside>>

Next == \/ CoolDown
        \/ \E c \in Calls : Admit(c) \/ Succeed(c) \/ Fail(c) \/ EndUnseen(c)

Spec == Init /\ [][Next]_vars
=============================================================================
