----------------------------- MODULE ManualClock ----------------------------
(***************************************************************************)
(* The virtual clock of the test core (src/src/core/test.rs): an offset    *)
(* that only `advance` moves, and the wakers of the sleeps that wait for   *)
(* it.  `advance` collects the wakers that are due under the lock and      *)
(* fires them after it.  A sleep compares the offset under the lock and    *)
(* registers its waker under the lock, in two critical sections.           *)
(***************************************************************************)
EXTENDS Naturals

CONSTANT Sleepers

VARIABLES offset,
          wakers,   \* registered: which sleeper, and when it is due
          waking    \* collected by an advance that has not fired them yet

clock == <<offset, wakers, waking>>

ClockTypeOK ==
    /\ offset \in Nat
    /\ wakers \subseteq [due : Nat, sleeper : Sleepers]
    /\ waking \subseteq Sleepers

ClockInit == offset = 0 /\ wakers = {} /\ waking = {}

\* Mutant of Due: only what is due at this very instant.
DueExactly(now) == {w \in wakers : w.due = now}

Due(now) == {w \in wakers : w.due <= now}

Advance(d) ==
    /\ offset' = offset + d
    /\ wakers' = wakers \ Due(offset')
    /\ waking' = waking \cup {w.sleeper : w \in Due(offset')}

\* w.wake(), one after the other.
Fire(s) == s \in waking /\ waking' = waking \ {s} /\ UNCHANGED <<offset, wakers>>

Register(due, s) ==
    /\ wakers' = wakers \cup {[due |-> due, sleeper |-> s]}
    /\ UNCHANGED <<offset, waking>>
=============================================================================
