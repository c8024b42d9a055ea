----------------------------- MODULE Semaphore ------------------------------
(***************************************************************************)
(* The concurrency gate: the async semaphore of src/src/concurrency.rs and *)
(* acquire_permit of src/src/engine.rs, which tries without waiting, then  *)
(* checks the length of the queue, then polls the Acquire future and its   *)
(* timers until one of them is ready.                                      *)
(*                                                                         *)
(* Each use of the mutex is one step: try_acquire, queued, poll, release.  *)
(* `waiters` is the queue of wakers.  A waker names its task, not the      *)
(* future that registered it, and nothing ever takes one out of the queue  *)
(* but release.  `scheduled` says that the executor was told to poll the   *)
(* task since it last began to.                                            *)
(*                                                                         *)
(* SaturationPolicy::Reject behaves as Wait with max_queued = 0.           *)
(***************************************************************************)
EXTENDS Naturals, FiniteSets, Sequences, Functions

CONSTANTS Tasks,        \* tasks, each making one call after the other
          Permits,      \* size of the limit
          MaxQueued,    \* queue length from which callers are rejected
          Scenarios,    \* each a set of disturbances, which besides polls
                        \* and releases may happen in a behaviour:
                        \*   "drop"    a waiting future is dropped
                        \*   "timeout" queue_timeout or the total deadline ends
                        \*   "repoll"  the task is polled for another reason
          MaxWakers     \* bound: queue length beyond which nobody repolls

ASSUME SemaphoreAssumption ==
    /\ IsFiniteSet(Tasks)
    /\ Permits \in Nat \ {0}   \* permits.max(1)
    /\ MaxQueued \in Nat
    /\ Scenarios \subseteq SUBSET {"drop", "timeout", "repoll"}
    /\ MaxWakers \in Nat

VARIABLES permits, waiters, pc, scheduled,
          expired,      \* a timer of this wait is due
          disturbances  \* the scenario, chosen once

vars == <<permits, waiters, pc, scheduled, expired, disturbances>>

PCs == {"idle", "saturated", "polling", "timers", "queued", "holding"}

TypeOK ==
    /\ permits \in Nat
    /\ waiters \in Seq(Tasks)
    /\ pc \in [Tasks -> PCs]
    /\ scheduled \in [Tasks -> BOOLEAN]
    /\ expired \in [Tasks -> BOOLEAN]
    /\ disturbances \in Scenarios

Init ==
    /\ permits = Permits
    /\ waiters = <<>>
    /\ pc = [t \in Tasks |-> "idle"]
    /\ scheduled = [t \in Tasks |-> FALSE]
    /\ expired = [t \in Tasks |-> FALSE]
    /\ disturbances \in Scenarios

Holders == {t \in Tasks : pc[t] = "holding"}
\* Callers with a registered waker and no permit.
Waiting == {t \in Tasks : pc[t] \in {"timers", "queued"}}

Goto(t, where) == pc' = [pc EXCEPT ![t] = where]

\* The call of task t is over: its timers are dropped with it.
Leave(t) ==
    /\ Goto(t, "idle")
    /\ expired' = [expired EXCEPT ![t] = FALSE]
    /\ scheduled' = [scheduled EXCEPT ![t] = FALSE]

\* Semaphore::try_acquire, the start of acquire_permit.
TryAcquire(t) ==
    /\ pc[t] = "idle"
    /\ IF permits > 0
       THEN permits' = permits - 1 /\ Goto(t, "holding")
       ELSE UNCHANGED permits /\ Goto(t, "saturated")
    /\ UNCHANGED <<waiters, scheduled, expired>>

\* Semaphore::queued against max_queued: another use of the lock.
CheckQueue(t) ==
    /\ pc[t] = "saturated"
    /\ IF Len(waiters) >= MaxQueued
       THEN Leave(t)
       ELSE Goto(t, "polling") /\ UNCHANGED <<scheduled, expired>>
    /\ UNCHANGED <<permits, waiters>>

\* The executor polls a task whose waker fired.
Resume(t) ==
    /\ pc[t] = "queued"
    /\ scheduled[t]
    /\ Goto(t, "polling")
    /\ scheduled' = [scheduled EXCEPT ![t] = FALSE]
    /\ UNCHANGED <<permits, waiters, expired>>

\* Mutants of PollAcquire: the permit count is not tested; a poll that is
\* turned away relies on the waker of an earlier one.
PollAcquireUnchecked(t) ==
    /\ pc[t] = "polling"
    /\ permits' = permits - 1
    /\ Goto(t, "holding")
    /\ expired' = [expired EXCEPT ![t] = FALSE]
    /\ scheduled' = [scheduled EXCEPT ![t] = FALSE]
    /\ UNCHANGED waiters

PollAcquireUnregistered(t) ==
    /\ pc[t] = "polling"
    /\ IF permits > 0
       THEN /\ permits' = permits - 1
            /\ Goto(t, "holding")
            /\ expired' = [expired EXCEPT ![t] = FALSE]
            /\ scheduled' = [scheduled EXCEPT ![t] = FALSE]
       ELSE /\ Goto(t, "timers")
            /\ UNCHANGED <<permits, scheduled, expired>>
    /\ UNCHANGED waiters

\* Acquire::poll.  Every poll that finds no permit registers a waker.
PollAcquire(t) ==
    /\ pc[t] = "polling"
    /\ IF permits > 0
       THEN /\ permits' = permits - 1
            /\ Goto(t, "holding")
            /\ expired' = [expired EXCEPT ![t] = FALSE]
            /\ scheduled' = [scheduled EXCEPT ![t] = FALSE]
            /\ UNCHANGED waiters
       ELSE /\ waiters' = Append(waiters, t)
            /\ Goto(t, "timers")
            /\ UNCHANGED <<permits, scheduled, expired>>

\* acquire_permit polls queue_timeout and the deadline after the permit.
PollTimers(t) ==
    /\ pc[t] = "timers"
    /\ IF expired[t]
       THEN Leave(t)
       ELSE Goto(t, "queued") /\ UNCHANGED <<scheduled, expired>>
    /\ UNCHANGED <<permits, waiters>>

\* The queue_timeout or the total deadline of a waiting call is reached.
Expire(t) ==
    /\ "timeout" \in disturbances
    /\ pc[t] \in {"polling", "timers", "queued"}
    /\ ~expired[t]
    /\ expired' = [expired EXCEPT ![t] = TRUE]
    /\ scheduled' = [scheduled EXCEPT ![t] = TRUE]
    /\ UNCHANGED <<permits, waiters, pc>>

\* The task is polled again because of a sibling future (join!, select!).
Repoll(t) ==
    /\ "repoll" \in disturbances
    /\ pc[t] = "queued"
    /\ Len(waiters) < MaxWakers
    /\ scheduled' = [scheduled EXCEPT ![t] = TRUE]
    /\ UNCHANGED <<permits, waiters, pc, expired>>

\* The waiting future is dropped; its wakers stay in the queue.
Drop(t) ==
    /\ "drop" \in disturbances
    /\ pc[t] = "queued"
    /\ Leave(t)
    /\ UNCHANGED <<permits, waiters>>

\* Mutant of Popped: pop_back, the queue served as a stack.
PoppedBack == IF waiters = <<>> THEN <<>> ELSE SubSeq(waiters, 1, Len(waiters) - 1)

\* The wakers left in the queue by pop_front.
Popped == IF waiters = <<>> THEN <<>> ELSE Tail(waiters)

\* Mutant of Woken: the waker is only fired when the limit was exhausted.
WokenFromEmptyOnly ==
    IF waiters = <<>> \/ permits > 0 THEN scheduled
    ELSE [scheduled EXCEPT ![Head(waiters)] = TRUE]

\* The tasks scheduled once the popped waker is fired.  Waking a task that
\* waits for nothing here has no effect on this semaphore.
Woken ==
    IF waiters = <<>> THEN scheduled
    ELSE [scheduled EXCEPT ![Head(waiters)] =
             @ \/ pc[Head(waiters)] \in {"saturated", "polling", "timers",
                                         "queued"}]

\* Mutant of Release: a holder that ends gives two permits back.
ReleaseTwice(t) ==
    /\ pc[t] = "holding"
    /\ Goto(t, "idle")
    /\ permits' = permits + 2
    /\ waiters' = Popped
    /\ scheduled' = Woken
    /\ UNCHANGED expired

\* Permit::drop, when the holder is done or is itself dropped.
Release(t) ==
    /\ pc[t] = "holding"
    /\ Goto(t, "idle")
    /\ permits' = permits + 1
    /\ waiters' = Popped
    /\ scheduled' = Woken
    /\ UNCHANGED expired

Run(t) == TryAcquire(t) \/ CheckQueue(t) \/ Resume(t) \/ PollAcquire(t)
             \/ PollTimers(t)

Next ==
    /\ \E t \in Tasks :
           Run(t) \/ Release(t) \/ Expire(t) \/ Repoll(t) \/ Drop(t)
    /\ UNCHANGED disturbances

Spec == Init /\ [][Next]_vars

(* The executor polls what is scheduled and every operation ends.  Nobody   *)
(* has to make another call.                                                *)
Fairness == \A t \in Tasks :
                /\ WF_vars(pc[t] # "idle" /\ Run(t) /\ UNCHANGED disturbances)
                /\ WF_vars(Release(t) /\ UNCHANGED disturbances)

FairSpec == Spec /\ Fairness
-----------------------------------------------------------------------------
(* Properties.                                                              *)

\* No permit is made or lost, whichever way calls end: the free ones and the
\* held ones are the whole limit (try_acquire, poll, release).
PermitConservation == permits + Cardinality(Holders) = Permits

\* A caller that sleeps in the queue still has a waker there: no poll returns
\* Pending unregistered, and a popped waker is fired (poll, release).
WakerRegistered ==
    \A t \in Waiting : scheduled[t] \/ t \in Range(waiters)

Asleep == {t \in Waiting : ~scheduled[t]}
\* Callers that are about to ask for a permit.
Awake == {t \in Tasks : \/ pc[t] = "polling"
                        \/ t \in Waiting /\ scheduled[t]}

Attended == Asleep # {} => Cardinality(Awake) >= permits

\* "Permits release on drop and wake the next waiter" (concurrency.rs): where
\* no waiter is dropped, times out or is polled out of turn, there is a caller
\* awake for every free permit while one sleeps in the queue, so no permit is
\* free for nobody.
NoLostWakeup == disturbances = {} => Attended

\* The queue is fair: a caller asleep in it is woken or leaves, however many
\* others barge in, because every release takes the oldest waker
\* (pop_front, push_back).
EverySleeperWakes ==
    \A t \in Tasks : (disturbances = {} /\ t \in Asleep) ~> (t \notin Asleep)

\* The same promise of concurrency.rs, without its silent condition.
PermitNeverIdle == Attended

\* The gate implements the pool of permits: polls, queue and timers are
\* invisible to it.
Pool == INSTANCE PermitPool WITH holders <- Holders
ImplementsPool == Pool!Spec
=============================================================================
