--------------------------- MODULE SemaphoreProofs --------------------------
(***************************************************************************)
(* Safety of the concurrency gate for any set of tasks, any limit and any  *)
(* disturbance: permits are conserved, every sleeper has a waker, and the  *)
(* gate implements the pool of permits.  Where nothing disturbs the        *)
(* waiters, no wakeup is lost.                                             *)
(***************************************************************************)
EXTENDS Semaphore, FiniteSetTheorems, SequenceTheorems, TLAPS

SafetyInv == TypeOK /\ PermitConservation /\ WakerRegistered

-----------------------------------------------------------------------------
(* The queue of wakers.                                                     *)

\* A registered waker joins the ones already there (push_back).
LEMMA Pushed ==
    ASSUME NEW w \in Seq(Tasks), NEW t \in Tasks
    PROVE  /\ Append(w, t) \in Seq(Tasks)
           /\ Range(Append(w, t)) = Range(w) \cup {t}
<1>1. /\ Append(w, t) \in Seq(Tasks)
      /\ Len(Append(w, t)) = Len(w) + 1
      /\ Len(w) \in Nat
      /\ \A i \in 1..Len(w) : Append(w, t)[i] = w[i]
      /\ Append(w, t)[Len(w) + 1] = t
  BY AppendProperties
<1>2. DOMAIN w = 1..Len(w) /\ DOMAIN Append(w, t) = 1..(Len(w) + 1)
  BY <1>1
<1>3. Range(Append(w, t)) \subseteq Range(w) \cup {t}
  <2> SUFFICES ASSUME NEW i \in 1..(Len(w) + 1)
               PROVE  Append(w, t)[i] \in Range(w) \cup {t}
    BY <1>2 DEF Range
  <2>1. CASE i \in 1..Len(w)
    BY <1>1, <1>2, <2>1 DEF Range
  <2>2. CASE i = Len(w) + 1
    BY <1>1, <2>2
  <2> QED BY <1>1, <2>1, <2>2
<1>4. Range(w) \subseteq Range(Append(w, t))
  <2> SUFFICES ASSUME NEW i \in 1..Len(w) PROVE w[i] \in Range(Append(w, t))
    BY <1>2 DEF Range
  <2>1. w[i] = Append(w, t)[i] /\ i \in 1..(Len(w) + 1)
    BY <1>1
  <2> QED BY <1>2, <2>1 DEF Range
<1>5. t \in Range(Append(w, t))
  <2>1. Len(w) + 1 \in 1..(Len(w) + 1)
    BY <1>1
  <2> QED BY <1>1, <1>2, <2>1 DEF Range
<1> QED BY <1>1, <1>3, <1>4, <1>5

\* A release takes one waker out of the queue and loses no other (pop_front).
LEMMA PoppedFront ==
    ASSUME NEW w \in Seq(Tasks), w # <<>>
    PROVE  /\ Head(w) \in Tasks
           /\ Tail(w) \in Seq(Tasks)
           /\ Range(w) = Range(Tail(w)) \cup {Head(w)}
<1>1. /\ Head(w) \in Tasks
      /\ Tail(w) \in Seq(Tasks)
      /\ Len(Tail(w)) = Len(w) - 1
      /\ \A i \in 1..Len(Tail(w)) : Tail(w)[i] = w[i + 1]
  BY HeadTailProperties
<1>2. /\ DOMAIN w = 1..Len(w) /\ DOMAIN Tail(w) = 1..(Len(w) - 1)
      /\ Len(w) \in Nat /\ Len(w) > 0
      /\ Head(w) = w[1]
  BY <1>1, EmptySeq, LenProperties
<1>3. Range(w) \subseteq Range(Tail(w)) \cup {Head(w)}
  <2> SUFFICES ASSUME NEW i \in 1..Len(w), i # 1 PROVE w[i] \in Range(Tail(w))
    BY <1>2 DEF Range
  <2>1. i - 1 \in 1..(Len(w) - 1) /\ (i - 1) + 1 = i
    BY <1>2
  <2>2. Tail(w)[i - 1] = w[i]
    BY <1>1, <2>1
  <2> QED BY <1>2, <2>1, <2>2 DEF Range
<1>4. Range(Tail(w)) \subseteq Range(w)
  <2> SUFFICES ASSUME NEW i \in 1..(Len(w) - 1) PROVE Tail(w)[i] \in Range(w)
    BY <1>2 DEF Range
  <2>1. i + 1 \in 1..Len(w) /\ Tail(w)[i] = w[i + 1]
    BY <1>1, <1>2
  <2> QED BY <1>2, <2>1 DEF Range
<1>5. Head(w) \in Range(w)
  <2>1. 1 \in 1..Len(w)
    BY <1>2
  <2> QED BY <1>2, <2>1 DEF Range
<1> QED BY <1>1, <1>3, <1>4, <1>5

-----------------------------------------------------------------------------
(* The holders.                                                             *)

LEMMA HolderCount ==
    ASSUME TypeOK
    PROVE  /\ IsFiniteSet(Holders) /\ Cardinality(Holders) \in Nat
           /\ \A t \in Tasks \ Holders :
                 Cardinality(Holders \cup {t}) = Cardinality(Holders) + 1
           /\ \A t \in Holders :
                 Cardinality(Holders \ {t}) = Cardinality(Holders) - 1
<1>1. Holders \in SUBSET Tasks
  BY DEF Holders
<1>2. IsFiniteSet(Holders)
  BY <1>1, SemaphoreAssumption, FS_Subset
<1> QED BY <1>2, FS_CardinalityType, FS_AddElement, FS_RemoveElement

\* How a step of task t changes the holders.
LEMMA HoldersAfter ==
    ASSUME TypeOK, NEW t \in Tasks, NEW where \in PCs, Goto(t, where)
    PROVE  /\ pc' \in [Tasks -> PCs]
           /\ pc'[t] = where
           /\ \A u \in Tasks \ {t} : pc'[u] = pc[u]
           /\ Holders' = IF where = "holding" THEN Holders \cup {t}
                                              ELSE Holders \ {t}
BY DEF TypeOK, Goto, Holders

LEMMA PCNames ==
    {"idle", "saturated", "polling", "timers", "queued", "holding"} = PCs
BY DEF PCs

-----------------------------------------------------------------------------

\* Before the first call all permits are free and nobody sleeps.
THEOREM InitSafety == Init => SafetyInv
<1> SUFFICES ASSUME Init PROVE SafetyInv
  OBVIOUS
<1>1. TypeOK
  BY SemaphoreAssumption DEF Init, TypeOK, PCs
<1>2. Holders = {} /\ Waiting = {}
  BY DEF Init, Holders, Waiting
<1>3. PermitConservation
  BY <1>2, FS_EmptySet, SemaphoreAssumption DEF Init, PermitConservation
<1> QED BY <1>1, <1>2, <1>3 DEF SafetyInv, WakerRegistered

\* Every step keeps the permits, the queue and its sleepers consistent.
THEOREM NextSafety == SafetyInv /\ [Next]_vars => SafetyInv'
<1> SUFFICES ASSUME SafetyInv, [Next]_vars PROVE SafetyInv'
  OBVIOUS
<1>rigid. disturbances' = disturbances
  BY DEF Next, vars
<1> USE PCNames, <1>rigid
<1>0. /\ TypeOK /\ permits \in Nat /\ Permits \in Nat
      /\ Cardinality(Holders) \in Nat
      /\ permits + Cardinality(Holders) = Permits
  BY HolderCount, SemaphoreAssumption DEF SafetyInv, TypeOK, PermitConservation
<1>1. ASSUME NEW t \in Tasks, TryAcquire(t) PROVE SafetyInv'
  <2>1. CASE permits > 0
    <3>1. permits' = permits - 1 /\ Goto(t, "holding")
      BY <1>1, <2>1 DEF TryAcquire
    <3>2. Holders' = Holders \cup {t} /\ t \notin Holders
      BY <1>0, <1>1, <3>1, HoldersAfter DEF TryAcquire, Holders
    <3>3. PermitConservation'
      BY <1>0, <2>1, <3>1, <3>2, HolderCount DEF PermitConservation
    <3> QED BY <1>0, <1>1, <2>1, <3>1, <3>3, HoldersAfter
            DEF SafetyInv, TypeOK, TryAcquire, WakerRegistered, Waiting
  <2>2. CASE ~(permits > 0)
    <3>1. permits' = permits /\ Goto(t, "saturated")
      BY <1>1, <2>2 DEF TryAcquire
    <3>2. Holders' = Holders
      BY <1>0, <1>1, <3>1, HoldersAfter DEF TryAcquire, Holders
    <3> QED BY <1>0, <1>1, <3>1, <3>2, HoldersAfter
            DEF SafetyInv, TypeOK, PermitConservation, TryAcquire,
                WakerRegistered, Waiting
  <2> QED BY <2>1, <2>2
<1>2. ASSUME NEW t \in Tasks, NEW where \in {"idle", "polling", "queued"},
             pc[t] # "holding", Goto(t, where),
             where = "queued" => pc[t] = "timers",
             UNCHANGED <<permits, waiters>>,
             scheduled' \in [Tasks -> BOOLEAN],
             expired' \in [Tasks -> BOOLEAN],
             \A u \in Tasks \ {t} : scheduled'[u] = scheduled[u],
             where = "queued" => scheduled' = scheduled
      PROVE  SafetyInv'
  <2>1. Holders' = Holders
    BY <1>0, <1>2, HoldersAfter DEF Holders
  <2>2. pc' \in [Tasks -> PCs] /\ pc'[t] = where
        /\ \A u \in Tasks \ {t} : pc'[u] = pc[u]
    BY <1>0, <1>2, HoldersAfter
  <2>3. TypeOK'
    BY <1>0, <1>2, <2>2 DEF TypeOK
  <2>4. WakerRegistered'
    BY <1>0, <1>2, <2>2 DEF SafetyInv, WakerRegistered, Waiting
  <2> QED BY <1>0, <1>2, <2>1, <2>3, <2>4 DEF SafetyInv, PermitConservation
<1>3. ASSUME NEW t \in Tasks, CheckQueue(t) PROVE SafetyInv'
  BY <1>0, <1>2, <1>3 DEF CheckQueue, Leave, TypeOK
<1>4. ASSUME NEW t \in Tasks, Resume(t) PROVE SafetyInv'
  BY <1>0, <1>2, <1>4 DEF Resume, TypeOK
<1>5. ASSUME NEW t \in Tasks, PollAcquire(t) PROVE SafetyInv'
  <2>1. CASE permits > 0
    <3>1. /\ permits' = permits - 1 /\ Goto(t, "holding")
          /\ scheduled' = [scheduled EXCEPT ![t] = FALSE]
          /\ expired' = [expired EXCEPT ![t] = FALSE]
          /\ waiters' = waiters
      BY <1>5, <2>1 DEF PollAcquire
    <3>2. Holders' = Holders \cup {t} /\ t \notin Holders
      BY <1>0, <1>5, <3>1, HoldersAfter DEF PollAcquire, Holders
    <3>3. PermitConservation'
      BY <1>0, <2>1, <3>1, <3>2, HolderCount DEF PermitConservation
    <3> QED BY <1>0, <2>1, <3>1, <3>3, HoldersAfter
            DEF SafetyInv, TypeOK, WakerRegistered, Waiting
  <2>2. CASE ~(permits > 0)
    <3>1. /\ permits' = permits /\ Goto(t, "timers")
          /\ waiters' = Append(waiters, t)
          /\ UNCHANGED <<scheduled, expired>>
      BY <1>5, <2>2 DEF PollAcquire
    <3>2. Holders' = Holders
      BY <1>0, <1>5, <3>1, HoldersAfter DEF PollAcquire, Holders
    <3>3. waiters' \in Seq(Tasks) /\ Range(waiters') = Range(waiters) \cup {t}
      BY <1>0, <3>1, Pushed DEF TypeOK
    <3> QED BY <1>0, <3>1, <3>2, <3>3, HoldersAfter
            DEF SafetyInv, TypeOK, PermitConservation, WakerRegistered, Waiting
  <2> QED BY <2>1, <2>2
<1>6. ASSUME NEW t \in Tasks, PollTimers(t) PROVE SafetyInv'
  BY <1>0, <1>2, <1>6 DEF PollTimers, Leave, TypeOK
<1>7. ASSUME NEW t \in Tasks, Expire(t) \/ Repoll(t) PROVE SafetyInv'
  <2>1. Holders' = Holders /\ Waiting' = Waiting
    BY <1>7 DEF Expire, Repoll, Holders, Waiting
  <2>2. \A u \in Tasks : scheduled[u] => scheduled'[u]
    BY <1>0, <1>7 DEF Expire, Repoll, TypeOK
  <2>3. WakerRegistered'
    BY <1>7, <2>1, <2>2 DEF Expire, Repoll, SafetyInv, WakerRegistered, Waiting
  <2> QED BY <1>0, <1>7, <2>1, <2>3
          DEF Expire, Repoll, SafetyInv, TypeOK, PermitConservation
<1>8. ASSUME NEW t \in Tasks, Drop(t) PROVE SafetyInv'
  BY <1>0, <1>2, <1>8 DEF Drop, Leave, TypeOK
<1>9. ASSUME NEW t \in Tasks, Release(t) PROVE SafetyInv'
  <2>1. Holders' = Holders \ {t} /\ t \in Holders
    BY <1>0, <1>9, HoldersAfter DEF Release, Holders
  <2>2. PermitConservation'
    BY <1>0, <1>9, <2>1, HolderCount DEF Release, PermitConservation
  <2>3. pc' \in [Tasks -> PCs] /\ pc'[t] = "idle"
        /\ \A u \in Tasks \ {t} : pc'[u] = pc[u]
    BY <1>0, <1>9, HoldersAfter DEF Release
  <2>4. CASE waiters = <<>>
    BY <1>0, <1>9, <2>2, <2>3, <2>4
       DEF Release, Popped, Woken, SafetyInv, TypeOK, WakerRegistered, Waiting
  <2>5. CASE waiters # <<>>
    <3>1. /\ Head(waiters) \in Tasks
          /\ waiters' \in Seq(Tasks)
          /\ Range(waiters) = Range(waiters') \cup {Head(waiters)}
      BY <1>0, <1>9, <2>5, PoppedFront DEF Release, Popped, TypeOK
    <3>2. /\ scheduled' \in [Tasks -> BOOLEAN]
          /\ \A u \in Tasks : scheduled[u] => scheduled'[u]
          /\ Head(waiters) \in Waiting => scheduled'[Head(waiters)]
      BY <1>0, <1>9, <2>5, <3>1 DEF Release, Woken, TypeOK, Waiting
    <3>3. Waiting' \subseteq Waiting
      BY <2>3 DEF Waiting
    <3>4. WakerRegistered'
      BY <3>1, <3>2, <3>3 DEF SafetyInv, WakerRegistered, Waiting
    <3> QED BY <1>0, <1>9, <2>2, <2>3, <3>1, <3>2, <3>4
            DEF Release, SafetyInv, TypeOK
  <2> QED BY <2>4, <2>5
<1>10. CASE UNCHANGED vars
  BY <1>10 DEF vars, SafetyInv, TypeOK, PermitConservation, WakerRegistered,
               Holders, Waiting
<1> QED BY <1>1, <1>3, <1>4, <1>5, <1>6, <1>7, <1>8, <1>9, <1>10
        DEF Next, Run

\* Every reachable state of the gate satisfies the invariant.
THEOREM Safety == Spec => []SafetyInv
BY InitSafety, NextSafety, PTL DEF Spec

\* Type correctness of the semaphore, its queue and its callers.
THEOREM SemaphoreTypeOK == Spec => []TypeOK
<1>1. SafetyInv => TypeOK
  BY DEF SafetyInv
<1> QED BY <1>1, Safety, PTL

\* Free and held permits always add up to the limit.
THEOREM PermitConservationHolds == Spec => []PermitConservation
<1>1. SafetyInv => PermitConservation
  BY DEF SafetyInv
<1> QED BY <1>1, Safety, PTL

\* A sleeping caller always has a waker in the queue.
THEOREM WakerRegisteredHolds == Spec => []WakerRegistered
<1>1. SafetyInv => WakerRegistered
  BY DEF SafetyInv
<1> QED BY <1>1, Safety, PTL

-----------------------------------------------------------------------------

\* Both modules mean the same cardinality.
LEMMA SameCardinality == \A S : Pool!Cardinality(S) = Cardinality(S)
BY DEF Pool!Cardinality, Cardinality

\* Every step of the gate takes a permit from the pool, gives one back, or is
\* invisible to the pool.
THEOREM PoolStep == SafetyInv /\ [Next]_vars => [Pool!Next]_Holders
<1> SUFFICES ASSUME SafetyInv, [Next]_vars PROVE [Pool!Next]_Holders
  OBVIOUS
<1> USE PCNames
<1>0. /\ TypeOK /\ permits \in Nat /\ Permits \in Nat
      /\ Cardinality(Holders) \in Nat
      /\ permits + Cardinality(Holders) = Permits
  BY HolderCount, SemaphoreAssumption DEF SafetyInv, TypeOK, PermitConservation
<1>1. ASSUME NEW t \in Tasks, TryAcquire(t) \/ PollAcquire(t), permits > 0
      PROVE  Pool!Next
  <2>1. Goto(t, "holding") /\ pc[t] # "holding"
    BY <1>1 DEF TryAcquire, PollAcquire
  <2>2. Holders' = Holders \cup {t} /\ t \notin Holders
    BY <1>0, <2>1, HoldersAfter DEF Holders
  <2>3. Cardinality(Holders) < Permits
    BY <1>0, <1>1
  <2> QED BY <2>2, <2>3, SameCardinality DEF Pool!Next, Pool!Take
<1>2. ASSUME NEW t \in Tasks, Release(t) PROVE Pool!Next
  <2>1. Holders' = Holders \ {t} /\ t \in Holders
    BY <1>0, <1>2, HoldersAfter DEF Release, Holders
  <2> QED BY <2>1 DEF Pool!Next, Pool!Give
<1>3. ASSUME NEW t \in Tasks,
             NEW where \in {"idle", "saturated", "polling", "timers", "queued"},
             Goto(t, where), pc[t] # "holding"
      PROVE  Holders' = Holders
  BY <1>0, <1>3, HoldersAfter DEF Holders
<1>4. ASSUME NEW t \in Tasks, TryAcquire(t) \/ PollAcquire(t), ~(permits > 0)
      PROVE  Holders' = Holders
  BY <1>3, <1>4 DEF TryAcquire, PollAcquire
<1>5. ASSUME NEW t \in Tasks,
             CheckQueue(t) \/ Resume(t) \/ PollTimers(t) \/ Drop(t)
      PROVE  Holders' = Holders
  BY <1>3, <1>5 DEF CheckQueue, Resume, PollTimers, Drop, Leave
<1>6. ASSUME NEW t \in Tasks, Expire(t) \/ Repoll(t) PROVE Holders' = Holders
  BY <1>6 DEF Expire, Repoll, Holders
<1>7. UNCHANGED vars => Holders' = Holders
  BY DEF vars, Holders
<1> QED BY <1>1, <1>2, <1>4, <1>5, <1>6, <1>7 DEF Next, Run

\* The concurrency gate implements the pool of permits, whatever happens to
\* the queue of wakers.
THEOREM Refinement == Spec => ImplementsPool
<1>1. Init => Pool!Init
  BY DEF Init, Pool!Init, Holders
<1> QED BY <1>1, PoolStep, Safety, PTL DEF Spec, ImplementsPool, Pool!Spec

-----------------------------------------------------------------------------
(* Where waiters are neither dropped, timed out nor polled out of turn, the *)
(* queue holds exactly the sleepers, each of them once; every release then  *)
(* wakes a sleeper.                                                         *)

CalmQueue ==
    /\ \A i \in 1..Len(waiters) : waiters[i] \in Asleep
    /\ \A i, j \in 1..Len(waiters) : waiters[i] = waiters[j] => i = j

Calm ==
    /\ \A t \in Tasks : ~expired[t] /\ (scheduled[t] => t \in Waiting)
    /\ CalmQueue
    /\ Attended

\* What the two classes of waiting callers become when only pc[t] changes.
LEMMA AwakeCount ==
    ASSUME NEW t \in Tasks
    PROVE  /\ Cardinality(Awake) \in Nat
           /\ t \notin Awake => Cardinality(Awake \cup {t}) = Cardinality(Awake) + 1
           /\ t \in Awake => Cardinality(Awake \ {t}) = Cardinality(Awake) - 1
           /\ Cardinality(Awake \ {t}) \in Nat
<1>1. IsFiniteSet(Awake)
  <2>1. Awake \in SUBSET Tasks
    BY DEF Awake, Waiting
  <2> QED BY <2>1, SemaphoreAssumption, FS_Subset
<1> QED BY <1>1, FS_CardinalityType, FS_AddElement, FS_RemoveElement

CalmInv == disturbances = {} => Calm

\* Without disturbances no wakeup is lost: while a caller sleeps, somebody is
\* awake for every free permit.
THEOREM NoLostWakeupHolds == Spec => []NoLostWakeup
<1> USE PCNames
<1>1. Init => CalmInv
  BY DEF Init, CalmInv, Calm, CalmQueue, Attended, Asleep, Waiting
<1>2. SafetyInv /\ CalmInv /\ [Next]_vars => CalmInv'
  <2> SUFFICES ASSUME SafetyInv, Calm, [Next]_vars, disturbances = {}
               PROVE  Calm'
    BY DEF CalmInv, Next, vars
  <2>0. /\ TypeOK /\ permits \in Nat /\ WakerRegistered
        /\ Len(waiters) \in Nat
    BY LenProperties DEF SafetyInv, TypeOK
  <2>1. ASSUME NEW t \in Tasks, TryAcquire(t) PROVE Calm'
    <3>1. Asleep' = Asleep /\ Awake' = Awake /\ Waiting' = Waiting
      BY <2>0, <2>1 DEF TryAcquire, Goto, TypeOK, Asleep, Awake, Waiting
    <3>2. /\ permits' \in Nat /\ permits' <= permits
          /\ UNCHANGED <<waiters, scheduled, expired>>
      BY <2>0, <2>1 DEF TryAcquire
    <3>3. Cardinality(Awake) \in Nat
      BY AwakeCount
    <3>4. Attended'
      BY <2>0, <3>1, <3>2, <3>3 DEF Calm, Attended
    <3> QED BY <3>1, <3>2, <3>4 DEF Calm, CalmQueue
  <2>2. ASSUME NEW t \in Tasks, CheckQueue(t) PROVE Calm'
    <3>1. scheduled' = scheduled /\ expired' = expired
      BY <2>0, <2>2 DEF CheckQueue, Leave, Calm, Waiting, TypeOK
    <3>2. permits' = permits /\ waiters' = waiters
      BY <2>2 DEF CheckQueue
    <3>3. ASSUME NEW where \in {"idle", "polling"}, Goto(t, where)
          PROVE  /\ Asleep' = Asleep /\ Waiting' = Waiting
                 /\ Awake' = IF where = "polling" THEN Awake \cup {t} ELSE Awake
      BY <2>0, <2>2, <3>1, <3>3
         DEF CheckQueue, Goto, TypeOK, Asleep, Awake, Waiting
    <3>4. t \notin Awake
      BY <2>2 DEF CheckQueue, Awake, Waiting
    <3>5. /\ Cardinality(Awake) \in Nat
          /\ Cardinality(Awake \cup {t}) = Cardinality(Awake) + 1
      BY <3>4, AwakeCount
    <3>6. PICK where \in {"idle", "polling"} : Goto(t, where)
      BY <2>2 DEF CheckQueue, Leave
    <3>7. /\ Asleep' = Asleep /\ permits' = permits
          /\ Cardinality(Awake') \in Nat
          /\ Cardinality(Awake') >= Cardinality(Awake)
      <4>1. Awake' = Awake \/ Awake' = Awake \cup {t}
        BY <3>3, <3>6
      <4>2. CASE Awake' = Awake
        BY <3>2, <3>3, <3>5, <3>6, <4>2
      <4>3. CASE Awake' = Awake \cup {t}
        BY <3>2, <3>3, <3>5, <3>6, <4>3
      <4> QED BY <4>1, <4>2, <4>3
    <3>8. Attended'
      BY <2>0, <3>5, <3>7 DEF Calm, Attended
    <3> QED BY <3>1, <3>2, <3>3, <3>6, <3>8 DEF Calm, CalmQueue
  <2>3. ASSUME NEW t \in Tasks, Resume(t) PROVE Calm'
    <3>1. /\ Asleep' = Asleep /\ Awake' = Awake
          /\ \A u \in Tasks : scheduled'[u] => u \in Waiting'
      BY <2>0, <2>3
         DEF Resume, Goto, TypeOK, Asleep, Awake, Waiting, Calm
    <3> QED BY <2>3, <3>1 DEF Resume, Calm, CalmQueue, Attended
  <2>4. ASSUME NEW t \in Tasks, PollAcquire(t) PROVE Calm'
    <3>1. ~scheduled[t] /\ ~expired[t] /\ t \in Awake /\ t \notin Asleep
      BY <2>4 DEF PollAcquire, Calm, Waiting, Awake, Asleep
    <3>2. scheduled' = scheduled /\ expired' = expired
      BY <2>0, <2>4, <3>1 DEF PollAcquire, TypeOK
    <3>3. Awake' = Awake \ {t}
      BY <2>0, <2>4, <3>1, <3>2
         DEF PollAcquire, Goto, TypeOK, Awake, Waiting
    <3>4. \A u \in Tasks : ~expired'[u] /\ (scheduled'[u] => u \in Waiting')
      BY <2>0, <2>4, <3>1, <3>2
         DEF PollAcquire, Goto, TypeOK, Waiting, Calm
    <3>5. CASE permits > 0
      <4>1. /\ permits' = permits - 1 /\ waiters' = waiters
            /\ Asleep' = Asleep
        BY <2>0, <2>4, <3>1, <3>2, <3>5
           DEF PollAcquire, Goto, TypeOK, Asleep, Waiting
      <4> QED BY <2>0, <3>1, <3>3, <3>4, <3>5, <4>1, AwakeCount
              DEF Calm, CalmQueue, Attended
    <3>6. CASE ~(permits > 0)
      <4>1. /\ permits' = 0 /\ waiters' = Append(waiters, t)
            /\ Asleep' = Asleep \cup {t}
        BY <2>0, <2>4, <3>1, <3>2, <3>6
           DEF PollAcquire, Goto, TypeOK, Asleep, Waiting
      <4>2. CalmQueue'
        BY <2>0, <3>1, <4>1, AppendProperties DEF Calm, CalmQueue, TypeOK
      <4>3. Attended'
        <5>1. Cardinality(Awake') \in Nat
          BY <3>3, AwakeCount
        <5> QED BY <4>1, <5>1 DEF Attended
      <4> QED BY <3>4, <4>2, <4>3 DEF Calm
    <3> QED BY <3>5, <3>6
  <2>5. ASSUME NEW t \in Tasks, PollTimers(t) PROVE Calm'
    <3>1. /\ Goto(t, "queued") /\ pc[t] = "timers"
          /\ UNCHANGED <<permits, waiters, scheduled, expired>>
      BY <2>5 DEF PollTimers, Calm
    <3>2. Asleep' = Asleep /\ Awake' = Awake /\ Waiting' = Waiting
      BY <2>0, <3>1 DEF Goto, TypeOK, Asleep, Awake, Waiting
    <3> QED BY <3>1, <3>2 DEF Calm, CalmQueue, Attended
  <2>6. ASSUME NEW t \in Tasks, Release(t) PROVE Calm'
    <3>1. CASE waiters = <<>>
      <4>1. Asleep = {}
        BY <2>0, <3>1 DEF WakerRegistered, Asleep, Range, Waiting
      <4>2. scheduled' = scheduled /\ expired' = expired /\ waiters' = waiters
        BY <2>6, <3>1 DEF Release, Woken, Popped
      <4>3. Waiting' = Waiting /\ Asleep' = {}
        BY <2>0, <2>6, <4>1, <4>2 DEF Release, Goto, TypeOK, Waiting, Asleep
      <4> QED BY <3>1, <4>1, <4>2, <4>3 DEF Calm, CalmQueue, Attended
    <3>2. CASE waiters # <<>>
      <4> DEFINE h == Head(waiters)
      <4>1. /\ h \in Tasks /\ waiters' = Tail(waiters)
            /\ Len(waiters') = Len(waiters) - 1
            /\ \A i \in 1..Len(waiters') : waiters'[i] = waiters[i + 1]
            /\ Len(waiters) > 0 /\ h = waiters[1]
        BY <2>0, <2>6, <3>2, HeadTailProperties, EmptySeq, LenProperties
           DEF Release, Popped, TypeOK
      <4>2. h \in Asleep /\ h \in Waiting /\ ~scheduled[h] /\ h \notin Awake
        BY <2>0, <4>1 DEF Calm, CalmQueue, Asleep, Awake, Waiting
      <4>3. scheduled' = [scheduled EXCEPT ![h] = TRUE] /\ expired' = expired
        BY <2>0, <2>6, <3>2, <4>1, <4>2 DEF Release, Woken, Waiting, TypeOK
      <4>4. /\ Waiting' = Waiting
            /\ Asleep' = Asleep \ {h}
            /\ Awake' = Awake \cup {h}
        BY <2>0, <2>6, <4>1, <4>2, <4>3
           DEF Release, Goto, TypeOK, Waiting, Asleep, Awake
      <4>5. CalmQueue'
        <5>1. \A i \in 1..Len(waiters') : i + 1 \in 1..Len(waiters) /\ i + 1 # 1
          BY <2>0, <4>1
        <5>2. 1 \in 1..Len(waiters)
          BY <2>0, <4>1
        <5>3. \A i \in 1..Len(waiters') :
                 waiters'[i] \in Asleep /\ waiters'[i] # h
          BY <4>1, <5>1, <5>2 DEF Calm, CalmQueue
        <5>4. ASSUME NEW i \in 1..Len(waiters'), NEW j \in 1..Len(waiters'),
                     waiters'[i] = waiters'[j]
              PROVE  i = j
          <6>1. i + 1 = j + 1
            BY <4>1, <5>1, <5>4 DEF Calm, CalmQueue
          <6> QED BY <6>1
        <5> QED BY <4>4, <5>3, <5>4 DEF CalmQueue
      <4>6. Attended'
        <5>1. permits' = permits + 1
          BY <2>6 DEF Release
        <5>2. Cardinality(Awake') = Cardinality(Awake) + 1
              /\ Cardinality(Awake) \in Nat
          BY <4>1, <4>2, <4>4, AwakeCount
        <5> QED BY <2>0, <4>2, <4>4, <5>1, <5>2 DEF Calm, Attended
      <4>7. \A u \in Tasks : ~expired'[u] /\ (scheduled'[u] => u \in Waiting')
        BY <2>0, <4>2, <4>3, <4>4 DEF Calm, TypeOK
      <4> QED BY <4>5, <4>6, <4>7 DEF Calm
    <3> QED BY <3>1, <3>2
  <2>7. ASSUME NEW t \in Tasks, Expire(t) \/ Repoll(t) \/ Drop(t) PROVE Calm'
    BY <2>7 DEF Expire, Repoll, Drop
  <2>8. CASE UNCHANGED vars
    BY <2>8 DEF vars, Calm, CalmQueue, Attended, Asleep, Awake, Waiting
  <2> QED BY <2>1, <2>2, <2>3, <2>4, <2>5, <2>6, <2>7, <2>8 DEF Next, Run
<1>3. CalmInv => NoLostWakeup
  BY DEF CalmInv, Calm, NoLostWakeup
<1> QED BY <1>1, <1>2, <1>3, Safety, PTL DEF Spec

=============================================================================
