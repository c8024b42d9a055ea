---------------------------- MODULE BreakerProofs ---------------------------
(***************************************************************************)
(* Safety of the circuit breaker for any number of calls, any threshold,   *)
(* cooldown and probe limit, and an unbounded clock.                       *)
(*                                                                         *)
(* The bound on the probes of a half-open period is not inductive: it      *)
(* needs that every admission is accounted for either by a slot still      *)
(* taken or by a success already counted.  The bounds on the cooldown need *)
(* that no call carries a clock reading from the future.                   *)
(***************************************************************************)
EXTENDS Breaker, FiniteSetTheorems, WellFoundedInduction, TLAPS

\* No clock reading is ahead of the clock.
ClockReadings == \A c \in Calls : call[c].at <= now

\* The accounting of a half-open period.
Accounting ==
    IF state = "HalfOpen"
    THEN /\ halfOpenInFlight <= HalfOpenMaxCalls
         /\ halfOpenSuccesses < HalfOpenMaxCalls
         /\ admitted <= halfOpenInFlight + halfOpenSuccesses
    ELSE admitted = 0

IInv == /\ TypeOK
        /\ ClockReadings
        /\ Accounting
        /\ ClosedBelowThreshold
        /\ OpenIsCooling

-----------------------------------------------------------------------------

\* Recording a vote keeps the window a set of buckets (Window::record).
LEMMA RecordVoteType ==
    ASSUME NEW w \in SUBSET Bucket, NEW t \in Nat, NEW failed \in BOOLEAN
    PROVE  RecordVote(w, t, failed) \in SUBSET Bucket
<1> DEFINE kept  == Evict(w, t)
           one   == IF failed THEN 1 ELSE 0
           young == {b \in kept : /\ \A x \in kept : x.start <= b.start
                                  /\ t < b.start + BucketWidth}
<1>1. kept \in SUBSET Bucket /\ young \subseteq kept
  BY DEF Evict
<1>2. one \in Nat
  OBVIOUS
<1>3. CASE young = {}
  <2>1. [start |-> t, fails |-> one, total |-> 1] \in Bucket
    BY <1>2 DEF Bucket
  <2> QED BY <1>1, <1>3, <2>1 DEF RecordVote
<1>4. CASE young # {}
  <2> DEFINE b == CHOOSE x \in young : TRUE
  <2>1. b \in Bucket
    BY <1>1, <1>4
  <2>2. [start |-> b.start, fails |-> b.fails + one, total |-> b.total + 1]
           \in Bucket
    BY <1>2, <2>1 DEF Bucket
  <2> QED BY <1>1, <1>4, <2>2 DEF RecordVote
<1> QED BY <1>3, <1>4

\* Moving one task keeps the tasks well typed.
LEMMA CallType ==
    ASSUME NEW f \in [Calls -> CallState], NEW c \in Calls,
           NEW pc \in PCs, NEW at \in Nat, NEW note \in Notes
    PROVE  /\ [f EXCEPT ![c] = At(pc, at, note)] \in [Calls -> CallState]
           /\ [f EXCEPT ![c] = At(pc, at, note)][c] = At(pc, at, note)
           /\ \A d \in Calls \ {c} :
                 [f EXCEPT ![c] = At(pc, at, note)][d] = f[d]
BY DEF CallState, At

\* The step of a call that only moves that call, to a clock reading that is
\* not in the future, keeps the invariant.
LEMMA MoveCall ==
    ASSUME IInv, NEW c \in Calls,
           NEW pc \in PCs, NEW at \in Nat, at <= now, NEW note \in Notes,
           call' = [call EXCEPT ![c] = At(pc, at, note)]
    PROVE  /\ call' \in [Calls -> CallState]
           /\ \A d \in Calls : call'[d].at <= now
<1>1. call \in [Calls -> CallState] /\ now \in Nat
  BY DEF IInv, TypeOK
<1>2. \A d \in Calls : call[d].at <= now
  BY DEF IInv, ClockReadings
<1>3. call' \in [Calls -> CallState]
  BY <1>1, CallType
<1>4. call'[c].at = at
  BY <1>1, CallType DEF At
<1>5. \A d \in Calls \ {c} : call'[d].at <= now
  BY <1>1, <1>2, CallType
<1> QED BY <1>3, <1>4, <1>5

LEMMA NoteTypes ==
    /\ {None, "success", "failure", "Closed", "Open", "HalfOpen"} \subseteq Notes
    /\ {"idle", "gate", "lock", "running", "vote", "emit"} \subseteq PCs
BY DEF Notes, PCs, States

\* A step that leaves the breaker, the clock and `admitted` alone.
LEMMA CallStep ==
    ASSUME IInv, NEW c \in Calls,
           NEW pc \in PCs, NEW at \in Nat, at <= now, NEW note \in Notes,
           call' = [call EXCEPT ![c] = At(pc, at, note)],
           UNCHANGED <<now, breaker, admitted>>,
           probes' \subseteq Calls
    PROVE  IInv'
<1>1. call' \in [Calls -> CallState] /\ \A d \in Calls : call'[d].at <= now
  BY MoveCall
<1>2. TypeOK'
  BY <1>1 DEF IInv, TypeOK, breaker
<1>3. ClockReadings'
  BY <1>1 DEF ClockReadings
<1> QED BY <1>2, <1>3 DEF IInv, Accounting, ClosedBelowThreshold, OpenIsCooling,
           breaker

\* A vote cast outside HalfOpen keeps the counters well typed and, unless it
\* is a failure, below the threshold (record_success, record_failure).
LEMMA CountVoteType ==
    ASSUME TypeOK, NEW at \in Nat, NEW failed \in BOOLEAN, CountVote(at, failed)
    PROVE  consecutiveFailures' \in Nat /\ window' \in SUBSET Bucket
BY RecordVoteType DEF TypeOK, CountVote

\* Opening the circuit, from whatever state and at whatever past instant.
LEMMA OpenStep ==
    ASSUME IInv, NEW c \in Calls, OpenCircuit(call[c].at),
           call' = [call EXCEPT ![c] = At("emit", 0, "Open")],
           UNCHANGED now,
           consecutiveFailures' \in Nat, window' \in SUBSET Bucket
    PROVE  IInv'
<1>0. "emit" \in PCs /\ 0 \in Nat /\ 0 <= now /\ "Open" \in Notes
  BY NoteTypes DEF IInv, TypeOK
<1>1. call' \in [Calls -> CallState] /\ \A d \in Calls : call'[d].at <= now
  BY <1>0, MoveCall
<1>2. call[c].at \in Nat /\ call[c].at <= now /\ now \in Nat
  BY DEF IInv, TypeOK, CallState, ClockReadings
<1>3. /\ state' = "Open" /\ openUntil' = call[c].at + OpenFor
      /\ openUntil' \in Nat
  BY <1>2, BreakerAssumption DEF OpenCircuit
<1>4. TypeOK'
  BY <1>1, <1>2, <1>3 DEF IInv, TypeOK, OpenCircuit, States
<1>5. OpenIsCooling'
  BY <1>2, <1>3, BreakerAssumption DEF OpenIsCooling
<1> QED BY <1>1, <1>3, <1>4, <1>5
        DEF IInv, ClockReadings, Accounting, ClosedBelowThreshold, OpenCircuit

-----------------------------------------------------------------------------

\* The invariant holds before the first call.
THEOREM InitIInv == Init => IInv
<1> SUFFICES ASSUME Init PROVE IInv
  OBVIOUS
<1>1. TypeOK
  BY DEF Init, TypeOK, States, Idle, At, CallState, PCs, Notes, NoBuckets
<1>2. ClockReadings
  BY DEF Init, ClockReadings, Idle, At
<1> QED BY <1>1, <1>2, BreakerAssumption
        DEF Init, IInv, Accounting, ClosedBelowThreshold, OpenIsCooling

\* Every step of a call, of the clock and of nobody keeps it.
THEOREM NextIInv == IInv /\ [Next]_vars => IInv'
<1> SUFFICES ASSUME IInv, [Next]_vars PROVE IInv'
  OBVIOUS
<1> USE NoteTypes
<1>0. TypeOK /\ now \in Nat /\ 0 <= now
  BY DEF IInv, TypeOK
<1>1. CASE Tick
  <2>1. TypeOK' /\ now' = now + 1
    BY <1>0, <1>1 DEF Tick, TypeOK, breaker, history
  <2>2. ClockReadings'
    BY <1>0, <1>1 DEF Tick, IInv, ClockReadings, TypeOK, CallState
  <2>3. OpenIsCooling'
    BY <1>0, <1>1, BreakerAssumption
       DEF Tick, IInv, OpenIsCooling, TypeOK, breaker
  <2> QED BY <1>1, <2>1, <2>2, <2>3
          DEF Tick, IInv, Accounting, ClosedBelowThreshold, breaker, history
<1>2. ASSUME NEW c \in Calls, Arrive(c) PROVE IInv'
  <2>1. now \in Nat /\ now <= now
    BY <1>0
  <2>2. probes' \subseteq Calls
    BY <1>0, <1>2 DEF Arrive, TypeOK, history
  <2> QED BY <1>2, <2>1, <2>2, CallStep DEF Arrive, history
<1>3. ASSUME NEW c \in Calls, GateFast(c) PROVE IInv'
  <2>1. call[c].at \in Nat /\ call[c].at <= now
    BY DEF IInv, TypeOK, CallState, ClockReadings
  <2>2. CASE state = "Closed"
    BY <1>0, <1>3, <2>2, CallStep DEF GateFast, TypeOK, history
  <2>3. CASE state # "Closed"
    BY <1>0, <1>3, <2>1, <2>3, CallStep DEF GateFast, TypeOK, history
  <2> QED BY <2>2, <2>3
<1>4. ASSUME NEW c \in Calls, GateClosed(c) PROVE IInv'
  BY <1>0, <1>4, CallStep DEF GateClosed, TypeOK, history
<1>5. ASSUME NEW c \in Calls, GateFirstProbe(c) PROVE IInv'
  <2>1. call' \in [Calls -> CallState] /\ \A d \in Calls : call'[d].at <= now
    BY <1>0, <1>5, MoveCall DEF GateFirstProbe
  <2>2. TypeOK'
    BY <1>0, <1>5, <2>1 DEF GateFirstProbe, TypeOK, States
  <2> QED BY <1>5, <2>1, <2>2, BreakerAssumption
          DEF GateFirstProbe, IInv, ClockReadings, Accounting,
              ClosedBelowThreshold, OpenIsCooling
<1>6. ASSUME NEW c \in Calls, GateProbe(c) PROVE IInv'
  <2>1. call' \in [Calls -> CallState] /\ \A d \in Calls : call'[d].at <= now
    BY <1>0, <1>6, MoveCall DEF GateProbe
  <2>2. TypeOK'
    BY <1>0, <1>6, <2>1 DEF GateProbe, TypeOK
  <2>3. Accounting'
    BY <1>0, <1>6, BreakerAssumption DEF GateProbe, IInv, Accounting, TypeOK
  <2> QED BY <1>6, <2>1, <2>2, <2>3
          DEF GateProbe, IInv, ClockReadings, ClosedBelowThreshold, OpenIsCooling
<1>7. ASSUME NEW c \in Calls, GateReject(c) PROVE IInv'
  BY <1>0, <1>7, CallStep DEF GateReject, TypeOK, Idle, history
<1>8. ASSUME NEW c \in Calls, Finish(c) PROVE IInv'
  <2>1. PICK o \in {"success", "failure"} :
           call' = [call EXCEPT ![c] = At("vote", now, o)]
    BY <1>8 DEF Finish
  <2>2. o \in Notes /\ now \in Nat /\ now <= now
    BY <1>0, <2>1
  <2>3. probes' \subseteq Calls /\ UNCHANGED <<now, breaker, admitted>>
    BY <1>0, <1>8 DEF Finish, TypeOK, history
  <2> QED BY <2>1, <2>2, <2>3, CallStep
<1>9. ASSUME NEW c \in Calls, EndWithoutVote(c) PROVE IInv'
  BY <1>0, <1>9, CallStep DEF EndWithoutVote, TypeOK, Idle
<1>10. ASSUME NEW c \in Calls, SuccessHalfOpen(c) PROVE IInv'
  <2>1. CASE halfOpenSuccesses + 1 >= HalfOpenMaxCalls
    <3>1. CloseCircuit /\ call' = [call EXCEPT ![c] = At("emit", 0, "Closed")]
      BY <1>10, <2>1 DEF SuccessHalfOpen
    <3>2. call' \in [Calls -> CallState] /\ \A d \in Calls : call'[d].at <= now
      BY <1>0, <3>1, MoveCall
    <3>3. TypeOK'
      BY <1>0, <1>10, <3>1, <3>2
         DEF SuccessHalfOpen, CloseCircuit, TypeOK, States, NoBuckets
    <3> QED BY <1>10, <3>1, <3>2, <3>3, BreakerAssumption
            DEF SuccessHalfOpen, CloseCircuit, IInv, ClockReadings, Accounting,
                ClosedBelowThreshold, OpenIsCooling
  <2>2. CASE ~(halfOpenSuccesses + 1 >= HalfOpenMaxCalls)
    <3>1. /\ halfOpenInFlight' = SlotsAfterVote
          /\ halfOpenSuccesses' = halfOpenSuccesses + 1
          /\ probes' = probes \ {c}
          /\ call' = [call EXCEPT ![c] = Idle]
          /\ UNCHANGED <<now, state, openUntil, consecutiveFailures, window,
                         admitted>>
      BY <1>10, <2>2 DEF SuccessHalfOpen
    <3>2. call' \in [Calls -> CallState] /\ \A d \in Calls : call'[d].at <= now
      BY <1>0, <3>1, MoveCall DEF Idle
    <3>3. /\ halfOpenInFlight' \in Nat
          /\ halfOpenInFlight' <= halfOpenInFlight
          /\ halfOpenInFlight <= halfOpenInFlight' + 1
      BY <1>0, <3>1 DEF SlotsAfterVote, TypeOK
    <3>4. TypeOK'
      BY <1>0, <3>1, <3>2, <3>3 DEF TypeOK
    <3>5. Accounting'
      BY <1>0, <1>10, <2>2, <3>1, <3>3, BreakerAssumption
         DEF SuccessHalfOpen, IInv, Accounting, TypeOK
    <3> QED BY <3>1, <3>2, <3>4, <3>5
            DEF IInv, ClockReadings, ClosedBelowThreshold, OpenIsCooling
  <2> QED BY <2>1, <2>2
<1>11. ASSUME NEW c \in Calls, SuccessElsewhere(c) PROVE IInv'
  <2>1. call' \in [Calls -> CallState] /\ \A d \in Calls : call'[d].at <= now
    BY <1>0, <1>11, MoveCall DEF SuccessElsewhere, Idle
  <2>2. consecutiveFailures' \in Nat /\ window' \in SUBSET Bucket
    <3>1. call[c].at \in Nat
      BY <1>0 DEF TypeOK, CallState
    <3> QED BY <1>0, <1>11, <3>1, CountVoteType DEF SuccessElsewhere
  <2>3. TypeOK'
    BY <1>0, <1>11, <2>1, <2>2 DEF SuccessElsewhere, TypeOK, history
  <2>4. ClosedBelowThreshold'
    BY <1>11, BreakerAssumption
       DEF SuccessElsewhere, CountVote, IInv, ClosedBelowThreshold
  <2> QED BY <1>11, <2>1, <2>3, <2>4
          DEF SuccessElsewhere, IInv, ClockReadings, Accounting, OpenIsCooling,
              history
<1>12. ASSUME NEW c \in Calls, FailureHalfOpen(c) PROVE IInv'
  BY <1>0, <1>12, OpenStep DEF FailureHalfOpen, TypeOK
<1>13. ASSUME NEW c \in Calls, FailureElsewhere(c) PROVE IInv'
  <2>1. consecutiveFailures' \in Nat /\ window' \in SUBSET Bucket
    <3>1. call[c].at \in Nat
      BY <1>0 DEF TypeOK, CallState
    <3> QED BY <1>0, <1>13, <3>1, CountVoteType DEF FailureElsewhere
  <2>2. CASE ShouldTrip(consecutiveFailures', window')
    BY <1>13, <2>1, <2>2, OpenStep DEF FailureElsewhere
  <2>3. CASE ~ShouldTrip(consecutiveFailures', window')
    <3>1. /\ call' = [call EXCEPT ![c] = Idle]
          /\ UNCHANGED <<now, state, openUntil, halfOpenInFlight,
                         halfOpenSuccesses, history>>
      BY <1>13, <2>3 DEF FailureElsewhere
    <3>2. call' \in [Calls -> CallState] /\ \A d \in Calls : call'[d].at <= now
      BY <1>0, <3>1, MoveCall DEF Idle
    <3>3. TypeOK'
      BY <1>0, <2>1, <3>1, <3>2 DEF TypeOK, history
    <3>4. ClosedBelowThreshold'
      BY <2>1, <2>3, BreakerAssumption DEF ShouldTrip, ClosedBelowThreshold
    <3> QED BY <3>1, <3>2, <3>3, <3>4
            DEF IInv, ClockReadings, Accounting, OpenIsCooling, history
  <2> QED BY <2>2, <2>3
<1>14. ASSUME NEW c \in Calls, Emit(c) PROVE IInv'
  <2>1. CASE call[c].note = "HalfOpen"
    BY <1>0, <1>14, <2>1, CallStep DEF Emit, TypeOK, history
  <2>2. CASE call[c].note # "HalfOpen"
    BY <1>0, <1>14, <2>2, CallStep DEF Emit, Idle, TypeOK, history
  <2> QED BY <2>1, <2>2
<1>15. CASE UNCHANGED vars
  BY <1>15 DEF vars, breaker, history, IInv, TypeOK, ClockReadings, Accounting,
               ClosedBelowThreshold, OpenIsCooling
<1> QED BY <1>1, <1>2, <1>3, <1>4, <1>5, <1>6, <1>7, <1>8, <1>9, <1>10, <1>11,
           <1>12, <1>13, <1>14, <1>15 DEF Next, Gate, Vote, AtBound

\* Every reachable state of the breaker satisfies the inductive invariant.
THEOREM Invariance == Spec => []IInv
BY InitIInv, NextIInv, PTL DEF Spec

\* Type correctness of the breaker and of the calls going through it.
THEOREM BreakerTypeOK == Spec => []TypeOK
<1>1. IInv => TypeOK
  BY DEF IInv
<1> QED BY <1>1, Invariance, PTL

\* The gate admits at most 2 * half_open_max_calls - 1 probes in one half-open
\* period, whatever calls from before the trip vote into it.
THEOREM ProbesPerPeriodHolds == Spec => []ProbesPerPeriod
<1>1. IInv => ProbesPerPeriod
  BY BreakerAssumption DEF IInv, TypeOK, Accounting, ProbesPerPeriod
<1> QED BY <1>1, Invariance, PTL

\* A closed circuit has not seen `threshold` failures in a row.
THEOREM ClosedBelowThresholdHolds == Spec => []ClosedBelowThreshold
<1>1. IInv => ClosedBelowThreshold
  BY DEF IInv
<1> QED BY <1>1, Invariance, PTL

\* An open circuit has a cooldown of at most open_for from now.
THEOREM OpenIsCoolingHolds == Spec => []OpenIsCooling
<1>1. IInv => OpenIsCooling
  BY DEF IInv
<1> QED BY <1>1, Invariance, PTL

-----------------------------------------------------------------------------

\* An open circuit is left only for HalfOpen, and only once the clock has
\* reached open_until: the invariant supplies that no reading is in the future.
THEOREM CooldownHonouredHolds == Spec => CooldownHonoured
<1> DEFINE Left == state = "Open" /\ state' # "Open"
                     => state' = "HalfOpen" /\ now >= openUntil
<1>1. IInv /\ [Next]_vars => [Left]_vars
  <2> SUFFICES ASSUME IInv, Next, state = "Open", state' # "Open"
               PROVE  state' = "HalfOpen" /\ now >= openUntil
    BY DEF vars, breaker
  <2>1. PICK c \in Calls : GateFirstProbe(c)
    BY DEF Next, Gate, Vote, Tick, AtBound, Arrive, GateFast, GateClosed,
           GateProbe, GateReject, Finish, EndWithoutVote, SuccessHalfOpen,
           SuccessElsewhere, FailureHalfOpen, FailureElsewhere, OpenCircuit,
           Emit, breaker, vars
  <2>2. openUntil \in Nat /\ now \in Nat /\ call[c].at \in Nat
    BY DEF IInv, TypeOK, OpenIsCooling, CallState
  <2>3. call[c].at >= openUntil
    BY <2>1, <2>2, BreakerAssumption DEF GateFirstProbe, CooledDown
  <2>4. call[c].at <= now
    BY DEF IInv, ClockReadings
  <2> QED BY <2>1, <2>2, <2>3, <2>4 DEF GateFirstProbe
<1> QED BY <1>1, Invariance, PTL DEF Spec, CooldownHonoured

\* Every transition leaves the call that made it with the event to deliver.
THEOREM EveryChangeIsReportedHolds == Spec => EveryChangeIsReported
<1> DEFINE Reported ==
      state' # state
         => \E c \in Calls : call'[c].pc = "emit" /\ call'[c].note = state'
<1>1. IInv /\ [Next]_vars => [Reported]_vars
  <2> SUFFICES ASSUME IInv, Next, state' # state
               PROVE  \E c \in Calls : call'[c].pc = "emit"
                                       /\ call'[c].note = state'
    BY DEF vars, breaker
  <2>1. PICK c \in Calls : \/ GateFirstProbe(c) \/ SuccessHalfOpen(c)
                           \/ FailureHalfOpen(c) \/ FailureElsewhere(c)
    BY DEF Next, Gate, Vote, Tick, AtBound, Arrive, GateFast, GateClosed,
           GateProbe, GateReject, Finish, EndWithoutVote, SuccessElsewhere,
           Emit, breaker, vars
  <2>2. call' = [call EXCEPT ![c] = At("emit", 0, state')]
    BY <2>1 DEF GateFirstProbe, SuccessHalfOpen, FailureHalfOpen,
                FailureElsewhere, OpenCircuit, CloseCircuit
  <2>3. c \in DOMAIN call
    BY DEF IInv, TypeOK
  <2> QED BY <2>2, <2>3 DEF At
<1> QED BY <1>1, Invariance, PTL DEF Spec, EveryChangeIsReported

-----------------------------------------------------------------------------
(* The accounting of probe slots where no call can end without voting.      *)

\* A probe of the current period is past the gate and has not voted yet, and
\* it exists in a half-open period only.
SlotInv ==
    /\ probes \subseteq Stragglers
    /\ state # "HalfOpen" => probes = {} /\ halfOpenInFlight = 0
    /\ NoSlotLeak

LEMMA ProbeCount ==
    ASSUME IsFiniteSet(Calls), NEW S \in SUBSET Calls, NEW c \in Calls
    PROVE  /\ Cardinality(S) \in Nat
           /\ c \notin S => Cardinality(S \cup {c}) = Cardinality(S) + 1
           /\ Cardinality(S \ {c}) \in Nat
           /\ Cardinality(S) <= Cardinality(S \ {c}) + 1
<1>1. IsFiniteSet(S)
  BY FS_Subset
<1>2. Cardinality(S) \in Nat
  BY <1>1, FS_CardinalityType
<1>3. c \notin S => Cardinality(S \cup {c}) = Cardinality(S) + 1
  BY <1>1, FS_AddElement
<1>4. CASE c \in S
  <2>1. Cardinality(S \ {c}) = Cardinality(S) - 1 /\ Cardinality(S) # 0
    BY <1>1, <1>4, FS_RemoveElement, FS_EmptySet
  <2> QED BY <1>2, <1>3, <2>1
<1>5. CASE c \notin S
  <2>1. S \ {c} = S
    BY <1>5
  <2> QED BY <1>2, <1>3, <2>1
<1> QED BY <1>4, <1>5

\* Moving a call keeps the probes past the gate if the call is past the gate
\* afterwards or is no longer a probe.
LEMMA StragglersAfter ==
    ASSUME TypeOK, probes \subseteq Stragglers, NEW c \in Calls,
           NEW pc \in PCs, NEW at \in Nat, NEW note \in Notes,
           call' = [call EXCEPT ![c] = At(pc, at, note)],
           probes' \subseteq probes \cup {c},
           \/ pc \in {"running", "vote"}
           \/ pc = "emit" /\ note = "HalfOpen"
           \/ c \notin probes'
    PROVE  probes' \subseteq Stragglers'
BY DEF TypeOK, Stragglers, At, CallState

\* In a policy that neither drops calls nor ends them with a rejection, every
\* slot taken belongs to a probe that is still running and will free it.
THEOREM NoSlotLeakHolds ==
    ASSUME IsFiniteSet(Calls), "novote" \notin Outcomes
    PROVE  Spec => []NoSlotLeak
<1> USE NoteTypes
<1>1. Init => SlotInv
  BY FS_EmptySet DEF Init, SlotInv, NoSlotLeak
<1>2. IInv /\ SlotInv /\ [Next]_vars => SlotInv'
  <2> SUFFICES ASSUME IInv, SlotInv, [Next]_vars PROVE SlotInv'
    OBVIOUS
  <2>0. /\ TypeOK /\ now \in Nat /\ 0 \in Nat
        /\ halfOpenInFlight \in Nat /\ Cardinality(probes) \in Nat
    <3>1. IsFiniteSet(probes)
      BY FS_Subset DEF IInv, TypeOK
    <3> QED BY <3>1, FS_CardinalityType DEF IInv, TypeOK
  <2>1. CASE Tick \/ UNCHANGED vars
    BY <2>1 DEF Tick, SlotInv, NoSlotLeak, Stragglers, vars, breaker, history
  <2>2. ASSUME NEW c \in Calls,
               \/ Arrive(c) \/ GateFast(c) \/ GateClosed(c) \/ GateReject(c)
               \/ Finish(c) \/ Emit(c)
        PROVE  SlotInv'
    <3>1. UNCHANGED <<breaker, history>>
      BY <2>2 DEF Arrive, GateFast, GateClosed, GateReject, Finish, Emit
    <3>2. probes \subseteq Stragglers'
      BY <2>0, <2>2 DEF Arrive, GateFast, GateClosed, GateReject, Finish, Emit,
                        SlotInv, Stragglers, TypeOK, CallState, At, Idle
    <3> QED BY <3>1, <3>2 DEF SlotInv, NoSlotLeak, breaker, history
  <2>3. ASSUME NEW c \in Calls, GateFirstProbe(c) PROVE SlotInv'
    <3>1. probes' \subseteq Stragglers'
      BY <2>0, <2>3 DEF GateFirstProbe, Stragglers, TypeOK, CallState, At
    <3>2. Cardinality(probes') = 1
      BY <2>3, FS_Singleton DEF GateFirstProbe
    <3> QED BY <2>3, <3>1, <3>2 DEF GateFirstProbe, SlotInv, NoSlotLeak
  <2>4. ASSUME NEW c \in Calls, GateProbe(c) PROVE SlotInv'
    <3>1. c \notin probes
      BY <2>4 DEF GateProbe, SlotInv, Stragglers
    <3>2. Cardinality(probes') = Cardinality(probes) + 1
      BY <2>0, <2>4, <3>1, ProbeCount DEF GateProbe, TypeOK
    <3>3. probes' \subseteq Stragglers'
      BY <2>0, <2>4, StragglersAfter DEF GateProbe, SlotInv
    <3> QED BY <2>0, <2>4, <3>2, <3>3 DEF GateProbe, SlotInv, NoSlotLeak
  <2>5. ASSUME NEW c \in Calls, EndWithoutVote(c) PROVE SlotInv'
    BY <2>5 DEF EndWithoutVote
  <2>6. ASSUME NEW c \in Calls, SuccessHalfOpen(c) PROVE SlotInv'
    <3>1. CASE halfOpenSuccesses + 1 >= HalfOpenMaxCalls
      BY <2>6, <3>1, FS_EmptySet
         DEF SuccessHalfOpen, CloseCircuit, SlotInv, NoSlotLeak
    <3>2. CASE ~(halfOpenSuccesses + 1 >= HalfOpenMaxCalls)
      <4>1. /\ halfOpenInFlight' = SlotsAfterVote
            /\ probes' = probes \ {c}
            /\ call' = [call EXCEPT ![c] = Idle]
            /\ state' = "HalfOpen"
        BY <2>6, <3>2 DEF SuccessHalfOpen
      <4>2. probes' \subseteq Stragglers'
        BY <2>0, <4>1, StragglersAfter DEF SlotInv, Idle
      <4>3. /\ Cardinality(probes') \in Nat
            /\ Cardinality(probes) <= Cardinality(probes') + 1
        BY <2>0, <4>1, ProbeCount DEF TypeOK
      <4>4. halfOpenInFlight' <= Cardinality(probes')
        BY <2>0, <4>1, <4>3 DEF SlotsAfterVote, SlotInv, NoSlotLeak
      <4> QED BY <4>1, <4>2, <4>4 DEF SlotInv, NoSlotLeak
    <3> QED BY <3>1, <3>2
  <2>7. ASSUME NEW c \in Calls, SuccessElsewhere(c) PROVE SlotInv'
    BY <2>7 DEF SuccessElsewhere, SlotInv, NoSlotLeak, history
  <2>8. ASSUME NEW c \in Calls, FailureHalfOpen(c) PROVE SlotInv'
    BY <2>8, FS_EmptySet DEF FailureHalfOpen, OpenCircuit, SlotInv, NoSlotLeak
  <2>9. ASSUME NEW c \in Calls, FailureElsewhere(c) PROVE SlotInv'
    <3>1. CASE ShouldTrip(consecutiveFailures', window')
      BY <2>9, <3>1, FS_EmptySet
         DEF FailureElsewhere, OpenCircuit, SlotInv, NoSlotLeak
    <3>2. CASE ~ShouldTrip(consecutiveFailures', window')
      BY <2>9, <3>2 DEF FailureElsewhere, SlotInv, NoSlotLeak, history
    <3> QED BY <3>1, <3>2
  <2> QED BY <2>1, <2>2, <2>3, <2>4, <2>5, <2>6, <2>7, <2>8, <2>9
          DEF Next, Gate, Vote, AtBound
<1>3. SlotInv => NoSlotLeak
  BY DEF SlotInv
<1> QED BY <1>1, <1>2, <1>3, Invariance, PTL DEF Spec

-----------------------------------------------------------------------------
(* The shape of the sampling window.                                        *)

\* What WindowShape says of the window, and that it has a youngest bucket:
\* without it the vote that finds no young bucket could not be placed.
Spaced(w) ==
    \A a, b \in w : a # b => \/ a.start + BucketWidth <= b.start
                             \/ b.start + BucketWidth <= a.start
Spanned(w) == \A a, b \in w : b.start <= a.start + Span
Youngest(w) == {b \in w : \A x \in w : x.start <= b.start}
Shape(w) ==
    /\ w \in SUBSET Bucket
    /\ Spaced(w) /\ Spanned(w)
    /\ \A b \in w : b.fails <= b.total
    /\ w # {} => Youngest(w) # {}

\* The oldest buckets go first, so the youngest one stays while any does
\* (Window::evict).
LEMMA EvictShape ==
    ASSUME NEW w, Shape(w), NEW t \in Nat
    PROVE  Shape(Evict(w, t)) /\ \A b \in Evict(w, t) : t <= b.start + Span
<1> DEFINE kept == Evict(w, t)
<1>1. kept \subseteq w /\ \A b \in kept : t <= b.start + Span
  BY DEF Evict, Shape, Bucket
<1>2. kept \in SUBSET Bucket /\ \A b \in kept : b.fails <= b.total
  BY <1>1 DEF Shape
<1>3. Spaced(kept) /\ Spanned(kept)
  BY <1>1 DEF Shape, Spaced, Spanned
<1>4. ASSUME kept # {} PROVE Youngest(kept) # {}
  <2>1. PICK k \in kept : TRUE
    BY <1>4
  <2>2. PICK y \in w : \A x \in w : x.start <= y.start
    BY <1>1, <2>1 DEF Shape, Youngest
  <2>3. k \in w /\ k \in Bucket /\ y \in Bucket
    BY <1>1, <2>1, <2>2 DEF Shape
  <2>4. y.start + Span >= t
    BY <1>1, <2>1, <2>2, <2>3, WindowAssumption DEF Bucket
  <2>5. y \in kept
    BY <2>2, <2>4 DEF Evict
  <2>6. \A x \in kept : x.start <= y.start
    BY <1>1, <2>2
  <2> QED
    BY <2>5, <2>6 DEF Youngest
<1> QED
  BY <1>1, <1>2, <1>3, <1>4 DEF Shape

\* A vote goes to the youngest bucket, or starts one at least a width after
\* it, whatever its clock reading is (Window::record).
LEMMA RecordVoteShape ==
    ASSUME NEW w, Shape(w), NEW t \in Nat, NEW failed \in BOOLEAN
    PROVE  Shape(RecordVote(w, t, failed))
<1> DEFINE kept  == Evict(w, t)
           one   == IF failed THEN 1 ELSE 0
           young == {b \in kept : /\ \A x \in kept : x.start <= b.start
                                  /\ t < b.start + BucketWidth}
<1>1. Shape(kept) /\ \A b \in kept : t <= b.start + Span
  BY EvictShape
<1>2. one \in 0..1
  OBVIOUS
<1>3. BucketWidth \in Nat \ {0} /\ Span \in Nat
  BY WindowAssumption
<1>4. \A b \in kept : /\ b \in Bucket /\ b.start \in Nat /\ b.fails \in Nat
                      /\ b.total \in Nat /\ b.fails <= b.total
  BY <1>1 DEF Shape, Bucket
<1>5. CASE young = {}
  <2> DEFINE new == [start |-> t, fails |-> one, total |-> 1]
  <2>1. RecordVote(w, t, failed) = kept \cup {new}
    BY <1>5 DEF RecordVote
  <2>2. /\ new \in Bucket /\ new.start = t
        /\ new.fails = one /\ new.total = 1
    BY <1>2 DEF Bucket
  <2>3. \A b \in kept : b.start + BucketWidth <= t
    <3> SUFFICES ASSUME NEW b \in kept PROVE b.start + BucketWidth <= t
      OBVIOUS
    <3>1. PICK y \in kept : \A x \in kept : x.start <= y.start
      BY <1>1 DEF Shape, Youngest
    <3>2. ~(t < y.start + BucketWidth)
      BY <1>5, <3>1
    <3> QED
      BY <1>3, <1>4, <3>1, <3>2
  <2> HIDE DEF new, one
  <2>4. \A b \in kept \cup {new} : b \in Bucket /\ b.fails <= b.total
    BY <1>2, <1>4, <2>2
  <2>5. Spaced(kept \cup {new})
    BY <1>1, <2>2, <2>3 DEF Shape, Spaced
  <2>6. Spanned(kept \cup {new})
    <3> HIDE DEF kept
    <3>1. \A b \in kept : t <= b.start + Span /\ b.start <= t + Span
      BY <1>1, <1>3, <1>4, <2>3
    <3>2. t <= t + Span
      BY <1>3
    <3>3. \A a, b \in kept : b.start <= a.start + Span
      BY <1>1 DEF Shape, Spanned
    <3> QED
      BY <2>2, <3>1, <3>2, <3>3 DEF Spanned
  <2>7. new \in Youngest(kept \cup {new})
    <3>1. \A b \in kept : b.start <= t
      BY <1>3, <1>4, <2>3
    <3> QED
      BY <2>2, <3>1 DEF Youngest
  <2> QED
    BY <2>1, <2>4, <2>5, <2>6, <2>7 DEF Shape
<1>6. CASE young # {}
  <2> DEFINE b == CHOOSE x \in young : TRUE
             b2 == [start |-> b.start, fails |-> b.fails + one,
                    total |-> b.total + 1]
             w2 == (kept \ {b}) \cup {b2}
  <2>1. RecordVote(w, t, failed) = w2
    BY <1>6 DEF RecordVote
  <2>2. b \in kept /\ \A x \in kept : x.start <= b.start
    BY <1>6
  <2>3. b2 \in Bucket /\ b2.start = b.start /\ b2.fails <= b2.total
    <3>1. b.start \in Nat /\ b.fails \in Nat /\ b.total \in Nat
          /\ b.fails <= b.total
      BY <1>4, <2>2
    <3> QED
      BY <1>2, <3>1 DEF Bucket
  <2> HIDE DEF b, b2, kept
  <2>4. \A x \in w2 : /\ x \in Bucket /\ x.fails <= x.total
                      /\ x = b2 \/ (x \in kept /\ x # b)
    BY <1>4, <2>3
  <2>5. Spaced(w2)
    BY <1>1, <2>2, <2>3, <2>4 DEF Shape, Spaced
  <2>6. Spanned(w2)
    BY <1>1, <2>2, <2>3, <2>4 DEF Shape, Spanned
  <2>7. b2 \in Youngest(w2)
    <3>1. b2 \in w2 /\ b.start \in Nat
      BY <1>4, <2>2
    <3>2. \A x \in w2 : x.start <= b2.start
      BY <2>2, <2>3, <2>4, <3>1
    <3> QED
      BY <3>1, <3>2 DEF Youngest
  <2> QED
    BY <2>1, <2>4, <2>5, <2>6, <2>7 DEF Shape
<1> QED
  BY <1>5, <1>6

\* Of buckets a width apart within one span there are no more than fit: each
\* lies in a slot of its own, counted back from the youngest.
LEMMA ShapeCount ==
    ASSUME NEW w, Shape(w)
    PROVE  IsFiniteSet(w) /\ Cardinality(w) <= Span \div BucketWidth + 1
<1>1. CASE w = {}
  <2>1. IsFiniteSet(w) /\ Cardinality(w) = 0
    BY <1>1, FS_EmptySet
  <2>2. Span \div BucketWidth \in Nat
    BY WindowAssumption
  <2> QED
    BY <2>1, <2>2
<1>2. CASE w # {}
  <2> DEFINE n == Span \div BucketWidth
  <2>1. PICK y \in w : \A x \in w : x.start <= y.start
    BY <1>2 DEF Shape, Youngest
  <2> DEFINE slot == [b \in w |-> (y.start - b.start) \div BucketWidth]
  <2>2. /\ BucketWidth \in Nat \ {0} /\ Span \in Nat /\ n \in Nat
        /\ \A b \in w : b.start \in Nat
    BY WindowAssumption DEF Shape, Bucket
  <2>3. \A k, m \in Nat : k <= m => k \div BucketWidth \in 0..(m \div BucketWidth)
    BY <2>2
  <2>4. ASSUME NEW b \in w PROVE slot[b] \in 0..n
    <3>1. /\ y.start - b.start \in Nat /\ y.start - b.start <= Span
      BY <2>1, <2>2 DEF Shape, Spanned
    <3> QED
      BY <2>2, <2>3, <3>1
  <2>5. ASSUME NEW a \in w, NEW b \in w, slot[a] = slot[b], a # b
        PROVE  FALSE
    <3> DEFINE i == y.start - a.start
               j == y.start - b.start
    <3>1. i \in Nat /\ j \in Nat
      BY <2>1, <2>2
    <3>2. i + BucketWidth <= j \/ j + BucketWidth <= i
      <4>1. \/ a.start + BucketWidth <= b.start
            \/ b.start + BucketWidth <= a.start
        BY <2>5 DEF Shape, Spaced
      <4>2. a.start \in Nat /\ b.start \in Nat /\ y.start \in Nat
        BY <2>1, <2>2
      <4> QED
        BY <2>2, <4>1, <4>2
    <3>3. i \div BucketWidth = j \div BucketWidth
      BY <2>5
    <3> HIDE DEF i, j
    <3>4. \A k, m \in Nat : k + BucketWidth <= m
                              => k \div BucketWidth # m \div BucketWidth
      BY <2>2
    <3> QED
      BY <3>1, <3>2, <3>3, <3>4
  <2>6. slot \in Injection(w, 0..n)
    <3>1. slot \in [w -> 0..n]
      BY <2>4
    <3>2. \A a, b \in w : slot[a] = slot[b] => a = b
      BY <2>5
    <3> QED
      BY <3>1, <3>2 DEF Injection, IsInjective
  <2>7. IsFiniteSet(0..n) /\ Cardinality(0..n) = n + 1
    <3> HIDE DEF n
    <3>1. 0 \in Int /\ n \in Int /\ n - 0 + 1 = n + 1 /\ ~(0 > n)
      BY <2>2
    <3> QED
      BY <3>1, FS_Interval
  <2> HIDE DEF slot, n
  <2>8. IsFiniteSet(w) /\ Cardinality(w) <= Cardinality(0..n)
    BY <2>6, <2>7, FS_Injection
  <2> QED
    BY <2>7, <2>8 DEF n
<1> QED
  BY <1>1, <1>2

\* The window has a shape in every reachable state.
LEMMA WindowShaped == Spec => []Shape(window)
<1> DEFINE Shaped == Shape(window)
<1>1. Init => Shaped
  BY DEF Init, NoBuckets, Shape, Spaced, Spanned
<1>2. IInv /\ Shaped /\ [Next]_vars => Shaped'
  <2> SUFFICES ASSUME IInv, Shaped, [Next]_vars, window' # window
               PROVE  Shape(window')
    OBVIOUS
  <2>1. ASSUME NEW c \in Calls, NEW failed \in BOOLEAN,
               CountVote(call[c].at, failed)
        PROVE  Shape(window')
    <3>1. call[c].at \in Nat
      BY DEF IInv, TypeOK, CallState
    <3>2. window' = window \/ window' = RecordVote(window, call[c].at, failed)
      BY <2>1 DEF CountVote
    <3> QED
      BY <3>1, <3>2, RecordVoteShape
  <2>2. ASSUME NEW c \in Calls, SuccessHalfOpen(c) PROVE Shape(window')
    <3>1. window' = {}
      BY <2>2 DEF SuccessHalfOpen, CloseCircuit, NoBuckets
    <3> QED
      BY <3>1 DEF Shape, Spaced, Spanned
  <2>3. ASSUME NEW c \in Calls, SuccessElsewhere(c) \/ FailureElsewhere(c)
        PROVE  Shape(window')
    BY <2>1, <2>3 DEF SuccessElsewhere, FailureElsewhere
  <2>4. ASSUME NEW c \in Calls,
               \/ Arrive(c) \/ Gate(c) \/ Finish(c) \/ EndWithoutVote(c)
               \/ FailureHalfOpen(c) \/ Emit(c)
        PROVE  FALSE
    BY <2>4 DEF Arrive, Gate, GateFast, GateClosed, GateFirstProbe, GateProbe,
                GateReject, Finish, EndWithoutVote, FailureHalfOpen, Emit,
                breaker
  <2>5. ~Tick /\ ~AtBound /\ ~UNCHANGED vars
    BY DEF Tick, AtBound, vars, breaker
  <2> QED
    BY <2>2, <2>3, <2>4, <2>5 DEF Next, Vote
<1> QED
  BY <1>1, <1>2, Invariance, PTL DEF Spec

\* For any sampling window and bucket width, and clock readings in any order,
\* the buckets stay a width apart within one span, though a vote may be stamped
\* before the youngest of them (Window::record, evict).
THEOREM WindowShapeHolds == Spec => []WindowShape
<1>1. Shape(window) => WindowShape
  BY DEF Shape, Spaced, Spanned, WindowShape
<1> QED
  BY <1>1, WindowShaped, PTL

\* The code reserves room for one bucket more than fit into the sampling window
\* (Window::new); there are never more, so the vector does not grow.
WithinCapacity ==
    IsFiniteSet(window) /\ Cardinality(window) <= Span \div BucketWidth + 1

\* However votes come, the window never grows past its capacity (Window::record).
THEOREM WithinCapacityHolds == Spec => []WithinCapacity
<1>1. Shape(window) => WithinCapacity
  BY ShapeCount DEF WithinCapacity
<1> QED
  BY <1>1, WindowShaped, PTL

-----------------------------------------------------------------------------
(* What the window counts.  The sums over its buckets are folds: that a fold *)
(* has the value it should is shown from the least size that refutes it.    *)

\* An element of s, the one that a fold of the community modules takes first.
Any(s) == CHOOSE x \in s : TRUE

\* A step of the fold: an element, then the sum of the others.
SumStep(g, f, s) == IF s = {} THEN 0 ELSE f[Any(s)] + g[s \ {Any(s)}]

\* A set of naturals has a least one: what stands in for induction here.
LEMMA Least ==
    ASSUME NEW S \in SUBSET Nat, S # {}
    PROVE  \E x \in S : \A y \in S : x <= y
<1>1. PICK x \in S : \A y \in S : ~(<<y, x>> \in OpToRel(<, Nat))
  BY NatLessThanWellFounded, WFMin
<1>2. \A y \in S : ~(y < x)
  BY <1>1 DEF OpToRel
<1>3. x \in Nat /\ \A y \in S : y \in Nat
  BY <1>1
<1>4. \A y \in S : x <= y
  BY <1>2, <1>3
<1> QED
  BY <1>4

\* Taking an element off a subset of w.
LEMMA TakeAny ==
    ASSUME NEW w, IsFiniteSet(w), NEW s \in SUBSET w, s # {}
    PROVE  /\ Any(s) \in s
           /\ s \ {Any(s)} \in SUBSET w
           /\ Cardinality(s) \in Nat \ {0}
           /\ Cardinality(s \ {Any(s)}) = Cardinality(s) - 1
<1>1. Any(s) \in s
  BY DEF Any
<1>2. IsFiniteSet(s) /\ Cardinality(s) \in Nat /\ Cardinality(s) # 0
  BY FS_Subset, FS_CardinalityType, FS_EmptySet
<1> QED
  BY <1>1, <1>2, FS_RemoveElement

\* The recursion of the fold has a solution: were there none for the subsets of
\* some size, the least such size would have one made from the size before.
LEMMA SumExists ==
    ASSUME NEW w, IsFiniteSet(w), NEW f
    PROVE  \E g : \A s \in SUBSET w : g[s] = SumStep(g, f, s)
<1> DEFINE Solves(g, n) == \A s \in SUBSET w :
                              Cardinality(s) <= n => g[s] = SumStep(g, f, s)
           Unsolved == {n \in Nat : ~ \E g : Solves(g, n)}
<1>1. \A s \in SUBSET w : IsFiniteSet(s) /\ Cardinality(s) \in Nat
  BY FS_Subset, FS_CardinalityType
<1>2. Solves([s \in SUBSET w |-> 0], 0)
  <2>1. \A s \in SUBSET w : Cardinality(s) = 0 => s = {}
    BY <1>1, FS_EmptySet
  <2> QED
    BY <1>1, <2>1 DEF SumStep
<1>3. ASSUME NEW n \in Nat, NEW g, Solves(g, n)
      PROVE  Solves([s \in SUBSET w |-> SumStep(g, f, s)], n + 1)
  <2> DEFINE h == [s \in SUBSET w |-> SumStep(g, f, s)]
  <2>1. \A s \in SUBSET w : Cardinality(s) <= n => h[s] = g[s]
    BY <1>3
  <2> SUFFICES ASSUME NEW s \in SUBSET w, Cardinality(s) <= n + 1
               PROVE  h[s] = SumStep(h, f, s)
    OBVIOUS
  <2>2. h[s] = SumStep(g, f, s)
    OBVIOUS
  <2> HIDE DEF h
  <2>3. CASE s = {}
    BY <2>2, <2>3 DEF SumStep
  <2>4. CASE s # {}
    <3>1. h[s \ {Any(s)}] = g[s \ {Any(s)}]
      BY <1>1, <2>1, <2>4, TakeAny
    <3> QED
      BY <2>2, <2>4, <3>1 DEF SumStep
  <2> QED
    BY <2>3, <2>4
<1>4. Unsolved = {}
  <2> SUFFICES ASSUME Unsolved # {} PROVE FALSE
    OBVIOUS
  <2>1. PICK m \in Unsolved : \A k \in Unsolved : m <= k
    BY Least
  <2>2. m \in Nat /\ m # 0
    BY <1>2
  <2>3. m - 1 \in Nat /\ m - 1 \notin Unsolved
    BY <2>1, <2>2
  <2>4. PICK g : Solves(g, m - 1)
    BY <2>3
  <2>5. Solves([s \in SUBSET w |-> SumStep(g, f, s)], (m - 1) + 1)
    <3> HIDE DEF Solves
    <3> QED BY <1>3, <2>3, <2>4
  <2>6. (m - 1) + 1 = m
    BY <2>2
  <2>7. \E h : Solves(h, m)
    <3> HIDE DEF Solves
    <3> QED BY <2>5, <2>6
  <2> QED
    BY <2>1, <2>7
<1>5. PICK g : Solves(g, Cardinality(w))
  BY <1>1, <1>4
<1>6. \A s \in SUBSET w : Cardinality(s) <= Cardinality(w)
  BY FS_Subset
<1> QED
  BY <1>5, <1>6

\* The number of failures and that of votes are sums of that kind.
LEMMA TotalsAreSums ==
    ASSUME NEW w, IsFiniteSet(w)
    PROVE  \E g, h : /\ \A s \in SUBSET w :
                          /\ g[s] = SumStep(g, [b \in w |-> b.fails], s)
                          /\ h[s] = SumStep(h, [b \in w |-> b.total], s)
                     /\ Failures(w) = g[w] /\ Total(w) = h[w]
<1> DEFINE fails == [b \in w |-> b.fails]
           total == [b \in w |-> b.total]
           F(g) == [s \in SUBSET w |->
                      IF s = {} THEN 0
                      ELSE LET x == CHOOSE x \in s : TRUE
                           IN  x.fails + g[s \ {x}]]
           T(g) == [s \in SUBSET w |->
                      IF s = {} THEN 0
                      ELSE LET x == CHOOSE x \in s : TRUE
                           IN  x.total + g[s \ {x}]]
           g == CHOOSE g : g = F(g)
           h == CHOOSE h : h = T(h)
<1>1. Failures(w) = g[w] /\ Total(w) = h[w]
  BY DEF Failures, Total, Sets!MapThenSumSet, Sets!MapThenFoldSet
<1>2. ASSUME NEW k, NEW s \in SUBSET w
      PROVE  /\ F(k)[s] = SumStep(k, fails, s)
             /\ T(k)[s] = SumStep(k, total, s)
  <2>1. s # {} => Any(s) \in w
    BY DEF Any
  <2> QED
    BY <2>1 DEF SumStep, Any
<1>3. g = F(g)
  <2> HIDE DEF fails
  <2>1. PICK k : \A s \in SUBSET w : k[s] = SumStep(k, fails, s)
    BY SumExists
  <2> DEFINE r == [s \in SUBSET w |-> k[s]]
  <2>2. ASSUME NEW s \in SUBSET w PROVE r[s] = SumStep(r, fails, s)
    BY <2>1, TakeAny DEF SumStep
  <2> HIDE DEF F
  <2>3. \A s \in SUBSET w : r[s] = F(r)[s]
    BY <1>2, <2>2
  <2>4. F(r) = [s \in SUBSET w |-> F(r)[s]]
    BY DEF F
  <2>5. r = F(r)
    BY <2>3, <2>4
  <2> QED
    BY <2>5
<1>4. h = T(h)
  <2> HIDE DEF total
  <2>1. PICK k : \A s \in SUBSET w : k[s] = SumStep(k, total, s)
    BY SumExists
  <2> DEFINE r == [s \in SUBSET w |-> k[s]]
  <2>2. ASSUME NEW s \in SUBSET w PROVE r[s] = SumStep(r, total, s)
    BY <2>1, TakeAny DEF SumStep
  <2> HIDE DEF T
  <2>3. \A s \in SUBSET w : r[s] = T(r)[s]
    BY <1>2, <2>2
  <2>4. T(r) = [s \in SUBSET w |-> T(r)[s]]
    BY DEF T
  <2>5. r = T(r)
    BY <2>3, <2>4
  <2> QED
    BY <2>5
<1>5. \A s \in SUBSET w : g[s] = F(g)[s] /\ h[s] = T(h)[s]
  <2> HIDE DEF F, T, g, h
  <2> QED
    BY <1>3, <1>4
<1>6. \A s \in SUBSET w : /\ g[s] = SumStep(g, fails, s)
                          /\ h[s] = SumStep(h, total, s)
  <2> HIDE DEF F, T, g, h, fails, total
  <2> QED
    BY <1>2, <1>5
<1> HIDE DEF g, h
<1> QED
  BY <1>1, <1>6

\* A window with a success in it has fewer failures than votes; were there a
\* part of the window for which this fails, a least one would not be empty, and
\* without one of its buckets it would be smaller.
LEMMA FailuresBelowTotal ==
    ASSUME NEW w \in SUBSET Bucket, IsFiniteSet(w),
           \A b \in w : b.fails <= b.total
    PROVE  /\ Failures(w) \in Nat /\ Total(w) \in Nat
           /\ Failures(w) <= Total(w)
           /\ (\E b \in w : b.fails < b.total) => Failures(w) < Total(w)
<1>1. PICK g, h : /\ \A s \in SUBSET w :
                        /\ g[s] = SumStep(g, [b \in w |-> b.fails], s)
                        /\ h[s] = SumStep(h, [b \in w |-> b.total], s)
                  /\ Failures(w) = g[w] /\ Total(w) = h[w]
  BY TotalsAreSums
<1> DEFINE Fewer(s) == /\ g[s] \in Nat /\ h[s] \in Nat /\ g[s] <= h[s]
                       /\ (\E b \in s : b.fails < b.total) => g[s] < h[s]
           Refuted == {n \in Nat : \E s \in SUBSET w :
                                     Cardinality(s) = n /\ ~Fewer(s)}
<1>2. Fewer({})
  <2>1. g[{}] = 0 /\ h[{}] = 0
    BY <1>1 DEF SumStep
  <2> QED
    BY <2>1
<1>3. ASSUME NEW s \in SUBSET w, s # {}, Fewer(s \ {Any(s)})
      PROVE  Fewer(s)
  <2> DEFINE b == Any(s)
             r == s \ {Any(s)}
  <2>1. b \in s /\ b \in w
    BY <1>3 DEF Any
  <2>2. b.fails \in Nat /\ b.total \in Nat /\ b.fails <= b.total
    BY <2>1 DEF Bucket
  <2>3. g[s] = b.fails + g[r] /\ h[s] = b.total + h[r]
    BY <1>1, <1>3, <2>1 DEF SumStep
  <2>4. /\ g[r] \in Nat /\ h[r] \in Nat /\ g[r] <= h[r]
        /\ (\E x \in r : x.fails < x.total) => g[r] < h[r]
    BY <1>3
  <2>5. (\E x \in s : x.fails < x.total)
           => b.fails < b.total \/ \E x \in r : x.fails < x.total
    OBVIOUS
  <2> HIDE DEF b, r
  <2> QED
    BY <2>2, <2>3, <2>4, <2>5
<1>4. Refuted = {}
  <2> SUFFICES ASSUME Refuted # {} PROVE FALSE
    OBVIOUS
  <2>1. PICK n \in Refuted : \A k \in Refuted : n <= k
    BY Least
  <2>2. PICK s \in SUBSET w : Cardinality(s) = n /\ ~Fewer(s)
    BY <2>1
  <2>3. s # {}
    BY <1>2, <2>2
  <2>4. /\ s \ {Any(s)} \in SUBSET w /\ n \in Nat \ {0}
        /\ Cardinality(s \ {Any(s)}) = n - 1
    BY <2>2, <2>3, TakeAny
  <2>5. n - 1 \in Refuted
    <3> HIDE DEF Fewer
    <3>1. ~Fewer(s \ {Any(s)})
      BY <1>3, <2>2, <2>3
    <3> QED
      BY <2>4, <3>1
  <2> QED
    BY <2>1, <2>4, <2>5
<1>5. Fewer(w)
  <2>1. Cardinality(w) \in Nat
    BY FS_CardinalityType
  <2> HIDE DEF Fewer
  <2> QED
    BY <1>4, <2>1
<1> QED
  BY <1>1, <1>5

\* An empty window counts no votes.
LEMMA NoVotes ==
    ASSUME NEW w, IsFiniteSet(w)
    PROVE  w = {} => Total(w) = 0
<1>1. PICK g, h : /\ \A s \in SUBSET w :
                        /\ g[s] = SumStep(g, [b \in w |-> b.fails], s)
                        /\ h[s] = SumStep(h, [b \in w |-> b.total], s)
                  /\ Failures(w) = g[w] /\ Total(w) = h[w]
  BY TotalsAreSums
<1> QED
  BY <1>1 DEF SumStep

\* A success leaves a bucket with a success in it (Window::record).
LEMMA SuccessSeen ==
    ASSUME NEW w, Shape(w), NEW t \in Nat
    PROVE  \E b \in RecordVote(w, t, FALSE) : b.fails < b.total
<1> DEFINE kept  == Evict(w, t)
           young == {b \in kept : /\ \A x \in kept : x.start <= b.start
                                  /\ t < b.start + BucketWidth}
<1>1. \A b \in kept : /\ b.fails \in Nat /\ b.total \in Nat
                      /\ b.fails <= b.total
  BY DEF Evict, Shape, Bucket
<1>2. CASE young = {}
  <2> DEFINE new == [start |-> t, fails |-> 0, total |-> 1]
  <2>1. new \in RecordVote(w, t, FALSE)
    BY <1>2 DEF RecordVote
  <2>2. new.fails < new.total
    OBVIOUS
  <2> QED
    BY <2>1, <2>2
<1>3. CASE young # {}
  <2> DEFINE b == CHOOSE x \in young : TRUE
             b2 == [start |-> b.start, fails |-> b.fails + 0,
                    total |-> b.total + 1]
  <2>1. b2 \in RecordVote(w, t, FALSE)
    BY <1>3 DEF RecordVote
  <2>2. b \in kept
    BY <1>3
  <2>3. b2.fails = b.fails + 0 /\ b2.total = b.total + 1
    OBVIOUS
  <2> HIDE DEF b, b2, kept
  <2>4. b2.fails < b2.total
    BY <1>1, <2>2, <2>3
  <2> QED
    BY <2>1, <2>4
<1> QED
  BY <1>2, <1>3

\* For any clock readings, votes and buckets: min_throughput failures and no
\* success never leave the circuit closed, for any ratio that can be set
\* (record_failure, should_trip; close forgets the window).
THEOREM OutageTripsHolds == Spec => []OutageTrips
<1>1. \A w : Shape(w) => /\ Failures(w) \in Nat /\ Total(w) \in Nat
                         /\ Failures(w) <= Total(w)
                         /\ (\E b \in w : b.fails < b.total)
                               => Failures(w) < Total(w)
  BY FailuresBelowTotal, ShapeCount DEF Shape
<1>2. \A w : w = {} => Total(w) = 0
  BY NoVotes, FS_EmptySet
<1>3. Init => OutageTrips
  <2> SUFFICES ASSUME Init PROVE OutageTrips
    OBVIOUS
  <2>1. Total(window) = 0
    BY <1>2 DEF Init, NoBuckets
  <2> QED
    BY <2>1 DEF OutageTrips
<1>4. /\ IInv /\ Shape(window) /\ Shape(window)' /\ OutageTrips
      /\ [Next]_vars
      => OutageTrips'
  <2> SUFFICES ASSUME IInv, Shape(window), Shape(window'), OutageTrips,
                      [Next]_vars, state' = "Closed", TripKind = "FailureRatio"
               PROVE  ~(/\ Total(window') > 0
                        /\ Total(window') >= MinThroughput
                        /\ Failures(window') = Total(window'))
    BY DEF OutageTrips
  <2>1. CASE UNCHANGED <<state, window>>
    BY <2>1 DEF OutageTrips
  <2>2. ASSUME NEW c \in Calls, SuccessHalfOpen(c)
        PROVE  Total(window') = 0
    <3>1. window' = {}
      BY <2>2 DEF SuccessHalfOpen, CloseCircuit, NoBuckets
    <3> QED
      BY <1>2, <3>1
  <2>3. ASSUME NEW c \in Calls, SuccessElsewhere(c)
        PROVE  Failures(window') < Total(window')
    <3>1. window' = RecordVote(window, call[c].at, FALSE) /\ call[c].at \in Nat
      BY <2>3 DEF SuccessElsewhere, CountVote, IInv, TypeOK, CallState
    <3>2. \E b \in window' : b.fails < b.total
      BY <3>1, SuccessSeen
    <3> QED
      BY <1>1, <3>2
  <2>4. ASSUME NEW c \in Calls, FailureElsewhere(c)
        PROVE  \/ Total(window') < MinThroughput
               \/ Failures(window') < Total(window')
    <3>1. ~ShouldTrip(consecutiveFailures', window')
      BY <2>4 DEF FailureElsewhere, OpenCircuit
    <3>2. \/ ~(Total(window') >= MinThroughput)
          \/ ~(Failures(window') * RatioDen >= RatioNum * Total(window'))
      BY <3>1 DEF ShouldTrip
    <3> DEFINE f == Failures(window')
               n == Total(window')
    <3>3. f \in Nat /\ n \in Nat /\ f <= n
      BY <1>1
    <3>4. /\ RatioNum \in Nat /\ RatioDen \in Nat /\ RatioNum <= RatioDen
          /\ MinThroughput \in Nat
      BY BreakerAssumption
    <3> HIDE DEF f, n
    <3>5. f * RatioDen >= RatioNum * f
      BY <3>3, <3>4
    <3>6. ~(n >= MinThroughput) \/ ~(f * RatioDen >= RatioNum * n)
      BY <3>2 DEF f, n
    <3>7. n < MinThroughput \/ f < n
      BY <3>3, <3>4, <3>5, <3>6
    <3> QED
      BY <3>7 DEF f, n
  <2>5. ASSUME NEW c \in Calls,
               \/ Arrive(c) \/ Gate(c) \/ Finish(c) \/ EndWithoutVote(c)
               \/ FailureHalfOpen(c) \/ Emit(c)
        PROVE  UNCHANGED <<state, window>>
    BY <2>5 DEF Arrive, Gate, GateFast, GateClosed, GateFirstProbe, GateProbe,
                GateReject, Finish, EndWithoutVote, FailureHalfOpen, Emit,
                breaker, OpenCircuit
  <2>6. ASSUME Tick \/ AtBound \/ UNCHANGED vars
        PROVE  UNCHANGED <<state, window>>
    BY <2>6 DEF Tick, AtBound, vars, breaker
  <2>7. Total(window') \in Nat /\ MinThroughput \in Nat
        /\ Failures(window') \in Nat
    BY <1>1, BreakerAssumption
  <2> QED
    BY <2>1, <2>2, <2>3, <2>4, <2>5, <2>6, <2>7 DEF Next, Vote
<1> QED
  BY <1>3, <1>4, Invariance, WindowShaped, PTL DEF Spec

-----------------------------------------------------------------------------
(* The breaker implements the circuit.                                      *)

\* The refinement mapping.
Cooling == state = "Open" /\ now < openUntil
InARow == IF consecutiveFailures < Threshold THEN consecutiveFailures
                                             ELSE Threshold

\* A call is inside the circuit from its admission to its vote.
LEMMA Inside ==
    ASSUME TypeOK, NEW c \in Calls,
           NEW pc \in PCs, NEW at \in Nat, NEW note \in Notes,
           call' = [call EXCEPT ![c] = At(pc, at, note)]
    PROVE  /\ (\/ pc \in {"running", "vote"}
               \/ pc = "emit" /\ note = "HalfOpen")
                  => Stragglers' = Stragglers \cup {c}
           /\ ~(\/ pc \in {"running", "vote"}
                \/ pc = "emit" /\ note = "HalfOpen")
                  => Stragglers' = Stragglers \ {c}
<1> DEFINE In == \/ pc \in {"running", "vote"}
                 \/ pc = "emit" /\ note = "HalfOpen"
<1>1. /\ call'[c].pc = pc /\ call'[c].note = note
      /\ \A d \in Calls \ {c} : call'[d] = call[d]
  BY DEF TypeOK, CallState, At
<1>2. /\ c \in Stragglers' <=> In
      /\ \A d \in Calls \ {c} : d \in Stragglers' <=> d \in Stragglers
  BY <1>1 DEF Stragglers
<1>3. Stragglers \subseteq Calls /\ Stragglers' \subseteq Calls
  BY DEF Stragglers
<1>4. ASSUME NEW S \in SUBSET Calls, NEW T \in SUBSET Calls,
             \A d \in Calls \ {c} : d \in T <=> d \in S
      PROVE  /\ c \in T => T = S \cup {c}
             /\ c \notin T => T = S \ {c}
  BY <1>4
<1>5. /\ c \in Stragglers' => Stragglers' = Stragglers \cup {c}
      /\ c \notin Stragglers' => Stragglers' = Stragglers \ {c}
  BY <1>2, <1>3, <1>4
<1> QED BY <1>2, <1>5

\* Where the call is neither admitted nor about to vote, it is outside.
LEMMA Outside ==
    ASSUME TypeOK, NEW c \in Calls, NEW pc \in {"idle", "gate", "lock"},
           NEW at \in Nat, call' = [call EXCEPT ![c] = At(pc, at, None)]
    PROVE  Stragglers' = Stragglers \ {c}
<1>1. pc \in PCs /\ None \in Notes
  BY NoteTypes
<1>2. ~(pc \in {"running", "vote"} \/ (pc = "emit" /\ None = "HalfOpen"))
  OBVIOUS
<1> QED BY <1>1, <1>2, Inside

\* Every step of the breaker and its calls is a step of the circuit, or none.
LEMMA StepImplements ==
    ASSUME TripKind = "Consecutive", IInv, IInv', [Next]_vars
    PROVE  [TheCircuit!Next]_(TheCircuit!vars)
<1> USE NoteTypes, BreakerAssumption
<1> DEFINE Stutters == UNCHANGED <<state, Cooling, halfOpenInFlight,
                                   halfOpenSuccesses, InARow, Stragglers>>
<1>0. /\ TypeOK /\ now \in Nat /\ 0 \in Nat /\ consecutiveFailures \in Nat
      /\ Threshold \in Nat \ {0}
  BY DEF IInv, TypeOK
<1>1. Stutters => UNCHANGED TheCircuit!vars
  BY DEF TheCircuit!vars, Cooling, InARow
<1>2. CASE Tick
  <2>1. UNCHANGED <<state, openUntil, halfOpenInFlight, halfOpenSuccesses,
                    InARow, Stragglers>>
    BY <1>2 DEF Tick, breaker, InARow, Stragglers
  <2>2. CASE Cooling' = Cooling
    BY <1>1, <2>1, <2>2
  <2>3. CASE Cooling' # Cooling
    <3>1. Cooling /\ Cooling' = FALSE
      BY <1>0, <1>2, <2>1, <2>3 DEF Tick, Cooling, OpenIsCooling, IInv, TypeOK
    <3>2. TheCircuit!CoolDown
      BY <2>1, <3>1 DEF TheCircuit!CoolDown, Cooling, InARow
    <3> QED BY <3>2 DEF TheCircuit!Next
  <2> QED BY <2>2, <2>3
<1>3. CASE UNCHANGED vars
  BY <1>1, <1>3 DEF vars, breaker, Cooling, InARow, Stragglers
<1>4. ASSUME NEW c \in Calls, Arrive(c) \/ GateReject(c) \/ Finish(c) \/ Emit(c)
      PROVE  UNCHANGED TheCircuit!vars
  <2>1. UNCHANGED <<now, breaker>>
    BY <1>4 DEF Arrive, GateReject, Finish, Emit
  <2>2. Stragglers' = Stragglers
    <3>1. CASE Arrive(c)
      <4>1. /\ call' = [call EXCEPT ![c] = At("gate", now, None)]
            /\ c \notin Stragglers
        BY <3>1 DEF Arrive, Stragglers
      <4>2. Stragglers' = Stragglers \ {c}
        BY <1>0, <4>1, Outside
      <4> QED BY <4>1, <4>2
    <3>2. CASE GateReject(c)
      <4>1. /\ call' = [call EXCEPT ![c] = At("idle", 0, None)]
            /\ c \notin Stragglers
        BY <3>2 DEF GateReject, Stragglers, Idle
      <4>2. Stragglers' = Stragglers \ {c}
        BY <1>0, <4>1, Outside
      <4> QED BY <4>1, <4>2
    <3>3. CASE Finish(c)
      <4>1. PICK o \in {"success", "failure"} :
               call' = [call EXCEPT ![c] = At("vote", now, o)]
        BY <3>3 DEF Finish
      <4>2. c \in Stragglers /\ "vote" \in PCs /\ o \in Notes
        BY <3>3 DEF Finish, Stragglers, PCs, Notes
      <4>3. Stragglers' = Stragglers \cup {c}
        BY <1>0, <4>1, <4>2, Inside
      <4> QED BY <4>2, <4>3
    <3>4. CASE Emit(c) /\ call[c].note = "HalfOpen"
      <4>1. /\ call' = [call EXCEPT ![c] = At("running", 0, None)]
            /\ c \in Stragglers
        BY <3>4 DEF Emit, Stragglers
      <4>2. Stragglers' = Stragglers \cup {c}
        BY <1>0, <4>1, Inside
      <4> QED BY <4>1, <4>2
    <3>5. CASE Emit(c) /\ call[c].note # "HalfOpen"
      <4>1. /\ call' = [call EXCEPT ![c] = At("idle", 0, None)]
            /\ c \notin Stragglers
        BY <3>5 DEF Emit, Stragglers, Idle
      <4>2. Stragglers' = Stragglers \ {c}
        BY <1>0, <4>1, Outside
      <4> QED BY <4>1, <4>2
    <3> QED BY <1>4, <3>1, <3>2, <3>3, <3>4, <3>5
  <2> QED BY <1>1, <2>1, <2>2 DEF breaker, Cooling, InARow
<1>5. ASSUME NEW c \in Calls, GateFast(c) \/ GateClosed(c)
      PROVE  [TheCircuit!Next]_(TheCircuit!vars)
  <2>0. UNCHANGED <<now, breaker>> /\ call[c].pc \in {"gate", "lock"}
    BY <1>5 DEF GateFast, GateClosed
  <2>1. UNCHANGED <<now, breaker>> /\ c \notin Stragglers
    BY <2>0 DEF Stragglers
  <2>2. UNCHANGED <<state, Cooling, halfOpenInFlight, halfOpenSuccesses, InARow>>
    BY <2>1 DEF breaker, Cooling, InARow
  <2>3. CASE state = "Closed"
    <3>1. Stragglers' = Stragglers \cup {c}
      BY <1>0, <1>5, <2>3, Inside DEF GateFast, GateClosed
    <3>2. TheCircuit!Admit(c)
      BY <2>1, <2>2, <2>3, <3>1 DEF TheCircuit!Admit, Cooling, InARow
    <3> QED BY <3>2 DEF TheCircuit!Next
  <2>4. CASE state # "Closed"
    <3>1. call[c].at \in Nat
      BY <1>0 DEF TypeOK, CallState
    <3>2. call' = [call EXCEPT ![c] = At("lock", call[c].at, None)]
      BY <1>5, <2>4 DEF GateFast, GateClosed
    <3>3. Stragglers' = Stragglers \ {c}
      BY <1>0, <3>1, <3>2, Outside
    <3> QED BY <1>1, <2>1, <2>2, <3>3
  <2> QED BY <2>3, <2>4
<1>6. ASSUME NEW c \in Calls, GateFirstProbe(c) PROVE TheCircuit!Next
  <2>1. c \notin Stragglers /\ Stragglers' = Stragglers \cup {c}
    BY <1>0, <1>6, Inside DEF GateFirstProbe, Stragglers
  <2>2. ~Cooling /\ ~Cooling'
    BY <1>0, <1>6
       DEF GateFirstProbe, Cooling, CooledDown, IInv, ClockReadings,
           OpenIsCooling, TypeOK, CallState
  <2>3. TheCircuit!Admit(c)
    BY <1>6, <2>1, <2>2 DEF GateFirstProbe, TheCircuit!Admit, Cooling, InARow
  <2> QED BY <2>3 DEF TheCircuit!Next
<1>7. ASSUME NEW c \in Calls, GateProbe(c) PROVE TheCircuit!Next
  <2>1. c \notin Stragglers
    BY <1>7 DEF GateProbe, Stragglers
  <2>2. Stragglers' = Stragglers \cup {c}
    BY <1>0, <1>7, Inside DEF GateProbe
  <2>3. TheCircuit!Admit(c)
    BY <1>7, <2>1, <2>2 DEF GateProbe, TheCircuit!Admit
  <2> QED BY <2>3 DEF TheCircuit!Next
<1>8. ASSUME NEW c \in Calls, EndWithoutVote(c) PROVE TheCircuit!Next
  <2>1. c \in Stragglers
    BY <1>8 DEF EndWithoutVote, Stragglers
  <2>2. Stragglers' = Stragglers \ {c}
    BY <1>0, <1>8, Outside DEF EndWithoutVote, Idle
  <2>3. TheCircuit!EndUnseen(c)
    BY <1>8, <2>1, <2>2 DEF EndWithoutVote, breaker, TheCircuit!EndUnseen
  <2> QED BY <2>3 DEF TheCircuit!Next
<1>9. ASSUME NEW c \in Calls, call[c].pc = "vote",
             \/ call' = [call EXCEPT ![c] = Idle]
             \/ \E s \in {"Open", "Closed"} :
                   call' = [call EXCEPT ![c] = At("emit", 0, s)]
      PROVE  c \in Stragglers /\ Stragglers' = Stragglers \ {c}
  <2>1. c \in Stragglers
    BY <1>9 DEF Stragglers
  <2>2. Stragglers' = Stragglers \ {c}
    BY <1>0, <1>9, Inside DEF Idle
  <2> QED BY <2>1, <2>2
<1>10. ASSUME NEW c \in Calls, SuccessHalfOpen(c) PROVE TheCircuit!Next
  <2>1. c \in Stragglers /\ Stragglers' = Stragglers \ {c}
    BY <1>9, <1>10 DEF SuccessHalfOpen
  <2>2. CASE halfOpenSuccesses + 1 >= HalfOpenMaxCalls
    <3>1. /\ state' = "Closed" /\ halfOpenInFlight' = 0
          /\ halfOpenSuccesses' = 0 /\ consecutiveFailures' = 0
      BY <1>10, <2>2 DEF SuccessHalfOpen, CloseCircuit
    <3>2. TheCircuit!Succeed(c)
      BY <1>0, <1>10, <2>1, <2>2, <3>1
         DEF SuccessHalfOpen, TheCircuit!Succeed
    <3> QED BY <3>2 DEF TheCircuit!Next
  <2>3. CASE ~(halfOpenSuccesses + 1 >= HalfOpenMaxCalls)
    <3>1. /\ halfOpenInFlight' = SlotsAfterVote
          /\ halfOpenSuccesses' = halfOpenSuccesses + 1
          /\ UNCHANGED <<state, openUntil, consecutiveFailures>>
      BY <1>10, <2>3 DEF SuccessHalfOpen
    <3>2. halfOpenSuccesses + 1 < HalfOpenMaxCalls
      BY <1>0, <2>3 DEF TypeOK
    <3>3. TheCircuit!Succeed(c)
      BY <1>10, <2>1, <3>1, <3>2
         DEF SuccessHalfOpen, SlotsAfterVote, TheCircuit!Succeed
    <3> QED BY <3>3 DEF TheCircuit!Next
  <2> QED BY <2>2, <2>3
<1>11. ASSUME NEW c \in Calls, SuccessElsewhere(c) PROVE TheCircuit!Next
  <2>1. c \in Stragglers /\ Stragglers' = Stragglers \ {c}
    BY <1>9, <1>11 DEF SuccessElsewhere
  <2>2. consecutiveFailures' = 0
    BY <1>11 DEF SuccessElsewhere, CountVote
  <2>3. TheCircuit!Succeed(c)
    BY <1>0, <1>11, <2>1, <2>2 DEF SuccessElsewhere, TheCircuit!Succeed
  <2> QED BY <2>3 DEF TheCircuit!Next
<1>12. ASSUME NEW c \in Calls, FailureHalfOpen(c) PROVE TheCircuit!Next
  <2>1. c \in Stragglers /\ Stragglers' = Stragglers \ {c}
    BY <1>9, <1>12 DEF FailureHalfOpen, OpenCircuit
  <2>2. TheCircuit!Fail(c)
    BY <1>12, <2>1
       DEF FailureHalfOpen, OpenCircuit, TheCircuit!Fail, TheCircuit!Open
  <2> QED BY <2>2 DEF TheCircuit!Next
<1>13. ASSUME NEW c \in Calls, FailureElsewhere(c) PROVE TheCircuit!Next
  <2>1. c \in Stragglers /\ Stragglers' = Stragglers \ {c}
    BY <1>9, <1>13 DEF FailureElsewhere, OpenCircuit
  <2>2. consecutiveFailures' = consecutiveFailures + 1
    BY <1>13 DEF FailureElsewhere, CountVote
  <2>3. InARow' = IF InARow < Threshold THEN InARow + 1 ELSE Threshold
    BY <1>0, <2>2 DEF InARow
  <2>4. InARow' = Threshold <=> ShouldTrip(consecutiveFailures', window')
    BY <1>0, <2>2 DEF InARow, ShouldTrip
  <2>5. CASE ShouldTrip(consecutiveFailures', window')
    <3>1. TheCircuit!Open
      BY <1>13, <2>5 DEF FailureElsewhere, OpenCircuit, TheCircuit!Open
    <3>2. TheCircuit!Fail(c)
      BY <1>13, <2>1, <2>3, <2>4, <2>5, <3>1
         DEF FailureElsewhere, TheCircuit!Fail, InARow
    <3> QED BY <3>2 DEF TheCircuit!Next
  <2>6. CASE ~ShouldTrip(consecutiveFailures', window')
    <3>1. UNCHANGED <<state, now, openUntil, halfOpenInFlight,
                      halfOpenSuccesses>>
      BY <1>13, <2>6 DEF FailureElsewhere
    <3>2. TheCircuit!Fail(c)
      BY <1>13, <2>1, <2>3, <2>4, <2>6, <3>1
         DEF FailureElsewhere, TheCircuit!Fail, InARow
    <3> QED BY <3>2 DEF TheCircuit!Next
  <2> QED BY <2>5, <2>6
<1> QED BY <1>2, <1>3, <1>4, <1>5, <1>6, <1>7, <1>8, <1>10, <1>11, <1>12, <1>13
        DEF Next, Gate, Vote, AtBound

\* A breaker that counts consecutive failures implements the circuit, for any
\* number of calls and however old their clock readings and loads are: in
\* particular no call gets past a cooldown, and a closed circuit is below its
\* threshold.
THEOREM Refinement ==
    ASSUME TripKind = "Consecutive"
    PROVE  Spec => ImplementsCircuit
<1>1. Init => TheCircuit!Init
  <2> SUFFICES ASSUME Init PROVE TheCircuit!Init
    OBVIOUS
  <2>1. Stragglers = {}
    BY DEF Init, Stragglers, Idle, At
  <2> QED BY <2>1, BreakerAssumption DEF Init, TheCircuit!Init
<1>2. IInv /\ IInv' /\ [Next]_vars => [TheCircuit!Next]_(TheCircuit!vars)
  BY StepImplements
<1> QED BY <1>1, <1>2, Invariance, PTL DEF Spec, ImplementsCircuit, TheCircuit!Spec

=============================================================================
