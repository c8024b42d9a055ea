------------------------------ MODULE Breaker -------------------------------
(***************************************************************************)
(* The circuit breaker (src/src/breaker.rs, BreakerRuntime) together with  *)
(* the calls that go through it (src/src/engine.rs, run_pipeline).         *)
(*                                                                         *)
(* `state` is the atomic read without a lock on the fast path; the other   *)
(* fields are behind the mutex, and every store to `state` happens while   *)
(* the mutex is held, so a critical section is one step.  What is not      *)
(* atomic is a call: it reads the clock, loads the state, maybe takes the  *)
(* lock, runs the operation, reads the clock again, votes under the lock   *)
(* and tells the listener after the lock is gone.  Any other call may do   *)
(* any of its own steps in between, and the future may be dropped while    *)
(* the operation runs.                                                     *)
(*                                                                         *)
(* Only the counter the trip reads is kept: consecutiveFailures for        *)
(* "Consecutive", the window for "FailureRatio".                           *)
(***************************************************************************)
EXTENDS Window, FiniteSets

CONSTANTS Calls,             \* tasks, each making one call after the other
          TripKind,          \* "Consecutive" or "FailureRatio"
          Threshold,         \* failures in a row that trip
          RatioNum, RatioDen,\* the failure ratio that trips, as a fraction
          MinThroughput,     \* votes in the window below which it never trips
          OpenFor,           \* cooldown, in ticks
          HalfOpenMaxCalls,  \* concurrent probes, and successes that close
          NoInstant,         \* open_until before the first trip (Option::None)
          Outcomes,          \* how an operation may end: subset of
                             \* {"success", "failure", "novote"}
          MaxTime,           \* bound: the clock stops here
          MaxVotes           \* bound: votes in the window while Closed

ASSUME BreakerAssumption ==
    /\ TripKind \in {"Consecutive", "FailureRatio"}
    /\ Threshold \in Nat \ {0}          \* n.max(1)
    /\ RatioDen \in Nat \ {0} /\ RatioNum \in 0..RatioDen  \* clamp(0.0, 1.0)
    /\ MinThroughput \in Nat
    /\ OpenFor \in Nat
    /\ NoInstant \notin Nat
    /\ HalfOpenMaxCalls \in Nat \ {0}   \* n.max(1)
    /\ Outcomes \subseteq {"success", "failure", "novote"}
    /\ MaxTime \in Nat /\ MaxVotes \in Nat

None == "none"
States == {"Closed", "Open", "HalfOpen"}

VARIABLES
    now,                  \* the clock
    state, openUntil, consecutiveFailures,
    halfOpenInFlight, halfOpenSuccesses, window,
    call,                 \* per task: where it is, its clock reading, and
                          \* the vote or the event it is about to deliver
    admitted, probes      \* history: probes admitted in this half-open
                          \* period, and those of them still running

breaker == <<state, openUntil, consecutiveFailures,
             halfOpenInFlight, halfOpenSuccesses, window>>
history == <<admitted, probes>>
vars == <<now, breaker, call, history>>

PCs == {"idle", "gate", "lock", "running", "vote", "emit"}
Notes == {None, "success", "failure"} \cup States
CallState == [pc : PCs, at : Nat, note : Notes]

TypeOK ==
    /\ now \in Nat
    /\ state \in States
    /\ openUntil \in Nat \cup {NoInstant}
    /\ consecutiveFailures \in Nat
    /\ halfOpenInFlight \in Nat
    /\ halfOpenSuccesses \in Nat
    /\ window \subseteq Bucket
    /\ call \in [Calls -> CallState]
    /\ admitted \in Nat
    /\ probes \subseteq Calls

At(pc, at, note) == [pc |-> pc, at |-> at, note |-> note]
Idle == At("idle", 0, None)

Init ==
    /\ now = 0
    /\ state = "Closed"
    /\ openUntil = NoInstant
    /\ consecutiveFailures = 0
    /\ halfOpenInFlight = 0
    /\ halfOpenSuccesses = 0
    /\ window = NoBuckets
    /\ call = [c \in Calls |-> Idle]
    /\ admitted = 0
    /\ probes = {}

-----------------------------------------------------------------------------
(* The helpers that run under the mutex.                                    *)

\* Mutant of ShouldTrip: one vote more than min_throughput is asked for.
ShouldTripLate(failures, w) ==
    IF TripKind = "Consecutive"
    THEN failures >= Threshold
    ELSE /\ Total(w) > MinThroughput
         /\ Failures(w) * RatioDen >= RatioNum * Total(w)

\* BreakerRuntime::should_trip, on the counters after this failure.
ShouldTrip(failures, w) ==
    IF TripKind = "Consecutive"
    THEN failures >= Threshold
    ELSE /\ Total(w) >= MinThroughput
         /\ Failures(w) * RatioDen >= RatioNum * Total(w)

\* BreakerRuntime::open.  The failure counters are left as they are.
OpenCircuit(at) ==
    /\ state' = "Open"
    /\ openUntil' = at + OpenFor
    /\ halfOpenSuccesses' = 0
    /\ halfOpenInFlight' = 0
    /\ admitted' = 0
    /\ probes' = {}

\* BreakerRuntime::close.  open_until is left as it is.
CloseCircuit ==
    /\ state' = "Closed"
    /\ consecutiveFailures' = 0
    /\ halfOpenSuccesses' = 0
    /\ halfOpenInFlight' = 0
    /\ window' = NoBuckets
    /\ admitted' = 0
    /\ probes' = {}
    /\ UNCHANGED openUntil

\* Mutants of SlotsAfterVote: a plain subtraction; no subtraction at all.
SlotsAfterVoteUnsaturated == halfOpenInFlight - 1
SlotsAfterVoteKept == halfOpenInFlight

\* half_open_in_flight.saturating_sub(1)
SlotsAfterVote == IF halfOpenInFlight = 0 THEN 0 ELSE halfOpenInFlight - 1

\* The counters after a vote cast outside HalfOpen.
CountVote(at, failed) ==
    IF TripKind = "Consecutive"
    THEN /\ consecutiveFailures' = IF failed THEN consecutiveFailures + 1 ELSE 0
         /\ UNCHANGED window
    ELSE /\ window' = RecordVote(window, at, failed)
         /\ UNCHANGED consecutiveFailures

-----------------------------------------------------------------------------
(* A call, from its clock reading to the listener.                          *)

\* core.now() for the gate.  The bound keeps the window finite.
Arrive(c) ==
    /\ call[c].pc = "idle"
    /\ state = "Closed" => Total(window) < MaxVotes
    /\ call' = [call EXCEPT ![c] = At("gate", now, None)]
    /\ UNCHANGED <<now, breaker, history>>

\* gate: the lock-free load.
GateFast(c) ==
    /\ call[c].pc = "gate"
    /\ call' = [call EXCEPT ![c] = IF state = "Closed"
                                   THEN At("running", 0, None)
                                   ELSE At("lock", call[c].at, None)]
    /\ UNCHANGED <<now, breaker, history>>

\* gate, under the lock: the circuit closed since the fast-path load.
GateClosed(c) ==
    /\ call[c].pc = "lock"
    /\ state = "Closed"
    /\ call' = [call EXCEPT ![c] = At("running", 0, None)]
    /\ UNCHANGED <<now, breaker, history>>

\* Mutant of CooledDown: the cooldown ends one tick early.
CooledDownEarly(at) == openUntil = NoInstant \/ at + 1 >= openUntil

CooledDown(at) == openUntil = NoInstant \/ at >= openUntil

\* gate, under the lock: the cooldown is over, this call is the first probe.
GateFirstProbe(c) ==
    /\ call[c].pc = "lock"
    /\ state = "Open"
    /\ CooledDown(call[c].at)
    /\ state' = "HalfOpen"
    /\ halfOpenInFlight' = 1
    /\ halfOpenSuccesses' = 0
    /\ admitted' = 1
    /\ probes' = {c}
    /\ call' = [call EXCEPT ![c] = At("emit", 0, "HalfOpen")]
    /\ UNCHANGED <<now, openUntil, consecutiveFailures, window>>

\* Mutant of GateProbe: `<=` for `<`.
GateProbeOffByOne(c) ==
    /\ call[c].pc = "lock"
    /\ state = "HalfOpen"
    /\ halfOpenInFlight <= HalfOpenMaxCalls
    /\ halfOpenInFlight' = halfOpenInFlight + 1
    /\ admitted' = admitted + 1
    /\ probes' = probes \cup {c}
    /\ call' = [call EXCEPT ![c] = At("emit", 0, "HalfOpen")]
    /\ UNCHANGED <<now, state, openUntil, consecutiveFailures,
                   halfOpenSuccesses, window>>

\* gate, under the lock: one more probe.
GateProbe(c) ==
    /\ call[c].pc = "lock"
    /\ state = "HalfOpen"
    /\ halfOpenInFlight < HalfOpenMaxCalls
    /\ halfOpenInFlight' = halfOpenInFlight + 1
    /\ admitted' = admitted + 1
    /\ probes' = probes \cup {c}
    /\ call' = [call EXCEPT ![c] = At("emit", 0, "HalfOpen")]
    /\ UNCHANGED <<now, state, openUntil, consecutiveFailures,
                   halfOpenSuccesses, window>>

\* Mutant of GateReject: a rejected call restarts the cooldown.
GateRejectExtends(c) ==
    /\ call[c].pc = "lock"
    /\ \/ /\ state = "Open" /\ ~CooledDown(call[c].at)
          /\ openUntil' = call[c].at + OpenFor
       \/ /\ state = "HalfOpen" /\ halfOpenInFlight >= HalfOpenMaxCalls
          /\ UNCHANGED openUntil
    /\ call' = [call EXCEPT ![c] = Idle]
    /\ UNCHANGED <<now, state, consecutiveFailures, halfOpenInFlight,
                   halfOpenSuccesses, window, history>>

\* gate, under the lock: still cooling, or every probe slot taken.
GateReject(c) ==
    /\ call[c].pc = "lock"
    /\ \/ state = "Open" /\ ~CooledDown(call[c].at)
       \/ state = "HalfOpen" /\ halfOpenInFlight >= HalfOpenMaxCalls
    /\ call' = [call EXCEPT ![c] = Idle]
    /\ UNCHANGED <<now, breaker, history>>

\* The retry loop returns with an outcome that counts, and run_pipeline reads
\* the clock for the vote.
Finish(c) ==
    /\ call[c].pc = "running"
    /\ \E o \in Outcomes \cap {"success", "failure"} :
          call' = [call EXCEPT ![c] = At("vote", now, o)]
    /\ UNCHANGED <<now, breaker, history>>

\* The call ends without a vote: the retry loop returned ConcurrencyRejected
\* or RetryBudgetExhausted, or the future was dropped while it ran.
EndWithoutVote(c) ==
    /\ call[c].pc = "running"
    /\ "novote" \in Outcomes
    /\ call' = [call EXCEPT ![c] = Idle]
    /\ probes' = probes \ {c}
    /\ UNCHANGED <<now, breaker, admitted>>

\* record_success while HalfOpen, whichever state admitted the call.
SuccessHalfOpen(c) ==
    /\ call[c].pc = "vote" /\ call[c].note = "success"
    /\ state = "HalfOpen"
    /\ IF halfOpenSuccesses + 1 >= HalfOpenMaxCalls
       THEN /\ CloseCircuit
            /\ call' = [call EXCEPT ![c] = At("emit", 0, "Closed")]
       ELSE /\ halfOpenInFlight' = SlotsAfterVote
            /\ halfOpenSuccesses' = halfOpenSuccesses + 1
            /\ probes' = probes \ {c}
            /\ call' = [call EXCEPT ![c] = Idle]
            /\ UNCHANGED <<state, openUntil, consecutiveFailures, window,
                           admitted>>
    /\ UNCHANGED now

\* record_success while Closed or Open.
SuccessElsewhere(c) ==
    /\ call[c].pc = "vote" /\ call[c].note = "success"
    /\ state # "HalfOpen"
    /\ CountVote(call[c].at, FALSE)
    /\ call' = [call EXCEPT ![c] = Idle]
    /\ UNCHANGED <<now, state, openUntil, halfOpenInFlight, halfOpenSuccesses,
                   history>>

\* Mutants of FailureHalfOpen: the failed probe is ignored; the transition
\* is not returned to the engine.
FailureHalfOpenIgnored(c) ==
    /\ call[c].pc = "vote" /\ call[c].note = "failure"
    /\ state = "HalfOpen"
    /\ call' = [call EXCEPT ![c] = Idle]
    /\ UNCHANGED <<now, breaker, history>>

FailureHalfOpenSilent(c) ==
    /\ call[c].pc = "vote" /\ call[c].note = "failure"
    /\ state = "HalfOpen"
    /\ OpenCircuit(call[c].at)
    /\ call' = [call EXCEPT ![c] = Idle]
    /\ UNCHANGED <<now, consecutiveFailures, window>>

\* record_failure while HalfOpen, whichever state admitted the call.
FailureHalfOpen(c) ==
    /\ call[c].pc = "vote" /\ call[c].note = "failure"
    /\ state = "HalfOpen"
    /\ OpenCircuit(call[c].at)
    /\ call' = [call EXCEPT ![c] = At("emit", 0, "Open")]
    /\ UNCHANGED <<now, consecutiveFailures, window>>

\* record_failure while Closed or Open: an open circuit is opened again.
\* totals() evicts once more, at the instant record() has just evicted at.
FailureElsewhere(c) ==
    /\ call[c].pc = "vote" /\ call[c].note = "failure"
    /\ state # "HalfOpen"
    /\ CountVote(call[c].at, TRUE)
    /\ IF ShouldTrip(consecutiveFailures', window')
       THEN /\ OpenCircuit(call[c].at)
            /\ call' = [call EXCEPT ![c] = At("emit", 0, "Open")]
       ELSE /\ call' = [call EXCEPT ![c] = Idle]
            /\ UNCHANGED <<state, openUntil, halfOpenInFlight,
                           halfOpenSuccesses, history>>
    /\ UNCHANGED now

\* CircuitStateChanged reaches the listener, after the lock was released.
\* A probe goes on to run its operation, a voter returns to its caller.
Emit(c) ==
    /\ call[c].pc = "emit"
    /\ call' = [call EXCEPT ![c] = IF call[c].note = "HalfOpen"
                                   THEN At("running", 0, None)
                                   ELSE Idle]
    /\ UNCHANGED <<now, breaker, history>>

Tick ==
    /\ now < MaxTime
    /\ now' = now + 1
    /\ UNCHANGED <<breaker, call, history>>

\* The bounds stop the traffic here, not the code: nothing is left to do.
AtBound ==
    /\ now = MaxTime
    /\ state = "Closed" /\ Total(window) >= MaxVotes
    /\ \A c \in Calls : call[c].pc = "idle"
    /\ UNCHANGED vars

Gate(c) == \/ GateFast(c) \/ GateClosed(c) \/ GateFirstProbe(c)
           \/ GateProbe(c) \/ GateReject(c)
Vote(c) == \/ SuccessHalfOpen(c) \/ SuccessElsewhere(c)
           \/ FailureHalfOpen(c) \/ FailureElsewhere(c)

Next ==
    \/ Tick
    \/ \E c \in Calls :
          \/ Arrive(c) \/ Gate(c)
          \/ Finish(c) \/ EndWithoutVote(c)
          \/ Vote(c) \/ Emit(c)
    \/ AtBound

Spec == Init /\ [][Next]_vars

(* Traffic keeps coming, the executor keeps polling every call, operations  *)
(* end (attempt_timeout bounds them) and time passes.                       *)
Fairness ==
    /\ WF_vars(Tick)
    /\ \A c \in Calls :
          /\ WF_vars(Arrive(c))
          /\ WF_vars(Gate(c))
          /\ WF_vars(Finish(c) \/ EndWithoutVote(c))
          /\ WF_vars(Vote(c))
          /\ WF_vars(Emit(c))

FairSpec == Spec /\ Fairness

-----------------------------------------------------------------------------
(* Properties.                                                              *)

\* Between two evaluations of a half-open period the gate never lets in more
\* probes than the slots plus the successes that may have freed one, however
\* many calls from before the trip vote into it (gate, record_success).
ProbesPerPeriod == admitted <= 2 * HalfOpenMaxCalls - 1

\* A closed circuit has not seen Threshold failures in a row: the vote that
\* reaches it trips, and close() forgets the ones before the outage
\* (record_failure, close).
ClosedBelowThreshold ==
    state = "Closed" /\ TripKind = "Consecutive"
        => consecutiveFailures < Threshold

\* An open circuit has a cooldown, and never one longer than open_for from
\* now, though its start was read before the lock was taken and stragglers
\* open the circuit again (open; the unwrap_or(true) of gate is dead code).
OpenIsCooling ==
    state = "Open" => openUntil # NoInstant /\ openUntil <= now + OpenFor

\* No call leaves the cooldown early, whatever stale clock readings the calls
\* carry: an open circuit is only left for HalfOpen and only after open_until
\* (gate).
CooldownHonoured ==
    [][state = "Open" /\ state' # "Open"
          => state' = "HalfOpen" /\ now >= openUntil]_vars

\* The listener is told of every transition: the step that changes the state
\* leaves its call with that very event to deliver (gate, record_*, the
\* emit calls of run_pipeline).
EveryChangeIsReported ==
    [][state' # state
          => \E c \in Calls : call'[c].pc = "emit" /\ call'[c].note = state']_vars

\* Where no call can end without voting, every taken slot belongs to a probe
\* that is still there to free it (gate, record_success).
NoSlotLeak == halfOpenInFlight <= Cardinality(probes)

\* A window of failures only, at least min_throughput of them, is never seen
\* by a closed circuit: it tripped on the last of them, and recovery clears
\* the window (should_trip, close).
OutageTrips ==
    state = "Closed" /\ TripKind = "FailureRatio"
        => ~(/\ Total(window) > 0
             /\ Total(window) >= MinThroughput
             /\ Failures(window) = Total(window))

\* The buckets are at least one width apart and span no more than the
\* sampling window, so their number stays within the capacity the code
\* reserves, although votes arrive with clock readings out of order.
WindowShape ==
    \A a, b \in window :
        /\ a # b => \/ a.start + BucketWidth <= b.start
                    \/ b.start + BucketWidth <= a.start
        /\ b.start <= a.start + Span
        /\ a.fails <= a.total

\* Calls admitted earlier that may still vote.
Stragglers == {c \in Calls : \/ call[c].pc \in {"running", "vote"}
                             \/ call[c].pc = "emit" /\ call[c].note = "HalfOpen"}

\* Once no straggler is left to open it again, an open circuit is eventually
\* probed: rejected calls do not postpone the end of the cooldown
\* (gate, open).
RecoversFromOpen ==
    (state = "Open" /\ openUntil <= MaxTime /\ Stragglers = {})
        ~> (state # "Open")

\* README: the circuit breaker "recovers automatically via half-open
\* probing": a half-open period ends, in recovery or in another cooldown.
HalfOpenResolves == (state = "HalfOpen") ~> (state # "HalfOpen")

\* A breaker that counts consecutive failures implements the circuit: lock,
\* lock-free load, clock readings of any age, open_until and listener are
\* invisible to it (gate, record_success, record_failure).
TheCircuit == INSTANCE Circuit WITH
    cooling <- state = "Open" /\ now < openUntil,
    slots <- halfOpenInFlight,
    successes <- halfOpenSuccesses,
    failures <- IF consecutiveFailures < Threshold THEN consecutiveFailures
                                                   ELSE Threshold,
    inside <- Stragglers
ImplementsCircuit == TheCircuit!Spec

=============================================================================
