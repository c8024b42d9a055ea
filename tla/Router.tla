------------------------------- MODULE Router --------------------------------
(***************************************************************************)
(* The router: RouterPolicy::run of src/src/router.rs (and its twins       *)
(* run_owned and run_boxed, the same text), with the selection strategies  *)
(* of src/src/pick.rs and the shared state of src/src/member.rs.           *)
(*                                                                         *)
(* Callers share the in-flight and pick counters of the members, which are *)
(* read one by one while others change them, and their circuits, which may *)
(* trip at any time.  Each access to what is shared is one step.           *)
(*                                                                         *)
(* A circuit is the end of its cooldown: state_at reports Open, and        *)
(* cooling_until its end, exactly while the clock is short of it.  Either  *)
(* reads the clock just before; what it reports is true of some instant    *)
(* in between, which is the instant of the step here.                      *)
(*                                                                         *)
(* The latency meter is left out, and with it the score that reads it; a   *)
(* custom score stands for it, and for all that are not monotone.          *)
(***************************************************************************)
EXTENDS Naturals, FiniteSetsExt

CONSTANTS N,          \* members, by index: the order of insertion
          Callers,
          Strategies, \* the Pick of the router: what the score reads and
                      \* how many candidates are sampled
          Outcomes,   \* how the policy of a member may end: "ok",
                      \* "transient", "permanent" or, with no error of the
                      \* operation, "other"
          OpenFor,    \* cooldown of a circuit
          MaxLag,     \* how old the clock reading of a vote may be
          NoInstant,  \* Option::None
          MaxTime,    \* bound: the clock stops here
          MaxCalls    \* bound: calls made altogether

Members == 1..N
Strategy == [signal : {"index", "picks", "load", "custom"}, sample : Nat \ {0}]

ASSUME RouterAssumption ==
    /\ N \in Nat \ {0}             \* "at least one target"
    /\ IsFiniteSet(Callers)
    /\ Strategies \subseteq Strategy
    /\ Outcomes \subseteq {"ok", "transient", "permanent", "other"}
    /\ OpenFor \in Nat /\ MaxLag \in Nat
    /\ NoInstant \notin Nat
    /\ MaxTime \in Nat /\ MaxCalls \in Nat

VARIABLES
    strategy,   \* never changes
    now,
    until,      \* per member: end of the last cooldown of its circuit
    inFlight,   \* in_flight of MemberState
    picks,      \* pick_count of MemberState
    call,       \* per caller: the locals of run
    calls,      \* calls begun
    calm        \* history: no member was ever skipped, none failed over

shared == <<until, inFlight, picks>>
vars == <<strategy, now, shared, call, calls, calm>>

Answers == {"none", "Served", "Exhausted", "AllUnavailable", "Score"}
PCs == {"idle", "scan", "hint", "score", "running", "counted"}
Call == [pc : PCs,
         next : 1..(N + 1),               \* the member the scan is at
         healthy : SUBSET Members,
         soonest : Nat \cup {NoInstant},
         hinted : SUBSET Members,         \* history: soonest is the least
                                          \* of their ends
         seen : [Members -> Nat],         \* the signals read so far
         unseen : SUBSET Members,         \* candidates still to be read
         chosen : 0..N,
         attempts : 0..N,
         lastErr : BOOLEAN,               \* an operation error is kept
         answer : Answers]

TypeOK ==
    /\ strategy \in Strategies
    /\ now \in Nat
    /\ until \in [Members -> Nat \cup {NoInstant}]
    /\ inFlight \in [Members -> Nat]
    /\ picks \in [Members -> Nat]
    /\ call \in [Callers -> Call]
    /\ calls \in Nat
    /\ calm \in BOOLEAN

Idle == [pc |-> "idle", next |-> 1, healthy |-> {}, soonest |-> NoInstant,
         hinted |-> {}, seen |-> [m \in Members |-> 0], unseen |-> {}, chosen |-> 0,
         attempts |-> 0, lastErr |-> FALSE,
         answer |-> "none"]

Init ==
    /\ strategy \in Strategies
    /\ now = 0
    /\ until = [m \in Members |-> NoInstant]
    /\ inFlight = [m \in Members |-> 0]
    /\ picks = [m \in Members |-> 0]
    /\ call = [c \in Callers |-> Idle]
    /\ calls = 0
    /\ calm = TRUE

At(c, where) == call[c].pc = where
\* The call ends; of its locals only the count of Served is in the answer (the
\* hint, whose property holds of the running call, is forgotten too).
Finished(c, kind) ==
    call' = [call EXCEPT ![c] =
        [Idle EXCEPT !.answer = kind,
                     !.attempts = IF kind = "Served" THEN call[c].attempts
                                  ELSE 0]]
-----------------------------------------------------------------------------
(* The scan for healthy members, and the hint of when one is back.          *)

Cooling(m) == until[m] # NoInstant /\ now < until[m]

Begin(c) ==
    /\ At(c, "idle")
    /\ calls < MaxCalls
    /\ calls' = calls + 1
    /\ call' = [call EXCEPT ![c] = [Idle EXCEPT !.pc = "scan"]]
    /\ UNCHANGED <<strategy, now, shared, calm>>

\* circuit_state of the next member.
ScanState(c) ==
    /\ At(c, "scan")
    /\ call[c].next \in Members
    /\ LET m == call[c].next
       IN IF Cooling(m)
          THEN /\ call' = [call EXCEPT ![c].pc = "hint"]
               /\ calm' = FALSE
          ELSE /\ call' = [call EXCEPT ![c].next = m + 1,
                                       ![c].healthy = @ \cup {m}]
               /\ UNCHANGED calm
    /\ UNCHANGED <<strategy, now, shared, calls>>

\* Mutant of Sooner: the latest member instead of the soonest.
SoonerNot(t, m) == IF t = NoInstant \/ until[m] > t THEN until[m] ELSE t

\* soonest.map_or(until, |s| s.min(until))
Sooner(t, m) == IF t = NoInstant \/ until[m] < t THEN until[m] ELSE t

\* cooling_until of a member that was open: it may have cooled down since.
ScanHint(c) ==
    /\ At(c, "hint")
    /\ LET m == call[c].next
       IN call' = [call EXCEPT ![c].pc = "scan",
                               ![c].next = m + 1,
                               ![c].soonest = IF Cooling(m) THEN Sooner(@, m)
                                              ELSE @,
                               ![c].hinted = IF Cooling(m) THEN @ \cup {m}
                                             ELSE @]
    /\ UNCHANGED <<strategy, now, shared, calls, calm>>

EndScan(c) ==
    /\ At(c, "scan")
    /\ call[c].next = N + 1
    /\ IF call[c].healthy = {}
       THEN Finished(c, "AllUnavailable")
       ELSE call' = [call EXCEPT ![c].pc = "score",
                                 ![c].unseen = call[c].healthy]
    /\ UNCHANGED <<strategy, now, shared, calls, calm>>
-----------------------------------------------------------------------------
(* choose: a snapshot of the candidates, a sample of them, the best score.  *)

\* Mutant of Signal: round robin by the load of the moment.
SignalLoad(m) ==
    CASE strategy.signal = "index" -> m
      [] strategy.signal \in {"picks", "load"} -> inFlight[m]
      [] OTHER -> 0

\* What the score depends on; a custom score is any choice.
Signal(m) ==
    CASE strategy.signal = "index" -> m
      [] strategy.signal = "picks" -> picks[m]
      [] strategy.signal = "load" -> inFlight[m]
      [] OTHER -> 0

\* The counters of the next candidate are loaded.
Load(c) ==
    /\ At(c, "score")
    /\ call[c].unseen # {}
    /\ LET m == CHOOSE x \in call[c].unseen : \A y \in call[c].unseen : x <= y
       IN call' = [call EXCEPT ![c].seen[m] = Signal(m),
                               ![c].unseen = @ \ {m}]
    /\ UNCHANGED <<strategy, now, shared, calls, calm>>

\* sample_distinct, unless the sample covers all candidates.
Samples(candidates) ==
    kSubset(IF strategy.sample < Cardinality(candidates)
            THEN strategy.sample ELSE Cardinality(candidates), candidates)

\* The best score, ties broken by the order of insertion; a custom score may
\* prefer any candidate.
IsBest(m, sampled, seen) ==
    \/ strategy.signal = "custom"
    \/ \A n \in sampled \ {m} :
          seen[m] < seen[n] \/ (seen[m] = seen[n] /\ m < n)

Scored(c) == At(c, "score") /\ call[c].unseen = {}

\* InFlightGuard::acquire, and the policy of the member runs.
Dispatch(c) ==
    /\ Scored(c)
    /\ \E sampled \in Samples(call[c].healthy) : \E m \in sampled :
          /\ IsBest(m, sampled, call[c].seen)
          /\ inFlight' = [inFlight EXCEPT ![m] = @ + 1]
          /\ call' = [call EXCEPT ![c].pc = "running",
                                  ![c].chosen = m,
                                  ![c].attempts = @ + 1,
                                  ![c].seen = Idle.seen]
    /\ UNCHANGED <<strategy, now, until, picks, calls, calm>>

\* A custom score is NaN or infinite.
Misscore(c) ==
    /\ Scored(c)
    /\ strategy.signal = "custom"
    /\ Finished(c, "Score")
    /\ UNCHANGED <<strategy, now, shared, calls, calm>>
-----------------------------------------------------------------------------
(* The member answers.                                                      *)

\* record_attempt, while the guard is still held.  How the attempt ended is
\* looked at by after_attempt only, and chosen there.
Completed(c) ==
    /\ At(c, "running")
    /\ call' = [call EXCEPT ![c].pc = "counted"]
    /\ picks' = [picks EXCEPT ![call[c].chosen] = @ + 1]
    /\ UNCHANGED <<strategy, now, until, inFlight, calls, calm>>

\* Mutant of Released: the guard outlives the attempt.
ReleasedNot(c) == UNCHANGED inFlight

\* "decrement BEFORE any advance"
Released(c) == inFlight' = [inFlight EXCEPT ![call[c].chosen] = @ - 1]

\* after_attempt breaks off: a success, or an error advance_when rejects.
Resolve(c) ==
    /\ At(c, "counted")
    /\ Released(c)
    /\ \E outcome \in Outcomes \cap {"ok", "permanent"} :
          Finished(c, IF outcome = "ok" THEN "Served" ELSE "Exhausted")
    /\ UNCHANGED <<strategy, now, until, picks, calls, calm>>

\* Mutant of Left: the member that failed stays among the healthy.
LeftAll(c) == call[c].healthy

Left(c) == call[c].healthy \ {call[c].chosen}

\* after_attempt continues: on to the next member, or the end of the loop.
Advance(c) ==
    /\ At(c, "counted")
    /\ Released(c)
    /\ \E outcome \in Outcomes \cap {"transient", "other"} :
          LET error == call[c].lastErr \/ outcome = "transient"
          IN IF Left(c) = {}
             THEN Finished(c, IF error THEN "Exhausted" ELSE "AllUnavailable")
             ELSE call' = [call EXCEPT ![c].pc = "score",
                                       ![c].healthy = Left(c),
                                       ![c].unseen = Left(c),
                                       ![c].chosen = 0,
                                       ![c].lastErr = error]
    /\ calm' = FALSE
    /\ UNCHANGED <<strategy, now, until, picks, calls>>

\* The future of the call is dropped at its only await: the guard is released,
\* nothing is recorded.
Drop(c) ==
    /\ At(c, "running")
    /\ Released(c)
    /\ Finished(c, "none")
    /\ UNCHANGED <<strategy, now, until, picks, calls, calm>>
-----------------------------------------------------------------------------
\* The circuit of a member trips, or is opened again by a straggler; the votes
\* of this router are among its causes.  A vote reads the clock before it takes
\* the lock, so a late one may move the end back.
Trip(m) ==
    /\ \E lag \in 0..MaxLag :
          /\ lag <= now
          /\ until' = [until EXCEPT ![m] = now - lag + OpenFor]
    /\ UNCHANGED <<strategy, now, inFlight, picks, call, calls, calm>>

Tick ==
    /\ now < MaxTime
    /\ now' = now + 1
    /\ UNCHANGED <<strategy, shared, call, calls, calm>>

Step(c) == \/ ScanState(c) \/ ScanHint(c) \/ EndScan(c)
           \/ Load(c) \/ Dispatch(c) \/ Misscore(c)
           \/ Completed(c) \/ Resolve(c) \/ Advance(c)

Next ==
    \/ \E c \in Callers : Begin(c) \/ Step(c) \/ Drop(c)
    \/ \E m \in Members : Trip(m)
    \/ Tick

Spec == Init /\ [][Next]_vars
-----------------------------------------------------------------------------
(* Properties.                                                              *)

Holders(m) == {c \in Callers : /\ call[c].pc \in {"running", "counted"}
                               /\ call[c].chosen = m}

\* The load of a member is the calls it serves, whichever way those before
\* ended, so a caller that fails over never counts itself
\* (InFlightGuard; "decrement BEFORE any advance").
InFlightBalance == \A m \in Members : inFlight[m] = Cardinality(Holders(m))

\* "round_robin" (pick.rs): as long as every member is healthy and serves what
\* it gets, none is ahead of another by more picks than there are callers,
\* though a pick counts at its end and counters are read one by one.
PicksBalanced ==
    strategy.signal = "picks" /\ strategy.sample >= N /\ calm
        => \A m, n \in Members : picks[m] <= picks[n] + Cardinality(Callers)

\* "next_available_at is the soonest a member leaves cooling, so the caller can
\* park until then" (RouterError): of the members whose end the scan read, none
\* that is cooling is back before the hint, but for the lag of a vote that opened
\* it again; and no hint parks the caller for longer than a cooldown.
HintIsSoonest ==
    \A c \in Callers :
        call[c].soonest # NoInstant =>
            /\ call[c].soonest <= now + OpenFor
            /\ \A m \in call[c].hinted :
                  Cooling(m) => call[c].soonest <= until[m] + MaxLag

\* The router is a failover: scans, scores and counters are invisible to it.
PhaseOf(x) ==
    CASE x.pc = "idle" -> "out"
      [] x.pc \in {"scan", "hint"} -> "looking"
      [] x.pc = "score" -> "choosing"
      [] x.pc \in {"running", "counted"} -> "trying"
Worth(x) == IF PhaseOf(x) \in {"choosing", "trying"} THEN x.healthy ELSE {}
OnTrial(x) == IF PhaseOf(x) = "trying" THEN x.chosen ELSE 0

Phases == [c \in Callers |-> PhaseOf(call[c])]
Candidates == [c \in Callers |-> Worth(call[c])]
Trials == [c \in Callers |-> OnTrial(call[c])]
Tries == [c \in Callers |-> call[c].attempts]
Failures == [c \in Callers |-> call[c].lastErr]
Given == [c \in Callers |-> call[c].answer]
Abstract == INSTANCE Failover WITH
    phase <- Phases, left <- Candidates, trying <- Trials,
    tries <- Tries, failed <- Failures, answer <- Given
ImplementsFailover == Abstract!Spec
=============================================================================
