---------------------------- MODULE EngineProofs -----------------------------
(***************************************************************************)
(* Proofs about Engine, for all plans, outcomes and delays.  The inductive *)
(* invariant has six parts beside the types: where the call is in its      *)
(* attempts (Shape), who holds a permit (PermitForWorkOnly), how far the   *)
(* clock may be from the timers (Timely), how far the next attempt is from *)
(* the hint of the last error (Patient), what of its attempts the hook has *)
(* not heard of yet (Heard), and that the hook hears of no end before the  *)
(* answer and then of the one that is given (Story).                       *)
(***************************************************************************)
EXTENDS Engine, SequenceTheorems, TLAPS

Entering == {"acquire", "queued", "gate", "ready"}
Attempting == {"polling", "running", "expired"}
BackingOff == {"backoff", "capping", "sleeping", "slept"}
Between == {"completed", "timedOut"} \cup BackingOff

Shape ==
    /\ result # NoValue <=> pc \in {"vote", "done"}
    /\ pc \in {"acquire", "queued"} =>
          \/ plan.scope = "attempts"
          \/ plan.scope = "operations" /\ attempt = 1
    /\ pc = "gate" => attempt = 1
    /\ Len(ends) \in {attempt - 1, attempt}
    /\ pc \in Entering \cup Attempting => Len(ends) = attempt - 1
    /\ pc \in Between => Len(ends) = attempt
    /\ pc \in BackingOff => attempt < plan.maxAttempts
    /\ pc = "completed" =>
          /\ returned \in Outcomes
          /\ ends[attempt] = IF returned.ok THEN "ok" ELSE "error"
    /\ lastError # NoValue => \E i \in DOMAIN ends : ends[i] = "error"

\* The clock is ahead of a timer or a deadline by the lateness at most.
Timely ==
    /\ plan.totalTimeout # NoValue =>
          /\ now <= plan.totalTimeout + lateness
          /\ pc \in {"queued", "running"} =>
                /\ totalTimer \in Nat
                /\ totalTimer <= plan.totalTimeout + lateness
          /\ pc = "sleeping" => timer <= plan.totalTimeout + lateness
    /\ pc = "polling" => now <= startedAt + lateness
    /\ pc = "sleeping" => timer \in Nat
    /\ pc = "running" /\ plan.attemptTimeout # NoValue =>
          /\ timer \in Nat
          /\ timer <= startedAt + plan.attemptTimeout + lateness
          /\ now <= startedAt + plan.attemptTimeout + lateness

\* The earliest instant of the next attempt is no later than the backoff that
\* is about to be computed, computed, or over.
Patient ==
    /\ pc \in {"gate", "acquire", "queued", "ready"} => notBefore <= now
    /\ pc = "timedOut" => notBefore = 0
    /\ pc = "completed" =>
          notBefore <= IF returned.hint = NoValue THEN 0 ELSE now + returned.hint
    /\ pc = "backoff" =>
          notBefore <= IF Hint = NoValue THEN now ELSE now + Hint
    /\ pc = "capping" => notBefore <= now + delay
    /\ pc = "sleeping" =>
          \/ notBefore <= timer
          \/ plan.totalTimeout # NoValue /\ plan.totalTimeout <= timer
    /\ pc = "slept" => notBefore <= now \/ DeadlinePassed

\* What a sequence of events tells: an event of an attempt; no end and no change
\* of the circuit; no end but this one, as the last event; of no timeout and of
\* no error that was none.
Contains(s, what, n) ==
    \E i \in DOMAIN s : s[i] = [name |-> what, attempt |-> n]
Quiet(s) == \A i \in DOMAIN s : s[i].name \notin Terminal \cup Changes
Closing(s, what) ==
    \A i \in DOMAIN s :
        /\ s[i].name \notin Changes
        /\ s[i].name \in Terminal =>
              i = Len(s) /\ s[i] = [name |-> what, attempt |-> attempt]
Truthful(s) ==
    \A i \in DOMAIN s :
        /\ s[i].name = "AttemptTimedOut" =>
              s[i].attempt \in DOMAIN ends /\ ends[s[i].attempt] = "timeout"
        /\ s[i].name = "AttemptFailed" =>
              s[i].attempt \in DOMAIN ends /\ ends[s[i].attempt] = "error"

\* An attempt whose end drive has not looked at yet.
Pending(n) == pc \in {"completed", "timedOut"} /\ n = attempt
\* The retry after the attempt under way is not announced yet, or it is.
Unscheduled == Entering \cup Attempting
                  \cup {"completed", "timedOut", "backoff", "capping"}
Scheduled == {"sleeping", "slept"}

\* The hook is up to date, but for the attempt that is pending and for an
\* error that ends the call.
Heard ==
    /\ pc = "timedOut" => ends[attempt] = "timeout"
    /\ \A n \in DOMAIN ends : ends[n] = "timeout" /\ ~Pending(n)
          => Contains(events, "AttemptTimedOut", n)
    /\ \A n \in DOMAIN ends :
          ends[n] = "error" /\ (n < attempt \/ pc \in BackingOff)
             => Contains(events, "AttemptFailed", n)
    /\ Truthful(events)
    /\ \A n \in 1..(attempt - 1) : Contains(events, "RetryScheduled", n)
    /\ pc \in Scheduled => Contains(events, "RetryScheduled", attempt)
    /\ \A n \in Nat : Contains(events, "RetryScheduled", n)
          => n <= attempt /\ (pc \in Unscheduled => n < attempt)

\* Events that conclude a call with an answer of this kind.
Concluded(s, kind) ==
    /\ Closing(s, Conclusion(kind))
    /\ Contains(s, Conclusion(kind), attempt)
          <=> ~ \/ kind = "CircuitOpen"
                \/ kind = "TotalTimeout" /\ Contains(s, "RetryScheduled", attempt)
    /\ kind = "Ok" => ends[attempt] = "ok"

Cast == IF plan.breaker THEN Ballot ELSE "none"

\* Nothing of the end is told before there is an answer, then what goes with
\* it, then what the vote makes of the circuit.
Story ==
    /\ pc \notin {"vote", "done"} => Quiet(events)
    /\ pc # "done" => vote = "none"
    /\ pc = "vote" => Concluded(events, result.kind)
    /\ pc = "done" =>
          /\ vote = Cast
          /\ \E s \in Seq([name : EventNames, attempt : 0..plan.maxAttempts]) :
                /\ \E t \in Transitions(vote) : events = s \o t
                /\ Concluded(s, result.kind)

IInv == TypeOK /\ Shape /\ PermitForWorkOnly /\ Timely /\ Patient /\ Heard
           /\ Story
-----------------------------------------------------------------------------
\* The fields of a plan and of an outcome have the types Engine assumes.
LEMMA PlanType ==
    ASSUME TypeOK
    PROVE  /\ plan.scope \in {"none", "operations", "attempts"}
           /\ plan.queueTimeout \in Option(Nat)
           /\ plan.breaker \in BOOLEAN
           /\ plan.maxAttempts \in Nat \ {0}
           /\ plan.maxElapsed \in Option(Nat)
           /\ plan.attemptTimeout \in Option(Nat)
           /\ plan.totalTimeout \in Option(Nat)
  BY EngineAssumption DEF TypeOK, Plan, Valid, Option, Duration

LEMMA OutcomeType ==
    ASSUME NEW o \in Outcomes
    PROVE  /\ o.ok \in BOOLEAN /\ o.retry \in BOOLEAN /\ o.counts \in BOOLEAN
           /\ o.hint \in Option(Nat)
           /\ o.ok => o.hint = NoValue
           /\ o # NoValue
  BY EngineAssumption DEF Outcome, Option, Duration

\* A timer that is armed is an instant.
LEMMA SleepType ==
    ASSUME TypeOK, NEW d \in Option(Nat)
    PROVE  /\ Sleep(d) \in Option(Nat)
           /\ d # NoValue => Sleep(d) = now + d /\ Sleep(d) \in Nat
  BY DEF TypeOK, Sleep, Option

\* The sleep to the total deadline ends at it, or now if it is past.
LEMMA SleepToDeadlineType ==
    ASSUME TypeOK
    PROVE  /\ SleepToDeadline \in Option(Nat)
           /\ plan.totalTimeout # NoValue =>
                 /\ Remaining \in Nat
                 /\ SleepToDeadline = now + Remaining
                 /\ SleepToDeadline \in Nat
                 /\ now + Remaining = IF now < plan.totalTimeout
                                      THEN plan.totalTimeout ELSE now
  BY PlanType, EngineAssumption
     DEF TypeOK, SleepToDeadline, Sleep, Remaining, Option, Duration

\* Events are recorded with the number of an attempt.
LEMMA EventType ==
    ASSUME TypeOK, NEW name \in EventNames
    PROVE  Event(name) \in Seq([name : EventNames, attempt : 0..plan.maxAttempts])
  BY PlanType DEF TypeOK, Event

\* The factor is a natural number, and a delay is a duration.
LEMMA RawDelayType ==
    ASSUME NEW b \in Backoffs, NEW n \in Nat \ {0}
    PROVE  RawDelay(b, n) \in Nat
<1>1. Shift(n) \in 0..MaxShift
  BY RetryDelayAssumption DEF Shift, Lesser
<1>2. Factor(n) \in Nat
  BY <1>1, RetryDelayAssumption DEF Factor, Lesser
<1>3. b.base \in Nat /\ b.max \in Nat
  BY DEF Backoffs
<1>4. b.base * Factor(n) \in Nat
  BY <1>2, <1>3
<1> QED
  BY <1>3, <1>4 DEF RawDelay, Lesser

\* While shift and factor fit, raw_delay is the documented formula.
LEMMA RawDelayDocumented ==
    ASSUME NEW b \in Backoffs, b.max <= MaxDuration, NEW n \in Nat \ {0},
           FitsWidth(n)
    PROVE  RawDelay(b, n) = Documented(b, n)
<1>1. Shift(n) = n - 1
  BY RetryDelayAssumption DEF FitsWidth, Shift, Lesser
<1>2. n - 1 \in 0..MaxShift
  BY RetryDelayAssumption DEF FitsWidth
<1>3. 2^(n - 1) \in Nat
  BY <1>2, RetryDelayAssumption
<1>4. Factor(n) = 2^(n - 1)
  BY <1>1, <1>3 DEF Factor, FitsWidth, Lesser
<1>5. b.base \in Nat /\ b.max \in Nat /\ MaxDuration \in Nat
  BY RetryDelayAssumption DEF Backoffs
<1>6. b.base * 2^(n - 1) \in Nat
  BY <1>3, <1>5
<1> QED
  BY <1>4, <1>5, <1>6 DEF RawDelay, Documented, Lesser

\* raw_delay never falls back, whatever the widths cut off, and stays in its max.
LEMMA RawDelayGrows ==
    ASSUME NEW b \in Backoffs, NEW m \in Nat \ {0}, NEW n \in Nat \ {0}, m <= n
    PROVE  RawDelay(b, m) <= RawDelay(b, n) /\ RawDelay(b, n) <= Longest(b)
<1>1. Shift(n) \in 0..MaxShift /\ Shift(m) \in 0..Shift(n)
  BY RetryDelayAssumption DEF Shift, Lesser
<1>2. 2^Shift(n) \in Nat /\ 2^Shift(m) \in Nat /\ 2^Shift(m) <= 2^Shift(n)
  BY <1>1, RetryDelayAssumption
<1>3. Factor(m) \in Nat /\ Factor(n) \in Nat /\ Factor(m) <= Factor(n)
  BY <1>2, RetryDelayAssumption DEF Factor, Lesser
<1>4. b.base \in Nat /\ b.max \in Nat /\ MaxDuration \in Nat
  BY RetryDelayAssumption DEF Backoffs
<1>5. /\ b.base * Factor(m) \in Nat /\ b.base * Factor(n) \in Nat
      /\ b.base * Factor(m) <= b.base * Factor(n)
  BY <1>3, <1>4
<1> QED
  BY <1>4, <1>5 DEF RawDelay, Longest, Lesser

\* A sample picks no more than there is.
LEMMA FractionBound ==
    ASSUME NEW span \in Nat, NEW r \in Samples
    PROVE  Fraction(span, r) \in Nat /\ Fraction(span, r) <= span
<1>1. r \in Nat /\ r <= SampleRange /\ SampleRange \in Nat \ {0}
  BY RetryDelayAssumption
<1>2. r * span \in Nat /\ r * span <= SampleRange * span
  BY <1>1
<1> QED
  BY <1>1, <1>2 DEF Fraction

\* Jitter shortens a delay, and by half of it at most when it is equal jitter.
LEMMA JitterBounds ==
    ASSUME NEW jitter \in Jitters, NEW d \in Nat, NEW r \in Samples
    PROVE  /\ Jitter(jitter, d, r) \in Nat
           /\ Jitter(jitter, d, r) <= d
           /\ jitter = "none" => Jitter(jitter, d, r) = d
           /\ jitter = "equal" /\ d < NanosRange
                 => Jitter(jitter, d, r) >= d \div 2
<1> DEFINE nanos == d % NanosRange
           half == nanos \div 2
<1>1. nanos \in Nat /\ nanos <= d /\ (d < NanosRange => nanos = d)
  BY RetryDelayAssumption
<1>2. half \in Nat /\ half + half <= nanos
  BY <1>1
<1>3. /\ Fraction(nanos, r) \in Nat /\ Fraction(nanos, r) <= nanos
      /\ Fraction(half, r) \in Nat /\ Fraction(half, r) <= half
  BY <1>1, <1>2, FractionBound
<1>4. CASE jitter = "none"
  BY <1>4 DEF Jitter
<1>5. CASE jitter = "full"
  <2>1. Jitter(jitter, d, r) = Fraction(nanos, r)
    BY <1>5 DEF Jitter
  <2> HIDE DEF nanos, half
  <2> QED
    BY <2>1, <1>1, <1>3, <1>5
<1>6. CASE jitter = "equal"
  <2>1. Jitter(jitter, d, r) = half + Fraction(half, r)
    BY <1>6 DEF Jitter
  <2>2. d < NanosRange => half = d \div 2
    BY <1>1
  <2> HIDE DEF nanos, half
  <2> QED
    BY <2>1, <2>2, <1>1, <1>2, <1>3, <1>6
<1> QED
  BY <1>4, <1>5, <1>6 DEF Jitters

\* What jitter makes of the backoff of this attempt is a duration.
LEMMA JitteredType ==
    ASSUME TypeOK, NEW j \in Jittered
    PROVE  j \in Nat
<1>1. plan.backoff \in Backoffs /\ plan.jitter \in Jitters
  BY EngineAssumption DEF TypeOK, Plan
<1>2. attempt \in Nat \ {0}
  BY PlanType DEF TypeOK
<1>3. PICK r \in Samples : j = Jitter(plan.jitter, RawDelay(plan.backoff, attempt), r)
  BY DEF Jittered
<1> QED
  BY <1>1, <1>2, <1>3, RawDelayType, JitterBounds

\* A delay is no shorter than the hint.
LEMMA DelayBounds ==
    ASSUME TypeOK, NEW j \in Jittered
    PROVE  /\ Delay(j) \in Nat
           /\ Hint # NoValue => Hint \in Nat /\ Hint <= Delay(j)
<1>1. j \in Nat
  BY JitteredType
<1>2. Hint # NoValue => Hint \in Nat
  BY OutcomeType DEF TypeOK, Hint, Option, Errors
<1> QED
  BY <1>1, <1>2 DEF Delay

LEMMA InitIInv == Init => IInv
<1> SUFFICES ASSUME Init PROVE IInv
  OBVIOUS
<1>1. plan \in Plan /\ Valid(plan)
  BY EngineAssumption DEF Init
<1>2. TypeOK
  <2>1. attempt \in 1..plan.maxAttempts
    BY <1>1 DEF Init, Plan, Valid
  <2>2. /\ events \in Seq([name : EventNames, attempt : 0..plan.maxAttempts])
        /\ ends \in Seq({"ok", "error", "timeout"})
    BY EmptySeq DEF Init
  <2>3. plan \in Plans /\ pc \in PCs
    BY <1>1 DEF Init, Plan, PCs
  <2> QED
    BY <2>1, <2>2, <2>3 DEF Init, TypeOK, Option, Duration
<1>3. Shape
  BY <1>1, EmptySeq DEF Init, Shape, Entering, Attempting, Between, BackingOff, Plan
<1>4. PermitForWorkOnly
  BY <1>1 DEF Init, PermitForWorkOnly, Plan, Final
<1>5. Timely
  BY <1>1, <1>2, PlanType, EngineAssumption
     DEF Init, Timely, Option, Duration
<1>6. Patient
  BY DEF Init, Patient
<1>7. Heard
  <2>1. events = <<>> /\ DOMAIN ends = {} /\ attempt = 1
        /\ pc \in {"acquire", "gate"}
    BY DEF Init
  <2> QED
    BY <2>1 DEF Heard, Truthful, Contains, BackingOff, Scheduled
<1>8. Story
  BY DEF Init, Story, Quiet
<1> QED
  BY <1>2, <1>3, <1>4, <1>5, <1>6, <1>7, <1>8 DEF IInv
-----------------------------------------------------------------------------
(* Types.                                                                   *)

Notices == [name : EventNames, attempt : 0..plan.maxAttempts]

\* What drive tells the hook of an attempt is a sequence of events.
LEMMA ReportType ==
    ASSUME TypeOK
    PROVE  Report \in Seq(Notices)
  BY EventType, EmptySeq DEF Report, Notices, EventNames

\* What the hook hears of the circuit after a vote.
LEMMA TransitionsType ==
    ASSUME TypeOK, NEW ballot, NEW t \in Transitions(ballot)
    PROVE  /\ t \in Seq(Notices)
           /\ t \in {<<>>, Event("Closed"), Event("Open")}
<1>1. t \in {<<>>, Event("Closed"), Event("Open")}
  BY DEF Transitions
<1>2. "Closed" \in EventNames /\ "Open" \in EventNames
  BY DEF EventNames
<1> QED
  BY <1>1, <1>2, EventType, EmptySeq DEF Notices

\* An answer is an answer: Option::Some, with well-formed events.
LEMMA AnswerType ==
    ASSUME TypeOK, NEW kind \in Kinds, NEW error \in Option(Outcomes),
           NEW emitted \in Seq(Notices), Answer(kind, error, emitted)
    PROVE  /\ result' \in Results /\ result' # NoValue
           /\ result'.kind = kind
           /\ events' \in Seq(Notices)
           /\ pc' = "vote" /\ timer' = NoValue /\ totalTimer' = NoValue
<1>1. result' \in Results /\ result'.kind = kind
  BY PlanType DEF TypeOK, Answer, Results
<1>2. events' \in Seq(Notices)
  BY ConcatProperties DEF TypeOK, Answer, Notices
<1> QED
  BY <1>1, <1>2, EngineAssumption DEF Answer, Disarm

LEMMA AnswerEarlyType ==
    ASSUME TypeOK, NEW kind \in Kinds, NEW emitted \in Seq(Notices),
           AnswerEarly(kind, emitted)
    PROVE  /\ TypeOK'
           /\ result' # NoValue /\ result'.kind = kind
<1>1. result' \in Results /\ result'.kind = kind
  BY DEF AnswerEarly, Results, Option
<1>2. events' \in Seq(Notices)
  BY ConcatProperties DEF TypeOK, AnswerEarly, Notices
<1> QED
  BY <1>1, <1>2, EngineAssumption
     DEF TypeOK, AnswerEarly, Disarm, Notices, Option, PCs, Final, progress,
         attempts, history

\* Every step keeps the types.
LEMMA TypeNext ==
    ASSUME TypeOK, Shape, [Next]_vars
    PROVE  TypeOK'
<1> USE PlanType, EngineAssumption
    DEF progress, answer, attempts, history, timers, Disarm
<1>1. CASE Acquired
  BY <1>1 DEF TypeOK, Acquired, Admitted, PCs, Option
<1>2. CASE Enqueue
  BY <1>2, SleepType, SleepToDeadlineType DEF TypeOK, Enqueue, PCs, Waits, Option
<1>3. CASE Reject
  <2>1. Event("ConcurrencyRejected") \in Seq(Notices)
    BY EventType DEF EventNames, Notices
  <2>2. CASE plan.scope = "operations"
    BY <1>3, <2>1, <2>2, AnswerEarlyType DEF Reject, Kinds
  <2>3. CASE plan.scope # "operations"
    <3>1. /\ Answer("ConcurrencyRejected", NoValue, Event("ConcurrencyRejected"))
          /\ UNCHANGED <<plan, now, permit, vote, progress, history>>
      BY <1>3, <2>3 DEF Reject
    <3> QED
      BY <3>1, <2>1, AnswerType DEF TypeOK, Kinds, Option, PCs, Notices
  <2> QED
    BY <2>2, <2>3
<1>4. CASE GateAdmits
  <2>1. events \o Event("HalfOpen") \in Seq(Notices)
    BY EventType, ConcatProperties DEF TypeOK, Notices, EventNames
  <2> QED
    BY <1>4, <2>1 DEF TypeOK, GateAdmits, LoopHead, PCs, Notices
<1>5. CASE GateRejects
  BY <1>5, AnswerEarlyType, EmptySeq DEF GateRejects, Kinds
<1>6. CASE StartAttempt
  BY <1>6 DEF TypeOK, StartAttempt, PCs
<1>7. CASE FirstPend
  BY <1>7, SleepType, SleepToDeadlineType
     DEF TypeOK, FirstPend, PCs, Waits, Option
<1>8. ASSUME NEW o \in Outcomes, Completed(o) PROVE TypeOK'
  <2>1. ends' \in Seq({"ok", "error", "timeout"})
    BY <1>8, AppendProperties DEF TypeOK, Completed
  <2>2. notBefore' \in Nat /\ permit' \in BOOLEAN
    BY <1>8, OutcomeType DEF TypeOK, Completed, AttemptPermitDropped, Option
  <2>3. /\ pc' = "completed" /\ returned' = o
        /\ timer' = NoValue /\ totalTimer' = NoValue
        /\ UNCHANGED <<plan, now, attempt, lastError, delay, result, vote,
                       events, started, startedAt, lateness>>
    BY <1>8 DEF Completed, Disarm, answer
  <2>4. pc' \in PCs /\ returned' \in Option(Outcomes)
        /\ timer' \in Option(Nat) /\ totalTimer' \in Option(Nat)
    BY <2>3 DEF PCs, Option
  <2> QED
    BY <2>1, <2>2, <2>3, <2>4 DEF TypeOK
<1>9. CASE AttemptTimedOut
  <2>1. ends' \in Seq({"ok", "error", "timeout"})
    BY <1>9, AppendProperties DEF TypeOK, AttemptTimedOut
  <2> QED
    BY <1>9, <2>1
       DEF TypeOK, AttemptTimedOut, AttemptPermitDropped, PCs, Option
<1>10. CASE TotalTimedOut
  BY <1>10 DEF TypeOK, TotalTimedOut, AttemptPermitDropped, PCs, Option
<1>11. CASE EndExpired
  <2>1. Event("GaveUp") \in Seq(Notices)
    BY EventType DEF EventNames, Notices
  <2> QED
    BY <1>11, <2>1, AnswerType
       DEF TypeOK, EndExpired, Kinds, Option, PCs, Notices
<1>12. CASE EndCompleted
  <2>1. Event("GaveUp") \in Seq(Notices) /\ Event("Succeeded") \in Seq(Notices)
    BY EventType DEF EventNames, Notices
  <2>2. returned \in Outcomes
    BY <1>12 DEF Shape, EndCompleted
  <2> QED
    BY <1>12, <2>1, <2>2, AnswerType
       DEF TypeOK, EndCompleted, Kinds, Option, PCs, Notices
<1>13. CASE EndTimedOut
  <2>1. Event("AttemptTimedOut") \o Event("GaveUp") \in Seq(Notices)
    BY EventType, ConcatProperties DEF EventNames, Notices
  <2> QED
    BY <1>13, <2>1, AnswerType
       DEF TypeOK, EndTimedOut, Kinds, Option, PCs, Notices
<1>14. ASSUME Retryable PROVE ErrorKept \in Option(Errors)
  <2>1. Failed => returned \in Errors
    BY DEF Failed, Shape, Errors
  <2> QED
    BY <2>1 DEF TypeOK, ErrorKept, Option
<1>15. CASE EndElapsed
  <2>1. Report \o Event("GaveUp") \in Seq(Notices)
    BY ReportType, EventType, ConcatProperties DEF EventNames, Notices
  <2>2. ErrorKept \in Option(Outcomes)
    BY <1>14, <1>15 DEF EndElapsed, Errors, Option
  <2>3. (IF ErrorKept = NoValue THEN "AttemptTimeout" ELSE "Operation") \in Kinds
    BY DEF Kinds
  <2> QED
    BY <1>15, <2>1, <2>2, <2>3, AnswerType
       DEF TypeOK, EndElapsed, Option, PCs, Notices
<1>16. CASE BudgetDenies
  <2>1. Report \o Event("RetryBudgetExhausted") \in Seq(Notices)
    BY ReportType, EventType, ConcatProperties DEF EventNames, Notices
  <2> QED
    BY <1>14, <1>16, <2>1, AnswerType
       DEF TypeOK, BudgetDenies, Kinds, Option, PCs, Notices
<1>17. CASE Retry
  <2>1. events \o Report \in Seq(Notices)
    BY ReportType, ConcatProperties DEF TypeOK, Notices
  <2> QED
    BY <1>14, <1>17, <2>1 DEF TypeOK, Retry, PCs, Notices
<1>18. ASSUME NEW j \in Jittered, Backoff(j) PROVE TypeOK'
  <2>1. Delay(j) \in Nat
    <3>1. Hint \in Option(Nat)
      BY OutcomeType DEF TypeOK, Hint, Option, Errors
    <3> QED
      BY <1>18, <3>1, JitteredType DEF Delay, Option
  <2> QED
    BY <1>18, <2>1 DEF TypeOK, Backoff, PCs, Duration
<1>19. CASE EndOvershoot
  <2>1. Event("GaveUp") \in Seq(Notices)
    BY EventType DEF EventNames, Notices
  <2> QED
    BY <1>19, <2>1, AnswerType
       DEF TypeOK, EndOvershoot, Kinds, Option, PCs, Notices
<1>20. CASE Schedule
  <2>1. CappedDelay \in Nat
    BY SleepToDeadlineType DEF TypeOK, CappedDelay, Duration
  <2>2. events \o Event("RetryScheduled") \in Seq(Notices)
    BY EventType, ConcatProperties DEF TypeOK, Notices, EventNames
  <2>3. delay' \in Duration /\ timer' \in Option(Nat)
    BY <1>20, <2>1 DEF TypeOK, Schedule, Option, Duration
  <2>4. events' \in Seq(Notices)
    BY <1>20, <2>2 DEF Schedule
  <2>5. pc' \in PCs
    BY <1>20 DEF Schedule, PCs, Waits
  <2> QED
    BY <1>20, <2>3, <2>4, <2>5 DEF TypeOK, Schedule, Notices
<1>21. CASE WakeUp
  BY <1>21 DEF TypeOK, WakeUp, PCs, Option
<1>22. CASE EndAsleep
  BY <1>22, AnswerType, EmptySeq
     DEF TypeOK, EndAsleep, Kinds, Option, PCs, Notices
<1>23. CASE NextAttempt
  BY <1>23 DEF TypeOK, Shape, BackingOff, NextAttempt, LoopHead, PCs
<1>24. CASE Vote
  <2>1. pc = "vote"
    BY <1>24 DEF Vote
  <2>2. Ballot \in {"none", "success", "failure"}
    BY DEF Ballot
  <2>3. events' \in Seq(Notices)
    <3>1. PICK t \in Transitions(vote') : events' = events \o t
      BY <1>24 DEF Vote
    <3>2. t \in Seq(Notices) /\ events \in Seq(Notices)
      BY TransitionsType DEF TypeOK, Notices
    <3> QED
      BY <3>1, <3>2, ConcatProperties
  <2> QED
    BY <1>24, <2>2, <2>3 DEF TypeOK, Vote, PCs, Final, Notices
<1>25. CASE Drop
  BY <1>25 DEF TypeOK, Drop, PCs, Final, Option
<1>26. CASE Tick
  BY <1>26 DEF TypeOK, Tick
<1>27. CASE UNCHANGED vars
  BY <1>27 DEF TypeOK, vars
<1> QED
  BY <1>1, <1>2, <1>3, <1>4, <1>5, <1>6, <1>7, <1>8, <1>9, <1>10, <1>11,
     <1>12, <1>13, <1>15, <1>16, <1>17, <1>18, <1>19, <1>20, <1>21, <1>22,
     <1>23, <1>24, <1>25, <1>26, <1>27
     DEF Next, Acquire, Gate, Poll, Judge, BackOff, Ended
-----------------------------------------------------------------------------
(* The progress of the call.                                                *)

\* An answer leaves the loop: nothing of Shape but the history is left.
LEMMA AnswerShape ==
    ASSUME TypeOK, Shape, NEW kind \in Kinds, NEW error \in Option(Outcomes),
           NEW emitted \in Seq(Notices), Answer(kind, error, emitted),
           UNCHANGED <<plan, attempt, ends>>,
           lastError' \in {lastError, NoValue}
    PROVE  Shape'
  BY AnswerType
     DEF Shape, Entering, Attempting, Between, BackingOff

\* An error that is kept was returned by an attempt.
LEMMA KeptErrorWasReturned ==
    ASSUME TypeOK, Shape, ErrorKept # NoValue
    PROVE  \E i \in DOMAIN ends : ends[i] = "error"
<1>1. CASE Failed
  BY <1>1 DEF Failed, Shape, Between, TypeOK
<1>2. CASE ~Failed
  BY <1>2 DEF ErrorKept, Shape
<1> QED
  BY <1>1, <1>2

\* Every step keeps Shape.
LEMMA ShapeNext ==
    ASSUME TypeOK, TypeOK', Shape, [Next]_vars
    PROVE  Shape'
<1> USE PlanType, EngineAssumption
    DEF progress, answer, attempts, history, timers, Shape, Entering,
        Attempting, Between, BackingOff
<1>1. CASE Acquired
  BY <1>1 DEF Acquired, Admitted, TypeOK
<1>2. CASE Enqueue
  BY <1>2 DEF Enqueue
<1>3. CASE Reject
  <2>1. Event("ConcurrencyRejected") \in Seq(Notices)
    BY EventType DEF EventNames, Notices
  <2>2. CASE plan.scope = "operations"
    BY <1>3, <2>1, <2>2, AnswerEarlyType DEF Reject, AnswerEarly, Kinds
  <2>3. CASE plan.scope # "operations"
    BY <1>3, <2>1, <2>3, AnswerShape DEF Reject, Kinds, Option
  <2> QED
    BY <2>2, <2>3
<1>4. CASE GateAdmits
  BY <1>4 DEF GateAdmits, LoopHead
<1>5. CASE GateRejects
  BY <1>5, AnswerEarlyType, EmptySeq DEF GateRejects, AnswerEarly, Kinds
<1>6. CASE StartAttempt
  BY <1>6 DEF StartAttempt
<1>7. CASE FirstPend
  BY <1>7 DEF FirstPend
<1>8. ASSUME NEW o \in Outcomes, Completed(o) PROVE Shape'
  <2>1. /\ Len(ends') = attempt
        /\ ends'[attempt] = IF o.ok THEN "ok" ELSE "error"
        /\ \A i \in DOMAIN ends : i \in DOMAIN ends' /\ ends'[i] = ends[i]
    BY <1>8, AppendProperties DEF TypeOK, Completed
  <2> QED
    BY <1>8, <2>1 DEF Completed
<1>9. CASE AttemptTimedOut
  <2>1. /\ Len(ends') = attempt
        /\ \A i \in DOMAIN ends : i \in DOMAIN ends' /\ ends'[i] = ends[i]
    BY <1>9, AppendProperties DEF TypeOK, AttemptTimedOut
  <2> QED
    BY <1>9, <2>1 DEF AttemptTimedOut
<1>10. CASE TotalTimedOut
  BY <1>10 DEF TotalTimedOut
<1>11. CASE EndExpired
  <2>1. Event("GaveUp") \in Seq(Notices)
    BY EventType DEF EventNames, Notices
  <2> QED
    BY <1>11, <2>1, AnswerShape DEF EndExpired, Kinds, Option
<1>12. CASE EndCompleted
  <2>1. Event("GaveUp") \in Seq(Notices) /\ Event("Succeeded") \in Seq(Notices)
    BY EventType DEF EventNames, Notices
  <2>2. NoValue \in Option(Outcomes) /\ returned \in Option(Outcomes)
    BY <1>12 DEF EndCompleted, Option
  <2>3. UNCHANGED <<plan, attempt, ends, lastError>>
    BY <1>12 DEF EndCompleted
  <2>4. CASE returned.ok
    BY <1>12, <2>1, <2>2, <2>3, <2>4, AnswerShape DEF EndCompleted, Kinds
  <2>5. CASE ~returned.ok
    BY <1>12, <2>1, <2>2, <2>3, <2>5, AnswerShape DEF EndCompleted, Kinds
  <2> QED
    BY <2>4, <2>5
<1>13. CASE EndTimedOut
  <2>1. Event("AttemptTimedOut") \o Event("GaveUp") \in Seq(Notices)
    BY EventType, ConcatProperties DEF EventNames, Notices
  <2> QED
    BY <1>13, <2>1, AnswerShape DEF EndTimedOut, Kinds, Option
<1>15. CASE EndElapsed
  <2>1. Report \o Event("GaveUp") \in Seq(Notices)
    BY ReportType, EventType, ConcatProperties DEF EventNames, Notices
  <2>2. (IF ErrorKept = NoValue THEN "AttemptTimeout" ELSE "Operation") \in Kinds
    BY DEF Kinds
  <2>3. ErrorKept \in Option(Outcomes)
    BY DEF ErrorKept, TypeOK, Option, Errors
  <2> QED
    BY <1>15, <2>1, <2>2, <2>3, AnswerShape DEF EndElapsed
<1>16. CASE BudgetDenies
  <2>1. Report \o Event("RetryBudgetExhausted") \in Seq(Notices)
    BY ReportType, EventType, ConcatProperties DEF EventNames, Notices
  <2>2. result' # NoValue /\ pc' = "vote"
    BY <1>16, <2>1, AnswerType DEF BudgetDenies, Kinds, Option
  <2> QED
    BY KeptErrorWasReturned, <1>16, <2>2 DEF BudgetDenies
<1>17. CASE Retry
  BY KeptErrorWasReturned, <1>17 DEF Retry, Retryable, LastAttempt, TypeOK
<1>18. ASSUME NEW j \in Jittered, Backoff(j) PROVE Shape'
  BY <1>18 DEF Backoff
<1>19. CASE EndOvershoot
  <2>1. Event("GaveUp") \in Seq(Notices)
    BY EventType DEF EventNames, Notices
  <2> QED
    BY <1>19, <2>1, AnswerShape DEF EndOvershoot, Kinds, Option
<1>20. CASE Schedule
  BY <1>20 DEF Schedule
<1>21. CASE WakeUp
  BY <1>21 DEF WakeUp
<1>22. CASE EndAsleep
  BY <1>22, AnswerShape, EmptySeq DEF EndAsleep, Kinds, Option
<1>23. CASE NextAttempt
  BY <1>23 DEF TypeOK, NextAttempt, LoopHead
<1>24. CASE Vote
  BY <1>24 DEF Vote
<1>25. CASE Drop
  BY <1>25 DEF Drop, Waits
<1>26. CASE Tick
  BY <1>26 DEF Tick
<1>27. CASE UNCHANGED vars
  BY <1>27 DEF vars
<1> QED
  BY <1>1, <1>2, <1>3, <1>4, <1>5, <1>6, <1>7, <1>8, <1>9, <1>10, <1>11,
     <1>12, <1>13, <1>15, <1>16, <1>17, <1>18, <1>19, <1>20, <1>21, <1>22,
     <1>23, <1>24, <1>25, <1>26, <1>27
     DEF Next, Acquire, Gate, Poll, Judge, BackOff, Ended
-----------------------------------------------------------------------------
(* Permits and timers.                                                      *)

\* An action of drive that answers the call.
AnswerStep ==
    \/ EndExpired \/ EndCompleted \/ EndTimedOut \/ EndElapsed
    \/ BudgetDenies \/ EndOvershoot \/ EndAsleep

\* All it does beside the answer is to stop the timers.
LEMMA AnswerStepEffect ==
    ASSUME AnswerStep
    PROVE  /\ pc \in Between \cup {"expired"} /\ pc' = "vote"
           /\ UNCHANGED <<plan, now, permit, history>>
  BY DEF AnswerStep, EndExpired, EndCompleted, EndTimedOut, EndElapsed,
         BudgetDenies, EndOvershoot, EndAsleep, Answer, Retryable, Between,
         BackingOff, history, attempts

\* A permit is taken and given back where PermitForWorkOnly says.
LEMMA PermitNext ==
    ASSUME TypeOK, Shape, PermitForWorkOnly, [Next]_vars
    PROVE  PermitForWorkOnly'
<1> USE PlanType DEF PermitForWorkOnly, Final
<1>1. CASE Acquired
  BY <1>1 DEF Acquired, Admitted, Shape
<1>2. CASE Enqueue
  BY <1>2 DEF Enqueue
<1>3. CASE Reject
  BY <1>3 DEF Reject, Answer, AnswerEarly, Shape
<1>4. CASE GateAdmits
  BY <1>4 DEF GateAdmits, LoopHead
<1>5. CASE GateRejects
  BY <1>5 DEF GateRejects, AnswerEarly
<1>6. CASE StartAttempt
  BY <1>6 DEF StartAttempt
<1>7. CASE FirstPend
  BY <1>7 DEF FirstPend
<1>8. ASSUME NEW o \in Outcomes, Completed(o) PROVE PermitForWorkOnly'
  BY <1>8 DEF Completed, AttemptPermitDropped
<1>9. CASE AttemptTimedOut \/ TotalTimedOut
  BY <1>9 DEF AttemptTimedOut, TotalTimedOut, AttemptPermitDropped
<1>10. CASE AnswerStep
  BY <1>10, AnswerStepEffect DEF Between, BackingOff
<1>11. CASE Retry
  BY <1>11 DEF Retry, Retryable
<1>12. ASSUME NEW j \in Jittered, Backoff(j) PROVE PermitForWorkOnly'
  BY <1>12 DEF Backoff
<1>13. CASE Schedule
  BY <1>13 DEF Schedule
<1>14. CASE WakeUp
  BY <1>14 DEF WakeUp
<1>15. CASE NextAttempt
  BY <1>15 DEF NextAttempt, LoopHead, Shape, TypeOK
<1>16. CASE Vote
  BY <1>16 DEF Vote
<1>17. CASE Drop
  BY <1>17 DEF Drop
<1>18. CASE Tick \/ UNCHANGED vars
  BY <1>18 DEF Tick, vars
<1> QED
  BY <1>1, <1>2, <1>3, <1>4, <1>5, <1>6, <1>7, <1>8, <1>9, <1>10, <1>11,
     <1>12, <1>13, <1>14, <1>15, <1>16, <1>17, <1>18
     DEF Next, Acquire, Gate, Poll, Judge, BackOff, Ended, AnswerStep

\* The capped delay is no longer than what is left until the total deadline.
LEMMA CappedDelayType ==
    ASSUME TypeOK
    PROVE  /\ CappedDelay \in Nat
           /\ plan.totalTimeout # NoValue =>
                 CappedDelay <= Remaining /\ Remaining \in Nat
           /\ \/ CappedDelay = delay
              \/ plan.totalTimeout # NoValue /\ CappedDelay = Remaining
  BY SleepToDeadlineType DEF TypeOK, CappedDelay, Duration

\* Timers are armed in time, and the clock passes them by the lateness only.
LEMMA TimelyNext ==
    ASSUME TypeOK, TypeOK', Timely, [Next]_vars
    PROVE  Timely'
<1> USE DEF Timely
<1>0. /\ now \in Nat /\ lateness \in Nat /\ startedAt \in Nat
      /\ plan.totalTimeout # NoValue => plan.totalTimeout \in Nat
      /\ plan.attemptTimeout # NoValue => plan.attemptTimeout \in Nat
  BY PlanType DEF TypeOK, Option
<1>1. CASE Acquired
  BY <1>1 DEF Acquired, Admitted, history
<1>2. CASE Enqueue
  BY <1>0, <1>2, SleepToDeadlineType DEF Enqueue, history, attempts
<1>3. CASE Reject \/ GateRejects \/ Vote
  BY <1>3 DEF Reject, GateRejects, Vote, Answer, AnswerEarly, history
<1>4. CASE GateAdmits \/ NextAttempt
  BY <1>4 DEF GateAdmits, NextAttempt, LoopHead, history
<1>5. CASE StartAttempt
  BY <1>0, <1>5 DEF StartAttempt
<1>6. CASE FirstPend
  <2>1. plan.attemptTimeout # NoValue =>
           timer' \in Nat /\ timer' = now + plan.attemptTimeout
    BY <1>6, SleepType, PlanType DEF FirstPend
  <2>2. /\ pc = "polling" /\ pc' = "running"
        /\ UNCHANGED <<plan, now, startedAt, lateness>>
        /\ totalTimer' = SleepToDeadline
    BY <1>6 DEF FirstPend, history, attempts
  <2>3. plan.totalTimeout # NoValue =>
           totalTimer' \in Nat /\ totalTimer' <= plan.totalTimeout + lateness
    BY <1>0, <2>2, SleepToDeadlineType
  <2>4. plan.attemptTimeout # NoValue =>
           /\ timer' <= startedAt + plan.attemptTimeout + lateness
           /\ now <= startedAt + plan.attemptTimeout + lateness
    BY <1>0, <2>1, <2>2
  <2> QED
    BY <2>1, <2>2, <2>3, <2>4
<1>7. ASSUME NEW o \in Outcomes, Completed(o) PROVE Timely'
  BY <1>7 DEF Completed
<1>8. CASE AttemptTimedOut \/ TotalTimedOut
  BY <1>8 DEF AttemptTimedOut, TotalTimedOut, history
<1>9. CASE AnswerStep
  BY <1>9, AnswerStepEffect DEF history
<1>10. CASE Retry
  BY <1>10 DEF Retry, history
<1>11. ASSUME NEW j \in Jittered, Backoff(j) PROVE Timely'
  BY <1>11 DEF Backoff, history
<1>12. CASE Schedule
  <2>1. /\ pc' = "slept" \/ (pc' = "sleeping" /\ timer' = now + CappedDelay)
        /\ UNCHANGED <<plan, now, lateness>>
        /\ pc = "capping"
    BY <1>12 DEF Schedule, history
  <2>2. now + CappedDelay \in Nat
    BY <1>0, CappedDelayType
  <2>3. plan.totalTimeout # NoValue =>
           now + CappedDelay <= plan.totalTimeout + lateness
    BY <1>0, CappedDelayType, SleepToDeadlineType
  <2> QED
    BY <2>1, <2>2, <2>3
<1>13. CASE WakeUp \/ Drop
  BY <1>13 DEF WakeUp, Drop, history
<1>14. CASE Tick
  <2>1. /\ now' = now + 1
        /\ lateness' = IF Idle THEN lateness ELSE lateness + 1
        /\ UNCHANGED <<plan, pc, timer, totalTimer, startedAt>>
    BY <1>14 DEF Tick, timers, attempts
  <2>2. CASE Idle
    <3>1. /\ pc \in {"queued", "running", "sleeping"}
          /\ timer = NoValue \/ ~(now >= timer)
          /\ totalTimer = NoValue \/ ~(now >= totalTimer)
      BY <2>2 DEF Idle, Due, Waits
    <3>2. NoValue \notin Nat
      BY EngineAssumption DEF Duration
    <3>3. plan.totalTimeout # NoValue => now + 1 <= plan.totalTimeout + lateness
      BY <1>0, <3>1, <3>2
    <3>4. pc = "running" /\ plan.attemptTimeout # NoValue =>
             now + 1 <= startedAt + plan.attemptTimeout + lateness
      BY <1>0, <3>1, <3>2
    <3> QED
      BY <2>1, <2>2, <3>1, <3>3, <3>4
  <2>3. CASE ~Idle
    <3>1. /\ timer \in Nat \cup {NoValue} /\ totalTimer \in Nat \cup {NoValue}
          /\ lateness' = lateness + 1
      BY <2>1, <2>3 DEF TypeOK, Option
    <3>2. plan.totalTimeout # NoValue =>
             /\ now + 1 <= plan.totalTimeout + (lateness + 1)
             /\ pc \in {"queued", "running"} =>
                   totalTimer <= plan.totalTimeout + (lateness + 1)
             /\ pc = "sleeping" => timer <= plan.totalTimeout + (lateness + 1)
      BY <1>0
    <3>3. pc = "running" /\ plan.attemptTimeout # NoValue =>
             /\ timer <= startedAt + plan.attemptTimeout + (lateness + 1)
             /\ now + 1 <= startedAt + plan.attemptTimeout + (lateness + 1)
      BY <1>0
    <3>4. pc = "polling" => now + 1 <= startedAt + (lateness + 1)
      BY <1>0
    <3> QED
      BY <2>1, <3>1, <3>2, <3>3, <3>4
  <2> QED
    BY <2>2, <2>3
<1>15. CASE UNCHANGED vars
  BY <1>15 DEF vars, timers, history, attempts
<1> QED
  BY <1>1, <1>2, <1>3, <1>4, <1>5, <1>6, <1>7, <1>8, <1>9, <1>10, <1>11,
     <1>12, <1>13, <1>14, <1>15
     DEF Next, Acquire, Gate, Poll, Judge, BackOff, Ended, AnswerStep

\* What the last error asked for is carried from step to step.
LEMMA PatientNext ==
    ASSUME TypeOK, TypeOK', Shape, Patient, [Next]_vars
    PROVE  Patient'
<1> USE PlanType, EngineAssumption DEF Patient
<1>1. CASE Acquired
  BY <1>1 DEF Acquired, Admitted, history, attempts
<1>2. CASE Enqueue
  BY <1>2 DEF Enqueue, history, attempts
<1>3. CASE Reject \/ GateRejects \/ Vote
  BY <1>3 DEF Reject, GateRejects, Vote, Answer, AnswerEarly
<1>4. CASE GateAdmits
  BY <1>4 DEF GateAdmits, LoopHead, history, attempts
<1>5. CASE StartAttempt \/ FirstPend \/ TotalTimedOut \/ Drop
  BY <1>5 DEF StartAttempt, FirstPend, TotalTimedOut, Drop
<1>6. ASSUME NEW o \in Outcomes, Completed(o) PROVE Patient'
  BY <1>6, OutcomeType DEF Completed, TypeOK, Option
<1>7. CASE AttemptTimedOut
  BY <1>7 DEF AttemptTimedOut
<1>8. CASE AnswerStep
  BY <1>8, AnswerStepEffect
<1>9. CASE Retry
  <2>1. /\ pc' = "backoff" /\ UNCHANGED <<now, notBefore>>
        /\ lastError' = ErrorKept
    BY <1>9 DEF Retry, history, attempts
  <2>2. Hint' = IF ErrorKept = NoValue THEN NoValue ELSE ErrorKept.hint
    BY <2>1 DEF Hint
  <2>3. Hint' # NoValue => Hint' \in Nat
    BY OutcomeType DEF TypeOK, Hint, Option, Errors
  <2>4. CASE Failed
    <3>1. pc = "completed" /\ returned \in Outcomes /\ ErrorKept = returned
      BY <2>4 DEF ErrorKept, Failed, Shape
    <3>2. /\ returned # NoValue
          /\ notBefore <= IF returned.hint = NoValue THEN 0
                                                     ELSE now + returned.hint
      BY <3>1, OutcomeType
    <3>3. Hint' = returned.hint
      BY <2>2, <3>1, <3>2
    <3>4. notBefore <= IF Hint' = NoValue THEN now ELSE now + Hint'
      BY <3>2, <3>3 DEF TypeOK
    <3> QED
      BY <2>1, <3>4
  <2>5. CASE ~Failed
    <3>1. notBefore = 0
      <4>1. CASE pc = "timedOut"
        BY <4>1
      <4>2. CASE pc = "completed"
        <5>1. returned \in Outcomes /\ returned.hint = NoValue
          BY <2>5, <4>2, OutcomeType DEF Failed, Shape
        <5> QED
          BY <4>2, <5>1 DEF TypeOK
      <4> QED
        BY <1>9, <4>1, <4>2 DEF Retry, Retryable
    <3>2. notBefore <= IF Hint' = NoValue THEN now ELSE now + Hint'
      BY <2>3, <3>1 DEF TypeOK
    <3> QED
      BY <2>1, <3>2
  <2> QED
    BY <2>4, <2>5
<1>10. ASSUME NEW j \in Jittered, Backoff(j) PROVE Patient'
  <2>1. /\ pc = "backoff" /\ pc' = "capping" /\ delay' = Delay(j)
        /\ UNCHANGED <<now, notBefore>>
    BY <1>10 DEF Backoff, history, attempts
  <2>2. notBefore <= IF Hint = NoValue THEN now ELSE now + Hint
    BY <2>1
  <2>3. /\ Delay(j) \in Nat /\ now \in Nat /\ notBefore \in Nat
        /\ Hint # NoValue => Hint \in Nat /\ Hint <= Delay(j)
    BY DelayBounds DEF TypeOK
  <2>4. notBefore <= now + Delay(j)
    BY <2>2, <2>3
  <2> QED
    BY <2>1, <2>4
<1>11. CASE Schedule
  <2>1. /\ \/ pc' = "slept" /\ CappedDelay = 0
           \/ pc' = "sleeping" /\ timer' = now + CappedDelay
        /\ UNCHANGED <<plan, now, notBefore>>
        /\ pc = "capping" /\ notBefore <= now + delay
    BY <1>11 DEF Schedule, history, attempts
  <2>2. now \in Nat /\ notBefore \in Nat /\ delay \in Nat
    BY DEF TypeOK, Duration
  <2>3. \/ notBefore <= now + CappedDelay
        \/ plan.totalTimeout # NoValue /\ plan.totalTimeout <= now + CappedDelay
    BY <2>1, <2>2, CappedDelayType, SleepToDeadlineType DEF Option
  <2>4. pc' = "slept" => notBefore <= now \/ DeadlinePassed
    BY <2>1, <2>2, <2>3 DEF DeadlinePassed, Option
  <2> QED
    BY <2>1, <2>3, <2>4 DEF DeadlinePassed
<1>12. CASE WakeUp
  BY <1>12 DEF WakeUp, Due, DeadlinePassed, TypeOK, Option, history, attempts
<1>13. CASE NextAttempt
  BY <1>13 DEF NextAttempt, LoopHead, DeadlinePassed, history, attempts
<1>14. CASE Tick
  <2>1. /\ now' = now + 1
        /\ UNCHANGED <<plan, pc, timer, returned, delay, notBefore, lastError>>
    BY <1>14 DEF Tick, timers, progress, attempts
  <2>2. /\ now \in Nat /\ notBefore \in Nat /\ delay \in Nat
        /\ plan.totalTimeout \in Option(Nat)
    BY DEF TypeOK, Duration
  <2>3. Hint' = Hint /\ (Hint # NoValue => Hint \in Nat)
    BY <2>1, OutcomeType DEF Hint, TypeOK, Option, Errors
  <2>4. pc = "completed" => returned.hint \in Option(Nat)
    BY OutcomeType DEF Shape
  <2>5. DeadlinePassed => DeadlinePassed'
    BY <2>1, <2>2 DEF DeadlinePassed, Option
  <2>6. /\ notBefore <= now => notBefore <= now + 1
        /\ notBefore <= now + delay => notBefore <= now + 1 + delay
    BY <2>2
  <2>7. pc = "completed" =>
           notBefore <= IF returned.hint = NoValue THEN 0
                        ELSE now + 1 + returned.hint
    BY <2>2, <2>4 DEF Option
  <2>8. pc = "backoff" =>
           notBefore <= IF Hint = NoValue THEN now + 1 ELSE now + 1 + Hint
    BY <2>2, <2>3
  <2> QED
    BY <2>1, <2>3, <2>5, <2>6, <2>7, <2>8
<1>15. CASE UNCHANGED vars
  BY <1>15
     DEF vars, Hint, DeadlinePassed, timers, progress, history, attempts
<1> QED
  BY <1>1, <1>2, <1>3, <1>4, <1>5, <1>6, <1>7, <1>8, <1>9, <1>10, <1>11,
     <1>12, <1>13, <1>14, <1>15
     DEF Next, Acquire, Gate, Poll, Judge, BackOff, Ended, AnswerStep
-----------------------------------------------------------------------------
(* What the hook hears.                                                     *)

\* The indices of a sequence that is told after another.
LEMMA ConcatCases ==
    ASSUME NEW S, NEW s \in Seq(S), NEW t \in Seq(S)
    PROVE  /\ \A i \in DOMAIN (s \o t) :
                 \/ i \in DOMAIN s /\ (s \o t)[i] = s[i]
                 \/ /\ i - Len(s) \in DOMAIN t
                    /\ (s \o t)[i] = t[i - Len(s)]
           /\ \A i \in DOMAIN s : /\ i \in DOMAIN (s \o t)
                                  /\ (s \o t)[i] = s[i]
           /\ \A i \in DOMAIN t : /\ i + Len(s) \in DOMAIN (s \o t)
                                  /\ (s \o t)[i + Len(s)] = t[i]
           /\ Len(s \o t) = Len(s) + Len(t)
           /\ Len(s) \in Nat /\ Len(t) \in Nat
           /\ DOMAIN s = 1..Len(s) /\ DOMAIN t = 1..Len(t)
  BY ConcatProperties

\* What is said of a sequence of events told after another.
LEMMA Telling ==
    ASSUME NEW s \in Seq(Notices), NEW t \in Seq(Notices)
    PROVE  /\ \A what, n : Contains(s \o t, what, n)
                              <=> Contains(s, what, n) \/ Contains(t, what, n)
           /\ Quiet(s) /\ Quiet(t) => Quiet(s \o t)
           /\ \A what : Quiet(s) /\ Closing(t, what) => Closing(s \o t, what)
           /\ Truthful(s) /\ Truthful(t) => Truthful(s \o t)
           /\ s \o t \in Seq(Notices)
<1> DEFINE u == s \o t
<1>1. /\ \A i \in DOMAIN u : \/ i \in DOMAIN s /\ u[i] = s[i]
                             \/ i - Len(s) \in DOMAIN t /\ u[i] = t[i - Len(s)]
      /\ \A i \in DOMAIN s : i \in DOMAIN u /\ u[i] = s[i]
      /\ \A i \in DOMAIN t : i + Len(s) \in DOMAIN u /\ u[i + Len(s)] = t[i]
      /\ Len(u) = Len(s) + Len(t)
      /\ Len(s) \in Nat /\ Len(t) \in Nat
      /\ DOMAIN s = 1..Len(s) /\ DOMAIN t = 1..Len(t)
  BY ConcatCases
<1>2. u \in Seq(Notices)
  BY ConcatProperties
<1>3. DOMAIN u \subseteq Nat
  BY <1>2
<1> HIDE DEF u
<1>4. ASSUME NEW what, NEW n
      PROVE  Contains(u, what, n)
                <=> Contains(s, what, n) \/ Contains(t, what, n)
  BY <1>1 DEF Contains
<1>5. Quiet(s) /\ Quiet(t) => Quiet(u)
  BY <1>1 DEF Quiet
<1>6. ASSUME NEW what, Quiet(s), Closing(t, what) PROVE Closing(u, what)
  <2> SUFFICES ASSUME NEW i \in DOMAIN u
               PROVE  /\ u[i].name \notin Changes
                      /\ u[i].name \in Terminal =>
                            /\ i = Len(u)
                            /\ u[i] = [name |-> what, attempt |-> attempt]
    BY DEF Closing
  <2>1. CASE i \in DOMAIN s /\ u[i] = s[i]
    BY <1>6, <2>1 DEF Quiet
  <2>2. CASE i - Len(s) \in DOMAIN t /\ u[i] = t[i - Len(s)]
    <3>1. /\ u[i].name \notin Changes
          /\ u[i].name \in Terminal =>
                /\ i - Len(s) = Len(t)
                /\ u[i] = [name |-> what, attempt |-> attempt]
      BY <1>6, <2>2 DEF Closing
    <3>2. i \in Nat /\ (i - Len(s) = Len(t) => i = Len(u))
      BY <1>1, <1>3
    <3> QED
      BY <3>1, <3>2
  <2> QED
    BY <1>1, <2>1, <2>2
<1>7. Truthful(s) /\ Truthful(t) => Truthful(u)
  BY <1>1 DEF Truthful
<1> QED
  BY <1>2, <1>4, <1>5, <1>6, <1>7 DEF u

\* One event, of the attempt under way.
LEMMA OneEvent ==
    ASSUME NEW name \in EventNames
    PROVE  /\ \A what, n : Contains(Event(name), what, n)
                              <=> what = name /\ n = attempt
           /\ name \notin Terminal \cup Changes => Quiet(Event(name))
           /\ name \notin Changes => Closing(Event(name), name)
           /\ name \notin {"AttemptTimedOut", "AttemptFailed"}
                 => Truthful(Event(name))
           /\ attempt \in DOMAIN ends =>
                 /\ name = "AttemptTimedOut" /\ ends[attempt] = "timeout"
                       => Truthful(Event(name))
                 /\ name = "AttemptFailed" /\ ends[attempt] = "error"
                       => Truthful(Event(name))
<1>1. /\ DOMAIN Event(name) = {1} /\ Len(Event(name)) = 1
      /\ Event(name)[1] = [name |-> name, attempt |-> attempt]
  BY DEF Event
<1>2. /\ Event(name)[1].name = name /\ Event(name)[1].attempt = attempt
  BY <1>1
<1>3. \A what, n : [name |-> name, attempt |-> attempt]
                      = [name |-> what, attempt |-> n]
                         <=> what = name /\ n = attempt
  OBVIOUS
<1>4. \A what, n : Contains(Event(name), what, n) <=> what = name /\ n = attempt
  BY <1>1, <1>3 DEF Contains
<1> QED
  BY <1>1, <1>2, <1>4 DEF Quiet, Closing, Truthful

\* Silence says nothing, and adds nothing.
LEMMA NoEvent ==
    /\ \A what, n : ~Contains(<<>>, what, n)
    /\ Quiet(<<>>) /\ Truthful(<<>>)
    /\ <<>> \in Seq(Notices)
    /\ \A s \in Seq(Notices) : s \o <<>> = s
  BY EmptySeq, ConcatEmptySeq DEF Contains, Quiet, Truthful

\* The names of the events, told apart.
LEMMA Names ==
    /\ Terminal \subseteq EventNames /\ Changes \subseteq EventNames
    /\ {"AttemptTimedOut", "AttemptFailed", "RetryScheduled", "HalfOpen"}
          \subseteq EventNames \ (Terminal \cup Changes)
    /\ Terminal \cap Changes = {}
    /\ \A kind \in Kinds : Conclusion(kind) \in Terminal
    /\ \A kind \in Kinds : Conclusion(kind) = "Succeeded" => kind = "Ok"
    /\ /\ Conclusion("Ok") = "Succeeded"
       /\ Conclusion("ConcurrencyRejected") = "ConcurrencyRejected"
       /\ Conclusion("RetryBudgetExhausted") = "RetryBudgetExhausted"
       /\ \A kind \in {"Operation", "AttemptTimeout", "TotalTimeout"} :
             Conclusion(kind) = "GaveUp"
  BY DEF EventNames, Terminal, Changes, Conclusion, Kinds

\* An event that is neither an end, nor a change of the circuit, nor a report.
LEMMA PlainEvent ==
    ASSUME TypeOK, NEW name \in {"RetryScheduled", "HalfOpen"}
    PROVE  /\ Event(name) \in Seq(Notices)
           /\ Quiet(Event(name)) /\ Truthful(Event(name))
           /\ \A what, n : Contains(Event(name), what, n)
                              <=> what = name /\ n = attempt
<1>1. /\ name \in EventNames /\ name \notin Terminal \cup Changes
      /\ name \notin {"AttemptTimedOut", "AttemptFailed"}
  BY DEF EventNames, Terminal, Changes
<1> QED
  BY <1>1, OneEvent, EventType DEF Notices

\* What drive reports of an attempt is how it ended, unless that is its value.
LEMMA ReportSays ==
    ASSUME TypeOK, Shape, Heard, Retryable
    PROVE  /\ Report \in Seq(Notices) /\ Quiet(Report) /\ Truthful(Report)
           /\ ends[attempt] = "timeout"
                 => Contains(Report, "AttemptTimedOut", attempt)
           /\ ends[attempt] = "error" => Contains(Report, "AttemptFailed", attempt)
           /\ \A n : ~Contains(Report, "RetryScheduled", n)
           /\ Len(ends) = attempt
<1>1. Report \in Seq(Notices)
  BY ReportType
<1>2. Len(ends) = attempt /\ attempt \in DOMAIN ends
  BY PlanType DEF Retryable, Shape, Between, TypeOK
<1>3. CASE pc = "timedOut"
  <2>1. Report = Event("AttemptTimedOut") /\ ends[attempt] = "timeout"
    BY <1>3 DEF Report, Heard
  <2> QED
    BY <1>1, <1>2, <2>1, Names, OneEvent
<1>4. CASE pc # "timedOut" /\ Failed
  <2>1. Report = Event("AttemptFailed") /\ ends[attempt] = "error"
    BY <1>4 DEF Report, Failed, Shape
  <2> QED
    BY <1>1, <1>2, <2>1, Names, OneEvent
<1>5. CASE pc # "timedOut" /\ ~Failed
  <2>1. Report = <<>>
    BY <1>5 DEF Report
  <2>2. ends[attempt] = "ok"
    BY <1>5 DEF Retryable, Shape, Failed
  <2> QED
    BY <1>1, <1>2, <2>1, <2>2, NoEvent
<1> QED
  BY <1>3, <1>4, <1>5

\* The hook stays up to date if what it is told settles what was pending.
LEMMA ToldHeard ==
    ASSUME TypeOK, Heard, NEW t \in Seq(Notices), Truthful(t),
           events' = events \o t, UNCHANGED <<ends, attempt>>,
           pc' = "timedOut" => pc = "timedOut",
           \A n \in DOMAIN ends : Pending(n) /\ ends[n] = "timeout"
              => pc' = pc \/ Contains(t, "AttemptTimedOut", n),
           pc' \in BackingOff =>
              \/ pc \in BackingOff
              \/ /\ Len(ends) = attempt
                 /\ ends[attempt] = "error" => Contains(t, "AttemptFailed", attempt),
           pc' \in Scheduled =>
              pc \in Scheduled \/ Contains(t, "RetryScheduled", attempt),
           pc' \in Unscheduled => pc \in Unscheduled,
           \A n : Contains(t, "RetryScheduled", n)
              => n = attempt /\ pc' \notin Unscheduled
    PROVE  Heard'
<1>1. events \in Seq(Notices) /\ ends \in Seq({"ok", "error", "timeout"})
      /\ attempt \in Nat \ {0}
  BY PlanType DEF TypeOK, Notices
<1>2. \A what, n : Contains(events', what, n)
                      <=> Contains(events, what, n) \/ Contains(t, what, n)
  BY <1>1, Telling
<1>3. Truthful(events')
  BY <1>1, Telling DEF Heard
<1>4. (pc = "timedOut" => ends[attempt] = "timeout")'
  BY DEF Heard
<1>5. ASSUME NEW n \in DOMAIN ends, ends[n] = "timeout", ~(Pending(n)')
      PROVE  Contains(events', "AttemptTimedOut", n)
  <2>1. CASE Pending(n)
    BY <1>2, <1>5, <2>1 DEF Pending
  <2>2. CASE ~Pending(n)
    BY <1>2, <1>5, <2>2 DEF Heard
  <2> QED
    BY <2>1, <2>2
<1>6. ASSUME NEW n \in DOMAIN ends, ends[n] = "error",
             n < attempt \/ pc' \in BackingOff
      PROVE  Contains(events', "AttemptFailed", n)
  <2>1. CASE n < attempt \/ pc \in BackingOff
    BY <1>2, <1>6, <2>1 DEF Heard
  <2>2. CASE ~(n < attempt \/ pc \in BackingOff)
    <3>1. Len(ends) = attempt /\ DOMAIN ends = 1..Len(ends)
      BY <1>1, <1>6, <2>2
    <3>2. n = attempt
      BY <1>1, <2>2, <3>1
    <3> QED
      BY <1>2, <1>6, <2>2, <3>2
  <2> QED
    BY <2>1, <2>2
<1>7. \A n \in 1..(attempt - 1) : Contains(events', "RetryScheduled", n)
  BY <1>2 DEF Heard
<1>8. pc' \in Scheduled => Contains(events', "RetryScheduled", attempt)
  BY <1>2 DEF Heard
<1>9. ASSUME NEW n \in Nat, Contains(events', "RetryScheduled", n)
      PROVE  n <= attempt /\ (pc' \in Unscheduled => n < attempt)
  BY <1>1, <1>2, <1>9 DEF Heard
<1>10. Truthful(events)'
  BY <1>3 DEF Truthful
<1> QED
  BY <1>4, <1>5, <1>6, <1>7, <1>8, <1>9, <1>10 DEF Heard, Contains

\* A step of which the hook is not told.
LEMMA SilentHeard ==
    ASSUME TypeOK, Heard, UNCHANGED <<events, ends, attempt>>,
           pc \in {"completed", "timedOut"} => pc' = pc,
           pc' = "timedOut" => pc = "timedOut",
           pc' \in BackingOff => pc \in BackingOff,
           pc' \in Scheduled => pc \in Scheduled,
           pc' \in Unscheduled => pc \in Unscheduled
    PROVE  Heard'
<1>1. events' = events \o <<>> /\ <<>> \in Seq(Notices) /\ Truthful(<<>>)
      /\ \A what, n : ~Contains(<<>>, what, n)
  BY NoEvent DEF TypeOK, Notices
<1>2. \A n : Pending(n) => pc' = pc
  BY DEF Pending
<1> QED
  BY <1>1, <1>2, ToldHeard

\* An answer, with what is told of it.
LEMMA AnswerHeard ==
    ASSUME TypeOK, Heard, NEW t \in Seq(Notices), Truthful(t),
           events' = events \o t, UNCHANGED <<ends, attempt>>,
           pc' \in {"vote", "done"},
           pc \in {"completed", "timedOut"} /\ ends[attempt] = "timeout"
              => Contains(t, "AttemptTimedOut", attempt),
           \A n : ~Contains(t, "RetryScheduled", n)
    PROVE  Heard'
<1>1. /\ pc' # "timedOut" /\ pc' \notin BackingOff /\ pc' \notin Scheduled
      /\ pc' \notin Unscheduled
  BY DEF BackingOff, Scheduled, Unscheduled, Entering, Attempting
<1>2. \A n \in DOMAIN ends : Pending(n) /\ ends[n] = "timeout"
         => Contains(t, "AttemptTimedOut", n)
  BY DEF Pending
<1> QED
  BY <1>1, <1>2, ToldHeard

\* Events that conclude the call with what goes with the answer.
LEMMA Concluding ==
    ASSUME TypeOK, Quiet(events),
           NEW s \in Seq(Notices), Quiet(s),
           \A n : ~Contains(s, "RetryScheduled", n),
           NEW kind \in Kinds \ {"CircuitOpen"},
           kind = "TotalTimeout" => ~Contains(events, "RetryScheduled", attempt),
           kind = "Ok" => ends[attempt] = "ok"
    PROVE  Concluded(events \o (s \o Event(Conclusion(kind))), kind)
<1> DEFINE name == Conclusion(kind)
           e == Event(name)
           t == s \o e
           u == events \o t
<1>1. name \in EventNames /\ name \notin Changes /\ name # "RetryScheduled"
  BY Names
<1>2. events \in Seq(Notices) /\ e \in Seq(Notices)
  BY <1>1, EventType DEF TypeOK, Notices
<1> HIDE DEF name
<1>3. /\ Closing(e, name)
      /\ \A what, n : Contains(e, what, n) <=> what = name /\ n = attempt
  BY <1>1, OneEvent
<1> HIDE DEF e
<1>4. /\ t \in Seq(Notices) /\ Closing(t, name)
      /\ \A what, n : Contains(t, what, n)
                         <=> Contains(s, what, n) \/ Contains(e, what, n)
  BY <1>2, <1>3, Telling
<1> HIDE DEF t
<1>5. /\ Closing(u, name)
      /\ \A what, n : Contains(u, what, n)
                         <=> Contains(events, what, n) \/ Contains(t, what, n)
  BY <1>2, <1>4, Telling
<1> HIDE DEF u
<1>6. Contains(u, name, attempt)
  BY <1>3, <1>4, <1>5
<1>7. kind = "TotalTimeout" => ~Contains(u, "RetryScheduled", attempt)
  BY <1>1, <1>3, <1>4, <1>5
<1>8. Concluded(u, kind)
  BY <1>5, <1>6, <1>7 DEF Concluded, name
<1> QED
  BY <1>8 DEF u, t, e, name

\* The answers that go with no event.
LEMMA ConcludingSilently ==
    ASSUME TypeOK, Quiet(events), NEW kind \in Kinds,
           \/ kind = "CircuitOpen"
           \/ kind = "TotalTimeout" /\ Contains(events, "RetryScheduled", attempt)
    PROVE  Concluded(events, kind)
<1>1. Conclusion(kind) \in Terminal
  BY Names
<1>2. Closing(events, Conclusion(kind))
  BY DEF Quiet, Closing
<1>3. ~Contains(events, Conclusion(kind), attempt)
  BY <1>1 DEF Quiet, Contains
<1> QED
  BY <1>2, <1>3 DEF Concluded

\* The answer of drive.
LEMMA AnswerStory ==
    ASSUME Concluded(events', result'.kind), pc' = "vote", vote' = "none",
           UNCHANGED <<ends, attempt>>
    PROVE  Story'
<1>1. Concluded(events, result.kind)'
  BY DEF Concluded, Closing, Contains
<1> QED
  BY <1>1 DEF Story

\* What drive answers, and what it tells the hook of the last attempt before.
LEMMA AnswerTells ==
    ASSUME TypeOK, Shape, Heard, AnswerStep, ~EndAsleep
    PROVE  \E kind \in Kinds \ {"CircuitOpen"}, s \in Seq(Notices) :
              /\ result'.kind = kind
              /\ events' = events \o (s \o Event(Conclusion(kind)))
              /\ Quiet(s) /\ Truthful(s)
              /\ pc \in {"completed", "timedOut"} /\ ends[attempt] = "timeout"
                    => Contains(s, "AttemptTimedOut", attempt)
              /\ \A n : ~Contains(s, "RetryScheduled", n)
              /\ kind = "TotalTimeout" =>
                    pc \in {"expired", "backoff"}
              /\ kind = "Ok" => ends[attempt] = "ok"
<1> DEFINE Tale(kind, s) ==
              /\ result'.kind = kind
              /\ events' = events \o (s \o Event(Conclusion(kind)))
              /\ Quiet(s) /\ Truthful(s)
              /\ pc \in {"completed", "timedOut"} /\ ends[attempt] = "timeout"
                    => Contains(s, "AttemptTimedOut", attempt)
              /\ \A n : ~Contains(s, "RetryScheduled", n)
              /\ kind = "TotalTimeout" =>
                    pc \in {"expired", "backoff"}
              /\ kind = "Ok" => ends[attempt] = "ok"
<1>1. SUFFICES \E kind \in Kinds \ {"CircuitOpen"}, s \in Seq(Notices) :
                  Tale(kind, s)
  OBVIOUS
<1>2. \A name \in Terminal : /\ Event(name) \in Seq(Notices)
                             /\ <<>> \o Event(name) = Event(name)
  BY EventType, ConcatEmptySeq, Names DEF Notices
<1>3. {"Succeeded", "GaveUp", "RetryBudgetExhausted"} \subseteq Terminal
  BY DEF Terminal
<1>4. CASE EndExpired \/ EndOvershoot
  <2>1. /\ result'.kind = "TotalTimeout" /\ events' = events \o Event("GaveUp")
        /\ pc \in {"expired", "backoff"}
    BY <1>4 DEF EndExpired, EndOvershoot, Answer
  <2>2. Tale("TotalTimeout", <<>>)
    BY <1>2, <1>3, <2>1, NoEvent, Names
  <2> QED
    BY <2>2, NoEvent DEF Kinds
<1>5. CASE EndCompleted
  <2>1. pc = "completed" /\ ends[attempt] = IF returned.ok THEN "ok" ELSE "error"
    BY <1>5 DEF EndCompleted, Shape
  <2>2. CASE returned.ok
    <3>1. result'.kind = "Ok" /\ events' = events \o Event("Succeeded")
      BY <1>5, <2>2 DEF EndCompleted, Answer
    <3>2. Tale("Ok", <<>>)
      BY <1>2, <1>3, <2>1, <2>2, <3>1, NoEvent, Names
    <3> QED
      BY <3>2, NoEvent DEF Kinds
  <2>3. CASE ~returned.ok
    <3>1. result'.kind = "Operation" /\ events' = events \o Event("GaveUp")
      BY <1>5, <2>3 DEF EndCompleted, Answer
    <3>2. Tale("Operation", <<>>)
      BY <1>2, <1>3, <2>1, <2>3, <3>1, NoEvent, Names
    <3> QED
      BY <3>2, NoEvent DEF Kinds
  <2> QED
    BY <2>2, <2>3
<1>6. CASE EndTimedOut
  <2>1. /\ result'.kind = "AttemptTimeout"
        /\ events' = events \o (Event("AttemptTimedOut") \o Event("GaveUp"))
        /\ pc = "timedOut" /\ ends[attempt] = "timeout"
    BY <1>6 DEF EndTimedOut, Answer, Heard
  <2>2. attempt \in DOMAIN ends
    BY <2>1, PlanType DEF Shape, Between, TypeOK
  <2>3. /\ Event("AttemptTimedOut") \in Seq(Notices)
        /\ Quiet(Event("AttemptTimedOut")) /\ Truthful(Event("AttemptTimedOut"))
        /\ \A what, n : Contains(Event("AttemptTimedOut"), what, n)
                           <=> what = "AttemptTimedOut" /\ n = attempt
    BY <2>1, <2>2, Names, OneEvent, EventType DEF Notices
  <2>4. Tale("AttemptTimeout", Event("AttemptTimedOut"))
    BY <2>1, <2>3, Names
  <2> QED
    BY <2>3, <2>4 DEF Kinds
<1>7. CASE EndElapsed \/ BudgetDenies
  <2>1. /\ Retryable
        /\ \/ /\ result'.kind \in {"AttemptTimeout", "Operation"}
              /\ events' = events \o (Report \o Event("GaveUp"))
           \/ /\ result'.kind = "RetryBudgetExhausted"
              /\ events' = events \o (Report \o Event("RetryBudgetExhausted"))
    BY <1>7 DEF EndElapsed, BudgetDenies, Answer
  <2>2. /\ Report \in Seq(Notices) /\ Quiet(Report) /\ Truthful(Report)
        /\ ends[attempt] = "timeout"
              => Contains(Report, "AttemptTimedOut", attempt)
        /\ \A n : ~Contains(Report, "RetryScheduled", n)
    BY <2>1, ReportSays
  <2>3. /\ Tale(result'.kind, Report)
        /\ result'.kind \in {"AttemptTimeout", "Operation", "RetryBudgetExhausted"}
    BY <2>1, <2>2, Names
  <2> QED
    BY <2>2, <2>3 DEF Kinds
<1> QED
  BY <1>4, <1>5, <1>6, <1>7 DEF AnswerStep

\* What a turned away call is told: nothing, or that it was.
LEMMA RejectTells ==
    ASSUME TypeOK, Shape, Reject \/ GateRejects
    PROVE  \E kind \in {"ConcurrencyRejected", "CircuitOpen"},
              t \in {<<>>, Event("ConcurrencyRejected")} :
              /\ result'.kind = kind /\ events' = events \o t
              /\ kind = "ConcurrencyRejected" <=> t = Event("ConcurrencyRejected")
              /\ pc' = "vote" => kind = "ConcurrencyRejected"
              /\ pc \in {"acquire", "queued", "gate"} /\ pc' \in {"vote", "done"}
              /\ UNCHANGED <<plan, ends, attempt, vote>>
<1>1. Event("ConcurrencyRejected") # <<>>
  BY DEF Event
<1> QED
  BY <1>1 DEF Reject, GateRejects, Answer, AnswerEarly, progress, history, attempts

\* The hook stays up to date.
LEMMA HeardNext ==
    ASSUME TypeOK, TypeOK', Shape, Shape', Heard, [Next]_vars
    PROVE  Heard'
<1> USE PlanType DEF progress, answer, attempts, history
<1>0. /\ events \in Seq(Notices) /\ ends \in Seq({"ok", "error", "timeout"})
      /\ attempt \in Nat \ {0}
  BY DEF TypeOK, Notices
\* A step that says nothing, and ends no attempt.
<1>1. CASE \/ Acquired \/ Enqueue \/ StartAttempt \/ FirstPend
           \/ TotalTimedOut \/ WakeUp \/ Drop
  <2>1. /\ UNCHANGED <<events, ends, attempt>>
        /\ pc \notin {"completed", "timedOut"} /\ pc' # "timedOut"
    BY <1>1 DEF Acquired, Admitted, Enqueue, StartAttempt,
                FirstPend, TotalTimedOut, WakeUp, Drop, Waits
  <2>2. /\ pc' \in BackingOff => pc \in BackingOff
        /\ pc' \in Scheduled => pc \in Scheduled
        /\ pc' \in Unscheduled => pc \in Unscheduled
    BY <1>1 DEF Acquired, Admitted, Enqueue, StartAttempt,
                FirstPend, TotalTimedOut, WakeUp, Drop, Waits, BackingOff,
                Scheduled, Unscheduled, Entering, Attempting
  <2> QED
    BY <2>1, <2>2, SilentHeard
<1>2. ASSUME NEW j \in Jittered, Backoff(j) PROVE Heard'
  BY <1>2, SilentHeard DEF Backoff, BackingOff, Scheduled, Unscheduled
<1>3. CASE Tick \/ UNCHANGED vars
  BY <1>3, SilentHeard DEF Tick, vars
<1>4. CASE GateAdmits
  <2>1. PICK t \in {<<>>, Event("HalfOpen")} : events' = events \o t
    BY <1>0, <1>4, NoEvent DEF GateAdmits
  <2>2. /\ t \in Seq(Notices) /\ Truthful(t)
        /\ \A n : ~Contains(t, "RetryScheduled", n)
    <3>1. CASE t = <<>>
      BY <3>1, NoEvent
    <3>2. CASE t = Event("HalfOpen")
      BY <3>2, PlainEvent
    <3> QED
      BY <2>1, <3>1, <3>2
  <2>3. /\ UNCHANGED <<ends, attempt>> /\ pc = "gate" /\ pc' \in {"acquire", "ready"}
    BY <1>4 DEF GateAdmits, LoopHead
  <2>4. \A n : ~Pending(n)
    BY <2>3 DEF Pending
  <2> HIDE DEF progress, answer, attempts, history
  <2> QED
    BY <2>1, <2>2, <2>3, <2>4, ToldHeard
       DEF BackingOff, Scheduled, Unscheduled, Entering
<1>5. CASE Vote
  <2>1. PICK t \in Transitions(vote') : events' = events \o t
    BY <1>5 DEF Vote
  <2>2. t \in Seq(Notices) /\ t \in {<<>>, Event("Closed"), Event("Open")}
    BY TransitionsType
  <2>3. Truthful(t) /\ \A n : ~Contains(t, "RetryScheduled", n)
    <3>1. {"Closed", "Open"} \subseteq EventNames
      BY DEF EventNames
    <3> QED
      BY <2>2, <3>1, NoEvent, OneEvent
  <2>4. UNCHANGED <<ends, attempt>> /\ pc = "vote" /\ pc' = "done"
    BY <1>5 DEF Vote
  <2> QED
    BY <2>1, <2>2, <2>3, <2>4, AnswerHeard
<1>6. CASE Reject \/ GateRejects
  <2>1. PICK kind \in {"ConcurrencyRejected", "CircuitOpen"},
             t \in {<<>>, Event("ConcurrencyRejected")} :
           /\ events' = events \o t
           /\ pc \in {"acquire", "queued", "gate"} /\ pc' \in {"vote", "done"}
           /\ UNCHANGED <<ends, attempt>>
    BY <1>6, RejectTells
  <2>2. /\ t \in Seq(Notices) /\ Truthful(t)
        /\ \A n : ~Contains(t, "RetryScheduled", n)
    <3>1. CASE t = <<>>
      BY <3>1, NoEvent
    <3>2. CASE t = Event("ConcurrencyRejected")
      <4>1. "ConcurrencyRejected" \in EventNames
        BY DEF EventNames
      <4> QED
        BY <3>2, <4>1, OneEvent, EventType DEF Notices
    <3> QED
      BY <2>1, <3>1, <3>2
  <2> QED
    BY <2>1, <2>2, AnswerHeard
\* An attempt that ends is pending.
<1>7. ASSUME NEW how \in {"ok", "error", "timeout"},
             ends' = Append(ends, how),
             UNCHANGED <<events, attempt>>,
             pc \in {"polling", "running"},
             pc' \in {"completed", "timedOut"},
             pc' = "timedOut" => how = "timeout"
      PROVE  Heard'
  <2>0. Len(ends) = attempt - 1
    BY <1>7 DEF Shape, Attempting
  <2>1. /\ Len(ends') = attempt /\ ends'[attempt] = how
        /\ DOMAIN ends' = 1..attempt /\ DOMAIN ends = 1..(attempt - 1)
        /\ \A i \in DOMAIN ends : i \in DOMAIN ends' /\ ends'[i] = ends[i]
    BY <1>0, <1>7, <2>0, AppendProperties
  <2>2. \A n \in DOMAIN ends' \ {attempt} : n \in DOMAIN ends /\ n < attempt
    BY <1>0, <2>1
  <2>3. \A n : Pending(n)' <=> n = attempt
    BY <1>7 DEF Pending
  <2>4. \A n : ~Pending(n)
    BY <1>7 DEF Pending
  <2>5. Truthful(events)'
    <3>1. Truthful(events) /\ events' = events
      BY <1>7 DEF Heard
    <3> QED
      BY <2>1, <3>1 DEF Truthful
  <2>6. ASSUME NEW n \in DOMAIN ends', ends'[n] = "timeout", ~(Pending(n)')
        PROVE  Contains(events, "AttemptTimedOut", n)
    BY <2>1, <2>2, <2>3, <2>4, <2>6 DEF Heard
  <2>7. ASSUME NEW n \in DOMAIN ends', ends'[n] = "error",
               n < attempt \/ pc' \in BackingOff
        PROVE  Contains(events, "AttemptFailed", n)
    <3>1. n \in DOMAIN ends /\ n < attempt
      BY <1>0, <1>7, <2>2, <2>7 DEF BackingOff
    <3> QED
      BY <2>1, <2>7, <3>1 DEF Heard
  <2>8. (pc = "timedOut" => ends[attempt] = "timeout")'
    BY <1>7, <2>1
  <2>9. pc \in Unscheduled /\ pc' \notin Scheduled
    BY <1>7 DEF Unscheduled, Attempting, Scheduled
  <2> QED
    BY <1>7, <2>5, <2>6, <2>7, <2>8, <2>9 DEF Heard, Contains
<1>8. ASSUME NEW o \in Outcomes, Completed(o) PROVE Heard'
  BY <1>7, <1>8 DEF Completed
<1>9. CASE AttemptTimedOut
  BY <1>7, <1>9 DEF AttemptTimedOut
<1>10. CASE EndAsleep
  <2>1. /\ events' = events \o <<>> /\ pc = "slept" /\ pc' = "vote"
        /\ UNCHANGED <<ends, attempt>>
    BY <1>10 DEF EndAsleep, Answer
  <2> QED
    BY <2>1, NoEvent, AnswerHeard
<1>11. CASE AnswerStep /\ ~EndAsleep
  <2>1. pc' = "vote" /\ UNCHANGED ends
    BY <1>11, AnswerStepEffect
  <2>2. UNCHANGED attempt
    BY <1>11 DEF AnswerStep, EndExpired, EndCompleted, EndTimedOut, EndElapsed,
                 BudgetDenies, EndOvershoot
  <2>3. PICK kind \in Kinds \ {"CircuitOpen"}, s \in Seq(Notices) :
           /\ events' = events \o (s \o Event(Conclusion(kind)))
           /\ Truthful(s)
           /\ pc \in {"completed", "timedOut"} /\ ends[attempt] = "timeout"
                 => Contains(s, "AttemptTimedOut", attempt)
           /\ \A n : ~Contains(s, "RetryScheduled", n)
    BY <1>11, AnswerTells
  <2> DEFINE e == Event(Conclusion(kind))
             t == s \o e
  <2>4. /\ e \in Seq(Notices) /\ Truthful(e)
        /\ \A n : ~Contains(e, "RetryScheduled", n)
    <3>1. /\ Conclusion(kind) \in EventNames
          /\ Conclusion(kind) \notin
                {"AttemptTimedOut", "AttemptFailed", "RetryScheduled"}
      BY Names
    <3> QED
      BY <3>1, OneEvent, EventType DEF Notices
  <2>5. events' = events \o t
    BY <2>3
  <2> HIDE DEF e
  <2>6. /\ t \in Seq(Notices) /\ Truthful(t)
        /\ Contains(s, "AttemptTimedOut", attempt)
              => Contains(t, "AttemptTimedOut", attempt)
        /\ \A n : ~Contains(t, "RetryScheduled", n)
    BY <2>3, <2>4, Telling
  <2> HIDE DEF t
  <2> QED
    BY <2>1, <2>2, <2>3, <2>5, <2>6, AnswerHeard
\* The report of a retry settles the attempt that was pending.
<1>12. CASE Retry
  <2>1. /\ Retryable /\ pc' = "backoff" /\ events' = events \o Report
        /\ UNCHANGED <<attempt, ends>>
        /\ pc \in {"completed", "timedOut"}
    BY <1>12 DEF Retry, Retryable
  <2>2. /\ Report \in Seq(Notices) /\ Truthful(Report)
        /\ ends[attempt] = "timeout" => Contains(Report, "AttemptTimedOut", attempt)
        /\ ends[attempt] = "error" => Contains(Report, "AttemptFailed", attempt)
        /\ \A n : ~Contains(Report, "RetryScheduled", n)
        /\ Len(ends) = attempt
    BY <2>1, ReportSays
  <2>3. \A n \in DOMAIN ends : Pending(n) /\ ends[n] = "timeout"
           => Contains(Report, "AttemptTimedOut", n)
    BY <2>2 DEF Pending
  <2>4. pc' \notin Scheduled /\ pc \in Unscheduled
    BY <2>1 DEF Scheduled, Unscheduled
  <2> QED
    BY <2>1, <2>2, <2>3, <2>4, ToldHeard
<1>13. CASE Schedule
  <2> DEFINE e == Event("RetryScheduled")
  <2>1. /\ pc = "capping" /\ pc' \in Scheduled
        /\ events' = events \o e
        /\ UNCHANGED <<attempt, ends>>
    BY <1>13 DEF Schedule, Scheduled
  <2>2. /\ e \in Seq(Notices) /\ Truthful(e)
        /\ \A n : Contains(e, "RetryScheduled", n) <=> n = attempt
    BY PlainEvent
  <2> HIDE DEF e
  <2>3. pc' # "timedOut" /\ pc \in BackingOff /\ pc' \notin Unscheduled
    BY <2>1 DEF Scheduled, Unscheduled, BackingOff, Entering, Attempting
  <2>4. \A n : ~Pending(n)
    BY <2>1 DEF Pending
  <2> QED
    BY <2>1, <2>2, <2>3, <2>4, ToldHeard
<1>14. CASE NextAttempt
  <2>1. /\ pc = "slept" /\ pc' \in {"acquire", "ready"} /\ attempt' = attempt + 1
        /\ UNCHANGED <<events, ends>>
    BY <1>14 DEF NextAttempt, LoopHead
  <2>2. Len(ends) = attempt /\ DOMAIN ends = 1..attempt
    BY <1>0, <2>1 DEF Shape, Between, BackingOff
  <2>3. Truthful(events)'
    BY <2>1 DEF Heard, Truthful
  <2>4. ASSUME NEW n \in DOMAIN ends, ends[n] = "timeout"
        PROVE  Contains(events, "AttemptTimedOut", n)
    BY <2>1, <2>4 DEF Heard, Pending
  <2>5. ASSUME NEW n \in DOMAIN ends, ends[n] = "error"
        PROVE  Contains(events, "AttemptFailed", n)
    BY <2>1, <2>5 DEF Heard, BackingOff
  <2>6. \A n \in 1..attempt : Contains(events, "RetryScheduled", n)
    <3>1. Contains(events, "RetryScheduled", attempt)
      BY <2>1 DEF Heard, Scheduled
    <3>2. \A n \in 1..attempt : n = attempt \/ n \in 1..(attempt - 1)
      BY <1>0
    <3> QED
      BY <3>1, <3>2 DEF Heard
  <2>7. \A n \in Nat : Contains(events, "RetryScheduled", n) => n < attempt + 1
    BY <1>0 DEF Heard
  <2>8. pc' # "timedOut" /\ pc' \notin Scheduled
    BY <2>1 DEF Scheduled
  <2>9. /\ \A n \in 1..(attempt' - 1) : Contains(events, "RetryScheduled", n)
        /\ \A n \in Nat : Contains(events, "RetryScheduled", n)
              => n <= attempt' /\ n < attempt'
    BY <1>0, <2>1, <2>6, <2>7
  <2> QED
    BY <2>1, <2>3, <2>4, <2>5, <2>8, <2>9 DEF Heard, Contains
<1> QED
  BY <1>1, <1>2, <1>3, <1>4, <1>5, <1>6, <1>8, <1>9, <1>10, <1>11, <1>12, <1>13,
     <1>14
     DEF Next, Acquire, Gate, Poll, Judge, BackOff, Ended, AnswerStep
-----------------------------------------------------------------------------
(* The story of the end.                                                    *)

\* No step spoils the story.
LEMMA StoryNext ==
    ASSUME TypeOK, TypeOK', Shape, Shape', Heard, Story, [Next]_vars
    PROVE  Story'
<1> USE DEF progress, answer, attempts, history
<1>0. events \in Seq(Notices) /\ events' \in Seq([name : EventNames,
                                                   attempt : 0..plan'.maxAttempts])
  BY DEF TypeOK, Notices
\* Nothing of the end is told.
<1>1. ASSUME NEW t \in Seq(Notices), Quiet(t), events' = events \o t,
             pc \notin {"vote", "done"}, pc' \notin {"vote", "done"},
             UNCHANGED vote
      PROVE  Story'
  <2>1. Quiet(events')
    BY <1>0, <1>1, Telling DEF Story
  <2>2. Quiet(events)'
    BY <2>1 DEF Quiet
  <2>3. vote' = "none"
    BY <1>1 DEF Story
  <2> QED
    BY <1>1, <2>2, <2>3 DEF Story
<1>2. ASSUME UNCHANGED <<events, vote>>,
             pc \notin {"vote", "done"}, pc' \notin {"vote", "done"}
      PROVE  Story'
  BY <1>0, <1>1, <1>2, NoEvent
<1>3. CASE \/ Acquired \/ Enqueue \/ StartAttempt \/ FirstPend \/ AttemptTimedOut
           \/ TotalTimedOut \/ WakeUp \/ NextAttempt \/ Drop
  BY <1>2, <1>3 DEF Acquired, Admitted, Enqueue, StartAttempt, FirstPend, Waits,
     AttemptTimedOut, TotalTimedOut, WakeUp, NextAttempt, LoopHead, Drop
<1>4. ASSUME NEW o \in Outcomes, Completed(o) PROVE Story'
  BY <1>2, <1>4 DEF Completed
<1>5. ASSUME NEW j \in Jittered, Backoff(j) PROVE Story'
  BY <1>2, <1>5 DEF Backoff
<1>6. CASE Tick \/ UNCHANGED vars
  <2>1. UNCHANGED <<plan, pc, events, result, vote, attempt, ends>>
    BY <1>6 DEF Tick, vars
  <2>2. Quiet(events) => Quiet(events)'
    BY <2>1 DEF Quiet
  <2>3. \A s, kind : Concluded(s, kind) => Concluded(s, kind)'
    BY <2>1 DEF Concluded, Closing, Contains
  <2>4. \A ballot : Transitions(ballot)' = Transitions(ballot)
    BY <2>1 DEF Transitions, Event
  <2>5. Cast' = Cast
    BY <2>1 DEF Cast, Ballot, IsTimeout
  <2>6. pc = "vote" => Concluded(events, result.kind)'
    BY <2>1, <2>3 DEF Story
  <2>7. pc = "done" =>
           /\ vote = Cast
           /\ \E s \in Seq([name : EventNames, attempt : 0..plan.maxAttempts]) :
                 /\ \E t \in Transitions(vote) : events = s \o t
                 /\ Concluded(s, result.kind)
    BY DEF Story
  <2>8. (pc = "done" =>
           /\ vote = Cast
           /\ \E s \in Seq([name : EventNames, attempt : 0..plan.maxAttempts]) :
                 /\ \E t \in Transitions(vote) : events = s \o t
                 /\ Concluded(s, result.kind))'
    BY <2>1, <2>3, <2>4, <2>5, <2>7
  <2> QED
    BY <2>1, <2>2, <2>6, <2>8 DEF Story
<1>7. CASE GateAdmits
  <2>1. PICK t \in {<<>>, Event("HalfOpen")} : events' = events \o t
    BY <1>0, <1>7, NoEvent DEF GateAdmits
  <2>2. t \in Seq(Notices) /\ Quiet(t)
    <3>1. CASE t = <<>>
      BY <3>1, NoEvent
    <3>2. CASE t = Event("HalfOpen")
      BY <3>2, PlainEvent
    <3> QED
      BY <2>1, <3>1, <3>2
  <2> QED
    BY <1>1, <1>7, <2>1, <2>2 DEF GateAdmits, LoopHead
<1>8. CASE Retry
  <2>1. /\ Retryable /\ pc' = "backoff" /\ events' = events \o Report
        /\ pc \in {"completed", "timedOut"} /\ UNCHANGED vote
    BY <1>8 DEF Retry, Retryable
  <2>2. Report \in Seq(Notices) /\ Quiet(Report)
    BY <2>1, ReportSays
  <2> QED
    BY <1>1, <2>1, <2>2
<1>9. CASE Schedule
  <2>1. Event("RetryScheduled") \in Seq(Notices) /\ Quiet(Event("RetryScheduled"))
    BY PlainEvent
  <2> QED
    BY <1>1, <1>9, <2>1 DEF Schedule
\* The answer is told.
<1>10. CASE EndAsleep
  <2>1. /\ events' = events /\ result'.kind = "TotalTimeout"
        /\ pc = "slept" /\ pc' = "vote" /\ UNCHANGED <<ends, attempt, vote>>
    BY <1>0, <1>10, NoEvent DEF EndAsleep, Answer
  <2>2. Quiet(events) /\ vote = "none"
        /\ Contains(events, "RetryScheduled", attempt)
    BY <2>1 DEF Story, Heard, Scheduled
  <2>3. Concluded(events, "TotalTimeout")
    BY <2>2, ConcludingSilently DEF Kinds
  <2> QED
    BY <2>1, <2>2, <2>3, AnswerStory
<1>11. CASE AnswerStep /\ ~EndAsleep
  <2>1. /\ pc \in Between \cup {"expired"} /\ pc' = "vote" /\ UNCHANGED ends
    BY <1>11, AnswerStepEffect
  <2>2. UNCHANGED <<attempt, vote>>
    BY <1>11 DEF AnswerStep, EndExpired, EndCompleted, EndTimedOut, EndElapsed,
                 BudgetDenies, EndOvershoot
  <2>3. PICK kind \in Kinds \ {"CircuitOpen"}, s \in Seq(Notices) :
           /\ result'.kind = kind
           /\ events' = events \o (s \o Event(Conclusion(kind)))
           /\ Quiet(s)
           /\ \A n : ~Contains(s, "RetryScheduled", n)
           /\ kind = "TotalTimeout" => pc \in {"expired", "backoff"}
           /\ kind = "Ok" => ends[attempt] = "ok"
    BY <1>11, AnswerTells
  <2>4. Quiet(events) /\ vote = "none"
    BY <2>1 DEF Story, Between, BackingOff
  <2>5. pc \in {"expired", "backoff"} => ~Contains(events, "RetryScheduled", attempt)
    BY PlanType DEF Heard, Unscheduled, Attempting, TypeOK
  <2>6. Concluded(events', kind)
    BY <2>3, <2>4, <2>5, Concluding
  <2> QED
    BY <2>1, <2>2, <2>3, <2>4, <2>6, AnswerStory
<1>12. CASE Reject \/ GateRejects
  <2>1. PICK kind \in {"ConcurrencyRejected", "CircuitOpen"},
             t \in {<<>>, Event("ConcurrencyRejected")} :
           /\ result'.kind = kind /\ events' = events \o t
           /\ kind = "ConcurrencyRejected" <=> t = Event("ConcurrencyRejected")
           /\ pc \in {"acquire", "queued", "gate"} /\ pc' \in {"vote", "done"}
           /\ UNCHANGED <<plan, ends, attempt, vote>>
    BY <1>12, RejectTells
  <2>2. Quiet(events) /\ vote = "none" /\ kind \in Kinds
    BY <2>1 DEF Story, Kinds
  <2>3. Concluded(events', kind)
    <3>1. CASE kind = "CircuitOpen"
      <4>1. events' = events
        BY <1>0, <2>1, <3>1, NoEvent
      <4> QED
        BY <2>2, <3>1, <4>1, ConcludingSilently
    <3>2. CASE kind = "ConcurrencyRejected"
      <4> DEFINE e == Event("ConcurrencyRejected")
      <4>1. e \in Seq(Notices)
        BY EventType DEF EventNames, Notices
      <4>2. events' = events \o (<<>> \o Event(Conclusion(kind)))
        BY <2>1, <3>2, <4>1, Names, ConcatEmptySeq
      <4> QED
        BY <2>2, <3>2, <4>2, NoEvent, Concluding
    <3> QED
      BY <2>1, <3>1, <3>2
  <2>4. CASE pc' = "vote"
    BY <2>1, <2>2, <2>3, <2>4, AnswerStory
  <2>5. CASE pc' = "done"
    <3>1. Cast' = "none"
      BY <2>1 DEF Cast, Ballot, IsTimeout
    <3>2. events' = events' \o <<>> /\ <<>> \in Transitions(vote)'
      BY <1>0, ConcatEmptySeq DEF Transitions
    <3>3. Concluded(events, result.kind)'
      BY <2>1, <2>3 DEF Concluded, Closing, Contains
    <3> QED
      BY <1>0, <2>1, <2>2, <2>5, <3>1, <3>2, <3>3 DEF Story
  <2> QED
    BY <2>1, <2>4, <2>5
\* The vote.
<1>13. CASE Vote
  <2>1. PICK t \in Transitions(vote') : events' = events \o t
    BY <1>13 DEF Vote
  <2>2. /\ pc = "vote" /\ pc' = "done" /\ vote' = Cast
        /\ UNCHANGED <<plan, result, ends, attempt>>
    BY <1>13 DEF Vote, Cast
  <2>3. Concluded(events, result.kind)
    BY <2>2 DEF Story
  <2>4. \A s, kind : Concluded(s, kind) => Concluded(s, kind)'
    BY <2>2 DEF Concluded, Closing, Contains
  <2>5. Transitions(vote') = Transitions(vote)'
    BY <2>2 DEF Transitions, Event
  <2>6. Cast' = Cast
    BY <2>2 DEF Cast, Ballot, IsTimeout
  <2>7. events \in Seq([name : EventNames, attempt : 0..plan'.maxAttempts])
    BY <1>0, <2>2 DEF Notices
  <2>8. (\E s \in Seq([name : EventNames, attempt : 0..plan.maxAttempts]) :
            /\ \E u \in Transitions(vote) : events = s \o u
            /\ Concluded(s, result.kind))'
    BY <2>1, <2>2, <2>3, <2>4, <2>5, <2>7
  <2> QED
    BY <2>2, <2>6, <2>8 DEF Story
<1> QED
  BY <1>3, <1>4, <1>5, <1>6, <1>7, <1>8, <1>9, <1>10, <1>11, <1>12, <1>13
     DEF Next, Acquire, Gate, Poll, Judge, BackOff, Ended, AnswerStep
-----------------------------------------------------------------------------
(* The invariant, and what follows from it.                                 *)

LEMMA NextIInv == IInv /\ [Next]_vars => IInv'
<1> SUFFICES ASSUME IInv, [Next]_vars PROVE IInv'
  OBVIOUS
<1>1. TypeOK'
  BY TypeNext DEF IInv
<1>2. Shape'
  BY <1>1, ShapeNext DEF IInv
<1>3. PermitForWorkOnly'
  BY PermitNext DEF IInv
<1>4. Timely'
  BY <1>1, TimelyNext DEF IInv
<1>5. Patient'
  BY <1>1, PatientNext DEF IInv
<1>6. Heard'
  BY <1>1, <1>2, HeardNext DEF IInv
<1>7. Story'
  BY <1>1, <1>2, StoryNext DEF IInv
<1> QED
  BY <1>1, <1>2, <1>3, <1>4, <1>5, <1>6, <1>7 DEF IInv

LEMMA Invariance == Spec => []IInv
  BY InitIInv, NextIInv, PTL DEF Spec

\* Every variable of a call keeps its type (run_pipeline and drive).
THEOREM EngineTypeOK == Spec => []TypeOK
<1>1. IInv => TypeOK
  BY DEF IInv
<1> QED
  BY <1>1, Invariance, PTL

\* Under every plan a permit of the attempts scope is held for the operation
\* alone and one of the operations scope until run_pipeline returns: never
\* across a backoff, a rejection or a drop of the future.
THEOREM PermitForWorkOnlyHolds == Spec => []PermitForWorkOnly
<1>1. IInv => PermitForWorkOnly
  BY DEF IInv
<1> QED
  BY <1>1, Invariance, PTL

\* No plan makes a call outlive its total deadline, nor an attempt its timeout,
\* by more than the executor is late: every await of acquire_permit and drive
\* carries the deadline, and the backoff is capped at what is left of it.
THEOREM DeadlinesHonouredHolds == Spec => []DeadlinesHonoured
<1>1. IInv => DeadlinesHonoured
  BY DEF IInv, Timely, DeadlinesHonoured
<1> QED
  BY <1>1, Invariance, PTL

\* Under every plan the hook of a call that is over has heard, each under the
\* number of its attempt, of exactly the attempts that timed out, of every error
\* that was retried and of no other, and of every retry: no path of drive drops
\* a report or makes one up.
THEOREM AttemptsToldHolds == Spec => []AttemptsTold
<1>1. ASSUME IInv, pc = "done" PROVE AttemptsTold
  <2>1. \A what, n : Tells(what, n) <=> Contains(events, what, n)
    BY DEF Tells, Contains
  <2>2. \A n : ~Pending(n)
    BY <1>1 DEF Pending
  <2>3. ASSUME NEW n, Contains(events, "AttemptTimedOut", n)
        PROVE  n \in DOMAIN ends /\ ends[n] = "timeout"
    <3>1. PICK i \in DOMAIN events :
             events[i] = [name |-> "AttemptTimedOut", attempt |-> n]
      BY <2>3 DEF Contains
    <3>2. events[i].name = "AttemptTimedOut" /\ events[i].attempt = n
      BY <3>1
    <3> QED
      BY <1>1, <3>2 DEF IInv, Heard, Truthful
  <2>4. ASSUME NEW n, Contains(events, "AttemptFailed", n)
        PROVE  n \in DOMAIN ends /\ ends[n] = "error"
    <3>1. PICK i \in DOMAIN events :
             events[i] = [name |-> "AttemptFailed", attempt |-> n]
      BY <2>4 DEF Contains
    <3>2. events[i].name = "AttemptFailed" /\ events[i].attempt = n
      BY <3>1
    <3> QED
      BY <1>1, <3>2 DEF IInv, Heard, Truthful
  <2>5. ASSUME NEW n \in DOMAIN ends, ends[n] = "timeout"
        PROVE  Contains(events, "AttemptTimedOut", n)
    BY <1>1, <2>2, <2>5 DEF IInv, Heard
  <2>6. ASSUME NEW n \in 1..(attempt - 1)
        PROVE  /\ Contains(events, "RetryScheduled", n)
               /\ ends[n] = "error" => Contains(events, "AttemptFailed", n)
    <3>1. attempt \in Nat \ {0} /\ ends \in Seq({"ok", "error", "timeout"})
      BY <1>1, PlanType DEF IInv, TypeOK
    <3>2. n \in Nat /\ 1 <= n /\ n <= attempt - 1 /\ n < attempt
      BY <2>6, <3>1
    <3>3. n \in DOMAIN ends
      <4>1. Len(ends) \in {attempt - 1, attempt} /\ DOMAIN ends = 1..Len(ends)
        BY <1>1, <3>1 DEF IInv, Shape
      <4>2. attempt - 1 <= Len(ends)
        <5> DEFINE m == Len(ends)
        <5>1. m = attempt - 1 \/ m = attempt
          BY <4>1
        <5> HIDE DEF m
        <5>2. attempt - 1 <= m
          BY <3>1, <5>1
        <5> QED
          BY <5>2 DEF m
      <4>3. n \in 1..Len(ends)
        <5>1. Len(ends) \in Nat
          BY <3>1
        <5> QED
          BY <3>1, <3>2, <4>2, <5>1
      <4> QED
        BY <4>1, <4>3
    <3> QED
      BY <1>1, <3>2, <3>3 DEF IInv, Heard
  <2> QED
    BY <2>1, <2>3, <2>4, <2>5, <2>6 DEF AttemptsTold
<1>2. IInv => AttemptsTold
  BY <1>1 DEF AttemptsTold
<1> QED
  BY <1>2, Invariance, PTL

\* Under every plan the hook, the breaker and the caller of a call that is over
\* were told the same story: one end, that of the answer, or none for the two
\* silent answers, after it nothing but the change of the circuit that the vote
\* makes, and a vote that agrees with the answer (drive and run_pipeline).
THEOREM EndToldHolds == Spec => []EndTold
<1>1. ASSUME IInv, pc = "done" PROVE EndTold
  <2> DEFINE what == Conclusion(result.kind)
  <2>1. /\ vote = Cast
        /\ \E s \in Seq(Notices) :
              /\ \E t \in Transitions(vote) : events = s \o t
              /\ Concluded(s, result.kind)
    BY <1>1 DEF IInv, Story, Notices
  <2>2. PICK s \in Seq(Notices), t \in Transitions(vote) :
           events = s \o t /\ Concluded(s, result.kind)
    BY <2>1
  <2>3. /\ t \in Seq(Notices) /\ t \in {<<>>, Event("Closed"), Event("Open")}
        /\ t = Event("Closed") => vote = "success"
        /\ t = Event("Open") => vote = "failure"
    <3>1. Event("Closed") # Event("Open") /\ <<>> # Event("Closed")
          /\ <<>> # Event("Open")
      BY DEF Event
    <3> QED
      BY <1>1, <3>1, TransitionsType DEF IInv, Transitions
  <2>4. result.kind \in Kinds /\ what \in Terminal /\ what \notin Changes
    <3>1. result \in Results
      BY <1>1 DEF IInv, TypeOK, Shape, Option
    <3> QED
      BY <3>1, Names DEF Results
  <2>5. \A name, n : Tells(name, n) <=> Contains(s, name, n) \/ Contains(t, name, n)
    <3>1. \A name, n : Tells(name, n) <=> Contains(s \o t, name, n)
      BY <2>2 DEF Tells, Contains
    <3> QED
      BY <2>3, <3>1, Telling
  <2>6. ASSUME NEW name, name \notin Changes, NEW n PROVE ~Contains(t, name, n)
    <3>1. {"Closed", "Open"} \subseteq EventNames /\ {"Closed", "Open"} = Changes
      BY DEF EventNames, Changes
    <3> QED
      BY <2>3, <2>6, <3>1, NoEvent, OneEvent
  <2>7. ASSUME NEW i \in DOMAIN events, events[i].name \in Terminal
        PROVE  /\ events[i] = [name |-> what, attempt |-> attempt]
               /\ \A j \in (i + 1)..Len(events) : events[j].name \in Changes
    <3>1. /\ \A k \in DOMAIN events :
                \/ k \in DOMAIN s /\ events[k] = s[k]
                \/ k - Len(s) \in DOMAIN t /\ events[k] = t[k - Len(s)]
          /\ Len(events) = Len(s) + Len(t)
          /\ Len(s) \in Nat /\ Len(t) \in Nat
          /\ DOMAIN s = 1..Len(s) /\ DOMAIN t = 1..Len(t)
      BY <2>2, <2>3, ConcatCases
    <3>2. \A k \in DOMAIN t : t[k].name \in Changes
      <4>1. \A name \in Changes : /\ DOMAIN Event(name) = {1}
                                  /\ Event(name)[1].name = name
        BY DEF Event
      <4> QED
        BY <2>3, <4>1 DEF Changes
    <3>3. i \in DOMAIN s /\ events[i] = s[i]
      BY <2>7, <3>1, <3>2, Names
    <3>4. i = Len(s) /\ s[i] = [name |-> what, attempt |-> attempt]
      BY <2>2, <2>7, <3>3 DEF Concluded, Closing
    <3>5. ASSUME NEW j \in (i + 1)..Len(events)
          PROVE  events[j].name \in Changes
      <4>1. j \in DOMAIN events /\ j \notin DOMAIN s
        <5>1. DOMAIN events = 1..Len(events)
          BY <1>1 DEF IInv, TypeOK
        <5> QED
          BY <3>1, <3>3, <3>4, <5>1
      <4> QED
        BY <3>1, <3>2, <4>1
    <3> QED
      BY <3>3, <3>4, <3>5
  <2>8. Tells(what, attempt) <=> ~Silent
    <3>1. "RetryScheduled" \notin Changes
      BY Names
    <3>2. Tells(what, attempt) <=> Contains(s, what, attempt)
      BY <2>4, <2>5, <2>6
    <3>3. Tells("RetryScheduled", attempt) <=> Contains(s, "RetryScheduled", attempt)
      BY <2>5, <2>6, <3>1
    <3> QED
      BY <2>2, <3>2, <3>3 DEF Concluded, Silent
  <2>9. ASSUME Tells("Succeeded", attempt) PROVE result.kind = "Ok"
    <3>1. PICK i \in DOMAIN events :
             events[i] = [name |-> "Succeeded", attempt |-> attempt]
      BY <2>9 DEF Tells
    <3>2. events[i].name = "Succeeded" /\ "Succeeded" \in Terminal
      BY <3>1 DEF Terminal
    <3>3. events[i] = [name |-> what, attempt |-> attempt]
      BY <2>7, <3>2
    <3>4. what = "Succeeded"
      BY <3>2, <3>3
    <3> QED
      BY <2>4, <3>4, Names
  <2>10. result.kind = "Ok" => /\ ends[attempt] = "ok"
                               /\ plan.breaker => vote = "success"
    <3>1. result.kind = "Ok" => ends[attempt] = "ok"
      BY <2>2 DEF Concluded
    <3>2. ASSUME result.kind = "Ok" PROVE Ballot = "success"
      <4> HIDE DEF what
      <4> QED
        BY <3>2 DEF Ballot, IsTimeout
    <3> QED
      BY <2>1, <3>1, <3>2 DEF Cast
  <2>11. /\ plan.breaker /\ IsTimeout => vote = "failure"
         /\ result.kind \in {"CircuitOpen", "ConcurrencyRejected",
                             "RetryBudgetExhausted"} => vote = "none"
    BY <2>1 DEF Cast, Ballot, IsTimeout
  <2>12. ASSUME NEW name \in Changes, Tells(name, attempt)
         PROVE  t = Event(name)
    <3>1. ~Contains(s, name, attempt)
      <4>1. Closing(s, what)
        BY <2>2 DEF Concluded
      <4> QED
        BY <2>12, <4>1 DEF Closing, Contains
    <3>2. Contains(t, name, attempt)
      BY <2>5, <2>12, <3>1
    <3>3. {"Closed", "Open"} \subseteq EventNames
      BY DEF EventNames
    <3> QED
      BY <2>3, <3>2, <3>3, NoEvent, OneEvent
  <2>13. /\ Tells("Closed", attempt) => vote = "success"
         /\ Tells("Open", attempt) => vote = "failure"
    BY <2>3, <2>12 DEF Changes
  <2> QED
    BY <2>7, <2>8, <2>9, <2>10, <2>11, <2>13 DEF EndTold
<1>2. IInv => EndTold
  BY <1>1 DEF EndTold
<1> QED
  BY <1>2, Invariance, PTL

\* Under every plan hook, breaker and caller are told the same story of the
\* attempts and of the end of a call (drive and run_pipeline).
THEOREM OneStoryHolds == Spec => []OneStory
  BY AttemptsToldHolds, EndToldHolds, PTL DEF OneStory

\* Whatever jitter draws and wherever the deadline falls, drive starts no
\* attempt before the hint of the error it retries has passed.
THEOREM HintIsFloorHolds == Spec => HintIsFloor
<1>1. IInv /\ [Next]_vars =>
         [pc = "ready" /\ pc' = "polling" => now >= notBefore]_vars
  BY DEF IInv, Patient, TypeOK
<1> QED
  BY <1>1, Invariance, PTL DEF Spec, HintIsFloor

\* Whatever the widths of the integers, the delay that Retry::delay computes is
\* the documented backoff shortened by its jitter alone, or the hint of the
\* error, and never less than the hint, as long as shift and factor fit; past
\* that it is within its max, and without jitter no attempt that did fit is
\* followed by a shorter one.
THEOREM DelayWithinScheduleHolds == Spec => DelayWithinSchedule
<1> DEFINE Raw(n) == Documented(plan.backoff, n)
           Asked == IF Hint = NoValue THEN 0 ELSE Hint
           Kept == /\ delay' <= Longest(plan.backoff) \/ delay' = Asked
                   /\ delay' >= Asked
                   /\ plan.jitter = "none" =>
                         \A n \in 1..attempt : FitsWidth(n) => delay' >= Raw(n)
                   /\ FitsWidth(attempt) =>
                         /\ delay' <= Raw(attempt) \/ delay' = Asked
                         /\ plan.jitter = "equal" /\ Raw(attempt) < NanosRange
                               => delay' >= Raw(attempt) \div 2
<1>1. ASSUME TypeOK, NEW j \in Jittered, Backoff(j)
      PROVE  Kept
  <2> DEFINE d == RawDelay(plan.backoff, attempt)
  <2>1. /\ plan.backoff \in Backoffs /\ plan.jitter \in Jitters
        /\ plan.backoff.max <= MaxDuration
    BY <1>1, EngineAssumption DEF TypeOK, Plan
  <2>2. attempt \in Nat \ {0}
    BY <1>1, PlanType DEF TypeOK
  <2>3. PICK r \in Samples : j = Jitter(plan.jitter, d, r)
    BY <1>1 DEF Jittered
  <2>4. d \in Nat /\ d <= Longest(plan.backoff)
    BY <2>1, <2>2, RawDelayType, RawDelayGrows
  <2>5. ASSUME NEW n \in 1..attempt, FitsWidth(n)
        PROVE  Raw(n) \in Nat /\ Raw(n) <= d
    <3>1. n \in Nat \ {0} /\ n <= attempt
      BY <2>2
    <3>2. Raw(n) = RawDelay(plan.backoff, n)
      BY <2>1, <2>5, <3>1, RawDelayDocumented
    <3> QED
      BY <2>1, <2>2, <3>1, <3>2, RawDelayType, RawDelayGrows
  <2>6. FitsWidth(attempt) => d = Raw(attempt)
    BY <2>1, <2>2, RawDelayDocumented
  <2> HIDE DEF d, Raw
  <2>7. /\ j \in Nat /\ j <= d
        /\ plan.jitter = "none" => j = d
        /\ plan.jitter = "equal" /\ d < NanosRange => j >= d \div 2
    BY <2>1, <2>3, <2>4, JitterBounds
  <2>8. Hint # NoValue => Hint \in Nat
    BY <1>1, OutcomeType DEF TypeOK, Hint, Option, Errors
  <2>9. /\ delay' \in Nat /\ delay' >= j /\ delay' >= Asked
        /\ delay' = j \/ delay' = Asked
    <3>1. delay' = IF Hint # NoValue /\ Hint > j THEN Hint ELSE j
      BY <1>1 DEF Backoff, Delay
    <3> QED
      BY <2>7, <2>8, <3>1
  <2>10. Longest(plan.backoff) \in Nat
    BY <2>1 DEF Longest, Backoffs
  <2> HIDE DEF Asked
  <2>11. delay' <= Longest(plan.backoff) \/ delay' = Asked
    BY <2>4, <2>7, <2>9, <2>10
  <2>12. ASSUME plan.jitter = "none", NEW n \in 1..attempt, FitsWidth(n)
         PROVE  delay' >= Raw(n)
    BY <2>4, <2>5, <2>7, <2>9, <2>12
  <2>13. ASSUME FitsWidth(attempt)
         PROVE  /\ delay' <= Raw(attempt) \/ delay' = Asked
                /\ plan.jitter = "equal" /\ Raw(attempt) < NanosRange
                      => delay' >= Raw(attempt) \div 2
    <3>1. d = Raw(attempt) /\ d \div 2 \in Nat
      BY <2>4, <2>6, <2>13
    <3> QED
      BY <2>4, <2>7, <2>9, <3>1
  <2> QED
    BY <2>9, <2>11, <2>12, <2>13
<1>2. ASSUME TypeOK, [Next]_vars, pc = "backoff", pc' = "capping"
      PROVE  \E j \in Jittered : Backoff(j)
  BY <1>2
     DEF Next, vars, Acquire, Gate, Poll, Judge, BackOff, Ended, Acquired,
         Enqueue, Reject, GateAdmits, GateRejects, StartAttempt, FirstPend,
         AttemptTimedOut, TotalTimedOut, Completed, EndExpired, EndCompleted,
         EndTimedOut, EndElapsed, BudgetDenies, Retry, Retryable, EndOvershoot,
         Schedule, WakeUp, EndAsleep, NextAttempt, Vote, Drop, Tick, Answer
<1>3. TypeOK /\ [Next]_vars =>
         [pc = "backoff" /\ pc' = "capping" => Kept]_vars
  BY <1>1, <1>2
<1> QED
  BY <1>3, EngineTypeOK, PTL DEF Spec, DelayWithinSchedule
-----------------------------------------------------------------------------
(* A call implements the abstract call.                                     *)

\* The refinement mapping.
Phase == IF pc \in {"polling", "running", "expired"} THEN "attempting"
         ELSE IF pc \in Final \/ result # NoValue THEN "over"
         ELSE "between"
Given == IF result = NoValue THEN "none" ELSE result.kind

\* An answer that is earned is an answer of the abstract call.
LEMMA AnswerImplements ==
    ASSUME NEW kind \in Kinds, result' # NoValue, result'.kind = kind,
           pc' \in {"vote", "done"},
           \/ Phase = "between"
           \/ Phase = "attempting" /\ kind = "TotalTimeout",
           UNCHANGED <<plan, ends>>,
           Call!Earned(kind)
    PROVE  Call!Next
<1>1. Phase' = "over" /\ Given' = kind
  BY DEF Phase, Given, Final
<1>2. Call!Answer(kind)
  BY <1>1 DEF Call!Answer, Phase, Given
<1> QED
  BY <1>2 DEF Call!Next, Kinds

\* The answers of drive.
LEMMA AnswerStepImplements ==
    ASSUME IInv, AnswerStep
    PROVE  Call!Next
<1> USE DEF IInv
<1>1. /\ result = NoValue /\ pc' = "vote" /\ UNCHANGED <<plan, ends>>
      /\ pc \in Between \cup {"expired"}
      /\ pc # "expired" => Phase = "between"
      /\ pc = "expired" => Phase = "attempting"
  BY AnswerStepEffect
     DEF Shape, Phase, Between, BackingOff, Final, history, attempts
<1>2. pc \in Between => ends # <<>>
  BY PlanType, EmptySeq DEF Shape, TypeOK
<1> DEFINE Answered(kind) == result' # NoValue /\ result'.kind = kind
<1>3. ASSUME NEW kind \in Kinds, NEW error, NEW emitted,
             error \in Option(Outcomes), Answer(kind, error, emitted)
      PROVE  Answered(kind)
  BY <1>3, PlanType, EngineAssumption DEF Answer, Results, TypeOK
<1>4. CASE EndExpired \/ EndOvershoot \/ EndAsleep
  <2>1. Answered("TotalTimeout")
    BY <1>3, <1>4 DEF EndExpired, EndOvershoot, EndAsleep, Kinds, Option
  <2> QED
    BY <1>1, <2>1, AnswerImplements DEF Call!Earned, Kinds
<1>5. CASE EndCompleted
  <2>1. pc = "completed" /\ returned \in Outcomes /\ Len(ends) = attempt
    BY <1>5 DEF EndCompleted, Shape, Between
  <2>2. CASE returned.ok
    <3>1. Answered("Ok")
      BY <1>3, <1>5, <2>2 DEF EndCompleted, Kinds, Option
    <3>2. Call!Earned("Ok")
      BY <1>2, <2>1, <2>2 DEF Call!Earned, Shape, Between
    <3> QED
      BY <1>1, <2>1, <3>1, <3>2, AnswerImplements DEF Kinds
  <2>3. CASE ~returned.ok
    <3>1. Answered("Operation")
      BY <1>3, <1>5, <2>1, <2>3 DEF EndCompleted, Kinds, Option
    <3>2. Call!Earned("Operation")
      BY <2>1, <2>3 DEF Call!Earned, Shape, TypeOK
    <3> QED
      BY <1>1, <2>1, <3>1, <3>2, AnswerImplements DEF Kinds
  <2> QED
    BY <2>2, <2>3
<1>6. CASE EndTimedOut
  <2>1. pc = "timedOut" /\ Answered("AttemptTimeout")
    BY <1>3, <1>6 DEF EndTimedOut, Kinds, Option
  <2>2. Call!Earned("AttemptTimeout")
    BY <1>2, <2>1 DEF Call!Earned, Between
  <2> QED
    BY <1>1, <2>1, <2>2, AnswerImplements DEF Kinds
<1>7. CASE EndElapsed
  <2>1. pc \in Between /\ pc # "expired"
    BY <1>7 DEF EndElapsed, Retryable, Between
  <2>2. CASE ErrorKept = NoValue
    <3>1. Answered("AttemptTimeout")
      BY <1>3, <1>7, <2>2 DEF EndElapsed, Kinds, Option
    <3>2. Call!Earned("AttemptTimeout")
      BY <1>2, <2>1 DEF Call!Earned
    <3> QED
      BY <1>1, <2>1, <3>1, <3>2, AnswerImplements DEF Kinds
  <2>3. CASE ErrorKept # NoValue
    <3>1. ErrorKept \in Option(Outcomes)
      BY DEF ErrorKept, TypeOK, Option, Errors
    <3>2. Answered("Operation")
      BY <1>3, <1>7, <2>3, <3>1 DEF EndElapsed, Kinds
    <3>3. Call!Earned("Operation")
      BY <2>3, KeptErrorWasReturned DEF Call!Earned
    <3> QED
      BY <1>1, <2>1, <3>2, <3>3, AnswerImplements DEF Kinds
  <2> QED
    BY <2>2, <2>3
<1>8. CASE BudgetDenies
  <2>1. pc \in Between /\ pc # "expired"
    BY <1>8 DEF BudgetDenies, Retryable, Between
  <2>2. Answered("RetryBudgetExhausted")
    BY <1>3, <1>8 DEF BudgetDenies, Kinds, Option
  <2>3. Call!Earned("RetryBudgetExhausted")
    BY <1>2, <2>1 DEF Call!Earned
  <2> QED
    BY <1>1, <2>1, <2>2, <2>3, AnswerImplements DEF Kinds
<1> QED
  BY <1>4, <1>5, <1>6, <1>7, <1>8 DEF AnswerStep

\* Every step of a call is a step of the abstract call, or none.
LEMMA StepImplements ==
    ASSUME IInv, IInv', [Next]_vars
    PROVE  [Call!Next]_(Call!vars)
<1> USE DEF IInv
<1> DEFINE Stutters == UNCHANGED <<plan, Phase, ends, Given>>
<1>1. Stutters => UNCHANGED Call!vars
  BY DEF Call!vars, Phase, Given
<1>2. CASE Acquired \/ Enqueue \/ GateAdmits \/ NextAttempt
  <2>1. Stutters
    BY <1>2
       DEF Acquired, Enqueue, GateAdmits, NextAttempt, Admitted, LoopHead,
           Phase, Given, Final, answer, history, attempts
  <2> QED
    BY <1>1, <2>1
<1>3. CASE FirstPend \/ TotalTimedOut \/ Retry \/ Schedule \/ WakeUp
  <2>1. Stutters
    BY <1>3
       DEF FirstPend, TotalTimedOut, Retry, Retryable, Schedule, WakeUp, Phase,
           Given, Final, answer, history, attempts
  <2> QED
    BY <1>1, <2>1
<1>4. ASSUME NEW j \in Jittered, Backoff(j) PROVE UNCHANGED Call!vars
  <2>1. Stutters
    BY <1>4 DEF Backoff, Phase, Given, Final, answer, history, attempts
  <2> QED
    BY <1>1, <2>1
<1>5. CASE Vote \/ Tick \/ UNCHANGED vars
  <2>1. Stutters
    BY <1>5
       DEF Vote, Tick, vars, Shape, Phase, Given, Final, answer, history,
           attempts
  <2> QED
    BY <1>1, <2>1
<1>6. CASE StartAttempt
  <2>1. Phase = "between" /\ Phase' = "attempting"
    BY <1>6 DEF StartAttempt, Shape, Phase, Final
  <2>2. Len(ends) < plan.maxAttempts
    BY <1>6, PlanType DEF StartAttempt, Shape, Entering, TypeOK
  <2>3. UNCHANGED <<plan, ends, Given>>
    BY <1>6 DEF StartAttempt, Given, answer
  <2> QED
    BY <2>1, <2>2, <2>3
       DEF Call!Attempt, Call!Next, Phase, Given
<1>7. ASSUME NEW o \in Outcomes, Completed(o) PROVE Call!Next
  <2>1. Phase = "attempting" /\ Phase' = "between"
    BY <1>7 DEF Completed, Shape, Phase, Final, answer
  <2>2. /\ UNCHANGED <<plan, Given>>
        /\ \E how \in {"ok", "error", "timeout"} : ends' = Append(ends, how)
    BY <1>7 DEF Completed, Given, answer
  <2> QED
    BY <2>1, <2>2 DEF Call!End, Call!Next, Phase, Given
<1>8. CASE AttemptTimedOut
  <2>1. Phase = "attempting" /\ Phase' = "between"
    BY <1>8 DEF AttemptTimedOut, Shape, Phase, Final, answer
  <2>2. /\ UNCHANGED <<plan, Given>>
        /\ \E how \in {"ok", "error", "timeout"} : ends' = Append(ends, how)
    BY <1>8 DEF AttemptTimedOut, Given, answer
  <2> QED
    BY <2>1, <2>2 DEF Call!End, Call!Next, Phase, Given
<1>9. CASE AnswerStep
  BY <1>9, AnswerStepImplements
<1>10. CASE Reject
  <2>1. Phase = "between" /\ UNCHANGED <<plan, ends>>
    BY <1>10 DEF Reject, AnswerEarly, Shape, Phase, Final, history, attempts
  <2>2. /\ result' # NoValue /\ result'.kind = "ConcurrencyRejected"
        /\ pc' \in {"vote", "done"}
    <3>1. /\ pc' \in {"vote", "done"}
          /\ \E n \in {0, attempt} :
                result' = [kind |-> "ConcurrencyRejected", attempts |-> n,
                           error |-> NoValue]
      BY <1>10 DEF Reject, Answer, AnswerEarly
    <3>2. 0 \in Nat /\ attempt \in Nat
      BY PlanType DEF TypeOK
    <3>3. result' \in Results
      BY <3>1, <3>2 DEF Results, Kinds, Option
    <3> QED
      BY <3>1, <3>3, EngineAssumption
  <2> QED
    BY <2>1, <2>2, AnswerImplements DEF Call!Earned, Kinds
<1>11. CASE GateRejects
  <2>1. Phase = "between" /\ UNCHANGED <<plan, ends>>
    BY <1>11 DEF GateRejects, AnswerEarly, Shape, Phase, Final, history, attempts
  <2>2. /\ result' # NoValue /\ result'.kind = "CircuitOpen"
        /\ pc' = "done"
    BY <1>11, EngineAssumption
       DEF GateRejects, AnswerEarly, Results, Kinds, Option
  <2>3. Len(ends) = 0
    BY <1>11 DEF GateRejects, Shape, Entering
  <2>4. ends = <<>>
    BY <2>3, EmptySeq DEF TypeOK
  <2> QED
    BY <2>1, <2>2, <2>4, AnswerImplements DEF Call!Earned, Kinds
<1>12. CASE Drop
  <2>1. Phase # "over" /\ Phase' = "over"
    BY <1>12 DEF Drop, Waits, Shape, Phase, Final
  <2>2. UNCHANGED <<plan, ends, Given>>
    BY <1>12 DEF Drop, Given, answer, history, attempts
  <2> QED
    BY <2>1, <2>2 DEF Call!Abandon, Call!Next, Phase, Given
<1> QED
  BY <1>2, <1>3, <1>4, <1>5, <1>6, <1>7, <1>8, <1>9, <1>10, <1>11, <1>12
     DEF Next, Acquire, Gate, Poll, Judge, BackOff, Ended, AnswerStep

\* For every plan a call makes at most max_attempts attempts, one at a time, and
\* gives the one answer they earned: run_pipeline and drive implement Call.
THEOREM Refinement == Spec => ImplementsCall
<1>1. Init => Call!Init
  <2> SUFFICES ASSUME Init PROVE Call!Init
    OBVIOUS
  <2>1. plan.maxAttempts \in Nat \ {0}
    BY EngineAssumption DEF Init, Plan, Valid
  <2> QED
    BY <2>1 DEF Init, Call!Init, Final
<1>2. IInv /\ IInv' /\ [Next]_vars => [Call!Next]_(Call!vars)
  BY StepImplements
<1> QED
  BY <1>1, <1>2, Invariance, PTL DEF Spec, ImplementsCall, Call!Spec
=============================================================================
