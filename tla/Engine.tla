------------------------------- MODULE Engine --------------------------------
(***************************************************************************)
(* One call of a policy: run_pipeline and drive of src/src/engine.rs (and  *)
(* their twins run_pipeline_boxed and drive_boxed), from the moment the    *)
(* call starts, instant 0, to its answer or to the drop of its future.     *)
(*                                                                         *)
(* What the call shares with others is here a choice of its environment:   *)
(* whether a permit is free, whether the breaker admits it, whether the    *)
(* budget grants a token.  Semaphore, Breaker and RetryBudget model those. *)
(*                                                                         *)
(* A step ends at the next reading of the clock or at the next await, and  *)
(* the clock may move between any two.  On a prompt executor it would only *)
(* move while the call awaits something and no timer is due: the other     *)
(* ticks are counted as the lateness of the executor.                      *)
(***************************************************************************)
EXTENDS RetryDelay, Sequences

CONSTANTS
    Plans,     \* the plans a call may run under
    Outcomes,  \* what an attempt may return
    NoValue,   \* Option::None
    MaxTime    \* bound: last instant at which an attempt or a queue may last

Option(S) == S \cup {NoValue}
Duration == Nat
Outcome == [ok : BOOLEAN,             \* Ok or Err
            retry : BOOLEAN,          \* what Retry::decide says of it
            counts : BOOLEAN,         \* what record_when says of the error
            hint : Option(Duration)]  \* what retry_after finds in the error
Errors == {o \in Outcomes : ~o.ok}
Plan == [scope : {"none", "operations", "attempts"},
         queueTimeout : Option(Duration),
         breaker : BOOLEAN,
         maxAttempts : Nat,
         maxElapsed : Option(Duration),
         backoff : Backoffs,
         jitter : Jitters,
         budget : BOOLEAN,
         attemptTimeout : Option(Duration),
         totalTimeout : Option(Duration)]

\* ExecutionPolicyBuilder::validate: a policy that fails it is not built.
Valid(p) ==
    /\ p.maxAttempts >= 1
    /\ p.attemptTimeout # NoValue /\ p.totalTimeout # NoValue
          => p.attemptTimeout <= p.totalTimeout

Kinds == {"Ok", "Operation", "AttemptTimeout", "TotalTimeout", "CircuitOpen",
          "ConcurrencyRejected", "RetryBudgetExhausted"}
Results == [kind : Kinds, attempts : Nat, error : Option(Outcomes)]

ASSUME EngineAssumption ==
    /\ NoValue \notin Duration \cup Outcomes \cup Results
    /\ \A p \in Plans : /\ p \in Plan /\ Valid(p)
                        /\ p.backoff.max <= MaxDuration
    /\ Outcomes \subseteq Outcome
    /\ \A o \in Outcomes : o.ok => o.hint = NoValue
    /\ MaxTime \in Nat

VARIABLES
    plan,        \* never changes
    now,
    pc,
    attempt,     \* attempt_no
    permit,      \* a permit is held
    timer,       \* queue_timeout, attempt_timeout or backoff: when it is due
    totalTimer,  \* the total deadline as a timer of the current await
    returned,    \* what the attempt that just ended returned
    lastError,   \* last_error
    delay,       \* raw, then delay: the backoff to come
    result,      \* the answer, NoValue before
    vote,        \* what the breaker was told
    events,      \* what the hook was told, in order
    started,     \* history: attempts whose operation was invoked
    startedAt,   \* history: when the last of them was
    notBefore,   \* history: failure + hint of the attempt that just failed
    ends,        \* history: how attempts ended
    lateness     \* history: ticks due to the executor

timers == <<timer, totalTimer>>
progress == <<attempt, returned, lastError, delay>>
answer == <<result, vote, events>>
attempts == <<started, startedAt, notBefore, ends>>
history == <<attempts, lateness>>
vars == <<plan, now, pc, permit, timers, progress, answer, history>>

Waits == {"queued", "running", "sleeping"}   \* the awaits of the code
Final == {"done", "dropped"}
PCs == {"acquire", "gate", "ready", "polling", "completed", "timedOut",
        "expired", "backoff", "capping", "slept", "vote"} \cup Waits \cup Final

\* CircuitStateChanged is named by the state it announces.  The number of an
\* event that carries none in the code, as this one, is of no account.
EventNames == {"AttemptFailed", "AttemptTimedOut", "RetryScheduled",
               "Succeeded", "GaveUp", "ConcurrencyRejected",
               "RetryBudgetExhausted", "HalfOpen", "Closed", "Open"}

TypeOK ==
    /\ plan \in Plans
    /\ now \in Nat
    /\ pc \in PCs
    /\ attempt \in 1..plan.maxAttempts
    /\ permit \in BOOLEAN
    /\ timer \in Option(Nat) /\ totalTimer \in Option(Nat)
    /\ returned \in Option(Outcomes)
    /\ lastError \in Option(Errors)
    /\ delay \in Duration
    /\ result \in Option(Results)
    /\ vote \in {"none", "success", "failure"}
    /\ events \in Seq([name : EventNames, attempt : 0..plan.maxAttempts])
    /\ started \in Nat /\ startedAt \in Nat /\ notBefore \in Nat
    /\ ends \in Seq({"ok", "error", "timeout"})
    /\ lateness \in Nat

Init ==
    /\ plan \in Plans
    /\ now = 0
    /\ pc = IF plan.scope = "operations" THEN "acquire" ELSE "gate"
    /\ attempt = 1
    /\ permit = FALSE
    /\ timer = NoValue /\ totalTimer = NoValue
    /\ returned = NoValue /\ lastError = NoValue
    /\ delay = 0
    /\ result = NoValue
    /\ vote = "none"
    /\ events = <<>>
    /\ started = 0 /\ startedAt = 0 /\ notBefore = 0 /\ ends = <<>>
    /\ lateness = 0
-----------------------------------------------------------------------------
Due(t) == t # NoValue /\ now >= t
\* What is left until the total deadline.
Remaining == IF now < plan.totalTimeout THEN plan.totalTimeout - now ELSE 0
\* core.sleep(d) for an optional duration d, and until the total deadline.
Sleep(d) == IF d = NoValue THEN NoValue ELSE now + d
SleepToDeadline ==
    Sleep(IF plan.totalTimeout = NoValue THEN NoValue ELSE Remaining)

Event(name) == <<[name |-> name, attempt |-> attempt]>>
Disarm == timer' = NoValue /\ totalTimer' = NoValue

\* Where the loop of drive begins, and what a permit lets the call do.
LoopHead == IF plan.scope = "attempts" THEN "acquire" ELSE "ready"
Admitted == IF plan.scope = "attempts" THEN "ready" ELSE "gate"

\* The call has its answer.  drive returns to run_pipeline, which votes; the
\* permit of the operations scope lives until run_pipeline returns.
Answer(kind, error, emitted) ==
    /\ result' = [kind |-> kind, attempts |-> attempt, error |-> error]
    /\ events' = events \o emitted
    /\ pc' = "vote"
    /\ Disarm

\* run_pipeline itself returns, before any attempt: no vote.
AnswerEarly(kind, emitted) ==
    /\ result' = [kind |-> kind, attempts |-> 0, error |-> NoValue]
    /\ events' = events \o emitted
    /\ pc' = "done"
    /\ permit' = FALSE
    /\ Disarm
    /\ UNCHANGED <<plan, now, vote, progress, history>>
-----------------------------------------------------------------------------
(* acquire_permit, in either scope.                                         *)

\* A permit is free, at once or after a wait: it is polled before the timers.
Acquired ==
    /\ pc \in {"acquire", "queued"}
    /\ permit' = TRUE
    /\ pc' = Admitted
    /\ Disarm
    /\ UNCHANGED <<plan, now, progress, answer, history>>

\* No permit is free: wait.
Enqueue ==
    /\ pc = "acquire"
    /\ pc' = "queued"
    /\ timer' = Sleep(plan.queueTimeout)
    /\ totalTimer' = SleepToDeadline
    /\ UNCHANGED <<plan, now, permit, progress, answer, history>>

\* The limit rejects when saturated, its queue is full, or a timer is due.
Reject ==
    /\ \/ pc = "acquire"
       \/ /\ pc = "queued"
          /\ Due(timer) \/ Due(totalTimer)
    /\ IF plan.scope = "operations"
       THEN AnswerEarly("ConcurrencyRejected", Event("ConcurrencyRejected"))
       ELSE /\ Answer("ConcurrencyRejected", NoValue,
                      Event("ConcurrencyRejected"))
            /\ UNCHANGED <<plan, now, permit, vote, progress, history>>
-----------------------------------------------------------------------------
(* The gate of the breaker, when there is one.                              *)

\* The hook hears when the circuit lets the call through half-open.
GateAdmits ==
    /\ pc = "gate"
    /\ pc' = LoopHead
    /\ \/ UNCHANGED events
       \/ plan.breaker /\ events' = events \o Event("HalfOpen")
    /\ UNCHANGED <<plan, now, permit, timers, progress, result, vote, history>>

GateRejects ==
    /\ pc = "gate"
    /\ plan.breaker
    /\ AnswerEarly("CircuitOpen", <<>>)
-----------------------------------------------------------------------------
(* An attempt.  Its timers are armed when the operation first pends, and    *)
(* are polled after it: attempt timeout, then total timeout.                *)

StartAttempt ==
    /\ pc = "ready"
    /\ pc' = "polling"
    /\ started' = started + 1
    /\ startedAt' = now
    /\ UNCHANGED <<plan, now, permit, timers, progress, answer, notBefore, ends,
                   lateness>>

\* Mutant of FirstPend: the total deadline is left to the attempt timeout.
FirstPendNoDeadline ==
    /\ pc = "polling"
    /\ pc' = "running"
    /\ timer' = Sleep(plan.attemptTimeout)
    /\ UNCHANGED <<plan, now, permit, totalTimer, progress, answer, history>>

FirstPend ==
    /\ pc = "polling"
    /\ pc' = "running"
    /\ timer' = Sleep(plan.attemptTimeout)
    /\ totalTimer' = SleepToDeadline
    /\ UNCHANGED <<plan, now, permit, progress, answer, history>>

\* Mutant of AttemptPermitDropped: it lives until the call returns.
AttemptPermitKept == UNCHANGED permit

\* "release before backoff sleep"
AttemptPermitDropped == permit' = (permit /\ plan.scope = "operations")

Completed(o) ==
    /\ pc \in {"polling", "running"}
    /\ pc' = "completed"
    /\ returned' = o
    /\ AttemptPermitDropped
    /\ Disarm
    /\ notBefore' = IF o.hint = NoValue THEN 0 ELSE now + o.hint
    /\ ends' = Append(ends, IF o.ok THEN "ok" ELSE "error")
    /\ UNCHANGED <<plan, now, attempt, lastError, delay, answer, started,
                   startedAt, lateness>>

AttemptTimedOut ==
    /\ pc = "running"
    /\ Due(timer)
    /\ pc' = "timedOut"
    /\ AttemptPermitDropped
    /\ Disarm
    /\ notBefore' = 0
    /\ ends' = Append(ends, "timeout")
    /\ UNCHANGED <<plan, now, progress, answer, started, startedAt,
                   lateness>>

TotalTimedOut ==
    /\ pc = "running"
    /\ ~Due(timer)
    /\ Due(totalTimer)
    /\ pc' = "expired"
    /\ AttemptPermitDropped
    /\ Disarm
    /\ UNCHANGED <<plan, now, progress, answer, history>>
-----------------------------------------------------------------------------
(* What drive makes of the end of an attempt: one reading of the clock.     *)

EndExpired ==
    /\ pc = "expired"
    /\ Answer("TotalTimeout", NoValue, Event("GaveUp"))
    /\ UNCHANGED <<plan, now, permit, vote, progress, history>>

\* Mutant of LastAttempt: one attempt more than max_attempts.
LastAttemptOffByOne == attempt > plan.maxAttempts

LastAttempt == attempt >= plan.maxAttempts

\* The value is final: the classifier says Stop, or no attempt is left.
EndCompleted ==
    /\ pc = "completed"
    /\ ~returned.retry \/ LastAttempt
    /\ IF returned.ok
       THEN Answer("Ok", NoValue, Event("Succeeded"))
       ELSE Answer("Operation", returned, Event("GaveUp"))
    /\ UNCHANGED <<plan, now, permit, vote, progress, history>>

EndTimedOut ==
    /\ pc = "timedOut"
    /\ LastAttempt
    /\ Answer("AttemptTimeout", NoValue,
              Event("AttemptTimedOut") \o Event("GaveUp"))
    /\ UNCHANGED <<plan, now, permit, vote, progress, history>>

Retryable ==
    /\ ~LastAttempt
    /\ \/ pc = "timedOut"
       \/ pc = "completed" /\ returned.retry
Failed == pc = "completed" /\ ~returned.ok

\* Mutants of Report and ErrorKept: timeouts are not reported; a value that is
\* retried is kept like an error.
ReportErrorsOnly == IF Failed THEN Event("AttemptFailed") ELSE <<>>
ErrorKeptBlindly == IF pc = "completed" THEN returned ELSE lastError

\* What the hook is told of an attempt that may be followed by another.
Report == IF pc = "timedOut" THEN Event("AttemptTimedOut")
          ELSE IF Failed THEN Event("AttemptFailed") ELSE <<>>

\* The error that drive keeps, also past a timeout or a value.
ErrorKept == IF Failed THEN returned ELSE lastError

Elapsed == plan.maxElapsed # NoValue /\ now >= plan.maxElapsed

EndElapsed ==
    /\ Retryable
    /\ Elapsed
    /\ Answer(IF ErrorKept = NoValue THEN "AttemptTimeout" ELSE "Operation",
              ErrorKept, Report \o Event("GaveUp"))
    /\ lastError' = NoValue   \* take()
    /\ UNCHANGED <<plan, now, permit, vote, attempt, returned, delay, history>>

BudgetDenies ==
    /\ Retryable
    /\ ~Elapsed
    /\ plan.budget
    /\ Answer("RetryBudgetExhausted", NoValue,
              Report \o Event("RetryBudgetExhausted"))
    /\ lastError' = ErrorKept
    /\ UNCHANGED <<plan, now, permit, vote, attempt, returned, delay, history>>

\* There is no budget or it grants a token.
Retry ==
    /\ Retryable
    /\ ~Elapsed
    /\ pc' = "backoff"
    /\ events' = events \o Report
    /\ lastError' = ErrorKept
    /\ UNCHANGED <<plan, now, permit, timers, attempt, returned, delay, result,
                   vote, history>>
-----------------------------------------------------------------------------
(* The backoff.                                                             *)

Hint == IF lastError = NoValue THEN NoValue ELSE lastError.hint

\* What jitter may make of the backoff of this attempt.
Jittered == {Jitter(plan.jitter, RawDelay(plan.backoff, attempt), r) :
                r \in Samples}

\* Mutant of Delay: the hint is not looked at.
DelayUnfloored(jittered) == jittered

\* Retry::delay: the hint is a floor under the jittered backoff.
Delay(jittered) ==
    IF Hint # NoValue /\ Hint > jittered THEN Hint ELSE jittered

HintOvershoots ==
    plan.totalTimeout # NoValue /\ Hint # NoValue /\ Hint > Remaining

Backoff(jittered) ==
    /\ pc = "backoff"
    /\ ~HintOvershoots
    /\ delay' = Delay(jittered)
    /\ pc' = "capping"
    /\ UNCHANGED <<plan, now, permit, timers, attempt, returned, lastError,
                   answer, history>>

\* Mutant of EndOvershoot: it ends as the deadline that passes in the backoff
\* does, without a word.
EndOvershootSilent ==
    /\ pc = "backoff"
    /\ HintOvershoots
    /\ Answer("TotalTimeout", NoValue, <<>>)
    /\ UNCHANGED <<plan, now, permit, vote, progress, history>>

\* "stop rather than overshoot"
EndOvershoot ==
    /\ pc = "backoff"
    /\ HintOvershoots
    /\ Answer("TotalTimeout", NoValue, Event("GaveUp"))
    /\ UNCHANGED <<plan, now, permit, vote, progress, history>>

\* Mutant of CappedDelay: the backoff ignores the total deadline.
CappedDelayNot == delay

\* The clock is read again.
CappedDelay ==
    IF plan.totalTimeout # NoValue /\ Remaining < delay
    THEN Remaining ELSE delay

Schedule ==
    /\ pc = "capping"
    /\ delay' = CappedDelay
    /\ events' = events \o Event("RetryScheduled")
    /\ IF CappedDelay = 0
       THEN pc' = "slept" /\ UNCHANGED timer
       ELSE pc' = "sleeping" /\ timer' = now + CappedDelay
    /\ UNCHANGED <<plan, now, permit, totalTimer, attempt, returned, lastError,
                   result, vote, history>>

WakeUp ==
    /\ pc = "sleeping"
    /\ Due(timer)
    /\ pc' = "slept"
    /\ Disarm
    /\ UNCHANGED <<plan, now, permit, progress, answer, history>>

DeadlinePassed == plan.totalTimeout # NoValue /\ now >= plan.totalTimeout

\* The deadline passed during the backoff: no event says so.
EndAsleep ==
    /\ pc = "slept"
    /\ DeadlinePassed
    /\ Answer("TotalTimeout", NoValue, <<>>)
    /\ UNCHANGED <<plan, now, permit, vote, progress, history>>

NextAttempt ==
    /\ pc = "slept"
    /\ ~DeadlinePassed
    /\ attempt' = attempt + 1
    /\ pc' = LoopHead
    /\ UNCHANGED <<plan, now, permit, timers, returned, lastError, delay,
                   answer, history>>
-----------------------------------------------------------------------------
(* The end of run_pipeline: the vote, then the permit of the call.          *)

IsTimeout == result.kind \in {"AttemptTimeout", "TotalTimeout"}
Ballot ==
    CASE result.kind = "Ok" -> "success"
      [] IsTimeout -> "failure"
      [] result.kind = "Operation" ->
             IF result.error.counts THEN "failure" ELSE "success"
      [] OTHER -> "none"

\* What the hook may hear of the circuit after a vote: record_success closes it
\* or changes nothing, record_failure opens it or changes nothing.
Transitions(ballot) ==
    {<<>>} \cup CASE ballot = "success" -> {Event("Closed")}
                  [] ballot = "failure" -> {Event("Open")}
                  [] OTHER -> {}

Vote ==
    /\ pc = "vote"
    /\ vote' = IF plan.breaker THEN Ballot ELSE "none"
    /\ \E transition \in Transitions(vote') : events' = events \o transition
    /\ permit' = FALSE
    /\ pc' = "done"
    /\ UNCHANGED <<plan, now, timers, progress, result, history>>

\* The future of the call is dropped at an await; nothing else runs.
Drop ==
    /\ pc \in Waits
    /\ pc' = "dropped"
    /\ permit' = FALSE
    /\ Disarm
    /\ UNCHANGED <<plan, now, progress, answer, history>>

\* Nothing is left for the executor to do at this instant.
Idle == pc \in Waits /\ ~Due(timer) /\ ~Due(totalTimer)

Tick ==
    /\ pc \notin Final
    /\ \/ now < MaxTime
       \/ \E t \in {timer, totalTimer} : t # NoValue /\ now < t
    /\ now' = now + 1
    /\ lateness' = IF Idle THEN lateness ELSE lateness + 1
    /\ UNCHANGED <<plan, pc, permit, timers, progress, answer, attempts>>

Ended == pc \in Final /\ UNCHANGED vars

\* What the code does when it is polled, its environment willing.
Acquire == Acquired \/ Enqueue \/ Reject
Gate == GateAdmits \/ GateRejects
Poll == FirstPend \/ AttemptTimedOut \/ TotalTimedOut
Judge == EndExpired \/ EndCompleted \/ EndTimedOut \/ EndElapsed
            \/ BudgetDenies \/ Retry
BackOff == (\E j \in Jittered : Backoff(j)) \/ EndOvershoot \/ Schedule
              \/ WakeUp \/ EndAsleep \/ NextAttempt

Next == \/ Acquire \/ Gate \/ StartAttempt \/ Poll
        \/ \E o \in Outcomes : Completed(o)
        \/ Judge \/ BackOff \/ Vote \/ Drop \/ Tick \/ Ended

Spec == Init /\ [][Next]_vars

(* The task is polled when a timer of it is due, and time passes.  Nothing  *)
(* obliges an operation to return or a permit to become free.               *)
Fairness ==
    /\ WF_vars(pc = "acquire" /\ Acquire)
    /\ WF_vars(Reject /\ pc = "queued")
    /\ WF_vars(Gate \/ StartAttempt \/ Poll \/ Judge \/ BackOff \/ Vote)
    /\ WF_vars(Tick)

FairSpec == Spec /\ Fairness
-----------------------------------------------------------------------------
(* Properties.                                                              *)

\* The hook was told this event of attempt n.
Tells(name, n) == \E i \in DOMAIN events : events[i] = [name |-> name, attempt |-> n]

Changes == {"Closed", "Open"}
Terminal == {"Succeeded", "GaveUp", "ConcurrencyRejected",
             "RetryBudgetExhausted"}

\* The hook hears of every timeout, of every error that is retried and of every
\* retry, each under the number of its attempt, and of none that was not
\* (Event::AttemptFailed, AttemptTimedOut, RetryScheduled; the emits of drive).
AttemptsTold ==
    pc = "done" =>
        /\ \A n \in 1..plan.maxAttempts :
              Tells("AttemptTimedOut", n)
                 <=> n \in DOMAIN ends /\ ends[n] = "timeout"
        /\ \A n \in 1..plan.maxAttempts :
              Tells("AttemptFailed", n) => n \in DOMAIN ends /\ ends[n] = "error"
        /\ \A n \in 1..(attempt - 1) :
              /\ Tells("RetryScheduled", n)
              /\ ends[n] = "error" => Tells("AttemptFailed", n)

\* The event that goes with an answer.
Conclusion(kind) == CASE kind = "Ok" -> "Succeeded"
                      [] kind \in Terminal -> kind
                      [] OTHER -> "GaveUp"

\* The two answers of which the hook is told nothing: an open circuit, and a
\* deadline that passed after the retry of the attempt was announced.
Silent == \/ result.kind = "CircuitOpen"
          \/ result.kind = "TotalTimeout" /\ Tells("RetryScheduled", attempt)

\* The end of the call, as the hook, the breaker and the caller are told of it
\* (the ends of drive, the vote of run_pipeline).  The hook hears of the answer
\* and of no other, once, after everything else but the change of the circuit
\* that the vote makes; success is told when the attempt under way earned it
\* and is voted; the circuit is told to open or to close as the answer says.
EndTold ==
    pc = "done" =>
        /\ \A i \in DOMAIN events : events[i].name \in Terminal =>
              /\ events[i] = [name |-> Conclusion(result.kind),
                               attempt |-> attempt]
              /\ \A j \in (i + 1)..Len(events) : events[j].name \in Changes
        /\ Tells(Conclusion(result.kind), attempt) <=> ~Silent
        /\ Tells("Succeeded", attempt) =>
              /\ ends[attempt] = "ok"
              /\ plan.breaker => vote = "success"
        /\ plan.breaker /\ IsTimeout => vote = "failure"
        /\ result.kind \in {"CircuitOpen", "ConcurrencyRejected",
                            "RetryBudgetExhausted"} => vote = "none"
        /\ Tells("Closed", attempt) => vote = "success"
        /\ Tells("Open", attempt) => vote = "failure"

\* The hook, the breaker and the caller of a call that is over were told the
\* same story, from its attempts to its end (drive, run_pipeline).
OneStory == AttemptsTold /\ EndTold

\* "total_timeout bounds everything including backoff" and "attempt_timeout
\* bounds each try" (README): neither is exceeded by more than the executor
\* itself is late.
DeadlinesHonoured ==
    /\ plan.totalTimeout # NoValue => now <= plan.totalTimeout + lateness
    /\ pc = "running" /\ plan.attemptTimeout # NoValue
          => now <= startedAt + plan.attemptTimeout + lateness

\* "The hint is a hard lower bound the delay never dips below" (retry/mod.rs):
\* no attempt starts sooner after an error than the error asks, however late
\* the executor is, whatever jitter and the total deadline make of the delay.
HintIsFloor == [][pc = "ready" /\ pc' = "polling" => now >= notBefore]_vars

\* "base * 2^(attempt-1), clamped to max" (backoff.rs), what the kinds of jitter
\* keep of it (jitter.rs), and the hint as a floor (retry/mod.rs), as long as
\* the shift and the factor fit their widths and the delay its nanoseconds.
\* Past the widths (raw_delay) a delay is still within its max, and never falls
\* back below that of an attempt whose factor did fit.
DelayWithinSchedule ==
    [][pc = "backoff" /\ pc' = "capping"
          => LET raw(n) == Documented(plan.backoff, n)
                 hint == IF Hint = NoValue THEN 0 ELSE Hint
             IN /\ delay' <= Longest(plan.backoff) \/ delay' = hint
                /\ delay' >= hint
                /\ plan.jitter = "none" =>
                      \A n \in 1..attempt : FitsWidth(n) => delay' >= raw(n)
                /\ FitsWidth(attempt) =>
                      /\ delay' <= raw(attempt) \/ delay' = hint
                      /\ plan.jitter = "equal" /\ raw(attempt) < NanosRange
                            => delay' >= raw(attempt) \div 2]_vars

\* A permit of the attempts scope is held for the operation alone, never while
\* the call backs off; one of the operations scope from its grant to the end.
PermitForWorkOnly ==
    permit <=> CASE plan.scope = "none" -> FALSE
                 [] plan.scope = "attempts" ->
                        pc \in {"ready", "polling", "running"}
                 [] OTHER -> pc \notin {"acquire", "queued"} \cup Final

\* The calls that end even if an operation never returns and no permit is ever
\* free: those under a total deadline, or whose every wait has a timer.
Bounded ==
    \/ plan.totalTimeout # NoValue
    \/ /\ plan.attemptTimeout # NoValue
       /\ plan.scope = "none" \/ plan.queueTimeout # NoValue

\* Timers armed on the way in and at the first pend (acquire_permit, drive) end
\* every bounded call.
CallEnds == Bounded ~> pc \in Final

\* A call is a sequence of at most max_attempts attempts, one at a time, and
\* answers with what they earned.
Call == INSTANCE Call WITH
    limit <- plan.maxAttempts,
    phase <- IF pc \in {"polling", "running", "expired"} THEN "attempting"
             ELSE IF pc \in Final \/ result # NoValue THEN "over"
             ELSE "between",
    answer <- IF result = NoValue THEN "none" ELSE result.kind
ImplementsCall == Call!Spec
-----------------------------------------------------------------------------
(* What the code does not hold to.                                          *)

\* "attempt timed out (attempt N)" (error.rs): attempt N did.
AttemptTimeoutIsReal ==
    result # NoValue /\ result.kind = "AttemptTimeout"
        => ends[result.attempts] = "timeout"

=============================================================================
