------------------------------- MODULE Fleet --------------------------------
(***************************************************************************)
(* Several calls of one policy: how run_pipeline and drive (engine.rs) put *)
(* the concurrency limit, the circuit breaker and the retry budget around  *)
(* the attempts of a call, and what the whole does for a dependency that   *)
(* fails and comes back.                                                   *)
(*                                                                         *)
(* The three shared parts are what their detailed modules implement:       *)
(* PermitPool (Semaphore), Circuit (Breaker), TokenBucket (RetryBudget).   *)
(* Here each use of one is one step of one call.  An attempt fails when    *)
(* the dependency is down at its end; time is in `cooling` and in the      *)
(* choice of a call with deadlines to meet one, in an attempt only while   *)
(* the dependency is down.                                                 *)
(***************************************************************************)
EXTENDS Naturals, FiniteSets

CONSTANTS Calls,             \* tasks, each making one call after the other
          Policies,          \* the policies they may share
          Permits,           \* of the concurrency limit
          Threshold,         \* failed calls in a row that trip the breaker
          HalfOpenMaxCalls,
          MaxTokens, Deposit, RetryCost,   \* of the retry budget
          MaxOutages,        \* bound: times the dependency goes down
          MaxDrops           \* bound: calls dropped altogether

Policy == [scope : {"none", "operations", "attempts"},
           maxAttempts : Nat \ {0},
           budget : BOOLEAN,
           deadlines : BOOLEAN]   \* attempt_timeout, total_timeout, max_elapsed

ASSUME FleetAssumption ==
    /\ IsFiniteSet(Calls)
    /\ Policies \subseteq Policy
    /\ {Permits, Threshold, HalfOpenMaxCalls, RetryCost} \subseteq Nat \ {0}
    /\ MaxTokens \in Nat /\ Deposit \in 0..RetryCost
    /\ MaxOutages \in Nat /\ MaxDrops \in Nat

VARIABLES
    policy,          \* never changes
    holders,         \* of the concurrency limit
    state, cooling, slots, successes, failures, inside,  \* of the breaker
    tokens, status,  \* of the budget
    pc,
    attempt,         \* attempt_no
    verdict,         \* what the call will tell the breaker
    paid,            \* history: tokens the call has withdrawn
    up, outages, drops,
    strikes          \* history: failed attempts a closed circuit let through
                     \* since it last heard of a success

circuit == <<state, cooling, slots, successes, failures, inside>>
bucket == <<tokens, status>>
dependency == <<up, outages>>
vars == <<policy, holders, circuit, bucket, pc, attempt, verdict, paid,
          dependency, drops, strikes>>

Limit  == INSTANCE PermitPool WITH Tasks <- Calls
Gate   == INSTANCE Circuit
Budget == INSTANCE TokenBucket WITH Callers <- Calls

\* The attempts of the failures a closed circuit has counted, of the calls
\* under way, and all but the last of each of d dropped calls.
LoadLimit(d) == (Threshold - 1 + Cardinality(Calls)) * policy.maxAttempts
                   + d * (policy.maxAttempts - 1)

PCs == {"idle", "permit", "queued", "gate", "deposit", "running", "judge",
        "backoff", "vote", "return"}
Verdicts == {"none", "success", "failure"}

TypeOK ==
    /\ policy \in Policies
    /\ holders \subseteq Calls
    /\ state \in {"Closed", "Open", "HalfOpen"}
    /\ cooling \in BOOLEAN
    /\ slots \in 0..HalfOpenMaxCalls
    /\ successes \in 0..HalfOpenMaxCalls
    /\ failures \in 0..Threshold
    /\ inside \subseteq Calls
    /\ tokens \in 0..MaxTokens
    /\ status \in [Calls -> {"out", "in", "denied"}]
    /\ pc \in [Calls -> PCs]
    /\ attempt \in [Calls -> 1..policy.maxAttempts]
    /\ verdict \in [Calls -> Verdicts]
    /\ paid \in [Calls -> 0..policy.maxAttempts]
    /\ up \in BOOLEAN
    /\ outages \in 0..MaxOutages
    /\ drops \in 0..MaxDrops
    /\ strikes \in 0..(LoadLimit(MaxDrops) + 1)

Init ==
    /\ policy \in Policies
    /\ Limit!Init
    /\ Gate!Init
    /\ Budget!Init
    /\ pc = [c \in Calls |-> "idle"]
    /\ attempt = [c \in Calls |-> 1]
    /\ verdict = [c \in Calls |-> "none"]
    /\ paid = [c \in Calls |-> 0]
    /\ up = TRUE /\ outages = 0
    /\ drops = 0
    /\ strikes = 0
-----------------------------------------------------------------------------
Goto(c, where) == pc' = [pc EXCEPT ![c] = where]
Scope(s) == policy.scope = s

\* Mutant of LoopHead: only the first attempt asks for a permit.
LoopHeadOnce(c) ==
    IF Scope("attempts") /\ pc[c] # "backoff" THEN "permit" ELSE "running"

\* Where the loop of drive begins.
LoopHead(c) == IF Scope("attempts") THEN "permit" ELSE "running"

\* What a permit lets a call do.
Admitted == IF Scope("attempts") THEN "running" ELSE "gate"

\* drive returns; run_pipeline votes next.
Decide(c, v) ==
    /\ Goto(c, "vote")
    /\ verdict' = [verdict EXCEPT ![c] = v]

Start(c) ==
    /\ pc[c] = "idle"
    /\ Goto(c, IF Scope("operations") THEN "permit" ELSE "gate")
    /\ UNCHANGED <<policy, holders, circuit, bucket, attempt, verdict, paid,
                   dependency, drops, strikes>>

\* acquire_permit: at once, or after a wait.
Acquire(c) ==
    /\ pc[c] \in {"permit", "queued"}
    /\ Limit!Take(c)
    /\ Goto(c, Admitted)
    /\ UNCHANGED <<policy, circuit, bucket, attempt, verdict, paid, dependency,
                   drops, strikes>>

Enqueue(c) ==
    /\ pc[c] = "permit"
    /\ Cardinality(holders) >= Permits
    /\ Goto(c, "queued")
    /\ UNCHANGED <<policy, holders, circuit, bucket, attempt, verdict, paid,
                   dependency, drops, strikes>>

\* The queue was full, or the wait for a permit took too long.  An operation
\* turned away has nothing to tell the breaker, neither has a call whose next
\* attempt is.
Refuse(c) ==
    /\ pc[c] = "queued"
    /\ IF Scope("operations") THEN Goto(c, "return") /\ UNCHANGED verdict
                              ELSE Decide(c, "none")
    /\ UNCHANGED <<policy, holders, circuit, bucket, attempt, paid, dependency,
                   drops, strikes>>

GateAdmits(c) ==
    /\ pc[c] = "gate"
    /\ Gate!Admit(c)
    /\ Goto(c, IF policy.budget THEN "deposit" ELSE LoopHead(c))
    /\ UNCHANGED <<policy, holders, bucket, attempt, verdict, paid, dependency,
                   drops, strikes>>

GateRejects(c) ==
    /\ pc[c] = "gate"
    /\ \/ state = "Open" /\ cooling
       \/ state = "HalfOpen" /\ slots >= HalfOpenMaxCalls
    /\ Goto(c, "return")
    /\ UNCHANGED <<policy, holders, circuit, bucket, attempt, verdict, paid,
                   dependency, drops, strikes>>

PayIn(c) ==
    /\ pc[c] = "deposit"
    /\ Budget!Enter(c)
    /\ Goto(c, LoopHead(c))
    /\ UNCHANGED <<policy, holders, circuit, attempt, verdict, paid, dependency,
                   drops, strikes>>
-----------------------------------------------------------------------------
(* An attempt, and what drive makes of its end.                             *)

AttemptPermitDropped(c) ==
    holders' = IF Scope("attempts") THEN holders \ {c} ELSE holders

Succeeds(c) ==
    /\ pc[c] = "running"
    /\ up
    /\ AttemptPermitDropped(c)
    /\ Decide(c, "success")
    /\ UNCHANGED <<policy, circuit, bucket, attempt, paid, dependency, drops,
                   strikes>>

\* Mutant of LastAttempt: one attempt more than max_attempts.
LastAttemptOffByOne(c) == attempt[c] > policy.maxAttempts

LastAttempt(c) == attempt[c] >= policy.maxAttempts

Strike ==
    strikes' = IF state = "Closed" /\ strikes <= LoadLimit(MaxDrops)
               THEN strikes + 1 ELSE strikes

\* An error or an attempt timeout.
Fails(c) ==
    /\ pc[c] = "running"
    /\ ~up
    /\ AttemptPermitDropped(c)
    /\ Strike
    /\ IF LastAttempt(c)
       THEN Decide(c, "failure")
       ELSE Goto(c, "judge") /\ UNCHANGED verdict
    /\ UNCHANGED <<policy, circuit, bucket, attempt, paid, dependency, drops>>

\* A deadline ends the call: during an attempt; or after it (max_elapsed),
\* before a backoff that would overshoot, or after the backoff.
Expires(c) ==
    /\ policy.deadlines
    /\ \/ pc[c] = "running" /\ ~up /\ AttemptPermitDropped(c) /\ Strike
       \/ pc[c] \in {"judge", "backoff"} /\ UNCHANGED <<holders, strikes>>
    /\ Decide(c, "failure")
    /\ UNCHANGED <<policy, circuit, bucket, attempt, paid, dependency, drops>>

\* Mutant of Withdraw: the token is asked for but not taken.
WithdrawNothing(c) ==
    /\ pc[c] = "judge"
    /\ tokens >= RetryCost
    /\ UNCHANGED <<bucket, paid>>
    /\ Goto(c, "backoff")
    /\ UNCHANGED <<policy, holders, circuit, attempt, verdict, dependency,
                   drops, strikes>>

Withdraw(c) ==
    /\ pc[c] = "judge"
    /\ IF policy.budget
       THEN Budget!Grant(c) /\ paid' = [paid EXCEPT ![c] = @ + 1]
       ELSE UNCHANGED <<bucket, paid>>
    /\ Goto(c, "backoff")
    /\ UNCHANGED <<policy, holders, circuit, attempt, verdict, dependency,
                   drops, strikes>>

\* RetryBudgetExhausted: no vote.
Denied(c) ==
    /\ pc[c] = "judge"
    /\ policy.budget
    /\ Budget!Deny(c)
    /\ Decide(c, "none")
    /\ UNCHANGED <<policy, holders, circuit, attempt, paid, dependency, drops,
                   strikes>>

NextAttempt(c) ==
    /\ pc[c] = "backoff"
    /\ attempt' = [attempt EXCEPT ![c] = @ + 1]
    /\ Goto(c, LoopHead(c))
    /\ UNCHANGED <<policy, holders, circuit, bucket, verdict, paid, dependency,
                   drops, strikes>>
-----------------------------------------------------------------------------
(* The end of a call.                                                       *)

\* Mutants of Cast: failures, or successes, are not told.
CastSuccess(c) == IF verdict[c] = "success" THEN Gate!Succeed(c)
                                            ELSE Gate!EndUnseen(c)
CastFailure(c) == IF verdict[c] = "failure" THEN Gate!Fail(c)
                                            ELSE Gate!EndUnseen(c)

\* One vote on the final outcome.
Cast(c) ==
    CASE verdict[c] = "success" -> Gate!Succeed(c)
      [] verdict[c] = "failure" -> Gate!Fail(c)
      [] OTHER -> Gate!EndUnseen(c)

Vote(c) ==
    /\ pc[c] = "vote"
    /\ Cast(c)
    /\ strikes' = IF verdict[c] = "success" \/ state' # "Closed"
                  THEN 0 ELSE strikes
    /\ Goto(c, "return")
    /\ UNCHANGED <<policy, holders, bucket, attempt, verdict, paid, dependency,
                   drops>>

\* What a call holds is gone with its future.
Gone(c) ==
    /\ holders' = holders \ {c}
    /\ IF status[c] = "out" THEN UNCHANGED bucket ELSE Budget!Leave(c)
    /\ Goto(c, "idle")
    /\ attempt' = [attempt EXCEPT ![c] = 1]
    /\ verdict' = [verdict EXCEPT ![c] = "none"]
    /\ paid' = [paid EXCEPT ![c] = 0]

Return(c) ==
    /\ pc[c] = "return"
    /\ Gone(c)
    /\ UNCHANGED <<policy, circuit, dependency, drops, strikes>>

\* The future of the call is dropped at an await.
Drop(c) ==
    /\ pc[c] \in {"queued", "running", "backoff"}
    /\ drops < MaxDrops
    /\ drops' = drops + 1
    /\ IF c \in inside THEN Gate!EndUnseen(c) ELSE UNCHANGED circuit
    /\ Gone(c)
    /\ UNCHANGED <<policy, dependency, strikes>>

CoolDown ==
    /\ Gate!CoolDown
    /\ UNCHANGED <<policy, holders, bucket, pc, attempt, verdict, paid,
                   dependency, drops, strikes>>

Outage ==
    /\ up /\ outages < MaxOutages
    /\ up' = FALSE /\ outages' = outages + 1
    /\ UNCHANGED <<policy, holders, circuit, bucket, pc, attempt, verdict,
                   paid, drops, strikes>>

Repair ==
    /\ ~up
    /\ up' = TRUE
    /\ UNCHANGED <<policy, holders, circuit, bucket, pc, attempt, verdict,
                   paid, outages, drops, strikes>>

\* The whole of a call, as run_pipeline and drive order it.
Ask(c) == Acquire(c) \/ Enqueue(c) \/ Refuse(c)
Enter(c) == GateAdmits(c) \/ GateRejects(c) \/ PayIn(c)
Work(c) == Succeeds(c) \/ Fails(c) \/ Expires(c)
Judge(c) == Withdraw(c) \/ Denied(c) \/ NextAttempt(c)

Next == \/ \E c \in Calls : \/ Start(c) \/ Ask(c) \/ Enter(c) \/ Work(c)
                            \/ Judge(c) \/ Vote(c) \/ Return(c) \/ Drop(c)
        \/ CoolDown \/ Outage \/ Repair

Spec == Init /\ [][Next]_vars

(* Traffic keeps coming, the executor polls every call, attempts end and    *)
(* cooldowns are over in time.  Nothing makes the dependency fail or mend.  *)
Fairness ==
    /\ WF_vars(CoolDown)
    /\ \A c \in Calls :
          /\ WF_vars(Start(c)) /\ WF_vars(Acquire(c) \/ Enqueue(c))
          /\ WF_vars(Enter(c)) /\ WF_vars(Succeeds(c) \/ Fails(c))
          /\ WF_vars(Judge(c)) /\ WF_vars(Vote(c)) /\ WF_vars(Return(c))

FairSpec == Spec /\ Fairness
-----------------------------------------------------------------------------
(* Properties.                                                              *)

\* "Cap how many operations (or attempts) run concurrently" (concurrency.rs):
\* in either scope, whatever retries, rejections by the breaker and dropped
\* calls do to the permits.
ConcurrencyCapped ==
    ~Scope("none") =>
        Cardinality({c \in Calls : pc[c] = "running"}) <= Permits

\* A retry has its own token, and a call loses at most one token to a retry
\* that never starts, although the deadlines are compared after the withdrawal
\* (drive).
TokenPerRetry ==
    policy.budget =>
        \A c \in Calls : /\ attempt[c] <= paid[c] + 1
                         /\ paid[c] <= attempt[c]

\* The calls that end without a vote only when they are dropped.
Voters == ~policy.budget /\ ~Scope("attempts")

\* "Circuit breaker sheds load off a failing dependency" (README): a closed
\* circuit lets no more failed attempts through than those of the calls that
\* trip it and of the calls under way.
LoadShed == Voters => strikes <= LoadLimit(drops)

\* "and recovers automatically" (README): once the dependency is back for
\* good the circuit closes and stays closed, if no call was dropped.
Recovers ==
    Voters /\ <>[](up /\ drops = 0) => <>[](state = "Closed")

\* The promise to shed load, of any policy.
OutageShed == (~up) ~> (up \/ state # "Closed")

=============================================================================
