# execution-policy in TLA+

`execution-policy` is a Rust library that runs an async operation under a
*policy*: a concurrency limit, a circuit breaker, a retry loop with backoff and
a shared retry budget, and two deadlines; a *router* spreads calls over several
policies and fails over between them. This directory holds TLA+ models of
its core, the TLC configurations that check them on small instances, and TLAPS
proofs of the theorems that hold for every value of the constants.

Source paths are relative to the parent of this directory; `src/` is the root
of the repository, so the crate is `src/src/`. `PROJECT.json` maps each
definition to the lines it models, lists the runs, for each property a plausible bug that
breaks it, the hazards of the code and the theorems.

To repeat a check, in this directory:

    tlc -workers 2 -config MCEngine.cfg MCEngine
    tlapm EngineProofs.tla

## The system

| Part | State it keeps | Operations | Model |
|---|---|---|---|
| engine (`engine.rs`) | per call: attempt number, permit, timers, last error | `run_pipeline`, `drive`, `acquire_permit`, and their boxed twins | `Engine`, `Call`; several calls of one policy: `Fleet` |
| circuit breaker (`breaker.rs`) | an atomic state; under a mutex the cooldown, counters, probe slots, window | `gate`, `record_success`, `record_failure`, `open`, `close` | `Breaker`, `Window`, `Circuit` |
| concurrency gate (`concurrency.rs`) | under a mutex: free permits and a queue of wakers | `try_acquire`, `queued`, `Acquire::poll`, `release` | `Semaphore`, `PermitPool` |
| retry budget (`retry/budget.rs`) | one atomic counter | `deposit`, `try_withdraw` | `RetryBudget`, `TokenBucket` |
| retry policy (`retry/mod.rs`, `classify.rs`) | none | `decide`, `delay` | part of `Engine` |
| backoff and jitter (`retry/backoff.rs`, `retry/jitter.rs`) | none | `raw_delay`, `apply`: fixed-width arithmetic | `RetryDelay` |
| router, members, picks (`router.rs`, `member.rs`, `pick.rs`) | per member: atomic in-flight and pick counts, meter, and the breaker of its policy | `run` and its twins, `healthy_members`, `choose`, failover, the hint of when a member is back | `Router`, `Failover` |
| latency meter (`meter.rs`) | per member: a moving estimate under a mutex | `fold` | none: floating point |
| stall watchdog (`stall.rs`) | an atomic progress counter | `tick`, `stall_timeout` | `Stall` |
| clock (`core/*.rs`) | `ManualClock`: offset and wakers | `now`, `sleep`, `advance` | a variable `now`; the test clock is `ManualClock` |
| builders, plan, errors, events | none | setters, validation, formatting | `Plan` and `Valid`, answers and events of `Engine` |

A call goes down one path: `run_pipeline` takes a permit if the limit covers
whole operations, passes the gate of the breaker and enters `drive`. `drive`
loops: take a permit if the limit covers attempts, run the operation against
its attempt timeout and what is left of the total deadline, drop the permit,
judge the result, ask the budget, back off, and again. `run_pipeline` then votes
for the breaker and returns. Many calls share one breaker, one semaphore and one
budget; a hook is told of every event after locks are released; any future may
be dropped at any await. A router scans the circuits of its members, scores the
healthy ones by counters that all routers and calls share, runs the policy of the
best, and on to the next if that fails. The watchdog stands beside all this: it
polls an operation, and a timer that only silence lets run out.

What makes it hard:

* **Interleaving.** A call uses the breaker several times (clock, lock-free load, lock,
  vote, event) with other calls in between. A vote counts in the state it
  finds, not the one that admitted the call.
* **Cancellation.** A dropped future runs its destructors and nothing else: it
  votes for nobody and its wakers stay in the queue.
* **Timers against results.** Operation, attempt timeout and deadline may be
  ready in the same poll, and each exit must tell the caller, the hook and the
  breaker the same story.
* **Stale readings.** Delays and cooldowns are computed from one reading of the
  clock and used at a later one.
* **Composition.** What one part leaves unsaid another misses: a call that ends for want
  of a token does not vote, a probe that does not vote keeps its slot.
* **Limits.** A full queue, an empty bucket, a saturating subtraction, a factor cut
  down to 32 bits.

Correctness, part by part:

* breaker: a bounded number of probes per half-open period; no early end of the
  cooldown and no cooldown longer than configured; it trips when it must; every
  transition is reported; an outage ends.
* gate: permits are conserved; no waiter sleeps without a waker; no free
  permit goes to nobody.
* budget: retries stay within burst plus share, however callers race.
* engine: attempts and answers agree; deadlines bound everything; a hint of the
  server is respected; permits are held for work only; the hook hears the
  whole story; delays follow the documented schedule; a bounded call ends.
* the parts together: concurrency is capped through retries; every retry has a
  token; load is shed in an outage and the circuit closes for good after it.
* watchdog: only silence stalls an operation, and silence does stall it; no sleeper of
  the test clock is left behind.
* router: the load of a member is what it serves; no member is tried twice; picks
  stay in balance; the hint of a cooling member is right; the answer agrees with
  what the members did.

## The modules

### Circuit, Window, Breaker (`src/src/breaker.rs`)

`Breaker` has a set of tasks, each making one call after another. The fields of
`BreakerRuntime` are variables of the same names. The code stores the atomic state
only while it holds the mutex, so a critical section is one action, but
what a *call* does is many: `Arrive` reads the clock, `GateFast` is the
lock-free load, `GateClosed`, `GateFirstProbe`, `GateProbe` and `GateReject` are the
branches of `gate` under the lock, `Finish` is the end of the operation and the
second reading of the clock, the four vote actions are `record_success` and
`record_failure` in and outside `HalfOpen`, `Emit` is the listener.
`EndWithoutVote` is a rejection inside `drive` or a dropped future. The clock
ticks between any two of these. `admitted` and `probes` are history variables.

`Window` is the sampling window: the vector of buckets becomes a set because
bucket starts strictly increase. `RecordVote` evicts, then merges into the
youngest bucket or adds one. A ratio is a fraction, a bucket width a constant
that stands for `max(span / 10, 1 ms)`. Only the counter that the trip reads is
kept: the window for `FailureRatio`, the count for `Consecutive`.

`Circuit` is the abstract promise of a breaker that counts failures in a row: a call asks in
one step and tells in another, and the cooldown is a switch. Under the mapping at the
end of `Breaker`, `cooling` is "open, and the clock short of `openUntil`", and a call is
`inside` from its admission to its vote. `Circuit` says which admissions and votes
there may be; that a call admitted by the lock-free load, or a vote with an old clock
reading, is one of them is what the refinement shows. A cooldown started by a late
vote may be over at once, so `Open` leaves `cooling` open.

### PermitPool, Semaphore (`src/src/concurrency.rs`, `acquire_permit`)

`Semaphore` has one action for each use of the mutex: `TryAcquire`,
`CheckQueue`, `PollAcquire`, `Release`; the executor is `Resume` (a task whose waker fired
is polled) and `PollTimers`. A waker names its task, and only `release` removes
one. A behaviour has one of the `Scenarios`, which says what else may happen: `Drop`,
`Expire` (a timer is due), `Repoll` (the task is polled for a sibling future).
`PermitPool` is the abstract promise: a set of holders no larger than the limit.

### TokenBucket, RetryBudget (`src/src/retry/budget.rs`)

A load and a weak compare-and-exchange are one step each, and an exchange may
fail for no reason. `TokenBucket` is the atomic bucket: deposit, grant, deny only when
the tokens do not cover a retry. Tokens are in the code's fixed point.

### RetryDelay, Call, Engine (`src/src/engine.rs`, `src/src/retry/`)

`Engine` is one call under a plan chosen at the start. A step ends at the next
reading of the clock or the next await. `pc` says where the call is:

| `pc` | code |
|---|---|
| `acquire`, `queued` | `acquire_permit`: before it first pends; awaiting it |
| `gate` | before `breaker.gate` |
| `ready`, `polling`, `running` | before the attempt starts; the first poll of the operation; awaiting it with its timers |
| `completed`, `timedOut`, `expired` | how the select of the attempt ended |
| `backoff`, `capping`, `sleeping`, `slept` | delay, cap by the deadline, sleep, the check after it |
| `vote` | back in `run_pipeline` |
| `done`, `dropped` | answered; the future was dropped |

What a call shares with others is a choice of its environment: a permit is free or
not, the gate admits or not and may find or make the circuit half-open, the vote may move the
circuit or not, the budget grants or not. `Semaphore`, `Breaker` and
`RetryBudget` model those. The hook hears `CircuitStateChanged` at the gate, and after the vote,
that is, after `Succeeded` or `GaveUp`: in `events` it is named by the new state. What an attempt returns is a record of what the
classifier, `record_when` and `retry_after` say about it, since the engine uses
nothing else. A plan is one that `ExecutionPolicyBuilder::validate` accepts (`Valid`).

`RetryDelay` is `Backoff::raw_delay` and `Jitter::apply` as operators: shift, factor,
checked multiplication and the fraction that a random sample picks, with the widths
of the machine integers as constants, so that small instances reach their ends. `Documented` is
what the documentation says instead. `Engine.Delay` puts the hint under the jittered
backoff, and the sample is an input.

`lateness` counts the ticks that pass while the call is not waiting, or waits although a
timer of it is due: on a prompt executor it is zero, and every bound on
time is stated up to it. `started`, `startedAt`, `notBefore`, `ends` are history variables.

`Call` is the abstract call: at most `limit` attempts, one at a time, then one
answer, and the answer is *earned*: `Ok` by the last attempt, an error by some attempt
that failed, a timeout or an exhausted budget by some attempt having been made,
`CircuitOpen` by none. Only the total deadline may end a call amid an attempt.

### Fleet (`src/src/engine.rs` over the shared parts)

`Engine` leaves what calls share to the environment; `Fleet` puts it back. Several calls of
one policy go through `run_pipeline` and `drive` around `PermitPool`, `Circuit` and
`TokenBucket`, the abstract modules that `Semaphore`, `Breaker` and `RetryBudget` are
shown to implement, so each use of one is one step (`Acquire`, `GateAdmits`, `PayIn`,
`Withdraw`, `Denied`, `Cast`). Time is gone: a cooldown ends (`CoolDown`), and a call with
deadlines may meet one (`Expires`): in an attempt only while the dependency is down, between
attempts at any time. The dependency goes down
and comes back (`Outage`, `Repair`), and an attempt fails if it is down at its end. `paid` and
`strikes` are history variables.

### Failover, Router (`src/src/router.rs`, `src/src/member.rs`, `src/src/pick.rs`)

`Router` is `RouterPolicy::run`, twice copied in the source as `run_owned` and
`run_boxed`. Every access to what callers share is a step: `ScanState` and
`ScanHint` are the two readings of a circuit in `healthy_members`, `Load` reads the
counters of one candidate for `choose`, `Dispatch` is the choice with the
acquisition of the guard, `Completed` is `record_attempt` (the guard still held),
`Resolve` and `Advance` drop the guard and then are the two exits of `after_attempt`, `Drop`
is a cancelled call. How the attempt ended is looked at only there and so chosen there.

The circuit of a member is reduced to what the router sees of it, the end of
its cooldown. `Trip` opens it at any time, with a clock reading that
may lag by `MaxLag`, as a vote reads the clock before it takes the lock
(`Breaker` models this in full). The best score is the least, ties going to the
member inserted first; a `custom` score may prefer anything or not be finite.

`Failover` is the abstract promise: each member found worth trying is tried at most once, one
at a time; a success or a permanent error ends the call; if none is left the
answer is `Exhausted` exactly when some operation failed.

### ManualClock, Stall (`src/src/core/test.rs`, `src/src/stall.rs`)

`ManualClock` is the offset of the virtual clock and its wakers. `advance` moves the
offset and collects the due wakers under the lock (`Advance`), and fires them one by one
after it (`Fire`). `Stall` is `stall_timeout` on that clock. A poll is many steps: the
operation (`OpReturns`, `OpPends`), the sample of its ticks (`Sample`), the three clock
readings of the deadline, of what is left, and of the due time (`Reset`, `Arm`,
`Sleep`), the comparison and the registration of `ManualSleep::poll` (`PollTimer`, `Pend`).
A scenario is *inline* when one thread polls everything and operations tick and
advance the clock within their own polls, as the tests do; otherwise other threads do
so between any two steps. `contact` and `heard` are history variables.

## The runs

`MC*.tla` hold symmetry sets, plans, policies and scenarios; no definition of a
model is replaced. The largest run, `fleet`, has 1.6 million distinct states.

| Run (cfg) | What it shows |
|---|---|
| `breaker` (`MCBreaker`) | 3 calls, 3 slots, threshold 2, cooldown 2, instants 0..4. `ProbesPerPeriod`: at most 2n-1 probes in a half-open period of n slots; `ImplementsCircuit`: trips, cooldowns, probes and recovery are those of `Circuit`; `EveryChangeIsReported` |
| `breaker_recovery` (`MCBreakerRecovery`) | failure ratio 1/2 over a window of span 3 and buckets of 2, 2 calls that always vote. `OutageTrips`, `WindowShape`, `NoSlotLeak`, and, under fairness, `RecoversFromOpen` and `HalfOpenResolves` |
| `semaphore` (`MCSemaphore`) | 4 tasks, 2 permits, queue of 2, with no disturbance and with all. `PermitConservation`, `WakerRegistered`, `ImplementsPool`; of the undisturbed behaviours `NoLostWakeup`, and `EverySleeperWakes` under fairness |
| `retry_budget` (`MCRetryBudget`) | 3 callers, 6 calls, 2/5 of a token per call, burst 2. `RetriesBounded`, `ImplementsBucket` |
| `engine` (`MCEngine`) | 17 plans, 5 outcomes, instants up to 4 and beyond while a timer is armed. `OneStory`: hook, breaker and caller are told the same, from the attempts to the end; `DeadlinesHonoured`, `PermitForWorkOnly`, `HintIsFloor`, `DelayWithinSchedule`, `ImplementsCall`, and `CallEnds` under fairness |
| `router` (`MCRouter`) | 2 callers, 3 calls, 2 members, cooldown 3, lag 1, instants 0..3, `round_robin` and any custom score. `InFlightBalance`, `PicksBalanced`, `HintIsSoonest`, `ImplementsFailover` |
| `fleet` (`MCFleet`) | 3 calls, 2 permits, 2 slots, threshold 2, 2 attempts, one outage, one dropped call, four policies: none, limited operations with deadlines, all parts with deadlines, limited attempts. `ConcurrencyCapped`, `TokenPerRetry`, `LoadShed`, and, under fairness, `Recovers` |
| `stall` (`MCStall`) | 2 watched operations on one thread, or 1 among other threads; budget 2, instants 0..6 in steps of 1 and 2. `SilenceOnly`, `SleepersWoken`, and, under fairness, `SilenceEnds` |

Four runs end in a counterexample: the code does not do what a comment or the
documentation says.

| Run | What the counterexample is |
|---|---|
| `breaker_probe_leak` | A probe that ends in `ConcurrencyRejected` or `RetryBudgetExhausted`, or is dropped, never gives its slot back. Once all slots are gone the circuit is half-open for ever and rejects everything; the README says it "recovers automatically". |
| `semaphore_lost_wakeup` | `release` pops the waker of a future that was dropped or timed out; a permit stays free while the next caller sleeps. |
| `engine_phantom_timeout` | Attempts that all returned a value which `when_outcome` retries, ended by `max_elapsed`, are answered `AttemptTimeout`, and the breaker counts a failure. |
| `fleet_outage` | With a retry budget, an outage goes on for ever before a closed circuit: once the budget is spent each call ends in `RetryBudgetExhausted`, which casts no vote (`engine.rs:114`), so its failed attempts never count. The README says that the breaker "sheds load off a failing dependency". |

### Bounds and why they are enough

* *Breaker*: one call can be the straggler, one the probe and one the newcomer, which is
  what a vote into the wrong period takes. `MaxTime`
  admits a trip, a cooldown, a probe and a second trip. `MaxVotes` stops new calls while
  a closed window is full, which keeps the failure-ratio instance finite;
  it is above the throughput that trips.
  With span 3 and width 2 two buckets coexist, merge and are evicted, also by readings that
  arrive in the wrong order.
* *Semaphore*: more tasks than permits plus the one that is woken, so that a
  release, a bargeing newcomer and a sleeper meet. `MaxWakers` stops repolls, each
  of which leaves a duplicate waker.
* *Budget*: the deposit does not divide the cost, so partial tokens and the cap
  both occur; three callers make one exchange lose against two others.
* *Engine*: the plans cover each stage present and absent, both scopes, either
  or both deadlines, `max_elapsed` with and without. Delays are 0 to 2, the hint
  is 2, the deadlines 2 and 3: a delay can be under, at and over what is left.
  Six plans of five attempts, two schedules with each jitter: from a base of 2 until the factor
  leaves its width (3) short of the max, where the delay (6) also leaves the range of
  nanoseconds, and from a base of 3 past the max (5) and past the longest duration (7).
  `MaxTime` stops the clock only when no timer is armed, so a wait always ends.
* *Router*: two members make a failover and a scan with two readings, in which the
  first may be opened again while the second is read. With a cooldown of 3 two hints can be alive
  whose ends lie further apart than the lag, and one can end within the instants. Three calls of two
  callers are what it takes to exceed the bound of `PicksBalanced`. A custom score may
  choose whatever `least_in_flight` and the other picks choose. `MaxCalls` stops
  the callers, so deadlock is not checked.
* *Fleet*: with three calls and two permits, probes or threshold, one call is always
  left over: queued, rejected, or a straggler of the outage. The bucket holds two
  tokens, a retry costs both and a call brings one, so grants and denials alternate. One outage can come
  at any point of any call, and a second would start from a state the first has
  passed through. One dropped call suffices to leak a probe slot.
* *Stall*: the budget is met, missed and overshot by steps of 1 and 2, and three budgets fit
  into the instants, so a timer is armed, kept past a tick, and armed again.

### Fairness

* *Breaker*: every task keeps calling and being polled, operations end (their
  attempt timeout sees to it), time passes. `RecoversFromOpen` needs traffic:
  in the code only a call can leave `Open`, and the property asks nothing
  once a straggler may still open the circuit again.
* *Semaphore*: a scheduled task is polled, a holder releases. Nobody has to call
  again, and weak fairness is enough because the queue is served in order.
* *Fleet*: calls keep coming and being polled, attempts end, cooldowns end. Nothing obliges the
  dependency to fail or to come back, a queue to be left for a permit that is not
  free, or a deadline to be met. `Recovers` assumes that the dependency is back for good and
  that no call was dropped (`breaker_probe_leak` is what a drop does), for policies all of whose
  calls vote: no budget, and no limit on attempts.
* *Stall*: scheduled tasks are polled, an operation returns from each poll, `advance`
  fires what it collected, and among threads the clock moves on. Nobody has to tick,
  and a tick wakes nobody.
* *Engine*: the task is polled when a timer is due, and time passes. There is no
  fairness on operations, permits or retries being granted: `CallEnds` says that timers alone end
  every call with a total deadline, or with a timer on each of its waits.

## The proofs

TLAPS checks them with the SMT backend, Zenon and LS4. They hold for every set of tasks or
plans and every value of the constants that satisfies the assumption of the
module, the bounds included: they are constants like the others.

**`BreakerProofs`** (`BreakerAssumption`: thresholds and slots at least 1 and a ratio of at most 1, as the builder
enforces). The bound on probes is not inductive. `Accounting` adds that, while
half-open, admissions are at most slots taken plus successes counted, and both
stay under the limit; `ClockReadings` that no call carries a reading from the
future, from which the bound on the cooldown follows. Theorems: `BreakerTypeOK`,
`ProbesPerPeriodHolds`, `EveryChangeIsReportedHolds`, and `NoSlotLeakHolds` for finitely
many calls that all vote, where probes must also be shown to be among the calls
that are past the gate. `Refinement`: a breaker with `TripKind = "Consecutive"` implements
`Circuit`. It rests on three theorems of their own right: `ClosedBelowThresholdHolds` (a closed
circuit is below its threshold, so the capped count of `Circuit` trips when the code
does), `OpenIsCoolingHolds` (an open circuit has a cooldown, at most `open_for` from now) and, with
`ClockReadings`, `CooldownHonouredHolds` (no stale reading ends it early). The lemmas `Inside`
and `Outside` say what a step of a call does to the set of calls that may still vote.

`WindowShapeHolds` is about one vector of buckets and any order of clock readings. The shape is
inductive only with the claim that a window that is not empty has a youngest bucket, which
the prover cannot derive and a late vote needs: it merges into that bucket.
`WithinCapacityHolds` follows from the shape: counted from the youngest bucket
no two share a slot of a bucket's width, so there is at most one bucket more than fit
into the span, for which `Window::new` reserves room. `OutageTripsHolds` compares two sums
over the buckets, each a fold of the community modules. What a fold computes takes
induction, which is replaced by a least counterexample: `SumExists` shows that the recursion of the fold has a
solution, `FailuresBelowTotal` that a window with a success in it has fewer failures than
votes, since the smallest part of it that had not would have a smaller one. With `SuccessSeen` (a vote
of success leaves such a bucket) and the ratio of at most 1, `OutageTrips` holds after every vote.

**`SemaphoreProofs`** (`SemaphoreAssumption`: finitely many tasks, at least one
permit). Permits, registered wakers and types are inductive together. `NoLostWakeupHolds`
assumes no disturbances, and needs `CalmInv`: the queue holds each
sleeper once and nobody else, so a popped waker always wakes a sleeper. Without that
assumption the claim is false (`semaphore_lost_wakeup`). `Refinement`: the gate implements
`PermitPool`.

**`RetryBudgetProofs`** (`RetryBudgetAssumption`: a ratio of at most 1, a burst of at
least 1). `Ledger`: tokens in the bucket and tokens spent together are at most
the burst plus the deposits. `Refinement`: a successful exchange is the atomic
operation, a load that is too low is the denial, all else is invisible.

**`EngineProofs`** (`EngineAssumption`: plans have the fields and ranges the builder
accepts, with an attempt timeout within the total one; only errors carry hints). `IInv` has six parts
besides the types:

* `Shape`: where the call is in its attempts. The number of ended attempts
  follows from `pc`; backing off implies that an attempt is left; a kept error was
  returned by some attempt; there is an answer exactly from the vote on.
* `PermitForWorkOnly`, inductive with `Shape`: rejection in the operations scope
  happens before the first attempt only.
* `Timely`: the clock, and every armed timer, are ahead of the deadline by at most
  the lateness. This needs the timers because a tick that is nobody's fault is one
  before an armed timer is due.
* `Patient`: the earliest instant of the next attempt is covered by the hint,
  then by the delay, then by the sleep, unless the cap has cut the delay to the
  deadline, in which case no attempt follows.
* `Heard`: the hook knows all about the attempts that are over and the retries after them, except
  the attempt `drive` has not looked at yet and an error that may still be the answer. An event that was
  told stays told, so only the steps that end an attempt or emit have work to do.
* `Story`: no end and no change to `Open` or `Closed` is told before there is an answer; then the events
  conclude the call as the answer says (`Concluded`), and after the vote they are
  such a sequence and a transition that the vote may make. Which answers are silent depends on
  whether the retry of the last attempt was announced, so `Heard` says where it was.

The delays need bounds on the arithmetic first: `RawDelayType` and `RawDelayDocumented` (the
backoff is the documented one as long as shift and factor fit), `RawDelayGrows` (past that it stays
within its max and never falls back), `FractionBound` and `JitterBounds`.
`RetryDelayAssumption` says that powers of two are natural numbers and increase, which
the prover cannot derive, and that the widths are positive; nothing else about them is used.

Theorems: `EngineTypeOK`, `PermitForWorkOnlyHolds`, `DeadlinesHonouredHolds`, `HintIsFloorHolds`,
`DelayWithinScheduleHolds`, `OneStoryHolds` (from `AttemptsToldHolds` and `EndToldHolds`),
`Refinement` (the engine implements `Call`: attempts stay within `max_attempts`
and every answer is earned, under every plan).

**`RouterProofs`** (`RouterAssumption`: at least one member, which the builder enforces, finitely
many callers; any cooldown and any lag of the clock readings). There are three arguments, each
resting on the one before.

* `IInv`: the members tried and those left to try are together no more than there are
  (`Located`), so a call ends its attempts where the code says; no cooldown ends later than one
  cooldown from now, and a hint is no later than the ends it was made of (`Hinted`). With
  it, the load of a member is the number of calls that hold its guard.
  Theorems: `RouterTypeOK`, `InFlightBalanceHolds`, `HintIsSoonestHolds`.
* `Refinement`: a router implements `Failover`. `Mapped` reduces a step of one caller to its
  locals; readings of shared counters are hidden steps, a dispatch is a try, the two exits of
  `after_attempt` are an end with or without a next try. The choice among the best
  candidates is a candidate because a finite set of members has a least one (well-foundedness of
  `<` on the naturals).
* `BalanceInv`, for `round_robin` before any cooldown or failover. A bound on
  the difference of two counters is not inductive: a caller reads the counters one by one, and
  raises one when its attempt is over. Take a level v that one counter has not passed. Whoever raises another
  past v chose it because it read at most v of it: such a caller holds a
  *licence* until it has counted. `PicksAccounted` says that a counter past v, together with the
  licences still out, is at most v plus the number of callers. A call that starts to
  score after the counter passed v reads more than v there and, as some other counter is not past v,
  chooses elsewhere. Theorem: `PicksBalancedHolds`.

**`FleetProofs`** (`FleetAssumption`: finitely many calls, limits and costs at least 1, a deposit of at
most the cost of a retry). `IInv` has three parts besides the types:

* `CapInv`: whoever works under a limit holds a permit, and permits are no more
  than the limit. Theorem: `ConcurrencyCappedHolds`.
* `Accounts`: under a budget a call has paid for all its attempts but the first, and the payment
  comes before the backoff. Theorem: `TokenPerRetryHolds`.
* `ShedInv`: failed attempts that a closed circuit let through belong to a failure
  it has counted (at most `max_attempts` each), to a call still under way
  (`Charges`), or to a call dropped before its vote (all its attempts but the last). A failure
  that is counted moves its attempts from the second group to the first. The charges are summed
  as the cardinality of a set of pairs (`Tally`), so that the theorems on finite sets apply. Theorem:
  `LoadShedHolds`, for policies whose calls all vote.

**`StallProofs`** (`StallAssumption`: any budget, any positive steps of the clock). `BudgetAhead`
follows the budget from the sample that saw the last tick through the deadline,
the remaining time and the timer, each computed from a clock reading of its own: at none of these points is
the end less than a budget after that tick. On one thread nothing may happen between the
comparison and the registration of a sleep, because only one operation is being polled
(`OneAtATime`); among threads `SleepersWoken` says less, and needs no more than itself. Theorems:
`StallTypeOK`, `SleepersWokenHolds`, and the action property `SilenceOnlyHolds`.

Only model-checked is everything under fairness (`RecoversFromOpen`, `HalfOpenResolves`,
`EverySleeperWakes`, `CallEnds`, `Recovers`, `SilenceEnds`): liveness and `ENABLED` are out of
the prover's reach. Every other property of the passing runs is a theorem.

## What is not modelled, and why

* The meter: its fold and the scores that read it are floating point; an arbitrary score
  covers every choice they could make. Weights likewise. Its one hazard is of order: a
  sample reads the clock before the lock (`router.rs:339`), so samples are folded out
  of order and `last_update` may move back, after which the next fold decays too much.
* The tokio core: three calls of tokio.
* The router's `deadline`: a value handed back to the caller, by design not enforced.
* The values of random numbers: an input.
* `state_at` and `cooling_until` of the breaker: read-only; part of `Router`, their only reader.
* The u32 width of the counters of the breaker: overflow takes 2^32 votes.
* The generic and the boxed engine are the same text twice; one module stands
  for both and the map names both.
* Panics of the operation: they unwind through the same destructors as a drop, which
  is what `Drop` and `Release` model.
* Builders, formatting, accessors, examples, benches: no behaviour to check.

Divergences seen while reading that no run states:

* More than `half_open_max_calls` probes may run at once: the vote of a call admitted before the trip
  frees the slot of a running probe. `ProbesPerPeriod` is the bound that holds.
* The queue is checked and joined in two critical sections, so more than `max_queued` may wait.
* The factor of the exponential backoff is cut down to 2^32-1 from attempt 33 on, so with a very
  large `max` delays stop doubling; `FitsWidth` is where the documentation holds, and
  `DelayWithinSchedule` says what holds beyond.
* A deadline that passes during the backoff is answered `TotalTimeout` without
  the `GaveUp` that every other exhausted call emits, and that `event.rs:22` promises: the hook is left
  with a retry that never comes. `OneStory` names this answer as one of two silent ones.
* `advance` may come between the comparison and the registration of `ManualSleep::poll`;
  the sleeper is then due and only woken by the next `advance` (`SleepersWoken` says what holds).
* A tick of another thread after the sample does not save an operation whose timer is due; and since a
  tick wakes nobody, silence may be noticed up to two budgets after the last tick.
* "`None` until the first successful fold" (`member.rs:22`): `Meter::peak_ewma` folds a failure that
  comes first into a reading of zero, which `choose` does not tell from `None`.
* Every probe emits `CircuitStateChanged(HalfOpen)`, and a failure while open emits
  `Open` again, though the state does not change.
* `queued()` counts wakers, so dead and duplicate ones make the queue look full and
  reject callers early.
* In the attempts scope a rejected permit is answered with the number of an attempt that
  never ran.
* `RouterError::AllUnavailable` is documented as "nothing was attempted" (`router.rs:46`), and is also
  the answer when every attempted member failed without an operation error
  (`router.rs:435`).
* `next_available_at` is documented as "the soonest a member leaves cooling"
  (`router.rs:47`). A member found healthy that trips later is not in the minimum, nor is one
  whose cooldown ended between the two readings; `HintIsSoonest` is stated for the
  members whose end was read.
* "A score can never route to an open breaker" (`pick.rs`): a member that trips
  between scan and choice is still chosen, and rejects the call.
* The documentation caps the server's hint by `max_backoff`; `Retry::delay` does not.

## Plan

Done: every component with concurrency or a state of its own except the meter, and a
proof of each safety property, action property and refinement. What is left:

* that the whole breaker, gate and budget may stand in for their abstract modules within `Fleet`:
  each is shown to implement its module, but the composition is by argument only.
