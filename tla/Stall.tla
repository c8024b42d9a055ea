-------------------------------- MODULE Stall -------------------------------
(***************************************************************************)
(* stall_timeout (src/src/stall.rs): operations watched for silence, on    *)
(* the virtual clock.  A watched operation is one task; a poll of it polls *)
(* the operation, samples its ticks, and polls a timer, which is dropped   *)
(* and armed again whenever ticks were seen.                               *)
(*                                                                         *)
(* In an inline scenario one thread polls the tasks, and it is in the      *)
(* polls of the operations that they tick and that time passes, as in the  *)
(* tests.  In the others, other threads tick and advance the clock between *)
(* any two steps; a tick wakes nobody.                                     *)
(***************************************************************************)
EXTENDS ManualClock

CONSTANTS Budget,
          Scenarios,   \* who moves the clock, and which operations there are
          Steps,       \* by how much the clock is advanced at once
          NoTimer,     \* Option::None
          MaxTime      \* bound: the clock stops here

ASSUME StallAssumption ==
    /\ Budget \in Nat
    /\ Scenarios \subseteq [inline : BOOLEAN, watched : SUBSET Sleepers]
    /\ Steps \subseteq Nat \ {0}
    /\ NoTimer \notin Nat
    /\ MaxTime \in Nat

VARIABLES
    scenario,   \* never changes
    w           \* the watched operations

vars == <<clock, scenario, w>>

Final == {"returned", "stalled"}
PCs == {"start", "idle", "op", "sample", "reset", "arm", "sleep", "timer",
        "register"} \cup Final

Watched ==
    [pc : PCs,
     scheduled : BOOLEAN,           \* the executor was told to poll the task
     fresh : BOOLEAN,               \* ticks differ from last_ticks
     deadline : Nat,                \* until the timer is armed with it
     left : Nat,                    \* the argument of core.sleep
     timer : Nat \cup {NoTimer},    \* sleep: when it is due
     contact : Nat,                 \* history: instant of the last tick
     heard : Nat]                   \* history: contact at the last sample

TypeOK ==
    /\ ClockTypeOK
    /\ scenario \in Scenarios
    /\ w \in [Sleepers -> Watched]

\* Where an operation is before and after it is watched.
Unwatched(pc) ==
    [pc |-> pc, scheduled |-> FALSE, fresh |-> FALSE, deadline |-> 0,
     left |-> 0, timer |-> NoTimer, contact |-> 0, heard |-> 0]

Init ==
    /\ ClockInit
    /\ scenario \in Scenarios
    /\ w = [s \in Sleepers |-> Unwatched("start")]

Inline == scenario.inline
Busy(s) == w[s].pc \notin {"start", "idle"} \cup Final
\* One thread finishes a poll before it begins another.
Turn(s) == Inline => \A r \in Sleepers \ {s} : ~Busy(r)
-----------------------------------------------------------------------------
\* The first poll begins: the deadline counts from here.
Start(s) ==
    /\ w[s].pc = "start" /\ s \in scenario.watched
    /\ Turn(s)
    /\ w' = [w EXCEPT ![s].pc = "op", ![s].deadline = offset + Budget,
                      ![s].contact = offset, ![s].heard = offset]
    /\ UNCHANGED <<clock, scenario>>

Poll(s) ==
    /\ w[s].pc = "idle"
    /\ w[s].scheduled
    /\ Turn(s)
    /\ w' = [w EXCEPT ![s].pc = "op", ![s].scheduled = FALSE]
    /\ UNCHANGED <<clock, scenario>>

\* The operation, or a thread that has its Progress, makes contact.
Tick(s) ==
    /\ w[s].pc \notin {"start"} \cup Final
    /\ Inline => w[s].pc = "op"
    /\ w' = [w EXCEPT ![s].fresh = TRUE, ![s].contact = offset]
    /\ UNCHANGED <<clock, scenario>>

\* Time passes; the threads of "inline" do it inside their operations.
Pass ==
    /\ Inline => \E s \in Sleepers : w[s].pc = "op"
    /\ \E d \in Steps : offset + d <= MaxTime /\ Advance(d)
    /\ UNCHANGED <<scenario, w>>

Wake(s) ==
    /\ Fire(s)
    /\ w' = [w EXCEPT ![s].scheduled = TRUE]
    /\ UNCHANGED scenario

\* The operation asks to be polled again.
Reschedule(s) ==
    /\ w[s].pc = "idle" /\ ~w[s].scheduled
    /\ w' = [w EXCEPT ![s].scheduled = TRUE]
    /\ UNCHANGED <<clock, scenario>>

OpReturns(s) ==
    /\ w[s].pc = "op"
    /\ w' = [w EXCEPT ![s] = Unwatched("returned")]
    /\ UNCHANGED <<clock, scenario>>

OpPends(s) ==
    /\ w[s].pc = "op"
    /\ Inline => waking = {}   \* advance() has returned
    /\ w' = [w EXCEPT ![s].pc = "sample"]
    /\ UNCHANGED <<clock, scenario>>

\* Mutant of Observed: the timer of before the tick is kept.
ObservedKeepingTimer(s) ==
    [w EXCEPT ![s].pc = "reset", ![s].fresh = FALSE, ![s].heard = w[s].contact]

\* Ticks were seen: `sleep = None`, and the clock is read.
Observed(s) ==
    [w EXCEPT ![s].pc = "reset", ![s].fresh = FALSE, ![s].timer = NoTimer,
              ![s].heard = w[s].contact]

Sample(s) ==
    /\ w[s].pc = "sample"
    /\ w' = IF w[s].fresh THEN Observed(s)
            ELSE [w EXCEPT ![s].pc = IF w[s].timer = NoTimer THEN "arm"
                                                             ELSE "timer"]
    /\ UNCHANGED <<clock, scenario>>

Reset(s) ==
    /\ w[s].pc = "reset"
    /\ w' = [w EXCEPT ![s].pc = IF w[s].timer = NoTimer THEN "arm" ELSE "timer",
                      ![s].deadline = offset + Budget]
    /\ UNCHANGED <<clock, scenario>>

\* Mutant of Left: a plain subtraction.
LeftUnsaturated(s) == w[s].deadline - offset

\* deadline.saturating_duration_since(core.now())
Left(s) == IF offset < w[s].deadline THEN w[s].deadline - offset ELSE 0

\* The timer is armed: core.sleep reads the clock once more.
Arm(s) ==
    /\ w[s].pc = "arm"
    /\ w' = [w EXCEPT ![s].pc = "sleep", ![s].deadline = 0,
                      ![s].left = Left(s)]
    /\ UNCHANGED <<clock, scenario>>

Sleep(s) ==
    /\ w[s].pc = "sleep"
    /\ w' = [w EXCEPT ![s].pc = "timer", ![s].timer = offset + w[s].left,
                      ![s].left = 0]
    /\ UNCHANGED <<clock, scenario>>

\* ManualSleep::poll.
PollTimer(s) ==
    /\ w[s].pc = "timer"
    /\ w' = [w EXCEPT ![s] = IF offset >= w[s].timer
                             THEN Unwatched("stalled")
                             ELSE [@ EXCEPT !.pc = "register"]]
    /\ UNCHANGED <<clock, scenario>>

Pend(s) ==
    /\ w[s].pc = "register"
    /\ Register(w[s].timer, s)
    /\ w' = [w EXCEPT ![s].pc = "idle"]
    /\ UNCHANGED scenario

\* The bound of the clock, or silence of everybody, leaves nothing to do.
Quiet ==
    /\ \A s \in Sleepers : s \in scenario.watched => w[s].pc \in {"idle"} \cup Final
    /\ UNCHANGED vars

Watch(s) == Sample(s) \/ Reset(s) \/ Arm(s) \/ Sleep(s) \/ PollTimer(s)
               \/ Pend(s)

Next == \/ \E s \in Sleepers :
              \/ Start(s) \/ Poll(s) \/ Tick(s) \/ Wake(s) \/ Reschedule(s)
              \/ OpReturns(s) \/ OpPends(s) \/ Watch(s)
        \/ Pass \/ Quiet

Spec == Init /\ [][Next]_vars

(* Scheduled tasks are polled, an operation ends each of its polls, advance *)
(* fires what it has collected, and other threads move the clock on.        *)
Fairness ==
    /\ WF_vars(~Inline /\ Pass)
    /\ \A s \in Sleepers :
          /\ WF_vars(Start(s)) /\ WF_vars(Poll(s)) /\ WF_vars(Wake(s))
          /\ WF_vars(OpPends(s) \/ OpReturns(s)) /\ WF_vars(Watch(s))

FairSpec == Spec /\ Fairness
-----------------------------------------------------------------------------
(* Properties.                                                              *)

\* "Fire on silence, never on a slow-but-live op" (stall.rs): an operation is
\* only stalled a whole budget after the last tick the poll had sampled, and
\* when it ticks in its own polls there is no later one.
SilenceOnly ==
    [][\A s \in Sleepers :
          w[s].pc = "timer" /\ w'[s].pc = "stalled"
              => /\ offset >= w[s].heard + Budget
                 /\ Inline => w[s].heard = w[s].contact]_vars

\* "waking any sleeps whose deadline is now crossed" (core/test.rs): on one
\* thread a sleep that is due has woken its task.  With others, whose advance
\* may come between the comparison and the registration, its waker is at least
\* there for the next advance.
SleepersWoken ==
    \A s \in Sleepers :
        w[s].pc = "idle" =>
            \/ w[s].scheduled \/ s \in waking
            \/ /\ [due |-> w[s].timer, sleeper |-> s] \in wakers
               /\ Inline => offset < w[s].timer

\* A silent operation is dropped: it makes contact, or it ends, though no tick
\* and maybe no wake-up is left to come, provided that the clock still moves on
\* and gets to the timer.
SilenceEnds ==
    \A s \in Sleepers :
        (/\ ~Inline /\ w[s].pc = "idle" /\ ~w[s].fresh
         /\ w[s].timer <= MaxTime /\ offset < MaxTime)
            ~> (w[s].fresh \/ w[s].pc \in Final)

=============================================================================
