---------------------------- MODULE StallProofs -----------------------------
(***************************************************************************)
(* Safety of the stall watchdog on the virtual clock, for any number of    *)
(* watched operations, any budget and any steps of the clock.              *)
(*                                                                         *)
(* That a stall is silence of a whole budget needs the budget to be        *)
(* followed from the sample that saw the last tick through the deadline,   *)
(* the argument of the sleep and the timer (BudgetAhead).  That no wake-up *)
(* is lost on one thread needs that time only passes inside an operation,  *)
(* hence never between the comparison and the registration (OneAtATime).   *)
(***************************************************************************)
EXTENDS Stall, TLAPS

\* Of a watched operation x: a timer is armed exactly where it is polled or
\* waited for.
TimerKept(x) ==
    /\ x.pc \in {"timer", "register", "idle"} => x.timer # NoTimer
    /\ x.pc \in {"start", "reset", "arm", "sleep"} => x.timer = NoTimer

\* What was sampled was said, and what was said is past.
ContactPast(x) ==
    /\ x.heard <= x.contact /\ x.contact <= offset
    /\ ~x.fresh => x.heard = x.contact

\* A whole budget lies between the last tick that was sampled and the end of
\* the timer, wherever the poll has got with computing it.
BudgetAhead(x) ==
    /\ x.pc \in {"op", "sample", "arm"} /\ x.timer = NoTimer
          => x.heard + Budget <= x.deadline
    /\ x.pc = "sleep" => x.heard + Budget <= offset + x.left
    /\ x.timer # NoTimer => x.heard + Budget <= x.timer

\* On one thread nothing is said after the sample, and a timer about to be
\* registered is still ahead.
Undisturbed(x) ==
    Inline => /\ x.pc \in {"reset", "arm", "sleep", "timer", "register"}
                    => ~x.fresh
              /\ x.pc = "register" => offset < x.timer

Sound(x) == TimerKept(x) /\ ContactPast(x) /\ BudgetAhead(x) /\ Undisturbed(x)

\* One thread polls one task at a time.
OneAtATime == Inline => \A s, r \in Sleepers : Busy(s) /\ Busy(r) => s = r

IInv == /\ TypeOK
        /\ \A s \in Sleepers : Sound(w[s])
        /\ OneAtATime
        /\ SleepersWoken

-----------------------------------------------------------------------------
Resting == {"start", "idle"} \cup Final

\* A step of one task under a clock that stands still: the others stay sound,
\* and on one thread the task may be amid a poll if it was, or no other is.
LEMMA TaskStep ==
    ASSUME IInv, NEW s \in Sleepers, NEW y \in Watched,
           w' = [w EXCEPT ![s] = y],
           UNCHANGED <<offset, scenario>>,
           Sound(y),
           y.pc \notin Resting => Busy(s) \/ Turn(s)
    PROVE  /\ w' \in [Sleepers -> Watched]
           /\ w'[s] = y /\ \A r \in Sleepers \ {s} : w'[r] = w[r]
           /\ \A r \in Sleepers : Sound(w[r])'
           /\ OneAtATime'
<1>1. /\ w' \in [Sleepers -> Watched]
      /\ w'[s] = y /\ \A r \in Sleepers \ {s} : w'[r] = w[r]
  BY DEF IInv, TypeOK
<1>2. ASSUME NEW r \in Sleepers PROVE Sound(w[r])'
  <2>1. Sound(w'[r])
    BY <1>1 DEF IInv
  <2> QED
    BY <2>1 DEF Sound, TimerKept, ContactPast, BudgetAhead, Undisturbed, Inline
<1>3. OneAtATime'
  <2> SUFFICES ASSUME Inline, NEW q \in Sleepers, NEW r \in Sleepers,
                      Busy(q)', Busy(r)'
               PROVE  q = r
    BY DEF OneAtATime, Inline
  <2>1. \A p \in Sleepers \ {s} : Busy(p)' => Busy(p)
    BY <1>1 DEF Busy
  <2>2. Busy(s)' => Busy(s) \/ \A p \in Sleepers \ {s} : ~Busy(p)
    BY <1>1 DEF Busy, Turn, Resting
  <2>3. \A p1, p2 \in Sleepers : Busy(p1) /\ Busy(p2) => p1 = p2
    BY DEF IInv, OneAtATime
  <2> QED
    BY <2>1, <2>2, <2>3
<1> QED
  BY <1>1, <1>2, <1>3

\* So is the invariant, if the clock is not touched at all and the task does
\* not go to sleep, or keeps what it sleeps by.
LEMMA PollStep ==
    ASSUME IInv, NEW s \in Sleepers, NEW y \in Watched,
           w' = [w EXCEPT ![s] = y],
           UNCHANGED <<clock, scenario>>,
           Sound(y),
           y.pc \notin Resting => Busy(s) \/ Turn(s),
           y.pc = "idle" => \/ y.scheduled
                            \/ w[s].pc = "idle" /\ ~w[s].scheduled
                               /\ y.timer = w[s].timer
    PROVE  IInv'
<1>1. UNCHANGED <<offset, wakers, waking>>
  BY DEF clock
<1>2. /\ w' \in [Sleepers -> Watched]
      /\ w'[s] = y /\ \A r \in Sleepers \ {s} : w'[r] = w[r]
      /\ \A r \in Sleepers : Sound(w[r])'
      /\ OneAtATime'
  BY <1>1, TaskStep
<1>3. TypeOK'
  BY <1>1, <1>2 DEF IInv, TypeOK, ClockTypeOK
<1>4. SleepersWoken'
  BY <1>1, <1>2 DEF IInv, SleepersWoken, Inline
<1> QED
  BY <1>2, <1>3, <1>4 DEF IInv

-----------------------------------------------------------------------------
\* What a poll may rely on when it looks at its task.
LEMMA Looked ==
    ASSUME IInv, NEW s \in Sleepers
    PROVE  /\ w \in [Sleepers -> Watched] /\ w[s] \in Watched
           /\ offset \in Nat /\ Budget \in Nat
           /\ Sound(w[s])
           /\ w[s].timer # NoTimer => w[s].timer \in Nat
  BY StallAssumption DEF IInv, TypeOK, ClockTypeOK, Watched

\* The invariant holds before the first poll.
THEOREM InitIInv == Init => IInv
<1> SUFFICES ASSUME Init PROVE IInv
  OBVIOUS
<1>1. Unwatched("start") \in Watched
  BY DEF Unwatched, Watched, PCs
<1>2. w \in [Sleepers -> Watched] /\ \A s \in Sleepers : w[s] = Unwatched("start")
  BY <1>1 DEF Init
<1>3. TypeOK
  BY <1>2 DEF Init, ClockInit, TypeOK, ClockTypeOK
<1>4. ASSUME NEW s \in Sleepers PROVE Sound(w[s])
  BY <1>2 DEF Init, ClockInit, Unwatched, Sound, TimerKept, ContactPast,
              BudgetAhead, Undisturbed
<1>5. OneAtATime /\ SleepersWoken
  BY <1>2 DEF Unwatched, OneAtATime, SleepersWoken, Busy
<1> QED
  BY <1>3, <1>4, <1>5 DEF IInv

\* The steps of a poll.
LEMMA PollKeeps ==
    ASSUME IInv, NEW s \in Sleepers,
           \/ Start(s) \/ Poll(s) \/ OpReturns(s) \/ OpPends(s)
           \/ Sample(s) \/ Reset(s) \/ Arm(s) \/ Sleep(s) \/ PollTimer(s)
    PROVE  IInv'
<1> DEFINE x == w[s]
<1> USE Looked DEF Watched, PCs, Final
<1>1. CASE Start(s)
  <2> DEFINE y == [x EXCEPT !.pc = "op", !.deadline = offset + Budget,
                            !.contact = offset, !.heard = offset]
  <2>1. y \in Watched /\ w' = [w EXCEPT ![s] = y]
    <3>1. w' = [w EXCEPT ![s] = y]
      BY <1>1 DEF Start
    <3>2. offset + Budget \in Nat
      OBVIOUS
    <3>3. y \in Watched
      BY <3>2
    <3> QED
      BY <3>1, <3>3
  <2>2. Sound(y)
    BY <1>1 DEF Start, Sound, TimerKept, ContactPast, BudgetAhead, Undisturbed
  <2>3. y.pc = "op" /\ Turn(s) /\ UNCHANGED <<clock, scenario>>
    BY <1>1 DEF Start
  <2> QED
    BY <2>1, <2>2, <2>3, PollStep
<1>2. CASE Poll(s)
  <2> DEFINE y == [x EXCEPT !.pc = "op", !.scheduled = FALSE]
  <2>1. y \in Watched /\ w' = [w EXCEPT ![s] = y]
    BY <1>2 DEF Poll
  <2>2. Sound(y)
    BY <1>2 DEF Poll, Sound, TimerKept, ContactPast, BudgetAhead, Undisturbed
  <2>3. y.pc = "op" /\ Turn(s) /\ UNCHANGED <<clock, scenario>>
    BY <1>2 DEF Poll
  <2> QED
    BY <2>1, <2>2, <2>3, PollStep
<1>3. CASE OpReturns(s)
  <2>1. Unwatched("returned") \in Watched
    BY DEF Unwatched
  <2>2. Sound(Unwatched("returned"))
    BY DEF Unwatched, Sound, TimerKept, ContactPast, BudgetAhead, Undisturbed
  <2>3. Unwatched("returned").pc = "returned"
    BY DEF Unwatched
  <2> QED
    BY <1>3, <2>1, <2>2, <2>3, PollStep DEF OpReturns, Resting
<1>4. CASE OpPends(s)
  <2> DEFINE y == [x EXCEPT !.pc = "sample"]
  <2>1. y \in Watched /\ w' = [w EXCEPT ![s] = y]
    BY <1>4 DEF OpPends
  <2>2. Sound(y)
    BY <1>4 DEF OpPends, Sound, TimerKept, ContactPast, BudgetAhead, Undisturbed
  <2>3. y.pc = "sample" /\ Busy(s) /\ UNCHANGED <<clock, scenario>>
    BY <1>4 DEF OpPends, Busy
  <2> QED
    BY <2>1, <2>2, <2>3, PollStep
<1>5. CASE Sample(s) /\ x.fresh
  <2> DEFINE y == [x EXCEPT !.pc = "reset", !.fresh = FALSE,
                            !.timer = NoTimer, !.heard = x.contact]
  <2>1. y \in Watched /\ w' = [w EXCEPT ![s] = y]
    BY <1>5 DEF Sample, Observed
  <2>2. Sound(y)
    BY <1>5 DEF Sample, Sound, TimerKept, ContactPast, BudgetAhead, Undisturbed
  <2>3. y.pc = "reset" /\ Busy(s) /\ UNCHANGED <<clock, scenario>>
    BY <1>5 DEF Sample, Busy
  <2> QED
    BY <2>1, <2>2, <2>3, PollStep
<1>6. CASE Sample(s) /\ ~x.fresh
  <2> DEFINE next == IF x.timer = NoTimer THEN "arm" ELSE "timer"
             y == [x EXCEPT !.pc = next]
  <2>1. y \in Watched /\ w' = [w EXCEPT ![s] = y]
    BY <1>6 DEF Sample
  <2>2. Sound(y)
    BY <1>6 DEF Sample, Sound, TimerKept, ContactPast, BudgetAhead, Undisturbed
  <2>3. y.pc \in {"arm", "timer"} /\ Busy(s) /\ UNCHANGED <<clock, scenario>>
    BY <1>6 DEF Sample, Busy
  <2> QED
    BY <2>1, <2>2, <2>3, PollStep
<1>7. CASE Reset(s)
  <2> DEFINE y == [x EXCEPT !.pc = "arm", !.deadline = offset + Budget]
  <2>1. x.timer = NoTimer
    BY <1>7 DEF Reset, Sound, TimerKept
  <2>2. y \in Watched /\ w' = [w EXCEPT ![s] = y]
    <3>1. w' = [w EXCEPT ![s] = y]
      BY <1>7, <2>1 DEF Reset
    <3>2. offset + Budget \in Nat
      OBVIOUS
    <3>3. y \in Watched
      BY <3>2
    <3> QED
      BY <3>1, <3>3
  <2>3. Sound(y)
    BY <1>7 DEF Reset, Sound, TimerKept, ContactPast, BudgetAhead, Undisturbed
  <2>4. y.pc = "arm" /\ Busy(s) /\ UNCHANGED <<clock, scenario>>
    BY <1>7 DEF Reset, Busy
  <2> QED
    BY <2>2, <2>3, <2>4, PollStep
<1>8. CASE Arm(s)
  <2> DEFINE y == [x EXCEPT !.pc = "sleep", !.deadline = 0, !.left = Left(s)]
  <2>1. Left(s) \in Nat /\ x.deadline <= offset + Left(s)
    BY DEF Left
  <2>2. y \in Watched /\ w' = [w EXCEPT ![s] = y]
    BY <1>8, <2>1 DEF Arm
  <2>3. Sound(y)
    BY <1>8, <2>1
       DEF Arm, Sound, TimerKept, ContactPast, BudgetAhead, Undisturbed
  <2>4. y.pc = "sleep" /\ Busy(s) /\ UNCHANGED <<clock, scenario>>
    BY <1>8 DEF Arm, Busy
  <2> QED
    BY <2>2, <2>3, <2>4, PollStep
<1>9. CASE Sleep(s)
  <2> DEFINE y == [x EXCEPT !.pc = "timer", !.timer = offset + x.left,
                            !.left = 0]
  <2>1. y \in Watched /\ w' = [w EXCEPT ![s] = y]
    <3>1. w' = [w EXCEPT ![s] = y]
      BY <1>9 DEF Sleep
    <3>2. offset + x.left \in Nat
      OBVIOUS
    <3>3. y \in Watched
      BY <3>2
    <3> QED
      BY <3>1, <3>3
  <2>2. Sound(y)
    BY <1>9, StallAssumption
       DEF Sleep, Sound, TimerKept, ContactPast, BudgetAhead, Undisturbed
  <2>3. y.pc = "timer" /\ Busy(s) /\ UNCHANGED <<clock, scenario>>
    BY <1>9 DEF Sleep, Busy
  <2> QED
    BY <2>1, <2>2, <2>3, PollStep
<1>10. CASE PollTimer(s) /\ offset >= x.timer
  <2>1. Unwatched("stalled") \in Watched
    BY DEF Unwatched
  <2>2. Sound(Unwatched("stalled"))
    BY DEF Unwatched, Sound, TimerKept, ContactPast, BudgetAhead, Undisturbed
  <2>3. Unwatched("stalled").pc = "stalled"
    BY DEF Unwatched
  <2> QED
    BY <1>10, <2>1, <2>2, <2>3, PollStep DEF PollTimer, Resting
<1>11. CASE PollTimer(s) /\ ~(offset >= x.timer)
  <2> DEFINE y == [x EXCEPT !.pc = "register"]
  <2>1. y \in Watched /\ w' = [w EXCEPT ![s] = y]
    BY <1>11 DEF PollTimer
  <2>2. Sound(y)
    BY <1>11
       DEF PollTimer, Sound, TimerKept, ContactPast, BudgetAhead, Undisturbed
  <2>3. y.pc = "register" /\ Busy(s) /\ UNCHANGED <<clock, scenario>>
    BY <1>11 DEF PollTimer, Busy
  <2> QED
    BY <2>1, <2>2, <2>3, PollStep
<1> QED
  BY <1>1, <1>2, <1>3, <1>4, <1>5, <1>6, <1>7, <1>8, <1>9, <1>10, <1>11

\* The steps that are no part of a poll.
LEMMA OthersKeep ==
    ASSUME IInv, NEW s \in Sleepers,
           Tick(s) \/ Reschedule(s) \/ Wake(s) \/ Pend(s)
    PROVE  IInv'
<1> DEFINE x == w[s]
<1> USE Looked DEF Watched, PCs, Final
<1>1. CASE Tick(s)
  <2> DEFINE y == [x EXCEPT !.fresh = TRUE, !.contact = offset]
  <2>1. y \in Watched /\ w' = [w EXCEPT ![s] = y] /\ y.pc = x.pc
    BY <1>1 DEF Tick
  <2>2. Sound(y)
    BY <1>1 DEF Tick, Sound, TimerKept, ContactPast, BudgetAhead, Undisturbed
  <2>3. y.pc \notin Resting => Busy(s)
    BY DEF Resting, Busy
  <2>4. y.pc = "idle" => \/ y.scheduled
                         \/ x.pc = "idle" /\ ~x.scheduled /\ y.timer = x.timer
    OBVIOUS
  <2> QED
    BY <1>1, <2>1, <2>2, <2>3, <2>4, PollStep DEF Tick
<1>2. CASE Reschedule(s)
  <2> DEFINE y == [x EXCEPT !.scheduled = TRUE]
  <2>1. /\ y \in Watched /\ w' = [w EXCEPT ![s] = y]
        /\ y.pc = "idle" /\ y.scheduled
    BY <1>2 DEF Reschedule
  <2>2. Sound(y)
    BY <1>2 DEF Sound, TimerKept, ContactPast, BudgetAhead, Undisturbed
  <2> QED
    BY <1>2, <2>1, <2>2, PollStep DEF Reschedule, Resting
<1>3. CASE Wake(s)
  <2> DEFINE y == [x EXCEPT !.scheduled = TRUE]
  <2>1. y \in Watched /\ w' = [w EXCEPT ![s] = y] /\ y.scheduled /\ y.pc = x.pc
    BY <1>3 DEF Wake
  <2>2. /\ UNCHANGED <<offset, wakers, scenario>>
        /\ waking' = waking \ {s}
    BY <1>3 DEF Wake, Fire
  <2>3. Sound(y)
    BY DEF Sound, TimerKept, ContactPast, BudgetAhead, Undisturbed
  <2>4. y.pc \notin Resting => Busy(s)
    BY DEF Resting, Busy
  <2>5. /\ w' \in [Sleepers -> Watched]
        /\ w'[s] = y /\ \A r \in Sleepers \ {s} : w'[r] = w[r]
        /\ \A r \in Sleepers : Sound(w[r])'
        /\ OneAtATime'
    BY <2>1, <2>2, <2>3, <2>4, TaskStep
  <2>6. TypeOK'
    BY <2>2, <2>5 DEF IInv, TypeOK, ClockTypeOK
  <2>7. SleepersWoken'
    BY <2>1, <2>2, <2>5 DEF IInv, SleepersWoken, Inline
  <2> QED
    BY <2>5, <2>6, <2>7 DEF IInv
<1>4. CASE Pend(s)
  <2> DEFINE y == [x EXCEPT !.pc = "idle"]
             mine == [due |-> x.timer, sleeper |-> s]
  <2>1. /\ y \in Watched /\ w' = [w EXCEPT ![s] = y]
        /\ y.pc = "idle" /\ y.timer = x.timer
    BY <1>4 DEF Pend
  <2>2. /\ UNCHANGED <<offset, waking, scenario>>
        /\ wakers' = wakers \cup {mine}
    BY <1>4 DEF Pend, Register
  <2>3. Sound(y)
    BY <1>4 DEF Pend, Sound, TimerKept, ContactPast, BudgetAhead, Undisturbed
  <2>4. /\ w' \in [Sleepers -> Watched]
        /\ w'[s] = y /\ \A r \in Sleepers \ {s} : w'[r] = w[r]
        /\ \A r \in Sleepers : Sound(w[r])'
        /\ OneAtATime'
    BY <2>1, <2>2, <2>3, TaskStep DEF Resting
  <2>5. x.timer \in Nat /\ (Inline => offset < x.timer)
    BY <1>4 DEF Pend, Sound, TimerKept, Undisturbed
  <2>6. TypeOK'
    BY <2>2, <2>4, <2>5 DEF IInv, TypeOK, ClockTypeOK
  <2>7. SleepersWoken'
    BY <2>1, <2>2, <2>4, <2>5 DEF IInv, SleepersWoken, Inline
  <2> QED
    BY <2>4, <2>6, <2>7 DEF IInv
<1> QED
  BY <1>1, <1>2, <1>3, <1>4

\* Time passes: whoever is due is collected.  On one thread somebody is in an
\* operation, so nobody is between the comparison and the registration.
LEMMA PassKeeps ==
    ASSUME IInv, Pass
    PROVE  IInv'
<1>1. PICK d \in Steps : Advance(d)
  BY DEF Pass
<1>2. /\ offset' = offset + d /\ offset' \in Nat /\ offset < offset'
      /\ wakers' = wakers \ Due(offset')
      /\ waking' = waking \cup {k.sleeper : k \in Due(offset')}
      /\ UNCHANGED <<scenario, w>>
  BY <1>1, StallAssumption DEF Pass, Advance, IInv, TypeOK, ClockTypeOK
<1>3. TypeOK'
  BY <1>2 DEF IInv, TypeOK, ClockTypeOK, Due
<1>4. ASSUME NEW s \in Sleepers PROVE Sound(w[s])'
  <2>1. Inline => w[s].pc # "register"
    BY DEF Pass, IInv, OneAtATime, Busy, Final
  <2>2. /\ Sound(w[s]) /\ offset \in Nat /\ w[s] \in Watched
    BY Looked
  <2>3. ContactPast(w[s])'
    BY <1>2, <2>2 DEF Sound, ContactPast, Watched
  <2>4. BudgetAhead(w[s])'
    BY <1>2, <2>2, StallAssumption DEF Sound, BudgetAhead, Watched
  <2>5. TimerKept(w[s])' /\ Undisturbed(w[s])'
    BY <1>2, <2>1, <2>2 DEF Sound, TimerKept, Undisturbed, Inline
  <2> QED
    BY <2>3, <2>4, <2>5 DEF Sound
<1>5. OneAtATime'
  BY <1>2 DEF IInv, OneAtATime, Inline, Busy
<1>6. SleepersWoken'
  <2> SUFFICES ASSUME NEW s \in Sleepers, w[s].pc = "idle",
                      ~w[s].scheduled, s \notin waking'
               PROVE  /\ [due |-> w[s].timer, sleeper |-> s] \in wakers'
                      /\ Inline => offset' < w[s].timer
    BY <1>2 DEF SleepersWoken, Inline
  <2> DEFINE mine == [due |-> w[s].timer, sleeper |-> s]
  <2>1. mine \in wakers
    BY <1>2 DEF IInv, SleepersWoken
  <2>2. mine \notin Due(offset')
    BY <1>2
  <2>3. ~(w[s].timer <= offset')
    BY <2>1, <2>2 DEF Due
  <2>4. w[s].timer \in Nat
    BY Looked DEF Sound, TimerKept
  <2> QED
    BY <1>2, <2>1, <2>2, <2>3, <2>4
<1> QED
  BY <1>3, <1>4, <1>5, <1>6 DEF IInv

\* Every step keeps the invariant.
THEOREM NextIInv == IInv /\ [Next]_vars => IInv'
<1> SUFFICES ASSUME IInv, [Next]_vars PROVE IInv'
  OBVIOUS
<1>1. CASE UNCHANGED vars
  BY <1>1 DEF vars, clock, IInv, TypeOK, ClockTypeOK, Sound, TimerKept,
              ContactPast, BudgetAhead, Undisturbed, OneAtATime, SleepersWoken,
              Inline, Busy
<1>2. CASE Pass
  BY <1>2, PassKeeps
<1>3. ASSUME NEW s \in Sleepers,
             \/ Start(s) \/ Poll(s) \/ Tick(s) \/ Wake(s) \/ Reschedule(s)
             \/ OpReturns(s) \/ OpPends(s) \/ Watch(s)
      PROVE  IInv'
  BY <1>3, PollKeeps, OthersKeep DEF Watch
<1> QED
  BY <1>1, <1>2, <1>3 DEF Next, Quiet

\* Every reachable state of the watchdog satisfies the inductive invariant.
THEOREM Invariance == Spec => []IInv
BY InitIInv, NextIInv, PTL DEF Spec

\* Type correctness of the clock and of the watched operations.
THEOREM StallTypeOK == Spec => []TypeOK
<1>1. IInv => TypeOK
  BY DEF IInv
<1> QED
  BY <1>1, Invariance, PTL

\* A sleeping task has been woken, is about to be, or has its waker where the
\* next advance finds it; on one thread it is not even due.
THEOREM SleepersWokenHolds == Spec => []SleepersWoken
<1>1. IInv => SleepersWoken
  BY DEF IInv
<1> QED
  BY <1>1, Invariance, PTL

\* An operation is stalled only a whole budget after the last tick that a poll
\* had sampled, which on one thread is the last tick there was.
THEOREM SilenceOnlyHolds == Spec => SilenceOnly
<1> DEFINE Silent ==
      \A s \in Sleepers :
          w[s].pc = "timer" /\ w'[s].pc = "stalled"
              => /\ offset >= w[s].heard + Budget
                 /\ Inline => w[s].heard = w[s].contact
<1>1. IInv /\ [Next]_vars => [Silent]_vars
  <2> SUFFICES ASSUME IInv, Next, NEW s \in Sleepers,
                      w[s].pc = "timer", w'[s].pc = "stalled"
               PROVE  /\ offset >= w[s].heard + Budget
                      /\ Inline => w[s].heard = w[s].contact
    BY DEF vars
  <2>1. w \in [Sleepers -> Watched] /\ offset \in Nat /\ Budget \in Nat
        /\ Sound(w[s]) /\ w[s] \in Watched
    BY Looked
  <2>2. offset >= w[s].timer
    <3>1. ASSUME NEW r \in Sleepers, r # s,
                 \/ Start(r) \/ Poll(r) \/ Tick(r) \/ Wake(r) \/ Reschedule(r)
                 \/ OpReturns(r) \/ OpPends(r) \/ Watch(r)
          PROVE  w'[s] = w[s]
      BY <2>1, <3>1 DEF Start, Poll, Tick, Wake, Reschedule, OpReturns,
            OpPends, Watch, Sample, Observed, Reset, Arm, Sleep, PollTimer, Pend
    <3>2. CASE Pass \/ Quiet
      BY <3>2 DEF Pass, Quiet, vars
    <3>3. CASE Tick(s) \/ Wake(s)
      <4>1. w'[s].pc = w[s].pc
        BY <2>1, <3>3 DEF Tick, Wake, Watched
      <4> QED
        BY <4>1
    <3>4. CASE PollTimer(s)
      BY <2>1, <3>4 DEF PollTimer, Watched
    <3>5. ~(Start(s) \/ Poll(s) \/ Reschedule(s) \/ OpReturns(s) \/ OpPends(s)
            \/ Sample(s) \/ Reset(s) \/ Arm(s) \/ Sleep(s) \/ Pend(s))
      BY DEF Start, Poll, Reschedule, OpReturns, OpPends, Sample, Reset, Arm,
             Sleep, Pend
    <3> QED
      BY <3>1, <3>2, <3>3, <3>4, <3>5 DEF Next, Watch
  <2>3. w[s].timer # NoTimer /\ w[s].heard + Budget <= w[s].timer
    BY <2>1 DEF Sound, TimerKept, BudgetAhead
  <2>4. Inline => w[s].heard = w[s].contact
    BY <2>1 DEF Sound, Undisturbed, ContactPast
  <2> QED
    BY <2>1, <2>2, <2>3, <2>4, StallAssumption DEF Watched
<1> QED
  BY <1>1, Invariance, PTL DEF Spec, SilenceOnly

=============================================================================
