----------------------------- MODULE FleetProofs -----------------------------
(***************************************************************************)
(* Safety of a fleet of calls for any number of calls, any policies, limit *)
(* and budget: the permits held while attempts run, the tokens paid for    *)
(* retries, and how much of the load a failing dependency still gets.      *)
(*                                                                         *)
(* The shed load is a matter of counting: each failed attempt a closed     *)
(* circuit let through belongs to a failure it has counted, to a call that *)
(* is still under way, or to one that was dropped before it voted.         *)
(***************************************************************************)
EXTENDS Fleet, FiniteSetTheorems, TLAPS

M == policy.maxAttempts

\* What c needs a permit for, it has a permit for.
Permitted(c) ==
    /\ Scope("operations") =>
          (pc[c] \in {"gate", "deposit", "running", "judge", "backoff"}
              => c \in holders)
    /\ Scope("attempts") => (pc[c] = "running" => c \in holders)

\* Without a limit nobody asks for a permit.
Unlimited(c) == Scope("none") => pc[c] \notin {"permit", "queued"}

CapInv ==
    /\ Cardinality(holders) <= Permits
    /\ \A c \in Calls : Permitted(c) /\ Unlimited(c)

\* A retry is paid for before the backoff it begins with.
Accounts(c) ==
    /\ pc[c] \in {"judge", "backoff"} => attempt[c] < M
    /\ policy.budget =>
          /\ attempt[c] <= paid[c] + 1
          /\ paid[c] <= attempt[c]
          /\ pc[c] \notin {"backoff", "vote", "return"} =>
                attempt[c] = paid[c] + 1
          /\ pc[c] = "backoff" => attempt[c] = paid[c]

\* Per call: its attempts that have failed and been neither counted nor
\* forgiven.
Charges == [c \in Calls |->
              IF pc[c] = "running" THEN attempt[c] - 1
              ELSE IF pc[c] \in {"judge", "backoff", "vote"} THEN attempt[c]
              ELSE 0]

\* The sum of f, as a set: the first f[c] of m pairs with c.
Tally(f, m) == {x \in Calls \X (1..m) : x[2] <= f[x[1]]}

Bound == failures * M + Cardinality(Tally(Charges, M)) + drops * (M - 1)

ShedInv ==
    Voters =>
        /\ \A c \in Calls : pc[c] = "vote" => verdict[c] # "none"
        /\ state = "Closed" => failures < Threshold
        /\ state # "Closed" => strikes = 0
        /\ strikes <= Bound

IInv ==
    /\ TypeOK
    /\ CapInv
    /\ \A c \in Calls : Accounts(c)
    /\ ShedInv

-----------------------------------------------------------------------------
(* Types.                                                                   *)

LEMMA PolicyType ==
    ASSUME TypeOK
    PROVE  /\ M \in Nat \ {0} /\ policy.budget \in BOOLEAN
           /\ policy.deadlines \in BOOLEAN
           /\ policy.scope \in {"none", "operations", "attempts"}
           /\ IsFiniteSet(Calls) /\ Cardinality(Calls) \in Nat
           /\ Permits \in Nat \ {0} /\ Threshold \in Nat \ {0}
           /\ HalfOpenMaxCalls \in Nat \ {0} /\ RetryCost \in Nat \ {0}
           /\ MaxTokens \in Nat /\ Deposit \in Nat
           /\ MaxOutages \in Nat /\ MaxDrops \in Nat
<1>1. policy \in Policy
  BY FleetAssumption DEF TypeOK
<1>2. Cardinality(Calls) \in Nat
  BY FleetAssumption, FS_CardinalityType
<1> QED
  BY <1>1, <1>2, FleetAssumption DEF M, Policy

LEMMA LoadLimitType ==
    ASSUME TypeOK, NEW d \in Nat
    PROVE  LoadLimit(d) \in Nat
<1>1. /\ M \in Nat /\ Threshold - 1 + Cardinality(Calls) \in Nat /\ M - 1 \in Nat
  BY PolicyType
<1>2. \A a, b, e \in Nat : a * b + d * e \in Nat
  OBVIOUS
<1> QED
  BY <1>1, <1>2 DEF LoadLimit, M

\* What a call is in its own right.
LEMMA CallTypeKept ==
    ASSUME IInv, [Next]_vars
    PROVE  /\ policy' \in Policies
           /\ pc' \in [Calls -> PCs]
           /\ attempt' \in [Calls -> 1..M]
           /\ verdict' \in [Calls -> Verdicts]
           /\ paid' \in [Calls -> 0..M]
           /\ UNCHANGED policy
<1>0. /\ TypeOK /\ M \in Nat \ {0}
      /\ policy.scope \in {"none", "operations", "attempts"}
      /\ pc \in [Calls -> PCs] /\ attempt \in [Calls -> 1..M]
      /\ verdict \in [Calls -> Verdicts] /\ paid \in [Calls -> 0..M]
      /\ policy \in Policies
  BY PolicyType DEF IInv, TypeOK, M
<1>1. 1 \in 1..M /\ 0 \in 0..M
  BY <1>0
<1> DEFINE Kept == UNCHANGED <<policy, attempt, verdict, paid>>
           Moves(c) == \E where \in PCs : pc' = [pc EXCEPT ![c] = where]
<1>2. ASSUME NEW c \in Calls, Start(c) \/ Ask(c) \/ Enter(c)
      PROVE  /\ UNCHANGED <<policy, attempt, paid>>
             /\ verdict' \in [Calls -> Verdicts] /\ Moves(c)
  <2>1. CASE Start(c)
    BY <1>0, <2>1 DEF Start, Goto, PCs
  <2>2. CASE Acquire(c) \/ Enqueue(c)
    BY <1>0, <2>2 DEF Acquire, Enqueue, Admitted, Goto, PCs
  <2>3. CASE Refuse(c)
    <3>1. UNCHANGED verdict \/ verdict' = [verdict EXCEPT ![c] = "none"]
      BY <2>3 DEF Refuse, Decide
    <3>2. verdict' \in [Calls -> Verdicts]
      BY <1>0, <3>1 DEF Verdicts
    <3> QED
      BY <2>3, <3>2 DEF Refuse, Decide, Goto, PCs
  <2>4. CASE Enter(c)
    BY <1>0, <2>4
       DEF Enter, GateAdmits, GateRejects, PayIn, LoopHead, Goto, PCs
  <2> QED
    BY <1>2, <2>1, <2>2, <2>3, <2>4 DEF Ask
<1>3. ASSUME NEW c \in Calls, Work(c) \/ Denied(c)
      PROVE  /\ UNCHANGED <<policy, attempt, paid>>
             /\ verdict' \in [Calls -> Verdicts] /\ Moves(c)
  <2>1. UNCHANGED verdict \/ \E v \in Verdicts : verdict' = [verdict EXCEPT ![c] = v]
    BY <1>3 DEF Work, Succeeds, Fails, Expires, Denied, Decide, Verdicts
  <2>2. verdict' \in [Calls -> Verdicts]
    BY <1>0, <2>1
  <2>3. Moves(c)
    BY <1>3 DEF Work, Succeeds, Fails, Expires, Denied, Decide, Goto, PCs
  <2> QED
    BY <1>3, <2>2, <2>3 DEF Work, Succeeds, Fails, Expires, Denied
<1>4. ASSUME NEW c \in Calls, Withdraw(c)
      PROVE  /\ UNCHANGED <<policy, attempt, verdict>>
             /\ paid' \in [Calls -> 0..M] /\ Moves(c)
  <2>1. CASE policy.budget
    <3>1. /\ attempt[c] < M /\ attempt[c] = paid[c] + 1
          /\ paid[c] \in 0..M /\ attempt[c] \in 1..M
      BY <1>0, <1>4, <2>1 DEF Withdraw, IInv, Accounts
    <3>2. paid[c] + 1 \in 0..M
      BY <1>0, <3>1
    <3>3. paid' = [paid EXCEPT ![c] = @ + 1]
      BY <1>4, <2>1 DEF Withdraw
    <3>4. paid' \in [Calls -> 0..M]
      BY <1>0, <3>2, <3>3
    <3> QED
      BY <1>4, <3>4 DEF Withdraw, Goto, PCs
  <2>2. CASE ~policy.budget
    BY <1>0, <1>4, <2>2 DEF Withdraw, Goto, PCs
  <2> QED
    BY <2>1, <2>2
<1>5. ASSUME NEW c \in Calls, NextAttempt(c)
      PROVE  /\ UNCHANGED <<policy, paid, verdict>>
             /\ attempt' \in [Calls -> 1..M] /\ Moves(c)
  <2>1. attempt[c] < M /\ attempt[c] \in 1..M
    BY <1>0, <1>5 DEF NextAttempt, IInv, Accounts
  <2>2. attempt[c] + 1 \in 1..M
    BY <1>0, <2>1
  <2>3. attempt' = [attempt EXCEPT ![c] = @ + 1]
    BY <1>5 DEF NextAttempt
  <2>4. attempt' \in [Calls -> 1..M]
    BY <1>0, <2>2, <2>3
  <2> QED
    BY <1>5, <2>4 DEF NextAttempt, LoopHead, Goto, PCs
<1>6. ASSUME NEW c \in Calls, Vote(c)
      PROVE  Kept /\ Moves(c)
  BY <1>6 DEF Vote, Goto, PCs
<1>7. ASSUME NEW c \in Calls, Return(c) \/ Drop(c)
      PROVE  /\ UNCHANGED policy /\ Moves(c)
             /\ attempt' \in [Calls -> 1..M]
             /\ verdict' \in [Calls -> Verdicts] /\ paid' \in [Calls -> 0..M]
  <2>1. Gone(c) /\ UNCHANGED policy
    BY <1>7 DEF Return, Drop
  <2>2. attempt' \in [Calls -> 1..M] /\ paid' \in [Calls -> 0..M]
    BY <1>0, <1>1, <2>1 DEF Gone
  <2>3. verdict' \in [Calls -> Verdicts]
    BY <1>0, <2>1 DEF Gone, Verdicts
  <2>4. Moves(c)
    BY <2>1 DEF Gone, Goto, PCs
  <2> QED
    BY <2>1, <2>2, <2>3, <2>4
<1>8. CASE CoolDown \/ Outage \/ Repair \/ UNCHANGED vars
  BY <1>0, <1>8 DEF CoolDown, Outage, Repair, vars
<1>9. ASSUME NEW c \in Calls, Moves(c)
      PROVE  pc' \in [Calls -> PCs]
  BY <1>0, <1>9
<1> HIDE DEF Moves
<1> QED
  BY <1>0, <1>2, <1>3, <1>4, <1>5, <1>6, <1>7, <1>8, <1>9 DEF Next, Judge

\* Which of the steps of the circuit a step of the fleet is, if any.
LEMMA CircuitSteps ==
    ASSUME [Next]_vars
    PROVE  \/ UNCHANGED circuit
           \/ Gate!CoolDown
           \/ \E c \in Calls : \/ Gate!Admit(c) \/ Gate!Succeed(c)
                               \/ Gate!Fail(c) \/ Gate!EndUnseen(c)
<1> DEFINE Steps(c) == \/ UNCHANGED circuit
                       \/ Gate!Admit(c) \/ Gate!Succeed(c)
                       \/ Gate!Fail(c) \/ Gate!EndUnseen(c)
<1>1. ASSUME NEW c \in Calls, Start(c) \/ Ask(c)
      PROVE  Steps(c)
  BY <1>1 DEF Start, Ask, Acquire, Enqueue, Refuse
<1>2. ASSUME NEW c \in Calls, Enter(c)
      PROVE  Steps(c)
  BY <1>2 DEF Enter, GateAdmits, GateRejects, PayIn
<1>3. ASSUME NEW c \in Calls, Work(c) \/ Judge(c)
      PROVE  Steps(c)
  BY <1>3 DEF Work, Succeeds, Fails, Expires, Judge, Withdraw, Denied,
              NextAttempt
<1>4. ASSUME NEW c \in Calls, Vote(c) \/ Return(c) \/ Drop(c)
      PROVE  Steps(c)
  BY <1>4 DEF Vote, Cast, Return, Drop
<1>5. CASE CoolDown \/ Outage \/ Repair \/ UNCHANGED vars
  BY <1>5 DEF CoolDown, Outage, Repair, vars, circuit
<1> QED
  BY <1>1, <1>2, <1>3, <1>4, <1>5 DEF Next

LEMMA CircuitTypeKept ==
    ASSUME IInv, [Next]_vars
    PROVE  /\ state' \in {"Closed", "Open", "HalfOpen"}
           /\ cooling' \in BOOLEAN
           /\ slots' \in 0..HalfOpenMaxCalls
           /\ successes' \in 0..HalfOpenMaxCalls
           /\ failures' \in 0..Threshold
           /\ inside' \subseteq Calls
<1>0. /\ state \in {"Closed", "Open", "HalfOpen"} /\ cooling \in BOOLEAN
      /\ slots \in 0..HalfOpenMaxCalls /\ successes \in 0..HalfOpenMaxCalls
      /\ failures \in 0..Threshold /\ inside \subseteq Calls
      /\ Threshold \in Nat \ {0} /\ HalfOpenMaxCalls \in Nat \ {0}
  BY PolicyType DEF IInv, TypeOK
<1>1. CASE UNCHANGED circuit
  BY <1>0, <1>1 DEF circuit
<1>2. CASE Gate!CoolDown
  BY <1>0, <1>2 DEF Gate!CoolDown
<1>3. ASSUME NEW c \in Calls, Gate!Admit(c)
      PROVE  /\ state' \in {"Closed", "Open", "HalfOpen"}
             /\ slots' \in 0..HalfOpenMaxCalls
             /\ successes' \in 0..HalfOpenMaxCalls
             /\ UNCHANGED <<cooling, failures>> /\ inside' \subseteq Calls
  BY <1>0, <1>3 DEF Gate!Admit
<1>4. ASSUME NEW c \in Calls, Gate!Succeed(c)
      PROVE  /\ state' \in {"Closed", "Open", "HalfOpen"}
             /\ slots' \in 0..HalfOpenMaxCalls
             /\ successes' \in 0..HalfOpenMaxCalls
             /\ failures' \in 0..Threshold
             /\ UNCHANGED cooling /\ inside' \subseteq Calls
  BY <1>0, <1>4 DEF Gate!Succeed
<1>5. ASSUME NEW c \in Calls, Gate!Fail(c)
      PROVE  /\ state' \in {"Closed", "Open", "HalfOpen"}
             /\ slots' \in 0..HalfOpenMaxCalls
             /\ successes' \in 0..HalfOpenMaxCalls
             /\ failures' \in 0..Threshold
             /\ cooling' \in BOOLEAN /\ inside' \subseteq Calls
  BY <1>0, <1>5 DEF Gate!Fail, Gate!Open
<1>6. ASSUME NEW c \in Calls, Gate!EndUnseen(c)
      PROVE  /\ UNCHANGED <<state, cooling, slots, successes, failures>>
             /\ inside' \subseteq Calls
  BY <1>0, <1>6 DEF Gate!EndUnseen
<1> QED
  BY <1>0, <1>1, <1>2, <1>3, <1>4, <1>5, <1>6, CircuitSteps

LEMMA BucketSteps ==
    ASSUME [Next]_vars
    PROVE  \/ UNCHANGED bucket
           \/ \E c \in Calls : \/ Budget!Enter(c) \/ Budget!Grant(c)
                               \/ Budget!Deny(c) \/ Budget!Leave(c)
<1> DEFINE Steps(c) == \/ UNCHANGED bucket
                       \/ Budget!Enter(c) \/ Budget!Grant(c)
                       \/ Budget!Deny(c) \/ Budget!Leave(c)
<1>1. ASSUME NEW c \in Calls, Start(c) \/ Ask(c)
      PROVE  Steps(c)
  BY <1>1 DEF Start, Ask, Acquire, Enqueue, Refuse
<1>2. ASSUME NEW c \in Calls, Enter(c)
      PROVE  Steps(c)
  BY <1>2 DEF Enter, GateAdmits, GateRejects, PayIn
<1>3. ASSUME NEW c \in Calls, Work(c) \/ Judge(c)
      PROVE  Steps(c)
  BY <1>3 DEF Work, Succeeds, Fails, Expires, Judge, Withdraw, Denied,
              NextAttempt
<1>4. ASSUME NEW c \in Calls, Vote(c) \/ Return(c) \/ Drop(c)
      PROVE  Steps(c)
  BY <1>4 DEF Vote, Return, Drop, Gone
<1>5. CASE CoolDown \/ Outage \/ Repair \/ UNCHANGED vars
  BY <1>5 DEF CoolDown, Outage, Repair, vars, bucket
<1> QED
  BY <1>1, <1>2, <1>3, <1>4, <1>5 DEF Next

LEMMA BucketTypeKept ==
    ASSUME IInv, [Next]_vars
    PROVE  /\ tokens' \in 0..MaxTokens
           /\ status' \in [Calls -> {"out", "in", "denied"}]
<1>0. /\ tokens \in 0..MaxTokens /\ status \in [Calls -> {"out", "in", "denied"}]
      /\ MaxTokens \in Nat /\ Deposit \in Nat /\ RetryCost \in Nat
  BY PolicyType DEF IInv, TypeOK
<1>1. CASE UNCHANGED bucket
  BY <1>0, <1>1 DEF bucket
<1>2. ASSUME NEW c \in Calls, Budget!Enter(c)
      PROVE  /\ tokens' \in 0..MaxTokens
             /\ status' \in [Calls -> {"out", "in", "denied"}]
  BY <1>0, <1>2 DEF Budget!Enter
<1>3. ASSUME NEW c \in Calls, Budget!Grant(c)
      PROVE  /\ tokens' \in 0..MaxTokens
             /\ status' \in [Calls -> {"out", "in", "denied"}]
  BY <1>0, <1>3 DEF Budget!Grant
<1>4. ASSUME NEW c \in Calls, Budget!Deny(c) \/ Budget!Leave(c)
      PROVE  /\ tokens' \in 0..MaxTokens
             /\ status' \in [Calls -> {"out", "in", "denied"}]
  BY <1>0, <1>4 DEF Budget!Deny, Budget!Leave
<1> QED
  BY <1>1, <1>2, <1>3, <1>4, BucketSteps

\* What a step of the fleet does to the permits.
LEMMA PermitSteps ==
    ASSUME [Next]_vars
    PROVE  \/ UNCHANGED holders
           \/ \E c \in Calls : Limit!Take(c) \/ holders' = holders \ {c}
<1> DEFINE Steps(c) == \/ UNCHANGED holders
                       \/ Limit!Take(c) \/ holders' = holders \ {c}
<1>1. ASSUME NEW c \in Calls, Start(c) \/ Ask(c)
      PROVE  Steps(c)
  BY <1>1 DEF Start, Ask, Acquire, Enqueue, Refuse
<1>2. ASSUME NEW c \in Calls, Enter(c)
      PROVE  Steps(c)
  BY <1>2 DEF Enter, GateAdmits, GateRejects, PayIn
<1>3. ASSUME NEW c \in Calls, Work(c) \/ Judge(c)
      PROVE  Steps(c)
  BY <1>3 DEF Work, Succeeds, Fails, Expires, Judge, Withdraw, Denied,
              NextAttempt, AttemptPermitDropped
<1>4. ASSUME NEW c \in Calls, Vote(c) \/ Return(c) \/ Drop(c)
      PROVE  Steps(c)
  BY <1>4 DEF Vote, Return, Drop, Gone
<1>5. CASE CoolDown \/ Outage \/ Repair \/ UNCHANGED vars
  BY <1>5 DEF CoolDown, Outage, Repair, vars
<1> QED
  BY <1>1, <1>2, <1>3, <1>4, <1>5 DEF Next

LEMMA SameCardinality == \A S : Limit!Cardinality(S) = Cardinality(S)
  BY DEF Limit!Cardinality, Cardinality

LEMMA PermitsKept ==
    ASSUME IInv, [Next]_vars
    PROVE  holders' \subseteq Calls /\ Cardinality(holders') <= Permits
<1>0. /\ holders \subseteq Calls /\ IsFiniteSet(holders) /\ Permits \in Nat
      /\ Cardinality(holders) \in Nat /\ Cardinality(holders) <= Permits
  <2>1. holders \subseteq Calls /\ IsFiniteSet(Calls)
    BY PolicyType DEF IInv, TypeOK
  <2>2. IsFiniteSet(holders) /\ Cardinality(holders) \in Nat
    BY <2>1, FS_Subset, FS_CardinalityType
  <2> QED
    BY <2>1, <2>2, PolicyType DEF IInv, CapInv
<1>1. CASE UNCHANGED holders
  BY <1>0, <1>1
<1>2. ASSUME NEW c \in Calls, Limit!Take(c)
      PROVE  holders' \subseteq Calls /\ Cardinality(holders') <= Permits
  <2>1. /\ c \notin holders /\ Cardinality(holders) < Permits
        /\ holders' = holders \cup {c}
    BY <1>2, SameCardinality DEF Limit!Take
  <2>2. Cardinality(holders \cup {c}) = Cardinality(holders) + 1
    BY <1>0, <2>1, FS_AddElement
  <2> QED
    BY <1>0, <2>1, <2>2
<1>3. ASSUME NEW c \in Calls, holders' = holders \ {c}
      PROVE  holders' \subseteq Calls /\ Cardinality(holders') <= Permits
  <2>1. Cardinality(holders \ {c}) <= Cardinality(holders)
    BY <1>0, FS_RemoveElement
  <2>2. Cardinality(holders \ {c}) \in Nat
    BY <1>0, FS_RemoveElement, FS_CardinalityType
  <2> QED
    BY <1>0, <1>3, <2>1, <2>2
<1> QED
  BY <1>1, <1>2, <1>3, PermitSteps

LEMMA TypeKept ==
    ASSUME IInv, [Next]_vars
    PROVE  TypeOK'
<1>0. /\ up \in BOOLEAN /\ outages \in 0..MaxOutages /\ drops \in 0..MaxDrops
      /\ strikes \in 0..(LoadLimit(MaxDrops) + 1)
      /\ MaxOutages \in Nat /\ MaxDrops \in Nat /\ LoadLimit(MaxDrops) \in Nat
      /\ UNCHANGED policy
  BY PolicyType, LoadLimitType, CallTypeKept DEF IInv, TypeOK
<1>1. up' \in BOOLEAN /\ outages' \in 0..MaxOutages
  <2>1. \/ UNCHANGED dependency
        \/ Outage \/ Repair
    <3>1. ASSUME NEW c \in Calls, Start(c) \/ Ask(c) \/ Enter(c)
          PROVE  UNCHANGED dependency
      BY <3>1 DEF Start, Ask, Acquire, Enqueue, Refuse, Enter, GateAdmits,
                  GateRejects, PayIn
    <3>2. ASSUME NEW c \in Calls, Work(c) \/ Judge(c)
          PROVE  UNCHANGED dependency
      BY <3>2 DEF Work, Succeeds, Fails, Expires, Judge, Withdraw, Denied,
                  NextAttempt
    <3>3. ASSUME NEW c \in Calls, Vote(c) \/ Return(c) \/ Drop(c)
          PROVE  UNCHANGED dependency
      BY <3>3 DEF Vote, Return, Drop
    <3>4. CoolDown \/ UNCHANGED vars => UNCHANGED dependency
      BY DEF CoolDown, vars, dependency
    <3> QED
      BY <3>1, <3>2, <3>3, <3>4 DEF Next
  <2>2. \/ UNCHANGED outages
        \/ outages < MaxOutages /\ outages' = outages + 1
    BY <2>1 DEF dependency, Outage, Repair
  <2>3. outages' \in 0..MaxOutages
    BY <1>0, <2>2
  <2>4. UNCHANGED up \/ up' = FALSE \/ up' = TRUE
    BY <2>1 DEF dependency, Outage, Repair
  <2>5. up' \in BOOLEAN
    BY <1>0, <2>4
  <2> QED
    BY <2>3, <2>5
<1>2. drops' \in 0..MaxDrops
  <2>1. UNCHANGED drops \/ (drops < MaxDrops /\ drops' = drops + 1)
    <3>1. ASSUME NEW c \in Calls, Start(c) \/ Ask(c) \/ Enter(c)
          PROVE  UNCHANGED drops
      BY <3>1 DEF Start, Ask, Acquire, Enqueue, Refuse, Enter, GateAdmits,
                  GateRejects, PayIn
    <3>2. ASSUME NEW c \in Calls, Work(c) \/ Judge(c)
          PROVE  UNCHANGED drops
      BY <3>2 DEF Work, Succeeds, Fails, Expires, Judge, Withdraw, Denied,
                  NextAttempt
    <3>3. ASSUME NEW c \in Calls, Vote(c) \/ Return(c)
          PROVE  UNCHANGED drops
      BY <3>3 DEF Vote, Return
    <3>4. ASSUME NEW c \in Calls, Drop(c)
          PROVE  drops < MaxDrops /\ drops' = drops + 1
      BY <3>4 DEF Drop
    <3>5. CoolDown \/ Outage \/ Repair \/ UNCHANGED vars => UNCHANGED drops
      BY DEF CoolDown, Outage, Repair, vars
    <3> QED
      BY <3>1, <3>2, <3>3, <3>4, <3>5 DEF Next
  <2> QED
    BY <1>0, <2>1
<1>3. strikes' \in 0..(LoadLimit(MaxDrops) + 1)
  <2>1. \/ UNCHANGED strikes
        \/ Strike
        \/ strikes' \in {0, strikes}
    <3>1. ASSUME NEW c \in Calls, Start(c) \/ Ask(c) \/ Enter(c)
          PROVE  UNCHANGED strikes
      BY <3>1 DEF Start, Ask, Acquire, Enqueue, Refuse, Enter, GateAdmits,
                  GateRejects, PayIn
    <3>2. ASSUME NEW c \in Calls, Work(c) \/ Judge(c)
          PROVE  UNCHANGED strikes \/ Strike
      BY <3>2 DEF Work, Succeeds, Fails, Expires, Judge, Withdraw, Denied,
                  NextAttempt
    <3>3. ASSUME NEW c \in Calls, Vote(c)
          PROVE  strikes' \in {0, strikes}
      BY <3>3 DEF Vote
    <3>4. ASSUME NEW c \in Calls, Return(c) \/ Drop(c)
          PROVE  UNCHANGED strikes
      BY <3>4 DEF Return, Drop
    <3>5. CoolDown \/ Outage \/ Repair \/ UNCHANGED vars => UNCHANGED strikes
      BY DEF CoolDown, Outage, Repair, vars
    <3> QED
      BY <3>1, <3>2, <3>3, <3>4, <3>5 DEF Next
  <2> QED
    BY <1>0, <2>1 DEF Strike
<1>4. LoadLimit(MaxDrops)' = LoadLimit(MaxDrops)
  BY <1>0 DEF LoadLimit
<1> QED
  BY <1>0, <1>1, <1>2, <1>3, <1>4, CallTypeKept, CircuitTypeKept,
     BucketTypeKept, PermitsKept DEF TypeOK, M

-----------------------------------------------------------------------------
(* The permits and the tokens of a call.                                    *)

\* A step of one call leaves where the others are.
LEMMA OneMoves ==
    ASSUME TypeOK, NEW c \in Calls, NEW where \in PCs, Goto(c, where)
    PROVE  pc'[c] = where /\ \A d \in Calls \ {c} : pc'[d] = pc[d]
  BY DEF TypeOK, Goto

\* No step takes from a call the permit it needs.
LEMMA PermittedKept ==
    ASSUME IInv, [Next]_vars, NEW d \in Calls
    PROVE  Permitted(d)' /\ Unlimited(d)'
<1>0. /\ TypeOK /\ Permitted(d) /\ Unlimited(d) /\ UNCHANGED policy
      /\ pc \in [Calls -> PCs] /\ pc' \in [Calls -> PCs]
      /\ policy.scope \in {"none", "operations", "attempts"}
  BY CallTypeKept, PolicyType DEF IInv, CapInv, TypeOK
<1>1. ASSUME d \in holders => d \in holders', UNCHANGED pc
      PROVE  Permitted(d)' /\ Unlimited(d)'
  BY <1>0, <1>1 DEF Permitted, Unlimited, Scope
<1>2. CASE CoolDown \/ Outage \/ Repair \/ UNCHANGED vars
  BY <1>1, <1>2 DEF CoolDown, Outage, Repair, vars
<1>3. ASSUME NEW c \in Calls, Start(c)
      PROVE  Permitted(d)' /\ Unlimited(d)'
  <2>1. CASE Scope("operations")
    BY <1>0, <1>3, <2>1 DEF Start, Goto, Permitted, Unlimited, Scope
  <2>2. CASE ~Scope("operations")
    BY <1>0, <1>3, <2>2 DEF Start, Goto, Permitted, Unlimited, Scope
  <2> QED
    BY <2>1, <2>2
<1>4. ASSUME NEW c \in Calls, Acquire(c)
      PROVE  Permitted(d)' /\ Unlimited(d)'
  <2>1. holders' = holders \cup {c} /\ Goto(c, Admitted)
    BY <1>4 DEF Acquire, Limit!Take
  <2>2. Scope("none") => d # c
    BY <1>0, <1>4 DEF Acquire, IInv, CapInv, Unlimited
  <2> QED
    BY <1>0, <2>1, <2>2
       DEF Goto, Admitted, Permitted, Unlimited, Scope
<1>5. ASSUME NEW c \in Calls, Enqueue(c) \/ Refuse(c)
      PROVE  Permitted(d)' /\ Unlimited(d)'
  <2>1. /\ UNCHANGED holders /\ pc[c] \in {"permit", "queued"}
        /\ Goto(c, "queued") \/ Goto(c, "return") \/ Goto(c, "vote")
    BY <1>5 DEF Enqueue, Refuse, Decide
  <2>2. Scope("none") => d # c
    BY <1>0, <2>1 DEF IInv, CapInv, Unlimited
  <2> QED
    BY <1>0, <2>1, <2>2 DEF Goto, Permitted, Unlimited, Scope
<1>6. ASSUME NEW c \in Calls, Enter(c)
      PROVE  Permitted(d)' /\ Unlimited(d)'
  <2>1. /\ UNCHANGED holders /\ pc[c] \in {"gate", "deposit"}
        /\ Goto(c, "deposit") \/ Goto(c, LoopHead(c)) \/ Goto(c, "return")
    BY <1>6 DEF Enter, GateAdmits, GateRejects, PayIn
  <2> QED
    BY <1>0, <2>1 DEF Goto, LoopHead, Permitted, Unlimited, Scope
<1>7. ASSUME NEW c \in Calls, Work(c)
      PROVE  Permitted(d)' /\ Unlimited(d)'
  <2>1. /\ AttemptPermitDropped(c) \/ UNCHANGED holders
        /\ Goto(c, "vote") \/ (pc[c] = "running" /\ Goto(c, "judge"))
    BY <1>7 DEF Work, Succeeds, Fails, Expires, Decide
  <2> QED
    BY <1>0, <2>1
       DEF Goto, AttemptPermitDropped, Permitted, Unlimited, Scope
<1>8. ASSUME NEW c \in Calls, Judge(c)
      PROVE  Permitted(d)' /\ Unlimited(d)'
  <2>1. /\ UNCHANGED holders
        /\ \/ pc[c] = "judge" /\ (Goto(c, "backoff") \/ Goto(c, "vote"))
           \/ pc[c] = "backoff" /\ Goto(c, LoopHead(c))
    BY <1>8 DEF Judge, Withdraw, Denied, NextAttempt, Decide
  <2> QED
    BY <1>0, <2>1 DEF Goto, LoopHead, Permitted, Unlimited, Scope
<1>9. ASSUME NEW c \in Calls, Vote(c) \/ Return(c) \/ Drop(c)
      PROVE  Permitted(d)' /\ Unlimited(d)'
  <2>1. /\ UNCHANGED holders \/ holders' = holders \ {c}
        /\ Goto(c, "return") \/ Goto(c, "idle")
    BY <1>9 DEF Vote, Return, Drop, Gone
  <2> QED
    BY <1>0, <2>1 DEF Goto, Permitted, Unlimited, Scope
<1> QED
  BY <1>2, <1>3, <1>4, <1>5, <1>6, <1>7, <1>8, <1>9 DEF Next, Ask

\* Every attempt but the first is paid for, whatever ends the call.
LEMMA AccountsKept ==
    ASSUME IInv, [Next]_vars, NEW d \in Calls
    PROVE  Accounts(d)'
<1>0. /\ TypeOK /\ Accounts(d) /\ UNCHANGED policy /\ M \in Nat \ {0}
      /\ pc \in [Calls -> PCs] /\ pc' \in [Calls -> PCs]
      /\ attempt \in [Calls -> 1..M] /\ paid \in [Calls -> 0..M]
      /\ policy.scope \in {"none", "operations", "attempts"}
      /\ attempt[d] \in Nat /\ paid[d] \in Nat
  BY CallTypeKept, PolicyType DEF IInv, TypeOK, M
<1>1. ASSUME UNCHANGED <<pc, attempt, paid>>
      PROVE  Accounts(d)'
  BY <1>0, <1>1 DEF Accounts, M
<1>2. CASE CoolDown \/ Outage \/ Repair \/ UNCHANGED vars
  BY <1>1, <1>2 DEF CoolDown, Outage, Repair, vars
<1>3. ASSUME NEW c \in Calls, Start(c) \/ Ask(c) \/ Enter(c)
      PROVE  Accounts(d)'
  <2>1. /\ UNCHANGED <<attempt, paid>>
        /\ pc[c] \in {"idle", "permit", "queued", "gate", "deposit"}
    BY <1>3 DEF Start, Ask, Acquire, Enqueue, Refuse, Enter, GateAdmits,
                GateRejects, PayIn
  <2>2. \E where \in {"permit", "queued", "gate", "deposit", "running", "vote",
                      "return"} : Goto(c, where)
    BY <1>3 DEF Start, Ask, Acquire, Enqueue, Refuse, Enter, GateAdmits,
                GateRejects, PayIn, Decide, LoopHead, Admitted
  <2> QED
    BY <1>0, <2>1, <2>2 DEF Goto, Accounts, M
<1>4. ASSUME NEW c \in Calls, Work(c) \/ Denied(c) \/ Vote(c)
      PROVE  Accounts(d)'
  <2>1. UNCHANGED <<attempt, paid>>
    BY <1>4 DEF Work, Succeeds, Fails, Expires, Denied, Vote
  <2>2. \/ \E where \in {"vote", "return"} : Goto(c, where)
        \/ pc[c] = "running" /\ Goto(c, "judge") /\ ~LastAttempt(c)
    BY <1>4 DEF Work, Succeeds, Fails, Expires, Denied, Vote, Decide
  <2>3. CASE \E where \in {"vote", "return"} : Goto(c, where)
    BY <1>0, <2>1, <2>3 DEF Goto, Accounts, M
  <2>4. CASE pc[c] = "running" /\ Goto(c, "judge") /\ ~LastAttempt(c)
    <3>1. attempt[c] < M
      BY <1>0, <2>4 DEF LastAttempt, M
    <3> QED
      BY <1>0, <2>1, <2>4, <3>1 DEF Goto, Accounts, M
  <2> QED
    BY <2>2, <2>3, <2>4
<1>5. ASSUME NEW c \in Calls, Withdraw(c)
      PROVE  Accounts(d)'
  <2>1. /\ UNCHANGED attempt /\ pc[c] = "judge" /\ Goto(c, "backoff")
        /\ policy.budget => paid' = [paid EXCEPT ![c] = @ + 1]
    BY <1>5 DEF Withdraw
  <2> QED
    BY <1>0, <2>1 DEF Goto, Accounts, M
<1>6. ASSUME NEW c \in Calls, NextAttempt(c)
      PROVE  Accounts(d)'
  <2>1. /\ UNCHANGED paid /\ pc[c] = "backoff"
        /\ attempt' = [attempt EXCEPT ![c] = @ + 1]
        /\ \E where \in {"permit", "running"} : Goto(c, where)
    BY <1>6 DEF NextAttempt, LoopHead
  <2> QED
    BY <1>0, <2>1 DEF Goto, Accounts, M
<1>7. ASSUME NEW c \in Calls, Return(c) \/ Drop(c)
      PROVE  Accounts(d)'
  <2>1. /\ Goto(c, "idle")
        /\ attempt' = [attempt EXCEPT ![c] = 1]
        /\ paid' = [paid EXCEPT ![c] = 0]
    BY <1>7 DEF Return, Drop, Gone
  <2> QED
    BY <1>0, <2>1 DEF Goto, Accounts, M
<1> QED
  BY <1>2, <1>3, <1>4, <1>5, <1>6, <1>7 DEF Next, Judge

-----------------------------------------------------------------------------
(* Sums over the calls.                                                     *)

LEMMA FirstCount ==
    ASSUME NEW n \in Nat
    PROVE  IsFiniteSet(1..n) /\ Cardinality(1..n) = n
<1>1. /\ IsFiniteSet(1..n)
      /\ Cardinality(1..n) = IF 1 > n THEN 0 ELSE n - 1 + 1
  BY FS_Interval
<1> QED
  BY <1>1

LEMMA TallyCount ==
    ASSUME NEW m \in Nat, NEW f \in [Calls -> 0..m], IsFiniteSet(Calls)
    PROVE  /\ IsFiniteSet(Tally(f, m)) /\ Cardinality(Tally(f, m)) \in Nat
           /\ Cardinality(Tally(f, m)) <= Cardinality(Calls) * m
<1>1. IsFiniteSet(1..m) /\ Cardinality(1..m) = m
  BY FirstCount
<1>2. /\ IsFiniteSet(Calls \X (1..m))
      /\ Cardinality(Calls \X (1..m)) = Cardinality(Calls) * m
  BY <1>1, FS_Product
<1>3. Tally(f, m) \in SUBSET (Calls \X (1..m))
  BY DEF Tally
<1> QED
  BY <1>2, <1>3, FS_Subset, FS_CardinalityType

LEMMA TallyMonotone ==
    ASSUME NEW m \in Nat, NEW f \in [Calls -> 0..m], NEW g \in [Calls -> 0..m],
           IsFiniteSet(Calls), \A c \in Calls : f[c] <= g[c]
    PROVE  Cardinality(Tally(f, m)) <= Cardinality(Tally(g, m))
<1>1. ASSUME NEW c \in Calls, NEW i \in 1..m, i <= f[c]
      PROVE  i <= g[c]
  BY <1>1
<1>2. Tally(f, m) \subseteq Tally(g, m)
  BY <1>1 DEF Tally
<1> QED
  BY <1>2, TallyCount, FS_Subset

\* One more of one call.
LEMMA TallyMore ==
    ASSUME NEW m \in Nat, NEW f \in [Calls -> 0..m], NEW g \in [Calls -> 0..m],
           IsFiniteSet(Calls), NEW c \in Calls, f[c] + 1 <= g[c],
           \A d \in Calls : f[d] <= g[d]
    PROVE  Cardinality(Tally(f, m)) + 1 <= Cardinality(Tally(g, m))
<1> DEFINE x == <<c, f[c] + 1>>
<1>0. f[c] \in 0..m /\ g[c] \in 0..m
  OBVIOUS
<1>1. x \notin Tally(f, m)
  BY <1>0 DEF Tally
<1>2. x \in Tally(g, m)
  <2>1. f[c] + 1 \in 1..m /\ f[c] + 1 <= g[c]
    BY <1>0
  <2> QED
    BY <2>1 DEF Tally
<1>3. Tally(f, m) \subseteq Tally(g, m)
  <2>1. ASSUME NEW d \in Calls, NEW i \in 1..m, i <= f[d]
        PROVE  i <= g[d]
    BY <2>1
  <2> QED
    BY <2>1 DEF Tally
<1>4. IsFiniteSet(Tally(f, m)) /\ IsFiniteSet(Tally(g, m))
  BY TallyCount
<1> HIDE DEF x
<1>5. Tally(f, m) \cup {x} \in SUBSET Tally(g, m)
  BY <1>2, <1>3
<1>6. Cardinality(Tally(f, m) \cup {x}) = Cardinality(Tally(f, m)) + 1
  BY <1>1, <1>4, FS_AddElement
<1>7. Cardinality(Tally(f, m) \cup {x}) <= Cardinality(Tally(g, m))
  BY <1>4, <1>5, FS_Subset
<1> QED
  BY <1>6, <1>7

\* What the sum loses with a call is no more than the call had.
LEMMA TallyLess ==
    ASSUME NEW m \in Nat, NEW f \in [Calls -> 0..m], NEW g \in [Calls -> 0..m],
           IsFiniteSet(Calls), NEW c \in Calls,
           \A d \in Calls \ {c} : f[d] <= g[d]
    PROVE  Cardinality(Tally(f, m)) <= Cardinality(Tally(g, m)) + f[c]
<1> DEFINE own == {c} \X (1..f[c])
<1>0. f[c] \in Nat
  OBVIOUS
<1>1. IsFiniteSet(own) /\ Cardinality(own) = f[c]
  <2>1. IsFiniteSet(1..f[c]) /\ Cardinality(1..f[c]) = f[c]
    BY <1>0, FirstCount
  <2>2. IsFiniteSet({c}) /\ Cardinality({c}) = 1
    BY FS_Singleton
  <2>3. IsFiniteSet(own) /\ Cardinality(own) = 1 * Cardinality(1..f[c])
    BY <2>1, <2>2, FS_Product
  <2> QED
    BY <1>0, <2>1, <2>3
<1>2. Tally(f, m) \subseteq Tally(g, m) \cup own
  <2>1. ASSUME NEW d \in Calls, NEW i \in 1..m, i <= f[d]
        PROVE  i <= g[d] \/ (d = c /\ i \in 1..f[c])
    BY <2>1
  <2> QED
    BY <2>1 DEF Tally
<1> HIDE DEF own
<1>3. /\ IsFiniteSet(Tally(g, m)) /\ Cardinality(Tally(g, m)) \in Nat
      /\ IsFiniteSet(Tally(f, m)) /\ Cardinality(Tally(f, m)) \in Nat
  BY TallyCount
<1>4. /\ IsFiniteSet(Tally(g, m) \cup own)
      /\ Cardinality(Tally(g, m) \cup own) =
            Cardinality(Tally(g, m)) + Cardinality(own)
               - Cardinality(Tally(g, m) \cap own)
  BY <1>1, <1>3, FS_Union
<1>5. Cardinality(Tally(f, m)) <= Cardinality(Tally(g, m) \cup own)
  BY <1>2, <1>4, FS_Subset
<1>6. Cardinality(Tally(g, m) \cap own) \in Nat
  <2>1. Tally(g, m) \cap own \in SUBSET own
    OBVIOUS
  <2> QED
    BY <1>1, <2>1, FS_Subset, FS_CardinalityType
<1> QED
  BY <1>0, <1>1, <1>3, <1>4, <1>5, <1>6

-----------------------------------------------------------------------------
(* The bound of the strikes, by what a step does to the charges.            *)

LEMMA ChargesType ==
    /\ TypeOK => Charges \in [Calls -> 0..M]
    /\ TypeOK' /\ UNCHANGED policy => Charges' \in [Calls -> 0..M]
<1>1. \A n \in 1..M : M \in Nat => n \in 0..M /\ n - 1 \in 0..M
  OBVIOUS
<1>2. TypeOK => M \in Nat /\ 0 \in 0..M
  BY PolicyType
<1>3. ASSUME TypeOK
      PROVE  Charges \in [Calls -> 0..M]
  BY <1>1, <1>2, <1>3 DEF TypeOK, Charges, M
<1>4. ASSUME TypeOK', UNCHANGED policy
      PROVE  Charges' \in [Calls -> 0..M]
  <2>1. attempt' \in [Calls -> 1..M]
    BY <1>4 DEF TypeOK, M
  <2>2. M \in Nat /\ 0 \in 0..M
    <3>1. policy \in Policy
      BY <1>4, FleetAssumption DEF TypeOK
    <3> QED
      BY <3>1 DEF Policy, M
  <2> QED
    BY <1>1, <2>1, <2>2 DEF Charges
<1> QED
  BY <1>3, <1>4

\* The parts of the bound before and after a step.
LEMMA BoundParts ==
    ASSUME IInv, TypeOK', UNCHANGED policy
    PROVE  /\ M \in Nat \ {0} /\ failures \in Nat /\ drops \in Nat
           /\ failures' \in Nat /\ drops' \in Nat
           /\ failures * M \in Nat /\ failures' * M \in Nat
           /\ drops * (M - 1) \in Nat /\ drops' * (M - 1) \in Nat
           /\ Cardinality(Tally(Charges, M)) \in Nat
           /\ Cardinality(Tally(Charges', M)) \in Nat
           /\ Bound' = failures' * M + Cardinality(Tally(Charges', M))
                          + drops' * (M - 1)
<1>1. /\ M \in Nat \ {0} /\ failures \in Nat /\ drops \in Nat
      /\ failures' \in Nat /\ drops' \in Nat /\ IsFiniteSet(Calls)
  BY PolicyType DEF IInv, TypeOK
<1>2. \A a, b \in Nat : a * b \in Nat
  OBVIOUS
<1>3. Charges \in [Calls -> 0..M] /\ Charges' \in [Calls -> 0..M]
  BY ChargesType DEF IInv
<1>4. /\ Cardinality(Tally(Charges, M)) \in Nat
      /\ Cardinality(Tally(Charges', M)) \in Nat
  BY <1>1, <1>3, TallyCount
<1>5. M - 1 \in Nat
  BY <1>1
<1>6. Tally(Charges, M)' = Tally(Charges', M)
  BY DEF Tally, M
<1>7. Bound' = failures' * M + Cardinality(Tally(Charges', M))
                  + drops' * (M - 1)
  BY <1>6 DEF Bound, M
<1> QED
  BY <1>1, <1>2, <1>4, <1>5, <1>7

\* No charge is lost.
LEMMA BoundRises ==
    ASSUME IInv, TypeOK', UNCHANGED <<policy, failures, drops>>,
           \A d \in Calls : Charges[d] <= Charges'[d]
    PROVE  Bound <= Bound'
<1>1. Cardinality(Tally(Charges, M)) <= Cardinality(Tally(Charges', M))
  BY ChargesType, PolicyType, TallyMonotone DEF IInv
<1> QED
  BY <1>1, BoundParts DEF Bound

\* An attempt of a call has failed.
LEMMA BoundMore ==
    ASSUME IInv, TypeOK', UNCHANGED <<policy, failures, drops>>,
           NEW c \in Calls, Charges[c] + 1 <= Charges'[c],
           \A d \in Calls : Charges[d] <= Charges'[d]
    PROVE  Bound + 1 <= Bound'
<1>1. Cardinality(Tally(Charges, M)) + 1 <= Cardinality(Tally(Charges', M))
  BY ChargesType, PolicyType, TallyMore DEF IInv
<1> QED
  BY <1>1, BoundParts DEF Bound

\* The circuit counts a failed call, which had max_attempts at most.
LEMMA BoundCounted ==
    ASSUME IInv, TypeOK', UNCHANGED <<policy, drops>>, failures' = failures + 1,
           NEW c \in Calls, \A d \in Calls \ {c} : Charges[d] <= Charges'[d]
    PROVE  Bound <= Bound'
<1>1. Cardinality(Tally(Charges, M))
         <= Cardinality(Tally(Charges', M)) + Charges[c]
  BY ChargesType, PolicyType, TallyLess DEF IInv
<1>2. Charges[c] \in Nat /\ Charges[c] <= M
  BY ChargesType, PolicyType DEF IInv
<1>3. (failures + 1) * M = failures * M + M
  BY BoundParts
<1> QED
  BY <1>1, <1>2, <1>3, BoundParts DEF Bound

\* A call is dropped, and never in its last attempt's vote.
LEMMA BoundDropped ==
    ASSUME IInv, TypeOK', UNCHANGED <<policy, failures>>, drops' = drops + 1,
           NEW c \in Calls, Charges[c] <= M - 1,
           \A d \in Calls \ {c} : Charges[d] <= Charges'[d]
    PROVE  Bound <= Bound'
<1>1. Cardinality(Tally(Charges, M))
         <= Cardinality(Tally(Charges', M)) + Charges[c]
  BY ChargesType, PolicyType, TallyLess DEF IInv
<1>2. Charges[c] \in Nat
  BY ChargesType, PolicyType DEF IInv
<1>3. (drops + 1) * (M - 1) = drops * (M - 1) + (M - 1)
  BY BoundParts
<1> QED
  BY <1>1, <1>2, <1>3, BoundParts DEF Bound

-----------------------------------------------------------------------------
(* The load a failing dependency gets.                                      *)

\* Of calls that all vote, none reaches the vote with nothing to tell.
LEMMA VerdictsKept ==
    ASSUME IInv, [Next]_vars, Voters, NEW d \in Calls,
           \A e \in Calls : pc[e] = "vote" => verdict[e] # "none"
    PROVE  pc'[d] = "vote" => verdict'[d] # "none"
<1>0. /\ TypeOK /\ pc \in [Calls -> PCs] /\ verdict \in [Calls -> Verdicts]
      /\ policy.scope \in {"none", "operations", "attempts"}
  BY PolicyType DEF IInv, TypeOK
<1>1. ASSUME NEW c \in Calls, NEW v \in {"success", "failure"}, Decide(c, v)
      PROVE  pc'[d] = "vote" => verdict'[d] # "none"
  BY <1>0, <1>1 DEF Decide, Goto
<1>2. ASSUME NEW c \in Calls, NEW where \in PCs \ {"vote"}, Goto(c, where),
             \A e \in Calls \ {c} : verdict'[e] = verdict[e]
      PROVE  pc'[d] = "vote" => verdict'[d] # "none"
  BY <1>0, <1>2 DEF Goto
<1>3. CASE CoolDown \/ Outage \/ Repair \/ UNCHANGED vars
  BY <1>3 DEF CoolDown, Outage, Repair, vars
<1>4. ASSUME NEW c \in Calls, Start(c) \/ Ask(c) \/ Enter(c)
      PROVE  /\ UNCHANGED verdict
             /\ \E where \in PCs \ {"vote"} : Goto(c, where)
  <2>1. CASE Start(c) \/ Acquire(c) \/ Enqueue(c) \/ Enter(c)
    BY <2>1 DEF Start, Acquire, Enqueue, Enter, GateAdmits, GateRejects, PayIn,
                Admitted, LoopHead, PCs
  <2>2. CASE Refuse(c)
    <3>1. Scope("operations")
      BY <1>0, <2>2 DEF Refuse, Voters, Scope, IInv, CapInv, Unlimited
    <3> QED
      BY <2>2, <3>1 DEF Refuse, PCs
  <2> QED
    BY <1>4, <2>1, <2>2 DEF Ask
<1>5. ASSUME NEW c \in Calls, Work(c)
      PROVE  \/ \E v \in {"success", "failure"} : Decide(c, v)
             \/ UNCHANGED verdict /\ Goto(c, "judge")
  BY <1>5 DEF Work, Succeeds, Fails, Expires
<1>6. ASSUME NEW c \in Calls, Judge(c)
      PROVE  /\ UNCHANGED verdict
             /\ \E where \in PCs \ {"vote"} : Goto(c, where)
  BY <1>6 DEF Judge, Withdraw, Denied, NextAttempt, Voters, LoopHead, PCs
<1>7. ASSUME NEW c \in Calls, Vote(c) \/ Return(c) \/ Drop(c)
      PROVE  /\ \A e \in Calls \ {c} : verdict'[e] = verdict[e]
             /\ \E where \in PCs \ {"vote"} : Goto(c, where)
  BY <1>0, <1>7 DEF Vote, Return, Drop, Gone, PCs
<1>8. "judge" \in PCs \ {"vote"}
  BY DEF PCs
<1> QED
  BY <1>1, <1>2, <1>3, <1>4, <1>5, <1>6, <1>7, <1>8 DEF Next

\* A step that does not close or trip the circuit, count a failure or fail an
\* attempt.
LEMMA ShedRises ==
    ASSUME IInv, TypeOK', [Next]_vars, Voters,
           UNCHANGED <<policy, failures, drops, strikes>>,
           state = "Closed" <=> state' = "Closed",
           \A d \in Calls : Charges[d] <= Charges'[d]
    PROVE  ShedInv'
<1>1. Bound <= Bound'
  BY BoundRises
<1>2. /\ Bound \in Nat /\ Bound' \in Nat
  BY BoundParts DEF Bound
<1>3. strikes \in Nat
  BY LoadLimitType, PolicyType DEF IInv, TypeOK
<1>4. /\ \A d \in Calls : pc[d] = "vote" => verdict[d] # "none"
      /\ state = "Closed" => failures < Threshold
      /\ state # "Closed" => strikes = 0
      /\ strikes <= Bound
  BY DEF IInv, ShedInv
<1>5. \A d \in Calls : pc'[d] = "vote" => verdict'[d] # "none"
  BY <1>4, VerdictsKept
<1>6. strikes' <= Bound'
  BY <1>1, <1>2, <1>3, <1>4
<1> QED
  BY <1>4, <1>5, <1>6 DEF ShedInv

LEMMA ShedKept ==
    ASSUME IInv, TypeOK', [Next]_vars
    PROVE  ShedInv'
<1> SUFFICES ASSUME Voters' PROVE ShedInv'
  BY DEF ShedInv
<1>0. /\ Voters /\ UNCHANGED policy /\ TypeOK /\ M \in Nat \ {0}
      /\ pc \in [Calls -> PCs] /\ attempt \in [Calls -> 1..M]
      /\ strikes \in Nat /\ LoadLimit(MaxDrops) \in Nat
      /\ Bound \in Nat /\ Bound' \in Nat
  <2>1. UNCHANGED policy
    BY CallTypeKept
  <2>2. /\ TypeOK /\ M \in Nat \ {0} /\ LoadLimit(MaxDrops) \in Nat
    BY PolicyType, LoadLimitType DEF IInv
  <2>3. /\ pc \in [Calls -> PCs] /\ attempt \in [Calls -> 1..M]
        /\ strikes \in Nat
    BY <2>2 DEF TypeOK, M
  <2>4. Bound \in Nat /\ Bound' \in Nat
    BY <2>1, BoundParts DEF Bound
  <2> QED
    BY <2>1, <2>2, <2>3, <2>4 DEF Voters, Scope
<1>1. /\ \A d \in Calls : pc[d] = "vote" => verdict[d] # "none"
      /\ state = "Closed" => failures < Threshold
      /\ state # "Closed" => strikes = 0
      /\ strikes <= Bound
  BY <1>0 DEF IInv, ShedInv
<1>2. \A d \in Calls : pc'[d] = "vote" => verdict'[d] # "none"
  BY <1>0, <1>1, VerdictsKept
<1>3. \A d \in Calls :
         /\ attempt[d] \in Nat /\ attempt[d] >= 1
         /\ Charges[d] = IF pc[d] = "running" THEN attempt[d] - 1
                         ELSE IF pc[d] \in {"judge", "backoff", "vote"}
                              THEN attempt[d] ELSE 0
         /\ Charges'[d] = IF pc'[d] = "running" THEN attempt'[d] - 1
                          ELSE IF pc'[d] \in {"judge", "backoff", "vote"}
                               THEN attempt'[d] ELSE 0
  BY <1>0 DEF Charges
<1>4. CASE CoolDown \/ Outage \/ Repair \/ UNCHANGED vars
  <2>1. UNCHANGED <<pc, attempt, policy, failures, drops, strikes, state>>
    BY <1>4 DEF CoolDown, Outage, Repair, vars, circuit, Gate!CoolDown
  <2>2. \A d \in Calls : Charges[d] <= Charges'[d]
    BY <1>3, <2>1
  <2> QED
    BY <1>0, <2>1, <2>2, ShedRises
<1>5. ASSUME NEW c \in Calls, Start(c) \/ Ask(c) \/ Enter(c)
      PROVE  ShedInv'
  <2>1. /\ UNCHANGED <<attempt, failures, drops, strikes>>
        /\ pc[c] \in {"idle", "permit", "queued", "gate", "deposit"}
        /\ \E where \in PCs : Goto(c, where)
    <3>1. CASE Start(c) \/ Ask(c)
      BY <3>1 DEF Start, Ask, Acquire, Enqueue, Refuse, circuit, Decide,
                  Admitted, PCs
    <3>2. CASE Enter(c)
      BY <3>2 DEF Enter, GateAdmits, GateRejects, PayIn, circuit, LoopHead, PCs,
                  Gate!Admit
    <3> QED
      BY <1>5, <3>1, <3>2
  <2>2. state = "Closed" <=> state' = "Closed"
    BY <1>5 DEF Start, Ask, Acquire, Enqueue, Refuse, Enter, GateAdmits,
                GateRejects, PayIn, circuit, Gate!Admit
  <2>3. \A d \in Calls : Charges[d] <= Charges'[d]
    BY <1>0, <1>3, <2>1 DEF Goto
  <2> QED
    BY <1>0, <2>1, <2>2, <2>3, ShedRises
<1>6. ASSUME NEW c \in Calls, Judge(c)
      PROVE  ShedInv'
  <2>1. /\ UNCHANGED <<failures, drops, strikes, state>>
        /\ \/ pc[c] = "judge" /\ Goto(c, "backoff") /\ UNCHANGED attempt
           \/ /\ pc[c] = "backoff" /\ Goto(c, "running")
              /\ attempt' = [attempt EXCEPT ![c] = @ + 1]
    BY <1>0, <1>6 DEF Judge, Withdraw, Denied, NextAttempt, circuit, LoopHead,
                      Voters
  <2>2. \A d \in Calls : Charges[d] <= Charges'[d]
    BY <1>0, <1>3, <2>1 DEF Goto
  <2> QED
    BY <1>0, <2>1, <2>2, ShedRises
<1>7. ASSUME NEW c \in Calls, Work(c)
      PROVE  ShedInv'
  <2>1. UNCHANGED <<failures, drops, state, attempt>>
    BY <1>7 DEF Work, Succeeds, Fails, Expires, circuit
  <2>2. \/ /\ pc[c] \in {"running", "judge", "backoff"} /\ Goto(c, "vote")
           /\ UNCHANGED strikes
        \/ /\ pc[c] = "running" /\ (Goto(c, "vote") \/ Goto(c, "judge"))
           /\ Strike
    BY <1>7 DEF Work, Succeeds, Fails, Expires, Decide
  <2>3. \A d \in Calls : Charges[d] <= Charges'[d]
    BY <1>0, <1>3, <2>1, <2>2 DEF Goto
  <2>4. CASE UNCHANGED strikes
    BY <1>0, <2>1, <2>3, <2>4, ShedRises
  <2>5. CASE /\ pc[c] = "running" /\ (Goto(c, "vote") \/ Goto(c, "judge"))
             /\ Strike
    <3>1. Charges[c] + 1 <= Charges'[c]
      BY <1>0, <1>3, <2>1, <2>5 DEF Goto
    <3>2. Bound + 1 <= Bound'
      BY <1>0, <2>1, <2>3, <3>1, BoundMore
    <3>3. strikes' <= strikes + 1 /\ (state # "Closed" => strikes' = strikes)
      BY <1>0, <2>5 DEF Strike
    <3>4. strikes' \in Nat
      BY <1>0, <2>5 DEF Strike
    <3>5. strikes' <= Bound'
      BY <1>0, <1>1, <3>2, <3>3, <3>4
    <3> QED
      BY <1>1, <1>2, <2>1, <3>3, <3>5 DEF ShedInv
  <2> QED
    BY <2>2, <2>4, <2>5
<1>8. ASSUME NEW c \in Calls, Vote(c)
      PROVE  ShedInv'
  <2>1. /\ UNCHANGED <<attempt, drops>> /\ pc[c] = "vote" /\ Goto(c, "return")
        /\ verdict[c] \in {"success", "failure"}
        /\ Cast(c)
        /\ strikes' = IF verdict[c] = "success" \/ state' # "Closed"
                      THEN 0 ELSE strikes
    BY <1>1, <1>8 DEF Vote, IInv, TypeOK, Verdicts
  <2>2. \A d \in Calls \ {c} : Charges[d] <= Charges'[d]
    BY <1>0, <1>3, <2>1 DEF Goto
  <2>3. CASE strikes' = 0 /\ (state' = "Closed" => failures' < Threshold)
    BY <1>0, <1>2, <2>3 DEF ShedInv
  <2>4. CASE verdict[c] = "success"
    <3>1. Gate!Succeed(c) /\ strikes' = 0
      BY <2>1, <2>4 DEF Cast
    <3>2. state' = "Closed" => failures' < Threshold
      BY <1>1, <3>1, PolicyType DEF Gate!Succeed, IInv
    <3> QED
      BY <2>3, <3>1, <3>2
  <2>5. CASE verdict[c] = "failure" /\ state' # "Closed"
    BY <2>1, <2>3, <2>5
  <2>6. CASE verdict[c] = "failure" /\ state' = "Closed"
    <3>1. Gate!Fail(c) /\ strikes' = strikes
      BY <2>1, <2>6 DEF Cast
    <3>2. /\ state = "Closed" /\ failures' = failures + 1
          /\ failures' # Threshold /\ failures \in Nat /\ failures < Threshold
          /\ Threshold \in Nat
      BY <1>0, <1>1, <2>6, <3>1, PolicyType
         DEF Gate!Fail, Gate!Open, TypeOK
    <3>3. Bound <= Bound'
      BY <1>0, <2>1, <2>2, <3>2, BoundCounted
    <3>4. strikes' <= Bound'
      BY <1>0, <1>1, <3>1, <3>3
    <3>5. failures' < Threshold
      BY <3>2
    <3> QED
      BY <1>2, <2>6, <3>4, <3>5 DEF ShedInv
  <2> QED
    BY <2>1, <2>4, <2>5, <2>6
<1>9. ASSUME NEW c \in Calls, Return(c)
      PROVE  ShedInv'
  <2>1. /\ UNCHANGED <<failures, drops, strikes, state>>
        /\ pc[c] = "return" /\ Goto(c, "idle")
        /\ attempt' = [attempt EXCEPT ![c] = 1]
    BY <1>9 DEF Return, Gone, circuit
  <2>2. \A d \in Calls : Charges[d] <= Charges'[d]
    BY <1>0, <1>3, <2>1 DEF Goto
  <2> QED
    BY <1>0, <2>1, <2>2, ShedRises
<1>10. ASSUME NEW c \in Calls, Drop(c)
       PROVE  ShedInv'
  <2>1. /\ UNCHANGED <<failures, strikes, state>> /\ drops' = drops + 1
        /\ pc[c] \in {"queued", "running", "backoff"} /\ Goto(c, "idle")
        /\ attempt' = [attempt EXCEPT ![c] = 1]
    BY <1>10 DEF Drop, Gone, circuit, Gate!EndUnseen
  <2>2. \A d \in Calls \ {c} : Charges[d] <= Charges'[d]
    BY <1>0, <1>3, <2>1 DEF Goto
  <2>3. Charges[c] <= M - 1
    <3>1. pc[c] = "backoff" => attempt[c] < M
      BY DEF IInv, Accounts
    <3>2. attempt[c] <= M
      BY <1>0
    <3> QED
      BY <1>0, <1>3, <2>1, <3>1, <3>2
  <2>4. Bound <= Bound'
    BY <1>0, <2>1, <2>2, <2>3, BoundDropped
  <2>5. strikes' <= Bound'
    BY <1>0, <1>1, <2>1, <2>4
  <2> QED
    BY <1>1, <1>2, <2>1, <2>5 DEF ShedInv
<1> QED
  BY <1>4, <1>5, <1>6, <1>7, <1>8, <1>9, <1>10 DEF Next

-----------------------------------------------------------------------------
(* The theorems.                                                            *)

LEMMA InitIInv == Init => IInv
<1> SUFFICES ASSUME Init PROVE IInv
  OBVIOUS
<1> DEFINE m == policy.maxAttempts
<1>0. /\ policy \in Policies /\ policy \in Policy /\ m \in Nat \ {0}
      /\ holders = {} /\ state = "Closed" /\ cooling = FALSE /\ slots = 0
      /\ successes = 0 /\ failures = 0 /\ inside = {}
      /\ tokens = MaxTokens /\ status = [c \in Calls |-> "out"]
      /\ pc = [c \in Calls |-> "idle"] /\ attempt = [c \in Calls |-> 1]
      /\ verdict = [c \in Calls |-> "none"] /\ paid = [c \in Calls |-> 0]
      /\ up = TRUE /\ outages = 0 /\ drops = 0 /\ strikes = 0
  BY FleetAssumption
     DEF Init, Limit!Init, Gate!Init, Budget!Init, Policy
<1>1. /\ IsFiniteSet(Calls) /\ Cardinality(Calls) \in Nat
      /\ Threshold \in Nat \ {0} /\ HalfOpenMaxCalls \in Nat \ {0}
      /\ MaxTokens \in Nat /\ MaxOutages \in Nat /\ MaxDrops \in Nat
      /\ Permits \in Nat \ {0}
  BY FleetAssumption, FS_CardinalityType
<1>2. LoadLimit(MaxDrops) \in Nat
  <2>1. /\ Threshold - 1 + Cardinality(Calls) \in Nat /\ m - 1 \in Nat
        /\ m \in Nat
    BY <1>0, <1>1
  <2>2. \A a, b, d, e \in Nat : a * b + d * e \in Nat
    OBVIOUS
  <2> QED
    BY <1>1, <2>1, <2>2 DEF LoadLimit
<1>3. TypeOK
  <2>1. /\ attempt \in [Calls -> 1..m] /\ paid \in [Calls -> 0..m]
        /\ pc \in [Calls -> PCs] /\ verdict \in [Calls -> Verdicts]
        /\ status \in [Calls -> {"out", "in", "denied"}]
    BY <1>0 DEF PCs, Verdicts
  <2>2. strikes \in 0..(LoadLimit(MaxDrops) + 1)
    BY <1>0, <1>2
  <2>3. /\ slots \in 0..HalfOpenMaxCalls /\ successes \in 0..HalfOpenMaxCalls
        /\ failures \in 0..Threshold /\ tokens \in 0..MaxTokens
        /\ outages \in 0..MaxOutages /\ drops \in 0..MaxDrops
    BY <1>0, <1>1
  <2>4. cooling \in BOOLEAN /\ up \in BOOLEAN
    <3>1. cooling = FALSE /\ up = TRUE
      BY <1>0
    <3> QED
      BY <3>1, Zenon
  <2>5. /\ holders \subseteq Calls /\ inside \subseteq Calls
        /\ state \in {"Closed", "Open", "HalfOpen"}
    BY <1>0
  <2> QED
    BY <1>0, <2>1, <2>2, <2>3, <2>4, <2>5, Zenon DEF TypeOK
<1>4. CapInv
  BY <1>0, <1>1, FS_EmptySet DEF CapInv, Permitted, Unlimited
<1>5. \A c \in Calls : Accounts(c)
  BY <1>0 DEF Accounts
<1>6. ShedInv
  <2>1. Charges \in [Calls -> 0..M]
    BY <1>3, ChargesType
  <2>2. Cardinality(Tally(Charges, M)) \in Nat /\ M \in Nat
    BY <1>0, <1>1, <2>1, TallyCount DEF M
  <2>3. 0 * M = 0 /\ 0 * (M - 1) = 0
    BY <2>2
  <2>4. 0 <= Bound
    BY <1>0, <2>2, <2>3 DEF Bound
  <2> QED
    BY <1>0, <1>1, <2>4 DEF ShedInv
<1> QED
  BY <1>3, <1>4, <1>5, <1>6 DEF IInv

LEMMA NextIInv == IInv /\ [Next]_vars => IInv'
<1> SUFFICES ASSUME IInv, [Next]_vars PROVE IInv'
  OBVIOUS
<1>1. TypeOK'
  BY TypeKept
<1>2. CapInv'
  BY PermitsKept, PermittedKept DEF CapInv
<1>3. (\A c \in Calls : Accounts(c))'
  BY AccountsKept
<1>4. ShedInv'
  BY <1>1, ShedKept
<1> QED
  BY <1>1, <1>2, <1>3, <1>4 DEF IInv

\* Every reachable state of the fleet satisfies the inductive invariant.
THEOREM Invariance == Spec => []IInv
  BY InitIInv, NextIInv, PTL DEF Spec

\* Type correctness: no slot, token or attempt is counted past its limit.
THEOREM FleetTypeOK == Spec => []TypeOK
<1>1. IInv => TypeOK
  BY DEF IInv
<1> QED
  BY <1>1, Invariance, PTL

\* For any number of calls and permits and in either scope, no more operations
\* (or attempts) run than there are permits, whatever retries, rejections and
\* dropped futures do in between.
THEOREM ConcurrencyCappedHolds == Spec => []ConcurrencyCapped
<1>1. IInv => ConcurrencyCapped
  <2> SUFFICES ASSUME IInv, ~Scope("none")
               PROVE  Cardinality({c \in Calls : pc[c] = "running"}) <= Permits
    BY DEF ConcurrencyCapped
  <2>1. Scope("operations") \/ Scope("attempts")
    BY PolicyType DEF IInv, Scope
  <2>2. {c \in Calls : pc[c] = "running"} \in SUBSET holders
    BY <2>1 DEF IInv, CapInv, Permitted
  <2>3. /\ IsFiniteSet(holders) /\ Cardinality(holders) \in Nat
        /\ Cardinality(holders) <= Permits /\ Permits \in Nat
    <3>1. holders \in SUBSET Calls /\ IsFiniteSet(Calls)
      BY PolicyType DEF IInv, TypeOK
    <3> QED
      BY <3>1, PolicyType, FS_Subset, FS_CardinalityType DEF IInv, CapInv
  <2>4. /\ Cardinality({c \in Calls : pc[c] = "running"}) <= Cardinality(holders)
        /\ Cardinality({c \in Calls : pc[c] = "running"}) \in Nat
    BY <2>2, <2>3, FS_Subset, FS_CardinalityType
  <2> QED
    BY <2>3, <2>4
<1> QED
  BY <1>1, Invariance, PTL

\* For any budget: each retry has been paid for with a withdrawal of its own,
\* and no call has paid for more than one that did not start.
THEOREM TokenPerRetryHolds == Spec => []TokenPerRetry
<1>1. IInv => TokenPerRetry
  BY DEF IInv, Accounts, TokenPerRetry
<1> QED
  BY <1>1, Invariance, PTL

\* For any number of calls, attempts and failures that trip: what a closed
\* circuit lets through to a failing dependency is bounded by the attempts of
\* the failures it counts, of the calls under way and of those dropped.
THEOREM LoadShedHolds == Spec => []LoadShed
<1>1. IInv => LoadShed
  <2> SUFFICES ASSUME IInv, Voters
               PROVE  strikes <= LoadLimit(drops)
    BY DEF LoadShed
  <2> DEFINE n == Cardinality(Calls)
             sum == Cardinality(Tally(Charges, M))
  <2>1. /\ M \in Nat \ {0} /\ n \in Nat /\ Threshold \in Nat \ {0}
        /\ failures \in Nat /\ drops \in Nat /\ strikes \in Nat
        /\ sum \in Nat /\ sum <= n * M
    <3>1. /\ M \in Nat \ {0} /\ n \in Nat /\ Threshold \in Nat \ {0}
          /\ IsFiniteSet(Calls) /\ LoadLimit(MaxDrops) \in Nat
      BY PolicyType, LoadLimitType DEF IInv
    <3>2. failures \in Nat /\ drops \in Nat /\ strikes \in Nat
      BY <3>1, PolicyType DEF IInv, TypeOK
    <3>3. sum \in Nat /\ sum <= n * M
      BY <3>1, ChargesType, TallyCount DEF IInv
    <3> QED
      BY <3>1, <3>2, <3>3
  <2>2. LoadLimit(drops) = (Threshold - 1 + n) * M + drops * (M - 1)
    BY DEF LoadLimit, M
  <2>3. /\ state = "Closed" => failures < Threshold
        /\ state # "Closed" => strikes = 0
        /\ strikes <= failures * M + sum + drops * (M - 1)
    BY DEF IInv, ShedInv, Bound
  <2> HIDE DEF n, sum
  <2>4. (Threshold - 1 + n) * M = (Threshold - 1) * M + n * M
    BY <2>1
  <2>5. drops * (M - 1) \in Nat /\ n * M \in Nat /\ (Threshold - 1) * M \in Nat
    <3>1. \A a, b \in Nat : a * b \in Nat
      OBVIOUS
    <3>2. M - 1 \in Nat /\ Threshold - 1 \in Nat
      BY <2>1
    <3> QED
      BY <2>1, <3>1, <3>2
  <2>6. CASE state = "Closed"
    <3>1. failures * M <= (Threshold - 1) * M
      <4>1. PICK k \in Nat : Threshold - 1 = failures + k
        <5>1. Threshold - 1 - failures \in Nat
          BY <2>1, <2>3, <2>6
        <5> QED
          BY <2>1, <5>1
      <4>2. (failures + k) * M = failures * M + k * M /\ k * M \in Nat
        BY <2>1
      <4>3. failures * M \in Nat
        BY <2>1
      <4> QED
        BY <4>1, <4>2, <4>3
    <3>2. failures * M \in Nat
      BY <2>1
    <3> QED
      BY <2>1, <2>2, <2>3, <2>4, <2>5, <3>1, <3>2
  <2>7. CASE state # "Closed"
    BY <2>1, <2>2, <2>3, <2>4, <2>5, <2>7
  <2> QED
    BY <2>6, <2>7
<1> QED
  BY <1>1, Invariance, PTL
=============================================================================
