-------------------------- MODULE RetryBudgetProofs -------------------------
(***************************************************************************)
(* The retry budget for any number of callers, any ratio and any burst:    *)
(* the counter stays within its bounds, retries stay within the budget,    *)
(* and the exchange loops implement the atomic bucket.                     *)
(*                                                                         *)
(* RetriesBounded is not inductive: the tokens still in the bucket must be *)
(* counted with the ones spent (Ledger).                                   *)
(***************************************************************************)
EXTENDS RetryBudget, TLAPS

Ledger == tokens + retries * RetryCost <= MaxTokens + calls * Deposit

IInv == TypeOK /\ Ledger

-----------------------------------------------------------------------------

LEMMA Units ==
    /\ MaxTokens \in Nat /\ RetryCost \in Nat \ {0} /\ RetryCost <= MaxTokens
    /\ Deposit \in Nat
    /\ \A n \in Nat : n * RetryCost \in Nat /\ (n + 1) * RetryCost = n * RetryCost + RetryCost
    /\ \A n \in Nat : n * Deposit \in Nat /\ (n + 1) * Deposit = n * Deposit + Deposit
<1>1. RetryCost \in Nat \ {0} /\ Deposit \in Nat /\ Burst \in Nat \ {0}
  BY RetryBudgetAssumption DEF RetryCost
<1>2. MaxTokens = Burst * RetryCost
  BY DEF MaxTokens, RetryCost
<1>3. MaxTokens \in Nat /\ RetryCost <= MaxTokens
  <2>1. \A b \in Nat \ {0}, s \in Nat : b * s \in Nat /\ s <= b * s
    OBVIOUS
  <2> QED BY <1>1, <1>2, <2>1
<1>4. \A n \in Nat, s \in Nat : n * s \in Nat /\ (n + 1) * s = n * s + s
  OBVIOUS
<1> QED BY <1>1, <1>3, <1>4

\* The cap keeps a deposit within the bucket and never takes tokens away.
LEMMA CappedType ==
    ASSUME NEW n \in 0..MaxTokens
    PROVE  /\ Capped(n + Deposit) \in 0..MaxTokens
           /\ Capped(n + Deposit) <= n + Deposit
BY Units DEF Capped

\* A full bucket, nobody in a call.
THEOREM InitIInv == Init => IInv
BY Units DEF Init, IInv, TypeOK, Ledger, PCs

\* Every load, exchange and return keeps the ledger.
THEOREM NextIInv == IInv /\ [Next]_vars => IInv'
<1> SUFFICES ASSUME IInv, [Next]_vars PROVE IInv'
  OBVIOUS
<1>0. /\ TypeOK /\ Ledger /\ tokens \in 0..MaxTokens
      /\ calls \in Nat /\ retries \in Nat
      /\ \A c \in Callers : cur[c] \in 0..MaxTokens
  BY DEF IInv, TypeOK
<1>1. ASSUME NEW c \in Callers, BeginDeposit(c) PROVE IInv'
  BY <1>0, <1>1 DEF BeginDeposit, Observe, Goto, IInv, TypeOK, Ledger, PCs
<1>2. ASSUME NEW c \in Callers, Deposited(c) PROVE IInv'
  <2>1. /\ tokens' \in 0..MaxTokens /\ tokens' <= tokens + Deposit
        /\ calls' = calls + 1 /\ retries' = retries
    BY <1>0, <1>2, CappedType DEF Deposited
  <2>2. Ledger'
    <3>1. /\ calls * Deposit \in Nat /\ retries * RetryCost \in Nat
          /\ calls' * Deposit = calls * Deposit + Deposit
          /\ retries' * RetryCost = retries * RetryCost
          /\ MaxTokens \in Nat /\ Deposit \in Nat
      BY <1>0, <2>1, Units
    <3> QED BY <1>0, <2>1, <3>1 DEF Ledger
  <2>3. TypeOK'
    BY <1>0, <1>2, <2>1, Units DEF Deposited, Goto, Forget, TypeOK, PCs
  <2> QED BY <2>2, <2>3 DEF IInv
<1>3. ASSUME NEW c \in Callers, BeginWithdraw(c) PROVE IInv'
  BY <1>0, <1>3 DEF BeginWithdraw, Observe, Goto, IInv, TypeOK, Ledger, PCs
<1>4. ASSUME NEW c \in Callers, Granted(c) PROVE IInv'
  <2>1. /\ tokens' \in 0..MaxTokens /\ tokens' = tokens - RetryCost
        /\ retries' = retries + 1 /\ calls' = calls
    BY <1>0, <1>4, Units DEF Granted
  <2>2. Ledger'
    BY <1>0, <2>1, Units DEF Ledger
  <2>3. TypeOK'
    BY <1>0, <1>4, <2>1, Units DEF Granted, Goto, Forget, TypeOK, PCs
  <2> QED BY <2>2, <2>3 DEF IInv
<1>5. ASSUME NEW c \in Callers, Denied(c) PROVE IInv'
  BY <1>0, <1>5, Units DEF Denied, Forget, Goto, IInv, TypeOK, Ledger, PCs
<1>6. ASSUME NEW c \in Callers, ExchangeFailed(c) PROVE IInv'
  BY <1>0, <1>6 DEF ExchangeFailed, Observe, IInv, TypeOK, Ledger
<1>7. ASSUME NEW c \in Callers, EndCall(c) PROVE IInv'
  BY <1>0, <1>7 DEF EndCall, Goto, IInv, TypeOK, Ledger, PCs
<1>8. CASE UNCHANGED vars
  BY <1>8 DEF vars, IInv, TypeOK, Ledger
<1> QED BY <1>1, <1>2, <1>3, <1>4, <1>5, <1>6, <1>7, <1>8 DEF Next, AtBound

\* Every reachable state satisfies the inductive invariant.
THEOREM Invariance == Spec => []IInv
BY InitIInv, NextIInv, PTL DEF Spec

\* The counter never leaves 0..max_tokens, and neither does a value observed.
THEOREM BudgetTypeOK == Spec => []TypeOK
<1>1. IInv => TypeOK
  BY DEF IInv
<1> QED BY <1>1, Invariance, PTL

\* Retries granted never exceed the burst plus the callers' share.
THEOREM RetriesBoundedHolds == Spec => []RetriesBounded
<1>1. IInv => RetriesBounded
  <2> SUFFICES ASSUME IInv PROVE RetriesBounded
    OBVIOUS
  <2>1. tokens \in Nat /\ retries * RetryCost \in Nat /\ calls * Deposit \in Nat
    BY Units DEF IInv, TypeOK
  <2> QED BY <2>1, Units DEF IInv, Ledger, RetriesBounded
<1> QED BY <1>1, Invariance, PTL

-----------------------------------------------------------------------------

\* A step of the loops is a step of the bucket or invisible to it: a denial
\* takes effect when the low value is observed, the rest at the exchange.
THEOREM BucketStep == IInv /\ [Next]_vars => [Bucket!Next]_<<tokens, Status>>
<1> SUFFICES ASSUME IInv, [Next]_vars
             PROVE  Bucket!Next \/ UNCHANGED <<tokens, Status>>
  OBVIOUS
<1>0. /\ TypeOK /\ tokens \in 0..MaxTokens
      /\ RetryCost \in Nat \ {0} /\ MaxTokens \in Nat /\ RetryCost <= MaxTokens
      /\ \A c \in Callers : cur[c] \in 0..MaxTokens
  BY Units DEF IInv, TypeOK
<1>1. ASSUME NEW c \in Callers, BeginDeposit(c) PROVE UNCHANGED <<tokens, Status>>
  BY <1>0, <1>1 DEF BeginDeposit, Observe, Goto, TypeOK, Status
<1>2. ASSUME NEW c \in Callers, Deposited(c) PROVE Bucket!Enter(c)
  <2>1. Status[c] = "out" /\ Status' = [Status EXCEPT ![c] = "in"]
    BY <1>0, <1>2 DEF Deposited, Forget, Goto, TypeOK, Status
  <2> QED BY <1>2, <2>1 DEF Deposited, Capped, Bucket!Enter
<1>3. ASSUME NEW c \in Callers, BeginWithdraw(c)
      PROVE  Bucket!Deny(c) \/ UNCHANGED <<tokens, Status>>
  <2>1. CASE tokens < RetryCost
    <3>1. Status[c] = "in" /\ Status' = [Status EXCEPT ![c] = "denied"]
      BY <1>0, <1>3, <2>1 DEF BeginWithdraw, Observe, Goto, TypeOK, Status
    <3> QED BY <1>3, <2>1, <3>1 DEF BeginWithdraw, Bucket!Deny
  <2>2. CASE ~(tokens < RetryCost)
    BY <1>0, <1>3, <2>2 DEF BeginWithdraw, Observe, Goto, TypeOK, Status
  <2> QED BY <2>1, <2>2
<1>4. ASSUME NEW c \in Callers, Granted(c) PROVE Bucket!Grant(c)
  <2>1. Status[c] = "in" /\ Status' = Status
    BY <1>0, <1>4 DEF Granted, Forget, Goto, TypeOK, Status
  <2> QED BY <1>0, <1>4, <2>1 DEF Granted, Bucket!Grant
<1>5. ASSUME NEW c \in Callers, Denied(c) PROVE Bucket!Leave(c)
  <2>1. Status[c] = "denied" /\ Status' = [Status EXCEPT ![c] = "out"]
    BY <1>0, <1>5 DEF Denied, Forget, Goto, TypeOK, Status
  <2> QED BY <1>5, <2>1 DEF Denied, Bucket!Leave
<1>6. ASSUME NEW c \in Callers, ExchangeFailed(c)
      PROVE  Bucket!Deny(c) \/ UNCHANGED <<tokens, Status>>
  <2>1. CASE pc[c] = "withdraw" /\ cur[c] >= RetryCost /\ tokens < RetryCost
    <3>1. /\ pc' = pc /\ cur'[c] = tokens
          /\ \A d \in Callers \ {c} : cur'[d] = cur[d]
      BY <1>0, <1>6 DEF ExchangeFailed, Observe, TypeOK
    <3>2. Status[c] = "in" /\ Status' = [Status EXCEPT ![c] = "denied"]
      <4>1. ~(cur[c] < RetryCost) /\ cur'[c] < RetryCost
        BY <1>0, <2>1, <3>1
      <4>2. Status[c] = "in" /\ Status'[c] = "denied"
        BY <2>1, <3>1, <4>1 DEF Status
      <4>3. \A d \in Callers \ {c} : Status'[d] = Status[d]
        BY <3>1 DEF Status
      <4>4. Status' = [d \in Callers |-> Status'[d]]
        BY DEF Status
      <4>5. Status = [d \in Callers |-> Status[d]]
        BY DEF Status
      <4> QED BY <4>2, <4>3, <4>4, <4>5
    <3> QED BY <1>6, <2>1, <3>2 DEF ExchangeFailed, Bucket!Deny
  <2>2. CASE ~(pc[c] = "withdraw" /\ cur[c] >= RetryCost /\ tokens < RetryCost)
    BY <1>0, <1>6, <2>2 DEF ExchangeFailed, Observe, TypeOK, Status
  <2> QED BY <2>1, <2>2
<1>7. ASSUME NEW c \in Callers, EndCall(c) PROVE Bucket!Leave(c)
  <2>1. Status[c] = "in" /\ Status' = [Status EXCEPT ![c] = "out"]
    BY <1>0, <1>7 DEF EndCall, Goto, TypeOK, Status
  <2> QED BY <1>7, <2>1 DEF EndCall, Bucket!Leave
<1>8. CASE UNCHANGED vars
  BY <1>8 DEF vars, Status
<1> QED BY <1>1, <1>2, <1>3, <1>4, <1>5, <1>6, <1>7, <1>8
        DEF Next, AtBound, Bucket!Next

\* The compare-and-swap loops implement the atomic token bucket.
THEOREM Refinement == Spec => ImplementsBucket
<1>1. Init => Bucket!Init
  BY DEF Init, Bucket!Init, Status
<1> QED BY <1>1, BucketStep, Invariance, PTL DEF Spec, ImplementsBucket, Bucket!Spec
=============================================================================
