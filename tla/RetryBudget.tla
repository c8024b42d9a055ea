---------------------------- MODULE RetryBudget -----------------------------
(***************************************************************************)
(* The shared retry budget (src/src/retry/budget.rs): an atomic counter    *)
(* updated by compare-and-swap loops.  Each caller deposits when its call  *)
(* starts and withdraws before each retry (src/src/engine.rs, drive).      *)
(*                                                                         *)
(* A load and a compare_exchange_weak are one step each; the weak form may *)
(* also fail although the value is the expected one, and then observes it  *)
(* again.  Tokens are counted in the code's fixed point: Scale per retry.  *)
(***************************************************************************)
EXTENDS Integers

CONSTANTS Callers,
          Scale,     \* SCALE, and retry_cost
          Deposit,   \* (ratio * SCALE) as i64
          Burst,     \* burst.max(1)
          MaxCalls   \* bound: calls started altogether

ASSUME RetryBudgetAssumption ==
    /\ Scale \in Nat \ {0}
    /\ Deposit \in 0..Scale     \* ratio.clamp(0.0, 1.0)
    /\ Burst \in Nat \ {0}
    /\ MaxCalls \in Nat

RetryCost == Scale
MaxTokens == Burst * Scale

VARIABLES
    tokens,
    pc,     \* where each caller is
    cur,    \* the value each caller last observed
    calls, retries   \* history: deposits made and withdrawals granted

vars == <<tokens, pc, cur, calls, retries>>

PCs == {"idle", "deposit", "running", "withdraw"}

TypeOK ==
    /\ tokens \in 0..MaxTokens
    /\ pc \in [Callers -> PCs]
    /\ cur \in [Callers -> 0..MaxTokens]
    /\ calls \in Nat
    /\ retries \in Nat

Init ==
    /\ tokens = MaxTokens
    /\ pc = [c \in Callers |-> "idle"]
    /\ cur = [c \in Callers |-> 0]
    /\ calls = 0
    /\ retries = 0

Observe(c) == cur' = [cur EXCEPT ![c] = tokens]
Goto(c, where) == pc' = [pc EXCEPT ![c] = where]
\* A caller that is done forgets what it observed.
Forget(c) == cur' = [cur EXCEPT ![c] = 0]

\* Mutant of Capped: the deposit is not capped at the burst.
CappedNot(n) == n

\* (cur + deposit).min(max_tokens)
Capped(n) == IF n <= MaxTokens THEN n ELSE MaxTokens

\* deposit: the load at the start of a call.
BeginDeposit(c) ==
    /\ pc[c] = "idle"
    /\ calls < MaxCalls
    /\ Observe(c) /\ Goto(c, "deposit")
    /\ UNCHANGED <<tokens, calls, retries>>

\* Mutant of Deposited: a load and a store instead of an exchange.
DepositedBlindly(c) ==
    /\ pc[c] = "deposit"
    /\ tokens' = Capped(cur[c] + Deposit)
    /\ Goto(c, "running") /\ Forget(c)
    /\ calls' = calls + 1
    /\ UNCHANGED retries

\* deposit: the exchange succeeds.
Deposited(c) ==
    /\ pc[c] = "deposit"
    /\ tokens = cur[c]
    /\ tokens' = Capped(cur[c] + Deposit)
    /\ Goto(c, "running") /\ Forget(c)
    /\ calls' = calls + 1
    /\ UNCHANGED retries

\* try_withdraw: the load before a retry.
BeginWithdraw(c) ==
    /\ pc[c] = "running"
    /\ Observe(c) /\ Goto(c, "withdraw")
    /\ UNCHANGED <<tokens, calls, retries>>

\* Mutant of Granted: a load and a store instead of an exchange.
GrantedBlindly(c) ==
    /\ pc[c] = "withdraw"
    /\ cur[c] >= RetryCost
    /\ tokens' = cur[c] - RetryCost
    /\ Goto(c, "running") /\ Forget(c)
    /\ retries' = retries + 1
    /\ UNCHANGED calls

\* try_withdraw: the exchange succeeds.
Granted(c) ==
    /\ pc[c] = "withdraw"
    /\ cur[c] >= RetryCost
    /\ tokens = cur[c]
    /\ tokens' = cur[c] - RetryCost
    /\ Goto(c, "running") /\ Forget(c)
    /\ retries' = retries + 1
    /\ UNCHANGED calls

\* try_withdraw: the observed value does not cover a retry, the call is over.
Denied(c) ==
    /\ pc[c] = "withdraw"
    /\ cur[c] < RetryCost
    /\ Goto(c, "idle") /\ Forget(c)
    /\ UNCHANGED <<tokens, calls, retries>>

\* Either exchange fails and observes the current value.
ExchangeFailed(c) ==
    /\ \/ pc[c] = "deposit"
       \/ pc[c] = "withdraw" /\ cur[c] >= RetryCost
    /\ Observe(c)
    /\ UNCHANGED <<tokens, pc, calls, retries>>

\* The call returns without asking for another retry.
EndCall(c) ==
    /\ pc[c] = "running"
    /\ Goto(c, "idle")
    /\ UNCHANGED <<tokens, cur, calls, retries>>

\* The bound on the calls stops the callers, not the code.
AtBound ==
    /\ calls >= MaxCalls
    /\ \A c \in Callers : pc[c] = "idle"
    /\ UNCHANGED vars

Next == \/ \E c \in Callers :
              \/ BeginDeposit(c) \/ Deposited(c)
              \/ BeginWithdraw(c) \/ Granted(c) \/ Denied(c)
              \/ ExchangeFailed(c) \/ EndCall(c)
        \/ AtBound

Spec == Init /\ [][Next]_vars

-----------------------------------------------------------------------------
(* Properties.                                                              *)

\* However many callers share the budget, the retries granted never exceed the
\* burst plus the share of the calls that `ratio` allows
\* (RetryBudget::new: "Allow retries up to `ratio` of total calls").
RetriesBounded == retries * RetryCost <= MaxTokens + calls * Deposit

\* The exchange loops implement the atomic bucket: no deposit is lost, no
\* token is spent twice, and a retry is only denied when the bucket really
\* was too low at some point of try_withdraw.
Status == [c \in Callers |->
             IF pc[c] \in {"idle", "deposit"} THEN "out"
             ELSE IF pc[c] = "withdraw" /\ cur[c] < RetryCost THEN "denied"
             ELSE "in"]
Bucket == INSTANCE TokenBucket WITH status <- Status
ImplementsBucket == Bucket!Spec
=============================================================================
