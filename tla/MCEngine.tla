------------------------------ MODULE MCEngine -------------------------------
(* Instances of Engine for TLC.                                             *)
EXTENDS Engine

Ok == [ok |-> TRUE, retry |-> FALSE, counts |-> FALSE, hint |-> NoValue]
Error == [ok |-> FALSE, retry |-> TRUE, counts |-> TRUE, hint |-> NoValue]
AllOutcomes ==
    {Ok, Error,
     [Ok EXCEPT !.retry = TRUE],       \* a value that when_outcome retries
     [Error EXCEPT !.hint = 2],        \* a server that asks for a delay
     [Error EXCEPT !.retry = FALSE, !.counts = FALSE]}

Default ==
    [scope |-> "none", queueTimeout |-> NoValue, breaker |-> TRUE,
     maxAttempts |-> 3, maxElapsed |-> NoValue, budget |-> FALSE,
     backoff |-> [kind |-> "fixed", base |-> 2, max |-> 2], jitter |-> "full",
     attemptTimeout |-> NoValue, totalTimeout |-> NoValue]

Deadlines == {[Default EXCEPT !.attemptTimeout = 1, !.totalTimeout = 3],
              [Default EXCEPT !.attemptTimeout = 1, !.maxElapsed = 2],
              [Default EXCEPT !.totalTimeout = 3, !.maxElapsed = 3]}

\* Delays that grow up to the end of the width of the factor, short of their
\* max, and past their max up to the longest duration.
Growing == {[Default EXCEPT !.maxAttempts = 5, !.jitter = j, !.backoff = b] :
               j \in Jitters,
               b \in {[kind |-> "exponential", base |-> 2, max |-> 7],
                      [kind |-> "exponential", base |-> 3, max |-> 5]}}

\* Every stage configured, in both scopes; and stages left out.
AllPlans ==
    {[p EXCEPT !.scope = s, !.queueTimeout = 1, !.budget = TRUE] :
         p \in Deadlines, s \in {"operations", "attempts"}}
    \cup {[p EXCEPT !.breaker = FALSE] : p \in Deadlines}
    \cup {Default, [Default EXCEPT !.scope = "attempts", !.totalTimeout = 2]}
    \cup Growing
=============================================================================
