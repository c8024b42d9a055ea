------------------------------- MODULE MCFleet ------------------------------
(* Instances of Fleet for TLC.                                              *)
EXTENDS Fleet

Plain == [scope |-> "none", maxAttempts |-> 2, budget |-> FALSE,
          deadlines |-> FALSE]

\* Calls that all vote, without and with a limit; every part in use; calls
\* whose attempts may be turned away.
AllPolicies ==
    {Plain,
     [Plain EXCEPT !.scope = "operations", !.deadlines = TRUE],
     [Plain EXCEPT !.scope = "operations", !.budget = TRUE,
                   !.deadlines = TRUE],
     [Plain EXCEPT !.scope = "attempts"]}

\* A retry budget around three attempts, and no limit.
Budgeted == {[Plain EXCEPT !.maxAttempts = 3, !.budget = TRUE]}
=============================================================================
