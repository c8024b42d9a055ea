---------------------------- MODULE MCSemaphore -----------------------------
(* Instances of Semaphore for TLC.                                          *)
EXTENDS Semaphore

\* Nothing happens to the waiters, or everything may.
EveryScenario == {{}, {"drop", "timeout", "repoll"}}
DropsOnly == {{"drop"}}
=============================================================================
