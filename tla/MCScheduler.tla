----------------------------- MODULE MCScheduler -----------------------------
(* Small instances of the scheduler for TLC: the values of Specs and Edits,  *)
(* and the symmetry that is sound for the runs without liveness.             *)
EXTENDS SchedulerProperties, TLC

CONSTANTS j1, j2, c1, c2

\* Jobs as they are registered: with a webhook, without one, and with either
\* retry budget.
EveryTwo == {[cron |-> 2, retry |-> 1, hook |-> TRUE]}
NoHook   == {[cron |-> 2, retry |-> 1, hook |-> FALSE]}
Retries  == {[cron |-> 2, retry |-> n, hook |-> FALSE] : n \in 0..1}

\* PATCH bodies.
Keep == [enabled |-> None, cron |-> None, retry |-> None, hook |-> None]
NoEdits   == {}
Toggles   == {[Keep EXCEPT !.enabled = FALSE], [Keep EXCEPT !.retry = 0]}
Reenables == {[Keep EXCEPT !.enabled = TRUE]}

Symmetry == Permutations(Contents)
=============================================================================
