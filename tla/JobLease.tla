------------------------------ MODULE JobLease ------------------------------
(***************************************************************************)
(* What the scheduler promises of executors (store.py:3-6, ADR-051 item    *)
(* 4), without its tables and threads: each job has a lease, held by at    *)
(* most one run, granted only while it is free, and never to a run that    *)
(* has held a lease before.  One step may grant the leases of several jobs *)
(* (claim_due_jobs is one transaction) or release several (a crash).       *)
(***************************************************************************)
CONSTANTS Jobs, Runs, Free

VARIABLES
    holder,   \* the run that holds each job's lease, or Free
    spent     \* the runs that hold or have held a lease

Init == holder = [j \in Jobs |-> Free] /\ spent = {}

Grant(S, to) ==
    /\ \A j \in S : holder[j] = Free
    /\ \A i, j \in S : to[i] = to[j] => i = j
    /\ holder' = [j \in Jobs |-> IF j \in S THEN to[j] ELSE holder[j]]
    /\ spent' = spent \cup {to[j] : j \in S}

Release(S) ==
    /\ holder' = [j \in Jobs |-> IF j \in S THEN Free ELSE holder[j]]
    /\ UNCHANGED spent

Next == \E S \in SUBSET Jobs :
            \/ \E to \in [S -> Runs \ spent] : Grant(S, to)
            \/ Release(S)

Spec == Init /\ [][Next]_<<holder, spent>>
=============================================================================
