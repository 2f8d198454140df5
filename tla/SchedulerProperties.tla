------------------------ MODULE SchedulerProperties ------------------------
(***************************************************************************)
(* What the scheduler promises, stated over Scheduler.  Which commands a   *)
(* property tolerates is part of its statement in the README; the runs     *)
(* choose Commands and Edits accordingly.                                  *)
(***************************************************************************)
EXTENDS Scheduler

\* Every variable keeps its type (the one type invariant of the scheduler).
TypeOK ==
    /\ jobs \in [Jobs -> JobRow]
    /\ runs \in [RunIds -> RunRow]
    /\ now \in Nat
    /\ task \in [RunIds -> Task] /\ \A r \in RunIds : WellFormed(task[r])
    /\ up \in BOOLEAN
    /\ file \in [Jobs -> Contents \cup {None}]
    /\ scans \subseteq [job : Jobs, read : Contents, hash : Contents]
    /\ sent \subseteq [run : RunIds, status : {"completed", "failed"}]

-----------------------------------------------------------------------------

\* store.py:3-6, core.py:8: "the same job has only one executor at any time".
\* An executor is a thread that still has a result to record.
MutualExclusion ==
    \A r, s \in RunIds : Live(r) /\ Live(s) /\ task[r].job = task[s].job => r = s

\* The same promise as a specification: with a job's lease held by the thread
\* that executes it, the scheduler implements JobLease.  A lease is free
\* between two holders and no run holds one twice.
HolderOf(E) == IF E = {} THEN None ELSE CHOOSE r \in E : TRUE
Holder == [j \in Jobs |-> HolderOf(Executors(j))]
Lease == INSTANCE JobLease WITH
    Runs <- RunIds, Free <- None, spent <- RunIds \ Fresh, holder <- Holder
LeaseSpec == Lease!Spec

\* The inductive form of the promise.  The job of a live thread is marked
\* running, unless it was deleted; the run a thread records its result in is a
\* run of the thread's job; while the server is down only CLI threads run, and
\* there are none where there is no CLI.
HolderIsMarked ==
    \A r \in RunIds : Live(r) =>
       /\ jobs[task[r].job].row # "unborn"
       /\ Present(task[r].job) => jobs[task[r].job].status = "running"

ThreadRunsItsJob ==
    \A r \in RunIds : task[r].pc # "none" =>
       /\ runs[r].status # "none"
       /\ runs[r].status \in RunStatus => runs[r].job = task[r].job

OnlyCliWhenDown ==
    /\ ~up => "crash" \in Commands /\ \A r \in RunIds : Live(r) => task[r].by = "cli"
    /\ \A r \in RunIds : task[r].by = "cli" => "cli" \in Commands

LeaseInv == /\ TypeOK /\ MutualExclusion
            /\ HolderIsMarked /\ ThreadRunsItsJob /\ OnlyCliWhenDown

\* While the server is up, a job marked running really has a thread that will
\* record a result for one of its running runs; otherwise it could never be
\* claimed again (claim_due_jobs and claim_job both refuse a running job).
RunningJobHasExecutor ==
    up => \A j \in Jobs : jobs[j].status = "running" =>
             \E r \in RunningRuns(j) : Live(r)

\* A run recorded as skipped names the hash of a scan of that job that really
\* was stored: no skip is based on a skip, a failure or a cancelled result.
SkipHasBasis ==
    \A r \in RunIds : runs[r].skipped =>
       \E s \in scans : s.job = runs[r].job /\ s.hash = runs[r].hash

\* core.py:428 "content unchanged, so no rescan": the content a skip vouches
\* for is one that the detectors have read.
SkippedContentWasScanned ==
    \A r \in RunIds : runs[r].skipped =>
       \E s \in scans : s.job = runs[r].job /\ s.read = runs[r].hash

\* A run ends once: a completed, failed or cancelled run keeps its status
\* until it is pruned, whatever late thread, cancel or recovery comes after.
RunsEndOnce ==
    [][\A r \in RunIds : runs[r].status \in {"completed", "failed", "cancelled"} =>
          runs'[r].status \in {runs[r].status, "pruned"}]_vars

\* store.py:278: a cancelled run's result is void.  Nothing of it is recorded,
\* then or later.
CancelledRunIsVoid ==
    [][\A r \in RunIds : runs[r].status = "cancelled" =>
          /\ runs'[r].status \in {"cancelled", "pruned"}
          /\ runs'[r].hash = None /\ ~runs'[r].skipped]_vars

\* What a webhook receiver was told is what the queue records.
NotifiedAsRecorded ==
    \A m \in sent : runs[m.run].status \in {m.status, "pruned"}

\* core.py:6: a job goes dead only once it has used more runs than its retry
\* budget allows.
DeadOnlyAfterBudget ==
    \A j \in Jobs : jobs[j].status = "dead" =>
       Cardinality(History(j)) > jobs[j].retry

\* A job that neither runs nor waits for a retry is due on its own cron: next
\* is one of its firings (every firing of period c is a multiple of c).
ScheduleFollowsCron ==
    \A j \in Jobs :
       /\ Present(j) /\ jobs[j].status = "idle"
       /\ \A r \in History(j) : runs[r].status = "completed"
       => jobs[j].next % jobs[j].cron = 0

-----------------------------------------------------------------------------

\* Every run that starts ends: its thread records a result, or a restart marks
\* it interrupted.
RunsTerminate ==
    \A r \in RunIds : runs[r].status = "running" ~> runs[r].status # "running"

\* Once the server stays up, a due job is claimed, whatever the other jobs do
\* to the tick thread, unless it stops being due or the bound on runs is met.
DueJobIsClaimed ==
    <>[]up => \A j \in Jobs :
        Due(j) ~> ~Due(j) \/ Cardinality(Fresh) < Cardinality(DueJobs)
=============================================================================
