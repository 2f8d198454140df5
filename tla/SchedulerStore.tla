--------------------------- MODULE SchedulerStore ---------------------------
(***************************************************************************)
(* The job queue of datasentry/scheduler/store.py: the tables              *)
(* scheduled_jobs and job_runs, and one operator per transaction.  Every   *)
(* write runs under BEGIN IMMEDIATE, so a transaction is one step whoever  *)
(* runs it: the server's tick thread, its API threads, its pool threads,   *)
(* or another process (CLI, MCP) on the same database.                     *)
(*                                                                         *)
(* Times are whole units (the columns hold whole seconds).  A file_hash is *)
(* a member of Contents: equal hashes are equal file contents.             *)
(***************************************************************************)
EXTENDS Naturals, FiniteSets

CONSTANTS
    Jobs,          \* job ids; a deleted id is never issued again (uuid4)
    MaxRuns,       \* bound: how many run ids a behaviour may issue
    Crons,         \* the periods a cron expression may have
    MaxRetry,      \* largest retry_attempts
    Contents,      \* the contents a scanned file may have, i.e. their hashes
    RetryBackoff,  \* RETRY_BACKOFF, in clock units
    None           \* Python's None

ASSUME StoreAssumption ==
    /\ MaxRuns \in Nat /\ MaxRetry \in Nat /\ RetryBackoff \in Nat
    /\ Crons \subseteq Nat \ {0} /\ Crons # {}
    /\ None \notin Contents \cup Jobs \cup Nat

VARIABLES
    jobs,   \* scheduled_jobs: [Jobs -> JobRow]
    runs,   \* job_runs: [RunIds -> RunRow]
    now     \* utcnow(), the one clock every process reads

storeVars == <<jobs, runs>>

-----------------------------------------------------------------------------
(* Rows.  "row" says whether the table holds the row; a run whose status is *)
(* "none" has not been inserted, and one that is "pruned" was deleted.      *)

RunIds == 1..MaxRuns

JobStatus == {"idle", "running", "dead"}
RunStatus == {"running", "completed", "failed", "cancelled"}

JobRow == [row: {"unborn", "present", "deleted"}, enabled: BOOLEAN,
           cron: Crons, retry: 0..MaxRetry, hook: BOOLEAN,
           status: JobStatus, next: Nat]

RunRow == [status: RunStatus \cup {"none", "pruned"}, job: Jobs \cup {None},
           attempt: Nat, started: Nat, hash: Contents \cup {None},
           skipped: BOOLEAN, hookAt: BOOLEAN]

\* The fields of PATCH /jobs/{id}: None is a field the request leaves out.
Edit == [enabled: BOOLEAN \cup {None}, cron: Crons \cup {None},
         retry: 0..MaxRetry \cup {None}, hook: {TRUE, None}]

NoRun == [status |-> "none", job |-> None, attempt |-> 0, started |-> 0,
          hash |-> None, skipped |-> FALSE, hookAt |-> FALSE]

Present(j) == jobs[j].row = "present"
History(j) == {r \in RunIds : runs[r].job = j /\ runs[r].status \in RunStatus}
Fresh      == {r \in RunIds : runs[r].status = "none"}
RunningRuns(j) == {r \in History(j) : runs[r].status = "running"}

\* next_run: croniter's first firing strictly after t.
NextRun(c, t) == (t \div c + 1) * c

-----------------------------------------------------------------------------
(* Definitions of jobs: create, partial update, delete.                     *)

\* POST /jobs, `job create`, MCP job_create: a new row, first due on its cron.
CreateJob(j, cron, retry, hook) ==
    /\ jobs[j].row = "unborn"
    /\ jobs' = [jobs EXCEPT ![j] =
                  [row |-> "present", enabled |-> TRUE, cron |-> cron,
                   retry |-> retry, hook |-> hook, status |-> "idle",
                   next |-> NextRun(cron, now)]]
    /\ UNCHANGED runs

Given(new, old) == IF new = None THEN old ELSE new

\* PATCH /jobs/{id} and MCP job_update: a new cron also moves next_run_at, and
\* enabled=true also writes status = 'idle', whatever the job is doing.
UpdateJob(j, e) ==
    /\ Present(j)
    /\ LET row == jobs[j] IN
       jobs' = [jobs EXCEPT ![j] =
         [row EXCEPT
            !.enabled = Given(e.enabled, row.enabled),
            !.cron    = Given(e.cron, row.cron),
            !.retry   = Given(e.retry, row.retry),
            !.hook    = Given(e.hook, row.hook),
            !.next    = IF e.cron = None THEN row.next ELSE NextRun(e.cron, now),
            !.status  = IF e.enabled = TRUE THEN "idle" ELSE row.status]]
    /\ UNCHANGED runs

\* DELETE /jobs/{id}: only the scheduled_jobs row goes, because the store's
\* connections leave SQLite's foreign keys off.
DeleteJob(j) ==
    /\ Present(j)
    /\ jobs' = [jobs EXCEPT ![j] = [@ EXCEPT !.row = "deleted", !.status = "idle"]]
    /\ UNCHANGED runs

-----------------------------------------------------------------------------
(* Claims.  claim maps each run id the transaction inserts to its job.      *)

\* The WHERE clause of claim_due_jobs: a dead job qualifies.
Due(j) == /\ Present(j) /\ jobs[j].enabled
          /\ jobs[j].status # "running" /\ jobs[j].next <= now
DueJobs == {j \in Jobs : Due(j)}

\* Variant: the status test is dropped.
Claimable_Running(j) == Present(j)

\* The WHERE clause of claim_job: neither enabled nor next_run_at matters.
Claimable(j) == Present(j) /\ jobs[j].status # "running"

NewRun(j) == [status |-> "running", job |-> j,
              attempt |-> 1 + Cardinality(History(j)), started |-> now,
              hash |-> None, skipped |-> FALSE, hookAt |-> FALSE]

\* claim uses run ids in the order in which they are issued.
InIssueOrder(claim) ==
    /\ DOMAIN claim \subseteq Fresh
    /\ \A r \in DOMAIN claim, s \in Fresh \ DOMAIN claim : r < s

Claim(claim) ==
    /\ InIssueOrder(claim)
    /\ jobs' = [j \in Jobs |->
                  IF \E r \in DOMAIN claim : claim[r] = j
                  THEN [jobs[j] EXCEPT !.status = "running"] ELSE jobs[j]]
    /\ runs' = [r \in RunIds |->
                  IF r \in DOMAIN claim THEN NewRun(claim[r]) ELSE runs[r]]

\* One transaction claims every due job, one run each.
ClaimDueJobs(claim) ==
    /\ DueJobs # {}
    /\ \A j \in DueJobs : \E r \in DOMAIN claim : claim[r] = j
    /\ \A r, s \in DOMAIN claim : claim[r] = claim[s] => r = s
    /\ \A r \in DOMAIN claim : claim[r] \in DueJobs
    /\ Claim(claim)

ClaimJob(j, r) == Claimable(j) /\ Claim([x \in {r} |-> j])

-----------------------------------------------------------------------------
(* Results, cancellation, recovery, retention.                              *)

\* Variant: the test for a cancelled run is dropped.
FinishRun_Cancelled(r, result, hash, skipped, status, next) ==
    IF runs[r].status \notin RunStatus THEN UNCHANGED storeVars
    ELSE /\ runs' = [runs EXCEPT ![r] = [@ EXCEPT
                         !.status = result, !.hash = hash, !.skipped = skipped]]
         /\ jobs' = IF Present(runs[r].job)
                    THEN [jobs EXCEPT ![runs[r].job] = [@ EXCEPT
                            !.status = status, !.next = next]]
                    ELSE jobs

\* finish_run: nothing for a run that is gone or cancelled; any other run,
\* even one already terminal, takes the result, and its job (if it still has
\* a row) takes the status and next_run_at the caller computed.
FinishRun(r, result, hash, skipped, status, next) ==
    IF runs[r].status \notin RunStatus \ {"cancelled"}
    THEN UNCHANGED storeVars
    ELSE /\ runs' = [runs EXCEPT ![r] = [@ EXCEPT
                         !.status = result, !.hash = hash, !.skipped = skipped]]
         /\ jobs' = IF Present(runs[r].job)
                    THEN [jobs EXCEPT ![runs[r].job] = [@ EXCEPT
                            !.status = status, !.next = next]]
                    ELSE jobs

\* cancel_run takes whichever running run of the job the query returns first.
CancelRun(j, r) ==
    /\ r \in RunningRuns(j)
    /\ runs' = [runs EXCEPT ![r].status = "cancelled"]
    /\ jobs' = IF Present(j) THEN [jobs EXCEPT ![j].status = "idle"] ELSE jobs

\* Variants: recovery forgets the runs, forgets the jobs, or lacks the WHERE
\* clause on the runs.
RecoverInterrupted_JobsOnly ==
    /\ jobs' = [j \in Jobs |-> IF jobs[j].status = "running"
                               THEN [jobs[j] EXCEPT !.status = "idle"] ELSE jobs[j]]
    /\ UNCHANGED runs

RecoverInterrupted_RunsOnly ==
    /\ runs' = [r \in RunIds |-> IF runs[r].status = "running"
                                 THEN [runs[r] EXCEPT !.status = "failed"]
                                 ELSE runs[r]]
    /\ UNCHANGED jobs

RecoverInterrupted_AllRuns ==
    /\ runs' = [r \in RunIds |-> IF runs[r].status \in RunStatus
                                 THEN [runs[r] EXCEPT !.status = "failed"]
                                 ELSE runs[r]]
    /\ jobs' = [j \in Jobs |-> IF jobs[j].status = "running"
                               THEN [jobs[j] EXCEPT !.status = "idle"] ELSE jobs[j]]

\* recover_interrupted: every running run of the database, whoever executes it.
RecoverInterrupted ==
    /\ runs' = [r \in RunIds |-> IF runs[r].status = "running"
                                 THEN [runs[r] EXCEPT !.status = "failed"]
                                 ELSE runs[r]]
    /\ jobs' = [j \in Jobs |-> IF jobs[j].status = "running"
                               THEN [jobs[j] EXCEPT !.status = "idle"]
                               ELSE jobs[j]]

\* prune_runs keeps, per job, the keep newest rows by started_at.  Equal
\* started_at are ordered by a random suffix of run_id, hence any kept set
\* that no deleted row is newer than.
PruneRuns(keep, gone) ==
    /\ gone # {} /\ \A r \in gone : runs[r].status \in RunStatus
    /\ \A j \in Jobs :
         LET kept == History(j) \ gone
         IN  /\ Cardinality(kept) =
                  IF Cardinality(History(j)) < keep
                  THEN Cardinality(History(j)) ELSE keep
             /\ \A r \in kept, s \in History(j) \cap gone :
                  runs[s].started <= runs[r].started
    /\ runs' = [r \in RunIds |->
                  IF r \in gone THEN [NoRun EXCEPT !.status = "pruned"]
                  ELSE runs[r]]
    /\ UNCHANGED jobs

\* last_successful_hash: the hash of the newest completed run that was not a
\* skip; runs of the same second tie, and either may be returned.
Successes(j) == {r \in History(j) : /\ runs[r].status = "completed"
                                    /\ ~runs[r].skipped /\ runs[r].hash # None}
LastSuccessfulHash(j) ==
    IF Successes(j) = {} THEN {None}
    ELSE {runs[r].hash : r \in {s \in Successes(j) :
              \A t \in Successes(j) : runs[t].started <= runs[s].started}}

SaveWebhookAt(r) ==
    /\ runs' = IF runs[r].status \in RunStatus
               THEN [runs EXCEPT ![r].hookAt = TRUE] ELSE runs
    /\ UNCHANGED jobs
=============================================================================
