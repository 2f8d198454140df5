------------------------------ MODULE Scheduler ------------------------------
(***************************************************************************)
(* datasentry/scheduler/core.py over the job queue: the server's tick      *)
(* thread, the API and CLI/MCP threads that trigger runs, the pool, and    *)
(* the steps of _run_job, interleaved with the commands that write the     *)
(* same tables and with crashes of the server and of the CLI.              *)
(*                                                                         *)
(* A thread of _run_job is named by the run it executes.  Between two      *)
(* steps of a thread every other thread and process may move; a step is    *)
(* one transaction, one read of the source file, or one HTTP post.         *)
(***************************************************************************)
EXTENDS SchedulerStore

CONSTANTS
    Specs,       \* [cron, retry, hook] of the jobs that get registered
    Edits,       \* the PATCH bodies in use, a subset of Edit
    Commands,    \* which commands and failures this deployment meets
    MaxWorkers,  \* Scheduler.max_workers: 1 is synchronous, more is a pool
    KeepRuns,    \* prune_runs(max_per_job)
    MaxTime      \* bound on the clock

ASSUME SchedulerAssumption ==
    /\ Specs \subseteq [cron : Crons, retry : 0..MaxRetry, hook : BOOLEAN]
    /\ Edits \subseteq Edit
    /\ MaxWorkers \in Nat \ {0} /\ KeepRuns \in Nat /\ MaxTime \in Nat
    /\ None \notin {"tick", "api", "cli", "skipped", "completed", "failed"}

VARIABLES
    task,   \* the _run_job thread of each run, with its local variables
    up,     \* the server process runs
    file,   \* the content at each job's path; None: no readable file
    scans,  \* the scans save_scan has stored: content read, hash recorded
    sent    \* webhook posts that reached their receiver

vars == <<jobs, runs, now, task, up, file, scans, sent>>

-----------------------------------------------------------------------------

Server == {"tick", "api"}

\* job is _run_job's argument; cron, retry and hook the fields it uses of the
\* row get_job returned; prev is last_successful_hash; read is what the
\* detectors saw; out and hash are the result to record.
PCs == {"none", "claimed", "previous", "compare", "scan", "digest",
        "finish", "notify", "mark", "done", "lost"}
Task == [pc : PCs, by : Server \cup {"cli", None}, job : Jobs \cup {None},
         cron : Crons \cup {None}, retry : 0..MaxRetry, hook : BOOLEAN,
         prev : Contents \cup {None}, read : Contents \cup {None},
         hash : Contents \cup {None},
         out : {"skipped", "completed", "failed", None}]

NoTask == [pc |-> "none", by |-> None, job |-> None, cron |-> None,
           retry |-> 0, hook |-> FALSE, prev |-> None, read |-> None,
           hash |-> None, out |-> None]

\* Which locals are bound at which point.
WellFormed(t) ==
    /\ t.pc # "none" => t.job \in Jobs
    /\ t.pc = "none" <=> t.by = None
    /\ t.pc \in {"previous", "compare", "scan", "digest", "finish"} => t.cron \in Crons
    /\ t.pc = "digest" => t.read \in Contents
    /\ t.pc = "finish" => t.out # None

\* A thread that has ended keeps only what names it.
Ended(r, pc) == [NoTask EXCEPT !.pc = pc, !.by = task[r].by, !.job = task[r].job]

Executing == {"previous", "compare", "scan", "digest", "finish"}
Live(r) == task[r].pc \in Executing \cup {"claimed"}
Busy(r) == task[r].pc \in Executing \cup {"notify", "mark"}
Executors(j) == {r \in RunIds : Live(r) /\ task[r].job = j}

Init ==
    /\ jobs \in [Jobs ->
         IF "create" \in Commands
         THEN {[row |-> "unborn", enabled |-> FALSE, retry |-> 0, hook |-> FALSE,
                cron |-> CHOOSE c \in Crons : TRUE, status |-> "idle", next |-> 0]}
         ELSE {[row |-> "present", enabled |-> TRUE, cron |-> s.cron,
                retry |-> s.retry, hook |-> s.hook, status |-> "idle",
                next |-> NextRun(s.cron, 0)] : s \in Specs}]
    /\ runs = [r \in RunIds |-> NoRun]
    /\ now = 0
    /\ task = [r \in RunIds |-> NoTask]
    /\ up = TRUE
    /\ file \in [Jobs -> Contents \cup {None}]
    /\ scans = {} /\ sent = {}

-----------------------------------------------------------------------------
(* Claiming and dispatching.                                                *)

\* The transaction and the hand-over to _submit: one thread per claimed run.
Dispatch(claim, who) ==
    /\ task' = [r \in RunIds |->
                  IF r \in DOMAIN claim
                  THEN [NoTask EXCEPT !.pc = "claimed", !.by = who, !.job = claim[r]]
                  ELSE task[r]]
    /\ UNCHANGED <<now, up, file, scans, sent>>

\* Variant: threads lost in a crash still occupy the tick thread.
TickThreadFree_NeverReset ==
    MaxWorkers > 1 \/ \A r \in RunIds : task[r].by = "tick" => task[r].pc = "done"

\* Without a pool the tick thread runs what it claimed, one run after the
\* other, before it ticks again.
TickThreadFree ==
    MaxWorkers > 1 \/ \A r \in RunIds :
                        task[r].by = "tick" => task[r].pc \in {"done", "lost"}

Tick == /\ up /\ TickThreadFree
        /\ \E S \in SUBSET Fresh : \E claim \in [S -> DueJobs] :
              ClaimDueJobs(claim) /\ Dispatch(claim, "tick")

Trigger(j, who) ==
    /\ who = "api" => up /\ "trigger" \in Commands
    /\ who = "cli" => "cli" \in Commands
    /\ \E r \in Fresh : ClaimJob(j, r) /\ Dispatch([x \in {r} |-> j], who)

\* Who may enter _run_job now: the caller's own thread, or a free pool thread.
CanStart(r) ==
    CASE task[r].by = "cli" -> TRUE
      [] task[r].by \in Server /\ MaxWorkers > 1 ->
            Cardinality({s \in RunIds : Busy(s) /\ task[s].by \in Server}) < MaxWorkers
      [] task[r].by = "tick" /\ MaxWorkers = 1 ->
            \A s \in RunIds : task[s].by = "tick" => ~Busy(s)
      [] OTHER -> TRUE

-----------------------------------------------------------------------------
(* The steps of _run_job.                                                   *)

\* A step that only moves this thread.
Go(r, t) == /\ task' = [task EXCEPT ![r] = t]
            /\ UNCHANGED <<jobs, runs, now, up, file, scans, sent>>

\* get_job: the row as it is now, or an early return that leaves the run as
\* it is.
LoadJob(r) ==
    /\ task[r].pc = "claimed" /\ CanStart(r)
    /\ LET row == jobs[task[r].job]
       IN  Go(r, IF row.row = "present"
                 THEN [task[r] EXCEPT !.pc = "previous", !.cron = row.cron,
                         !.retry = row.retry, !.hook = row.hook]
                 ELSE Ended(r, "done"))

ReadPrevious(r) ==
    /\ task[r].pc = "previous"
    /\ \E h \in LastSuccessfulHash(task[r].job) :
          Go(r, [task[r] EXCEPT !.pc = "compare", !.prev = h])

\* Variant: an unreadable file (None) compares equal to no previous hash.
Compare_NoneEqual(r) ==
    /\ task[r].pc = "compare"
    /\ LET current == file[task[r].job]
       IN  Go(r, IF task[r].prev = current
                 THEN [task[r] EXCEPT !.pc = "finish", !.out = "skipped",
                                      !.hash = current]
                 ELSE [task[r] EXCEPT !.pc = "scan"])

\* _source_fingerprint of a local file; OSError gives None and never a skip.
Compare(r) ==
    /\ task[r].pc = "compare"
    /\ LET current == file[task[r].job]
       IN  Go(r, IF current # None /\ task[r].prev = current
                 THEN [task[r] EXCEPT !.pc = "finish", !.out = "skipped",
                                      !.hash = current]
                 ELSE [task[r] EXCEPT !.pc = "scan"])

\* The executor: the detectors read the file, and only then is the file read
\* again for the fingerprint; the scan is stored with that fingerprint.
ScanRead(r) ==
    /\ task[r].pc = "scan" /\ file[task[r].job] # None
    /\ Go(r, [task[r] EXCEPT !.pc = "digest", !.read = file[task[r].job]])

ScanDigest(r) ==
    /\ task[r].pc = "digest" /\ file[task[r].job] # None
    /\ LET j == task[r].job
       IN  /\ scans' = scans \cup {[job |-> j, read |-> task[r].read, hash |-> file[j]]}
           /\ task' = [task EXCEPT ![r] = [@ EXCEPT !.pc = "finish",
                         !.out = "completed", !.hash = file[j], !.read = None]]
    /\ UNCHANGED <<jobs, runs, now, up, file, sent>>

ScanFails(r) ==
    /\ task[r].pc \in {"scan", "digest"}
    /\ Go(r, [task[r] EXCEPT !.pc = "finish", !.out = "failed", !.read = None])

\* Variants: a success waits for the retry delay; the budget is off by one;
\* the run's status is written into the job's column.
FinishSuccess_Backoff(r) ==
    /\ task[r].out \in {"skipped", "completed"}
    /\ FinishRun(r, "completed", task[r].hash, task[r].out = "skipped",
                 "idle", now + RetryBackoff)

FinishFailure_Strict(r) ==
    /\ task[r].out = "failed"
    /\ FinishRun(r, "failed", None, FALSE,
                 IF runs[r].attempt < task[r].retry THEN "idle" ELSE "dead",
                 now + RetryBackoff)

FinishFailure_RunStatus(r) ==
    /\ task[r].out = "failed"
    /\ FinishRun(r, "failed", None, FALSE,
                 IF runs[r].attempt <= task[r].retry THEN "idle" ELSE "failed",
                 now + RetryBackoff)

\* _finish_skipped, _finish_success, _finish_failure: the cron and the retry
\* budget are those of the row loaded at the start; a failure waits
\* RetryBackoff whether it leads to a retry or to "dead".
FinishSuccess(r) ==
    /\ task[r].out \in {"skipped", "completed"}
    /\ FinishRun(r, "completed", task[r].hash, task[r].out = "skipped",
                 "idle", NextRun(task[r].cron, now))

FinishFailure(r) ==
    /\ task[r].out = "failed"
    /\ FinishRun(r, "failed", None, FALSE,
                 IF runs[r].attempt <= task[r].retry THEN "idle" ELSE "dead",
                 now + RetryBackoff)

\* _notify returns at once for a job without a webhook_url.
Finish(r) ==
    /\ task[r].pc = "finish"
    /\ FinishSuccess(r) \/ FinishFailure(r)
    /\ task' = [task EXCEPT ![r] = IF task[r].hook
                                   THEN [task[r] EXCEPT !.pc = "notify"]
                                   ELSE Ended(r, "done")]
    /\ UNCHANGED <<now, up, file, scans, sent>>

\* Variant: every post says "completed".
Notify_AlwaysCompleted(r) ==
    /\ task[r].pc = "notify"
    /\ task' = [task EXCEPT ![r].pc = "mark"]
    /\ \/ sent' = sent \cup {[run |-> r, status |-> "completed"]}
       \/ sent' = sent
    /\ UNCHANGED <<jobs, runs, now, up, file, scans>>

\* Best effort: a post that fails is logged and webhook_at is saved anyway.
Notify(r) ==
    /\ task[r].pc = "notify"
    /\ task' = [task EXCEPT ![r].pc = "mark"]
    /\ \/ sent' = sent \cup {[run |-> r, status |->
                       IF task[r].out = "failed" THEN "failed" ELSE "completed"]}
       \/ sent' = sent
    /\ UNCHANGED <<jobs, runs, now, up, file, scans>>

Mark(r) ==
    /\ task[r].pc = "mark"
    /\ SaveWebhookAt(r)
    /\ task' = [task EXCEPT ![r] = Ended(r, "done")]
    /\ UNCHANGED <<now, up, file, scans, sent>>

RunJob(r) == \/ LoadJob(r) \/ ReadPrevious(r) \/ Compare(r)
             \/ ScanRead(r) \/ ScanDigest(r) \/ ScanFails(r)
             \/ Finish(r) \/ Notify(r) \/ Mark(r)

-----------------------------------------------------------------------------
(* Commands on the tables.                                                  *)

Others == UNCHANGED <<now, task, up, file, scans, sent>>

Create(j) == /\ "create" \in Commands
             /\ \E s \in Specs : CreateJob(j, s.cron, s.retry, s.hook)
             /\ Others

Update(j) == (\E e \in Edits : UpdateJob(j, e)) /\ Others

Delete(j) == "delete" \in Commands /\ DeleteJob(j) /\ Others

Cancel(j) == /\ "cancel" \in Commands
             /\ \E r \in RunIds : CancelRun(j, r)
             /\ Others

Prune == /\ "prune" \in Commands
         /\ \E gone \in SUBSET RunIds : PruneRuns(KeepRuns, gone)
         /\ Others

-----------------------------------------------------------------------------
(* Failures, restarts and the environment.                                  *)

\* A write that finds the database locked for busy_timeout raises out of
\* _run_job; without a pool it also ends the tick's loop over its claims.
StoreBusy(r) ==
    /\ "busy" \in Commands /\ task[r].pc \in {"finish", "mark"}
    /\ task' = [s \in RunIds |->
         IF s = r \/ (/\ MaxWorkers = 1 /\ task[r].by = "tick"
                      /\ task[s].by = "tick" /\ task[s].pc = "claimed")
         THEN Ended(s, "lost") ELSE task[s]]
    /\ UNCHANGED <<jobs, runs, now, up, file, scans, sent>>

\* The server process dies with its threads.
Crash ==
    /\ "crash" \in Commands /\ up
    /\ up' = FALSE
    /\ task' = [r \in RunIds |->
         IF task[r].by \in Server /\ task[r].pc # "done"
         THEN Ended(r, "lost") ELSE task[r]]
    /\ UNCHANGED <<jobs, runs, now, file, scans, sent>>

\* Lifespan start-up: recover, then the tick thread.
Restart == /\ ~up
           /\ RecoverInterrupted
           /\ up' = TRUE
           /\ UNCHANGED <<now, task, file, scans, sent>>

CliCrash(r) ==
    /\ "cli crash" \in Commands
    /\ task[r].by = "cli" /\ task[r].pc \notin {"done", "lost"}
    /\ Go(r, Ended(r, "lost"))

EditFile(j) ==
    /\ "edit file" \in Commands
    /\ \E c \in Contents \cup {None} : c # file[j] /\ file' = [file EXCEPT ![j] = c]
    /\ UNCHANGED <<jobs, runs, now, task, up, scans, sent>>

AdvanceClock == /\ now < MaxTime
                /\ now' = now + 1
                /\ UNCHANGED <<jobs, runs, task, up, file, scans, sent>>

Next ==
    \/ Tick
    \/ \E j \in Jobs : Trigger(j, "api") \/ Trigger(j, "cli")
    \/ \E r \in RunIds : RunJob(r)
    \/ \E j \in Jobs : Create(j) \/ Update(j) \/ Delete(j) \/ Cancel(j) \/ EditFile(j)
    \/ Prune
    \/ \E r \in RunIds : StoreBusy(r) \/ CliCrash(r)
    \/ Crash \/ Restart
    \/ AdvanceClock

Spec == Init /\ [][Next]_vars

\* Threads keep running, the tick loop keeps ticking, a dead server is
\* started again and time passes.
Fairness == /\ WF_vars(Tick) /\ WF_vars(Restart) /\ WF_vars(AdvanceClock)
            /\ \A r \in RunIds : WF_vars(RunJob(r))

FairSpec == Spec /\ Fairness
=============================================================================
