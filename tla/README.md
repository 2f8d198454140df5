# A verification development for DataSentry

DataSentry scans tables for data quality problems, repairs copies of them, and
asks language models for rules and repairs. Around the detectors, which are
statistics over one table, stands a system with state: a job queue in SQLite
that several processes share, a scheduler with threads, remote workers, scans
and repairs that read a file many times while it may change, stored results, a
vault for personal data with a key that rotates, a database and plugins that
every process migrates and checks when it opens the workspace. This directory models that
system in TLA+, checks it with TLC on small instances, and proves the
properties that matter most with TLAPS.

## 1. Inventory

Paths are relative to the repository; `scheduler/` is
`src/datasentry/scheduler/`, `core/` is `packages/core/src/datasentry_core/`.
`PROJECT.json` lists every component with its status, and every hazard with its
line.

| component | state | operations | what is hard | what makes it correct |
|---|---|---|---|---|
| job queue, `scheduler/store.py` | `scheduled_jobs`, `job_runs` | create, patch, delete, claim due / claim one, finish, cancel, recover, prune, last hash | server, CLI and MCP processes write it at once; rows are read long before they are written back | one executor per job; a run ends once; a cancelled result is void |
| scheduler, `scheduler/core.py` | tick thread, thread pool, webhooks sent | tick, trigger, cancel, recover, `_run_job` | crash between claim and result; cancel, patch, delete during a run; the file changes under the scan | no job stuck in `running`; no skip without a scan; due jobs are claimed; receivers hear what was recorded |
| remote executors, `scheduler/pool.py`, `scheduler/remote.py` | pool cursor, cooldown table | execute with failover or retries, cancel | threads share the cursor without a lock; late and lost answers | failure only after a whole round; every call returns |
| worker endpoints, `api.py` `/rpc/*` | in-flight registry | execute, cancel | a retry meets the request it retries | an acknowledged mark reaches the result; the registry drains |
| detectors, `core/detectors/` | none | one `detect` per detector | boundaries, nulls, non-finite numbers, ties | what they find is found by every scan that selects them |
| runner, sampling, rules, `core/detectors/runner.py`, `core/connectors/sampling.py`, `core/rules/` | the scan in progress | count, detect twice, rules | many reads of one file; errors between them | a quiet scan misses nothing, a disturbed one invents nothing |
| fusion, scores, gate, drift, trends, `core/engine/fusion.py`, `core/scoring/`, `core/drift/`, `trends.py` | none | merge, score, gate, compare | rounding, thresholds, which scans count | the readers of the history agree |
| scan commands and stored scans, `client.py`, `cli.py`, `api.py`, `ui.py`, `mcp_server.py` | `scan_runs`, issues, profile sidecars | scan one or several paths, incremental answer, profile reuse | an answer from the store for a file that has changed; a batch that half fails | exit codes can be trusted; a cached answer is the file's |
| repairs, `core/repair/engine.py`, `client.py` | snapshots and copies on disk, `repair_runs`, `repair_proposals` | propose, preview, apply, rollback, verify, diff | several reads, then two files, then a row; other processes | a copy never mixes versions that do not fit; the audit is what happened |
| AI proposals, `rules_ai.py`, `repair_ai.py`, `llm_providers.py` | `rules`, `llm_cache`, `llm_invocations` | propose, approve, call with retries | a reply made for one file used for another | masks are restored to what they stood for; no use without a trace |
| PII vault, `pii_vault.py`, `core/privacy/redactor.py` | `pii_mappings`, the key file | save, restore, summary, delete, purge, rotate | rotation row by row under concurrent commands and crashes | every session stays readable |
| connectors | open handles | open, query, sample, fingerprint | (how their reads see a changing file is part of the models) | - |
| metadata store, `core/storage/` | the tables above, `user_version` | migrate, save, query | several processes migrate one old database, or die half way (each other write is a step of the model that makes it) | who has opened the store has a complete schema |
| plugins and locks, `core/plugin_locks.py`, `core/plugins.py`, `client.py` | `plugins/`, `plugin_locks.json` | check, lock, import, install, uninstall, reaccept | every opening rewrites the locks from memory; users edit the plugins | a changed plugin is not imported, an unchanged one is |
| secrets, scan paths | none | checks on one string | - | - |
| HTTP, MCP, UI, TUI, SDK | none of their own | call the operations above, translate outcomes | exit codes and statuses | success is said only of what was done |
| reporting and contracts, demo | none | format | - | - |

The scheduler is where the hazards meet: three kinds of process, threads, a
crash and a changing file. The three groups of modules that follow it, scans,
repairs and AI proposals with the vault, share no table that one of them could
break for another, except the store of scans that repairs start from and the
file itself; the file and the scans are inputs of the repair model. Opening a
workspace comes before each of them and is a module of its own.

## 2. Modules

| module | what it is |
|---|---|
| `SchedulerStore` | the two tables of the queue and one operator per transaction of `store.py` |
| `Scheduler` | the processes: tick thread, pool, manual triggers, CLI, crashes, clock, file, webhooks; composes `SchedulerStore` |
| `SchedulerProperties` | what is promised, and the refinement mapping to `JobLease` |
| `JobLease` | abstract specification: a lease per job, taken when free, returned by its holder, never taken twice by one run |
| `MCScheduler` | model values, edits and specifications of jobs for TLC |
| `SchedulerProofs` | proofs: types, exclusion, the refinement and service of running jobs; results of runs, webhooks, budgets and schedules |
| `RemoteScan`, `MCRemoteScan`, `RemoteScanProofs` | remote execution, its instances, its proofs |
| `Table` | a table as SQL sees it: typed columns, cells, counts, quantiles |
| `Detectors` | each detector class as a function from tables to candidates; composes `Table` |
| `Scoring` | fusion, priorities, quality score, gate, drift, trends; composes `Detectors` |
| `Scan` | scans read by read, and the commands around them; composes `Scoring` |
| `Repair`, `RepairProofs` | repairs read by read and write by write, by several processes; composes `Scoring`; its proofs: rows, artefacts, copies, audits, previews, what a repair clears, answers, types |
| `ScanProofs` | proofs: what each detector reports, what fusion keeps, and the properties of scans, rows, exits, caches, profiles and trends |
| `SequenceLemmas` | what the proofs need about lists of lists (`FlattenSeq`), sums over sets (`SumFunction`), finite images and least numbers |
| `Vault` | redaction, sessions, restoring, deletion, purge, key rotation |
| `Assist` | AI proposals and approvals; composes `Vault`, whose commands interleave |
| `Workspace`, `MCWorkspace` | opening a workspace: migrations, plugin locks, import; the plugin commands |
| `WorkspaceProofs` | proofs: complete schemas, edited and locked plugins |
| `AssistProofs`, `VaultProofs` | proofs: the audit of calls and restored texts, approvals; sessions stay readable, texts are restored, types |
| `MCTables`, `MCScan`, `MCRepair`, `MCAssist` | the tables, files and commands of the instances |

### The scheduler: state and actions

`jobs[j]` is a row of `scheduled_jobs` (`row` says whether it exists),
`runs[r]` a row of `job_runs`; run ids are issued in order. `task[r]` is the
thread executing run `r`, its `pc` the next step of `_run_job`, with the
values it has read so far (`job` row, previous hash, scan result). `scans` are
the stored scans, each with the content the detectors read (`read`) and the
content the fingerprint was taken of (`hash`): two reads of a file that may
change in between. `sent` are the webhooks delivered.

An action is one transaction or one step of a thread between two. `Tick`
claims all due jobs in one transaction and dispatches them; `TickThreadFree`
says that without a pool the tick thread runs what it claimed one after the
other. `Finish` is `_finish_success` or `_finish_failure` with their update of
the job. `Cancel`, `Update`, `Delete`, `Create`, `Prune` may come from any
process at any time. `StoreBusy` is a write that finds the database locked for
the whole timeout; the database runs in WAL mode, so only writes can be
refused. `Crash` ends the threads of the server and `Restart` runs `recover`;
`CliCrash` ends a CLI command. `Commands` chooses which of these an instance
has.

Abstractions. The clock is read in the same step as the transaction that uses
it. `get_run` and `finish_run` of one completion are one step, exact because
the attempt of a run never changes. The order in which a pool starts queued
runs is left open. A cron expression is a period: `NextRun` is its next
multiple. `PATCH` cannot set a webhook to null, nor can the model. The gate
verdict, the report export, `last_run_at` and the two-layer fingerprint of
remote sources are data no transition reads. `shutdown` is not modelled: it
ends the ticks, waits for runs for a while and leaves the rest to the end of the
process, which is `Crash`. `prune_runs` has no caller outside the tests; it is a command only
some runs allow.

### Remote execution: state and actions

One call of `execute` per run; `Pooled` runs come from the server's pool,
the others from `job trigger --remote-url`. A worker's successor in the pool's
list is `After[w]`. `call[r]` walks `Begin`, `Send` or `Skip` (cooling),
`Result` or `Fails`, `Record`. `Fails` may happen whatever the worker does: the
error may be a timeout while the scan goes on. `post` is each request, served
by `Arrive`, `Scanned`, `ScanFailed` of `rpc_execute`, or lost or refused.
`registry` is `inflight_cancelled`. `CancelStore` and `NotifyWorker` are the
two steps of `job cancel --remote-url`; the notice may be lost (`NoticeFails`)
or name any worker. A worker that stops forgets its registry. The option
`health_check`, off by default, the report pull and the length of backoffs
are left out.

### Tables, detectors and scores

`Table` is the data: a table is its columns in order and its rows in order,
equal neighbours as one entry with a count. A text cell is a word with the marks
that trimming and lowering remove; which patterns a word matches is a constant
(`Traits`), so no regular expression is spelled out but every detector's use of
one is. `Detectors` has one definition per detector class, each the set of
candidates `detect` returns, and `Detect` dispatches like the registry.
`Scoring` is what happens to candidates: fusion by columns and family, priority,
quality score, gate, drift, trends. Fractions are integers with a unit each.

Abstractions. Evidence text, examples and the caps on groups, columns and pairs
are left out; the tables of the instances do not reach those caps. Columns whose
times are strings are left out. The isolation forest and the reservoir sample
are constants (`Isolated`, `Sample`), since scikit-learn and DuckDB choose
there.

### Scans: state and actions

`Scan` is one process that scans the paths of a command one after the other.
`file` is what each path holds now; `proc.scan` is the scan in progress with its
`stage`; `scans` are the rows of `scan_runs` with their issues and the profile
sidecar. Each read of the file is an action: `OpenSource`, `CountRows`,
`FirstDetect` (the `DetectorRun`), `SecondDetect` (the candidates),
`RunContractRules`, `SaveScan` (fingerprint and row count, then one
transaction), `SaveProfile`. `Edit` changes a file between any two of them. A
read fails when the file is gone or has other columns than the view. A query
may also fail for no reason of the file (`FirstDetect`, `SecondDetect`): in the
first detect that is a failed detector, in the second it ends the scan with
nothing saved. `Crash` ends the command. `quiet` says that nothing of this
happened during a scan, `looked` which versions it read. Commands come through
the CLI, SDK, API, UI or MCP; `Exit` is what each of them reports.

Abstractions. Local CSV files. The rules of a contract are read in one step, and
so are digest and row count. The sample of a sampled scan is drawn once, at the
first detector that uses it.

### Repairs: state and actions

`Repair` has several processes. `disk[id]` are the artefacts of a repair run:
the snapshot `before`, the `copy` (which version its carried cells came from
and which its repaired ones) and the `restored` copy. `runs` are the rows of
`repair_runs` in rowid order, `issues` what scans of the `Origins` stored.
`apply` walks `OpenSource`, `Propose`, `Project`, `CopyCells`, `Snapshot`,
`WriteCopy`, `Fingerprint`, `RecordOperations`, `SaveRun`; every one reads the
source as it is then. `preview` goes through `PreviewRules` and `PreviewStats` and
ends in `ReportPreview`; `ReadRun` starts rollback (`CopyBack`, `SaveRollback`),
`Verify` and `Diff`. `Edit`, `RemoveArtefact` and `Crash` are the environment.
`EndCall` and `Exit*` are the faces: batches that go on after an item failed,
pages that always show, statuses. What a caller hears of a call is its `told`.

Abstractions. The sheet of an XLSX file is read when it is opened; the other
views read the file. A copy is read with the column types of its source. The
spelling of a cell is kept only as far as `diff` sees it: a CSV copy has `str()` of
every value of the repaired columns (`engine.py` 822-829), a sheet is compared by
value and type; `Respelt` says which cells of a version are spelled otherwise
in its copy though they keep their value, `Rewrites` for which columns and formats that
happens, and `table_diff` shows these besides the cells whose value has `Moved`.
A record or an example names the place of its cell among the changed ones of its
column, as `column:i` does, and no row; there are at most `LogCap` and
`ExampleCap` per column, 500 and 10 in the code, 2 and 1 in the run, where they bind.
`InitialStores` begins some behaviours with an earlier repair. `RepairAssumption`
says that these are orderly, and that several items come in batches only, never
through the API.

### Vault and AI proposals: state and actions

`Vault`: `sessions` is `pii_mappings`; a row's encryption is the `key` it was
written under, and whoever has that key reads its payload. A process reads the
environment and the key file once, when it binds its vault (`Bind`). Rotation is
`StartRotation` (the rows as they are then), one `EncryptAnew` per row,
`ReplaceKeyFile` and `AuditRotation`. `redact` and `restore` work on tokens: a
value has a kind and becomes a mask with its place in the kind's bucket.
`invocations` is what the rows of `llm_invocations` say, without their number.

`Assist` composes `Vault`: its variables and its steps are the vault's and its
own, and the commands of both share the processes. A proposal profiles the file, draws
examples in another read, redacts, saves its mapping through the vault's
`SaveMapping` and `WriteMapping`, looks its prompt up in the cache or asks
(`TimesOut`, `Breaks`, `Answers`), records the call, stores the reply, checks it
and restores its texts one by one through `LoadMapping` and `AuditRestore`.
`Approve` leads through `CountRows`, `CountFailures` and `ReadExamples` to
`Activate`. A reply is any member of a set.

Abstractions. A prompt is its task, its request, the statistics of the columns
and the masked examples. Ties among frequent values come in any order. The report of
the preflight that `propose` runs decides nothing and is left out.

### Workspaces: state and actions

`Workspace` is what `DataSentry()` does before any command, by several
processes. `db` is the schema of `metadata.db`: its version, the tables that have
gained columns, these columns, whether `job_runs` admits `cancelled`.
`CreateTable` creates one missing table after the other, as `executescript` does,
`ReadVersion` reads the version, `LookForColumn` and `AlterTable` are the two
statements of `_ensure_column`, `Rebuild` is its transaction, `Stamp` writes the
version; `Busy` is a writer that waits in vain. A new database has no tables and
the version 0. The DDL declares every later column but the `source_path` of
`scan_runs` (`schema.py` 71-89), so on a new database too an `ALTER` adds that one
(478), and a death or another opener may come before it. What a process has still to add is
a set of places in `Additions`. `tree` is the plugins directory, `lockFile` what
`plugin_locks.json` reads as: no locks, while it is missing or `torn`. `revision`
counts how often it was emptied or written. `ReadLocks`,
`Check` (the integrity report and the locks of new plugins), `Truncate`, `Write`
and `Import` follow; `Copy`, `Placeholder` and `Lock` are `install_plugin`,
`Uninstall` and `Unlock` `uninstall_plugin`. `Edit` is a user, `Crash` any death.
`accepted` notes the content a place had when its lock was written, `blind` that
some write of the locks replaced another revision than it was based on. The
scheduler's store runs the same `migrate`.

Abstractions. A plugin's content stands for its files and their hashes, a body
for what it registers. The report and the new locks are one step, and so are
`copytree` and `rmtree`, each with the check that precedes it. Refusals of the
plugin commands change nothing and are guards. Plugins of entry points, which
come from installed packages, are left out.

### What the models show without claiming it as a property

* Scheduler. A dead job is claimed again after `RETRY_BACKOFF`, since
  `claim_due_jobs` excludes only running ones; `attempt` counts every run ever
  made, so successes spend the retry budget too; a deleted job leaves its runs,
  since foreign keys are off; a scan in which detectors failed still counts as
  the scan a later run may skip on; a run that was cancelled during its scan is
  still posted to the webhook as completed; a cron that is patched during a run
  loses the `next_run_at` computed from it (`mcp_server.py:819`), for
  `_finish_success` writes the one of the row read before the run.
* Scans. The incremental cache does not compare rules or references, so its
  answer may lack what they would find. The profile of an unchanged column may
  come from an older file (ADR-080).
* Drift. `drift latest` compares the oldest completed scan of a dataset with the
  newest: `list_scan_runs` answers newest first (`store.py:222`) and `drift_latest`
  takes the last and the first (`client.py` 745-751). Its docstring
  (`client.py:744`), the CLI (`cli.py:1007`) and `docs/MCP.md:103` all say the two
  latest, which is the same of two scans and differs from the third on.
  `DriftLatest` follows the code, `DriftLatest_LastTwo` is what the documents say.
  The run `scan` has up to four completed scans of a path, and tells them apart:
  with the latter TLC refutes `TrendAgreesWithDrift`, since the trend of `history`
  spans all scans. That the trend and the drift agree is therefore a fact of the
  code as it is; it does not support the documents.
* Repairs. A clip makes a CSV copy write an untouched 8 as 8.0, so the diff of the copy
  shows cells that no operation record names; `cells_equal` (`engine.py` 118-123)
  says of its own comparison that such a cell has not changed, yet `table_diff`
  compares texts. `AuditIsExact` claims of the diff only that it shows no other
  columns, and besides changed values only such cells. The records are the first
  500 changes of a column, and their row ids do not say which rows. `undo` of the
  TUI takes the run stored last, and `INSERT OR REPLACE` moves a run that was rolled back to the end. `verify` reports success with
  issues left, unless `--require-clean` is given. A crash between the artefacts
  and the row leaves an unrecorded repair on disk.
* Vault. A rotation that dies, or meets a row it cannot read, leaves the rows it
  has re-encrypted under a key stored nowhere (`pii_vault.py` 250-275). A key in the
  environment wins over the file a rotation has written. A proposal or another
  rotation that runs beside a rotation can write rows under the old key.
  Rotation sets `created_at` anew, so a purge by age no longer finds old
  sessions. Two mappings with the same kinds in another order have one session
  id and different payloads, which is a `PIIMappingConflictError`.
* Proposals. A reply that is later rejected stays in the cache for ever; an answer
  from the cache is not recorded as an invocation; a restore that fails half
  way leaves the rules saved before it although the caller is told of an error;
  a preflight whose column is missing is invalid but not dangerous, so an
  approval with a path enables the rule.
* Plugins. The lock of a flat plugin `name.py` is built of the path
  `plugins/name`, where nothing is: it is empty, the second opening refuses the
  plugin as tampered, and `reaccept` says that it is not installed, although
  `plugin_locks.py:6-7` promises integrity for both layouts; so is a directory
  whose manifest has another name. Every opening empties and rewrites the lock
  file: a process that reads it meanwhile, or after a death in between, locks
  whatever it finds, changed or not. `install` and `reaccept` write back the
  locks read at the opening, with those that others have removed or replaced
  since. A manifest that is edited to a new name makes a new plugin, which is
  locked as it is. An `install` that dies before the placeholder manifest leaves a
  directory that is no plugin and blocks the next `install` until it is
  uninstalled. `plugin test` imports a plugin without the check.

## 3. Runs

All runs end by exhausting their bound on the clock, run ids or commands, or
when all calls have returned, so deadlock is not checked.

| run | instance | shows |
|---|---|---|
| `sched_core` | 1 job, 2 contents, 3 runs, clock to 2, pool of 2; triggers, crash, file edits; edits of `enabled` (off) and `retries` | types, `MutualExclusion`, `LeaseSpec` (refinement), `RunningJobHasExecutor`, `SkipHasBasis`, `DeadOnlyAfterBudget`, `ScheduleFollowsCron`, `RunsEndOnce` |
| `sched_commands` | 1 job, 2 runs; every command of every process, `enabled = true`, pruning, busy writes, crashes of server and CLI | `CancelledRunIsVoid` |
| `sched_live` | 2 jobs with webhooks, 3 runs, clock to 3, one pool thread, crash, fairness | `RunsTerminate`, `DueJobIsClaimed`, `NotifiedAsRecorded` |
| `remote_pool` | 2 pooled calls, ring of 2, no retries | `MarkIsHonoured`, `ScanIsRegistered`, `FailsAfterWholeRound` |
| `remote_cli` | a CLI call with one retry and a pooled call on one worker, fairness | `RegistryIsDrained`, `VoidIsNotRecorded`, `CallsReturn` |
| `scan` | 2 paths, 8 versions of files, 11 scan commands of 5 faces; 2 commands, 1 change; up to four completed scans of a path | types; `QuietScanIsComplete`, `IssuesWereSeen`: an undisturbed scan misses nothing, no scan invents anything; `ExitOkMeansClean`; `CachedAnswerIsSound`; `SameColumnsMeasuredAnew`; `TrendAgreesWithDrift` |
| `repair` | 2 processes, 5 paths of 5 formats, 15 commands; 2 commands, 1 change | types; `CopiesAreAligned`, `AuditIsExact`, `RepairsClearTheirIssue`, `ArtefactsHaveARow`, `RowsHaveTheirFiles`, `OkMeansDone` |
| `assist` | 2 processes, 8 proposals and approvals and 6 vault commands; 2 commands, 1 change, 1 retry | types; `RestoredAsScanned`, `MappingsStayReadable`, `AuditIsComplete`, `DangerousRulesNeedForce` |
| `workspace` | 2 processes, a new database, others of the versions 3 to 11, plugins of both layouts; 4 commands, 1 edit, 1 crash | `OpenedMeansMigrated`, `EditsAreNoticed`, `LockedPluginsLoad` |
| `sched_exclusion` | 2 runs, cancel | violated: cancel frees the job while its thread scans; a second executor starts |
| `sched_stale` | 2 runs, file edits | violated: later runs skip content that no detector has read |
| `remote_retry` | 1 CLI call, 1 retry | violated: the retry resets the mark of an acknowledged cancel |

Bounds of the scheduler. Exclusion, skips and cancels need two runs of one job
and a third that follows from what the second left; hence `MaxRuns = 3` where
history matters. The clock needs to pass a cron period and a backoff once: 2 or 3,
with periods 2 and 3 and `RetryBackoff = 1`. Two jobs show the batch of a claim
and the tick thread shared by two jobs; two pool threads show two runs at once.
Two calls and two workers show a shared cursor moved between its read and its
write. Symmetry is over file contents, over runs that are all pooled or over
processes, never in a liveness run.

Bounds of scans, repairs and proposals. Each hazard is one command that meets
one disturbance, or one command that meets what another left or is doing: two
commands and one change reach each of these, at every one of the steps. The
files of `MCTables` are chosen so that, together, they make every detector
report something, among them ties, columns of nulls, non-finite numbers and a
file of 240003 rows for the detectors that need a small share of one. Each
command names the hazard it is there for (`twice` scans one file under two
spellings of its path, so that two commands make three or four scans of it); `disturbed` keeps the longest
scan from being disturbed at every read, and shorter ones with the same stages are.

Bounds of workspaces. A lock is made by one opening, a plugin changed by one
edit, and noticed, accepted or replaced by a second opening or a command; with
an uninstall and another install that is four. Two openers show every
interleaving of two migrations, and the versions are one for each way
through them: 0, a new database, with its tables and then the `ALTER` of
`source_path`; 3, where tables are missing of an old one; 5, with columns that the
rebuild needs; 7, other columns and the rebuild; 8, columns alone; 10, nothing to
do; 11, a version that is too new.

`MutualExclusion` fails with cancels, with an edit that sets `enabled = true`
(`update_job` then writes `status = 'idle'` into a running job), and when a
server restarts while a CLI run is alive (`recover` takes that run for its
own). So the run that checks it has none of these, the violation shows the
first, and the theorem names them as assumptions. `MarkIsHonoured` and
`ScanIsRegistered` hold without retries, which is how the pool calls its
executors; `remote_retry` shows the other case. `MappingsStayReadable` is about
rotations that are alone and complete: `raced` notes the others, whose loss
the list above describes. `EditsAreNoticed` and `LockedPluginsLoad` leave out
what `blind` notes and the plugins that are not `Regular`, in which they fail as
the same list says. `ArtefactsHaveARow` is about commands that nothing
disturbs. In all of them the exception is what the code does, not what the model
cannot express.

Fairness. `FairSpec` of the scheduler is weak fairness of the tick thread
(which loops for ever), of each running thread (a scan and an HTTP call end:
they have timeouts), of the pool (it starts queued work when a thread is free),
of `Restart` (the service manager's) and of the clock. Nothing is assumed of
commands, edits or crashes; `DueJobIsClaimed` therefore says "once the server
stays up". The bounds on run ids and the clock appear in it: a due job may stay
unclaimed when too few ids are left for the batch. `FairSpec` of remote
execution is weak fairness of each call's thread only, which `httpx` timeouts
justify; workers and network owe nothing. Scans, repairs and proposals are
checked for safety only: each is a sequence without a wait, and what they
promise in the end is what their exit says (`ExitOkMeansClean`, `OkMeansDone`).

## 4. Proofs

Every theorem is about `Spec` for all values of the constants allowed by the
named assumptions. An induction over numbers goes by the least counterexample
(`LeastOf` and `UpTo` of `SequenceLemmas`).

The scheduler.

* `SchedulerProofs!TypeCorrect`: `TypeOK` is inductive; one lemma for each
  transaction of the store, then one step per action.
* `SchedulerProofs!OneExecutor` and `ImplementsLease`. Assumption
  `Exclusive`: no cancel, no edit to `enabled = true`, and server crashes do
  not meet CLI runs; the three exceptions are the ones above. `MutualExclusion`
  is not inductive: a claim looks at the job's status, not at threads. `LeaseInv`
  adds that the job of a live thread is marked running unless it was deleted,
  that a thread's run is a run of its job, and that only CLI threads outlive
  the server. The refinement then follows step by step: claims take leases,
  results and crashes return them, all else stutters.
* `SchedulerProofs!RunningJobIsServed`. Assumption `Attended`: no run is
  pruned, no write is refused, no CLI command dies; without any of these a job
  does stay in `running` until a restart. Cancels, deletes, edits and server
  crashes are allowed. `ServiceInv` ties a running job to a running run with a
  live thread while the server is up.
* `SchedulerProofs!SkipsHaveBasis` and `CancelledRunsStayVoid`, without
  any assumption. `ResultInv` says that only a completed row carries a result
  and then the content its hash names was scanned for its job, and the same of
  what each thread has read and may go on to record; a skip copies a hash that
  came from a scan, so skips never rest on skips alone.
* `SchedulerProofs!EndedRunsStay`. Assumption `Apart`: server crashes do
  not meet CLI runs, for the restarted server fails the CLI's run, which then
  completes. `EndInv` says that a thread with a result to record finds its run
  running, cancelled or pruned, and that only CLI threads outlive the server.
* `SchedulerProofs!PostsAreRecorded`. Assumption `Uncancelled`: after a
  cancel during the scan the post says something else than the row. `NotifyInv`
  says that a thread that has still to post holds the result its row was given,
  and that what was posted is of a thread with nothing left to record.
* `SchedulerProofs!DeadJobsSpentTheirBudget` and `SchedulesFollowCron`.
  Assumption `Kept`: no run is pruned, for attempts are counted over the rows
  there are. `BudgetsFall`: an edit that changes the retries sets them to 0.
  `CronsKept`: edits leave the cron alone, since a result is written with the
  cron read before the run. `JobInv` bounds the attempt of a run by the runs
  its job has had, and ties what an executing thread has loaded to the job as it
  is; a next run that is off its cron has a failed run behind it.

Remote execution.

* `RemoteScanProofs!TypeCorrect`, `WholeRoundBeforeFailure`,
  `VoidResultsAreDropped`: for any ring, calls, retries and cooldown. The ring
  is assumed to be one cycle. `Arc` says that the workers a round has come to
  are an arc from `start` to `at`, so that coming back to `start` means it was
  the whole ring; `SlotInv` that requests go only to workers of the round, each
  with its own try; `VoidInv` that marks, notices and void results exist only
  for runs that the queue has cancelled.
* `RemoteScanProofs!RegistryDrains`, for any retries: a request never takes the
  slot of another (`SlotIsFresh`), so an entry always has its scan.
  `MarkReachesResult` and `ScansAreKnown` assume `Retries = 0`; `MarkInv` says
  that a marked scan keeps its mark in the registry, which is inductive only
  when a run has one request for a worker.

Scans, for any files, tables and commands, any edits and crashes, in
`ScanProofs`. Assumptions. `ScanAssumption`: a command names at least one path,
detectors of the registry, finitely many rules whose ids are no detectors' (the
runner reports them as `rule:<id>`) and a list of references.
`TablesAssumption`: a row of a table or of its sample has one cell for each
column, an entry stands for at least one row, and the isolation forest answers a
number. `RangesAssumption`: a pair is
a pair.

* What detectors report. For each of the 39 detectors a lemma says that it
  reports, of any rectangular table, only finitely many findings of its own name,
  whose counts are numbers, whose severity is one of the scale and whose confidence
  is a percentage (`Reports`, `DetectReports`). The rest depends on it: a maximum over
  severities or counts is well defined only of a finite set of such findings.
* What fusion makes of them. For any finite set of findings each lies in the
  cluster of its key, whose issue names its detector, is as severe and
  counts as many rows (`Covers`); conversely each detector named by an issue had a
  finding on its columns.
* `InvariantHolds`: `IInv`, of which TLC checks an instance too. The properties are
  about rows and answers, which a step makes of the running scan, so they are
  not inductive. `Knows` says of that scan that every detector of the command is
  done, has failed, was not supported, or is still to come, and that each
  candidate was seen in a version it has looked into; `Undisturbed`, that while nothing has
  changed since it opened the file it has looked into that one version and holds what
  the detectors that are done report of it (between the first and the second
  `detect` the one at work is done but not yet counted, `ReadBy`). `RowsInv` adds to the
  properties of rows `IsExpected`, which a cached answer needs: the row holds
  what its digest's table would give. `Saved`: while a profile is measured the
  last row is the scan's own.
* `TypesHold`, `QuietScansMissNothing`, `IssuesWereSeenAlways`, `OkMeansClean`,
  `CachedAnswersAreSound` and `ProfilesAreMeasuredAnew` follow from `IInv`.
  `TrendsAgreeWithDrift` needs of it only that rows are rows: the rest is about
  sequences, that the steps of a comparison telescope, and that a trend and a
  drift pick the same first and last scan, however many are between, when every
  completed scan has a score.

Repairs, for any processes, files, tables and commands and any edits, lost
artefacts and crashes.

* `RowsAndFiles`, `NoArtefactIsLeft`, `CopiesAlign`. `RepairInv` has four parts.
  `DiskSound`: a copy is made of versions that fit together. `RowsInv`: a row's
  artefacts are what it says, and a row nobody disturbed tells of one version.
  `ProcsInv`: what a process has read is of versions there were; a run id that
  is not saved yet belongs to one process (`Owns`), which is why two applies
  cannot share artefacts; a process that rolls back has the row as it was or as
  another rollback has left it (`Undoes`). `NothingLeft`: as long as nothing has
  happened, an artefact has its row or its apply.
* `OkIsDone`. `AnswersInv` says of the command in progress what the property says
  of an answer: each item that is behind it has an outcome (`SoFar`), what an
  outcome says was done stays done (`Told`: rows stay, and a rolled-back one
  stays so), and a face reports success only if every item `Achieved` its calls.
* `CopiesAlign` and `AuditExact` are about the tables themselves. `RepairInv` says
  that the row of an undisturbed repair, its snapshot and its copy are of one
  version and that the proposal's columns are columns of it. The rest holds of
  every table and proposal: `RowsAreCounted` (the rows that `RowsOf` spells out are
  as many as `Size` adds up), `ProjectedRows` and `CopiedRows` (row k of a copy is
  row k of the source, rewritten in the proposal's columns), and so `CopyIsProjected`:
  the copy's rows are those of the projection. `AuditExact` then says that the
  records are the first `LogCap` cells of each column that differ between
  snapshot and copy, with the values of both, for every cap, that the diff stays
  within the proposal's columns (`ChangedCellsMove`) and that a cell it shows whose value
  is the same was spelled anew. `RespeltAssumption`: only cells that a
  table has and that are not null are spelled otherwise. Both recursions, the flattening of the
  entries and the running sum, are followed in `SequenceLemmas`. `TablesAssumption`: a row of a
  table has one cell for each column, and an entry stands for at least one row.
* `RepairsClear`. Of any version and any proposal that `ProposalMap` makes
  (`Meant`): whatever a detector counts in a column, a copy has as many outside the
  proposal's columns (`ColumnIsCounted`, `CopiesCount`) and none within, since
  `After` leaves no cell that it counts (`TrimClears`, `LowerClears`, `TokensClear`,
  `DatesClear`, `DaysClear`, together `RepairClears`). For inconsistent case this is not
  cell by cell: the values a column has left are of one form per group
  (`LoweredIsOneForm`). A preview's count of affected cells is the number of cells
  that differ (`AffectedCellsChange`), its count of nulls that of its copy
  (`StatsAreOfTheCopy`). `HonestInv` carries this over to the program: rows and
  processes hold proposals that were made by the map (`RowsMeant`), and the
  numbers a preview has collected by separate reads are of the version it opened, as
  long as nothing has changed since (`Careful`), so that what it tells in the end is
  of one version (`Frank`). A clip is excluded: it moves the quartiles its bounds are of.
* `RepairTypes`. `BoundsInv`: each working process will give one answer, so
  answers and working processes together stay below the bound.

Vault and AI proposals.

* `AssistProofs!AuditComplete`, for any processes, commands, prompts, replies,
  retries and crashes. `AuditInv` adds to the property where a process is: it
  can be about to store a reply only after its call was recorded, what it has
  restored was audited for the session it works on, and a session that is still
  to be chosen has nothing restored. A vault command and a proposal share the
  steps that restore, so both are in one invariant.
* `AssistProofs!DangerousNeedForce`. `ContentAssumption`: versions have columns
  and counts. `ApprovalInv` says of an approval in progress that its counts are
  those of the file it opened as long as nothing has changed since (`Weighed`,
  `Counted`), so that who comes to `Activate` undisturbed and without `force` has
  counts that are tolerable; of a rule it says what it was enabled upon.
* `VaultProofs!SessionsReadable`. `MaterialAssumption`: a new key is a key;
  `SessionsAssumption`: the table is finite, so that the list a rotation makes
  holds every row; `CommandsAssumption`: proposals are not called rotations.
  `KeyInv`: while nothing has disturbed a rotation it is the only command; the
  others hold the configured key, and so do all rows; during a rotation each
  row is under the new key or still in its list, under the old one; when the
  list is empty all are under the key that then becomes the file's. The rows
  are not enough for an induction, for the next step reads the list.
* `VaultProofs!TextsRestored`. First about texts: a mapping of some texts covers
  each of their tokens (`Covers`), and a mask says the place of its value in the
  one bucket of its kind, so `restore` gives back under a mapping what `redact`
  has taken (`MaskIsRestored`); and mappings with the same entries restore alike,
  which is why an id that forgets their order is enough. Then `TextInv`, at every stage of
  every process (`Due`): the prompt shows the examples masked by the mapping
  that the process holds, and the session is the id of that mapping
  (`Prompted`); what is restored so far is restored under it (`Progress`,
  `Restored`). Of the tables: a row has the id of its payload and no id has two
  rows (`RowsSound`), and a cached reply is one a model gives to that task
  (`CacheSound`). A command that loads a row later, after others have rotated,
  purged or written it, therefore finds the mapping it stored or none.
  `ContentAssumption`: no cell of a file holds something that looks like a
  mask; such a value is restored as if it were one. `RepliesAssumption`: a
  readable reply is a list of items, each with a text. `SessionsAssumption`: the
  rows there are at first have a mapping each, under its id.
* `VaultProofs!VaultTypes`: with `BoundsInv`, as for repairs. `KeysAssumption`:
  the built-in key is a key, and a drawn key is none of those configured.

Workspaces, for any processes, databases, plugins, edits, commands and crashes.

* `SchemaComplete`. `DatabaseAssumption`: a workspace begins with what some version
  left behind, or with a new database, of version 0 and without tables.
  `MigrationInv`: a database has, in every table it has, the columns its version
  says; who is past the first step sees all tables; and what a process does not know
  done is on its list. A column of the DDL that is there already, in a table just
  created, is found there; `source_path` is not, and whoever comes first adds it. The version is
  stamped by whoever has an empty list, so a version promises the columns of
  every older one; nothing removes a column, and the rebuild of a slow process
  keeps those that a quicker one has added.
* `EditsNoticed` and `LockedLoad`. `LockInv`: unless `blind`, the locks of the
  file are of contents that were accepted (`FileInv`), and a process whose `base`
  is the present `revision` has read them (`Current`). The second is an action
  property of the same invariant.

Only model-checked: liveness (`RunsTerminate`, `DueJobIsClaimed`,
`CallsReturn`), which is out of the proof system's reach. Every invariant and
every action property that a passing run checks is stated by a theorem. The types
of remote execution are proved and checked by no run.

## 5. Not modelled, and what is left

* Two builds of different versions on one database: the older one goes on with
  the schema it opened, until it opens it anew and is refused.
* Plugins of entry points, and fixtures. Secrets and scan paths: checks and
  replacements on one string.
* Reporting, contracts, UI and TUI rendering, the demo: layout.
* How connectors parse files and reach remote sources: the models take what a
  handle answers as given.
* `shutdown` of the scheduler: for safety, ticks that pause before a `Crash`;
  a tick thread that outlives its join and meets it in `_submit` may run a job
  itself or fail after the claim, which is like the refused write of `StoreBusy`.

Next: `shutdown` with its threads.
