--------------------------- MODULE SchedulerProofs ---------------------------
(***************************************************************************)
(* Theorems of the scheduler for every value of its constants: types, one  *)
(* executor per job and the lease it implements, service of running jobs,  *)
(* results of runs, webhooks, budgets and schedules.                       *)
(***************************************************************************)
EXTENDS SchedulerProperties, FiniteSetTheorems, TLAPS

-----------------------------------------------------------------------------
(* Lemmas about the operators of the queue.                                 *)

\* A firing of a cron is a time, and it lies strictly after the time asked.
LEMMA NextRunLater ==
    ASSUME NEW c \in Nat \ {0}, NEW t \in Nat
    PROVE  NextRun(c, t) \in Nat /\ NextRun(c, t) > t
<1>1. t \div c \in Nat /\ t % c \in 0..(c-1) /\ t = c * (t \div c) + (t % c)
  OBVIOUS
<1>2. (t \div c + 1) * c = c * (t \div c) + c
  BY <1>1
<1>3. c * (t \div c) \in Nat
  BY <1>1
<1> QED
  BY <1>1, <1>2, <1>3 DEF NextRun

\* The attempt number of a new run is a number.
LEMMA HistoryFinite ==
    ASSUME NEW j PROVE IsFiniteSet(History(j)) /\ Cardinality(History(j)) \in Nat
<1>1. IsFiniteSet(1..MaxRuns)
  BY FS_Interval, StoreAssumption
<1>2. History(j) \subseteq 1..MaxRuns
  BY DEF History, RunIds
<1> QED
  BY <1>1, <1>2, FS_Subset, FS_CardinalityType

-----------------------------------------------------------------------------
(* Type correctness.                                                        *)

StoreTypes == jobs \in [Jobs -> JobRow] /\ runs \in [RunIds -> RunRow]

LEMMA ClaimType ==
    ASSUME TypeOK, NEW claim, NEW S \in SUBSET Fresh, claim \in [S -> Jobs], Claim(claim)
    PROVE  StoreTypes'
<1>1. \A j \in Jobs : NewRun(j) \in RunRow
  BY HistoryFinite DEF NewRun, RunRow, TypeOK, RunStatus
<1>2. S \subseteq RunIds
  BY DEF Fresh
<1>3. jobs' \in [Jobs -> JobRow]
  <2>1. \A j \in Jobs : [jobs[j] EXCEPT !.status = "running"] \in JobRow
    BY DEF TypeOK, JobRow, JobStatus
  <2> QED
    BY <2>1 DEF Claim, TypeOK
<1>4. runs' \in [RunIds -> RunRow]
  BY <1>1, <1>2 DEF Claim, TypeOK
<1> QED
  BY <1>3, <1>4 DEF StoreTypes

LEMMA FinishRunType ==
    ASSUME TypeOK, NEW r \in RunIds, NEW hash \in Contents \cup {None},
           NEW result \in {"completed", "failed"}, NEW skipped \in BOOLEAN,
           NEW status \in JobStatus, NEW next \in Nat,
           FinishRun(r, result, hash, skipped, status, next)
    PROVE  StoreTypes'
<1>1. CASE runs[r].status \notin RunStatus \ {"cancelled"}
  BY <1>1 DEF FinishRun, StoreTypes, TypeOK, storeVars
<1>2. CASE runs[r].status \in RunStatus \ {"cancelled"}
  <2>1. runs' = [runs EXCEPT ![r] = [@ EXCEPT
                      !.status = result, !.hash = hash, !.skipped = skipped]]
    BY <1>2 DEF FinishRun
  <2>2. runs' \in [RunIds -> RunRow]
    <3>1. runs[r] \in RunRow /\ runs \in [RunIds -> RunRow]
      BY DEF TypeOK
    <3>2. [runs[r] EXCEPT !.status = result, !.hash = hash, !.skipped = skipped]
             \in RunRow
      BY <3>1 DEF RunRow, RunStatus
    <3> QED
      BY <2>1, <3>1, <3>2
  <2> DEFINE j == runs[r].job
  <2>3. CASE j \in Jobs /\ Present(j)
    <3>1. jobs' = [jobs EXCEPT ![j] = [@ EXCEPT
                           !.status = status, !.next = next]]
      BY <1>2, <2>3 DEF FinishRun
    <3>2. jobs[j] \in JobRow /\ jobs \in [Jobs -> JobRow]
      BY <2>3 DEF TypeOK
    <3>3. [jobs[j] EXCEPT !.status = status, !.next = next] \in JobRow
      BY <3>2 DEF JobRow
    <3> QED
      BY <2>2, <2>3, <3>1, <3>2, <3>3 DEF StoreTypes
  <2>4. CASE ~(j \in Jobs /\ Present(j))
    <3>1. jobs' = jobs \/ (j \notin Jobs /\
            jobs' = [jobs EXCEPT ![j] = [@ EXCEPT
                           !.status = status, !.next = next]])
      BY <1>2, <2>4 DEF FinishRun
    <3>2. jobs \in [Jobs -> JobRow]
      BY DEF TypeOK
    <3>3. jobs' \in [Jobs -> JobRow]
      BY <3>1, <3>2
    <3> QED
      BY <2>2, <3>3 DEF StoreTypes
  <2> QED
    BY <2>3, <2>4
<1> QED
  BY <1>1, <1>2

Threads == {t \in Task : WellFormed(t)}

Rest == /\ now \in Nat /\ task \in [RunIds -> Threads] /\ up \in BOOLEAN
        /\ file \in [Jobs -> Contents \cup {None}]
        /\ scans \subseteq [job : Jobs, read : Contents, hash : Contents]
        /\ sent \subseteq [run : RunIds, status : {"completed", "failed"}]

LEMMA TypeParts == TypeOK <=> StoreTypes /\ Rest
  BY DEF TypeOK, StoreTypes, Rest, Threads

LEMMA TypePartsNext == StoreTypes' /\ Rest' => TypeOK'
  BY DEF TypeOK, StoreTypes, Rest, Threads

LEMMA Points == /\ {"none", "claimed", "previous", "compare", "scan", "digest"} \subseteq PCs
               /\ {"finish", "notify", "mark", "done", "lost"} \subseteq PCs
  BY DEF PCs

LEMMA NoTaskType == NoTask \in Threads
<1>1. NoTask \in Task
  BY StoreAssumption, Points DEF NoTask, Task
<1> QED
  BY <1>1 DEF NoTask, Threads, WellFormed

\* A thread that is claimed, moves or ends stays well formed.
LEMMA EndedType ==
    ASSUME NEW r, task[r] \in Threads, task[r].pc # "none",
           NEW pc \in {"done", "lost"}
    PROVE  Ended(r, pc) \in Threads
<1>1. Ended(r, pc) \in Task
  <2>1. task[r].job \in Jobs \cup {None} /\ task[r].by \in Server \cup {"cli", None}
    BY DEF Threads, Task
  <2> QED
    BY <2>1, NoTaskType, Points DEF Ended, Task, Threads
<1>2. WellFormed(Ended(r, pc))
  BY DEF Ended, Threads, WellFormed, NoTask
<1> QED
  BY <1>1, <1>2 DEF Threads

LEMMA GoType ==
    ASSUME TypeOK, NEW r \in RunIds, NEW t \in Threads, Go(r, t)
    PROVE  TypeOK'
<1>1. StoreTypes /\ Rest
  BY TypeParts
<1>2. StoreTypes' /\ Rest'
  BY <1>1 DEF Go, StoreTypes, Rest
<1> QED
  BY <1>2, TypePartsNext

\* A claim keeps the types, in the queue and in the threads.
LEMMA DispatchType ==
    ASSUME TypeOK, NEW S \in SUBSET Fresh, NEW claim \in [S -> Jobs],
           NEW who \in Server \cup {"cli"}, Claim(claim), Dispatch(claim, who)
    PROVE  TypeOK'
<1>1. StoreTypes' /\ StoreTypes /\ Rest
  BY ClaimType, TypeParts
<1>2. \A j \in Jobs :
         [NoTask EXCEPT !.pc = "claimed", !.by = who, !.job = j] \in Threads
  <2>1. NoTask \in Task
    BY NoTaskType DEF Threads
  <2> TAKE j \in Jobs
  <2> DEFINE t == [NoTask EXCEPT !.pc = "claimed", !.by = who, !.job = j]
  <2>2. t \in Task
    BY <2>1, Points DEF Task
  <2>3. who # None
    BY SchedulerAssumption DEF Server
  <2>4. t.pc = "claimed" /\ t.by = who /\ t.job = j
    BY <2>1 DEF Task
  <2>5. WellFormed(t)
    BY <2>3, <2>4 DEF WellFormed
  <2> QED
    BY <2>2, <2>5 DEF Threads
<1>3. task' \in [RunIds -> Threads]
  BY <1>1, <1>2 DEF Dispatch, Rest
<1> QED
  BY <1>1, <1>3, TypePartsNext DEF Dispatch, Rest

LEMMA TickType == ASSUME TypeOK, Tick PROVE TypeOK'
<1>1. PICK S \in SUBSET Fresh : \E claim \in [S -> DueJobs] :
         ClaimDueJobs(claim) /\ Dispatch(claim, "tick")
  BY DEF Tick
<1>2. PICK claim \in [S -> DueJobs] : ClaimDueJobs(claim) /\ Dispatch(claim, "tick")
  BY <1>1
<1>3. claim \in [S -> Jobs]
  BY DEF DueJobs
<1> QED
  BY <1>2, <1>3, DispatchType DEF ClaimDueJobs, Server

LEMMA TriggerType ==
    ASSUME TypeOK, NEW j \in Jobs, NEW who \in {"api", "cli"}, Trigger(j, who)
    PROVE  TypeOK'
<1>1. PICK r \in Fresh : ClaimJob(j, r) /\ Dispatch([x \in {r} |-> j], who)
  BY DEF Trigger
<1>2. [x \in {r} |-> j] \in [{r} -> Jobs] /\ {r} \in SUBSET Fresh
  OBVIOUS
<1>3. Claim([x \in {r} |-> j]) /\ Dispatch([x \in {r} |-> j], who)
  BY <1>1 DEF ClaimJob
<1> QED
  BY <1>2, <1>3, DispatchType DEF Server

LEMMA LastHashType ==
    ASSUME TypeOK, NEW j, NEW h \in LastSuccessfulHash(j)
    PROVE  h \in Contents \cup {None}
<1>1. \A r \in Successes(j) : runs[r] \in RunRow
  BY DEF Successes, History, TypeOK
<1>2. \A r \in Successes(j) : runs[r].hash \in Contents \cup {None}
  BY <1>1 DEF RunRow
<1> QED
  BY <1>2 DEF LastSuccessfulHash

\* Every step of a thread keeps the types.
LEMMA RunJobType ==
    ASSUME TypeOK, NEW r \in RunIds, RunJob(r)
    PROVE  TypeOK'
<1> DEFINE t == task[r]
<1>t. /\ t \in Threads /\ t \in Task /\ WellFormed(t)
      /\ task \in [RunIds -> Threads] /\ StoreTypes /\ Rest
  BY TypeParts DEF Rest, Threads
<1>j. t.pc # "none" => t.job \in Jobs /\ t.by # None
  BY <1>t DEF WellFormed
<1>f. t.pc # "none" => file[t.job] \in Contents \cup {None}
  BY <1>j, <1>t DEF Rest
<1>n. None \notin {"skipped", "completed", "failed"}
  BY SchedulerAssumption
<1>1. CASE LoadJob(r)
  <2> DEFINE row == jobs[t.job]
             u == [t EXCEPT !.pc = "previous", !.cron = row.cron, !.retry = row.retry,
                            !.hook = row.hook]
  <2>1. t.pc = "claimed"
    BY <1>1 DEF LoadJob
  <2>2. row \in JobRow
    BY <1>j, <1>t, <2>1 DEF StoreTypes
  <2>3. u \in Task
    BY <1>t, <2>2, Points DEF Task, JobRow
  <2>4. u.pc = "previous" /\ u.job = t.job /\ u.by = t.by /\ u.cron \in Crons
    BY <1>t, <2>2 DEF Task, JobRow
  <2>5. WellFormed(u)
    BY <1>j, <2>1, <2>4 DEF WellFormed
  <2>6. Ended(r, "done") \in Threads
    BY <1>t, <2>1, EndedType
  <2>7. Go(r, u) \/ Go(r, Ended(r, "done"))
    BY <1>1 DEF LoadJob
  <2> QED
    BY <2>3, <2>5, <2>6, <2>7, GoType DEF Threads
<1>2. CASE ReadPrevious(r)
  <2>1. PICK h \in LastSuccessfulHash(t.job) :
           Go(r, [t EXCEPT !.pc = "compare", !.prev = h])
    BY <1>2 DEF ReadPrevious
  <2> DEFINE u == [t EXCEPT !.pc = "compare", !.prev = h]
  <2>2. t.pc = "previous" /\ h \in Contents \cup {None}
    BY <1>2, LastHashType DEF ReadPrevious
  <2>3. u \in Task
    BY <1>t, <2>2, Points DEF Task
  <2>4. u.pc = "compare" /\ u.job = t.job /\ u.by = t.by /\ u.cron = t.cron
    BY <1>t DEF Task
  <2>5. WellFormed(u)
    BY <1>t, <2>2, <2>4 DEF WellFormed
  <2> QED
    BY <2>1, <2>3, <2>5, GoType DEF Threads
<1>3. CASE Compare(r)
  <2> DEFINE u == [t EXCEPT !.pc = "finish", !.out = "skipped", !.hash = file[t.job]]
             v == [t EXCEPT !.pc = "scan"]
  <2>1. t.pc = "compare"
    BY <1>3 DEF Compare
  <2>2. u \in Task /\ v \in Task
    BY <1>t, <1>f, <2>1, Points DEF Task
  <2>3. /\ u.pc = "finish" /\ u.job = t.job /\ u.by = t.by /\ u.cron = t.cron
        /\ u.out = "skipped"
        /\ v.pc = "scan" /\ v.job = t.job /\ v.by = t.by /\ v.cron = t.cron
    BY <1>t DEF Task
  <2>4. WellFormed(u) /\ WellFormed(v)
    BY <1>t, <1>n, <2>1, <2>3 DEF WellFormed
  <2>5. Go(r, u) \/ Go(r, v)
    BY <1>3 DEF Compare
  <2> QED
    BY <2>2, <2>4, <2>5, GoType DEF Threads
<1>4. CASE ScanRead(r)
  <2> DEFINE u == [t EXCEPT !.pc = "digest", !.read = file[t.job]]
  <2>1. t.pc = "scan" /\ file[t.job] # None /\ Go(r, u)
    BY <1>4 DEF ScanRead
  <2>2. u \in Task
    BY <1>t, <1>f, <2>1, Points DEF Task
  <2>3. /\ u.pc = "digest" /\ u.job = t.job /\ u.by = t.by /\ u.cron = t.cron
        /\ u.read \in Contents
    BY <1>t, <1>f, <2>1 DEF Task
  <2>4. WellFormed(u)
    BY <1>t, <2>1, <2>3 DEF WellFormed
  <2> QED
    BY <2>1, <2>2, <2>4, GoType DEF Threads
<1>5. CASE ScanDigest(r)
  <2> DEFINE u == [t EXCEPT !.pc = "finish", !.out = "completed", !.hash = file[t.job],
                            !.read = None]
  <2>1. t.pc = "digest" /\ file[t.job] # None
    BY <1>5 DEF ScanDigest
  <2>2. t.job \in Jobs /\ file[t.job] \in Contents /\ t.read \in Contents
    BY <1>t, <1>j, <1>f, <2>1 DEF WellFormed
  <2>3. u \in Task
    BY <1>t, <2>2, Points DEF Task
  <2>4. /\ u.pc = "finish" /\ u.job = t.job /\ u.by = t.by /\ u.cron = t.cron
        /\ u.out = "completed"
    BY <1>t DEF Task
  <2>5. WellFormed(u)
    BY <1>t, <1>n, <2>1, <2>4 DEF WellFormed
  <2>6. [job |-> t.job, read |-> t.read, hash |-> file[t.job]]
           \in [job : Jobs, read : Contents, hash : Contents]
    BY <2>2
  <2>7. task' = [task EXCEPT ![r] = u]
    BY <1>5 DEF ScanDigest
  <2>8. task' \in [RunIds -> Threads]
    BY <1>t, <2>3, <2>5, <2>7 DEF Threads
  <2>9. scans' \subseteq [job : Jobs, read : Contents, hash : Contents]
    BY <1>5, <1>t, <2>6 DEF ScanDigest, Rest
  <2> QED
    BY <1>5, <1>t, <2>8, <2>9, TypePartsNext DEF ScanDigest, StoreTypes, Rest
<1>6. CASE ScanFails(r)
  <2> DEFINE u == [t EXCEPT !.pc = "finish", !.out = "failed", !.read = None]
  <2>1. t.pc \in {"scan", "digest"} /\ Go(r, u)
    BY <1>6 DEF ScanFails
  <2>2. u \in Task
    BY <1>t, Points DEF Task
  <2>3. /\ u.pc = "finish" /\ u.job = t.job /\ u.by = t.by /\ u.cron = t.cron
        /\ u.out = "failed"
    BY <1>t DEF Task
  <2>4. WellFormed(u)
    BY <1>t, <1>n, <2>1, <2>3 DEF WellFormed
  <2> QED
    BY <2>1, <2>2, <2>4, GoType DEF Threads
<1>7. CASE Finish(r)
  <2> DEFINE u == [t EXCEPT !.pc = "notify"]
  <2>1. t.pc = "finish" /\ t.hash \in Contents \cup {None}
    BY <1>7, <1>t DEF Finish, Task
  <2>2. t.cron \in Nat \ {0}
    BY <1>t, <2>1, StoreAssumption DEF WellFormed
  <2>3. now \in Nat /\ now + RetryBackoff \in Nat
    BY <1>t, StoreAssumption DEF Rest
  <2>4. NextRun(t.cron, now) \in Nat
    BY <2>2, <2>3, NextRunLater
  <2>5. StoreTypes'
    <3>1. CASE FinishSuccess(r)
      BY <3>1, <2>1, <2>4, FinishRunType DEF FinishSuccess, JobStatus
    <3>2. CASE FinishFailure(r)
      <4>1. (IF runs[r].attempt <= t.retry THEN "idle" ELSE "dead") \in JobStatus
        BY DEF JobStatus
      <4> QED
        BY <3>2, <2>3, <4>1, FinishRunType DEF FinishFailure
    <3> QED
      BY <1>7, <3>1, <3>2 DEF Finish
  <2>6. u \in Task
    BY <1>t, Points DEF Task
  <2>7. u.pc = "notify" /\ u.job = t.job /\ u.by = t.by
    BY <1>t DEF Task
  <2>8. WellFormed(u)
    BY <1>t, <2>1, <2>7 DEF WellFormed
  <2>9. Ended(r, "done") \in Threads
    BY <1>t, <2>1, EndedType
  <2>10. task' \in [RunIds -> Threads]
    BY <1>7, <1>t, <2>6, <2>8, <2>9 DEF Finish, Threads
  <2> QED
    BY <1>7, <1>t, <2>5, <2>10, TypePartsNext DEF Finish, Rest
<1>8. CASE Notify(r)
  <2> DEFINE u == [t EXCEPT !.pc = "mark"]
  <2>1. t.pc = "notify" /\ task' = [task EXCEPT ![r] = u]
    BY <1>8, <1>t DEF Notify
  <2>2. u \in Task
    BY <1>t, Points DEF Task
  <2>3. u.pc = "mark" /\ u.job = t.job /\ u.by = t.by
    BY <1>t DEF Task
  <2>4. WellFormed(u)
    BY <1>t, <2>1, <2>3 DEF WellFormed
  <2>5. task' \in [RunIds -> Threads]
    BY <1>t, <2>1, <2>2, <2>4 DEF Threads
  <2>6. sent' \subseteq [run : RunIds, status : {"completed", "failed"}]
    BY <1>8, <1>t DEF Notify, Rest
  <2> QED
    BY <1>8, <1>t, <2>5, <2>6, TypePartsNext DEF Notify, StoreTypes, Rest
<1>9. CASE Mark(r)
  <2>1. Ended(r, "done") \in Threads
    BY <1>9, <1>t, EndedType DEF Mark
  <2>2. task' \in [RunIds -> Threads]
    BY <1>9, <1>t, <2>1 DEF Mark
  <2>3. [runs[r] EXCEPT !.hookAt = TRUE] \in RunRow
    BY <1>t DEF StoreTypes, RunRow
  <2>4. runs' = [runs EXCEPT ![r] = [@ EXCEPT !.hookAt = TRUE]] \/ runs' = runs
    BY <1>9, <1>t DEF Mark, SaveWebhookAt, StoreTypes
  <2>5. runs' \in [RunIds -> RunRow] /\ jobs' = jobs
    BY <1>9, <1>t, <2>3, <2>4 DEF Mark, SaveWebhookAt, StoreTypes
  <2> QED
    BY <1>9, <1>t, <2>2, <2>5, TypePartsNext DEF Mark, StoreTypes, Rest
<1> QED
  BY <1>1, <1>2, <1>3, <1>4, <1>5, <1>6, <1>7, <1>8, <1>9 DEF RunJob

\* So does every command on the tables.
LEMMA CommandType ==
    ASSUME TypeOK, NEW j \in Jobs, Create(j) \/ Update(j) \/ Delete(j) \/ Cancel(j)
    PROVE  TypeOK'
<1>t. StoreTypes /\ Rest /\ jobs[j] \in JobRow
  BY TypeParts DEF StoreTypes
<1>o. Others
  BY DEF Create, Update, Delete, Cancel
<1>r. Rest'
  BY <1>t, <1>o DEF Others, Rest
<1>1. CASE Create(j)
  <2>1. PICK s \in Specs : CreateJob(j, s.cron, s.retry, s.hook)
    BY <1>1 DEF Create
  <2>2. s.cron \in Crons /\ s.retry \in 0..MaxRetry /\ s.hook \in BOOLEAN
    BY SchedulerAssumption
  <2>3. NextRun(s.cron, now) \in Nat
    <3>1. s.cron \in Nat \ {0} /\ now \in Nat
      BY <1>t, <2>2, StoreAssumption DEF Rest
    <3> QED
      BY <3>1, NextRunLater
  <2>4. [row |-> "present", enabled |-> TRUE, cron |-> s.cron, retry |-> s.retry,
         hook |-> s.hook, status |-> "idle", next |-> NextRun(s.cron, now)] \in JobRow
    BY <2>2, <2>3 DEF JobRow, JobStatus
  <2> QED
    BY <1>t, <1>r, <2>1, <2>4, TypePartsNext DEF CreateJob, StoreTypes
<1>2. CASE Update(j)
  <2>1. PICK e \in Edits : UpdateJob(j, e)
    BY <1>2 DEF Update
  <2>2. e \in Edit
    BY SchedulerAssumption
  <2> DEFINE row == jobs[j]
             next == IF e.cron = None THEN row.next ELSE NextRun(e.cron, now)
             status == IF e.enabled = TRUE THEN "idle" ELSE row.status
  <2>3. /\ Given(e.enabled, row.enabled) \in BOOLEAN
        /\ Given(e.cron, row.cron) \in Crons
        /\ Given(e.retry, row.retry) \in 0..MaxRetry
        /\ Given(e.hook, row.hook) \in BOOLEAN
    BY <1>t, <2>2 DEF Given, Edit, JobRow
  <2>4. next \in Nat
    <3>1. CASE e.cron = None
      BY <1>t, <3>1 DEF JobRow
    <3>2. CASE e.cron # None
      <4>1. e.cron \in Nat \ {0} /\ now \in Nat
        BY <1>t, <2>2, <3>2, StoreAssumption DEF Rest, Edit
      <4> QED
        BY <3>2, <4>1, NextRunLater
    <3> QED
      BY <3>1, <3>2
  <2>5. status \in JobStatus
    BY <1>t DEF JobRow, JobStatus
  <2> DEFINE new == [row EXCEPT !.enabled = Given(e.enabled, row.enabled),
                     !.cron = Given(e.cron, row.cron),
                     !.retry = Given(e.retry, row.retry),
                     !.hook = Given(e.hook, row.hook), !.next = next, !.status = status]
  <2>6. new \in JobRow
    <3> HIDE DEF next, status
    <3> QED
      BY <1>t, <2>3, <2>4, <2>5 DEF JobRow
  <2>7. jobs' = [jobs EXCEPT ![j] = new] /\ UNCHANGED runs
    BY <2>1 DEF UpdateJob
  <2> HIDE DEF new
  <2> QED
    BY <1>t, <1>r, <2>6, <2>7, TypePartsNext DEF StoreTypes
<1>3. CASE Delete(j)
  <2>1. [jobs[j] EXCEPT !.row = "deleted", !.status = "idle"] \in JobRow
    BY <1>t DEF JobRow, JobStatus
  <2>2. jobs' \in [Jobs -> JobRow] /\ UNCHANGED runs
    BY <1>3, <1>t, <2>1 DEF Delete, DeleteJob, StoreTypes
  <2> QED
    BY <1>t, <1>r, <2>2, TypePartsNext DEF StoreTypes
<1>4. CASE Cancel(j)
  <2>1. PICK r \in RunIds : CancelRun(j, r)
    BY <1>4 DEF Cancel
  <2>2. runs[r] \in RunRow
    BY <1>t DEF StoreTypes
  <2>3. [runs[r] EXCEPT !.status = "cancelled"] \in RunRow
    BY <2>2 DEF RunRow, RunStatus
  <2>4. [jobs[j] EXCEPT !.status = "idle"] \in JobRow
    BY <1>t DEF JobRow, JobStatus
  <2>5. runs' = [runs EXCEPT ![r] = [runs[r] EXCEPT !.status = "cancelled"]]
    BY <1>t, <2>1 DEF CancelRun, StoreTypes
  <2>6. jobs' = [jobs EXCEPT ![j] = [jobs[j] EXCEPT !.status = "idle"]] \/ jobs' = jobs
    BY <1>t, <2>1 DEF CancelRun, StoreTypes
  <2> QED
    BY <1>t, <1>r, <2>3, <2>4, <2>5, <2>6, TypePartsNext DEF StoreTypes
<1> QED
  BY <1>1, <1>2, <1>3, <1>4

LEMMA PruneType == ASSUME TypeOK, Prune PROVE TypeOK'
<1>t. StoreTypes /\ Rest
  BY TypeParts
<1>1. Rest'
  BY <1>t DEF Prune, Others, Rest
<1>2. PICK gone \in SUBSET RunIds : PruneRuns(KeepRuns, gone)
  BY DEF Prune
<1>3. [NoRun EXCEPT !.status = "pruned"] \in RunRow
  BY DEF NoRun, RunRow
<1>4. runs' \in [RunIds -> RunRow] /\ jobs' = jobs
  BY <1>t, <1>2, <1>3 DEF PruneRuns, StoreTypes
<1> QED
  BY <1>t, <1>1, <1>4, TypePartsNext DEF StoreTypes

\* So do failures, restarts and the environment.
LEMMA EnvironmentType ==
    ASSUME TypeOK,
           \/ \E r \in RunIds : StoreBusy(r) \/ CliCrash(r)
           \/ \E j \in Jobs : EditFile(j)
           \/ Crash \/ Restart \/ AdvanceClock
    PROVE  TypeOK'
<1>t. StoreTypes /\ Rest /\ \A r \in RunIds : task[r] \in Threads
  BY TypeParts DEF Rest
<1>e. \A r \in RunIds : task[r].pc # "none" => Ended(r, "lost") \in Threads
  BY <1>t, EndedType
<1>1. ASSUME NEW r \in RunIds, StoreBusy(r) PROVE TypeOK'
  <2>1. task[r].pc \in {"finish", "mark"}
    BY <1>1 DEF StoreBusy
  <2>2. \A s \in RunIds : task'[s] \in Threads
    BY <1>1, <1>t, <1>e, <2>1 DEF StoreBusy
  <2>3. task' \in [RunIds -> Threads]
    BY <1>1, <2>2 DEF StoreBusy
  <2> QED
    BY <1>1, <1>t, <2>3, TypePartsNext DEF StoreBusy, StoreTypes, Rest
<1>2. ASSUME NEW r \in RunIds, CliCrash(r) PROVE TypeOK'
  <2>1. task[r].by = "cli" /\ Go(r, Ended(r, "lost"))
    BY <1>2 DEF CliCrash
  <2>2. task[r].pc # "none"
    BY <1>t, <2>1, SchedulerAssumption DEF Threads, WellFormed
  <2> QED
    BY <1>e, <2>1, <2>2, GoType
<1>3. ASSUME NEW j \in Jobs, EditFile(j) PROVE TypeOK'
  <2>1. file' \in [Jobs -> Contents \cup {None}]
    BY <1>3, <1>t DEF EditFile, Rest
  <2> QED
    BY <1>3, <1>t, <2>1, TypePartsNext DEF EditFile, StoreTypes, Rest
<1>4. ASSUME Crash PROVE TypeOK'
  <2>1. \A r \in RunIds : task[r].by \in Server => task[r].pc # "none"
    BY <1>t, SchedulerAssumption DEF Threads, WellFormed, Server
  <2>2. \A r \in RunIds : task'[r] \in Threads
    BY <1>4, <1>t, <1>e, <2>1 DEF Crash
  <2>3. task' \in [RunIds -> Threads]
    BY <1>4, <2>2 DEF Crash
  <2> QED
    BY <1>4, <1>t, <2>3, TypePartsNext DEF Crash, StoreTypes, Rest
<1>5. ASSUME Restart PROVE TypeOK'
  <2>1. \A r \in RunIds : runs'[r] \in RunRow
    BY <1>5, <1>t DEF Restart, RecoverInterrupted, StoreTypes, RunRow, RunStatus
  <2>2. \A j \in Jobs : jobs'[j] \in JobRow
    BY <1>5, <1>t DEF Restart, RecoverInterrupted, StoreTypes, JobRow, JobStatus
  <2>3. StoreTypes'
    BY <1>5, <2>1, <2>2 DEF Restart, RecoverInterrupted, StoreTypes
  <2> QED
    BY <1>5, <1>t, <2>3, TypePartsNext DEF Restart, Rest
<1>6. ASSUME AdvanceClock PROVE TypeOK'
  BY <1>6, <1>t, TypePartsNext DEF AdvanceClock, StoreTypes, Rest
<1> QED
  BY <1>1, <1>2, <1>3, <1>4, <1>5, <1>6

LEMMA InitType == Init => TypeOK
<1> SUFFICES ASSUME Init PROVE TypeOK
  OBVIOUS
<1>1. jobs \in [Jobs -> JobRow]
  <2> DEFINE unborn == [row |-> "unborn", enabled |-> FALSE, retry |-> 0,
                        hook |-> FALSE, cron |-> CHOOSE c \in Crons : TRUE,
                        status |-> "idle", next |-> 0]
             row(s) == [row |-> "present", enabled |-> TRUE, cron |-> s.cron,
                        retry |-> s.retry, hook |-> s.hook, status |-> "idle",
                        next |-> NextRun(s.cron, 0)]
  <2>1. unborn \in JobRow
    <3>1. (CHOOSE c \in Crons : TRUE) \in Crons /\ 0 \in 0..MaxRetry
      BY StoreAssumption
    <3> QED
      BY <3>1 DEF JobRow, JobStatus
  <2>2. \A s \in Specs : row(s) \in JobRow
    <3> SUFFICES ASSUME NEW s \in Specs PROVE row(s) \in JobRow
      OBVIOUS
    <3>1. s.cron \in Crons /\ s.retry \in 0..MaxRetry /\ s.hook \in BOOLEAN
      BY SchedulerAssumption
    <3>2. s.cron \in Nat \ {0} /\ 0 \in Nat
      BY <3>1, StoreAssumption
    <3>3. NextRun(s.cron, 0) \in Nat
      BY <3>2, NextRunLater
    <3> QED
      BY <3>1, <3>3 DEF JobRow, JobStatus
  <2> DEFINE all == IF "create" \in Commands THEN {unborn} ELSE {row(s) : s \in Specs}
  <2>3. jobs \in [Jobs -> all]
    BY DEF Init
  <2>4. all \subseteq JobRow
    BY <2>1, <2>2
  <2> HIDE DEF all
  <2> QED
    BY <2>3, <2>4
<1>2. NoRun \in RunRow
  BY DEF NoRun, RunRow
<1>3. runs \in [RunIds -> RunRow]
  BY <1>2 DEF Init
<1>4. Rest
  BY NoTaskType DEF Init, Rest
<1> QED
  BY <1>1, <1>3, <1>4, TypeParts DEF StoreTypes

LEMMA NextType == TypeOK /\ [Next]_vars => TypeOK'
<1> SUFFICES ASSUME TypeOK, [Next]_vars PROVE TypeOK'
  OBVIOUS
<1>1. CASE Tick
  BY <1>1, TickType
<1>2. CASE \E j \in Jobs : Trigger(j, "api") \/ Trigger(j, "cli")
  BY <1>2, TriggerType
<1>3. CASE \E r \in RunIds : RunJob(r)
  BY <1>3, RunJobType
<1>4. CASE \E j \in Jobs : Create(j) \/ Update(j) \/ Delete(j) \/ Cancel(j)
  BY <1>4, CommandType
<1>5. CASE Prune
  BY <1>5, PruneType
<1>6. CASE \/ \E r \in RunIds : StoreBusy(r) \/ CliCrash(r)
           \/ \E j \in Jobs : EditFile(j)
           \/ Crash \/ Restart \/ AdvanceClock
  BY <1>6, EnvironmentType
<1>7. CASE UNCHANGED vars
  BY <1>7, TypeParts, TypePartsNext DEF vars, StoreTypes, Rest
<1> QED
  BY <1>1, <1>2, <1>3, <1>4, <1>5, <1>6, <1>7 DEF Next

\* Whatever commands, failures and edits a deployment meets, every row of the
\* queue and every thread stays of its type; in particular a job's status is
\* one of idle, running and dead, and a thread that is to record a result has
\* one, computed from a cron and a budget it has loaded.
THEOREM TypeCorrect == Spec => []TypeOK
<1>1. Init => TypeOK
  BY InitType
<1>2. TypeOK /\ [Next]_vars => TypeOK'
  BY NextType
<1> QED
  BY <1>1, <1>2, PTL DEF Spec

-----------------------------------------------------------------------------
(* When a job has only one executor. store.py promises it unconditionally;  *)
(* it holds exactly while nothing resets a running job to idle behind its   *)
(* executor's back, which is what Exclusive says of a deployment. And when  *)
(* a job that is marked running is being executed (Attended).               *)

\* Nobody cancels a run, no PATCH re-enables a job, and a server that may
\* restart (and then recovers every running job) has no CLI beside it.
Exclusive == /\ "cancel" \notin Commands
             /\ \A e \in Edits : e.enabled # TRUE
             /\ "crash" \in Commands => "cli" \notin Commands

-----------------------------------------------------------------------------
(* Steps that claim nothing: they start no thread and insert no run.        *)

ThreadsKept == \A r \in RunIds : /\ task'[r].job = task[r].job
                                 /\ task'[r].by = task[r].by
                                 /\ task'[r].pc = "none" <=> task[r].pc = "none"
                                 /\ Live(r)' => Live(r)

RowsKept == \A r \in RunIds :
               /\ runs'[r].status \in RunStatus =>
                     runs[r].status \in RunStatus /\ runs'[r].job = runs[r].job
               /\ runs'[r].status = "none" <=> runs[r].status = "none"

Quiet == ThreadsKept /\ RowsKept

\* A thread that ends is live no more and keeps its name.
LEMMA EndedKept ==
    ASSUME TypeOK, NEW r \in RunIds, NEW pc \in {"done", "lost"}
    PROVE  /\ Ended(r, pc).pc = pc /\ Ended(r, pc).job = task[r].job
           /\ Ended(r, pc).by = task[r].by
  BY DEF Ended, NoTask

LEMMA UnchangedQuiet ==
    ASSUME task' = task, runs' = runs PROVE Quiet
  BY DEF Quiet, ThreadsKept, RowsKept, Live

LEMMA GoKept ==
    ASSUME TypeOK, NEW r \in RunIds, NEW t, task' = [task EXCEPT ![r] = t],
           t.job = task[r].job, t.by = task[r].by,
           t.pc # "none", task[r].pc # "none",
           t.pc \in Executing \cup {"claimed"} => Live(r)
    PROVE  ThreadsKept
<1>1. task'[r] = t /\ \A s \in RunIds : s # r => task'[s] = task[s]
  BY DEF TypeOK
<1> QED
  BY <1>1 DEF ThreadsKept, Live

LEMMA FinishRunKept ==
    ASSUME TypeOK, NEW r \in RunIds, NEW result \in {"completed", "failed"},
           NEW hash, NEW skipped, NEW status, NEW next,
           FinishRun(r, result, hash, skipped, status, next)
    PROVE  RowsKept
<1>1. CASE runs' = runs
  BY <1>1 DEF RowsKept
<1>2. CASE /\ runs[r].status \in RunStatus
           /\ runs' = [runs EXCEPT ![r] = [@ EXCEPT
                         !.status = result, !.hash = hash, !.skipped = skipped]]
  <2>1. runs[r] \in RunRow
    BY DEF TypeOK
  <2>2. /\ runs'[r].status = result /\ runs'[r].job = runs[r].job
        /\ \A s \in RunIds : s # r => runs'[s] = runs[s]
    BY <1>2, <2>1 DEF TypeOK, RunRow
  <2> QED
    BY <1>2, <2>2 DEF RowsKept, RunStatus
<1> QED
  BY <1>1, <1>2 DEF FinishRun, storeVars

LEMMA RunJobQuiet ==
    ASSUME TypeOK, NEW r \in RunIds, RunJob(r)
    PROVE  Quiet
<1>t. task[r] \in Task
  BY DEF TypeOK
<1> USE DEF Executing, Live
<1>1. CASE LoadJob(r)
  <2> DEFINE row == jobs[task[r].job]
             u == [task[r] EXCEPT !.pc = "previous", !.cron = row.cron,
                                  !.retry = row.retry, !.hook = row.hook]
  <2>1. task[r].pc = "claimed" /\ (Go(r, u) \/ Go(r, Ended(r, "done")))
    BY <1>1 DEF LoadJob
  <2>2. u.pc = "previous" /\ u.job = task[r].job /\ u.by = task[r].by
    BY <1>t DEF Task
  <2>3. ThreadsKept
    <3>1. CASE Go(r, u)
      BY <2>1, <2>2, <3>1, GoKept DEF Go
    <3>2. CASE Go(r, Ended(r, "done"))
      BY <2>1, <3>2, EndedKept, GoKept DEF Go
    <3> QED
      BY <2>1, <3>1, <3>2
  <2> QED
    BY <2>1, <2>3 DEF Go, Quiet, RowsKept
<1>2. CASE ReadPrevious(r)
  <2>1. PICK h : task[r].pc = "previous" /\ Go(r, [task[r] EXCEPT !.pc = "compare", !.prev = h])
    BY <1>2 DEF ReadPrevious
  <2> DEFINE u == [task[r] EXCEPT !.pc = "compare", !.prev = h]
  <2>2. u.pc = "compare" /\ u.job = task[r].job /\ u.by = task[r].by
    BY <1>t DEF Task
  <2> QED
    BY <2>1, <2>2, GoKept DEF Go, Quiet, RowsKept
<1>3. CASE Compare(r)
  <2> DEFINE u == [task[r] EXCEPT !.pc = "finish", !.out = "skipped",
                                  !.hash = file[task[r].job]]
             v == [task[r] EXCEPT !.pc = "scan"]
  <2>1. task[r].pc = "compare" /\ (Go(r, u) \/ Go(r, v))
    BY <1>3 DEF Compare
  <2>2. /\ u.pc = "finish" /\ u.job = task[r].job /\ u.by = task[r].by
        /\ v.pc = "scan" /\ v.job = task[r].job /\ v.by = task[r].by
    BY <1>t DEF Task
  <2>3. ThreadsKept
    <3>1. CASE Go(r, u)
      BY <2>1, <2>2, <3>1, GoKept DEF Go
    <3>2. CASE Go(r, v)
      BY <2>1, <2>2, <3>2, GoKept DEF Go
    <3> QED
      BY <2>1, <3>1, <3>2
  <2> QED
    BY <2>1, <2>3 DEF Go, Quiet, RowsKept
<1>4. CASE ScanRead(r)
  <2> DEFINE u == [task[r] EXCEPT !.pc = "digest", !.read = file[task[r].job]]
  <2>1. task[r].pc = "scan" /\ Go(r, u)
    BY <1>4 DEF ScanRead
  <2>2. u.pc = "digest" /\ u.job = task[r].job /\ u.by = task[r].by
    BY <1>t DEF Task
  <2> QED
    BY <2>1, <2>2, GoKept DEF Go, Quiet, RowsKept
<1>5. CASE ScanDigest(r)
  <2> DEFINE u == [task[r] EXCEPT !.pc = "finish", !.out = "completed",
                                  !.hash = file[task[r].job], !.read = None]
  <2>1. /\ task[r].pc = "digest" /\ task' = [task EXCEPT ![r] = u] /\ runs' = runs
    BY <1>5 DEF ScanDigest
  <2>2. u.pc = "finish" /\ u.job = task[r].job /\ u.by = task[r].by
    BY <1>t DEF Task
  <2> QED
    BY <2>1, <2>2, GoKept DEF Quiet, RowsKept
<1>6. CASE ScanFails(r)
  <2> DEFINE u == [task[r] EXCEPT !.pc = "finish", !.out = "failed", !.read = None]
  <2>1. task[r].pc \in {"scan", "digest"} /\ Go(r, u)
    BY <1>6 DEF ScanFails
  <2>2. u.pc = "finish" /\ u.job = task[r].job /\ u.by = task[r].by
    BY <1>t DEF Task
  <2> QED
    BY <2>1, <2>2, GoKept DEF Go, Quiet, RowsKept
<1>7. CASE Finish(r)
  <2> DEFINE u == [task[r] EXCEPT !.pc = "notify"]
  <2>1. /\ task[r].pc = "finish"
        /\ \/ task' = [task EXCEPT ![r] = u]
           \/ task' = [task EXCEPT ![r] = Ended(r, "done")]
    BY <1>7 DEF Finish
  <2>2. u.pc = "notify" /\ u.job = task[r].job /\ u.by = task[r].by
    BY <1>t DEF Task
  <2>3. ThreadsKept
    <3>1. CASE task' = [task EXCEPT ![r] = u]
      BY <2>1, <2>2, <3>1, GoKept
    <3>2. CASE task' = [task EXCEPT ![r] = Ended(r, "done")]
      BY <2>1, <3>2, EndedKept, GoKept
    <3> QED
      BY <2>1, <3>1, <3>2
  <2>4. RowsKept
    BY <1>7, FinishRunKept DEF Finish, FinishSuccess, FinishFailure
  <2> QED
    BY <2>3, <2>4 DEF Quiet
<1>8. CASE Notify(r)
  <2> DEFINE u == [task[r] EXCEPT !.pc = "mark"]
  <2>1. task[r].pc = "notify" /\ task' = [task EXCEPT ![r] = u] /\ runs' = runs
    BY <1>8 DEF Notify
  <2>2. u.pc = "mark" /\ u.job = task[r].job /\ u.by = task[r].by
    BY <1>t DEF Task
  <2> QED
    BY <2>1, <2>2, GoKept DEF Quiet, RowsKept
<1>9. CASE Mark(r)
  <2>1. task[r].pc = "mark" /\ task' = [task EXCEPT ![r] = Ended(r, "done")]
    BY <1>9 DEF Mark
  <2>2. ThreadsKept
    BY <2>1, EndedKept, GoKept
  <2>3. runs[r] \in RunRow /\ runs \in [RunIds -> RunRow]
    BY DEF TypeOK
  <2>4. RowsKept
    BY <1>9, <2>3 DEF Mark, SaveWebhookAt, RowsKept, RunRow
  <2> QED
    BY <2>2, <2>4 DEF Quiet
<1> QED
  BY <1>1, <1>2, <1>3, <1>4, <1>5, <1>6, <1>7, <1>8, <1>9 DEF RunJob

\* Commands touch no thread; cancelling and pruning only end runs.
LEMMA CommandQuiet ==
    ASSUME TypeOK,
           Prune \/ \E j \in Jobs : Create(j) \/ Update(j) \/ Delete(j) \/ Cancel(j)
    PROVE  Quiet
<1>t. runs \in [RunIds -> RunRow]
  BY DEF TypeOK
<1>1. task' = task
  BY DEF Prune, Create, Update, Delete, Cancel, Others
<1>2. ThreadsKept
  BY <1>1 DEF ThreadsKept, Live
<1>3. ASSUME NEW j \in Jobs, Create(j) \/ Update(j) \/ Delete(j) PROVE RowsKept
  BY <1>3 DEF Create, CreateJob, Update, UpdateJob, Delete, DeleteJob, RowsKept
<1>4. ASSUME NEW j \in Jobs, Cancel(j) PROVE RowsKept
  <2>1. PICK q \in RunIds : CancelRun(j, q)
    BY <1>4 DEF Cancel
  <2>2. /\ runs[q].status = "running"
        /\ runs' = [runs EXCEPT ![q] = [runs[q] EXCEPT !.status = "cancelled"]]
    BY <1>t, <2>1 DEF CancelRun, RunningRuns
  <2>3. /\ runs'[q].status = "cancelled" /\ runs'[q].job = runs[q].job
        /\ \A s \in RunIds : s # q => runs'[s] = runs[s]
    BY <1>t, <2>2 DEF RunRow
  <2> QED
    BY <2>2, <2>3 DEF RowsKept, RunStatus
<1>5. ASSUME Prune PROVE RowsKept
  <2>1. PICK gone \in SUBSET RunIds : PruneRuns(KeepRuns, gone)
    BY <1>5 DEF Prune
  <2>2. [NoRun EXCEPT !.status = "pruned"].status = "pruned"
    BY DEF NoRun
  <2>3. \A r \in RunIds :
           \/ runs'[r] = runs[r]
           \/ runs'[r].status = "pruned" /\ runs[r].status \in RunStatus
    BY <2>1, <2>2 DEF PruneRuns
  <2> QED
    BY <2>3 DEF RowsKept, RunStatus
<1> QED
  BY <1>2, <1>3, <1>4, <1>5 DEF Quiet

LEMMA EnvironmentQuiet ==
    ASSUME TypeOK,
           \/ \E r \in RunIds : StoreBusy(r) \/ CliCrash(r)
           \/ \E j \in Jobs : EditFile(j)
           \/ Crash \/ Restart \/ AdvanceClock
    PROVE  Quiet
<1>t. /\ \A r \in RunIds : task[r] \in Task /\ WellFormed(task[r])
      /\ runs \in [RunIds -> RunRow]
  BY DEF TypeOK
<1>s. \A r \in RunIds : task[r].by \in Server \cup {"cli"} => task[r].pc # "none"
  BY <1>t, SchedulerAssumption DEF Server, WellFormed
<1>1. ASSUME NEW r \in RunIds, StoreBusy(r) PROVE Quiet
  <2>1. /\ task[r].pc \in {"finish", "mark"} /\ runs' = runs
        /\ \A s \in RunIds : \/ task'[s] = task[s]
                             \/ /\ task'[s] = Ended(s, "lost")
                                /\ s = r \/ task[s].pc = "claimed"
    BY <1>1 DEF StoreBusy
  <2> QED
    BY <2>1, EndedKept DEF Quiet, ThreadsKept, RowsKept, Live, Executing
<1>2. ASSUME NEW r \in RunIds, CliCrash(r) PROVE Quiet
  <2>1. task[r].pc # "none" /\ Go(r, Ended(r, "lost"))
    BY <1>2, <1>s DEF CliCrash
  <2>2. ThreadsKept
    BY <2>1, EndedKept, GoKept DEF Go, Executing
  <2> QED
    BY <2>1, <2>2 DEF Go, Quiet, RowsKept
<1>3. ASSUME Crash PROVE Quiet
  <2>1. /\ runs' = runs
        /\ \A s \in RunIds : \/ task'[s] = task[s]
                             \/ task'[s] = Ended(s, "lost") /\ task[s].pc # "none"
    BY <1>3, <1>s DEF Crash
  <2> QED
    BY <2>1, EndedKept DEF Quiet, ThreadsKept, RowsKept, Live, Executing
<1>4. ASSUME Restart PROVE Quiet
  <2>1. /\ task' = task
        /\ runs' = [r \in RunIds |-> IF runs[r].status = "running"
                                     THEN [runs[r] EXCEPT !.status = "failed"]
                                     ELSE runs[r]]
    BY <1>4 DEF Restart, RecoverInterrupted
  <2>2. \A r \in RunIds : /\ [runs[r] EXCEPT !.status = "failed"].status = "failed"
                          /\ [runs[r] EXCEPT !.status = "failed"].job = runs[r].job
    BY <1>t DEF RunRow
  <2> QED
    BY <2>1, <2>2 DEF Quiet, ThreadsKept, RowsKept, Live, RunStatus
<1>5. ASSUME AdvanceClock \/ \E j \in Jobs : EditFile(j) PROVE Quiet
  BY <1>5, UnchangedQuiet DEF AdvanceClock, EditFile
<1> QED
  BY <1>1, <1>2, <1>3, <1>4, <1>5

\* A quiet step keeps the parts of the invariant that do not look at a job row.
LEMMA QuietKeeps ==
    ASSUME LeaseInv, Quiet, TypeOK'
    PROVE  MutualExclusion' /\ ThreadRunsItsJob'
  BY DEF LeaseInv, Quiet, ThreadsKept, RowsKept, MutualExclusion, ThreadRunsItsJob

LEMMA QuietKeepsCli ==
    ASSUME LeaseInv, Quiet, up' = up \/ up'
    PROVE  OnlyCliWhenDown'
  BY DEF LeaseInv, Quiet, ThreadsKept, OnlyCliWhenDown

\* ... and all of it, if it leaves the job rows of the live threads alone.
LEMMA QuietKeepsAll ==
    ASSUME LeaseInv, Quiet, TypeOK', up' = up \/ up',
           \A r \in RunIds : Live(r)' =>
              jobs'[task[r].job] = jobs[task[r].job]
    PROVE  LeaseInv'
<1>1. HolderIsMarked'
  BY DEF LeaseInv, Quiet, ThreadsKept, HolderIsMarked, Present
<1> QED
  BY <1>1, QuietKeeps, QuietKeepsCli DEF LeaseInv

-----------------------------------------------------------------------------
(* The invariant is inductive.                                              *)

LEMMA InitLease == Init => LeaseInv
<1> SUFFICES ASSUME Init PROVE LeaseInv
  OBVIOUS
<1>1. TypeOK
  BY InitType
<1>2. \A r \in RunIds : task[r].pc = "none" /\ task[r].by = None
  BY DEF Init, NoTask
<1>3. \A r \in RunIds : ~Live(r) /\ task[r].by # "cli"
  BY <1>2, SchedulerAssumption DEF Live, Executing
<1> QED
  BY <1>1, <1>2, <1>3 DEF LeaseInv, MutualExclusion, HolderIsMarked,
     ThreadRunsItsJob, OnlyCliWhenDown, Init

\* A claim takes only jobs that no live thread executes: a live thread's job
\* is marked running or deleted, and neither can be claimed.
LEMMA ClaimLease ==
    ASSUME LeaseInv, TypeOK', NEW S \in SUBSET Fresh, NEW claim \in [S -> Jobs],
           NEW who \in Server \cup {"cli"}, Claim(claim), Dispatch(claim, who),
           \A r \in S : Claimable(claim[r]),
           \A r, s \in S : claim[r] = claim[s] => r = s,
           who = "cli" => "cli" \in Commands,
           ~up => who = "cli"
    PROVE  LeaseInv'
<1>t. /\ TypeOK /\ S \subseteq RunIds
      /\ \A j \in Jobs : jobs[j] \in JobRow
      /\ \A r \in RunIds : task[r] \in Task /\ WellFormed(task[r])
  BY DEF LeaseInv, TypeOK, Fresh
<1>1. \A r \in S : /\ task'[r].pc = "claimed" /\ task'[r].by = who
                   /\ task'[r].job = claim[r]
  <2>1. \A r \in S : task'[r] = [NoTask EXCEPT !.pc = "claimed", !.by = who,
                                              !.job = claim[r]]
    BY <1>t DEF Dispatch
  <2>2. NoTask \in Task
    BY NoTaskType DEF Threads
  <2> QED
    BY <2>1, <2>2, ZenonT(40) DEF Task
<1>2. \A r \in RunIds \ S : task'[r] = task[r]
  BY DEF Dispatch
<1>3. \A r \in RunIds : task[r].pc # "none" => task[r].job \in Jobs
  BY <1>t DEF WellFormed
<1>4. \A r \in S : claim[r] \in Jobs /\ Present(claim[r])
                   /\ jobs[claim[r]].status # "running"
  BY DEF Claimable
<1>5. \A r \in RunIds, s \in S : Live(r) => task[r].job # claim[s]
  BY <1>4 DEF LeaseInv, HolderIsMarked
<1>6. \A r \in RunIds : Live(r)' => r \in S \/ Live(r)
  BY <1>2 DEF Live
<1>7. MutualExclusion'
  <2> SUFFICES ASSUME NEW r \in RunIds, NEW s \in RunIds, Live(r)', Live(s)',
                      task'[r].job = task'[s].job
               PROVE  r = s
    BY DEF MutualExclusion
  <2>1. CASE r \in S /\ s \in S
    BY <1>1, <2>1
  <2>2. CASE r \in S /\ s \notin S
    BY <1>1, <1>2, <1>5, <1>6, <2>2
  <2>3. CASE r \notin S /\ s \in S
    BY <1>1, <1>2, <1>5, <1>6, <2>3
  <2>4. CASE r \notin S /\ s \notin S
    BY <1>2, <1>6, <2>4 DEF LeaseInv, MutualExclusion
  <2> QED
    BY <2>1, <2>2, <2>3, <2>4
<1>8. HolderIsMarked'
  <2>1. \A r \in S : jobs'[claim[r]] = [jobs[claim[r]] EXCEPT !.status = "running"]
    BY <1>4 DEF Claim
  <2>2. \A r \in S : /\ jobs'[claim[r]].status = "running"
                     /\ jobs'[claim[r]].row = "present"
    BY <1>t, <1>4, <2>1 DEF JobRow, Present
  <2>3. \A j \in Jobs : (\A r \in S : claim[r] # j) => jobs'[j] = jobs[j]
    BY DEF Claim
  <2> SUFFICES ASSUME NEW r \in RunIds, Live(r)'
               PROVE  /\ jobs'[task'[r].job].row # "unborn"
                      /\ jobs'[task'[r].job].row = "present" =>
                           jobs'[task'[r].job].status = "running"
    BY DEF HolderIsMarked, Present
  <2>4. CASE r \in S
    BY <1>1, <2>2, <2>4
  <2>5. CASE r \notin S
    <3>1. Live(r) /\ task'[r] = task[r]
      BY <1>2, <1>6, <2>5
    <3>2. task[r].job \in Jobs
      BY <1>3, <3>1 DEF Live, Executing
    <3>3. jobs'[task[r].job] = jobs[task[r].job]
      BY <1>5, <2>3, <3>1, <3>2
    <3> QED
      BY <3>1, <3>3 DEF LeaseInv, HolderIsMarked, Present
  <2> QED
    BY <2>4, <2>5
<1>9. ThreadRunsItsJob'
  <2>1. \A r \in S : runs'[r].job = claim[r] /\ runs'[r].status = "running"
    BY <1>t DEF Claim, NewRun
  <2>2. \A r \in RunIds \ S : runs'[r] = runs[r]
    BY DEF Claim
  <2> QED
    BY <1>1, <1>2, <2>1, <2>2 DEF LeaseInv, ThreadRunsItsJob
<1>10. OnlyCliWhenDown'
  BY <1>1, <1>2, <1>6 DEF LeaseInv, OnlyCliWhenDown, Dispatch
<1> QED
  BY <1>7, <1>8, <1>9, <1>10 DEF LeaseInv

\* What a claiming step is, whoever takes it.
Claims(S, claim, who) ==
    /\ Claim(claim) /\ Dispatch(claim, who)
    /\ \A r \in S : Claimable(claim[r])
    /\ \A r, s \in S : claim[r] = claim[s] => r = s
    /\ who = "cli" => "cli" \in Commands
    /\ ~up => who = "cli"

LEMMA TickClaims ==
    ASSUME Tick
    PROVE  \E S \in SUBSET Fresh : \E claim \in [S -> Jobs] : Claims(S, claim, "tick")
<1>1. PICK S \in SUBSET Fresh : \E claim \in [S -> DueJobs] :
         ClaimDueJobs(claim) /\ Dispatch(claim, "tick")
  BY DEF Tick
<1>2. PICK claim \in [S -> DueJobs] : ClaimDueJobs(claim) /\ Dispatch(claim, "tick")
  BY <1>1
<1>3. claim \in [S -> Jobs] /\ \A r \in S : Claimable(claim[r])
  BY DEF DueJobs, Due, Claimable
<1>4. Claims(S, claim, "tick")
  BY <1>2, <1>3 DEF ClaimDueJobs, Claims, Tick
<1> QED
  BY <1>3, <1>4

LEMMA TriggerClaims ==
    ASSUME NEW j \in Jobs, NEW who \in {"api", "cli"}, Trigger(j, who)
    PROVE  \E S \in SUBSET Fresh : \E claim \in [S -> Jobs] : Claims(S, claim, who)
<1>1. PICK r \in Fresh : ClaimJob(j, r) /\ Dispatch([x \in {r} |-> j], who)
  BY DEF Trigger
<1>2. {r} \in SUBSET Fresh /\ [x \in {r} |-> j] \in [{r} -> Jobs]
  OBVIOUS
<1>3. Claims({r}, [x \in {r} |-> j], who)
  BY <1>1 DEF Claims, ClaimJob, Trigger
<1> QED
  BY <1>2, <1>3

\* Recording a result frees the job, and the thread that records it was the
\* job's only executor.
LEMMA FinishLease ==
    ASSUME LeaseInv, TypeOK', NEW r \in RunIds, Finish(r), Quiet
    PROVE  LeaseInv'
<1>t. /\ \A s \in RunIds : task[s] \in Task /\ WellFormed(task[s])
      /\ task \in [RunIds -> Task] /\ jobs \in [Jobs -> JobRow]
      /\ task[r].pc = "finish"
  BY DEF LeaseInv, TypeOK, Finish
<1>1. task'[r].pc \in {"notify", "done"}
  <2>1. Ended(r, "done").pc = "done"
    BY DEF Ended, NoTask
  <2>2. [task[r] EXCEPT !.pc = "notify"].pc = "notify"
    BY <1>t DEF Task
  <2> QED
    BY <1>t, <2>1, <2>2 DEF Finish
<1>2. \A s \in RunIds : Live(s)' => s # r /\ Live(s)
  BY <1>1 DEF Live, Executing, Quiet, ThreadsKept
<1>3. \A s \in RunIds : Live(s)' => task[s].job # task[r].job
  BY <1>t, <1>2 DEF LeaseInv, MutualExclusion, Live, Executing
<1>4. runs[r].status \in RunStatus => runs[r].job = task[r].job
  BY <1>t DEF LeaseInv, ThreadRunsItsJob
<1>5. \A j \in Jobs : j # task[r].job => jobs'[j] = jobs[j]
  <2>1. \/ jobs' = jobs
        \/ \E row : jobs' = [jobs EXCEPT ![runs[r].job] = row]
           /\ runs[r].status \in RunStatus
    BY DEF Finish, FinishSuccess, FinishFailure, FinishRun, storeVars
  <2> QED
    BY <1>t, <1>4, <2>1
<1>6. \A s \in RunIds : Live(s) => task[s].job \in Jobs
  BY <1>t DEF WellFormed, Live, Executing
<1>7. up' = up
  BY DEF Finish
<1> QED
  BY <1>2, <1>3, <1>5, <1>6, <1>7, QuietKeepsAll

\* The commands a deployment may use do not touch a row in a way that matters.
LEMMA CommandLease ==
    ASSUME Exclusive, LeaseInv, TypeOK', Quiet, NEW j \in Jobs,
           Create(j) \/ Update(j) \/ Delete(j)
    PROVE  LeaseInv'
<1>t. jobs \in [Jobs -> JobRow] /\ jobs[j] \in JobRow
  BY DEF LeaseInv, TypeOK
<1>1. up' = up /\ task' = task
  BY DEF Create, Update, Delete, Others
<1>2. \A i \in Jobs : i # j => jobs'[i] = jobs[i]
  BY <1>t DEF Create, CreateJob, Update, UpdateJob, Delete, DeleteJob
<1>3. \A r \in RunIds : Live(r) => task[r].job \in Jobs
  BY DEF LeaseInv, TypeOK, WellFormed, Live, Executing
<1>4. \A r \in RunIds : Live(r)' => Live(r)
  BY <1>1 DEF Live
<1>5. CASE Create(j)
  <2>1. jobs[j].row = "unborn"
    BY <1>5 DEF Create, CreateJob
  <2>2. \A r \in RunIds : Live(r) => task[r].job # j
    BY <2>1 DEF LeaseInv, HolderIsMarked
  <2> QED
    BY <1>1, <1>2, <1>3, <1>4, <2>2, QuietKeepsAll
<1>6. CASE Update(j)
  <2>1. PICK e \in Edits : UpdateJob(j, e)
    BY <1>6 DEF Update
  <2>2. jobs'[j].row = jobs[j].row /\ jobs'[j].status = jobs[j].status
    BY <1>t, <2>1 DEF Exclusive, UpdateJob, JobRow
  <2>3. HolderIsMarked'
    BY <1>1, <1>2, <1>3, <1>4, <2>2 DEF LeaseInv, HolderIsMarked, Present
  <2> QED
    BY <1>1, <2>3, QuietKeeps, QuietKeepsCli DEF LeaseInv
<1>7. CASE Delete(j)
  <2>1. jobs'[j].row = "deleted"
    BY <1>7, <1>t DEF Delete, DeleteJob, JobRow
  <2>2. HolderIsMarked'
    BY <1>1, <1>2, <1>3, <1>4, <2>1 DEF LeaseInv, HolderIsMarked, Present
  <2> QED
    BY <1>1, <2>2, QuietKeeps, QuietKeepsCli DEF LeaseInv
<1> QED
  BY <1>5, <1>6, <1>7

\* When the server starts again there is no live thread: its own died with it
\* and there is no CLI.  So recover resets only jobs nobody executes.
LEMMA RestartLease ==
    ASSUME Exclusive, LeaseInv, TypeOK', Quiet, Restart
    PROVE  LeaseInv'
<1>1. \A r \in RunIds : ~Live(r)
  BY DEF Restart, LeaseInv, OnlyCliWhenDown, Exclusive
<1>2. \A r \in RunIds : ~Live(r)'
  BY <1>1 DEF Quiet, ThreadsKept
<1> QED
  BY <1>2, QuietKeepsAll DEF Restart

LEMMA CrashLease ==
    ASSUME LeaseInv, TypeOK', Quiet, Crash
    PROVE  LeaseInv'
<1>t. \A r \in RunIds : task[r] \in Task /\ WellFormed(task[r])
  BY DEF LeaseInv, TypeOK
<1>1. HolderIsMarked'
  BY DEF LeaseInv, Quiet, ThreadsKept, HolderIsMarked, Present, Crash
<1>2. \A r \in RunIds : Ended(r, "lost").pc = "lost"
  BY DEF Ended, NoTask
<1>3. \A r \in RunIds : Live(r)' => task[r].by \notin Server /\ task[r].by # None
  BY <1>t, <1>2 DEF Crash, Live, Executing, Quiet, ThreadsKept, WellFormed
<1>4. \A r \in RunIds : Live(r)' => task'[r].by = "cli"
  BY <1>t, <1>3 DEF Task, Quiet, ThreadsKept
<1>5. OnlyCliWhenDown'
  BY <1>4 DEF LeaseInv, OnlyCliWhenDown, Crash, Quiet, ThreadsKept
<1> QED
  BY <1>1, <1>5, QuietKeeps DEF LeaseInv

LEMMA NextLease ==
    ASSUME Exclusive, LeaseInv, [Next]_vars
    PROVE  LeaseInv'
<1>t. TypeOK /\ TypeOK'
  BY NextType DEF LeaseInv
<1>1. CASE Tick
  BY <1>1, <1>t, TickClaims, ClaimLease DEF Claims, Server
<1>2. ASSUME NEW j \in Jobs, NEW who \in {"api", "cli"}, Trigger(j, who) PROVE LeaseInv'
  BY <1>2, <1>t, TriggerClaims, ClaimLease DEF Claims, Server
<1>3. ASSUME NEW r \in RunIds, RunJob(r) PROVE LeaseInv'
  <2>1. Quiet
    BY <1>3, <1>t, RunJobQuiet
  <2>2. CASE Finish(r)
    BY <2>1, <2>2, <1>t, FinishLease
  <2>3. CASE ~Finish(r)
    <3>1. jobs' = jobs /\ up' = up
      BY <1>3, <2>3 DEF RunJob, LoadJob, ReadPrevious, Compare, ScanRead, ScanDigest,
         ScanFails, Notify, Mark, SaveWebhookAt, Go
    <3> QED
      BY <1>t, <2>1, <3>1, QuietKeepsAll
  <2> QED
    BY <2>2, <2>3
<1>4. ASSUME NEW j \in Jobs, Create(j) \/ Update(j) \/ Delete(j) \/ Cancel(j)
      PROVE  LeaseInv'
  <2>1. ~Cancel(j)
    BY DEF Exclusive, Cancel
  <2>2. Quiet
    BY <1>4, <1>t, CommandQuiet
  <2> QED
    BY <1>4, <1>t, <2>1, <2>2, CommandLease
<1>5. CASE Prune
  BY <1>5, <1>t, CommandQuiet, QuietKeepsAll DEF Prune, PruneRuns, Others
<1>6. CASE \/ \E r \in RunIds : StoreBusy(r) \/ CliCrash(r)
           \/ \E j \in Jobs : EditFile(j)
           \/ Crash \/ Restart \/ AdvanceClock
  <2>1. Quiet
    BY <1>6, <1>t, EnvironmentQuiet
  <2>2. CASE Crash
    BY <1>t, <2>1, <2>2, CrashLease
  <2>3. CASE Restart
    BY <1>t, <2>1, <2>3, RestartLease
  <2>4. CASE ~Crash /\ ~Restart
    <3>1. jobs' = jobs /\ up' = up
      BY <1>6, <2>4 DEF StoreBusy, CliCrash, EditFile, AdvanceClock, Go
    <3> QED
      BY <1>t, <2>1, <3>1, QuietKeepsAll
  <2> QED
    BY <2>2, <2>3, <2>4
<1>7. CASE UNCHANGED vars
  BY <1>7, <1>t, UnchangedQuiet, QuietKeepsAll DEF vars
<1> QED
  BY <1>1, <1>2, <1>3, <1>4, <1>5, <1>6, <1>7 DEF Next

\* store.py:3-6: the same job has only one executor at any time, in a
\* deployment in which nothing resets a running job behind its executor.
THEOREM OneExecutor ==
    ASSUME Exclusive PROVE Spec => []MutualExclusion
<1>1. Init => LeaseInv
  BY InitLease
<1>2. LeaseInv /\ [Next]_vars => LeaseInv'
  BY NextLease
<1>3. LeaseInv => MutualExclusion
  BY DEF LeaseInv
<1> QED
  BY <1>1, <1>2, <1>3, PTL DEF Spec

-----------------------------------------------------------------------------
(* The scheduler implements JobLease.                                       *)

\* A quiet step only releases leases: the executors of a job after it are
\* among those before it, and there is at most one.
LEMMA QuietReleases ==
    ASSUME LeaseInv, Quiet PROVE Lease!Next
<1> DEFINE S == {j \in Jobs : Executors(j)' = {}}
<1>1. \A j \in Jobs : Executors(j)' \subseteq Executors(j)
  BY DEF Quiet, ThreadsKept, Executors
<1>2. \A j \in Jobs : \A r, s \in Executors(j) : r = s
  BY DEF Executors, LeaseInv, MutualExclusion
<1>3. \A j \in Jobs \ S : Executors(j)' = Executors(j) /\ Executors(j) # {}
  BY <1>1, <1>2
<1>4. Holder' = [j \in Jobs |-> IF j \in S THEN None ELSE Holder[j]]
  <2>1. Holder' = [j \in Jobs |-> HolderOf(Executors(j)')]
    BY DEF Holder
  <2>2. HolderOf({}) = None
    BY DEF HolderOf
  <2> QED
    BY <1>3, <2>1, <2>2 DEF Holder
<1>5. (RunIds \ Fresh)' = RunIds \ Fresh
  BY DEF Quiet, RowsKept, Fresh, RunIds
<1>6. S \in SUBSET Jobs /\ Lease!Release(S)
  BY <1>4, <1>5 DEF Lease!Release
<1> QED
  BY <1>6 DEF Lease!Next

\* A claim grants the leases of the jobs it claims, which were free.
LEMMA ClaimGrants ==
    ASSUME LeaseInv, NEW S \in SUBSET Fresh, NEW claim \in [S -> Jobs], NEW who,
           Claims(S, claim, who)
    PROVE  Lease!Next
<1> DEFINE C == {claim[r] : r \in S}
           to == [j \in C |-> CHOOSE r \in S : claim[r] = j]
<1>t. S \subseteq RunIds
  BY DEF Fresh
<1>1. \A j \in C : to[j] \in S /\ claim[to[j]] = j
  OBVIOUS
<1>2. \A r \in S : to[claim[r]] = r
  BY <1>1 DEF Claims
<1>3. \A j \in C : Executors(j) = {}
  BY DEF Claims, Claimable, Executors, LeaseInv, HolderIsMarked
<1> HIDE DEF C, to
<1>4. /\ \A r \in S : task'[r].pc = "claimed" /\ task'[r].job = claim[r]
      /\ \A r \in RunIds \ S : task'[r] = task[r]
  <2>1. \A r \in S : task'[r] = [NoTask EXCEPT !.pc = "claimed", !.by = who,
                                              !.job = claim[r]]
    BY <1>t DEF Claims, Dispatch
  <2>2. NoTask \in Task
    BY NoTaskType DEF Threads
  <2>3. \A r \in RunIds \ S : task'[r] = task[r]
    BY DEF Claims, Dispatch
  <2> QED
    BY <2>1, <2>2, <2>3 DEF Task
<1>5. \A j \in C : Executors(j)' = {to[j]}
  <2> SUFFICES ASSUME NEW j \in C, NEW r \in RunIds
               PROVE  Live(r)' /\ task'[r].job = j <=> r = to[j]
    BY <1>1, <1>t DEF Executors
  <2>1. CASE r \in S
    BY <1>1, <1>2, <1>4, <2>1 DEF Live, Executing
  <2>2. CASE r \notin S
    BY <1>1, <1>3, <1>4, <2>2 DEF Live, Executors
  <2> QED
    BY <2>1, <2>2
<1>6. \A j \in Jobs \ C : Executors(j)' = Executors(j)
  <2> SUFFICES ASSUME NEW j \in Jobs \ C, NEW r \in RunIds
               PROVE  Live(r)' /\ task'[r].job = j <=> Live(r) /\ task[r].job = j
    BY DEF Executors
  <2>1. CASE r \in S
    <3>1. task'[r].job # j
      BY <1>4, <2>1 DEF C
    <3>2. task[r].job # j \/ ~Live(r)
      BY <1>t, <2>1 DEF LeaseInv, ThreadRunsItsJob, Fresh, Live, Executing
    <3> QED
      BY <3>1, <3>2
  <2>2. CASE r \notin S
    BY <1>4, <2>2 DEF Live
  <2> QED
    BY <2>1, <2>2
<1>7. Holder' = [j \in Jobs |-> IF j \in C THEN to[j] ELSE Holder[j]]
  <2>1. Holder' = [j \in Jobs |-> HolderOf(Executors(j)')]
    BY DEF Holder
  <2>2. \A x : HolderOf({x}) = x
    BY DEF HolderOf
  <2> QED
    BY <1>5, <1>6, <2>1, <2>2 DEF Holder
<1>8. \A j \in C : j \in Jobs /\ Holder[j] = None
  BY <1>3 DEF Holder, HolderOf, C
<1>9. (RunIds \ Fresh)' = (RunIds \ Fresh) \cup {to[j] : j \in C}
  <2>1. {to[j] : j \in C} = S
    BY <1>1, <1>2 DEF C
  <2>2. \A r \in S : runs'[r].status = "running"
    BY <1>t DEF Claims, Claim, NewRun
  <2>3. \A r \in RunIds \ S : runs'[r] = runs[r]
    BY DEF Claims, Claim
  <2>4. Fresh' = Fresh \ S
    BY <1>t, <2>2, <2>3 DEF Fresh, RunIds
  <2>5. RunIds' = RunIds
    BY DEF RunIds
  <2> QED
    BY <1>t, <2>1, <2>4, <2>5
<1>10. to \in [C -> RunIds \ (RunIds \ Fresh)]
  BY <1>1, <1>t DEF to
<1>11. \A i, j \in C : to[i] = to[j] => i = j
  BY <1>1
<1>12. Lease!Grant(C, to)
  BY <1>7, <1>8, <1>9, <1>11 DEF Lease!Grant
<1>13. C \in SUBSET Jobs
  BY <1>8
<1> QED
  BY <1>10, <1>12, <1>13 DEF Lease!Next

LEMMA InitRefines == Init => Lease!Init
<1> SUFFICES ASSUME Init PROVE Lease!Init
  OBVIOUS
<1>1. \A j \in Jobs : Executors(j) = {}
  BY DEF Init, NoTask, Executors, Live, Executing
<1>2. Fresh = RunIds
  BY DEF Init, NoRun, Fresh
<1> QED
  BY <1>1, <1>2 DEF Lease!Init, Holder, HolderOf

LEMMA NextRefines ==
    ASSUME Exclusive, LeaseInv, [Next]_vars
    PROVE  [Lease!Next]_(<<Holder, RunIds \ Fresh>>)
<1>t. TypeOK
  BY DEF LeaseInv
<1>1. CASE Tick
  BY <1>1, TickClaims, ClaimGrants
<1>2. ASSUME NEW j \in Jobs, NEW who \in {"api", "cli"}, Trigger(j, who) PROVE Lease!Next
  BY <1>2, TriggerClaims, ClaimGrants
<1>3. CASE \E r \in RunIds : RunJob(r)
  BY <1>3, <1>t, RunJobQuiet, QuietReleases
<1>4. CASE Prune \/ \E j \in Jobs : Create(j) \/ Update(j) \/ Delete(j) \/ Cancel(j)
  BY <1>4, <1>t, CommandQuiet, QuietReleases
<1>5. CASE \/ \E r \in RunIds : StoreBusy(r) \/ CliCrash(r)
           \/ \E j \in Jobs : EditFile(j)
           \/ Crash \/ Restart \/ AdvanceClock
  BY <1>5, <1>t, EnvironmentQuiet, QuietReleases
<1>6. CASE UNCHANGED vars
  BY <1>6, UnchangedQuiet, QuietReleases DEF vars
<1> QED
  BY <1>1, <1>2, <1>3, <1>4, <1>5, <1>6 DEF Next

\* The scheduler, with a job's lease held by its executor, implements JobLease:
\* every claim grants leases that were free to runs that never held one, and
\* every other step releases leases or does nothing to them.
THEOREM ImplementsLease ==
    ASSUME Exclusive PROVE Spec => LeaseSpec
<1>1. Init => LeaseInv /\ Lease!Init
  BY InitLease, InitRefines
<1>2. LeaseInv /\ [Next]_vars => LeaseInv'
  BY NextLease
<1>3. LeaseInv /\ [Next]_vars => [Lease!Next]_(<<Holder, RunIds \ Fresh>>)
  BY NextRefines
<1> QED
  BY <1>1, <1>2, <1>3, PTL DEF Spec, LeaseSpec, Lease!Spec

-----------------------------------------------------------------------------
(* A job marked running is being run.  Both claims refuse a running job,   *)
(* so a job that stays marked after its last executor is gone would never  *)
(* run again until the server is restarted.                                *)
\* No retention deletes the row of a run in progress, no write times out and
\* no CLI process dies in mid-run: each of the three loses the result of a
\* thread while its job stays marked.  Cancelling, deleting, editing, crashing
\* and recovering are all allowed.
Attended == Commands \cap {"prune", "busy", "cli crash"} = {}

-----------------------------------------------------------------------------
(* The inductive invariant: a marked job has a row, and while the server is *)
(* up one of its running runs has a live thread of that very job.           *)

MarkedIsPresent == \A j \in Jobs : jobs[j].status = "running" => Present(j)

Serves(r, j) == runs[r].status = "running" /\ runs[r].job = j
                /\ Live(r) /\ task[r].job = j

MarkedIsServed == \A j \in Jobs : jobs[j].status = "running" =>
                     \E r \in RunIds : Serves(r, j)

ServiceInv == TypeOK /\ MarkedIsPresent /\ (up => MarkedIsServed)

LEMMA ServiceSuffices == ServiceInv => RunningJobHasExecutor
  BY DEF ServiceInv, MarkedIsServed, Serves, RunningJobHasExecutor, RunningRuns,
     History, RunStatus

LEMMA InitService == Init => ServiceInv
<1> SUFFICES ASSUME Init PROVE ServiceInv
  OBVIOUS
<1>1. \A j \in Jobs : jobs[j].status = "idle"
  BY DEF Init
<1> QED
  BY <1>1, InitType DEF ServiceInv, MarkedIsPresent, MarkedIsServed

\* A claim marks a job and starts the thread that serves it; the runs it
\* inserts are new, so it disturbs no thread that serves another job.
LEMMA ClaimService ==
    ASSUME ServiceInv, TypeOK', NEW S \in SUBSET Fresh, NEW claim \in [S -> Jobs],
           NEW who, Claims(S, claim, who)
    PROVE  ServiceInv'
<1>t. S \subseteq RunIds /\ \A j \in Jobs : jobs[j] \in JobRow
  BY DEF Fresh, ServiceInv, TypeOK
<1>1. /\ \A j \in Jobs : (\A r \in S : claim[r] # j) => jobs'[j] = jobs[j]
      /\ \A r \in S : jobs'[claim[r]].row = "present"
  <2>1. \A r \in S : /\ jobs[claim[r]].row = "present"
                     /\ jobs'[claim[r]] = [jobs[claim[r]] EXCEPT !.status = "running"]
    BY DEF Claims, Claim, Claimable, Present
  <2>2. \A r \in S : jobs'[claim[r]].row = jobs[claim[r]].row
    BY <1>t, <2>1, ZenonT(40) DEF JobRow
  <2>3. \A j \in Jobs : (\A r \in S : claim[r] # j) => jobs'[j] = jobs[j]
    BY DEF Claims, Claim
  <2> QED
    BY <2>1, <2>2, <2>3
<1>2. MarkedIsPresent'
  BY <1>1 DEF ServiceInv, MarkedIsPresent, Present
<1>3. \A r \in S : Serves(r, claim[r])'
  <2>1. \A r \in S : task'[r] = [NoTask EXCEPT !.pc = "claimed", !.by = who,
                                              !.job = claim[r]]
    BY <1>t DEF Claims, Dispatch
  <2>2. \A r \in S : task'[r].pc = "claimed" /\ task'[r].job = claim[r]
    BY <2>1, NoTaskType DEF Threads, Task
  <2>3. \A r \in S : runs'[r].status = "running" /\ runs'[r].job = claim[r]
    BY <1>t DEF Claims, Claim, NewRun
  <2> QED
    BY <2>2, <2>3 DEF Serves, Live
<1>4. \A r \in RunIds, j \in Jobs : Serves(r, j) => Serves(r, j)'
  <2> SUFFICES ASSUME NEW r \in RunIds, NEW j \in Jobs, Serves(r, j)
               PROVE  Serves(r, j)'
    OBVIOUS
  <2>1. r \notin S
    BY DEF Serves, Fresh
  <2>2. runs'[r] = runs[r] /\ task'[r] = task[r]
    BY <2>1 DEF Claims, Claim, Dispatch
  <2> QED
    BY <2>2 DEF Serves, Live
<1>5. up => MarkedIsServed'
  BY <1>t, <1>1, <1>3, <1>4 DEF ServiceInv, MarkedIsServed
<1>6. up' = up
  BY DEF Claims, Dispatch
<1> QED
  BY <1>2, <1>5, <1>6 DEF ServiceInv

\* A step that marks no job, keeps the rows of the marked ones and takes from
\* no marked job the thread that serves it.
LEMMA ServiceKept ==
    ASSUME ServiceInv, TypeOK',
           \A j \in Jobs : jobs'[j].status = "running" =>
              jobs[j].status = "running" /\ jobs'[j].row = jobs[j].row,
           up' => up /\ \A j \in Jobs, r \in RunIds :
                           jobs'[j].status = "running" /\ Serves(r, j) => Serves(r, j)'
    PROVE  ServiceInv'
  BY DEF ServiceInv, MarkedIsPresent, MarkedIsServed, Present

\* The thread of a served job finds its row, so it never gives up; only
\* recording its result ends it, and that unmarks the job.
LEMMA RunJobService ==
    ASSUME ServiceInv, TypeOK', NEW r \in RunIds, RunJob(r)
    PROVE  ServiceInv'
<1>t. /\ TypeOK /\ task[r] \in Task /\ task \in [RunIds -> Task]
      /\ jobs \in [Jobs -> JobRow] /\ runs \in [RunIds -> RunRow]
  BY DEF ServiceInv, TypeOK
<1>u. up' = up
  BY DEF RunJob, LoadJob, ReadPrevious, Compare, ScanRead, ScanDigest, ScanFails,
     Finish, Notify, Mark, Go
<1>1. \A s \in RunIds : s # r => task'[s] = task[s]
  BY <1>t DEF RunJob, LoadJob, ReadPrevious, Compare, ScanRead, ScanDigest,
     ScanFails, Finish, Notify, Mark, Go
<1>2. CASE ~Finish(r) /\ ~Mark(r)
  <2>1. jobs' = jobs /\ runs' = runs
    BY <1>2 DEF RunJob, LoadJob, ReadPrevious, Compare, ScanRead, ScanDigest,
       ScanFails, Notify, Go
  <2>2. ASSUME NEW j \in Jobs, jobs[j].status = "running", Serves(r, j)
        PROVE  task'[r].pc \in Executing /\ task'[r].job = task[r].job
    <3>1. Present(task[r].job) /\ task[r].pc \in Executing \cup {"claimed"}
      BY <2>2 DEF Serves, Live, ServiceInv, MarkedIsPresent
    <3>2. CASE LoadJob(r)
      <4> DEFINE row == jobs[task[r].job]
                 u == [task[r] EXCEPT !.pc = "previous", !.cron = row.cron,
                                      !.retry = row.retry, !.hook = row.hook]
      <4>1. task' = [task EXCEPT ![r] = u]
        BY <3>1, <3>2 DEF LoadJob, Go, Present
      <4>2. u.pc = "previous" /\ u.job = task[r].job
        BY <1>t DEF Task
      <4> QED
        BY <1>t, <4>1, <4>2 DEF Executing
    <3>3. CASE ReadPrevious(r)
      <4>1. PICK h : task' = [task EXCEPT ![r] = [task[r] EXCEPT !.pc = "compare", !.prev = h]]
        BY <3>3 DEF ReadPrevious, Go
      <4>2. [task[r] EXCEPT !.pc = "compare", !.prev = h].pc = "compare"
        BY <1>t DEF Task
      <4> QED
        BY <1>t, <4>1, <4>2 DEF Executing, Task
    <3>4. CASE Compare(r)
      <4> DEFINE u == [task[r] EXCEPT !.pc = "finish", !.out = "skipped",
                                      !.hash = file[task[r].job]]
                 v == [task[r] EXCEPT !.pc = "scan"]
      <4>1. task' = [task EXCEPT ![r] = u] \/ task' = [task EXCEPT ![r] = v]
        BY <3>4 DEF Compare, Go
      <4>2. /\ u.pc = "finish" /\ u.job = task[r].job
            /\ v.pc = "scan" /\ v.job = task[r].job
        BY <1>t DEF Task
      <4> QED
        BY <1>t, <4>1, <4>2 DEF Executing
    <3>5. CASE ScanRead(r) \/ ScanFails(r)
      <4> DEFINE u == [task[r] EXCEPT !.pc = "digest", !.read = file[task[r].job]]
                 v == [task[r] EXCEPT !.pc = "finish", !.out = "failed", !.read = None]
      <4>1. task' = [task EXCEPT ![r] = u] \/ task' = [task EXCEPT ![r] = v]
        BY <3>5 DEF ScanRead, ScanFails, Go
      <4>2. /\ u.pc = "digest" /\ u.job = task[r].job
            /\ v.pc = "finish" /\ v.job = task[r].job
        BY <1>t DEF Task
      <4> QED
        BY <1>t, <4>1, <4>2 DEF Executing
    <3>6. CASE ScanDigest(r)
      <4> DEFINE u == [task[r] EXCEPT !.pc = "finish", !.out = "completed",
                                      !.hash = file[task[r].job], !.read = None]
      <4>1. task' = [task EXCEPT ![r] = u]
        BY <3>6 DEF ScanDigest
      <4>2. u.pc = "finish" /\ u.job = task[r].job
        BY <1>t DEF Task
      <4> QED
        BY <1>t, <4>1, <4>2 DEF Executing
    <3>7. ~Notify(r)
      BY <3>1 DEF Notify, Executing
    <3> QED
      BY <1>2, <3>2, <3>3, <3>4, <3>5, <3>6, <3>7 DEF RunJob
  <2> QED
    BY <1>t, <1>u, <1>1, <2>1, <2>2, ServiceKept DEF Serves, Live
<1>3. CASE Mark(r)
  <2>1. jobs' = jobs /\ ~Live(r)
    BY <1>3 DEF Mark, SaveWebhookAt, Live, Executing
  <2>2. \A s \in RunIds : s # r => runs'[s] = runs[s]
    BY <1>3, <1>t DEF Mark, SaveWebhookAt
  <2> QED
    BY <1>u, <1>1, <2>1, <2>2, <1>t, ServiceKept DEF Serves, Live
<1>4. CASE Finish(r)
  <2> DEFINE j == runs[r].job
  <2>1. \/ jobs' = jobs /\ runs' = runs /\ runs[r].status # "running"
        \/ /\ \A s \in RunIds : s # r => runs'[s] = runs[s]
           /\ \/ ~Present(j) /\ jobs' = jobs
              \/ \E status \in {"idle", "dead"} : \E next : jobs' = [jobs EXCEPT ![j] =
                    [@ EXCEPT !.status = status, !.next = next]]
    BY <1>4, <1>t DEF Finish, FinishSuccess, FinishFailure, FinishRun, storeVars, RunStatus
  <2>2. \A i \in Jobs : jobs'[i].status = "running" =>
           /\ jobs'[i] = jobs[i]
           /\ i # j \/ runs[r].status # "running"
    <3>1. CASE jobs' = jobs /\ runs' = runs /\ runs[r].status # "running"
      BY <3>1
    <3>2. CASE ~Present(j) /\ jobs' = jobs
      BY <3>2 DEF ServiceInv, MarkedIsPresent
    <3>3. ASSUME NEW status \in {"idle", "dead"}, NEW next,
                 jobs' = [jobs EXCEPT ![j] = [@ EXCEPT !.status = status, !.next = next]]
          PROVE  \A i \in Jobs : jobs'[i].status = "running" => jobs'[i] = jobs[i] /\ i # j
      <4>1. \A i \in Jobs : i # j => jobs'[i] = jobs[i]
        BY <1>t, <3>3
      <4>2. j \in Jobs => jobs'[j].status = status
        BY <1>t, <3>3 DEF JobRow
      <4> QED
        BY <4>1, <4>2
    <3> QED
      BY <2>1, <3>1, <3>2, <3>3
  <2>3. \A s \in RunIds : s # r => runs'[s] = runs[s]
    BY <2>1
  <2> QED
    BY <1>u, <1>1, <2>2, <2>3, ServiceKept DEF Serves, Live
<1> QED
  BY <1>2, <1>3, <1>4

LEMMA CommandService ==
    ASSUME ServiceInv, TypeOK', NEW j \in Jobs,
           Create(j) \/ Update(j) \/ Delete(j) \/ Cancel(j)
    PROVE  ServiceInv'
<1>t. jobs \in [Jobs -> JobRow] /\ jobs[j] \in JobRow /\ runs \in [RunIds -> RunRow]
  BY DEF ServiceInv, TypeOK
<1>1. up' = up /\ task' = task
  BY DEF Create, Update, Delete, Cancel, Others
<1>2. CASE Create(j) \/ Update(j) \/ Delete(j)
  <2>1. runs' = runs
    BY <1>2 DEF Create, CreateJob, Update, UpdateJob, Delete, DeleteJob
  <2>2. \A i \in Jobs : i # j => jobs'[i] = jobs[i]
    BY <1>2, <1>t DEF Create, CreateJob, Update, UpdateJob, Delete, DeleteJob
  <2>3. jobs'[j].status = "running" =>
           jobs[j].status = "running" /\ jobs'[j].row = jobs[j].row
    <3>1. CASE Create(j)
      <4>1. PICK spec \in Specs : CreateJob(j, spec.cron, spec.retry, spec.hook)
        BY <3>1 DEF Create
      <4>2. jobs'[j].status = "idle"
        BY <1>t, <4>1 DEF CreateJob
      <4> QED
        BY <4>2
    <3>2. CASE Update(j)
      <4>1. PICK e \in Edits : UpdateJob(j, e)
        BY <3>2 DEF Update
      <4>2. /\ jobs'[j].row = jobs[j].row
            /\ jobs'[j].status = IF e.enabled = TRUE THEN "idle" ELSE jobs[j].status
        BY <1>t, <4>1 DEF UpdateJob, JobRow
      <4> QED
        BY <4>2
    <3>3. CASE Delete(j)
      <4>1. jobs' = [jobs EXCEPT ![j] = [jobs[j] EXCEPT !.row = "deleted",
                                                        !.status = "idle"]]
        BY <3>3 DEF Delete, DeleteJob
      <4>2. [jobs[j] EXCEPT !.row = "deleted", !.status = "idle"].status = "idle"
        BY <1>t DEF JobRow
      <4> QED
        BY <1>t, <4>1, <4>2
    <3> QED
      BY <1>2, <3>1, <3>2, <3>3
  <2> QED
    BY <1>1, <2>1, <2>2, <2>3, ServiceKept DEF Serves, Live
<1>3. CASE Cancel(j)
  <2>1. PICK q \in RunIds : CancelRun(j, q)
    BY <1>3 DEF Cancel
  <2>2. /\ runs[q].job = j
        /\ \A s \in RunIds : s # q => runs'[s] = runs[s]
        /\ \A i \in Jobs : i # j => jobs'[i] = jobs[i]
    BY <1>t, <2>1 DEF CancelRun, RunningRuns, History
  <2>3. jobs'[j].status # "running"
    <3>1. CASE Present(j)
      BY <1>t, <2>1, <3>1 DEF CancelRun, JobRow
    <3>2. CASE ~Present(j)
      BY <2>1, <3>2 DEF CancelRun, ServiceInv, MarkedIsPresent
    <3> QED
      BY <3>1, <3>2
  <2> QED
    BY <1>1, <2>2, <2>3, ServiceKept DEF Serves, Live
<1> QED
  BY <1>2, <1>3

LEMMA NextService ==
    ASSUME Attended, ServiceInv, [Next]_vars
    PROVE  ServiceInv'
<1>t. TypeOK /\ TypeOK'
  BY NextType DEF ServiceInv
<1>1. CASE Tick
  BY <1>1, <1>t, TickClaims, ClaimService
<1>2. ASSUME NEW j \in Jobs, NEW who \in {"api", "cli"}, Trigger(j, who) PROVE ServiceInv'
  BY <1>2, <1>t, TriggerClaims, ClaimService
<1>3. CASE \E r \in RunIds : RunJob(r)
  BY <1>3, <1>t, RunJobService
<1>4. CASE \E j \in Jobs : Create(j) \/ Update(j) \/ Delete(j) \/ Cancel(j)
  BY <1>4, <1>t, CommandService
<1>5. ~Prune /\ \A r \in RunIds : ~StoreBusy(r) /\ ~CliCrash(r)
  BY DEF Attended, Prune, StoreBusy, CliCrash
<1>6. CASE Crash
  BY <1>6, <1>t, ServiceKept DEF Crash
<1>7. CASE Restart
  <2>1. \A j \in Jobs : jobs'[j].status # "running"
    BY <1>7, <1>t DEF Restart, RecoverInterrupted, TypeOK, JobRow
  <2> QED
    BY <1>t, <2>1 DEF ServiceInv, MarkedIsPresent, MarkedIsServed
<1>8. CASE AdvanceClock \/ (\E j \in Jobs : EditFile(j)) \/ UNCHANGED vars
  <2>1. jobs' = jobs /\ runs' = runs /\ task' = task /\ up' = up
    BY <1>8 DEF AdvanceClock, EditFile, vars
  <2> QED
    BY <1>t, <2>1, ServiceKept DEF Serves, Live
<1> QED
  BY <1>1, <1>2, <1>3, <1>4, <1>5, <1>6, <1>7, <1>8 DEF Next

\* In an attended deployment, whatever is cancelled, deleted, edited, crashed
\* or recovered, a job marked running has a thread that will record a result
\* for one of its running runs: no job is left unclaimable.
THEOREM RunningJobIsServed ==
    ASSUME Attended PROVE Spec => []RunningJobHasExecutor
<1>1. Init => ServiceInv
  BY InitService
<1>2. ServiceInv /\ [Next]_vars => ServiceInv'
  BY NextService
<1>3. ServiceInv => RunningJobHasExecutor
  BY ServiceSuffices
<1> QED
  BY <1>1, <1>2, <1>3, PTL DEF Spec

-----------------------------------------------------------------------------
(***************************************************************************)
(* What the rows of job_runs say is true: whichever commands, edits,       *)
(* crashes and lost threads there are, a skip refers to a stored scan and  *)
(* a cancelled run keeps nothing of its executor's result. What receivers  *)
(* hear and what jobs become of it follows the rows, in deployments that   *)
(* Uncancelled, Kept, BudgetsFall and CronsKept describe.                  *)
(***************************************************************************)

HasScan(j, h) == \E s \in scans : s.job = j /\ s.hash = h

\* A row carries a result only when it is completed, and then the content its
\* hash names was scanned for its job.
RowIsTrue(r) ==
    /\ runs[r].status # "completed" => runs[r].hash = None /\ ~runs[r].skipped
    /\ runs[r].status = "completed" => HasScan(runs[r].job, runs[r].hash)

\* A thread works on the job of its run, and what it may go on to record rests
\* on a scan of that job.
ThreadIsTrue(r) ==
    /\ task[r].pc # "none" =>
          /\ runs[r].status # "none"
          /\ runs[r].status \in RunStatus => runs[r].job = task[r].job
    /\ task[r].prev # None => HasScan(task[r].job, task[r].prev)
    /\ task[r].out \in {"skipped", "completed"} => HasScan(task[r].job, task[r].hash)

ResultInv == TypeOK /\ \A r \in RunIds : RowIsTrue(r) /\ ThreadIsTrue(r)

-----------------------------------------------------------------------------

LEMMA InitResult == Init => ResultInv
<1> SUFFICES ASSUME Init PROVE ResultInv
  OBVIOUS
<1>1. None \notin {"skipped", "completed"}
  BY SchedulerAssumption
<1>2. \A r \in RunIds : RowIsTrue(r) /\ ThreadIsTrue(r)
  BY <1>1 DEF Init, RowIsTrue, ThreadIsTrue, NoRun, NoTask
<1> QED
  BY <1>2, InitType DEF ResultInv

\* A row that a step leaves alone, or clears, stays true.
LEMMA RowKept ==
    ASSUME NEW r, RowIsTrue(r), scans \subseteq scans',
           \/ runs'[r].status # "completed" /\ runs'[r].hash = None /\ ~runs'[r].skipped
           \/ /\ runs'[r].status = runs[r].status /\ runs'[r].job = runs[r].job
              /\ runs'[r].hash = runs[r].hash /\ runs'[r].skipped = runs[r].skipped
    PROVE  RowIsTrue(r)'
  BY DEF RowIsTrue, HasScan

\* The new run is blank and its thread knows nothing yet.
LEMMA ClaimResult ==
    ASSUME ResultInv, TypeOK', NEW S \in SUBSET Fresh, NEW claim \in [S -> Jobs],
           NEW who, Claims(S, claim, who)
    PROVE  ResultInv'
<1>1. scans' = scans
  BY DEF Claims, Dispatch
<1>2. ASSUME NEW r \in RunIds, r \notin S
      PROVE  RowIsTrue(r)' /\ ThreadIsTrue(r)'
  <2>1. runs'[r] = runs[r] /\ task'[r] = task[r]
    BY <1>2 DEF Claims, Claim, Dispatch
  <2> QED
    BY <1>1, <2>1 DEF ResultInv, RowIsTrue, ThreadIsTrue, HasScan
<1>3. ASSUME NEW r \in S
      PROVE  RowIsTrue(r)' /\ ThreadIsTrue(r)'
  <2>1. r \in RunIds
    BY DEF Fresh
  <2>2. runs'[r] = NewRun(claim[r])
    BY <2>1 DEF Claims, Claim
  <2>3. task'[r] = [NoTask EXCEPT !.pc = "claimed", !.by = who, !.job = claim[r]]
    BY <2>1 DEF Claims, Dispatch
  <2>4. /\ task'[r].job = claim[r] /\ task'[r].prev = None /\ task'[r].out = None
    BY <2>3 DEF NoTask
  <2>5. None \notin {"skipped", "completed"}
    BY SchedulerAssumption
  <2> QED
    BY <2>2, <2>4, <2>5 DEF NewRun, RowIsTrue, ThreadIsTrue
<1> QED
  BY <1>2, <1>3 DEF ResultInv

\* last_successful_hash is the hash of a completed run of the job.
LEMMA LastHashHasScan ==
    ASSUME ResultInv, NEW j, NEW h \in LastSuccessfulHash(j), h # None
    PROVE  HasScan(j, h)
<1>1. PICK r \in Successes(j) : runs[r].hash = h
  BY DEF LastSuccessfulHash
<1>2. r \in RunIds /\ runs[r].status = "completed" /\ runs[r].job = j
  BY DEF Successes, History
<1> QED
  BY <1>1, <1>2 DEF ResultInv, RowIsTrue

LEMMA EndedKnowsNothing ==
    ASSUME NEW r, NEW pc
    PROVE  /\ Ended(r, pc).pc = pc /\ Ended(r, pc).job = task[r].job
           /\ Ended(r, pc).prev = None /\ Ended(r, pc).out = None
  BY DEF Ended, NoTask

\* A step of a thread leaves the other rows and threads alone.
LEMMA RunJobResult ==
    ASSUME ResultInv, TypeOK', NEW r \in RunIds, RunJob(r)
    PROVE  ResultInv'
<1>t. /\ TypeOK /\ task[r] \in Task /\ WellFormed(task[r])
      /\ task \in [RunIds -> Task] /\ runs \in [RunIds -> RunRow]
      /\ RowIsTrue(r) /\ ThreadIsTrue(r)
  BY DEF ResultInv, TypeOK
<1>n. None \notin {"skipped", "completed", "failed"}
  BY SchedulerAssumption
<1>s. scans \subseteq scans'
  BY DEF RunJob, LoadJob, ReadPrevious, Compare, ScanRead, ScanDigest, ScanFails,
     Finish, Notify, Mark, Go
<1>1. \A s \in RunIds : s # r => task'[s] = task[s] /\ runs'[s] = runs[s]
  <2>1. \A s \in RunIds : s # r => task'[s] = task[s]
    BY <1>t DEF RunJob, LoadJob, ReadPrevious, Compare, ScanRead, ScanDigest,
       ScanFails, Finish, Notify, Mark, Go
  <2>2. \A s \in RunIds : s # r => runs'[s] = runs[s]
    BY <1>t DEF RunJob, LoadJob, ReadPrevious, Compare, ScanRead, ScanDigest, ScanFails,
       Finish, FinishSuccess, FinishFailure, FinishRun, storeVars, Notify, Mark,
       SaveWebhookAt, Go
  <2> QED
    BY <2>1, <2>2
<1>2. task[r].pc # "none"
  BY DEF RunJob, LoadJob, ReadPrevious, Compare, ScanRead, ScanDigest, ScanFails,
     Finish, Notify, Mark
<1>3. SUFFICES RowIsTrue(r)' /\ ThreadIsTrue(r)'
  BY <1>s, <1>1 DEF ResultInv, RowIsTrue, ThreadIsTrue, HasScan
<1>4. CASE LoadJob(r)
  <2> DEFINE row == jobs[task[r].job]
             u == [task[r] EXCEPT !.pc = "previous", !.cron = row.cron,
                                  !.retry = row.retry, !.hook = row.hook]
  <2>1. runs' = runs /\ (task'[r] = u \/ task'[r] = Ended(r, "done"))
    BY <1>4, <1>t DEF LoadJob, Go
  <2>2. /\ u.pc = "previous" /\ u.job = task[r].job /\ u.prev = task[r].prev
        /\ u.out = task[r].out /\ u.hash = task[r].hash
    BY <1>t DEF Task
  <2>3. /\ task'[r].pc # "none" /\ task'[r].job = task[r].job
        /\ task'[r].prev \in {task[r].prev, None}
        /\ \/ task'[r].out = None
           \/ task'[r].out = task[r].out /\ task'[r].hash = task[r].hash
    <3>1. CASE task'[r] = u
      BY <2>2, <3>1
    <3>2. CASE task'[r] = Ended(r, "done")
      <4>1. /\ Ended(r, "done").pc = "done" /\ Ended(r, "done").job = task[r].job
            /\ Ended(r, "done").prev = None /\ Ended(r, "done").out = None
        BY EndedKnowsNothing
      <4> QED
        BY <3>2, <4>1
    <3> QED
      BY <2>1, <3>1, <3>2
  <2> QED
    BY <1>t, <1>n, <1>s, <1>2, <2>1, <2>3 DEF RowIsTrue, ThreadIsTrue, HasScan
<1>5. CASE ReadPrevious(r)
  <2>1. PICK h \in LastSuccessfulHash(task[r].job) :
          Go(r, [task[r] EXCEPT !.pc = "compare", !.prev = h])
    BY <1>5 DEF ReadPrevious
  <2>2. h # None => HasScan(task[r].job, h)
    BY LastHashHasScan
  <2>3. runs' = runs /\ scans' = scans
    BY <2>1 DEF Go
  <2>4. /\ task'[r].job = task[r].job /\ task'[r].prev = h
        /\ task'[r].out = task[r].out /\ task'[r].hash = task[r].hash
    BY <1>t, <2>1 DEF Go, Task
  <2> QED
    BY <1>t, <1>2, <2>2, <2>3, <2>4 DEF RowIsTrue, ThreadIsTrue, HasScan
<1>6. CASE Compare(r)
  <2> DEFINE current == file[task[r].job]
             u == [task[r] EXCEPT !.pc = "finish", !.out = "skipped", !.hash = current]
             v == [task[r] EXCEPT !.pc = "scan"]
  <2>1. /\ runs' = runs /\ scans' = scans
        /\ \/ task'[r] = u /\ current # None /\ task[r].prev = current
           \/ task'[r] = v
    BY <1>6, <1>t DEF Compare, Go
  <2>2. /\ u.job = task[r].job /\ u.prev = task[r].prev /\ u.hash = current
        /\ v.job = task[r].job /\ v.prev = task[r].prev
        /\ v.out = task[r].out /\ v.hash = task[r].hash
    BY <1>t DEF Task
  <2> QED
    BY <1>t, <1>2, <2>1, <2>2, ZenonT(40) DEF RowIsTrue, ThreadIsTrue, HasScan
<1>7. CASE ScanRead(r) \/ ScanFails(r)
  <2> DEFINE u == [task[r] EXCEPT !.pc = "digest", !.read = file[task[r].job]]
             v == [task[r] EXCEPT !.pc = "finish", !.out = "failed", !.read = None]
  <2>1. runs' = runs /\ scans' = scans /\ (task'[r] = u \/ task'[r] = v)
    BY <1>7, <1>t DEF ScanRead, ScanFails, Go
  <2>2. /\ u.job = task[r].job /\ u.prev = task[r].prev
        /\ u.out = task[r].out /\ u.hash = task[r].hash
        /\ v.job = task[r].job /\ v.prev = task[r].prev /\ v.out = "failed"
    BY <1>t DEF Task
  <2> QED
    BY <1>t, <1>2, <2>1, <2>2 DEF RowIsTrue, ThreadIsTrue, HasScan
<1>8. CASE ScanDigest(r)
  <2> DEFINE j == task[r].job
             scan == [job |-> j, read |-> task[r].read, hash |-> file[j]]
             u == [task[r] EXCEPT !.pc = "finish", !.out = "completed",
                                  !.hash = file[j], !.read = None]
  <2>1. runs' = runs /\ scans' = scans \cup {scan} /\ task'[r] = u
    BY <1>8, <1>t DEF ScanDigest
  <2>2. u.job = j /\ u.prev = task[r].prev /\ u.hash = file[j]
    BY <1>t DEF Task
  <2>3. \E s \in scans' : s.job = task'[r].job /\ s.hash = task'[r].hash
    <3>1. scan \in scans' /\ scan.job = task'[r].job /\ scan.hash = task'[r].hash
      BY <2>1, <2>2
    <3> QED
      BY <3>1
  <2>4. task'[r].prev # None =>
           \E s \in scans' : s.job = task'[r].job /\ s.hash = task'[r].prev
    BY <1>t, <1>s, <2>1, <2>2 DEF ThreadIsTrue, HasScan
  <2>5. RowIsTrue(r)'
    BY <1>t, <1>s, <2>1, RowKept
  <2> QED
    BY <1>t, <1>2, <2>1, <2>2, <2>3, <2>4, <2>5 DEF ThreadIsTrue, HasScan
<1>9. CASE Finish(r)
  <2> DEFINE u == [task[r] EXCEPT !.pc = "notify"]
  <2>1. scans' = scans /\ (task'[r] = u \/ task'[r] = Ended(r, "done"))
    BY <1>9, <1>t DEF Finish
  <2>2. /\ u.pc = "notify" /\ u.job = task[r].job /\ u.prev = task[r].prev
        /\ u.out = task[r].out /\ u.hash = task[r].hash
    BY <1>t DEF Task
  <2>3. /\ task'[r].pc # "none" /\ task'[r].job = task[r].job
        /\ task'[r].prev \in {task[r].prev, None}
        /\ \/ task'[r].out = None
           \/ task'[r].out = task[r].out /\ task'[r].hash = task[r].hash
    <3>1. CASE task'[r] = u
      BY <2>2, <3>1
    <3>2. CASE task'[r] = Ended(r, "done")
      <4>1. /\ Ended(r, "done").pc = "done" /\ Ended(r, "done").job = task[r].job
            /\ Ended(r, "done").prev = None /\ Ended(r, "done").out = None
        BY EndedKnowsNothing
      <4> QED
        BY <3>2, <4>1
    <3> QED
      BY <2>1, <3>1, <3>2
  <2>4. CASE runs' = runs
    BY <1>t, <1>n, <1>2, <2>1, <2>3, <2>4 DEF RowIsTrue, ThreadIsTrue, HasScan
  <2>5. CASE FinishSuccess(r) /\ runs' # runs
    <3>1. /\ runs[r].status \in RunStatus
          /\ runs' = [runs EXCEPT ![r] = [runs[r] EXCEPT !.status = "completed",
                         !.hash = task[r].hash, !.skipped = (task[r].out = "skipped")]]
      BY <2>5 DEF FinishSuccess, FinishRun, storeVars
    <3>2. /\ runs'[r].status = "completed" /\ runs'[r].job = runs[r].job
          /\ runs'[r].hash = task[r].hash
      BY <1>t, <3>1 DEF RunRow
    <3>3. HasScan(task[r].job, task[r].hash) /\ runs[r].job = task[r].job
      BY <1>t, <1>2, <2>5, <3>1 DEF FinishSuccess, ThreadIsTrue
    <3> QED
      BY <1>t, <1>n, <1>2, <2>1, <2>3, <3>1, <3>2, <3>3
         DEF RowIsTrue, ThreadIsTrue, HasScan, RunStatus
  <2>6. CASE FinishFailure(r) /\ runs' # runs
    <3>1. /\ runs[r].status \in RunStatus
          /\ runs' = [runs EXCEPT ![r] = [runs[r] EXCEPT !.status = "failed",
                         !.hash = None, !.skipped = FALSE]]
      BY <2>6 DEF FinishFailure, FinishRun, storeVars
    <3>2. /\ runs'[r].status = "failed" /\ runs'[r].job = runs[r].job
          /\ runs'[r].hash = None /\ runs'[r].skipped = FALSE
      BY <1>t, <3>1 DEF RunRow
    <3> QED
      BY <1>t, <1>n, <1>2, <2>1, <2>3, <3>1, <3>2
         DEF RowIsTrue, ThreadIsTrue, HasScan
  <2> QED
    BY <1>9, <2>4, <2>5, <2>6 DEF Finish
<1>10. CASE Notify(r)
  <2>1. runs' = runs /\ scans' = scans /\ task' = [task EXCEPT ![r].pc = "mark"]
    BY <1>10 DEF Notify
  <2>2. /\ task'[r].job = task[r].job /\ task'[r].prev = task[r].prev
        /\ task'[r].out = task[r].out /\ task'[r].hash = task[r].hash
    BY <1>t, <2>1 DEF Task
  <2> QED
    BY <1>t, <1>2, <2>1, <2>2 DEF RowIsTrue, ThreadIsTrue, HasScan
<1>11. CASE Mark(r)
  <2>1. scans' = scans /\ task'[r] = Ended(r, "done")
    BY <1>11, <1>t DEF Mark
  <2>2. /\ runs'[r].status = runs[r].status /\ runs'[r].job = runs[r].job
        /\ runs'[r].hash = runs[r].hash /\ runs'[r].skipped = runs[r].skipped
    BY <1>11, <1>t DEF Mark, SaveWebhookAt, RunRow
  <2>3. /\ task'[r].job = task[r].job /\ task'[r].prev = None /\ task'[r].out = None
    BY <2>1, EndedKnowsNothing
  <2> QED
    BY <1>t, <1>n, <1>2, <2>1, <2>2, <2>3 DEF RowIsTrue, ThreadIsTrue, HasScan
<1> QED
  BY <1>4, <1>5, <1>6, <1>7, <1>8, <1>9, <1>10, <1>11 DEF RunJob

\* The commands change rows only by cancelling and pruning them.
LEMMA CommandRows ==
    ASSUME TypeOK, NEW r \in RunIds,
           Prune \/ \E j \in Jobs : Create(j) \/ Update(j) \/ Delete(j) \/ Cancel(j)
    PROVE  \/ runs'[r] = runs[r]
           \/ /\ runs[r].status = "running" /\ runs'[r].status = "cancelled"
              /\ runs'[r].job = runs[r].job
              /\ runs'[r].hash = runs[r].hash /\ runs'[r].skipped = runs[r].skipped
           \/ /\ runs'[r].status = "pruned"
              /\ runs'[r].hash = None /\ ~runs'[r].skipped
<1>t. runs \in [RunIds -> RunRow]
  BY DEF TypeOK
<1>1. CASE Prune
  BY <1>1 DEF Prune, PruneRuns, NoRun
<1>2. CASE \E j \in Jobs : Create(j) \/ Update(j) \/ Delete(j)
  BY <1>2 DEF Create, CreateJob, Update, UpdateJob, Delete, DeleteJob
<1>3. CASE \E j \in Jobs : Cancel(j)
  <2>1. PICK j \in Jobs, q \in RunIds : CancelRun(j, q)
    BY <1>3 DEF Cancel
  <2>2. runs' = [runs EXCEPT ![q].status = "cancelled"] /\ runs[q].status = "running"
    BY <2>1 DEF CancelRun, RunningRuns
  <2> QED
    BY <1>t, <2>2 DEF RunRow
<1> QED
  BY <1>1, <1>2, <1>3

LEMMA CommandResult ==
    ASSUME ResultInv, TypeOK',
           Prune \/ \E j \in Jobs : Create(j) \/ Update(j) \/ Delete(j) \/ Cancel(j)
    PROVE  ResultInv'
<1>1. task' = task /\ scans' = scans
  BY DEF Prune, Create, Update, Delete, Cancel, Others
<1>2. \A r \in RunIds :
         \/ runs'[r] = runs[r]
         \/ /\ runs[r].status = "running" /\ runs'[r].status = "cancelled"
            /\ runs'[r].job = runs[r].job
            /\ runs'[r].hash = runs[r].hash /\ runs'[r].skipped = runs[r].skipped
         \/ /\ runs'[r].status = "pruned"
            /\ runs'[r].hash = None /\ ~runs'[r].skipped
  BY CommandRows DEF ResultInv
<1>3. ASSUME NEW r \in RunIds PROVE RowIsTrue(r)' /\ ThreadIsTrue(r)'
  BY <1>1, <1>2 DEF ResultInv, RowIsTrue, ThreadIsTrue, HasScan, RunStatus
<1> QED
  BY <1>3 DEF ResultInv

\* Crashes and lost writes only end threads.
LEMMA FailureThreads ==
    ASSUME TypeOK, NEW s \in RunIds,
           Crash \/ \E r \in RunIds : StoreBusy(r) \/ CliCrash(r)
    PROVE  task'[s] = task[s] \/ (task[s].pc # "none" /\ task'[s] = Ended(s, "lost"))
<1>t. task \in [RunIds -> Task] /\ WellFormed(task[s])
  BY DEF TypeOK
<1>n. None \notin {"tick", "api", "cli"}
  BY SchedulerAssumption
<1>1. task[s].by \in Server \cup {"cli"} => task[s].pc # "none"
  BY <1>t, <1>n DEF WellFormed, Server
<1>2. CASE Crash
  BY <1>1, <1>2 DEF Crash
<1>3. CASE \E r \in RunIds : StoreBusy(r)
  BY <1>3 DEF StoreBusy
<1>4. CASE \E r \in RunIds : CliCrash(r)
  BY <1>t, <1>1, <1>4 DEF CliCrash, Go
<1> QED
  BY <1>2, <1>3, <1>4

\* Recovery only fails running runs.
LEMMA FailureResult ==
    ASSUME ResultInv, TypeOK',
           \/ \E r \in RunIds : StoreBusy(r) \/ CliCrash(r)
           \/ Crash \/ Restart
    PROVE  ResultInv'
<1>t. runs \in [RunIds -> RunRow]
  BY DEF ResultInv, TypeOK
<1>n. None \notin {"skipped", "completed"}
  BY SchedulerAssumption
<1>1. scans' = scans
  BY DEF StoreBusy, CliCrash, Crash, Restart, Go
<1>2. CASE Restart
  <2>1. task' = task
    BY <1>2 DEF Restart
  <2>2. ASSUME NEW r \in RunIds
        PROVE  \/ runs'[r] = runs[r]
               \/ /\ runs[r].status = "running" /\ runs'[r].status = "failed"
                  /\ runs'[r].job = runs[r].job
                  /\ runs'[r].hash = runs[r].hash /\ runs'[r].skipped = runs[r].skipped
    BY <1>2, <1>t DEF Restart, RecoverInterrupted, RunRow
  <2>3. ASSUME NEW r \in RunIds PROVE RowIsTrue(r)' /\ ThreadIsTrue(r)'
    BY <1>1, <2>1, <2>2 DEF ResultInv, RowIsTrue, ThreadIsTrue, HasScan, RunStatus
  <2> QED
    BY <2>3 DEF ResultInv
<1>3. CASE Crash \/ \E r \in RunIds : StoreBusy(r) \/ CliCrash(r)
  <2>1. runs' = runs
    BY <1>3 DEF StoreBusy, CliCrash, Crash, Go
  <2>2. ASSUME NEW s \in RunIds
        PROVE  task'[s] = task[s] \/ (task[s].pc # "none" /\ task'[s] = Ended(s, "lost"))
    BY <1>3, FailureThreads DEF ResultInv
  <2>3. ASSUME NEW s \in RunIds PROVE RowIsTrue(s)' /\ ThreadIsTrue(s)'
    <3>1. CASE task'[s] = task[s]
      BY <1>1, <2>1, <3>1 DEF ResultInv, RowIsTrue, ThreadIsTrue, HasScan
    <3>2. CASE task[s].pc # "none" /\ task'[s] = Ended(s, "lost")
      <4>1. task'[s].job = task[s].job /\ task'[s].prev = None /\ task'[s].out = None
        BY <3>2, EndedKnowsNothing
      <4> QED
        BY <1>1, <1>n, <2>1, <3>2, <4>1 DEF ResultInv, RowIsTrue, ThreadIsTrue, HasScan
    <3> QED
      BY <2>2, <3>1, <3>2
  <2> QED
    BY <2>3 DEF ResultInv
<1> QED
  BY <1>2, <1>3

LEMMA NextResult ==
    ASSUME ResultInv, [Next]_vars
    PROVE  ResultInv'
<1>t. TypeOK'
  BY NextType DEF ResultInv
<1>1. CASE Tick
  BY <1>1, <1>t, TickClaims, ClaimResult
<1>2. ASSUME NEW j \in Jobs, NEW who \in {"api", "cli"}, Trigger(j, who) PROVE ResultInv'
  BY <1>2, <1>t, TriggerClaims, ClaimResult
<1>3. CASE \E r \in RunIds : RunJob(r)
  BY <1>3, <1>t, RunJobResult
<1>4. CASE Prune \/ \E j \in Jobs : Create(j) \/ Update(j) \/ Delete(j) \/ Cancel(j)
  BY <1>4, <1>t, CommandResult
<1>5. CASE (\E r \in RunIds : StoreBusy(r) \/ CliCrash(r)) \/ Crash \/ Restart
  BY <1>5, <1>t, FailureResult
<1>6. CASE AdvanceClock \/ (\E j \in Jobs : EditFile(j)) \/ UNCHANGED vars
  <2>1. runs' = runs /\ task' = task /\ scans' = scans
    BY <1>6 DEF AdvanceClock, EditFile, vars
  <2> QED
    BY <1>t, <2>1 DEF ResultInv, RowIsTrue, ThreadIsTrue, HasScan
<1> QED
  BY <1>1, <1>2, <1>3, <1>4, <1>5, <1>6 DEF Next

LEMMA ResultInvHolds == Spec => []ResultInv
  BY InitResult, NextResult, PTL DEF Spec

-----------------------------------------------------------------------------

\* _run_job and last_successful_hash: in every deployment a skipped run names
\* the hash of a scan of its job that was stored.
THEOREM SkipsHaveBasis == Spec => []SkipHasBasis
<1>1. ResultInv => SkipHasBasis
  <2> SUFFICES ASSUME ResultInv, NEW r \in RunIds, runs[r].skipped
               PROVE  \E s \in scans : s.job = runs[r].job /\ s.hash = runs[r].hash
    BY DEF SkipHasBasis
  <2> QED
    BY DEF ResultInv, RowIsTrue, HasScan
<1> QED
  BY <1>1, ResultInvHolds, PTL

\* store.py:278: no step makes anything else of a cancelled run, but for
\* retention, which deletes it.
LEMMA CancelledStays ==
    ASSUME TypeOK, [Next]_vars, NEW r \in RunIds, runs[r].status = "cancelled"
    PROVE  runs'[r].status \in {"cancelled", "pruned"}
<1>t. runs \in [RunIds -> RunRow] /\ runs[r] \in RunRow
  BY DEF TypeOK
<1>1. ASSUME NEW S \in SUBSET Fresh, NEW claim \in [S -> Jobs], NEW who, Claims(S, claim, who)
      PROVE  runs'[r] = runs[r]
  BY <1>1 DEF Claims, Claim, Fresh
<1>2. CASE Tick \/ \E j \in Jobs : Trigger(j, "api") \/ Trigger(j, "cli")
  BY <1>1, <1>2, TickClaims, TriggerClaims
<1>3. CASE \E s \in RunIds : RunJob(s)
  <2>1. PICK s \in RunIds : RunJob(s)
    BY <1>3
  <2>2. CASE Finish(s)
    BY <1>t, <2>2 DEF Finish, FinishSuccess, FinishFailure, FinishRun, storeVars
  <2>3. CASE Mark(s)
    BY <1>t, <2>3 DEF Mark, SaveWebhookAt, RunRow
  <2>4. CASE runs' = runs
    BY <2>4
  <2> QED
    BY <2>1, <2>2, <2>3, <2>4 DEF RunJob, LoadJob, ReadPrevious, Compare, ScanRead,
       ScanDigest, ScanFails, Notify, Go
<1>4. CASE \E j \in Jobs : Cancel(j)
  <2>1. PICK q \in RunIds : runs' = [runs EXCEPT ![q].status = "cancelled"]
    BY <1>4 DEF Cancel, CancelRun
  <2> QED
    BY <1>t, <2>1 DEF RunRow
<1>5. CASE Prune
  BY <1>5 DEF Prune, PruneRuns, NoRun
<1>6. CASE Restart
  BY <1>6 DEF Restart, RecoverInterrupted
<1>7. CASE runs' = runs
  BY <1>7
<1> QED
  BY <1>2, <1>3, <1>4, <1>5, <1>6, <1>7 DEF Next, Create, CreateJob, Update, UpdateJob,
     Delete, DeleteJob, EditFile, StoreBusy, CliCrash, Crash, AdvanceClock, Go, vars

\* finish_run and cancel_run: in every deployment the result of a cancelled run
\* is void.
THEOREM CancelledRunsStayVoid == Spec => CancelledRunIsVoid
<1>1. ResultInv /\ ResultInv' /\ [Next]_vars =>
        [\A r \in RunIds : runs[r].status = "cancelled" =>
           /\ runs'[r].status \in {"cancelled", "pruned"}
           /\ runs'[r].hash = None /\ ~runs'[r].skipped]_vars
  <2> SUFFICES ASSUME ResultInv, ResultInv', [Next]_vars,
                      NEW r \in RunIds, runs[r].status = "cancelled"
               PROVE  /\ runs'[r].status \in {"cancelled", "pruned"}
                      /\ runs'[r].hash = None /\ ~runs'[r].skipped
    OBVIOUS
  <2>1. runs'[r].status \in {"cancelled", "pruned"}
    BY CancelledStays DEF ResultInv
  <2> QED
    BY <2>1 DEF ResultInv, RowIsTrue
<1> QED
  BY <1>1, ResultInvHolds, PTL DEF Spec, CancelledRunIsVoid

-----------------------------------------------------------------------------
(* A run ends once.                                                         *)

\* A server that starts does not meet a CLI run: recover_interrupted would take
\* it for one of its own, fail it, and see it completed later.
Apart == ~({"crash", "cli"} \subseteq Commands)

\* A thread that has yet to record a result finds its run still open, unless it
\* was cancelled or pruned.
EndInv ==
    /\ TypeOK /\ OnlyCliWhenDown
    /\ \A r \in RunIds : Live(r) => runs[r].status \in {"running", "cancelled", "pruned"}

LEMMA InitEnd == Init => EndInv
<1> SUFFICES ASSUME Init PROVE EndInv
  OBVIOUS
<1>1. \A r \in RunIds : ~Live(r) /\ task[r].by # "cli"
  BY SchedulerAssumption DEF Init, Live, Executing, NoTask
<1> QED
  BY <1>1, InitType DEF Init, EndInv, OnlyCliWhenDown

\* A step of a thread that is live afterwards was one that only moves it.
LEMMA RunJobEnd ==
    ASSUME EndInv, TypeOK', NEW r \in RunIds, RunJob(r)
    PROVE  EndInv'
<1>t. /\ task \in [RunIds -> Task] /\ task[r] \in Task /\ runs \in [RunIds -> RunRow]
  BY DEF EndInv, TypeOK
<1>u. up' = up
  BY DEF RunJob, LoadJob, ReadPrevious, Compare, ScanRead, ScanDigest, ScanFails,
     Finish, Notify, Mark, Go
<1>1. \A s \in RunIds : s # r => task'[s] = task[s] /\ runs'[s] = runs[s]
  <2>1. \A s \in RunIds : s # r => task'[s] = task[s]
    BY <1>t DEF RunJob, LoadJob, ReadPrevious, Compare, ScanRead, ScanDigest,
       ScanFails, Finish, Notify, Mark, Go
  <2>2. \A s \in RunIds : s # r => runs'[s] = runs[s]
    BY <1>t DEF RunJob, LoadJob, ReadPrevious, Compare, ScanRead, ScanDigest, ScanFails,
       Finish, FinishSuccess, FinishFailure, FinishRun, storeVars, Notify, Mark,
       SaveWebhookAt, Go
  <2> QED
    BY <2>1, <2>2
<1>2. \A pc : Ended(r, pc).by = task[r].by /\ Ended(r, pc).pc = pc
  BY DEF Ended, NoTask
<1>3. task'[r].by = task[r].by
  <2> DEFINE row == jobs[task[r].job]
             c == file[task[r].job]
             load == [task[r] EXCEPT !.pc = "previous", !.cron = row.cron,
                                     !.retry = row.retry, !.hook = row.hook]
             skip == [task[r] EXCEPT !.pc = "finish", !.out = "skipped", !.hash = c]
             scan == [task[r] EXCEPT !.pc = "scan"]
             read == [task[r] EXCEPT !.pc = "digest", !.read = c]
             over == [task[r] EXCEPT !.pc = "finish", !.out = "completed",
                                     !.hash = c, !.read = None]
             fail == [task[r] EXCEPT !.pc = "finish", !.out = "failed", !.read = None]
             post == [task[r] EXCEPT !.pc = "notify"]
             mark == [task[r] EXCEPT !.pc = "mark"]
  <2>1. CASE ReadPrevious(r)
    <3>1. PICK h : task' = [task EXCEPT ![r] = [task[r] EXCEPT !.pc = "compare", !.prev = h]]
      BY <2>1 DEF ReadPrevious, Go
    <3> QED
      BY <1>t, <3>1 DEF Task
  <2>2. CASE ~ReadPrevious(r)
    <3>1. \/ task'[r] \in {load, skip, scan, read, over, fail}
          \/ task'[r] \in {post, mark, Ended(r, "done")}
      <4>1. CASE LoadJob(r) \/ Compare(r)
        BY <1>t, <4>1 DEF LoadJob, Compare, Go
      <4>2. CASE ScanRead(r) \/ ScanDigest(r) \/ ScanFails(r)
        BY <1>t, <4>2 DEF ScanRead, ScanDigest, ScanFails, Go
      <4>3. CASE Finish(r) \/ Notify(r) \/ Mark(r)
        BY <1>t, <4>3 DEF Finish, Notify, Mark
      <4> QED
        BY <2>2, <4>1, <4>2, <4>3 DEF RunJob
    <3>2. /\ load.by = task[r].by /\ skip.by = task[r].by /\ scan.by = task[r].by
          /\ read.by = task[r].by /\ over.by = task[r].by /\ fail.by = task[r].by
          /\ post.by = task[r].by /\ mark.by = task[r].by
      BY <1>t DEF Task
    <3>3. Ended(r, "done").by = task[r].by
      BY <1>2
    <3> HIDE DEF load, skip, scan, read, over, fail, post, mark
    <3> QED
      BY <3>1, <3>2, <3>3
  <2> QED
    BY <2>1, <2>2
<1>4. Live(r)' => Live(r) /\ runs'[r] = runs[r]
  <2>1. CASE Finish(r)
    <3>1. task'[r].pc \in {"notify", "done"}
      <4>1. CASE task'[r] = Ended(r, "done")
        BY <1>2, <4>1
      <4>2. CASE task'[r] # Ended(r, "done")
        BY <1>t, <2>1, <4>2 DEF Finish, Task
      <4> QED
        BY <4>1, <4>2
    <3> QED
      BY <3>1 DEF Live, Executing
  <2>2. CASE Mark(r)
    <3>1. task'[r].pc = "done"
      BY <1>t, <1>2, <2>2 DEF Mark
    <3> QED
      BY <3>1 DEF Live, Executing
  <2>3. CASE Notify(r)
    <3>1. task'[r].pc = "mark"
      BY <1>t, <2>3 DEF Notify, Task
    <3> QED
      BY <3>1 DEF Live, Executing
  <2>4. CASE LoadJob(r) \/ ReadPrevious(r) \/ Compare(r) \/ ScanRead(r) \/ ScanDigest(r)
             \/ ScanFails(r)
    BY <2>4 DEF LoadJob, ReadPrevious, Compare, ScanRead, ScanDigest, ScanFails, Go,
       Live, Executing
  <2> QED
    BY <2>1, <2>2, <2>3, <2>4 DEF RunJob
<1>5. \A s \in RunIds : /\ task'[s].by = task[s].by
                        /\ Live(s)' => Live(s) /\ runs'[s] = runs[s]
  BY <1>1, <1>3, <1>4 DEF Live
<1> QED
  BY <1>u, <1>5 DEF EndInv, OnlyCliWhenDown

LEMMA NextEnd ==
    ASSUME Apart, EndInv, [Next]_vars
    PROVE  EndInv'
<1>t. TypeOK /\ TypeOK' /\ task \in [RunIds -> Task] /\ runs \in [RunIds -> RunRow]
  BY NextType DEF EndInv, TypeOK
<1>1. ASSUME NEW S \in SUBSET Fresh, NEW claim \in [S -> Jobs],
             NEW who \in {"tick", "api", "cli"}, Claims(S, claim, who)
      PROVE  EndInv'
  <2>1. up' = up
    BY <1>1 DEF Claims, Dispatch
  <2>2. \A r \in RunIds \ S : task'[r] = task[r] /\ runs'[r] = runs[r]
    BY <1>1 DEF Claims, Claim, Dispatch
  <2>3. \A r \in S : /\ r \in RunIds /\ runs'[r] = NewRun(claim[r])
                     /\ task'[r] = [NoTask EXCEPT !.pc = "claimed", !.by = who,
                                                  !.job = claim[r]]
    BY <1>1 DEF Claims, Claim, Dispatch, Fresh
  <2>4. \A r \in S : runs'[r].status = "running" /\ task'[r].by = who
    <3> SUFFICES ASSUME NEW r \in S
                 PROVE  runs'[r].status = "running" /\ task'[r].by = who
      OBVIOUS
    <3>1. runs'[r].status = "running"
      <4>1. runs'[r] = NewRun(claim[r])
        BY <2>3
      <4>2. NewRun(claim[r]).status = "running"
        BY DEF NewRun
      <4> QED
        BY <4>1, <4>2
    <3>2. [NoTask EXCEPT !.pc = "claimed", !.by = who, !.job = claim[r]].by = who
      BY DEF NoTask
    <3> QED
      BY <2>3, <3>1, <3>2
  <2>5. /\ who = "cli" => "cli" \in Commands
        /\ ~up => who = "cli"
    BY <1>1 DEF Claims
  <2> QED
    BY <1>t, <2>1, <2>2, <2>4, <2>5 DEF EndInv, OnlyCliWhenDown, Live
<1>2. CASE Tick
  BY <1>1, <1>2, TickClaims
<1>3. ASSUME NEW j \in Jobs, NEW who \in {"api", "cli"}, Trigger(j, who) PROVE EndInv'
  BY <1>1, <1>3, TriggerClaims
<1>4. CASE \E r \in RunIds : RunJob(r)
  BY <1>4, <1>t, RunJobEnd
<1>5. CASE Prune \/ \E j \in Jobs : Create(j) \/ Update(j) \/ Delete(j) \/ Cancel(j)
  <2>1. task' = task /\ up' = up
    BY <1>5 DEF Prune, Create, Update, Delete, Cancel, Others
  <2>2. \A r \in RunIds : runs'[r] = runs[r] \/ runs'[r].status \in {"cancelled", "pruned"}
    BY <1>5, <1>t, CommandRows
  <2> QED
    BY <1>t, <2>1, <2>2 DEF EndInv, OnlyCliWhenDown, Live
<1>6. CASE Crash \/ \E r \in RunIds : StoreBusy(r) \/ CliCrash(r)
  <2>1. runs' = runs
    BY <1>6 DEF Crash, StoreBusy, CliCrash, Go
  <2>2. \A s \in RunIds : Ended(s, "lost").pc = "lost" /\ Ended(s, "lost").by = task[s].by
    BY DEF Ended, NoTask
  <2>3. \A s \in RunIds : task'[s].by = task[s].by /\ (Live(s)' => task'[s] = task[s])
    <3> SUFFICES ASSUME NEW s \in RunIds
                 PROVE  task'[s].by = task[s].by /\ (Live(s)' => task'[s] = task[s])
      OBVIOUS
    <3>1. CASE task'[s] = task[s]
      BY <3>1
    <3>2. CASE task'[s] = Ended(s, "lost")
      BY <2>2, <3>2 DEF Live, Executing
    <3> QED
      BY <1>6, <1>t, <3>1, <3>2, FailureThreads
  <2>4. CASE Crash
    <3>1. "crash" \in Commands /\ \A s \in RunIds : Live(s)' => task[s].by \notin Server
      <4>1. \A s \in RunIds : task[s].by \in Server /\ task[s].pc # "done" =>
                task'[s] = Ended(s, "lost")
        BY <2>4 DEF Crash
      <4> QED
        BY <2>2, <2>3, <2>4, <4>1 DEF Crash, Live, Executing
    <3>2. \A s \in RunIds : Live(s)' => task[s].by = "cli"
      BY <1>t, <2>3, <3>1 DEF TypeOK, Task, WellFormed, Live, Executing, Server
    <3> QED
      BY <1>t, <2>1, <2>3, <3>1, <3>2 DEF EndInv, OnlyCliWhenDown, Live
  <2>5. CASE up' = up
    BY <1>t, <2>1, <2>3, <2>5 DEF EndInv, OnlyCliWhenDown, Live
  <2> QED
    BY <1>6, <2>4, <2>5 DEF StoreBusy, CliCrash, Go
<1>7. CASE Restart
  <2>1. task' = task /\ up' /\ ~up
    BY <1>7 DEF Restart
  <2>2. \A r \in RunIds : ~Live(r)
    BY <2>1 DEF EndInv, OnlyCliWhenDown, Apart
  <2> QED
    BY <1>t, <2>1, <2>2 DEF EndInv, OnlyCliWhenDown, Live
<1>8. CASE AdvanceClock \/ (\E j \in Jobs : EditFile(j)) \/ UNCHANGED vars
  <2>1. runs' = runs /\ task' = task /\ up' = up
    BY <1>8 DEF AdvanceClock, EditFile, vars
  <2> QED
    BY <1>t, <2>1 DEF EndInv, OnlyCliWhenDown, Live
<1> QED
  BY <1>2, <1>3, <1>4, <1>5, <1>6, <1>7, <1>8 DEF Next

\* finish_run, cancel_run and recover_interrupted: where a server does not
\* restart beside a running CLI command, a run that has ended keeps its status
\* until it is pruned.
THEOREM EndedRunsStay ==
    ASSUME Apart PROVE Spec => RunsEndOnce
<1>1. EndInv /\ [Next]_vars =>
        [\A r \in RunIds : runs[r].status \in {"completed", "failed", "cancelled"} =>
           runs'[r].status \in {runs[r].status, "pruned"}]_vars
  <2> SUFFICES ASSUME EndInv, [Next]_vars, NEW r \in RunIds,
                      runs[r].status \in {"completed", "failed", "cancelled"}
               PROVE  runs'[r].status \in {runs[r].status, "pruned"}
    OBVIOUS
  <2>t. TypeOK /\ runs \in [RunIds -> RunRow]
    BY DEF EndInv, TypeOK
  <2>1. ASSUME NEW S \in SUBSET Fresh, NEW claim \in [S -> Jobs], NEW who,
               Claims(S, claim, who)
        PROVE  runs'[r] = runs[r]
    BY <2>1 DEF Claims, Claim, Fresh
  <2>2. CASE Tick \/ \E j \in Jobs : Trigger(j, "api") \/ Trigger(j, "cli")
    BY <2>1, <2>2, TickClaims, TriggerClaims
  <2>3. CASE \E s \in RunIds : RunJob(s)
    <3>1. PICK s \in RunIds : RunJob(s)
      BY <2>3
    <3>2. CASE Finish(s)
      <4>1. s = r => runs[r].status = "cancelled"
        BY <3>2 DEF EndInv, Finish, Live, Executing
      <4> QED
        BY <2>t, <3>2, <4>1 DEF Finish, FinishSuccess, FinishFailure, FinishRun, storeVars
    <3>3. CASE Mark(s)
      BY <2>t, <3>3 DEF Mark, SaveWebhookAt, RunRow
    <3>4. CASE runs' = runs
      BY <3>4
    <3> QED
      BY <3>1, <3>2, <3>3, <3>4 DEF RunJob, LoadJob, ReadPrevious, Compare, ScanRead,
         ScanDigest, ScanFails, Notify, Go
  <2>4. CASE Prune \/ \E j \in Jobs : Create(j) \/ Update(j) \/ Delete(j) \/ Cancel(j)
    BY <2>t, <2>4, CommandRows
  <2>5. CASE Restart
    BY <2>5 DEF Restart, RecoverInterrupted
  <2>6. CASE runs' = runs
    BY <2>6
  <2> QED
    BY <2>2, <2>3, <2>4, <2>5, <2>6 DEF Next, EditFile, StoreBusy, CliCrash, Crash,
       AdvanceClock, Go, vars
<1>2. EndInv /\ [Next]_vars => EndInv'
  BY NextEnd
<1> QED
  BY <1>1, <1>2, InitEnd, PTL DEF Spec, RunsEndOnce

-----------------------------------------------------------------------------
(* What a webhook was told.  A run that was cancelled is announced by its   *)
(* thread all the same, so this one needs a deployment without cancels.     *)

Uncancelled == "cancel" \notin Commands
Reported(out) == IF out = "failed" THEN "failed" ELSE "completed"

\* Who has come to notify has recorded, and what was posted was recorded by a
\* thread that has nothing more to record.
NotifyInv ==
    /\ ResultInv
    /\ \A r \in RunIds : runs[r].status # "cancelled"
    /\ \A r \in RunIds : task[r].pc = "notify" => runs[r].status \in {Reported(task[r].out), "pruned"}
    /\ \A m \in sent : ~Live(m.run) /\ runs[m.run].status \in {m.status, "pruned"}

LEMMA InitNotify == Init => NotifyInv
<1> SUFFICES ASSUME Init PROVE NotifyInv
  OBVIOUS
<1>1. \A r \in RunIds : runs[r].status = "none" /\ task[r].pc = "none"
  BY DEF Init, NoRun, NoTask
<1> QED
  BY <1>1, InitResult DEF NotifyInv, Init

LEMMA NotifyKept ==
    ASSUME NotifyInv, ResultInv', ThreadsKept, sent' = sent,
           \A r \in RunIds :
              /\ task'[r].pc = "notify" => task'[r] = task[r]
              /\ \/ runs'[r].status \in {runs[r].status, "pruned"}
                 \/ runs[r].status = "running" /\ runs'[r].status = "failed"
    PROVE  NotifyInv'
<1>1. \A m \in sent : m.run \in RunIds /\ m.status \in {"completed", "failed"}
  BY DEF NotifyInv, ResultInv, TypeOK
<1>2. \A r \in RunIds : runs'[r].status # "cancelled"
  BY DEF NotifyInv
<1>3. \A r \in RunIds : task'[r].pc = "notify" => runs'[r].status \in {Reported(task'[r].out), "pruned"}
  BY DEF NotifyInv, Reported
<1>4. \A m \in sent : ~Live(m.run)' /\ runs'[m.run].status \in {m.status, "pruned"}
  BY <1>1 DEF NotifyInv, ThreadsKept, Live
<1> QED
  BY <1>2, <1>3, <1>4 DEF NotifyInv

LEMMA ClaimNotify ==
    ASSUME NotifyInv, ResultInv', NEW S \in SUBSET Fresh, NEW claim \in [S -> Jobs],
           NEW who, Claims(S, claim, who)
    PROVE  NotifyInv'
<1>1. /\ sent' = sent /\ S \subseteq RunIds /\ \A r \in S : runs[r].status = "none"
      /\ \A r \in RunIds \ S : task'[r] = task[r] /\ runs'[r] = runs[r]
  BY DEF Claims, Claim, Dispatch, Fresh
<1>2. ASSUME NEW r \in S PROVE runs'[r].status = "running" /\ task'[r].pc = "claimed"
  <2>1. /\ runs'[r] = NewRun(claim[r])
        /\ task'[r] = [NoTask EXCEPT !.pc = "claimed", !.by = who, !.job = claim[r]]
    BY <1>1, <1>2 DEF Claims, Claim, Dispatch
  <2> QED
    BY <2>1 DEF NewRun, NoTask
<1>3. \A m \in sent : m.run \in RunIds \ S
  BY <1>1 DEF NotifyInv, ResultInv, TypeOK
<1> QED
  BY <1>1, <1>2, <1>3 DEF NotifyInv, Live

\* The result is recorded before it is posted.
LEMMA FinishNotify ==
    ASSUME NotifyInv, ResultInv', NEW r \in RunIds, Finish(r)
    PROVE  NotifyInv'
<1>t. /\ task \in [RunIds -> Task] /\ task[r] \in Task /\ runs \in [RunIds -> RunRow] /\ runs[r] \in RunRow
  BY DEF NotifyInv, ResultInv, TypeOK
<1>1. /\ sent' = sent /\ task[r].pc = "finish"
      /\ \A s \in RunIds : s # r => task'[s] = task[s]
      /\ task'[r] = [task[r] EXCEPT !.pc = "notify"] \/ task'[r] = Ended(r, "done")
  BY <1>t DEF Finish
<1>2. /\ [task[r] EXCEPT !.pc = "notify"].pc = "notify"
      /\ [task[r] EXCEPT !.pc = "notify"].out = task[r].out
  BY <1>t DEF Task
<1>3. /\ task'[r].pc \in {"notify", "done"} /\ (task'[r].pc = "notify" => task'[r].out = task[r].out)
  <2>1. CASE task'[r] = [task[r] EXCEPT !.pc = "notify"]
    BY <1>2, <2>1
  <2>2. CASE task'[r] = Ended(r, "done")
    BY <2>2, EndedKnowsNothing
  <2> QED
    BY <1>1, <2>1, <2>2
<1>4. /\ \A s \in RunIds : s # r => runs'[s] = runs[s]
      /\ runs'[r].status \in {Reported(task[r].out), "pruned"}
  <2>1. runs[r].status # "none" /\ runs[r].status # "cancelled"
    BY <1>1 DEF NotifyInv, ResultInv, ThreadIsTrue
  <2>2. CASE runs[r].status = "pruned"
    BY <2>2 DEF Finish, FinishSuccess, FinishFailure, FinishRun, RunStatus, storeVars
  <2>3. CASE runs[r].status # "pruned"
    <3>1. runs[r].status \in RunStatus \ {"cancelled"}
      BY <1>t, <2>1, <2>3 DEF RunRow
    <3>2. CASE FinishSuccess(r)
      <4>1. runs' = [runs EXCEPT ![r] = [runs[r] EXCEPT !.status = "completed",
                        !.hash = task[r].hash, !.skipped = (task[r].out = "skipped")]]
        BY <3>1, <3>2 DEF FinishSuccess, FinishRun
      <4> QED
        BY <1>t, <3>2, <4>1 DEF RunRow, FinishSuccess, Reported
    <3>3. CASE FinishFailure(r)
      <4>1. runs' = [runs EXCEPT ![r] = [runs[r] EXCEPT !.status = "failed",
                        !.hash = None, !.skipped = FALSE]]
        BY <3>1, <3>3 DEF FinishFailure, FinishRun
      <4> QED
        BY <1>t, <3>3, <4>1 DEF RunRow, FinishFailure, Reported
    <3> QED
      BY <3>2, <3>3 DEF Finish
  <2> QED
    BY <2>2, <2>3
<1>5. \A m \in sent : m.run \in RunIds /\ m.run # r
  BY <1>1 DEF NotifyInv, ResultInv, TypeOK, Live, Executing
<1>6. \A s \in RunIds : runs'[s].status # "cancelled"
  BY <1>4 DEF NotifyInv, Reported
<1>7. \A s \in RunIds : task'[s].pc = "notify" => runs'[s].status \in {Reported(task'[s].out), "pruned"}
  BY <1>1, <1>3, <1>4 DEF NotifyInv
<1>8. \A m \in sent : ~Live(m.run)' /\ runs'[m.run].status \in {m.status, "pruned"}
  BY <1>1, <1>4, <1>5 DEF NotifyInv, Live
<1> QED
  BY <1>1, <1>6, <1>7, <1>8 DEF NotifyInv

LEMMA PostNotify ==
    ASSUME NotifyInv, ResultInv', NEW r \in RunIds, Notify(r)
    PROVE  NotifyInv'
<1> DEFINE m == [run |-> r, status |-> IF task[r].out = "failed" THEN "failed" ELSE "completed"]
<1>t. task \in [RunIds -> Task] /\ task[r] \in Task
  BY DEF NotifyInv, ResultInv, TypeOK
<1>1. /\ task[r].pc = "notify" /\ runs' = runs /\ sent' \subseteq sent \cup {m}
      /\ task'[r].pc = "mark" /\ \A s \in RunIds : s # r => task'[s] = task[s]
  BY <1>t DEF Notify, Task
<1>2. m.run = r /\ runs[r].status \in {m.status, "pruned"}
  BY <1>1 DEF NotifyInv, Reported
<1>3. \A n \in sent' : ~Live(n.run)' /\ runs'[n.run].status \in {n.status, "pruned"}
  <2> SUFFICES ASSUME NEW n \in sent'
               PROVE  ~Live(n.run)' /\ runs'[n.run].status \in {n.status, "pruned"}
    OBVIOUS
  <2>1. CASE n = m
    BY <1>1, <1>2, <2>1 DEF Live, Executing
  <2>2. CASE n \in sent
    <3>1. n.run \in RunIds /\ ~Live(n.run) /\ runs[n.run].status \in {n.status, "pruned"}
      BY <2>2 DEF NotifyInv, ResultInv, TypeOK
    <3> QED
      BY <1>1, <3>1 DEF Live, Executing
  <2> QED
    BY <1>1, <2>1, <2>2
<1> QED
  BY <1>1, <1>3 DEF NotifyInv

LEMMA NextNotify ==
    ASSUME Uncancelled, NotifyInv, [Next]_vars
    PROVE  NotifyInv'
<1>t. TypeOK /\ ResultInv' /\ task \in [RunIds -> Task] /\ runs \in [RunIds -> RunRow]
  BY NextResult DEF NotifyInv, ResultInv, TypeOK
<1>1. CASE Tick
  BY <1>1, <1>t, TickClaims, ClaimNotify
<1>2. ASSUME NEW j \in Jobs, NEW who \in {"api", "cli"}, Trigger(j, who) PROVE NotifyInv'
  BY <1>2, <1>t, TriggerClaims, ClaimNotify
<1>3. ASSUME NEW r \in RunIds, RunJob(r) PROVE NotifyInv'
  <2>1. CASE Mark(r)
    <3>1. /\ sent' = sent /\ task'[r].pc = "done" /\ \A s \in RunIds : s # r => task'[s] = task[s]
      BY <1>t, <2>1, EndedKnowsNothing DEF Mark
    <3>2. \A s \in RunIds : runs'[s].status = runs[s].status
      BY <1>t, <2>1 DEF Mark, SaveWebhookAt, RunRow
    <3>3. \A s \in RunIds : task'[s].pc = "notify" => task'[s] = task[s]
      BY <3>1
    <3>4. ThreadsKept
      BY <1>3, <1>t, RunJobQuiet DEF Quiet
    <3> QED
      BY <1>t, <3>1, <3>2, <3>3, <3>4, NotifyKept
  <2>2. CASE LoadJob(r) \/ ReadPrevious(r) \/ Compare(r) \/ ScanRead(r) \/ ScanDigest(r) \/ ScanFails(r)
    <3>1. sent' = sent /\ runs' = runs /\ Live(r)
      BY <2>2 DEF LoadJob, ReadPrevious, Compare, ScanRead, ScanDigest, ScanFails, Go, Live, Executing
    <3>2. \A s \in RunIds : s # r => task'[s] = task[s]
      BY <1>t, <2>2 DEF LoadJob, ReadPrevious, Compare, ScanRead, ScanDigest, ScanFails, Go
    <3>3. task'[r].pc # "notify"
      <4>1. CASE LoadJob(r)
        BY <1>t, <4>1, EndedKnowsNothing DEF LoadJob, Go, Task
      <4>2. CASE ReadPrevious(r)
        <5>1. PICK h : task' = [task EXCEPT ![r] = [task[r] EXCEPT !.pc = "compare", !.prev = h]]
          BY <4>2 DEF ReadPrevious, Go
        <5> QED
          BY <1>t, <5>1 DEF Task
      <4>3. CASE Compare(r)
        BY <1>t, <4>3 DEF Compare, Go, Task
      <4>4. CASE ScanRead(r) \/ ScanDigest(r) \/ ScanFails(r)
        BY <1>t, <4>4, ZenonT(40) DEF ScanRead, ScanDigest, ScanFails, Go, Task
      <4> QED
        BY <2>2, <4>1, <4>2, <4>3, <4>4
    <3>4. ThreadsKept
      BY <1>3, <1>t, RunJobQuiet DEF Quiet
    <3>5. \A s \in RunIds : task'[s].pc = "notify" => task'[s] = task[s]
      BY <3>2, <3>3
    <3> QED
      BY <1>t, <3>1, <3>4, <3>5, NotifyKept
  <2> QED
    BY <1>3, <1>t, <2>1, <2>2, FinishNotify, PostNotify DEF RunJob
<1>4. CASE Prune \/ \E j \in Jobs : Create(j) \/ Update(j) \/ Delete(j) \/ Cancel(j)
  <2>1. task' = task /\ sent' = sent
    BY <1>4 DEF Prune, Create, Update, Delete, Cancel, Others
  <2>2. ~\E j \in Jobs : Cancel(j)
    BY DEF Uncancelled, Cancel
  <2>3. \A r \in RunIds : runs'[r].status \in {runs[r].status, "pruned"}
    BY <1>4, <2>2 DEF Prune, PruneRuns, NoRun, Create, CreateJob, Update, UpdateJob, Delete, DeleteJob
  <2>4. ThreadsKept
    BY <1>4, <1>t, CommandQuiet DEF Quiet
  <2> QED
    BY <1>t, <2>1, <2>3, <2>4, NotifyKept
<1>5. CASE Restart
  <2>1. task' = task /\ sent' = sent
    BY <1>5 DEF Restart
  <2>2. \A r \in RunIds : \/ runs'[r].status = runs[r].status
                          \/ runs[r].status = "running" /\ runs'[r].status = "failed"
    BY <1>5, <1>t DEF Restart, RecoverInterrupted, RunRow
  <2>3. ThreadsKept
    BY <1>5, <1>t, EnvironmentQuiet DEF Quiet
  <2> QED
    BY <1>t, <2>1, <2>2, <2>3, NotifyKept
<1>6. CASE Crash \/ \E r \in RunIds : StoreBusy(r) \/ CliCrash(r)
  <2>1. sent' = sent /\ runs' = runs
    BY <1>6 DEF Crash, StoreBusy, CliCrash, Go
  <2>2. ASSUME NEW s \in RunIds, task'[s].pc = "notify" PROVE task'[s] = task[s]
    BY <1>6, <1>t, <2>2, FailureThreads, EndedKnowsNothing
  <2>3. ThreadsKept
    BY <1>6, <1>t, EnvironmentQuiet DEF Quiet
  <2> QED
    BY <1>t, <2>1, <2>2, <2>3, NotifyKept
<1>7. CASE AdvanceClock \/ (\E j \in Jobs : EditFile(j)) \/ UNCHANGED vars
  <2>1. runs' = runs /\ task' = task /\ sent' = sent
    BY <1>7 DEF AdvanceClock, EditFile, vars
  <2> QED
    BY <1>t, <2>1, UnchangedQuiet, NotifyKept DEF Quiet
<1> QED
  BY <1>1, <1>2, <1>3, <1>4, <1>5, <1>6, <1>7 DEF Next

\* _notify: where runs are not cancelled, no webhook receiver is told anything
\* that the queue does not record, whatever crashes, recoveries beside a CLI,
\* edits and retention come in between.
THEOREM PostsAreRecorded ==
    ASSUME Uncancelled PROVE Spec => []NotifiedAsRecorded
<1>1. NotifyInv => NotifiedAsRecorded
  BY DEF NotifyInv, NotifiedAsRecorded
<1>2. NotifyInv /\ [Next]_vars => NotifyInv'
  BY NextNotify
<1> QED
  BY <1>1, <1>2, InitNotify, PTL DEF Spec

-----------------------------------------------------------------------------
(* What becomes of a job.  Both promises count its runs, so they are about  *)
(* deployments that keep them.                                              *)

\* A budget is edited, if at all, to none, and a cron is not edited: a thread
\* works with the ones it has loaded.
Kept == "prune" \notin Commands
BudgetsFall == \A e \in Edits : e.retry \in {None, 0}
CronsKept == \A e \in Edits : e.cron = None

LoadedAsIs(r) ==
    task[r].pc \in Executing =>
       /\ CronsKept => task[r].cron = jobs[task[r].job].cron
       /\ BudgetsFall => jobs[task[r].job].retry <= task[r].retry
Counted(r) == runs[r].status \in RunStatus => runs[r].attempt <= Cardinality(History(runs[r].job))
SpentBudget(j) == jobs[j].status = "dead" => Cardinality(History(j)) > jobs[j].retry
\* Only a failure moves a job off its cron, and it stays in the history.
FollowsCron(j) ==
    \/ jobs[j].next % jobs[j].cron = 0
    \/ \E r \in History(j) : runs[r].status = "failed" /\ ~Live(r)
JobInv ==
    /\ ResultInv
    /\ \A r \in RunIds : /\ task[r].pc # "none" => jobs[task[r].job].row # "unborn"
                         /\ LoadedAsIs(r) /\ Counted(r)
    /\ \A j \in Jobs : /\ BudgetsFall => SpentBudget(j)
                       /\ CronsKept /\ Present(j) => FollowsCron(j)

LEMMA FiringOnCron ==
    ASSUME NEW c \in Nat \ {0}, NEW t \in Nat PROVE NextRun(c, t) % c = 0
<1> DEFINE n == (t \div c) + 1
           q == (n * c) \div c
           m == (n * c) % c
<1>1. n \in Nat /\ n * c \in Nat
  OBVIOUS
<1> HIDE DEF n
<1>2. q \in Nat /\ m \in 0..(c - 1) /\ n * c = c * q + m
  BY <1>1
<1> HIDE DEF q, m
<1>3. m = c * (n - q)
  BY <1>1, <1>2
<1>4. n - q >= 1 => c * (n - q) >= c
  BY <1>1, <1>2
<1>5. n - q <= -1 => c * (n - q) <= -c
  BY <1>1, <1>2
<1>6. n - q = 0
  BY <1>1, <1>2, <1>3, <1>4, <1>5
<1>7. m = 0
  BY <1>1, <1>2, <1>3, <1>6
<1> QED
  BY <1>7 DEF NextRun, n, m

\* A history that is kept only grows, and so does its length.
LEMMA HistoryGrows ==
    ASSUME NEW j, History(j) \subseteq History(j)'
    PROVE  Cardinality(History(j)) <= Cardinality(History(j)') /\ Cardinality(History(j)') \in Nat
<1>1. IsFiniteSet(1..MaxRuns)
  BY FS_Interval, StoreAssumption
<1>2. History(j)' \subseteq 1..MaxRuns
  BY DEF History, RunIds
<1> QED
  BY <1>1, <1>2, FS_Subset, FS_CardinalityType

LEMMA InitJob == Init => JobInv
<1> SUFFICES ASSUME Init PROVE JobInv
  OBVIOUS
<1>1. \A r \in RunIds : runs[r].status = "none" /\ task[r].pc = "none"
  BY DEF Init, NoRun, NoTask
<1>2. \A r \in RunIds : LoadedAsIs(r) /\ Counted(r)
  BY <1>1 DEF LoadedAsIs, Counted, Executing, RunStatus
<1>3. \A j \in Jobs : jobs[j].status = "idle" /\ (Present(j) => jobs[j].next % jobs[j].cron = 0)
  <2> SUFFICES ASSUME NEW j \in Jobs
               PROVE  jobs[j].status = "idle" /\ (Present(j) => jobs[j].next % jobs[j].cron = 0)
    OBVIOUS
  <2>1. CASE "create" \in Commands
    BY <2>1 DEF Init, Present
  <2>2. CASE "create" \notin Commands
    <3>1. PICK s \in Specs : jobs[j] = [row |-> "present", enabled |-> TRUE, cron |-> s.cron,
                 retry |-> s.retry, hook |-> s.hook, status |-> "idle", next |-> NextRun(s.cron, 0)]
      BY <2>2 DEF Init
    <3>2. s.cron \in Nat \ {0}
      BY SchedulerAssumption, StoreAssumption
    <3> QED
      BY <3>1, <3>2, FiringOnCron
  <2> QED
    BY <2>1, <2>2
<1> QED
  BY <1>1, <1>2, <1>3, InitResult DEF JobInv, SpentBudget, FollowsCron

\* Steps that claim nothing, keep the rows of the jobs and whatever an executing
\* thread has loaded: the failures on which a schedule may rest stay.
RowsStay == \A r \in RunIds : runs[r].status \in RunStatus =>
    /\ runs'[r].status \in RunStatus /\ runs'[r].job = runs[r].job /\ runs'[r].attempt = runs[r].attempt
    /\ runs[r].status = "failed" /\ ~Live(r) => runs'[r].status = "failed"
LEMMA StayingRows ==
    ASSUME Quiet, RowsStay
    PROVE  /\ \A j : History(j)' = History(j)
           /\ \A j : (\E r \in History(j) : runs[r].status = "failed" /\ ~Live(r)) =>
                        \E r \in History(j)' : runs'[r].status = "failed" /\ ~Live(r)'
<1>1. \A j : History(j)' = History(j)
  BY DEF Quiet, RowsKept, RowsStay, History
<1>2. \A r \in RunIds : runs[r].status = "failed" /\ ~Live(r) => runs'[r].status = "failed" /\ ~Live(r)'
  BY DEF Quiet, ThreadsKept, RowsStay, RunStatus
<1> QED
  BY <1>1, <1>2 DEF History
\* What a step may do to a job: nothing its threads have not loaded or its promises
\* do not bear, or it leaves both promises kept.
JobStays(j) ==
    /\ jobs[j].row # "unborn" =>
         /\ jobs'[j].row # "unborn"
         /\ CronsKept => jobs'[j].cron = jobs[j].cron
         /\ BudgetsFall => jobs'[j].retry <= jobs[j].retry
    /\ \/ /\ BudgetsFall => jobs'[j].retry <= jobs[j].retry
          /\ CronsKept => jobs'[j].cron = jobs[j].cron /\ jobs'[j].next = jobs[j].next
          /\ jobs'[j].status = "dead" => jobs[j].status = "dead"
          /\ Present(j)' => Present(j)
       \/ (BudgetsFall => SpentBudget(j)') /\ (CronsKept /\ Present(j)' => FollowsCron(j)')
LEMMA JobsKept ==
    ASSUME JobInv, ResultInv', Quiet, RowsStay, \A j \in Jobs : JobStays(j),
           \A r \in RunIds : task'[r].pc \in Executing =>
              \/ task'[r].cron = task[r].cron /\ task'[r].retry = task[r].retry /\ task[r].pc \in Executing
              \/ task'[r].cron = jobs[task[r].job].cron /\ task'[r].retry = jobs[task[r].job].retry
    PROVE  JobInv'
<1>t. /\ \A r \in RunIds : task[r].pc # "none" => task[r].job \in Jobs
      /\ \A r \in RunIds : task'[r].job = task[r].job /\ (task'[r].pc = "none" <=> task[r].pc = "none")
      /\ jobs \in [Jobs -> JobRow] /\ jobs' \in [Jobs -> JobRow]
      /\ task \in [RunIds -> Task]
  BY DEF JobInv, ResultInv, TypeOK, WellFormed, Quiet, ThreadsKept
<1>r. \A j \in Jobs : jobs[j].retry \in Nat /\ jobs'[j].retry \in Nat
  BY <1>t DEF JobRow
<1>1. ASSUME NEW r \in RunIds
      PROVE  (task'[r].pc # "none" => jobs'[task'[r].job].row # "unborn") /\ LoadedAsIs(r)'
  <2>1. task'[r].pc # "none" => jobs'[task'[r].job].row # "unborn"
    BY <1>t DEF JobInv, JobStays
  <2>2. LoadedAsIs(r)'
    <3> SUFFICES ASSUME task'[r].pc \in Executing
                 PROVE  /\ CronsKept => task'[r].cron = jobs'[task[r].job].cron
                        /\ BudgetsFall => jobs'[task[r].job].retry <= task'[r].retry
      BY <1>t DEF LoadedAsIs
    <3> DEFINE k == task[r].job
    <3>1. task[r].pc # "none" /\ k \in Jobs
      BY <1>t DEF Executing
    <3>2. jobs[k].retry \in Nat /\ jobs'[k].retry \in Nat /\ task[r].retry \in Nat
      BY <1>r, <1>t, <3>1 DEF Task
    <3>3. /\ CronsKept => jobs'[k].cron = jobs[k].cron
          /\ BudgetsFall => jobs'[k].retry <= jobs[k].retry
      BY <3>1 DEF JobInv, JobStays
    <3>4. task[r].pc \in Executing => (CronsKept => task[r].cron = jobs[k].cron) /\ (BudgetsFall => jobs[k].retry <= task[r].retry)
      BY DEF JobInv, LoadedAsIs
    <3> QED
      BY <3>2, <3>3, <3>4
  <2> QED
    BY <2>1, <2>2
<1>2. ASSUME NEW r \in RunIds PROVE Counted(r)'
  BY StayingRows DEF JobInv, Counted, Quiet, RowsKept, RowsStay
<1>3. ASSUME NEW j \in Jobs
      PROVE  (BudgetsFall => SpentBudget(j)') /\ (CronsKept /\ Present(j)' => FollowsCron(j)')
  <2>1. CASE /\ BudgetsFall => jobs'[j].retry <= jobs[j].retry
             /\ CronsKept => jobs'[j].cron = jobs[j].cron /\ jobs'[j].next = jobs[j].next
             /\ jobs'[j].status = "dead" => jobs[j].status = "dead"
             /\ Present(j)' => Present(j)
    <3>1. BudgetsFall => SpentBudget(j)'
      BY <1>r, <2>1, StayingRows, HistoryFinite DEF JobInv, SpentBudget
    <3>2. CronsKept /\ Present(j)' => FollowsCron(j)'
      BY <2>1, StayingRows DEF JobInv, FollowsCron
    <3> QED
      BY <3>1, <3>2
  <2> QED
    BY <2>1 DEF JobStays
<1> QED
  BY <1>1, <1>2, <1>3 DEF JobInv

LEMMA ClaimJobs ==
    ASSUME JobInv, ResultInv', NEW S \in SUBSET Fresh, NEW claim \in [S -> Jobs],
           NEW who, Claims(S, claim, who)
    PROVE  JobInv'
<1>t. jobs \in [Jobs -> JobRow] /\ S \subseteq RunIds /\ \A r \in S : runs[r].status = "none"
  BY DEF JobInv, ResultInv, TypeOK, Fresh
<1>1. \A r \in RunIds \ S : task'[r] = task[r] /\ runs'[r] = runs[r]
  BY DEF Claims, Claim, Dispatch
<1>2. ASSUME NEW r \in S
      PROVE  /\ runs'[r].status = "running" /\ runs'[r].job = claim[r]
             /\ runs'[r].attempt = 1 + Cardinality(History(claim[r]))
             /\ task'[r].pc = "claimed" /\ task'[r].job = claim[r] /\ claim[r] \in Jobs
             /\ jobs[claim[r]].row = "present"
  <2>1. /\ runs'[r] = NewRun(claim[r])
        /\ task'[r] = [NoTask EXCEPT !.pc = "claimed", !.by = who, !.job = claim[r]]
    BY <1>t, <1>2 DEF Claims, Claim, Dispatch
  <2>2. jobs[claim[r]].row = "present"
    BY <1>2 DEF Claims, Claimable, Present
  <2> QED
    BY <2>1, <2>2 DEF NewRun, NoTask
<1>3. ASSUME NEW j \in Jobs
      PROVE  /\ jobs'[j].row = jobs[j].row /\ jobs'[j].cron = jobs[j].cron
             /\ jobs'[j].retry = jobs[j].retry /\ jobs'[j].next = jobs[j].next
             /\ jobs'[j].status = "dead" => jobs[j].status = "dead"
  <2>1. jobs'[j] = jobs[j] \/ jobs'[j] = [jobs[j] EXCEPT !.status = "running"]
    BY DEF Claims, Claim
  <2> QED
    BY <1>t, <2>1 DEF JobRow
<1>4. \A j : History(j)' = History(j) \cup {r \in S : claim[r] = j}
  <2> SUFFICES ASSUME NEW j PROVE History(j)' = History(j) \cup {r \in S : claim[r] = j}
    OBVIOUS
  <2>1. \A r \in RunIds \ S : r \in History(j)' <=> r \in History(j)
    BY <1>1 DEF History
  <2>2. \A r \in S : r \in History(j)' <=> claim[r] = j
    BY <1>2, <1>t DEF History, RunStatus
  <2>3. \A r \in S : r \notin History(j)
    BY <1>t DEF History, RunStatus
  <2> QED
    BY <1>t, <2>1, <2>2, <2>3 DEF History
<1>5. ASSUME NEW r \in RunIds
      PROVE  /\ task'[r].pc # "none" => jobs'[task'[r].job].row # "unborn"
             /\ LoadedAsIs(r)' /\ Counted(r)'
  <2>1. CASE r \in S
    <3>1. LoadedAsIs(r)' /\ (task'[r].pc # "none" => jobs'[task'[r].job].row # "unborn")
      BY <1>2, <1>3, <2>1 DEF LoadedAsIs, Executing
    <3>2. Counted(r)'
      <4> DEFINE j == claim[r]
      <4>1. r \in History(j)' \ History(j) /\ History(j) \subseteq History(j)'
        BY <1>4, <1>t, <2>1 DEF History, RunStatus
      <4>2. IsFiniteSet(History(j)')
        <5>1. IsFiniteSet(1..MaxRuns) /\ History(j)' \subseteq 1..MaxRuns
          BY FS_Interval, StoreAssumption DEF History, RunIds
        <5> QED
          BY <5>1, FS_Subset
      <4>3. /\ Cardinality(History(j) \cup {r}) = Cardinality(History(j)) + 1
            /\ Cardinality(History(j) \cup {r}) <= Cardinality(History(j)')
            /\ Cardinality(History(j)) \in Nat
        <5>1. IsFiniteSet(History(j)) /\ Cardinality(History(j)) \in Nat
          BY HistoryFinite
        <5>2. Cardinality(History(j) \cup {r}) = Cardinality(History(j)) + 1
          BY <4>1, <5>1, FS_AddElement
        <5>3. History(j) \cup {r} \subseteq History(j)'
          BY <4>1
        <5> QED
          BY <4>2, <5>1, <5>2, <5>3, FS_Subset
      <4> QED
        BY <1>2, <2>1, <4>3 DEF Counted
    <3> QED
      BY <3>1, <3>2
  <2>2. CASE r \notin S
    <3>1. task[r].pc # "none" => task[r].job \in Jobs
      BY DEF JobInv, ResultInv, TypeOK, WellFormed
    <3>2. task'[r] = task[r] /\ runs'[r] = runs[r]
      BY <1>1, <2>2
    <3>3. LoadedAsIs(r)' /\ (task'[r].pc # "none" => jobs'[task'[r].job].row # "unborn")
      BY <1>3, <3>1, <3>2 DEF JobInv, LoadedAsIs, Executing
    <3>4. Counted(r)'
      <4>1. PICK j : j = runs[r].job
        OBVIOUS
      <4>2. History(j) \subseteq History(j)'
        BY <1>4
      <4>3. runs[r].status \in RunStatus => runs[r].attempt \in Nat /\ runs[r].attempt <= Cardinality(History(j))
        BY <4>1 DEF JobInv, Counted, ResultInv, TypeOK, RunRow
      <4>4. Cardinality(History(j)) <= Cardinality(History(j)') /\ Cardinality(History(j)') \in Nat
        BY <4>2, HistoryGrows
      <4>5. Counted(r)' <=> (runs[r].status \in RunStatus => runs[r].attempt <= Cardinality(History(j)'))
        BY <3>2, <4>1 DEF Counted
      <4> QED
        BY <4>3, <4>4, <4>5, HistoryFinite
    <3> QED
      BY <3>3, <3>4
  <2> QED
    BY <2>1, <2>2
<1>6. ASSUME NEW j \in Jobs
      PROVE  (BudgetsFall => SpentBudget(j)') /\ (CronsKept /\ Present(j)' => FollowsCron(j)')
  <2>1. BudgetsFall => SpentBudget(j)'
    <3>1. History(j) \subseteq History(j)' /\ jobs[j].retry \in Nat
      BY <1>4, <1>t DEF JobRow
    <3>2. /\ Cardinality(History(j)) <= Cardinality(History(j)')
          /\ Cardinality(History(j)) \in Nat /\ Cardinality(History(j)') \in Nat
      BY <3>1, HistoryGrows, HistoryFinite
    <3> QED
      BY <1>3, <3>1, <3>2 DEF JobInv, SpentBudget
  <2>2. CronsKept /\ Present(j)' => FollowsCron(j)'
    <3>1. ASSUME NEW r \in History(j), runs[r].status = "failed", ~Live(r)
          PROVE  r \in History(j)' /\ runs'[r].status = "failed" /\ ~Live(r)'
      <4>1. r \in RunIds \ S
        BY <1>t, <3>1 DEF History
      <4> QED
        BY <1>1, <1>4, <3>1, <4>1 DEF Live
    <3> QED
      BY <1>3, <3>1 DEF JobInv, FollowsCron, Present
  <2> QED
    BY <2>1, <2>2
<1> QED
  BY <1>5, <1>6 DEF JobInv

\* A success puts the job back on its cron; a failure leaves a failed run behind
\* and makes the job dead only if that run was one too many.
LEMMA FinishJobs ==
    ASSUME JobInv, ResultInv', NEW r \in RunIds, Finish(r)
    PROVE  JobInv'
<1>k. PICK k : k = task[r].job
  OBVIOUS
<1>t. /\ task[r] \in Task /\ WellFormed(task[r]) /\ task \in [RunIds -> Task]
      /\ runs \in [RunIds -> RunRow] /\ runs[r] \in RunRow /\ jobs \in [Jobs -> JobRow] /\ now \in Nat
  BY DEF JobInv, ResultInv, TypeOK
<1>1. /\ task[r].pc = "finish" /\ k = task[r].job /\ k \in Jobs /\ task[r].cron \in Nat \ {0} /\ task[r].retry \in Nat
      /\ runs[r].attempt \in Nat /\ runs[r].status # "none"
      /\ runs[r].status \in RunStatus => runs[r].job = k
  BY <1>k, <1>t, StoreAssumption DEF Finish, WellFormed, Task, RunRow, JobInv, ResultInv, ThreadIsTrue
<1>2. /\ CronsKept => task[r].cron = jobs[k].cron
      /\ BudgetsFall => jobs[k].retry <= task[r].retry
      /\ jobs[k].row # "unborn" /\ jobs[k].retry \in Nat
  BY <1>1, <1>t DEF JobInv, LoadedAsIs, Executing, JobRow
<1>3. \A s \in RunIds : task'[s].pc \in Executing => s # r /\ task'[s] = task[s]
  <2>1. task'[r].pc \notin Executing
    <3>1. [task[r] EXCEPT !.pc = "notify"].pc = "notify"
      BY <1>t DEF Task
    <3> QED
      BY <1>t, <3>1, EndedKnowsNothing DEF Finish, Executing
  <2>2. \A s \in RunIds : s # r => task'[s] = task[s]
    BY <1>t DEF Finish
  <2> QED
    BY <2>1, <2>2
<1>q. Quiet
  BY RunJobQuiet DEF RunJob, JobInv, ResultInv
<1>4. CASE UNCHANGED storeVars
  <2>1. RowsStay
    BY <1>4 DEF RowsStay, storeVars
  <2>2. \A j \in Jobs : jobs'[j] = jobs[j] /\ jobs[j].retry \in Nat
    BY <1>4, <1>t DEF storeVars, JobRow
  <2> QED
    BY <1>3, <1>q, <2>1, <2>2, JobsKept DEF Present, JobStays
<1>5. CASE runs[r].status \in RunStatus \ {"cancelled"}
  <2> DEFINE Books(t, n) == jobs' = IF Present(k) THEN [jobs EXCEPT ![k] = [@ EXCEPT !.status = t, !.next = n]]
                                   ELSE jobs
  <2>1. \/ /\ task[r].out # "failed"
           /\ runs' = [runs EXCEPT ![r] = [runs[r] EXCEPT !.status = "completed",
                          !.hash = task[r].hash, !.skipped = (task[r].out = "skipped")]]
           /\ Books("idle", NextRun(task[r].cron, now))
        \/ /\ runs' = [runs EXCEPT ![r] = [runs[r] EXCEPT !.status = "failed",
                          !.hash = None, !.skipped = FALSE]]
           /\ Books(IF runs[r].attempt <= task[r].retry THEN "idle" ELSE "dead", now + RetryBackoff)
    BY <1>1, <1>5 DEF Finish, FinishSuccess, FinishFailure, FinishRun
  <2>2. /\ \A s \in RunIds : s # r => runs'[s] = runs[s]
        /\ runs'[r].job = k /\ runs'[r].attempt = runs[r].attempt
        /\ runs'[r].status \in {"completed", "failed"}
        /\ \/ runs'[r].status = "completed" /\ Books("idle", NextRun(task[r].cron, now))
           \/ runs'[r].status = "failed"
              /\ Books(IF runs[r].attempt <= task[r].retry THEN "idle" ELSE "dead", now + RetryBackoff)
    <3>1. /\ [runs[r] EXCEPT !.status = "completed", !.hash = task[r].hash, !.skipped = (task[r].out = "skipped")].job = runs[r].job
          /\ [runs[r] EXCEPT !.status = "completed", !.hash = task[r].hash, !.skipped = (task[r].out = "skipped")].attempt = runs[r].attempt
          /\ [runs[r] EXCEPT !.status = "completed", !.hash = task[r].hash, !.skipped = (task[r].out = "skipped")].status = "completed"
          /\ [runs[r] EXCEPT !.status = "failed", !.hash = None, !.skipped = FALSE].job = runs[r].job
          /\ [runs[r] EXCEPT !.status = "failed", !.hash = None, !.skipped = FALSE].attempt = runs[r].attempt
          /\ [runs[r] EXCEPT !.status = "failed", !.hash = None, !.skipped = FALSE].status = "failed"
      BY <1>t DEF RunRow
    <3> HIDE DEF Books
    <3> QED
      BY <1>1, <1>5, <1>t, <2>1, <3>1
  <2>3. RowsStay
    BY <1>1, <1>5, <2>2 DEF RowsStay, RunStatus, Live, Executing
  <2>4. /\ \A j : History(j)' = History(j)
        /\ r \in History(k) /\ r \in History(k)'
    <3>1. \A j : History(j)' = History(j)
      BY <1>q, <2>3, StayingRows
    <3> QED
      BY <1>1, <1>5, <3>1 DEF History
  <2>5. \A j \in Jobs : j # k => jobs'[j] = jobs[j]
    BY <1>1, <1>t, <2>2
  <2>6. /\ jobs'[k].row = jobs[k].row /\ jobs'[k].cron = jobs[k].cron /\ jobs'[k].retry = jobs[k].retry
        /\ \/ jobs'[k] = jobs[k]
           \/ /\ runs'[r].status = "completed" /\ jobs'[k].status = "idle"
              /\ jobs'[k].next = NextRun(task[r].cron, now)
           \/ /\ runs'[r].status = "failed"
              /\ jobs'[k].status = "dead" => ~(runs[r].attempt <= task[r].retry)
    <3>1. jobs[k] \in JobRow
      BY <1>1, <1>t
    <3>2. ASSUME NEW t, NEW n, Books(t, n)
          PROVE  /\ jobs'[k].row = jobs[k].row /\ jobs'[k].cron = jobs[k].cron /\ jobs'[k].retry = jobs[k].retry
                 /\ \/ jobs'[k] = jobs[k]
                    \/ jobs'[k].status = t /\ jobs'[k].next = n
      BY <1>1, <1>t, <3>1, <3>2 DEF JobRow
    <3> HIDE DEF Books
    <3> QED
      BY <2>2, <3>2
  <2>7. BudgetsFall => jobs'[k] = jobs[k] \/ SpentBudget(k)'
    <3>1. runs[r].attempt <= Cardinality(History(k))
      BY <1>1, <1>5 DEF JobInv, Counted
    <3> QED
      BY <1>1, <1>2, <2>4, <2>6, <3>1, HistoryFinite DEF SpentBudget
  <2>8. CronsKept => jobs'[k] = jobs[k] \/ FollowsCron(k)'
    <3>1. NextRun(task[r].cron, now) % task[r].cron = 0
      BY <1>1, <1>t, FiringOnCron
    <3>2. ~Live(r)'
      BY <1>3 DEF Live, Finish, Ended
    <3> QED
      BY <1>2, <2>4, <2>6, <3>1, <3>2 DEF FollowsCron
  <2>9. \A j \in Jobs : jobs[j].retry \in Nat
    BY <1>t DEF JobRow
  <2>10. ASSUME NEW j \in Jobs PROVE JobStays(j)
    <3>1. CASE jobs'[j] = jobs[j]
      BY <2>9, <3>1 DEF Present, JobStays
    <3>2. CASE jobs'[j] # jobs[j]
      <4>1. j = k
        BY <2>5, <3>2
      <4> QED
        BY <2>6, <2>7, <2>8, <2>9, <3>2, <4>1 DEF JobStays
    <3> QED
      BY <3>1, <3>2
  <2> QED
    BY <1>3, <1>q, <2>3, <2>10, JobsKept
<1> QED
  BY <1>1, <1>4, <1>5 DEF Finish, FinishSuccess, FinishFailure, FinishRun

LEMMA SameJobs ==
    ASSUME JobInv, jobs' = jobs PROVE \A j \in Jobs : JobStays(j)
<1>1. \A j \in Jobs : jobs[j].retry \in Nat
  BY DEF JobInv, ResultInv, TypeOK, JobRow
<1> QED
  BY <1>1 DEF JobStays, Present

LEMMA RunJobJobs ==
    ASSUME JobInv, ResultInv', NEW r \in RunIds, RunJob(r)
    PROVE  JobInv'
<1>t. /\ task \in [RunIds -> Task] /\ task[r] \in Task /\ runs \in [RunIds -> RunRow]
  BY DEF JobInv, ResultInv, TypeOK
<1>q. Quiet
  BY RunJobQuiet DEF JobInv, ResultInv
<1>1. CASE Finish(r)
  BY <1>1, FinishJobs
<1>2. CASE Mark(r)
  <2>1. RowsStay
    BY <1>2, <1>t DEF Mark, SaveWebhookAt, RowsStay, RunRow
  <2>2. task'[r].pc = "done" /\ \A s \in RunIds : s # r => task'[s] = task[s]
    BY <1>2, <1>t, EndedKnowsNothing DEF Mark
  <2>3. jobs' = jobs
    BY <1>2 DEF Mark, SaveWebhookAt
  <2>4. \A s \in RunIds : task'[s].pc \in Executing => task'[s] = task[s]
    BY <2>2 DEF Executing
  <2> QED
    BY <1>q, <2>1, <2>3, <2>4, SameJobs, JobsKept
<1>3. CASE \/ LoadJob(r) \/ ReadPrevious(r) \/ Compare(r)
           \/ ScanRead(r) \/ ScanDigest(r) \/ ScanFails(r) \/ Notify(r)
  <2>1. jobs' = jobs /\ runs' = runs
    BY <1>3 DEF LoadJob, ReadPrevious, Compare, ScanRead, ScanDigest, ScanFails, Notify, Go
  <2>2. \A s \in RunIds : s # r => task'[s] = task[s]
    BY <1>3, <1>t DEF LoadJob, ReadPrevious, Compare, ScanRead, ScanDigest, ScanFails, Notify, Go
  <2>3. task'[r].pc \in Executing =>
          \/ task'[r].cron = task[r].cron /\ task'[r].retry = task[r].retry /\ task[r].pc \in Executing
          \/ task'[r].cron = jobs[task[r].job].cron /\ task'[r].retry = jobs[task[r].job].retry
    <3>1. CASE LoadJob(r)
      <4> DEFINE row == jobs[task[r].job]
                 u == [task[r] EXCEPT !.pc = "previous", !.cron = row.cron,
                                      !.retry = row.retry, !.hook = row.hook]
      <4>1. task'[r] = u \/ task'[r] = Ended(r, "done")
        BY <1>t, <3>1 DEF LoadJob, Go
      <4>2. u.cron = row.cron /\ u.retry = row.retry
        BY <1>t DEF Task
      <4>3. Ended(r, "done").pc = "done"
        BY EndedKnowsNothing
      <4> HIDE DEF u
      <4> QED
        BY <4>1, <4>2, <4>3 DEF Executing
    <3>2. CASE ReadPrevious(r)
      <4>1. PICK h : task' = [task EXCEPT ![r] = [task[r] EXCEPT !.pc = "compare", !.prev = h]]
        BY <3>2 DEF ReadPrevious, Go
      <4> QED
        BY <1>t, <3>2, <4>1 DEF Task, ReadPrevious, Executing
    <3>3. CASE Compare(r)
      BY <1>t, <3>3 DEF Compare, Go, Task, Executing
    <3>4. CASE ScanRead(r) \/ ScanDigest(r) \/ ScanFails(r)
      <4>1. CASE ScanRead(r)
        BY <1>t, <4>1 DEF ScanRead, Go, Task, Executing
      <4>2. CASE ScanDigest(r)
        BY <1>t, <4>2 DEF ScanDigest, Task, Executing
      <4>3. CASE ScanFails(r)
        BY <1>t, <4>3 DEF ScanFails, Go, Task, Executing
      <4> QED
        BY <3>4, <4>1, <4>2, <4>3
    <3>5. CASE Notify(r)
      BY <1>t, <3>5 DEF Notify, Task, Executing
    <3> QED
      BY <1>3, <3>1, <3>2, <3>3, <3>4, <3>5
  <2>4. \A s \in RunIds : task'[s].pc \in Executing =>
          \/ task'[s].cron = task[s].cron /\ task'[s].retry = task[s].retry /\ task[s].pc \in Executing
          \/ task'[s].cron = jobs[task[s].job].cron /\ task'[s].retry = jobs[task[s].job].retry
    BY <2>2, <2>3
  <2>5. RowsStay
    BY <2>1 DEF RowsStay
  <2> QED
    BY <1>q, <2>1, <2>4, <2>5, SameJobs, JobsKept
<1> QED
  BY <1>1, <1>2, <1>3 DEF RunJob

\* What the commands write into a job a claim has read, or into a new one.
LEMMA CommandJobs ==
    ASSUME JobInv, ResultInv', \E j \in Jobs : Create(j) \/ Update(j) \/ Delete(j) \/ Cancel(j)
    PROVE  JobInv'
<1>t. /\ runs \in [RunIds -> RunRow] /\ jobs \in [Jobs -> JobRow] /\ now \in Nat
      /\ \A j \in Jobs : jobs[j].retry \in Nat /\ jobs[j] \in JobRow
  BY DEF JobInv, ResultInv, TypeOK, JobRow
<1>n. None \notin Nat
  BY StoreAssumption
<1>1. task' = task /\ Quiet
  BY CommandQuiet DEF Create, Update, Delete, Cancel, Others, JobInv, ResultInv
<1>2. RowsStay
  <2>1. \A r \in RunIds : runs[r].status \in RunStatus => runs'[r] = runs[r] \/
            (runs[r].status = "running" /\ runs'[r].status = "cancelled"
               /\ runs'[r].job = runs[r].job /\ runs'[r].attempt = runs[r].attempt)
    <3>1. CASE \E j \in Jobs : Create(j) \/ Update(j) \/ Delete(j)
      BY <3>1 DEF Create, CreateJob, Update, UpdateJob, Delete, DeleteJob
    <3>2. CASE \E j \in Jobs : Cancel(j)
      <4>1. PICK j \in Jobs, q \in RunIds : CancelRun(j, q)
        BY <3>2 DEF Cancel
      <4>2. runs' = [runs EXCEPT ![q].status = "cancelled"] /\ runs[q].status = "running"
        BY <4>1 DEF CancelRun, RunningRuns
      <4> QED
        BY <1>t, <4>2 DEF RunRow
    <3> QED
      BY <3>1, <3>2
  <2> QED
    BY <2>1 DEF RowsStay, RunStatus
<1>3. ASSUME NEW j \in Jobs, NEW k \in Jobs,
             Create(k) \/ Update(k) \/ Delete(k) \/ Cancel(k)
      PROVE  JobStays(j)
  <2>1. CASE jobs'[j] = jobs[j]
    BY <1>t, <2>1 DEF JobStays, Present
  <2>2. CASE Create(k) /\ jobs'[j] # jobs[j]
    <3>1. PICK s \in Specs : CreateJob(k, s.cron, s.retry, s.hook)
      BY <2>2 DEF Create
    <3>2. /\ j = k /\ jobs[j].row = "unborn"
          /\ jobs'[j] = [row |-> "present", enabled |-> TRUE, cron |-> s.cron, retry |-> s.retry,
                         hook |-> s.hook, status |-> "idle", next |-> NextRun(s.cron, now)]
      BY <1>t, <2>2, <3>1 DEF CreateJob
    <3>3. NextRun(s.cron, now) % s.cron = 0
      BY <1>t, FiringOnCron, SchedulerAssumption, StoreAssumption
    <3> QED
      BY <3>2, <3>3 DEF JobStays, SpentBudget, FollowsCron
  <2>3. CASE Update(k) /\ jobs'[j] # jobs[j]
    <3>1. PICK e \in Edits : UpdateJob(k, e)
      BY <2>3 DEF Update
    <3> DEFINE row == jobs[j]
               new == [row EXCEPT
                  !.enabled = Given(e.enabled, row.enabled),
                  !.cron    = Given(e.cron, row.cron),
                  !.retry   = Given(e.retry, row.retry),
                  !.hook    = Given(e.hook, row.hook),
                  !.next    = IF e.cron = None THEN row.next ELSE NextRun(e.cron, now),
                  !.status  = IF e.enabled = TRUE THEN "idle" ELSE row.status]
    <3>2. j = k /\ Present(j) /\ jobs'[j] = new
      BY <1>t, <2>3, <3>1 DEF UpdateJob
    <3>3. /\ new.row = row.row /\ new.cron = Given(e.cron, row.cron) /\ new.retry = Given(e.retry, row.retry)
          /\ new.next = (IF e.cron = None THEN row.next ELSE NextRun(e.cron, now))
          /\ new.status = (IF e.enabled = TRUE THEN "idle" ELSE row.status)
      BY <1>t DEF JobRow
    <3> HIDE DEF new
    <3>4. CronsKept => jobs'[j].cron = jobs[j].cron /\ jobs'[j].next = jobs[j].next
      BY <3>2, <3>3 DEF CronsKept, Given
    <3>5. BudgetsFall => jobs'[j].retry <= jobs[j].retry
      <4>1. BudgetsFall => e.retry = None \/ e.retry = 0
        BY DEF BudgetsFall
      <4>2. 0 # None
        BY <1>n
      <4> QED
        BY <1>t, <3>2, <3>3, <4>1, <4>2 DEF Given
    <3>6. jobs'[j].status = "dead" => jobs[j].status = "dead"
      BY <3>2, <3>3
    <3> QED
      BY <3>2, <3>3, <3>4, <3>5, <3>6 DEF JobStays, Present
  <2>4. CASE Delete(k) /\ jobs'[j] # jobs[j]
    <3>1. jobs'[j] = [jobs[j] EXCEPT !.row = "deleted", !.status = "idle"]
      BY <1>t, <2>4 DEF Delete, DeleteJob
    <3> QED
      BY <1>t, <3>1 DEF JobStays, Present, JobRow
  <2>5. CASE Cancel(k) /\ jobs'[j] # jobs[j]
    <3>1. jobs'[j] = [jobs[j] EXCEPT !.status = "idle"]
      BY <1>t, <2>5 DEF Cancel, CancelRun
    <3> QED
      BY <1>t, <3>1 DEF JobStays, Present, JobRow
  <2> QED
    BY <1>3, <2>1, <2>2, <2>3, <2>4, <2>5
<1> QED
  BY <1>1, <1>2, <1>3, JobsKept

LEMMA NextJob ==
    ASSUME Kept, JobInv, [Next]_vars
    PROVE  JobInv'
<1>t. TypeOK /\ ResultInv' /\ task \in [RunIds -> Task] /\ runs \in [RunIds -> RunRow] /\ jobs \in [Jobs -> JobRow]
  BY NextResult DEF JobInv, ResultInv, TypeOK
<1>1. CASE Tick
  BY <1>1, <1>t, TickClaims, ClaimJobs
<1>2. ASSUME NEW j \in Jobs, NEW who \in {"api", "cli"}, Trigger(j, who) PROVE JobInv'
  BY <1>2, <1>t, TriggerClaims, ClaimJobs
<1>3. ASSUME NEW r \in RunIds, RunJob(r) PROVE JobInv'
  BY <1>3, <1>t, RunJobJobs
<1>4. CASE \E j \in Jobs : Create(j) \/ Update(j) \/ Delete(j) \/ Cancel(j)
  BY <1>4, <1>t, CommandJobs
<1>5. CASE Restart
  <2>1. task' = task /\ Quiet
    BY <1>5, <1>t, EnvironmentQuiet DEF Restart
  <2>2. \A r \in RunIds : /\ runs'[r].job = runs[r].job /\ runs'[r].attempt = runs[r].attempt
                          /\ \/ runs'[r].status = runs[r].status
                             \/ runs[r].status = "running" /\ runs'[r].status = "failed"
    BY <1>5, <1>t DEF Restart, RecoverInterrupted, RunRow
  <2>3. RowsStay
    BY <2>2 DEF RowsStay, RunStatus
  <2>4. ASSUME NEW j \in Jobs PROVE JobStays(j)
    <3>1. jobs'[j] = jobs[j] \/ jobs'[j] = [jobs[j] EXCEPT !.status = "idle"]
      BY <1>5 DEF Restart, RecoverInterrupted
    <3> QED
      BY <1>t, <3>1 DEF JobStays, Present, JobRow
  <2> QED
    BY <1>t, <2>1, <2>3, <2>4, JobsKept
<1>6. CASE Crash \/ \E r \in RunIds : StoreBusy(r) \/ CliCrash(r)
  <2>1. jobs' = jobs /\ runs' = runs
    BY <1>6 DEF Crash, StoreBusy, CliCrash, Go
  <2>2. ASSUME NEW s \in RunIds, task'[s].pc \in Executing PROVE task'[s] = task[s]
    BY <1>6, <1>t, <2>2, FailureThreads, EndedKnowsNothing DEF Executing
  <2>3. Quiet
    BY <1>6, <1>t, EnvironmentQuiet
  <2>4. RowsStay
    BY <2>1 DEF RowsStay
  <2> QED
    BY <1>t, <2>1, <2>2, <2>3, <2>4, SameJobs, JobsKept
<1>7. CASE AdvanceClock \/ (\E j \in Jobs : EditFile(j)) \/ UNCHANGED vars
  <2>1. jobs' = jobs /\ runs' = runs /\ task' = task
    BY <1>7 DEF AdvanceClock, EditFile, vars
  <2>2. RowsStay
    BY <2>1 DEF RowsStay
  <2> QED
    BY <1>t, <2>1, <2>2, UnchangedQuiet, SameJobs, JobsKept
<1>8. ~Prune
  BY DEF Kept, Prune
<1> QED
  BY <1>1, <1>2, <1>3, <1>4, <1>5, <1>6, <1>7, <1>8 DEF Next

\* core.py:6: where the history is kept and a budget is not raised under a dead
\* job, a job goes dead only once it has used more runs than the budget of its
\* row, also when the budget changes between the loading of the row and the
\* result, and whoever else runs the job.
THEOREM DeadJobsSpentTheirBudget ==
    ASSUME Kept, BudgetsFall PROVE Spec => []DeadOnlyAfterBudget
<1>1. JobInv => DeadOnlyAfterBudget
  BY DEF JobInv, SpentBudget, DeadOnlyAfterBudget
<1>2. JobInv /\ [Next]_vars => JobInv'
  BY NextJob
<1> QED
  BY <1>1, <1>2, InitJob, PTL DEF Spec

\* next_run: where the history and the crons are kept, an idle job that is not
\* waiting for a retry is due at one of the firings of its own cron, after every
\* interleaving of runs, cancels, recoveries and edits.
THEOREM SchedulesFollowCron ==
    ASSUME Kept, CronsKept PROVE Spec => []ScheduleFollowsCron
<1>1. JobInv => ScheduleFollowsCron
  BY DEF JobInv, FollowsCron, ScheduleFollowsCron
<1>2. JobInv /\ [Next]_vars => JobInv'
  BY NextJob
<1> QED
  BY <1>1, <1>2, InitJob, PTL DEF Spec
=============================================================================
