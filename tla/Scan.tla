-------------------------------- MODULE Scan --------------------------------
(***************************************************************************)
(* DataSentry.scan_file and the commands around it: one process scans its  *)
(* paths one after the other while the files may change under it.          *)
(*                                                                         *)
(* A scan reads its file many times: the view (columns), count_rows, twice *)
(* per detector (_run_detector, then detect again for the candidates), the *)
(* contract rules, the fingerprint and the profile. Each read is a step.   *)
(* save_scan is one transaction; the profile sidecar is written after it.  *)
(* A contract's rules are read in one step, and so are the row count and   *)
(* the digest of the fingerprint. Local CSV files only.                    *)
(***************************************************************************)
EXTENDS Scoring

CONSTANTS
    Paths,         \* the data files
    Versions,      \* what a file may hold, and Gone when it is not there
    Gone,
    Tables,        \* version |-> table
    InitialFiles,  \* the files' contents when the first command starts
    Later,         \* what a file may be changed to
    Commands,      \* the scan commands, see Begin
    Sample(_),     \* the rows the reservoir draws of a table (external: DuckDB)
    Repaired,      \* the workspace holds an applied repair
    MaxCommands, MaxChanges     \* bounds of the model

VARIABLES
    file,      \* path |-> version or Gone
    proc,      \* the running command, or Idle
    scans,     \* table scan_runs with the issues and profile sidecar of each, oldest first
    answers,   \* the commands that ended, with their exit
    changes    \* edits, transient faults and crashes so far
vars == <<file, proc, scans, answers, changes>>

Idle == [paths |-> <<>>]
NoScan == [stage |-> "none"]
NoSample == "not drawn"
NoProfile == <<>>
NoGate == [fail_on |-> {}, ratio |-> 0, limits |-> <<>>, repair |-> FALSE]   \* blocks nothing
(* results of a path besides the number of its scan *)
Missing == 0
Broken == -1

(* A command names some paths and detectors of the registry; the name of a contract *)
(* rule is none of theirs, "rule:" with the rule's id. Tables are tables.           *)
ASSUME ScanAssumption ==
    /\ MaxCommands \in Nat /\ MaxChanges \in Nat
    /\ Gone \notin Versions /\ Later \subseteq Versions \cup {Gone}
    /\ InitialFiles \subseteq [Paths -> Versions \cup {Gone}]
    /\ \A c \in Commands : /\ c.paths \in Seq(Paths) \ {<<>>}
                           /\ c.detectors \subseteq Members(Registry)
                           /\ c.references \in Seq(Members(c.references))
                           /\ IsFiniteSet(c.rules)
                           /\ \A r \in c.rules : /\ r.id \notin Members(Registry)
                                                 /\ r.severity \in Members(Severities)
ASSUME TablesAssumption ==
    \A v \in Versions : \A t \in {Tables[v], Sample(Tables[v])} :
        Rectangular(t) /\ \A c \in Measured(t) : Isolated(BagTotal(Weight(t, c))) \in Int

command == proc.command
scan == proc.scan
path == Head(proc.paths)
now == file[path]

----------------------------------------------------------------------------
(* Contract rules: a row breaks a rule when the negated condition is true of *)
(* its cell, so a null cell breaks the null operators only.                  *)
Operators == {"equals", "not_equals", "gt", "gte", "lt", "lte", "not_null", "is_null", "matches",
              "between", "not_between", "in", "not_in"}
Breaks(rule, v) ==
    LET x == rule.value
    IN  IF rule.operator = "not_null" THEN v = Null
        ELSE IF rule.operator = "is_null" THEN v # Null
        ELSE /\ v # Null
             /\ CASE rule.operator = "equals" -> v # x
                  [] rule.operator = "not_equals" -> v = x
                  [] rule.operator = "gt" -> v.value <= x.value
                  [] rule.operator = "gte" -> v.value < x.value
                  [] rule.operator = "lt" -> v.value >= x.value
                  [] rule.operator = "lte" -> v.value > x.value
                  [] rule.operator = "matches" -> ~Matches(v, x)
                  [] rule.operator = "between" -> v.value < x[1].value \/ v.value > x[2].value
                  [] rule.operator = "not_between" -> v.value >= x[1].value /\ v.value <= x[2].value
                  [] rule.operator = "in" -> v \notin Members(x)
                  [] rule.operator = "not_in" -> v \in Members(x)
WellFormed(rule) ==
    /\ rule.operator \in Operators
    /\ rule.operator \in {"in", "not_in"} => rule.value # <<>>
    /\ rule.operator \in {"between", "not_between"} => Len(rule.value) = 2
ValidRule(rule, t) == rule.column \in ColumnsOf(t) /\ WellFormed(rule)
Failures(rule, t) == Counted(t, LAMBDA r : Breaks(rule, r[rule.column]))
RuleFindings(rules, t) ==
    {Finding(r.id, <<r.column>>, Failures(r, t), r.severity, 95) :
        r \in {s \in rules : ValidRule(s, t) /\ Failures(s, t) > 0}}

----------------------------------------------------------------------------
(* What detectors report of each version, over the whole table or a sample. *)
Sampling == {"fuzzy_duplicate", "model_outlier"}
ForeignKey == "foreign_key_violation"
Reported == [v \in Versions |-> [d \in Members(Registry) \ {ForeignKey} |-> Detect(d, Tables[v])]]
SampleReported == [v \in Versions |-> [d \in Sampling |-> Detect(d, Sample(Tables[v]))]]

Selected(c) == Those(Registry, LAMBDA d : d \in c.detectors)
OnSample(d) == command.sampled /\ d \in Sampling
ForeignKeys(v) == ForeignKeyViolation(Tables[v], "csv", command.references)
Active(d) == IF d = ForeignKey THEN command.references # <<>> ELSE Supports(d, Tables[scan.opened])

(* The view keeps the columns it was created with: other columns make its queries fail. *)
Readable == now # Gone /\ Tables[now].cols = Tables[scan.opened].cols
(* the version a detector reads: a sample is drawn once and kept in a table *)
Source(d) == IF OnSample(d) /\ scan.sample # NoSample THEN scan.sample ELSE now
Answers(d) ==
    /\ (OnSample(d) /\ scan.sample # NoSample) \/ Readable
    /\ d = ForeignKey => ~ForeignKeys(now).raised
Findings(d) ==
    CASE d = ForeignKey -> ForeignKeys(now).found
      [] OnSample(d) -> SampleReported[Source(d)][d]
      [] OTHER -> Reported[now][d]

----------------------------------------------------------------------------
(* The end of a path and of a command *)
GateFails(n) == ~evaluate(scans'[n].issues, command.gate, Repaired)
Failed(n) == scans'[n].status = "failed"
ExitMany_FailedIsFine(results) ==
    LET scanned == {n \in Members(results) : n > 0}
    IN  IF scanned = {} THEN "source"
        ELSE IF \E n \in scanned : GateFails(n) THEN "gate failed"
        ELSE IF Members(results) \cap {Missing, Broken} # {} THEN "source" ELSE "ok"
ExitMany(results) ==
    LET scanned == {n \in Members(results) : n > 0}
    IN  IF scanned = {} THEN "source"
        ELSE IF \E n \in scanned : GateFails(n) THEN "gate failed"
        ELSE IF Members(results) # {n \in scanned : ~Failed(n)} THEN "source" ELSE "ok"
ExitOne(n) ==
    IF n = Missing THEN "source"
    ELSE IF n = Broken \/ Failed(n) THEN "error"
    ELSE IF GateFails(n) THEN "gate failed" ELSE "ok"
ExitUi(results) == IF \E n \in Members(results) : n > 0 THEN "redirect" ELSE "not found"
ExitApi(n) == IF n > 0 THEN "created" ELSE "error"
Exit(results) ==
    CASE command.face = "cli" -> IF Len(command.paths) = 1 THEN ExitOne(results[1])
                                 ELSE IF Last(results) = Broken THEN "error" ELSE ExitMany(results)
      [] command.face = "ui" -> ExitUi(results)
      [] OTHER -> ExitApi(results[1])

(* An unexpected exception ends the CLI; the UI notes it and goes on. *)
EndPath_SamePath(result, cached) ==
    LET results == Append(proc.results, result)
        over    == Len(proc.paths) = 1 \/ (result = Broken /\ command.face = "cli")
    IN  IF over
        THEN /\ answers' = Append(answers, [command |-> command, results |-> results,
                                            exit |-> Exit(results), cached |-> cached, now |-> now])
             /\ proc' = Idle
        ELSE /\ proc' = [proc EXCEPT !.results = results, !.scan = NoScan]
             /\ UNCHANGED answers
EndPath(result, cached) ==
    LET results == Append(proc.results, result)
        over    == Len(proc.paths) = 1 \/ (result = Broken /\ command.face = "cli")
    IN  IF over
        THEN /\ answers' = Append(answers, [command |-> command, results |-> results,
                                            exit |-> Exit(results), cached |-> cached, now |-> now])
             /\ proc' = Idle
        ELSE /\ proc' = [proc EXCEPT !.paths = Tail(@), !.results = results, !.scan = NoScan]
             /\ UNCHANGED answers
Abort == UNCHANGED <<file, scans>> /\ EndPath(Broken, FALSE)

----------------------------------------------------------------------------
(* A command: the face it comes through, its paths and the scan configuration. *)
Begin(c) ==
    /\ proc = Idle /\ Len(answers) < MaxCommands
    /\ proc' = [command |-> c, paths |-> c.paths, results |-> <<>>, scan |-> NoScan]
    /\ UNCHANGED <<file, scans, answers, changes>>

(* The last completed scan of the path that has a digest of the whole file. *)
Baselines_AnyStatus == {n \in DOMAIN scans : scans[n].path = path /\ scans[n].digest # Gone}
Baselines == {n \in DOMAIN scans : /\ scans[n].path = path
                                   /\ scans[n].status = "completed"
                                   /\ scans[n].digest # Gone}
IncrementalCached ==
    command.incremental /\ Baselines # {} /\ scans[Max(Baselines)].digest = now

(* Where the scan goes once its detectors are done. *)
After(s) ==
    IF s.detectors # <<>> THEN [s EXCEPT !.stage = "first"]
    ELSE [s EXCEPT !.stage = IF command.rules = {} THEN "save" ELSE "rules"]
OpenSource ==
    /\ proc # Idle /\ scan = NoScan
    /\ UNCHANGED <<file, scans, changes>>
    /\ \/ /\ now = Gone
          /\ EndPath(Missing, FALSE)
       \/ /\ now # Gone /\ IncrementalCached
          /\ EndPath(Max(Baselines), TRUE)
       \/ /\ now # Gone /\ ~IncrementalCached
          /\ proc' = [proc EXCEPT !.scan =
                [stage |-> "count", opened |-> now, full |-> 0, sample |-> NoSample,
                 detectors |-> Selected(command), completed |-> {}, failed |-> {},
                 candidates |-> {}, looked |-> {now}, since |-> changes]]
          /\ UNCHANGED answers
CountRows ==
    /\ proc # Idle /\ scan.stage = "count"
    /\ \/ /\ Readable
          /\ proc' = [proc EXCEPT !.scan = After([scan EXCEPT !.full = Size(Tables[now])])]
          /\ UNCHANGED <<file, scans, answers>>
       \/ ~Readable /\ Abort
    /\ UNCHANGED changes

(* detect() for the DetectorRun; a transient fault of the query is one more way to fail *)
Dropped == [scan EXCEPT !.detectors = Tail(@)]
Drawn(d) == IF OnSample(d) THEN Source(d) ELSE scan.sample
FirstDetect ==
    /\ proc # Idle /\ scan.stage = "first"
    /\ LET d == Head(scan.detectors)
       IN  \/ /\ ~Active(d)                                            \* skipped
              /\ proc' = [proc EXCEPT !.scan = After(Dropped)]
              /\ UNCHANGED changes
           \/ /\ Active(d) /\ Answers(d)
              /\ proc' = [proc EXCEPT !.scan.stage = "second", !.scan.completed = @ \cup {d},
                                      !.scan.sample = Drawn(d),
                                      !.scan.looked = @ \cup {Source(d)}]
              /\ UNCHANGED changes
           \/ /\ Active(d)
              /\ \/ ~Answers(d) /\ UNCHANGED changes
                 \/ changes < MaxChanges /\ changes' = changes + 1
              /\ proc' = [proc EXCEPT !.scan = After([Dropped EXCEPT !.failed = @ \cup {d}])]
    /\ UNCHANGED <<file, scans, answers>>
(* detect() again, for the candidates, outside the try *)
SecondDetect ==
    /\ proc # Idle /\ scan.stage = "second"
    /\ LET d == Head(scan.detectors)
       IN  \/ /\ Answers(d)
              /\ proc' = [proc EXCEPT !.scan =
                    After([Dropped EXCEPT !.candidates = @ \cup Findings(d),
                                           !.looked = @ \cup {Source(d)}])]
              /\ UNCHANGED <<file, scans, answers, changes>>
           \/ ~Answers(d) /\ UNCHANGED changes /\ Abort
           \/ changes < MaxChanges /\ changes' = changes + 1 /\ Abort
RunContractRules ==
    /\ proc # Idle /\ scan.stage = "rules"
    /\ LET valid   == {r \in command.rules : ValidRule(r, Tables[scan.opened])}
           invalid == command.rules \ valid
       IN  \/ /\ Readable \/ valid = {}
              /\ proc' = [proc EXCEPT
                    !.scan.stage = "save",
                    !.scan.looked = IF valid = {} THEN @ ELSE @ \cup {now},
                    !.scan.candidates = IF valid = {} THEN @ ELSE @ \cup RuleFindings(valid, Tables[now]),
                    !.scan.failed = IF invalid = {} THEN @ ELSE @ \cup {"contract_rule"}]
              /\ UNCHANGED <<file, scans, answers>>
           \/ ~Readable /\ valid # {} /\ Abort
    /\ UNCHANGED changes

(* Fusion, scores, the fingerprint and the one transaction. *)
Scored(issues) == {[i EXCEPT !.priority = Priority(i)] : i \in issues}
Digest == IF command.sampled THEN Gone ELSE now
Dimensioned == {DetectorDimension(d) : d \in scan.completed}
SaveScan ==
    /\ proc # Idle /\ scan.stage = "save"
    /\ \/ /\ Readable
          /\ LET issues == Scored(fuse(scan.candidates, scan.full))
             IN  scans' = Append(scans,
                   [path |-> path, detectors |-> command.detectors, sampled |-> command.sampled,
                    rules |-> command.rules, references |-> command.references,
                    status |-> IF scan.failed = {} THEN "completed" ELSE "failed",
                    digest |-> Digest,
                    cols |-> Tables[scan.opened].cols, rows |-> Size(Tables[now]),
                    issues |-> issues, score |-> QualityScore(issues, Dimensioned),
                    profile |-> NoProfile,
                    looked |-> scan.looked \cup {now}, quiet |-> scan.since = changes])
          /\ proc' = [proc EXCEPT !.scan.stage = "profile"]
          /\ UNCHANGED <<file, answers>>
       \/ ~Readable /\ Abort
    /\ UNCHANGED changes

(* The profile: the columns the last completed scan of the dataset has measured are *)
(* taken over, unless the columns are the same; then all are measured.              *)
Completed == {n \in DOMAIN scans : scans[n].path = path /\ scans[n].status = "completed"}
ReuseCandidates_SameColumns ==
    LET before == Completed \ {Len(scans)}
        last   == IF before = {} THEN NoProfile ELSE scans[Max(before)].profile
    IN  IF last = NoProfile THEN NoProfile
        ELSE [c \in DOMAIN last \cap ColumnsOf(Tables[scan.opened]) |-> last[c]]
ReuseCandidates ==
    LET before == Completed \ {Len(scans)}
        last   == IF before = {} THEN NoProfile ELSE scans[Max(before)].profile
        same   == DOMAIN last = ColumnsOf(Tables[scan.opened])
    IN  IF last = NoProfile \/ same THEN NoProfile
        ELSE [c \in DOMAIN last \cap ColumnsOf(Tables[scan.opened]) |-> last[c]]
SaveProfile ==
    /\ proc # Idle /\ scan.stage = "profile"
    /\ \/ /\ Readable
          /\ scans' = [scans EXCEPT
                ![Len(scans)].quiet = scan.since = changes,
                ![Len(scans)].profile =
                    [c \in ColumnsOf(Tables[scan.opened]) |->
                        IF c \in DOMAIN ReuseCandidates THEN ReuseCandidates[c] ELSE now]]
          /\ EndPath(Len(scans), FALSE)
          /\ UNCHANGED file
       \/ ~Readable /\ Abort
    /\ UNCHANGED changes

(* Environment: somebody writes a file, or the process dies. Each command says how *)
(* often it is disturbed, a bound that keeps the longest scans free of it.         *)
Disturbed == proc # Idle => command.disturbed
Edit(p, v) ==
    /\ Disturbed /\ changes < MaxChanges /\ file[p] # v
    /\ file' = [file EXCEPT ![p] = v]
    /\ changes' = changes + 1
    /\ UNCHANGED <<proc, scans, answers>>
Crash ==
    /\ proc # Idle /\ command.disturbed /\ changes < MaxChanges
    /\ answers' = Append(answers, [command |-> command, results |-> proc.results,
                                   exit |-> "killed", cached |-> FALSE, now |-> now])
    /\ proc' = Idle
    /\ changes' = changes + 1
    /\ UNCHANGED <<file, scans>>

Init ==
    /\ file \in InitialFiles
    /\ proc = Idle /\ scans = <<>> /\ answers = <<>> /\ changes = 0
Next ==
    \/ \E c \in Commands : Begin(c)
    \/ OpenSource \/ CountRows \/ FirstDetect \/ SecondDetect
    \/ RunContractRules \/ SaveScan \/ SaveProfile
    \/ \E p \in Paths, v \in Later : Edit(p, v)
    \/ Crash
Spec == Init /\ [][Next]_vars

----------------------------------------------------------------------------
(* Drift and trends read the stored scans of one path. "drift latest" takes the oldest *)
(* and the newest of its completed scans, however many there are; its docs say the two *)
(* latest, which is DriftLatest_LastTwo.                                               *)
History(p) == Those(scans, LAMBDA s : s.path = p)
CompletedRuns(p) == Those(History(p), LAMBDA s : s.status = "completed")
DriftLatest_LastTwo(p, tenths) ==
    LET done == CompletedRuns(p) IN compare_scans(done[Len(done) - 1], Last(done), tenths)
DriftLatest(p, tenths) == compare_scans(CompletedRuns(p)[1], Last(CompletedRuns(p)), tenths)

----------------------------------------------------------------------------
Stages == {"none", "count", "first", "second", "rules", "save", "profile"}

(* The process is idle or at a stage of scanning one of its command's paths, and *)
(* what it has stored refers to versions of files.                               *)
TypeOK ==
    /\ file \in [Paths -> Versions \cup {Gone}]
    /\ proc # Idle => /\ command \in Commands /\ scan.stage \in Stages
                      /\ proc.results \o proc.paths # <<>>
                      /\ Len(proc.results) + Len(proc.paths) = Len(command.paths)
    /\ \A n \in DOMAIN scans : /\ scans[n].path \in Paths
                                /\ scans[n].digest \in Versions \cup {Gone}
                                /\ scans[n].looked \subseteq Versions
                                /\ \A i \in scans[n].issues : i.priority \in Priorities
    /\ Len(answers) <= MaxCommands /\ changes <= MaxChanges

(* A completed scan nobody disturbed misses nothing: every finding of every detector it *)
(* selected lies in an issue on the same columns, of the same family and at least as    *)
(* severe, that names the detector and counts no fewer rows (20 where rows are listed). *)
Covers(issue, f) ==
    /\ issue.columns = Members(f.columns) /\ issue.family = issue_family(f.detector)
    /\ AtLeast(issue.severity, f.severity) /\ f.detector \in issue.detectors
    /\ issue.affected >= (IF f.detector = "cross_field_rule" THEN Min({20, f.affected}) ELSE f.affected)
QuietScanIsComplete ==
    \A n \in DOMAIN scans :
        LET s == scans[n]
        IN  s.quiet /\ ~s.sampled /\ s.status = "completed" =>
              \A d \in s.detectors \ {ForeignKey} :
                Supports(d, Tables[s.digest]) =>
                  \A f \in Reported[s.digest][d] : \E i \in s.issues : Covers(i, f)

(* Even when files change during the scan, an issue never claims what no detector saw: *)
(* on its columns, each detector it names had a finding in a version the scan read.    *)
Saw(s, v, d) ==
    IF d = ForeignKey THEN ForeignKeyViolation(Tables[v], "csv", s.references).found
    ELSE IF d \in DetectorIds
    THEN Reported[v][d] \cup (IF s.sampled /\ d \in Sampling THEN SampleReported[v][d] ELSE {})
    ELSE RuleFindings({r \in s.rules : r.id = d /\ ValidRule(r, Tables[v])}, Tables[v])
IssuesWereSeen ==
    \A n \in DOMAIN scans : \A i \in scans[n].issues : \A d \in i.detectors :
        \E v \in scans[n].looked : \E f \in Saw(scans[n], v, d) :
            f.detector = d /\ Members(f.columns) = i.columns

(* The exit code of the CLI can be trusted: ok means that every path was scanned, that *)
(* each scan completed and that none has a severe issue over the gate's ratio.         *)
ExitOkMeansClean ==
    \A k \in DOMAIN answers :
        LET a == answers[k]
        IN  a.command.face = "cli" /\ a.exit = "ok" =>
              /\ Len(a.results) = Len(a.command.paths)
              /\ \A n \in Members(a.results) :
                    /\ n \in DOMAIN scans /\ scans[n].status = "completed"
                    /\ ~(a.command.gate.repair /\ Repaired) =>
                          ~\E i \in scans[n].issues :
                              i.severity \in a.command.gate.fail_on /\ i.ratio > a.command.gate.ratio

(* An incremental scan that answers from the store gives a completed scan which, when  *)
(* nobody disturbed it, holds what its own detectors would find in the file as it is.  *)
Expected(s, v) ==
    Scored(fuse(UNION {Reported[v][d] : d \in {e \in s.detectors \ {ForeignKey} : Supports(e, Tables[v])}},
                Size(Tables[v])))
CachedAnswerIsSound ==
    \A k \in DOMAIN answers : answers[k].cached =>
        LET s == scans[Last(answers[k].results)]
        IN  /\ s.status = "completed"
            /\ s.quiet /\ s.rules = {} /\ s.references = <<>> => s.issues = Expected(s, answers[k].now)

(* Reuse of profiles: a quiet scan whose columns are those of the last completed scan's *)
(* profile has measured every column in the file it scanned.                            *)
Profiled(n) ==
    {m \in 1 .. n - 1 : scans[m].path = scans[n].path /\ scans[m].status = "completed"}
SameColumnsMeasuredAnew ==
    \A n \in DOMAIN scans :
        /\ scans[n].quiet /\ scans[n].profile # NoProfile /\ Profiled(n) # {}
        /\ DOMAIN scans[Max(Profiled(n))].profile = DOMAIN scans[n].profile
        => \A c \in DOMAIN scans[n].profile : {scans[n].profile[c]} = scans[n].looked

(* The trend of a path, the steps of its comparison and its drift all span its history,  *)
(* from the oldest completed scan to the newest: when all completed scans have a score,   *)
(* the trend leaves "flat" exactly when the drift, asked for as small a difference,       *)
(* reports that the score moved, the steps add up to the trend, and the drift is free of  *)
(* schema changes only if these two scans have the same columns. Failed scans move none   *)
(* of them.                                                                               *)
TrendAgreesWithDrift ==
    \A p \in Paths :
        LET done  == CompletedRuns(p)
            steps == build_comparison(History(p))
        IN  Len(done) >= 2 /\ (\A k \in DOMAIN done : done[k].score # NoScore) =>
              /\ (Direction(History(p)) # "flat") <=> DriftLatest(p, 5).score
              /\ TrendDelta(History(p)) = SumFunction(steps)
              /\ DriftLatest(p, 5).schema = {} => done[1].cols = Last(done).cols
============================================================================
