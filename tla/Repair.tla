------------------------------- MODULE Repair -------------------------------
(***************************************************************************)
(* Repairs: propose, preview, apply, diff, verify and rollback, from the   *)
(* CLI, the API, the web pages, the MCP server and the TUI at the same     *)
(* time, while the source files may change.                                *)
(*                                                                         *)
(* apply reads the source many times: the count of affected rows, the     *)
(* repaired projection, the cells it carries over, the snapshot, the       *)
(* fingerprint and the operation records. Each read is a step, and so is   *)
(* each write: the two artefacts and, last, the row of repair_runs.        *)
(* Issues are what full scans of the Origins have stored. A copy is read   *)
(* with the column types of its source.                                    *)
(***************************************************************************)
EXTENDS Scoring, SequencesExt

CONSTANTS
    Procs,         \* processes that run repair commands
    Paths,         \* the data files
    Format,        \* path |-> "csv", "xlsx", "parquet", "jsonl" or "database"
    Registered,    \* the paths whose file name is a dataset of the store
    Versions,      \* what a file may hold, and Gone when it is not there
    Gone,
    Tables,        \* version |-> table
    Respelt,       \* version |-> the cells <<row, column>> that a copy spells otherwise even if
                   \*             they keep their value: numbers of a CSV file, 8 as 8.0, and
                   \*             numbers in a text column of a sheet, 1 as '1'
    Origins,       \* the versions that were scanned
    InitialFiles,  \* the files' contents in the beginning
    InitialStores, \* and the artefacts and rows of earlier repairs
    Later,         \* what a file may be changed to
    Commands,      \* the repair commands, see Begin
    LogCap, ExampleCap,         \* how many cells of a column are recorded (500) and shown (10)
    MaxCommands, MaxChanges     \* bounds of the model

VARIABLES
    file,      \* path |-> version or Gone
    disk,      \* .datasentry/repairs: the artefacts of each run id
    runs,      \* table repair_runs in rowid order
    proposals, \* table repair_proposals
    issues,    \* table issues, filled by the scans of the Origins
    proc,      \* process |-> the command it runs, or Idle
    answers,   \* the commands that ended, with their outcomes
    changes    \* edits, removed artefacts and crashes so far
vars == <<file, disk, runs, proposals, issues, proc, answers, changes>>

Idle == [stage |-> "idle"]
NoProposal == [detector |-> "none"]
NoStats == <<>>
NoCopy == [carried |-> Gone, projected |-> Gone]
Of(v) == [carried |-> v, projected |-> v]
UnknownRun == 0
Nothing == <<>>

----------------------------------------------------------------------------
(* A full scan of a table, one detector or all of them; the stored issues, each with the *)
(* bounds its evidence names (in eighths).                                               *)
RuleFailures(d, t) == IF Supports(d, t) THEN Detect(d, t) ELSE {}
Findings(t) == UNION {RuleFailures(d, t) : d \in Members(Registry) \ {"foreign_key_violation"}}
Scanned(t) == fuse(Findings(t), Size(t))
NoBounds == [lower |-> 0, upper |-> 0, iqr |-> 0]
IssuesOf(v) ==
    {[id |-> [origin |-> v, columns |-> i.columns, family |-> i.family], detectors |-> i.detectors,
      bounds |-> IF "iqr_outlier" \in i.detectors
                 THEN Fences(Tables[v], CHOOSE c \in i.columns : TRUE) ELSE NoBounds] :
        i \in Scanned(Tables[v])}
get_issue_by_id(id) == {i \in issues : i.id = id}

ProposalMap == [leading_or_trailing_whitespace |-> "trim", inconsistent_case |-> "lower",
                suspicious_missing_token |-> "token to null",
                invalid_date |-> "set null", impossible_date |-> "set null"]
ClipTypes == {"iqr_outlier", "percentile_outlier", "modified_zscore"}
(* The first detector of the issue, in their order, that a repair is known for. *)
ProposalOf(issue) ==
    LET clip   == issue.bounds # NoBounds /\ Cardinality(issue.id.columns) = 1
        usable == {i \in DOMAIN Registry :
                     /\ Registry[i] \in issue.detectors
                     /\ Registry[i] \in DOMAIN ProposalMap \/ (clip /\ Registry[i] \in ClipTypes)}
        Answer(d) == [detector |-> d, columns |-> issue.id.columns, bounds |-> issue.bounds,
                      operation |-> IF d \in ClipTypes THEN "clip" ELSE ProposalMap[d]]
    IN  IF usable = {} THEN NoProposal ELSE Answer(Registry[Min(usable)])

(* _after_expr: the cell a repair leaves in place of v, a bound rounded to the inside. *)
Clipped(v, bounds) ==
    IF 8 * v.value < bounds.lower THEN Number((bounds.lower + 7) \div 8)
    ELSE IF 8 * v.value > bounds.upper THEN Number(bounds.upper \div 8) ELSE v
After_TokenAsWritten(proposal, v) ==
    IF v = Null THEN v
    ELSE CASE proposal.operation = "trim" -> Trimmed(v)
           [] proposal.operation = "lower" -> Lowered(v)
           [] proposal.operation = "token to null" ->
                  IF Matches(v, "missing") /\ v.marks = {} THEN Null ELSE v
           [] proposal.operation = "set null" ->
                  IF ~Matches(v, "iso") \/ ~Matches(v, "calendar") THEN Null ELSE v
           [] proposal.operation = "clip" -> Clipped(v, proposal.bounds)
After(proposal, v) ==
    IF v = Null THEN v
    ELSE CASE proposal.operation = "trim" -> Trimmed(v)
           [] proposal.operation = "lower" -> Lowered(v)
           [] proposal.operation = "token to null" -> IF Matches(v, "missing") THEN Null ELSE v
           [] proposal.operation = "set null" ->
                  IF ~Matches(v, "iso") \/ ~Matches(v, "calendar") THEN Null ELSE v
           [] proposal.operation = "clip" -> Clipped(v, proposal.bounds)
Affected(proposal, t) ==
    SumFunction([c \in proposal.columns |-> CountWhere(t, c, LAMBDA v : v # After(proposal, v))])

----------------------------------------------------------------------------
(* Copies: CSV and XLSX cells of other columns are carried over from the file. *)
Carries(p) == Format[p] \in {"csv", "xlsx"}
Writable(p) == Format[p] \in {"csv", "xlsx", "parquet", "jsonl"}
RowsOf(t) == FlattenSeq([i \in DOMAIN t.rows |-> [k \in 1 .. t.rows[i].times |-> t.rows[i].cells]])
Projection(proposal, v) ==
    Mapped(Tables[v], proposal.columns, LAMBDA cell : After(proposal, cell))
Aligned_ByHeader(carried, projected) == Tables[carried].cols = Tables[projected].cols
Aligned(carried, projected) ==
    /\ Tables[carried].cols = Tables[projected].cols
    /\ Size(Tables[carried]) = Size(Tables[projected])
CopyTable_HeaderCounted(copy, proposal) ==
    [cols |-> Tables[copy.projected].cols,
     rows |-> LET carried  == RowsOf(Tables[copy.carried])
                  repaired == RowsOf(Projection(proposal, copy.projected))
              IN  [k \in DOMAIN repaired |->
                    [times |-> 1,
                     cells |-> [c \in DOMAIN carried[k] |->
                                 IF c \in proposal.columns THEN repaired[Max({1, k - 1})][c]
                                 ELSE carried[k][c]]]]]
CopyTable(copy, proposal) ==
    [cols |-> Tables[copy.projected].cols,
     rows |-> LET carried  == RowsOf(Tables[copy.carried])
                  repaired == RowsOf(Projection(proposal, copy.projected))
              IN  [k \in DOMAIN repaired |->
                    [times |-> 1,
                     cells |-> [c \in DOMAIN carried[k] |->
                                 IF c \in proposal.columns THEN repaired[k][c] ELSE carried[k][c]]]]]
(* The cells whose values differ. *)
Moved(before, after) ==
    LET b == RowsOf(before)  a == RowsOf(after)
    IN  {x \in (DOMAIN a \cup DOMAIN b) \X (ColumnsOf(before) \cup ColumnsOf(after)) :
            \/ x[1] \notin DOMAIN a \cap DOMAIN b
            \/ x[2] \notin DOMAIN a[x[1]] \cap DOMAIN b[x[1]]
            \/ a[x[1]][x[2]] # b[x[1]][x[2]]}
(* The first of them in each column, at most cap: a record names the place of its cell among *)
(* those of its column that moved, and no row.                                               *)
Place(x, cells) == Cardinality({y \in cells : y[2] = x[2] /\ y[1] < x[1]})
Sample(before, after, cap) ==
    LET cells == Moved(before, after)
    IN  {[column |-> x[2], place |-> Place(x, cells),
          before |-> RowsOf(before)[x[1]][x[2]], after |-> RowsOf(after)[x[1]][x[2]]] :
            x \in {y \in cells : Place(y, cells) < cap}}
(* The operation records and the examples of a version. *)
Recorded(proposal, v) == Sample(Tables[v], Projection(proposal, v), LogCap)
Examples(proposal, v) == Sample(Tables[v], Projection(proposal, v), ExampleCap)
(* Of a snapshot and a copy. The copy has str() of every value of the proposal's columns, the *)
(* text of a CSV file and what a sheet holds are compared as they are written.                *)
Rewrites(format, c) == (format = "csv" /\ Kind[c] = "number") \/ (format = "xlsx" /\ Kind[c] = "text")
table_diff(format, proposal, before, copy) ==
    Moved(Tables[before], CopyTable(copy, proposal))
        \cup {x \in Respelt[before] : x[2] \in proposal.columns /\ Rewrites(format, x[2])}
(* column |-> how many nulls and how many distinct values a repair adds *)
Stats(proposal, t) ==
    LET u == Mapped(t, proposal.columns, LAMBDA cell : After(proposal, cell))
    IN  [c \in proposal.columns |->
            <<NullsOf(u, c) - NullsOf(t, c), Cardinality(ValuesOf(u, c)) - Cardinality(ValuesOf(t, c))>>]

----------------------------------------------------------------------------
(* What there is in the beginning. A command works on some items, single commands on one; *)
(* a run of an earlier session left its row, its artefacts and nothing else, and a row    *)
(* whose repair nobody disturbed tells of one version. Its proposal is one that the map   *)
(* of operations makes.                                                                   *)
Versioned == Versions \cup {Gone}
Copies == [carried : Versioned, projected : Versioned]
Artefact == [before : Versioned, copy : Copies, restored : Versioned]
RowFields == {"id", "status", "path", "proposal", "origin", "fingerprint_before",
              "fingerprint_after", "operations", "quiet"}
RepairCalls == {"propose", "preview", "apply", "rollback", "verify", "diff"}
Whole(copy) == copy.carried \in Versions /\ copy.projected \in Versions /\ Aligned(copy.carried, copy.projected)
Meant(proposal) ==
    \/ proposal.operation = "clip"
    \/ proposal.detector \in DOMAIN ProposalMap /\ proposal.operation = ProposalMap[proposal.detector]
OneVersion(row, v) ==
    /\ row.fingerprint_before = v /\ row.operations = v
    /\ row.fingerprint_after = Of(v)
    /\ row.proposal.columns \subseteq ColumnsOf(Tables[v])
Orderly(store) ==
    /\ store.disk \in Seq(Artefact)
    /\ store.runs \in Seq(Members(store.runs))
    /\ \A i \in DOMAIN store.runs :
         LET r == store.runs[i]
         IN  /\ r = [f \in RowFields |-> r[f]] /\ r.status \in {"applied", "rolled_back"} /\ Meant(r.proposal)
             /\ r.id \in DOMAIN store.disk
             /\ \A j \in DOMAIN store.runs : store.runs[j].id = r.id => i = j
             /\ LET d == store.disk[r.id]
                IN  /\ d.before # Gone /\ d.copy = r.fingerprint_after /\ Whole(d.copy)
                    /\ r.quiet => OneVersion(r, d.before)
                    /\ d.restored = IF r.status = "rolled_back" THEN d.before ELSE Gone
    /\ \A id \in DOMAIN store.disk : \E i \in DOMAIN store.runs : store.runs[i].id = id

ASSUME RepairAssumption ==
    /\ IsFiniteSet(Procs) /\ MaxCommands \in Nat /\ MaxChanges \in Nat /\ LogCap \in Nat /\ ExampleCap \in Nat
    /\ Gone \notin Versions /\ Later \subseteq Versioned
    /\ InitialFiles \subseteq [Paths -> Versioned]
    /\ \A c \in Commands : /\ c.path \in Paths
                           /\ c.items \in Seq(Members(c.items)) \ {<<>>}
                           /\ c.calls \in Seq(RepairCalls) \ {<<>>}
                           /\ Len(c.items) > 1 => c.batch /\ c.face # "api"
    /\ \A s \in InitialStores : Orderly(s)
ASSUME TablesAssumption == \A v \in Versions : Rectangular(Tables[v])
ASSUME RespeltAssumption ==
    \A v \in Versions : \A x \in Respelt[v] :
        x[1] \in 1 .. Size(Tables[v]) /\ x[2] \in ColumnsOf(Tables[v]) /\ RowsOf(Tables[v])[x[1]][x[2]] # Null

----------------------------------------------------------------------------
(* A command goes through its items; for each it makes its client calls, the *)
(* rest of which are dropped once one of them is not done.                   *)
me(p) == proc[p]
command(p) == proc[p].command
item(p) == command(p).items[proc[p].item]
operation(p) == command(p).calls[proc[p].call]
source(p) == command(p).path
now(p) == file[source(p)]
At(p, stage) == proc[p].stage = stage
Set(p, record) == proc' = [proc EXCEPT ![p] = record]

OnIssue == {"propose", "preview", "apply"}
Fresh(record) ==
    [record EXCEPT !.stage = "open", !.since = changes, !.opened = Gone, !.proposal = NoProposal,
                   !.affected = 0, !.before = 0, !.stats = NoStats, !.fingerprint = Gone, !.copy = NoCopy, !.records = Gone, !.row = Nothing]
(* What the caller is told: exit codes, HTTP statuses, pages. The batches name every item *)
(* that failed; the single commands catch some exceptions, main() the others.             *)
Failing(outcomes) == {o \in Members(outcomes) : o.what \notin {"done", "none"}}
ExitBatch_AnyDone(outcomes) ==
    IF \E o \in Members(outcomes) : o.what \in {"done", "none"} THEN "ok" ELSE "source"
ExitBatch(outcomes) == IF Failing(outcomes) = {} THEN "ok" ELSE "source"
ExitProposal(o) ==
    CASE o.what \in {"done", "none"} -> "ok" [] o.what \in {"missing", "refused"} -> "config" [] OTHER -> "error"
ExitRun(o) == IF o.what = "done" THEN "ok" ELSE "error"
ExitVerify(c, o) ==
    CASE o.what # "done" -> "error"
      [] o.what = "done" /\ (IF c.clean THEN o.told.left = 0 ELSE o.told.new = {}) -> "ok"
      [] OTHER -> "gate failed"
ExitCli(c, outcomes) ==
    LET o == Last(outcomes)
    IN  CASE c.batch -> ExitBatch(outcomes)
          [] ~c.batch /\ o.call \in {"propose", "preview"} -> ExitProposal(o)
          [] ~c.batch /\ o.call = "verify" -> ExitVerify(c, o)
          [] OTHER -> ExitRun(o)
StatusOf(o) ==
    CASE o.what \in {"missing", "source"} -> "404" [] o.what = "refused" -> "422" [] OTHER -> "500"
ExitApi(o) ==
    CASE o.what \in {"done", "none"} -> "200"
      [] o.what \in {"refused", "source", "error"} /\ o.call \in {"verify", "diff"} -> "400"
      [] OTHER -> StatusOf(o)
(* The workbench and the batch pages show every outcome; the history's buttons redirect. *)
ExitPage(c, o) ==
    IF o.what = "missing" /\ ~c.batch THEN "404"
    ELSE IF o.call \in OnIssue \/ c.batch \/ Len(c.calls) > 1 THEN "page"
    ELSE IF o.what = "done" THEN IF o.call = "diff" THEN "page" ELSE "redirect"
    ELSE IF o.call = "rollback" THEN "500" ELSE "400"
Exit(c, outcomes) ==
    CASE c.face = "cli" -> ExitCli(c, outcomes)
      [] c.face = "api" -> ExitApi(Last(outcomes))
      [] c.face = "ui" -> ExitPage(c, Last(outcomes))
      [] OTHER -> "text"                     \* MCP and TUI: one line or entry per outcome
EndCall(p, what, told) ==
    LET outcomes == Append(me(p).outcomes,
                           [what |-> what, call |-> operation(p), item |-> me(p).item, told |-> told])
        more     == what = "done" /\ me(p).call < Len(command(p).calls)
    IN  IF more \/ me(p).item < Len(command(p).items)
        THEN /\ Set(p, Fresh([me(p) EXCEPT !.outcomes = outcomes,
                                           !.call = IF more THEN @ + 1 ELSE 1,
                                           !.item = IF more THEN @ ELSE @ + 1]))
             /\ UNCHANGED answers
        ELSE /\ answers' = Append(answers, [command |-> command(p), outcomes |-> outcomes,
                                            exit |-> Exit(command(p), outcomes)])
             /\ Set(p, Idle)
Fail(p, what) == EndCall(p, what, Nothing)
Kept == UNCHANGED <<file, disk, runs, proposals, issues, changes>>
Move(p, record) == Set(p, record) /\ Kept /\ UNCHANGED answers
Refuse(p, what) == Fail(p, what) /\ Kept

Begin(p, c) ==
    /\ me(p) = Idle
    /\ Len(answers) + Cardinality({q \in Procs : proc[q] # Idle}) < MaxCommands
    /\ Move(p, [command |-> c, item |-> 1, call |-> 1, outcomes |-> <<>>, stage |-> "open", since |-> changes,
                opened |-> Gone, proposal |-> NoProposal, affected |-> 0, before |-> 0, stats |-> NoStats, fingerprint |-> Gone,
                copy |-> NoCopy, run |-> UnknownRun, row |-> Nothing, records |-> Gone])

(* get_issue_by_id and repair_open. *)
OpenSource(p) ==
    /\ At(p, "open") /\ operation(p) \in OnIssue
    /\ IF get_issue_by_id(item(p)) = {} THEN Refuse(p, "missing")
       ELSE IF now(p) = Gone THEN Refuse(p, "source")
       ELSE Move(p, [me(p) EXCEPT !.stage = "propose", !.opened = now(p)])

(* What the SQL of an open handle reads: an XLSX sheet was loaded when it was opened, *)
(* the other views read the file, which must still have the columns of the view.      *)
SqlReads(p) == IF Format[source(p)] = "xlsx" THEN me(p).opened ELSE now(p)
Readable(p) == SqlReads(p) # Gone /\ Tables[SqlReads(p)].cols = Tables[me(p).opened].cols
Propose(p) ==
    /\ At(p, "propose")
    /\ LET proposal == ProposalOf(CHOOSE i \in get_issue_by_id(item(p)) : TRUE)
           affected == Affected(proposal, Tables[SqlReads(p)])
           fits     == Readable(p) /\ proposal.columns \subseteq ColumnsOf(Tables[SqlReads(p)])
       IN  IF proposal # NoProposal /\ ~fits THEN Refuse(p, "error")
           ELSE IF proposal = NoProposal \/ affected = 0
           THEN Refuse(p, IF operation(p) = "apply" THEN "refused" ELSE "none")
           ELSE IF operation(p) = "propose"
           THEN /\ proposals' = proposals \cup {[proposal |-> proposal, path |-> source(p)]}
                /\ EndCall(p, "done", Nothing)
                /\ UNCHANGED <<file, disk, runs, changes, issues>>
           ELSE Move(p, [me(p) EXCEPT !.proposal = proposal, !.affected = affected,
                           !.stage = IF operation(p) = "preview" THEN "rules" ELSE "project"])

(* preview: the writer guard, then the detector on the source. *)
PreviewRules(p) ==
    /\ At(p, "rules")
    /\ CASE ~Writable(source(p)) -> Refuse(p, "refused")
         [] Writable(source(p)) /\ ~Readable(p) -> Refuse(p, "error")
         [] OTHER -> Move(p, [me(p) EXCEPT !.stage = "stats",
                                !.before = Cardinality(RuleFailures(me(p).proposal.detector, Tables[SqlReads(p)]))])
PreviewStats(p) ==
    /\ At(p, "stats")
    /\ IF Readable(p)
       THEN Move(p, [me(p) EXCEPT !.stage = "project", !.stats = Stats(me(p).proposal, Tables[SqlReads(p)])])
       ELSE Refuse(p, "error")

(* _after_table, then the cells; nothing has been written when one of them refuses. *)
Copied(p, copy) ==
    [me(p) EXCEPT !.copy = copy, !.stage = IF operation(p) = "preview" THEN "report" ELSE "snapshot"]
Project(p) ==
    /\ At(p, "project")
    /\ IF operation(p) = "apply" /\ now(p) = Gone THEN Refuse(p, "source")
       ELSE IF ~Writable(source(p)) THEN Refuse(p, "refused")
       ELSE IF ~Readable(p) THEN Refuse(p, "error")
       ELSE CASE Format[source(p)] = "jsonl" -> Refuse(p, "refused")
              [] Format[source(p)] = "parquet" ->
                     Move(p, Copied(p, [carried |-> now(p), projected |-> now(p)]))
              [] Carries(source(p)) ->
                     Move(p, [me(p) EXCEPT !.stage = "carry", !.copy.projected = SqlReads(p)])
CopyCells(p) ==
    /\ At(p, "carry")
    /\ IF now(p) # Gone /\ Aligned(now(p), me(p).copy.projected)
       THEN Move(p, Copied(p, [me(p).copy EXCEPT !.carried = now(p)]))
       ELSE Refuse(p, "refused")

(* The temporary copy of a preview, its detector run and the row count. *)
ReportPreview(p) ==
    /\ At(p, "report")
    /\ IF Readable(p)
       THEN /\ EndCall(p, "done", [before |-> me(p).before, affected |-> me(p).affected,
                                   after |-> Cardinality(RuleFailures(me(p).proposal.detector,
                                                         CopyTable(me(p).copy, me(p).proposal))),
                                   stats |-> me(p).stats, copy |-> me(p).copy,
                                   examples |-> Examples(me(p).proposal, SqlReads(p)),
                                   proposal |-> me(p).proposal, quiet |-> me(p).since = changes])
            /\ Kept
       ELSE Refuse(p, "error")

----------------------------------------------------------------------------
(* apply, from the first write on. *)
Snapshot(p) ==
    /\ At(p, "snapshot")
    /\ \/ /\ now(p) # Gone
          /\ disk' = Append(disk, [before |-> now(p), copy |-> NoCopy, restored |-> Gone])
          /\ Set(p, [me(p) EXCEPT !.stage = "write", !.run = Len(disk) + 1])
          /\ UNCHANGED <<file, runs, proposals, answers, changes, issues>>
       \/ now(p) = Gone /\ Refuse(p, "source")
(* Writing a CSV sniffs the delimiter of the source once more. *)
WriteCopy(p) ==
    /\ At(p, "write")
    /\ IF Format[source(p)] = "csv" /\ now(p) = Gone THEN Refuse(p, "source")
       ELSE /\ disk' = [disk EXCEPT ![me(p).run].copy = me(p).copy]
            /\ Set(p, [me(p) EXCEPT !.stage = "fingerprint"])
            /\ UNCHANGED <<file, runs, proposals, answers, changes, issues>>
(* Of the source and of the copy. *)
Fingerprint_TextOnly(p) ==
    /\ At(p, "fingerprint")
    /\ IF Format[source(p)] = "csv" /\ now(p) # Gone /\ Readable(p)
       THEN Move(p, [me(p) EXCEPT !.stage = "records", !.fingerprint = now(p)])
       ELSE Refuse(p, "error")
Fingerprint(p) ==
    /\ At(p, "fingerprint")
    /\ IF now(p) # Gone /\ Readable(p)
       THEN Move(p, [me(p) EXCEPT !.stage = "records", !.fingerprint = now(p)])
       ELSE Refuse(p, IF now(p) = Gone THEN "source" ELSE "error")
RecordOperations(p) ==
    /\ At(p, "records")
    /\ IF Readable(p)
       THEN Move(p, [me(p) EXCEPT !.stage = "save", !.records = SqlReads(p)])
       ELSE Refuse(p, "error")
(* The row refers to a dataset of the store: a foreign key, checked on insert. *)
SaveRun(p) ==
    /\ At(p, "save")
    /\ \/ /\ source(p) \in Registered
          /\ runs' = Append(runs, [id |-> me(p).run, status |-> "applied", path |-> source(p),
                                   proposal |-> me(p).proposal, origin |-> item(p).origin,
                                   fingerprint_before |-> me(p).fingerprint, fingerprint_after |-> me(p).copy,
                                   operations |-> me(p).records, quiet |-> me(p).since = changes])
          /\ EndCall(p, "done", [run |-> me(p).run])
          /\ UNCHANGED <<file, disk, proposals, changes, issues>>
       \/ source(p) \notin Registered /\ Refuse(p, "error")

----------------------------------------------------------------------------
(* rollback, verify and diff of a run. The TUI takes the first of list_repair_runs; the *)
(* workbench shows the diff of the run it has just applied.                             *)
Applied == SelectSeq(runs, LAMBDA r : r.status = "applied")
LastId(s) == IF s = <<>> THEN UnknownRun ELSE Last(s).id
Target(p) ==
    IF command(p).face = "tui" THEN LastId(runs)
    ELSE IF operation(p) = "diff" /\ Len(command(p).calls) > 1 THEN me(p).run ELSE item(p)
Stored(id) == {r \in Members(runs) : r.id = id}
ReadRun(p) ==
    /\ At(p, "open") /\ operation(p) \notin OnIssue
    /\ IF Stored(Target(p)) = {} THEN Refuse(p, "missing")
       ELSE Move(p, [me(p) EXCEPT !.stage = operation(p), !.run = Target(p),
                                  !.row = CHOOSE r \in Stored(Target(p)) : TRUE,
                                  !.before = LastId(Applied)])
CopyBack_MissingOk(p) ==
    /\ At(p, "rollback")
    /\ disk' = [disk EXCEPT ![me(p).run].restored = disk[me(p).run].before]
    /\ Set(p, [me(p) EXCEPT !.stage = "save rollback"])
    /\ UNCHANGED <<file, runs, proposals, answers, changes, issues>>
CopyBack(p) ==
    /\ At(p, "rollback")
    /\ \/ disk[me(p).run].before = Gone /\ Refuse(p, "source")
       \/ /\ disk[me(p).run].before # Gone
          /\ disk' = [disk EXCEPT ![me(p).run].restored = disk[me(p).run].before]
          /\ Set(p, [me(p) EXCEPT !.stage = "save rollback"])
          /\ UNCHANGED <<file, runs, proposals, answers, changes, issues>>
(* INSERT OR REPLACE: the row as it was read, at the end of the rowid order. *)
SaveRollback_Inserts(p) ==
    /\ At(p, "save rollback")
    /\ runs' = Append(runs, [me(p).row EXCEPT !.status = "rolled_back"])
    /\ EndCall(p, "done", [run |-> me(p).run, due |-> me(p).before])
    /\ UNCHANGED <<file, disk, proposals, changes, issues>>
SaveRollback(p) ==
    /\ At(p, "save rollback")
    /\ runs' = Append(RemoveAt(runs, CHOOSE i \in DOMAIN runs : runs[i].id = me(p).run),
                      [me(p).row EXCEPT !.status = "rolled_back"])
    /\ EndCall(p, "done", [run |-> me(p).run, due |-> me(p).before])
    /\ UNCHANGED <<file, disk, proposals, changes, issues>>

(* The copy is scanned in full; families are compared with the issues of the first scan. *)
Families(found) == {i.family : i \in found}
OriginalFamilies(row) == {i.id.family : i \in {j \in issues : j.id.origin = row.origin}}
Remaining(row, found) ==
    [left |-> Cardinality(found), new |-> Families(found) \ OriginalFamilies(row)]
Verify(p) ==
    /\ At(p, "verify")
    /\ IF disk[me(p).run].copy = NoCopy THEN Refuse(p, "source")
       ELSE /\ EndCall(p, "done", Remaining(me(p).row,
                                           Scanned(CopyTable(disk[me(p).run].copy, me(p).row.proposal))))
            /\ Kept
Diff(p) ==
    /\ At(p, "diff")
    /\ LET d == disk[me(p).run]
       IN  IF d.copy = NoCopy \/ d.before = Gone THEN Refuse(p, "source")
           ELSE /\ EndCall(p, "done", [changed |-> table_diff(Format[me(p).row.path], me(p).row.proposal,
                                                             d.before, d.copy)])
                /\ Kept

----------------------------------------------------------------------------
(* Environment: somebody changes a file or removes an artefact, a process dies. *)
Edit(f, v) ==
    /\ changes < MaxChanges /\ file[f] # v
    /\ file' = [file EXCEPT ![f] = v] /\ changes' = changes + 1
    /\ UNCHANGED <<disk, runs, proposals, proc, answers, issues>>
RemoveArtefact(id) ==
    /\ changes < MaxChanges /\ Stored(id) # {}
    /\ \/ disk[id].before # Gone /\ disk' = [disk EXCEPT ![id].before = Gone]
       \/ disk[id].copy # NoCopy /\ disk' = [disk EXCEPT ![id].copy = NoCopy]
    /\ changes' = changes + 1
    /\ UNCHANGED <<file, runs, proposals, proc, answers, issues>>
Crash(p) ==
    /\ changes < MaxChanges /\ me(p) # Idle
    /\ answers' = Append(answers, [command |-> command(p), outcomes |-> me(p).outcomes, exit |-> "killed"])
    /\ Set(p, Idle) /\ changes' = changes + 1
    /\ UNCHANGED <<file, disk, runs, proposals, issues>>

Init ==
    /\ file \in InitialFiles
    /\ \E s \in InitialStores : disk = s.disk /\ runs = s.runs
    /\ proposals = {} /\ issues = UNION {IssuesOf(v) : v \in Origins}
    /\ proc = [p \in Procs |-> Idle] /\ answers = <<>> /\ changes = 0
Step(p) ==
    \/ \E c \in Commands : Begin(p, c)
    \/ OpenSource(p) \/ Propose(p) \/ PreviewRules(p) \/ PreviewStats(p) \/ Project(p) \/ CopyCells(p) \/ ReportPreview(p)
    \/ Snapshot(p) \/ WriteCopy(p) \/ Fingerprint(p) \/ RecordOperations(p) \/ SaveRun(p)
    \/ ReadRun(p) \/ CopyBack(p) \/ SaveRollback(p) \/ Verify(p) \/ Diff(p)
    \/ Crash(p)
Next ==
    \/ \E p \in Procs : Step(p)
    \/ \E f \in Paths, v \in Later : Edit(f, v)
    \/ \E id \in DOMAIN disk : RemoveArtefact(id)
Spec == Init /\ [][Next]_vars

----------------------------------------------------------------------------
Stages == {"idle", "open", "propose", "rules", "stats", "project", "carry", "report", "snapshot", "write",
           "fingerprint", "records", "save", "rollback", "save rollback", "verify", "diff"}

(* Every row belongs to one run with artefacts, its files are copies of versions, and a *)
(* process is idle or at a stage of a call.                                             *)
TypeOK ==
    /\ \A i, j \in DOMAIN runs : /\ runs[i].id \in DOMAIN disk
                                 /\ runs[i].id = runs[j].id => i = j
                                 /\ runs[i].status \in {"applied", "rolled_back"}
    /\ \A id \in DOMAIN disk : /\ {disk[id].before, disk[id].restored} \subseteq Versions \cup {Gone}
                               /\ disk[id].copy \in [{"carried", "projected"} -> Versions \cup {Gone}]
    /\ \A p \in Procs : proc[p].stage \in Stages
    /\ Len(answers) <= MaxCommands /\ changes <= MaxChanges

(* Whatever changes between the reads of a repair, a copy never mixes rows that do not *)
(* belong together: the cells it carries over and the ones it repairs come from tables *)
(* with the same columns and as many rows.                                             *)
CopiesAreAligned ==
    \A id \in DOMAIN disk : disk[id].copy # NoCopy =>
        LET t == Tables[disk[id].copy.carried]  u == Tables[disk[id].copy.projected]
        IN  t.cols = u.cols /\ Len(RowsOf(t)) = Len(RowsOf(u))

(* The audit of a repair nobody disturbed is the truth: its operation records are the first   *)
(* LogCap cells of each column in which the snapshot and the copy have different values, with  *)
(* these values; what the diff shows is in the proposal's columns, and a cell it shows that    *)
(* kept its value can only be one that the copy had to spell anew; and the fingerprint is the  *)
(* snapshot's.                                                                                 *)
AuditIsExact ==
    \A r \in Members(runs) :
        LET d == disk[r.id]
        IN  r.quiet /\ d.before # Gone /\ d.copy # NoCopy =>
              \E copy \in {CopyTable(d.copy, r.proposal)} :
                 /\ Recorded(r.proposal, r.operations) = Sample(Tables[d.before], copy, LogCap)
                 /\ \A x \in table_diff(Format[r.path], r.proposal, d.before, d.copy) :
                       /\ x[2] \in r.proposal.columns
                       /\ Rewrites(Format[r.path], x[2]) \/ x \in Moved(Tables[d.before], copy)
                 /\ r.fingerprint_before = d.before

(* A repair does what it is for and nothing else: in an undisturbed copy the detector the *)
(* proposal answers still reports what it reported on other columns, and nothing on those *)
(* of the proposal; the preview of that repair counts this and tells how many cells and   *)
(* nulls it changes. Only a clip may fall short: it moves the quartiles its bounds are of. *)
Elsewhere(proposal, found) == {f \in found : Members(f.columns) \cap proposal.columns = {}}
RepairsClearTheirIssue ==
    /\ \A r \in Members(runs) :
          r.quiet /\ disk[r.id].copy # NoCopy /\ r.proposal.operation # "clip" =>
            \E v \in Versions :
               /\ disk[r.id].copy = Of(v)
               /\ RuleFailures(r.proposal.detector, CopyTable(Of(v), r.proposal))
                     = Elsewhere(r.proposal, RuleFailures(r.proposal.detector, Tables[v]))
    /\ \A k \in DOMAIN answers : \A o \in Members(answers[k].outcomes) :
          o.call = "preview" /\ o.what = "done" /\ o.told.quiet =>
            \E v \in Versions :
               /\ o.told.copy = Of(v)
               /\ \E found \in {RuleFailures(o.told.proposal.detector, Tables[v])} :
                     LET t == o.told
                         copy == CopyTable(Of(v), t.proposal)
                     IN  /\ t.before = Cardinality(found)
                         /\ t.proposal.operation # "clip" => t.after = Cardinality(Elsewhere(t.proposal, found))
                         /\ t.affected = Cardinality(Moved(Tables[v], copy))
                         /\ t.examples = Sample(Tables[v], copy, ExampleCap)
                         /\ \A c \in DOMAIN t.stats : t.stats[c][1] = NullsOf(copy, c) - NullsOf(Tables[v], c)

(* A refusal leaves nothing behind: as long as nothing disturbs the commands, every       *)
(* artefact of a registered source belongs to a row or to an apply that is still running. *)
Running == {proc[p].run : p \in {q \in Procs : proc[q] # Idle}}
ArtefactsHaveARow ==
    Paths = Registered /\ changes = 0 =>
        \A id \in DOMAIN disk : Stored(id) # {} \/ id \in Running

(* A caller who is told that all went well finds it done: every item of the command was   *)
(* carried out or had no proposal, what was applied has a row, what was rolled back is     *)
(* marked so, whatever other processes have done to it since.                              *)
OkMeansDone ==
    \A k \in DOMAIN answers : answers[k].exit \in {"ok", "200", "redirect"} =>
        \A i \in DOMAIN answers[k].command.items :
            LET own == {o \in Members(answers[k].outcomes) : o.item = i}
            IN  \/ \E o \in own : o.what = "none"
                \/ \E o \in own :
                      /\ o.call = Last(answers[k].command.calls) /\ o.what = "done"
                      /\ o.call = "apply" => Stored(o.told.run) # {}
                      /\ o.call = "rollback" => \A r \in Stored(o.told.run) : r.status = "rolled_back"

(* A run that is marked as rolled back has its restored copy on disk, equal to the        *)
(* snapshot, even when several processes roll it back; an applied one has both artefacts  *)
(* unless somebody removed them.                                                          *)
RowsHaveTheirFiles ==
    \A r \in Members(runs) :
        LET d == disk[r.id]
        IN  /\ r.status = "rolled_back" => d.restored # Gone /\ d.before \in {d.restored, Gone}
            /\ changes = 0 => d.before # Gone /\ d.copy = r.fingerprint_after
============================================================================
