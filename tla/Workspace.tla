------------------------------- MODULE Workspace -------------------------------
(***************************************************************************)
(* Opening a workspace: every DataSentry object first migrates the         *)
(* metadata store (storage/schema.py), then checks the plugins against     *)
(* plugin_locks.json, locks the new ones, writes the file and imports what *)
(* is not tampered with (client.py, plugin_locks.py, plugins.py); and the  *)
(* commands that install, remove and accept plugins. Other processes do    *)
(* the same, users edit the plugins by hand, and a process may die, at any *)
(* of these steps.                                                         *)
(*                                                                         *)
(* A plugin is a directory with a manifest, or a flat file of the plugins  *)
(* directory. Its content stands for the files and their hashes.           *)
(***************************************************************************)
EXTENDS Naturals, Sequences, FiniteSets

CONSTANTS
    Clients,      \* the processes that hold a DataSentry object
    Bases,        \* the names of directories and stems of files
    Bodies,       \* what a plugin's code may be
    Broken,       \* the bodies whose import raises
    DetectorOf,   \* body |-> the detector it registers
    NoManifest, Absent,
    Initial,      \* the databases and plugins that workspaces begin with
    Sources,      \* what `plugin install` is given
    Edits,        \* place |-> the contents a user may put there
    MaxCalls, MaxChanges, MaxCrashes

ASSUME WorkspaceAssumption ==
    /\ Broken \subseteq Bodies /\ NoManifest \notin Bases
    /\ \A s \in Sources : s.name \in Bases /\ s.body \in Bodies /\ s.manifest \in BOOLEAN

VARIABLES
    db,         \* metadata.db: user_version, tables, columns, and whether job_runs admits cancelled
    tree,       \* the plugins directory
    lockFile,   \* what plugin_locks.json reads as: nothing, while it is missing or cut short
    torn,       \* it was emptied and not written yet
    revision,   \* how often it was emptied or written
    client,     \* what each process has come to
    accepted,   \* the content a place had when its lock was last written
    blind,      \* some write of the locks was not based on the ones it replaced
    calls, changes, crashes
vars == <<db, tree, lockFile, torn, revision, client, accepted, blind, calls, changes, crashes>>

----------------------------------------------------------------------------
(* Plugins and locks. *)
Places == [kind : {"dir", "flat"}, base : Bases]
Dir(b) == [kind |-> "dir", base |-> b]
Contents == [manifest : Bases \cup {NoManifest}, body : Bodies]

(* plugin_units: a directory without a manifest is no plugin. *)
Units == {u \in Places : tree[u] # Absent /\ (u.kind = "dir" => tree[u].manifest # NoManifest)}
NameOf(u) == IF u.kind = "dir" THEN tree[u].manifest ELSE u.base

(* build_lock of plugins_root / name, which no flat plugin is: no files, if nothing is there. *)
build_lock(name) == tree[Dir(name)]

from_file == lockFile
set_plugin_Keeps(locks, name, files) ==
    [n \in DOMAIN locks \cup {name} |-> IF n \in DOMAIN locks THEN locks[n] ELSE files]
set_plugin(locks, name, files) == [n \in DOMAIN locks \cup {name} |-> IF n = name THEN files ELSE locks[n]]
remove_plugin(locks, name) == [n \in DOMAIN locks \ {name} |-> locks[n]]
NoLock(locks) == {u \in Units : NameOf(u) \notin DOMAIN locks}
Tampered(locks) == {u \in Units \ NoLock(locks) : locks[NameOf(u)] # tree[u]}

----------------------------------------------------------------------------
(* Migrations. *)
SCHEMA_VERSION == 10
(* The tables that have gained columns, in the order in which _SCHEMA_DDL creates them, and the *)
(* version that brought them.                                                                  *)
Tables == <<[name |-> "scan_runs", since |-> 1], [name |-> "repair_proposals", since |-> 1],
            [name |-> "repair_runs", since |-> 1], [name |-> "llm_invocations", since |-> 1],
            [name |-> "scheduled_jobs", since |-> 4], [name |-> "job_runs", since |-> 4]>>
AllTables == {Tables[k].name : k \in DOMAIN Tables}
(* The columns in the order in which migrate adds them; what a process has still to add is *)
(* a set of places in that order.                                                          *)
Additions == <<[below |-> 2, table |-> "repair_proposals", column |-> "issue_type"],
               [below |-> 2, table |-> "repair_runs", column |-> "proposal_id"],
               [below |-> 3, table |-> "llm_invocations", column |-> "pii_session_id"],
               [below |-> 5, table |-> "scheduled_jobs", column |-> "gate_quality_min"],
               [below |-> 6, table |-> "job_runs", column |-> "file_hash"],
               [below |-> 6, table |-> "job_runs", column |-> "skipped"],
               [below |-> 7, table |-> "scheduled_jobs", column |-> "export_report"],
               [below |-> 9, table |-> "scan_runs", column |-> "source_path"],
               [below |-> 10, table |-> "repair_runs", column |-> "source_scan_run_id"]>>
ColumnsIn(additions) == {Additions[k].column : k \in additions}
AllColumns == ColumnsIn(DOMAIN Additions)
(* A table created by the present DDL has all of its columns, but for the source_path of scan_runs. *)
Declared(table) == ColumnsIn({k \in DOMAIN Additions : Additions[k].table = table}) \ {"source_path"}
(* What a version left behind: of version 0, a new database without tables. *)
OfVersion(v) ==
    LET tables == {Tables[k].name : k \in {x \in DOMAIN Tables : Tables[x].since <= v}}
    IN  [version |-> v, tables |-> tables, cancelled |-> v >= 8,
         columns |-> ColumnsIn({k \in DOMAIN Additions : Additions[k].below <= v /\ Additions[k].table \in tables})]
Pending(v) == {k \in DOMAIN Additions : v < Additions[k].below}
First(todo) == CHOOSE k \in todo : \A x \in todo : k <= x
Missing == {k \in DOMAIN Tables : Tables[k].name \notin db.tables}
(* A workspace begins with a database that some version has left, or with none. *)
ASSUME DatabaseAssumption ==
    \A w \in Initial : w.db.version \in Nat /\ w.db = OfVersion(w.db.version)
NeedsRebuild_OffByOne(v) == v < 7
NeedsRebuild(v) == v < 8

----------------------------------------------------------------------------
Closed == [stage |-> "closed", version |-> 0, todo |-> {}, locks |-> <<>>, base |-> 0,
           skip |-> {}, stale |-> {}, loaded |-> {}, name |-> NoManifest,
           out |-> <<>>, outBase |-> 0, accepts |-> <<>>, then |-> "open"]
At(p, stage) == client[p].stage = stage
Move(p, done) == client' = [client EXCEPT ![p] = done]
Bounds == <<calls, changes, crashes>>
Called == calls < MaxCalls /\ calls' = calls + 1
KeepLocks == UNCHANGED <<lockFile, torn, revision, accepted>>
KeepFiles == KeepLocks /\ UNCHANGED <<tree, blind, Bounds>>
KeepAll == UNCHANGED db /\ KeepFiles
Fail(p) == Move(p, Closed) /\ KeepAll

(* DataSentry() opens the store. *)
Open(p) ==
    /\ At(p, "closed") /\ Called
    /\ Move(p, [Closed EXCEPT !.stage = "schema"])
    /\ KeepLocks /\ UNCHANGED <<db, tree, blind, changes, crashes>>
(* executescript: the tables that are missing are created, each in a transaction of its own. *)
CreateTable(p) ==
    /\ At(p, "schema") /\ Missing # {}
    /\ LET table == Tables[First(Missing)].name
       IN  db' = [db EXCEPT !.tables = @ \cup {table}, !.columns = @ \cup Declared(table),
                            !.cancelled = @ \/ table = "job_runs"]
    /\ UNCHANGED client /\ KeepFiles
AfterColumns(version) == IF NeedsRebuild(version) THEN "rebuild" ELSE "stamp"
AfterAdding(version, todo) == IF todo = {} THEN AfterColumns(version) ELSE "column"
ReadVersion(p) ==
    /\ At(p, "schema") /\ Missing = {}
    /\ IF db.version > SCHEMA_VERSION THEN Move(p, Closed)
       ELSE Move(p, [client[p] EXCEPT !.version = db.version, !.todo = Pending(db.version),
                       !.stage = AfterAdding(db.version, Pending(db.version))])
    /\ KeepAll
(* _ensure_column: the table is looked at, and then altered. *)
Wanted(p) == Additions[First(client[p].todo)].column
NextColumn(p) ==
    LET rest == client[p].todo \ {First(client[p].todo)}
    IN  Move(p, [client[p] EXCEPT !.todo = rest, !.stage = AfterAdding(client[p].version, rest)])
LookForColumn(p) ==
    /\ At(p, "column")
    /\ IF Wanted(p) \in db.columns THEN NextColumn(p) ELSE Move(p, [client[p] EXCEPT !.stage = "alter"])
    /\ KeepAll
(* Another process may have added it meanwhile: a duplicate column is no error. *)
AlterTable(p) ==
    /\ At(p, "alter")
    /\ db' = [db EXCEPT !.columns = @ \cup {Wanted(p)}]
    /\ NextColumn(p)
    /\ KeepFiles
(* One transaction, which copies columns that an older table may lack. *)
Rebuild(p) ==
    /\ At(p, "rebuild")
    /\ IF {"file_hash", "skipped"} \subseteq db.columns
       THEN /\ db' = [db EXCEPT !.cancelled = TRUE]
            /\ Move(p, [client[p] EXCEPT !.stage = "stamp"])
       ELSE UNCHANGED db /\ Move(p, Closed)
    /\ KeepFiles
Stamp(p) ==
    /\ At(p, "stamp")
    /\ db' = [db EXCEPT !.version = SCHEMA_VERSION]
    /\ Move(p, [Closed EXCEPT !.stage = "locks"])
    /\ KeepFiles
(* Another writer holds the database for longer than the five seconds of busy_timeout. *)
Busy(p) ==
    /\ client[p].stage \in {"schema", "alter", "rebuild", "stamp"}
    /\ \E q \in Clients \ {p} : client[q].stage # "closed"
    /\ Fail(p)

----------------------------------------------------------------------------
(* The locks and the import. *)
ReadLocks(p) ==
    /\ At(p, "locks")
    /\ Move(p, [client[p] EXCEPT !.locks = from_file, !.base = revision, !.stage = "check"])
    /\ KeepAll
(* The locks are written from memory, whatever the file holds by now. *)
Writing(p, locks, accepts, then) ==
    [client[p] EXCEPT !.locks = locks, !.out = locks, !.outBase = client[p].base,
                      !.accepts = accepts, !.then = then, !.stage = "truncate"]
WithNew_All(locks) ==
    [n \in DOMAIN locks \cup {NameOf(u) : u \in Units} |->
        IF \E u \in Units : NameOf(u) = n THEN build_lock(n) ELSE locks[n]]
WithNew(locks) ==
    [n \in DOMAIN locks \cup {NameOf(u) : u \in NoLock(locks)} |->
        IF n \in DOMAIN locks THEN locks[n] ELSE build_lock(n)]
(* The directories named like their manifest that are no longer what they were when they *)
(* were locked.                                                                          *)
OwnName(b, content) == content # Absent /\ content.manifest = b
Changed ==
    {<<Dir(b), tree[Dir(b)]>> : b \in {x \in Bases : /\ OwnName(x, tree[Dir(x)]) /\ OwnName(x, accepted[Dir(x)])
                                                    /\ tree[Dir(x)] # accepted[Dir(x)]}}
Check(p) ==
    /\ At(p, "check")
    /\ LET locks == client[p].locks
           new   == [u \in NoLock(locks) |-> tree[u]]
           found == [Writing(p, WithNew(locks), new, "import") EXCEPT
                       !.skip = {NameOf(u) : u \in Tampered(locks)}, !.stale = Changed]
       IN  Move(p, IF Units = {} THEN [found EXCEPT !.stage = "import"] ELSE found)
    /\ KeepAll
(* to_file: write_text empties the file before it writes. *)
Truncate(p) ==
    /\ At(p, "truncate")
    /\ lockFile' = <<>> /\ torn' = TRUE /\ revision' = revision + 1
    /\ blind' = (blind \/ torn \/ client[p].outBase # revision)
    /\ Move(p, [client[p] EXCEPT !.stage = "write"])
    /\ UNCHANGED <<db, tree, accepted, Bounds>>
Write(p) ==
    /\ At(p, "write")
    /\ lockFile' = client[p].out /\ torn' = FALSE /\ revision' = revision + 1
    /\ accepted' = [u \in Places |-> IF u \in DOMAIN client[p].accepts THEN client[p].accepts[u] ELSE accepted[u]]
    /\ Move(p, [client[p] EXCEPT !.stage = client[p].then, !.name = NoManifest,
                   !.base = IF client[p].out = client[p].locks THEN revision' ELSE @,
                   !.out = <<>>, !.outBase = 0, !.accepts = <<>>, !.then = "open"])
    /\ UNCHANGED <<db, tree, blind, Bounds>>
(* An import that raises, and a detector registered twice, end the construction. *)
LoadFails(units) ==
    \/ \E u \in units : tree[u].body \in Broken
    \/ \E u, w \in units : u # w /\ DetectorOf[tree[u].body] = DetectorOf[tree[w].body]
Import(p) ==
    /\ At(p, "import")
    /\ LET units == {u \in Units : NameOf(u) \notin client[p].skip}
       IN  IF LoadFails(units) THEN Fail(p)
           ELSE /\ Move(p, [client[p] EXCEPT !.loaded = {<<u, tree[u]>> : u \in units}, !.stage = "open"])
                /\ KeepAll

----------------------------------------------------------------------------
(* plugin install, uninstall and reaccept. A source is copied under the name of its *)
(* manifest, or of itself; without a manifest it is given one.                      *)
Copy(p) ==
    /\ At(p, "open") /\ Called
    /\ \E s \in Sources :
          /\ tree[Dir(s.name)] = Absent
          /\ tree' = [tree EXCEPT ![Dir(s.name)] =
                         [manifest |-> IF s.manifest THEN s.name ELSE NoManifest, body |-> s.body]]
          /\ Move(p, [client[p] EXCEPT !.name = s.name, !.stage = IF s.manifest THEN "lock" ELSE "placeholder"])
    /\ KeepLocks /\ UNCHANGED <<db, blind, changes, crashes>>
Placeholder(p) ==
    /\ At(p, "placeholder")
    /\ IF tree[Dir(client[p].name)] = Absent THEN UNCHANGED tree /\ Move(p, Closed)
       ELSE /\ tree' = [tree EXCEPT ![Dir(client[p].name)].manifest = client[p].name]
            /\ Move(p, [client[p] EXCEPT !.stage = "lock"])
    /\ KeepLocks /\ UNCHANGED <<db, blind, Bounds>>
Accept(p, name) ==
    Move(p, Writing(p, set_plugin(client[p].locks, name, build_lock(name)),
                    [u \in {Dir(name)} |-> tree[u]], "open"))
Lock(p) == At(p, "lock") /\ Accept(p, client[p].name) /\ KeepAll
Reaccept(p) ==
    /\ At(p, "open") /\ Called
    /\ \E name \in Bases : tree[Dir(name)] # Absent /\ Accept(p, name)
    /\ KeepLocks /\ UNCHANGED <<db, tree, blind, changes, crashes>>
Uninstall(p) ==
    /\ At(p, "open") /\ Called
    /\ \E name \in Bases :
          /\ tree[Dir(name)] # Absent
          /\ tree' = [tree EXCEPT ![Dir(name)] = Absent]
          /\ Move(p, [client[p] EXCEPT !.name = name, !.stage = "unlock"])
    /\ KeepLocks /\ UNCHANGED <<db, blind, changes, crashes>>
(* The places locked under a name. *)
KnownAs(name) == {u \in Places : accepted[u] # Absent /\ name = IF u.kind = "dir" THEN accepted[u].manifest ELSE u.base}
(* uninstall reads the file again, and leaves the locks in memory as they are. *)
Unlock(p) ==
    /\ At(p, "unlock")
    /\ Move(p, [client[p] EXCEPT !.out = remove_plugin(from_file, client[p].name), !.outBase = revision,
                   !.accepts = [u \in KnownAs(client[p].name) |-> Absent], !.then = "open", !.stage = "truncate"])
    /\ KeepAll
Close(p) == At(p, "open") /\ Fail(p)

(* Users copy, edit and delete plugins; processes die. *)
Edit ==
    /\ changes < MaxChanges
    /\ \E u \in Places : \E content \in Edits[u] :
          tree[u] # content /\ tree' = [tree EXCEPT ![u] = content]
    /\ changes' = changes + 1
    /\ KeepLocks /\ UNCHANGED <<db, client, blind, calls, crashes>>
Crash(p) ==
    /\ crashes < MaxCrashes /\ client[p].stage # "closed"
    /\ crashes' = crashes + 1
    /\ Move(p, Closed)
    /\ KeepLocks /\ UNCHANGED <<db, tree, blind, calls, changes>>

Init ==
    /\ \E w \in Initial : db = w.db /\ tree = w.tree
    /\ lockFile = <<>> /\ torn = FALSE /\ revision = 0 /\ client = [p \in Clients |-> Closed]
    /\ accepted = [u \in Places |-> Absent] /\ blind = FALSE
    /\ calls = 0 /\ changes = 0 /\ crashes = 0
Step(p) ==
    \/ Open(p) \/ CreateTable(p) \/ ReadVersion(p) \/ LookForColumn(p) \/ AlterTable(p) \/ Rebuild(p)
    \/ Stamp(p) \/ Busy(p)
    \/ ReadLocks(p) \/ Check(p) \/ Truncate(p) \/ Write(p) \/ Import(p)
    \/ Copy(p) \/ Placeholder(p) \/ Lock(p) \/ Reaccept(p) \/ Uninstall(p) \/ Unlock(p)
    \/ Close(p) \/ Crash(p)
Next == Edit \/ \E p \in Clients : Step(p)
Spec == Init /\ [][Next]_vars

----------------------------------------------------------------------------
(* Properties. *)
Migrated == db.version >= SCHEMA_VERSION /\ db.tables = AllTables /\ db.columns = AllColumns /\ db.cancelled
(* migrate: whoever has come past it works on a complete schema, whichever processes migrated *)
(* the database at the same time and wherever some of them died.                              *)
OpenedMeansMigrated ==
    \A p \in Clients : client[p].stage \notin {"closed", "schema", "column", "alter", "rebuild", "stamp"} => Migrated

(* plugin_locks.py: a locked plugin that was changed since is imported by no process that     *)
(* opens the workspace, until it is accepted or installed anew - as long as every write of    *)
(* the lock file replaced what it was based on, and the plugin kept its name.                 *)
EditsAreNoticed == ~blind => \A p \in Clients : client[p].loaded \cap client[p].stale = {}

(* A directory named like its manifest, the only unit of that name. *)
Regular(u) == u.kind = "dir" /\ NameOf(u) = u.base /\ \A w \in Units \ {u} : NameOf(w) # u.base
(* The error of a tampered plugin is no false alarm: one that is as it was when it was locked *)
(* is never skipped by a process that has read the present lock file, after any installs,     *)
(* removals and crashes.                                                                      *)
LockedPluginsLoad ==
    [][\A p \in Clients :
         At(p, "check") /\ client'[p].stage \in {"truncate", "import"} /\ ~blind /\ client[p].base = revision =>
            \A u \in Units : Regular(u) /\ accepted[u] = tree[u] => NameOf(u) \notin client'[p].skip]_vars
=============================================================================
