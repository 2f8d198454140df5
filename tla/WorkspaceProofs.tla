-------------------------- MODULE WorkspaceProofs --------------------------
(***************************************************************************)
(* Whoever has opened the workspace works on a complete schema, imports no *)
(* locked plugin that was changed, and refuses none that was not: for any  *)
(* processes, databases, plugins, edits, commands and crashes.             *)
(***************************************************************************)
EXTENDS Workspace, SequenceLemmas, TLAPS

(* A process is a record; what it has read and has still to do is in its fields. *)
ClientFields == {"stage", "version", "todo", "locks", "base", "skip", "stale", "loaded", "name",
                 "out", "outBase", "accepts", "then"}
DbFields == {"version", "columns", "cancelled", "tables"}
IsClient(r) == r = [f \in ClientFields |-> r[f]] /\ r.then \in {"import", "open"}
Shape ==
    /\ client = [p \in Clients |-> client[p]]
    /\ \A p \in Clients : IsClient(client[p])
    /\ db = [f \in DbFields |-> db[f]]

(* Migrations. A table has every column that its database's version says it has. A process past a *)
(* step of the migration knows it done, and what it does not know done is on its list.       *)
Before == {"closed", "schema"}
Migrating == {"column", "alter", "rebuild", "stamp"}
Complete(d) == d.version >= SCHEMA_VERSION /\ d.tables = AllTables /\ d.columns = AllColumns /\ d.cancelled
Recorded(d) ==
    /\ d.version \in Nat /\ d.columns \subseteq AllColumns /\ d.tables \subseteq AllTables
    /\ \A k \in DOMAIN Additions :
          Additions[k].below <= d.version /\ Additions[k].table \in d.tables => Additions[k].column \in d.columns
    /\ d.version >= 8 => d.cancelled
    /\ "scan_runs" \in d.tables \/ d.version = 0
Progress(r, d) ==
    /\ r.stage \in Migrating =>
          /\ d.tables = AllTables
          /\ r.todo \subseteq DOMAIN Additions
          /\ \A k \in DOMAIN Additions : Additions[k].column \in d.columns \/ k \in r.todo
          /\ r.version \in Nat /\ (r.version >= 8 => d.cancelled)
    /\ r.stage \in {"column", "alter"} => r.todo # {}
    /\ r.stage \in {"rebuild", "stamp"} => r.todo = {}
    /\ r.stage = "stamp" => d.cancelled
    /\ r.stage \notin Before \cup Migrating => Complete(d)
MigrationInv == Shape /\ Recorded(db) /\ \A p \in Clients : Progress(client[p], db)

(* Locks. The file says of every place what was accepted there. What a process read or is     *)
(* about to write says the same, as long as nobody has written the file since: later writes    *)
(* are blind.                                                                                  *)
Agree(locks, acc) ==
    \A b \in Bases : OwnName(b, acc[Dir(b)]) => b \in DOMAIN locks /\ locks[b] = acc[Dir(b)]
Replaced(acc, accepts) == [u \in Places |-> IF u \in DOMAIN accepts THEN accepts[u] ELSE acc[u]]
Noticed(r) == \A s \in r.stale : \E b \in Bases : s[1] = Dir(b) /\ OwnName(b, s[2]) /\ b \in r.skip
Holding == {"import", "open", "lock", "placeholder", "unlock"}
Current(r, file, cut, n, acc) ==
    /\ r.stage = "check" /\ r.base = n => r.locks = file
    /\ r.stage \in Holding /\ r.base = n /\ ~cut => Agree(r.locks, acc)
    /\ r.stage = "truncate" /\ r.outBase = n /\ ~cut =>
          Agree(r.out, Replaced(acc, r.accepts)) /\ (r.then = "import" => Noticed(r))
    /\ r.stage = "write" => Agree(r.out, Replaced(acc, r.accepts)) /\ (r.then = "import" => Noticed(r))
    /\ r.stage = "import" => Noticed(r)
    /\ r.loaded \cap r.stale = {}
Reads == {"locks", "check", "import"}
Past(r, n) ==
    /\ r.base \in Nat /\ r.base <= n /\ r.outBase \in Nat /\ r.outBase <= n
    /\ r.stage \in Reads \/ (r.stage \in {"truncate", "write"} /\ r.then = "import") => r.loaded = {}
FileInv ==
    /\ ~torn => Agree(lockFile, accepted)
    /\ \A p \in Clients : Current(client[p], lockFile, torn, revision, accepted)
    /\ \A p \in Clients : At(p, "write") => torn
    /\ \A p, q \in Clients : At(p, "write") /\ At(q, "write") => p = q
LockInv ==
    /\ Shape /\ revision \in Nat /\ torn \in BOOLEAN /\ blind \in BOOLEAN
    /\ torn => DOMAIN lockFile = {}
    /\ \A p \in Clients : Past(client[p], revision)
    /\ ~blind => FileInv

----------------------------------------------------------------------------
(* Records and numbers *)
LEMMA AdditionsShape ==
    /\ DOMAIN Additions \subseteq Nat /\ \A k \in DOMAIN Additions : Additions[k].below \in Nat \ {0}
    /\ \A k \in DOMAIN Additions : Additions[k].table \in AllTables
    /\ \A k \in DOMAIN Additions : Additions[k].column = "source_path" => Additions[k].table = "scan_runs"
  BY DEF Additions, AllTables, Tables
LEMMA TablesShape == DOMAIN Tables \subseteq Nat /\ "scan_runs" \in AllTables
  BY DEF Tables, AllTables
LEMMA FirstIsIn == ASSUME NEW T \in SUBSET Nat, T # {} PROVE First(T) \in T
  BY LeastOf DEF First
LEMMA ClientExcept ==
    ASSUME NEW r, IsClient(r), NEW x, NEW f \in ClientFields, f = "then" => x \in {"import", "open"}
    PROVE  IsClient([r EXCEPT ![f] = x])
  BY DEF IsClient, ClientFields
LEMMA ClosedClient == IsClient(Closed)
  BY DEF IsClient, Closed, ClientFields
LEMMA Moved ==
    ASSUME Shape, NEW p \in Clients, NEW r, Move(p, r)
    PROVE  /\ client' = [q \in Clients |-> client'[q]] /\ client'[p] = r
           /\ \A q \in Clients : q # p => client'[q] = client[q]
  BY DEF Shape, Move

----------------------------------------------------------------------------
(* Migrations *)
Grows(d, e) ==
    /\ d.columns \subseteq e.columns /\ (d.cancelled => e.cancelled) /\ d.tables \subseteq e.tables
    /\ d.version >= SCHEMA_VERSION => e.version >= SCHEMA_VERSION
LEMMA ProgressStays ==
    ASSUME NEW r, NEW d, NEW e, Progress(r, d), Grows(d, e), Recorded(e)
    PROVE  Progress(r, e)
<1>1. Complete(d) => Complete(e)
  BY DEF Complete, Grows, Recorded
<1>2. d.tables = AllTables => e.tables = AllTables
  BY DEF Grows, Recorded
<1> QED BY <1>1, <1>2 DEF Progress, Grows

LEMMA MigrationStep ==
    ASSUME MigrationInv, NEW p \in Clients, NEW r, Move(p, r), IsClient(r),
           db' = [f \in DbFields |-> db'[f]], Recorded(db'), Grows(db, db'), Progress(r, db')
    PROVE  MigrationInv'
<1>1. Shape'
  BY Moved DEF MigrationInv, Shape
<1>2. \A q \in Clients : Progress(client'[q], db')
  BY Moved, ProgressStays DEF MigrationInv
<1> QED BY <1>1, <1>2 DEF MigrationInv
LEMMA SameDatabase ==
    ASSUME MigrationInv, NEW p \in Clients, NEW r, Move(p, r), IsClient(r), UNCHANGED db, Progress(r, db)
    PROVE  MigrationInv'
<1>1. Grows(db, db')
  BY DEF Grows
<1> QED BY <1>1, MigrationStep DEF MigrationInv, Shape
LEMMA ClosedProgress == \A d : Progress(Closed, d)
  BY DEF Progress, Closed, Before, Migrating
(* Past the migration only the database matters. *)
LEMMA PastIt ==
    ASSUME MigrationInv, NEW p \in Clients, client[p].stage \notin Before \cup Migrating,
           NEW r, Move(p, r), IsClient(r), r.stage \notin Before \cup Migrating, UNCHANGED db
    PROVE  MigrationInv'
<1>1. Complete(db)
  BY DEF MigrationInv, Progress
<1>2. Progress(r, db)
  BY <1>1 DEF Progress, Before, Migrating
<1> QED BY <1>2, SameDatabase
LEMMA ClosingMigration ==
    ASSUME MigrationInv, NEW p \in Clients, Move(p, Closed), UNCHANGED db
    PROVE  MigrationInv'
  BY ClosedClient, ClosedProgress, SameDatabase

LEMMA NextColumnKeeps ==
    ASSUME MigrationInv, NEW p \in Clients, client[p].stage \in {"column", "alter"}, NextColumn(p),
           db' = [f \in DbFields |-> db'[f]], Recorded(db'), Grows(db, db'), Wanted(p) \in db'.columns
    PROVE  MigrationInv'
<1> DEFINE rest == client[p].todo \ {First(client[p].todo)}
           after == AfterAdding(client[p].version, rest)
           r == [client[p] EXCEPT !.todo = rest, !.stage = after]
<1>1. Progress(client[p], db')
  BY ProgressStays DEF MigrationInv
<1>2. /\ r.todo = rest /\ r.stage = after /\ r.version = client[p].version /\ r.then = client[p].then
      /\ IsClient(r)
  BY ZenonT(40) DEF MigrationInv, Shape, IsClient, ClientFields
<1>3. \A k \in DOMAIN Additions : Additions[k].column \in db'.columns \/ k \in rest
  BY <1>1 DEF Progress, Wanted, Migrating
<1>4. /\ rest = {} => after \in {"rebuild", "stamp"} /\ (after = "stamp" => client[p].version >= 8)
      /\ rest # {} => after = "column"
  <2>1. client[p].version \in Nat
    BY <1>1 DEF Progress, Migrating
  <2> QED BY <2>1 DEF AfterAdding, AfterColumns, NeedsRebuild
<1>5. Progress(r, db')
  <2> HIDE DEF rest, after, r
  <2>1. db'.tables = AllTables /\ rest \subseteq DOMAIN Additions /\ client[p].version \in Nat
        /\ (client[p].version >= 8 => db'.cancelled)
    BY <1>1 DEF Progress, rest, Migrating
  <2> QED BY <1>2, <1>3, <1>4, <2>1 DEF Progress, Before, Migrating
<1>6. Move(p, r)
  BY DEF NextColumn
<1> QED BY <1>2, <1>5, <1>6, MigrationStep

LEMMA OpenMigrates == ASSUME MigrationInv, NEW p \in Clients, Open(p) PROVE MigrationInv'
<1>1. IsClient([Closed EXCEPT !.stage = "schema"])
  BY ClosedClient, ClientExcept DEF ClientFields
<1>2. Progress([Closed EXCEPT !.stage = "schema"], db)
  BY DEF Progress, Closed, Before, Migrating
<1> QED BY <1>1, <1>2, SameDatabase DEF Open

(* A new table has what the DDL declares. scan_runs is missing only from a new database. *)
LEMMA CreateTableMigrates == ASSUME MigrationInv, NEW p \in Clients, CreateTable(p) PROVE MigrationInv'
<1> DEFINE table == Tables[First(Missing)].name
<1>1. /\ client' = client
      /\ db' = [db EXCEPT !.tables = @ \cup {table}, !.columns = @ \cup Declared(table),
                           !.cancelled = @ \/ table = "job_runs"]
  BY DEF CreateTable
<1>2. table \in AllTables /\ table \notin db.tables
  <2>1. Missing \in SUBSET Nat /\ Missing # {}
    BY TablesShape DEF CreateTable, Missing
  <2> QED BY <2>1, FirstIsIn DEF Missing, AllTables
<1> HIDE DEF table
<1>3. /\ db' = [f \in DbFields |-> db'[f]] /\ db'.columns = db.columns \cup Declared(table)
      /\ db'.tables = db.tables \cup {table} /\ db'.version = db.version
      /\ db'.cancelled = (db.cancelled \/ table = "job_runs")
  BY <1>1 DEF MigrationInv, Shape, DbFields
<1>4. Grows(db, db')
  BY <1>3 DEF Grows
<1>5. Recorded(db')
  <2>1. db'.columns \subseteq AllColumns /\ db'.tables \subseteq AllTables
    BY <1>2, <1>3 DEF MigrationInv, Recorded, Declared, AllColumns, ColumnsIn
  <2>2. ASSUME NEW k \in DOMAIN Additions, Additions[k].below <= db'.version, Additions[k].table \in db'.tables
        PROVE  Additions[k].column \in db'.columns
    <3>1. CASE Additions[k].table \in db.tables
      BY <1>3, <2>2, <3>1 DEF MigrationInv, Recorded
    <3>2. CASE Additions[k].table = table
      <4>1. db.version # 0
        BY <1>3, <2>2, AdditionsShape DEF MigrationInv, Recorded
      <4>2. Additions[k].column # "source_path"
        BY <1>2, <3>2, <4>1, AdditionsShape DEF MigrationInv, Recorded
      <4> QED BY <1>3, <3>2, <4>2 DEF Declared, ColumnsIn
    <3> QED BY <1>3, <2>2, <3>1, <3>2
  <2> QED BY <1>3, <2>1, <2>2 DEF MigrationInv, Recorded
<1>6. Shape'
  BY <1>1, <1>3 DEF MigrationInv, Shape
<1>7. \A q \in Clients : Progress(client'[q], db')
  BY <1>1, <1>4, <1>5, ProgressStays DEF MigrationInv
<1> QED BY <1>5, <1>6, <1>7 DEF MigrationInv

LEMMA ReadVersionMigrates == ASSUME MigrationInv, NEW p \in Clients, ReadVersion(p) PROVE MigrationInv'
<1> DEFINE todo == Pending(db.version)
           r == [client[p] EXCEPT !.version = db.version, !.todo = todo,
                                  !.stage = AfterAdding(db.version, todo)]
<1>1. UNCHANGED db /\ (Move(p, Closed) \/ Move(p, r))
  BY DEF ReadVersion, KeepAll
<1>2. db.tables = AllTables
  BY DEF ReadVersion, Missing, AllTables, MigrationInv, Recorded
<1>5. IsClient(r) /\ r.stage = AfterAdding(db.version, todo) /\ r.todo = todo /\ r.version = db.version
  BY DEF MigrationInv, Shape, IsClient, ClientFields
<1>6. Progress(r, db)
  <2>1. /\ todo \subseteq DOMAIN Additions /\ db.version \in Nat
        /\ \A k \in DOMAIN Additions : Additions[k].column \in db.columns \/ k \in todo
        /\ db.version >= 8 => db.cancelled
    BY <1>2, AdditionsShape DEF Pending, Recorded, MigrationInv
  <2>2. /\ todo = {} => r.stage \in {"rebuild", "stamp"} /\ (r.stage = "stamp" => db.version >= 8)
        /\ todo # {} => r.stage = "column"
    BY <1>5, <2>1 DEF AfterAdding, AfterColumns, NeedsRebuild
  <2> HIDE DEF todo, r
  <2> QED BY <1>2, <1>5, <2>1, <2>2 DEF Progress, Before, Migrating
<1> HIDE DEF r
<1> QED BY <1>1, <1>5, <1>6, SameDatabase, ClosingMigration

LEMMA LookForColumnMigrates == ASSUME MigrationInv, NEW p \in Clients, LookForColumn(p) PROVE MigrationInv'
<1> DEFINE r == [client[p] EXCEPT !.stage = "alter"]
<1>1. At(p, "column") /\ UNCHANGED db /\ (Move(p, r) \/ (NextColumn(p) /\ Wanted(p) \in db.columns))
  BY DEF LookForColumn, KeepAll
<1>2. CASE NextColumn(p) /\ Wanted(p) \in db.columns
  <2>1. Grows(db, db') /\ db' = [f \in DbFields |-> db'[f]] /\ Recorded(db')
    BY <1>1 DEF Grows, MigrationInv, Shape
  <2> QED BY <1>1, <1>2, <2>1, NextColumnKeeps DEF At
<1>3. CASE Move(p, r)
  <2>1. IsClient(r) /\ r.stage = "alter" /\ r.todo = client[p].todo /\ r.version = client[p].version
    BY DEF MigrationInv, Shape, IsClient, ClientFields
  <2>2. Progress(r, db)
    BY <1>1, <2>1 DEF MigrationInv, Progress, At, Before, Migrating
  <2> QED BY <1>1, <1>3, <2>1, <2>2, SameDatabase
<1> QED BY <1>1, <1>2, <1>3

LEMMA AlterTableMigrates == ASSUME MigrationInv, NEW p \in Clients, AlterTable(p) PROVE MigrationInv'
<1>1. At(p, "alter") /\ NextColumn(p) /\ db' = [db EXCEPT !.columns = @ \cup {Wanted(p)}]
  BY DEF AlterTable
<1>2. Wanted(p) \in AllColumns
  <2>1. client[p].todo \in SUBSET DOMAIN Additions /\ client[p].todo # {}
    BY <1>1 DEF MigrationInv, Progress, At, Migrating
  <2> QED BY <2>1, FirstIsIn, AdditionsShape DEF Wanted, AllColumns, ColumnsIn
<1>3. /\ db' = [f \in DbFields |-> db'[f]] /\ db'.columns = db.columns \cup {Wanted(p)}
      /\ db'.version = db.version /\ db'.cancelled = db.cancelled /\ db'.tables = db.tables
  BY <1>1 DEF MigrationInv, Shape, DbFields
<1>4. Recorded(db') /\ Grows(db, db')
  BY <1>2, <1>3 DEF MigrationInv, Recorded, Grows
<1> QED BY <1>1, <1>3, <1>4, NextColumnKeeps DEF At

LEMMA RebuildMigrates == ASSUME MigrationInv, NEW p \in Clients, Rebuild(p) PROVE MigrationInv'
<1> DEFINE r == [client[p] EXCEPT !.stage = "stamp"]
<1>1. CASE UNCHANGED db /\ Move(p, Closed)
  BY <1>1, ClosingMigration
<1>2. CASE db' = [db EXCEPT !.cancelled = TRUE] /\ Move(p, r)
  <2>1. /\ db' = [f \in DbFields |-> db'[f]] /\ db'.columns = db.columns
        /\ db'.version = db.version /\ db'.cancelled /\ db'.tables = db.tables
    BY <1>2 DEF MigrationInv, Shape, DbFields
  <2>2. Recorded(db') /\ Grows(db, db')
    BY <2>1 DEF MigrationInv, Recorded, Grows
  <2>3. IsClient(r) /\ r.stage = "stamp" /\ r.todo = client[p].todo /\ r.version = client[p].version
    BY DEF MigrationInv, Shape, IsClient, ClientFields
  <2>4. Progress(client[p], db') /\ client[p].stage = "rebuild"
    BY <2>2, ProgressStays DEF MigrationInv, Rebuild, At
  <2>5. Progress(r, db')
    BY <2>1, <2>3, <2>4 DEF Progress, Before, Migrating
  <2> QED BY <1>2, <2>1, <2>2, <2>3, <2>5, MigrationStep
<1> QED BY <1>1, <1>2 DEF Rebuild

LEMMA StampMigrates == ASSUME MigrationInv, NEW p \in Clients, Stamp(p) PROVE MigrationInv'
<1> DEFINE r == [Closed EXCEPT !.stage = "locks"]
<1>1. Move(p, r) /\ db' = [db EXCEPT !.version = SCHEMA_VERSION] /\ client[p].stage = "stamp"
  BY DEF Stamp, At
<1>2. /\ db' = [f \in DbFields |-> db'[f]] /\ db'.columns = db.columns
      /\ db'.version = SCHEMA_VERSION /\ db'.cancelled = db.cancelled /\ db'.tables = db.tables
  BY <1>1 DEF MigrationInv, Shape, DbFields
<1>3. /\ db.tables = AllTables /\ db.cancelled /\ \A k \in DOMAIN Additions : Additions[k].column \in db.columns
  BY <1>1 DEF MigrationInv, Progress, Migrating
<1>4. db.columns = AllColumns
  BY <1>3 DEF MigrationInv, Recorded, AllColumns, ColumnsIn
<1>5. Recorded(db') /\ Grows(db, db') /\ Complete(db')
  BY <1>2, <1>3, <1>4, TablesShape DEF Recorded, Grows, Complete, AllColumns, ColumnsIn, SCHEMA_VERSION
<1>6. IsClient(r) /\ r.stage = "locks"
  BY ClosedClient, ClientExcept DEF ClientFields, Closed
<1>7. Progress(r, db')
  BY <1>5, <1>6 DEF Progress, Before, Migrating
<1> QED BY <1>1, <1>2, <1>5, <1>6, <1>7, MigrationStep

(* The other steps of a process are taken past the migration, or close it. *)
LocksStep(p) ==
    \/ ReadLocks(p) \/ Check(p) \/ Truncate(p) \/ Write(p) \/ Import(p) \/ Copy(p) \/ Placeholder(p)
    \/ Lock(p) \/ Reaccept(p) \/ Uninstall(p) \/ Unlock(p)
LEMMA WritingClient ==
    ASSUME Shape, NEW p \in Clients, NEW locks, NEW accepts, NEW then \in {"import", "open"}
    PROVE  IsClient(Writing(p, locks, accepts, then))
  BY DEF Shape, IsClient, ClientFields, Writing
LEMMA LocksStepStays ==
    ASSUME Shape, NEW p \in Clients, LocksStep(p)
    PROVE  /\ UNCHANGED db /\ client[p].stage \notin Before \cup Migrating
           /\ \E r : /\ Move(p, r) /\ IsClient(r)
                     /\ r.stage \notin Before \cup Migrating \/ r = Closed
<1> DEFINE Good(r) == Move(p, r) /\ IsClient(r) /\ r.stage \notin Before \cup Migrating
<1>c. IsClient(client[p]) /\ IsClient(Closed)
  BY ClosedClient DEF Shape
<1>1. CASE ReadLocks(p)
  <2>1. Good([client[p] EXCEPT !.locks = from_file, !.base = revision, !.stage = "check"])
    BY <1>1, <1>c DEF ReadLocks, Before, Migrating, IsClient, ClientFields
  <2> QED BY <1>1, <2>1 DEF ReadLocks, KeepAll, At, Before, Migrating
<1>2. CASE Check(p)
  <2> DEFINE found == [Writing(p, WithNew(client[p].locks), [u \in NoLock(client[p].locks) |-> tree[u]], "import") EXCEPT
                       !.skip = {NameOf(u) : u \in Tampered(client[p].locks)}, !.stale = Changed]
  <2>1. IsClient(found) /\ found.stage = "truncate"
    BY <1>c DEF IsClient, ClientFields, Writing
  <2>2. IsClient([found EXCEPT !.stage = "import"]) /\ [found EXCEPT !.stage = "import"].stage = "import"
    <3>1. IsClient([found EXCEPT !.stage = "import"])
      BY <2>1, ClientExcept DEF ClientFields
    <3> HIDE DEF found
    <3> QED BY <2>1, <3>1 DEF IsClient, ClientFields
  <2>3. Move(p, IF Units = {} THEN [found EXCEPT !.stage = "import"] ELSE found)
    BY <1>2 DEF Check
  <2> HIDE DEF found
  <2> QED BY <1>2, <2>1, <2>2, <2>3 DEF Check, KeepAll, At, Before, Migrating
<1>3. CASE Truncate(p)
  <2>1. Good([client[p] EXCEPT !.stage = "write"])
    BY <1>3, <1>c DEF Truncate, Before, Migrating, IsClient, ClientFields
  <2> QED BY <1>3, <2>1 DEF Truncate, At, Before, Migrating
<1>4. CASE Write(p)
  <2> DEFINE base == IF client[p].out = client[p].locks THEN revision' ELSE client[p].base
             r == [client[p] EXCEPT !.stage = client[p].then, !.name = NoManifest, !.base = base,
                      !.out = <<>>, !.outBase = 0, !.accepts = <<>>, !.then = "open"]
  <2>1. Move(p, r)
    BY <1>4 DEF Write
  <2> HIDE DEF base
  <2>2. IsClient(r) /\ r.stage \in {"import", "open"}
    BY <1>c DEF IsClient, ClientFields
  <2> HIDE DEF r
  <2>3. Good(r)
    BY <2>1, <2>2 DEF Before, Migrating
  <2> QED BY <1>4, <2>3 DEF Write, At, Before, Migrating
<1>5. CASE Import(p)
  <2> DEFINE units == {u \in Units : NameOf(u) \notin client[p].skip}
             r == [client[p] EXCEPT !.loaded = {<<u, tree[u]>> : u \in units}, !.stage = "open"]
  <2>1. Move(p, Closed) \/ Move(p, r)
    BY <1>5 DEF Import, Fail
  <2>2. IsClient(r) /\ r.stage = "open"
    BY <1>c DEF IsClient, ClientFields
  <2> HIDE DEF r
  <2> QED BY <1>c, <1>5, <2>1, <2>2 DEF Import, Fail, KeepAll, At, Before, Migrating
<1>6. CASE Copy(p)
  <2>1. PICK s \in Sources :
           Move(p, [client[p] EXCEPT !.name = s.name, !.stage = IF s.manifest THEN "lock" ELSE "placeholder"])
    BY <1>6 DEF Copy
  <2> DEFINE next == IF s.manifest THEN "lock" ELSE "placeholder"
             r == [client[p] EXCEPT !.name = s.name, !.stage = next]
  <2>2. next \in {"lock", "placeholder"} /\ IsClient(r) /\ r.stage = next
    BY <1>c DEF IsClient, ClientFields
  <2> HIDE DEF next
  <2>3. Good(r)
    BY <2>1, <2>2 DEF Before, Migrating, next
  <2> QED BY <1>6, <2>3 DEF Copy, At, Before, Migrating
<1>7. CASE Placeholder(p)
  <2>1. Move(p, Closed) \/ Good([client[p] EXCEPT !.stage = "lock"])
    BY <1>7, <1>c DEF Placeholder, Before, Migrating, IsClient, ClientFields
  <2> QED BY <1>c, <1>7, <2>1 DEF Placeholder, At, Before, Migrating
<1>8. ASSUME NEW name, Accept(p, name), UNCHANGED db, client[p].stage \in {"lock", "open"}
      PROVE  UNCHANGED db /\ client[p].stage \notin Before \cup Migrating /\ \E r : Good(r)
  <2> DEFINE locks == set_plugin(client[p].locks, name, build_lock(name))
             accepts == [u \in {Dir(name)} |-> tree[u]]
             r == Writing(p, locks, accepts, "open")
  <2>1. Move(p, r)
    BY <1>8 DEF Accept
  <2> HIDE DEF locks, accepts
  <2>2. IsClient(r) /\ r.stage = "truncate"
    BY <1>c, WritingClient DEF Writing, IsClient, ClientFields
  <2> HIDE DEF r
  <2>3. Good(r)
    BY <2>1, <2>2 DEF Before, Migrating
  <2> QED BY <1>8, <2>3 DEF Before, Migrating
<1>9. CASE Lock(p)
  BY <1>8, <1>9 DEF Lock, KeepAll, At
<1>10. CASE Reaccept(p)
  BY <1>8, <1>10 DEF Reaccept, At
<1>11. CASE Uninstall(p)
  <2>1. PICK name \in Bases : Move(p, [client[p] EXCEPT !.name = name, !.stage = "unlock"])
    BY <1>11 DEF Uninstall
  <2>2. Good([client[p] EXCEPT !.name = name, !.stage = "unlock"])
    BY <1>c, <2>1 DEF Before, Migrating, IsClient, ClientFields
  <2> QED BY <1>11, <2>2 DEF Uninstall, At, Before, Migrating
<1>12. CASE Unlock(p)
  <2> DEFINE out == remove_plugin(from_file, client[p].name)
             accepts == [u \in KnownAs(client[p].name) |-> Absent]
             r == [client[p] EXCEPT !.out = out, !.outBase = revision, !.accepts = accepts,
                      !.then = "open", !.stage = "truncate"]
  <2>1. Move(p, r)
    BY <1>12 DEF Unlock
  <2> HIDE DEF out, accepts
  <2>2. IsClient(r) /\ r.stage = "truncate"
    BY <1>c DEF IsClient, ClientFields
  <2> HIDE DEF r
  <2>3. Good(r)
    BY <2>1, <2>2 DEF Before, Migrating
  <2> QED BY <1>12, <2>3 DEF Unlock, KeepAll, At, Before, Migrating
<1> QED
  BY <1>1, <1>2, <1>3, <1>4, <1>5, <1>6, <1>7, <1>9, <1>10, <1>11, <1>12 DEF LocksStep

LEMMA MigrationInductive == MigrationInv /\ [Next]_vars => MigrationInv'
<1> SUFFICES ASSUME MigrationInv, [Next]_vars PROVE MigrationInv'
  OBVIOUS
<1>1. CASE Edit \/ UNCHANGED vars
  BY <1>1 DEF Edit, vars, MigrationInv, Shape
<1>2. ASSUME NEW p \in Clients, Step(p) PROVE MigrationInv'
  <2>1. CASE LocksStep(p)
    <3>1. PICK r : Move(p, r) /\ IsClient(r) /\ (r.stage \notin Before \cup Migrating \/ r = Closed)
      BY <2>1, LocksStepStays DEF MigrationInv
    <3> QED BY <2>1, <3>1, LocksStepStays, PastIt, ClosingMigration DEF MigrationInv
  <2>2. CASE Busy(p) \/ Close(p) \/ Crash(p)
    BY <2>2, ClosingMigration DEF Busy, Close, Crash, Fail, KeepAll
  <2>3. CASE Open(p) \/ CreateTable(p) \/ ReadVersion(p) \/ LookForColumn(p) \/ AlterTable(p) \/ Rebuild(p) \/ Stamp(p)
    BY <2>3, OpenMigrates, CreateTableMigrates, ReadVersionMigrates, LookForColumnMigrates, AlterTableMigrates, RebuildMigrates,
       StampMigrates
  <2> QED BY <1>2, <2>1, <2>2, <2>3 DEF Step, LocksStep
<1> QED BY <1>1, <1>2 DEF Next

LEMMA MigrationInit == Init => MigrationInv
<1> SUFFICES ASSUME Init PROVE MigrationInv
  OBVIOUS
<1>1. PICK w \in Initial : db = w.db
  BY DEF Init
<1>2. db.version \in Nat /\ db = OfVersion(db.version)
  BY <1>1, DatabaseAssumption
<1> DEFINE v == db.version
           made == {x \in DOMAIN Tables : Tables[x].since <= v}
           tables == {Tables[x].name : x \in made}
           kept == {k \in DOMAIN Additions : Additions[k].below <= v /\ Additions[k].table \in tables}
           columns == ColumnsIn(kept)
           new == v >= 8
<1>3. db = [f \in DbFields |-> db[f]] /\ db.tables = tables /\ db.columns = columns /\ db.cancelled = new
  <2>1. db = [version |-> v, tables |-> tables, cancelled |-> new, columns |-> columns]
    BY <1>2 DEF OfVersion
  <2> HIDE DEF v, tables, columns, new
  <2> QED BY <2>1 DEF DbFields
<1>4. Recorded(db)
  <2>1. "scan_runs" \in db.tables \/ v = 0
    <3>1. v # 0 => 1 \in made /\ Tables[1].name = "scan_runs"
      BY <1>2 DEF Tables
    <3> QED BY <1>3, <3>1
  <2>2. db.columns \subseteq AllColumns /\ db.tables \subseteq AllTables
    BY <1>3 DEF AllColumns, ColumnsIn, AllTables
  <2>3. \A k \in DOMAIN Additions :
           Additions[k].below <= v /\ Additions[k].table \in db.tables => Additions[k].column \in db.columns
    BY <1>3 DEF ColumnsIn
  <2> QED BY <1>2, <1>3, <2>1, <2>2, <2>3 DEF Recorded
<1>5. Shape
  BY <1>3, ClosedClient DEF Init, Shape
<1> QED BY <1>4, <1>5, ClosedProgress DEF Init, MigrationInv

(* storage/schema.py, migrate: whichever processes open databases of whatever versions at the *)
(* same time, give up and die, one that is past its migration works on a complete schema.     *)
THEOREM SchemaComplete == Spec => []OpenedMeansMigrated
<1>1. MigrationInv => OpenedMeansMigrated
  BY DEF MigrationInv, Progress, OpenedMeansMigrated, Complete, Migrated, Before, Migrating
<1> QED BY <1>1, MigrationInit, MigrationInductive, PTL DEF Spec

----------------------------------------------------------------------------
(* Locks: steps that leave the file alone *)
LEMMA LockStep ==
    ASSUME LockInv, Shape', NEW p \in Clients, NEW r, Move(p, r), KeepLocks, UNCHANGED blind,
           r.stage # "write", Past(r, revision),
           ~blind => Current(r, lockFile, torn, revision, accepted)
    PROVE  LockInv'
<1>1. client'[p] = r /\ \A q \in Clients : q # p => client'[q] = client[q]
  BY Moved DEF LockInv
<1>2. /\ lockFile' = lockFile /\ torn' = torn /\ revision' = revision
      /\ accepted' = accepted /\ blind' = blind
  BY DEF KeepLocks
<1>3. \A q \in Clients : Past(client'[q], revision')
  BY <1>1, <1>2 DEF LockInv
<1>4. ASSUME ~blind' PROVE FileInv'
  <2>1. \A q \in Clients : Current(client'[q], lockFile', torn', revision', accepted')
    BY <1>1, <1>2, <1>4 DEF LockInv, FileInv
  <2>2. \A q \in Clients : client'[q].stage = "write" => client[q].stage = "write"
    BY <1>1
  <2>3. /\ ~torn' => Agree(lockFile', accepted')
        /\ \A q \in Clients : client'[q].stage = "write" => torn'
        /\ \A q, o \in Clients : client'[q].stage = "write" /\ client'[o].stage = "write" => q = o
    BY <1>2, <1>4, <2>2 DEF LockInv, FileInv, At
  <2> QED BY <2>1, <2>3 DEF FileInv, At
<1> QED BY <1>2, <1>3, <1>4 DEF LockInv

Stays(r, s) ==
    /\ s.base = r.base /\ s.outBase = r.outBase /\ s.loaded = r.loaded /\ s.stale = r.stale
    /\ \/ s.stage \in Migrating
       \/ s.stage \in Holding \ {"import"} /\ r.stage \in Holding /\ s.locks = r.locks
LEMMA QuietStep ==
    ASSUME LockInv, Shape', NEW p \in Clients, NEW r, Move(p, r), KeepLocks, UNCHANGED blind, Stays(client[p], r)
    PROVE  LockInv'
<1>1. r.stage \notin Reads \cup {"truncate", "write"}
  BY DEF Stays, Migrating, Holding, Reads
<1>2. Past(r, revision)
  BY <1>1 DEF Past, LockInv, Stays
<1>3. ASSUME ~blind PROVE Current(r, lockFile, torn, revision, accepted)
  <2>1. Current(client[p], lockFile, torn, revision, accepted)
    BY <1>3 DEF LockInv, FileInv
  <2> QED BY <2>1 DEF Current, Stays, Migrating, Holding
<1> QED BY <1>1, <1>2, <1>3, LockStep

LEMMA NewStep ==
    ASSUME LockInv, Shape', NEW p \in Clients, NEW x \in {"closed", "schema", "locks"},
           Move(p, [Closed EXCEPT !.stage = x]), KeepLocks, UNCHANGED blind
    PROVE  LockInv'
<1> DEFINE r == [Closed EXCEPT !.stage = x]
<1>1. r.stage = x /\ r.base = 0 /\ r.outBase = 0 /\ r.loaded = {} /\ r.stale = {} /\ r.then = "open"
  BY DEF Closed
<1> HIDE DEF r
<1>2. Past(r, revision)
  BY <1>1 DEF Past, LockInv
<1>3. Current(r, lockFile, torn, revision, accepted)
  BY <1>1 DEF Current, Holding
<1> QED BY <1>1, <1>2, <1>3, LockStep DEF r
LEMMA ClosingStep ==
    ASSUME LockInv, Shape', NEW p \in Clients, Move(p, Closed), KeepLocks, UNCHANGED blind
    PROVE  LockInv'
<1>1. Closed = [Closed EXCEPT !.stage = "closed"]
  <2>1. Closed.stage = "closed"
    BY DEF Closed
  <2> QED BY <2>1, ClosedClient DEF IsClient
<1> QED BY <1>1, NewStep

LEMMA NextColumnStep ==
    ASSUME LockInv, Shape', NEW p \in Clients, NextColumn(p), KeepLocks, UNCHANGED blind
    PROVE  LockInv'
<1> DEFINE rest == client[p].todo \ {First(client[p].todo)}
           after == AfterAdding(client[p].version, rest)
           r == [client[p] EXCEPT !.todo = rest, !.stage = after]
<1>1. Move(p, r)
  BY DEF NextColumn
<1>2. after \in Migrating
  BY DEF AfterAdding, AfterColumns, Migrating
<1> HIDE DEF after
<1>3. Stays(client[p], r)
  BY <1>2 DEF Stays, LockInv, Shape, IsClient, ClientFields
<1> QED BY <1>1, <1>3, QuietStep

LEMMA MigratingStep ==
    ASSUME LockInv, Shape', NEW p \in Clients,
           Open(p) \/ ReadVersion(p) \/ LookForColumn(p) \/ AlterTable(p) \/ Rebuild(p) \/ Stamp(p)
    PROVE  LockInv'
<1>k. UNCHANGED blind /\ KeepLocks
  BY DEF Open, ReadVersion, LookForColumn, AlterTable, Rebuild, Stamp, KeepAll, KeepFiles
<1>1. CASE Open(p)
  BY <1>1, <1>k, NewStep DEF Open
<1>2. CASE ReadVersion(p)
  <2> DEFINE todo == Pending(db.version)
             after == AfterAdding(db.version, todo)
             r == [client[p] EXCEPT !.version = db.version, !.todo = todo, !.stage = after]
  <2>1. Move(p, Closed) \/ Move(p, r)
    BY <1>2 DEF ReadVersion
  <2>2. after \in Migrating
    BY DEF AfterAdding, AfterColumns, Migrating
  <2> HIDE DEF after
  <2>3. Stays(client[p], r)
    BY <2>2 DEF Stays, LockInv, Shape, IsClient, ClientFields
  <2> QED BY <1>k, <2>1, <2>3, QuietStep, ClosingStep
<1>3. CASE LookForColumn(p)
  <2>1. Stays(client[p], [client[p] EXCEPT !.stage = "alter"])
    BY DEF Stays, LockInv, Shape, IsClient, ClientFields, Migrating
  <2> QED BY <1>3, <1>k, <2>1, QuietStep, NextColumnStep DEF LookForColumn
<1>4. CASE AlterTable(p)
  BY <1>4, <1>k, NextColumnStep DEF AlterTable
<1>5. CASE Rebuild(p)
  <2>1. Stays(client[p], [client[p] EXCEPT !.stage = "stamp"])
    BY DEF Stays, LockInv, Shape, IsClient, ClientFields, Migrating
  <2> QED BY <1>5, <1>k, <2>1, QuietStep, ClosingStep DEF Rebuild
<1>6. CASE Stamp(p)
  BY <1>6, <1>k, NewStep DEF Stamp
<1> QED BY <1>1, <1>2, <1>3, <1>4, <1>5, <1>6

LEMMA HoldingStep ==
    ASSUME LockInv, Shape', NEW p \in Clients, Copy(p) \/ Placeholder(p) \/ Uninstall(p)
    PROVE  LockInv'
<1>k. UNCHANGED blind /\ KeepLocks
  BY DEF Copy, Placeholder, Uninstall
<1>1. ASSUME NEW name, NEW x \in {"lock", "placeholder"}, At(p, "open"),
             Move(p, [client[p] EXCEPT !.name = name, !.stage = x])
      PROVE  LockInv'
  <2>1. Stays(client[p], [client[p] EXCEPT !.name = name, !.stage = x])
    BY <1>1 DEF Stays, LockInv, Shape, IsClient, ClientFields, At, Holding
  <2> QED BY <1>1, <1>k, <2>1, QuietStep
<1>2. CASE Copy(p)
  <2>1. PICK s \in Sources :
           Move(p, [client[p] EXCEPT !.name = s.name, !.stage = IF s.manifest THEN "lock" ELSE "placeholder"])
    BY <1>2 DEF Copy
  <2>2. (IF s.manifest THEN "lock" ELSE "placeholder") \in {"lock", "placeholder"}
    OBVIOUS
  <2> QED BY <1>1, <1>2, <2>1, <2>2 DEF Copy
<1>3. CASE Placeholder(p)
  <2>1. Stays(client[p], [client[p] EXCEPT !.stage = "lock"])
    BY <1>3 DEF Placeholder, Stays, LockInv, Shape, IsClient, ClientFields, At, Holding
  <2> QED BY <1>3, <1>k, <2>1, QuietStep, ClosingStep DEF Placeholder
<1>4. CASE Uninstall(p)
  <2>1. PICK name \in Bases : Move(p, [client[p] EXCEPT !.name = name, !.stage = "unlock"])
    BY <1>4 DEF Uninstall
  <2>2. client[p].stage = "open"
    BY <1>4 DEF Uninstall, At
  <2>3. Stays(client[p], [client[p] EXCEPT !.name = name, !.stage = "unlock"])
    BY <2>2 DEF Stays, LockInv, Shape, IsClient, ClientFields, Holding
  <2> QED BY <1>k, <2>1, <2>3, QuietStep
<1> QED BY <1>2, <1>3, <1>4

LEMMA ReadLocksStep == ASSUME LockInv, Shape', NEW p \in Clients, ReadLocks(p) PROVE LockInv'
<1> DEFINE r == [client[p] EXCEPT !.locks = from_file, !.base = revision, !.stage = "check"]
<1>1. /\ r.locks = lockFile /\ r.base = revision /\ r.stage = "check" /\ r.outBase = client[p].outBase
      /\ r.loaded = client[p].loaded
  BY DEF LockInv, Shape, IsClient, ClientFields, from_file
<1>2. Move(p, r) /\ KeepLocks /\ UNCHANGED blind /\ At(p, "locks")
  BY DEF ReadLocks, KeepAll, KeepFiles
<1> HIDE DEF r
<1>3. Past(client[p], revision) /\ r.loaded = {}
  BY <1>1, <1>2 DEF LockInv, Past, Reads, At
<1>4. Past(r, revision)
  BY <1>1, <1>3 DEF Past, LockInv
<1>5. Current(r, lockFile, torn, revision, accepted)
  BY <1>1, <1>3 DEF Current, Holding
<1> QED BY <1>1, <1>2, <1>4, <1>5, LockStep

----------------------------------------------------------------------------
(* Locks: checking, accepting and removing. What is checked against locks that agree with what *)
(* was accepted agrees with it again, and names what was changed.                              *)
LEMMA DirIsPlace == \A b \in Bases : Dir(b) \in Places /\ Dir(b).kind = "dir" /\ Dir(b).base = b
  BY DEF Dir, Places
LEMMA OwnUnit ==
    ASSUME NEW b \in Bases, OwnName(b, tree[Dir(b)])
    PROVE  Dir(b) \in Units /\ NameOf(Dir(b)) = b
  BY DirIsPlace, WorkspaceAssumption DEF OwnName, Units, NameOf
LEMMA NewLocksAgree ==
    ASSUME NEW locks, Agree(locks, accepted)
    PROVE  Agree(WithNew(locks), Replaced(accepted, [u \in NoLock(locks) |-> tree[u]]))
<1> DEFINE new == [u \in NoLock(locks) |-> tree[u]]
           now == Replaced(accepted, new)
           out == WithNew(locks)
<1>1. /\ DOMAIN out = DOMAIN locks \cup {NameOf(u) : u \in NoLock(locks)}
      /\ \A n \in DOMAIN out : out[n] = IF n \in DOMAIN locks THEN locks[n] ELSE tree[Dir(n)]
  BY DEF WithNew, build_lock
<1>2. \A u \in Places : now[u] = IF u \in NoLock(locks) THEN tree[u] ELSE accepted[u]
  BY DEF Replaced
<1>3. ASSUME NEW b \in Bases, OwnName(b, now[Dir(b)])
      PROVE  b \in DOMAIN out /\ out[b] = now[Dir(b)]
  <2>1. CASE Dir(b) \in NoLock(locks)
    <3>1. OwnName(b, tree[Dir(b)]) /\ now[Dir(b)] = tree[Dir(b)]
      BY <1>2, <1>3, <2>1, DirIsPlace
    <3>2. NameOf(Dir(b)) = b /\ b \notin DOMAIN locks
      BY <2>1, <3>1, OwnUnit DEF NoLock
    <3> HIDE DEF out
    <3> QED BY <1>1, <2>1, <3>1, <3>2
  <2>2. CASE Dir(b) \notin NoLock(locks)
    <3>1. now[Dir(b)] = accepted[Dir(b)]
      BY <1>2, <2>2, DirIsPlace
    <3>2. b \in DOMAIN locks /\ locks[b] = accepted[Dir(b)]
      BY <1>3, <3>1 DEF Agree
    <3> HIDE DEF out
    <3> QED BY <1>1, <3>1, <3>2
  <2> QED BY <2>1, <2>2
<1> HIDE DEF now, out
<1> QED BY <1>3 DEF Agree, now, out
LEMMA ChangedIsNoticed ==
    ASSUME NEW locks, Agree(locks, accepted),
           NEW r, r.skip = {NameOf(u) : u \in Tampered(locks)}, r.stale = Changed
    PROVE  Noticed(r)
<1> SUFFICES ASSUME NEW s \in Changed
             PROVE  \E b \in Bases : s[1] = Dir(b) /\ OwnName(b, s[2]) /\ b \in r.skip
  BY DEF Noticed
<1>1. PICK b \in Bases : /\ s = <<Dir(b), tree[Dir(b)]>> /\ OwnName(b, tree[Dir(b)])
                         /\ OwnName(b, accepted[Dir(b)]) /\ tree[Dir(b)] # accepted[Dir(b)]
  BY DEF Changed
<1>2. Dir(b) \in Units /\ NameOf(Dir(b)) = b
  BY <1>1, OwnUnit
<1>3. b \in DOMAIN locks /\ locks[b] # tree[Dir(b)]
  BY <1>1 DEF Agree
<1>4. Dir(b) \in Tampered(locks)
  BY <1>2, <1>3 DEF Tampered, NoLock
<1>5. b \in r.skip
  BY <1>2, <1>4
<1>6. s[1] = Dir(b) /\ s[2] = tree[Dir(b)]
  BY <1>1
<1> QED BY <1>1, <1>5, <1>6

(* While there is no plugin, nothing is written, and nothing was changed. *)
LEMMA NothingToLock ==
    ASSUME Units = {}, NEW locks
    PROVE  /\ Changed = {} /\ NoLock(locks) = {}
           /\ DOMAIN WithNew(locks) = DOMAIN locks /\ \A n \in DOMAIN locks : WithNew(locks)[n] = locks[n]
<1>1. NoLock(locks) = {}
  BY DEF NoLock
<1>2. Changed = {}
  <2>1. \A b \in Bases : ~OwnName(b, tree[Dir(b)])
    BY OwnUnit
  <2> QED BY <2>1 DEF Changed
<1> QED BY <1>1, <1>2 DEF WithNew

LEMMA CheckStep == ASSUME LockInv, Shape', NEW p \in Clients, Check(p) PROVE LockInv'
<1> DEFINE locks == client[p].locks
           new == [u \in NoLock(locks) |-> tree[u]]
           skip == {NameOf(u) : u \in Tampered(locks)}
           found == [Writing(p, WithNew(locks), new, "import") EXCEPT !.skip = skip, !.stale = Changed]
           r == IF Units = {} THEN [found EXCEPT !.stage = "import"] ELSE found
<1>1. Move(p, r) /\ KeepLocks /\ UNCHANGED blind /\ At(p, "check")
  BY DEF Check, KeepAll, KeepFiles
<1>2. IsClient(client[p])
  BY DEF LockInv, Shape
<1>3. /\ found.locks = WithNew(locks) /\ found.out = WithNew(locks) /\ found.accepts = new
      /\ found.outBase = client[p].base /\ found.base = client[p].base /\ found.loaded = client[p].loaded
      /\ found.skip = skip /\ found.stale = Changed /\ found.stage = "truncate" /\ found.then = "import"
      /\ found = [f \in ClientFields |-> found[f]]
  <2> HIDE DEF new, skip
  <2> QED BY <1>2 DEF Writing, IsClient, ClientFields
<1>4. Past(client[p], revision) /\ client[p].loaded = {}
  BY <1>1 DEF LockInv, Past, At, Reads
<1>5. ~blind => Current(client[p], lockFile, torn, revision, accepted) /\ (~torn => Agree(lockFile, accepted))
  BY DEF LockInv, FileInv
<1>6. ~blind /\ ~torn /\ client[p].base = revision => Agree(locks, accepted)
  BY <1>1, <1>5 DEF Current, At
<1>7. CASE Units # {}
  <2>1. r = found
    BY <1>7
  <2> HIDE DEF found, r, new, skip
  <2>2. Past(found, revision)
    BY <1>3, <1>4 DEF Past, LockInv
  <2>3. ~blind /\ ~torn /\ client[p].base = revision =>
           Agree(found.out, Replaced(accepted, found.accepts)) /\ Noticed(found)
    <3>1. Agree(locks, accepted) => Agree(WithNew(locks), Replaced(accepted, new))
      BY NewLocksAgree DEF new
    <3>2. Agree(locks, accepted) => Noticed(found)
      BY <1>3, ChangedIsNoticed DEF skip
    <3> QED BY <1>3, <1>6, <3>1, <3>2
  <2>4. ~blind => Current(found, lockFile, torn, revision, accepted)
    BY <1>3, <1>4, <2>3 DEF Current, Holding
  <2> QED BY <1>1, <1>3, <2>1, <2>2, <2>4, LockStep
<1>8. CASE Units = {}
  <2>1. r = [found EXCEPT !.stage = "import"]
    BY <1>8
  <2> HIDE DEF found, new, skip
  <2>2. /\ r.stage = "import" /\ r.locks = found.locks /\ r.base = found.base /\ r.outBase = found.outBase
        /\ r.loaded = found.loaded /\ r.stale = found.stale
    BY <1>3, <2>1 DEF ClientFields
  <2> HIDE DEF r
  <2>3. r.stale = {} /\ DOMAIN r.locks = DOMAIN locks /\ \A n \in DOMAIN locks : r.locks[n] = locks[n]
    BY <1>3, <1>8, <2>2, NothingToLock
  <2>4. Past(r, revision)
    BY <1>3, <1>4, <2>2 DEF Past, LockInv
  <2>5. Agree(locks, accepted) => Agree(r.locks, accepted)
    BY <2>3 DEF Agree
  <2>6. ~blind => Current(r, lockFile, torn, revision, accepted)
    BY <1>3, <1>4, <1>6, <2>2, <2>3, <2>5 DEF Current, Noticed, Holding
  <2> QED BY <1>1, <2>2, <2>4, <2>6, LockStep
<1> QED BY <1>7, <1>8

LEMMA AcceptStep ==
    ASSUME LockInv, Shape', NEW p \in Clients, NEW name, Accept(p, name), KeepLocks, UNCHANGED blind,
           client[p].stage \in {"lock", "open"}
    PROVE  LockInv'
<1> DEFINE locks == client[p].locks
           files == tree[Dir(name)]
           out == set_plugin(locks, name, files)
           accepts == [u \in {Dir(name)} |-> tree[u]]
           r == Writing(p, out, accepts, "open")
<1>1. Move(p, r)
  BY DEF Accept, build_lock
<1>2. IsClient(client[p])
  BY DEF LockInv, Shape
<1>3. /\ r.out = out /\ r.accepts = accepts /\ r.outBase = client[p].base /\ r.base = client[p].base
      /\ r.loaded = client[p].loaded /\ r.stale = client[p].stale /\ r.stage = "truncate" /\ r.then = "open"
  <2> HIDE DEF out, accepts
  <2> QED BY <1>2 DEF Writing, IsClient, ClientFields
<1>4. Past(client[p], revision) /\ (~blind => Current(client[p], lockFile, torn, revision, accepted))
  BY DEF LockInv, FileInv
<1>5. ASSUME Agree(locks, accepted) PROVE Agree(out, Replaced(accepted, accepts))
  <2>1. \A u \in Places : Replaced(accepted, accepts)[u] = IF u = Dir(name) THEN tree[u] ELSE accepted[u]
    BY DEF Replaced
  <2>2. /\ DOMAIN out = DOMAIN locks \cup {name}
        /\ \A n \in DOMAIN out : out[n] = IF n = name THEN files ELSE locks[n]
    BY DEF set_plugin
  <2>3. \A b \in Bases : Dir(b) = Dir(name) <=> b = name
    BY DEF Dir
  <2> HIDE DEF out, accepts
  <2> QED BY <1>5, <2>1, <2>2, <2>3, DirIsPlace DEF Agree
<1> HIDE DEF r, out, accepts
<1>6. Past(r, revision)
  BY <1>3, <1>4 DEF Past, LockInv, Reads
<1>7. ~blind => Current(r, lockFile, torn, revision, accepted)
  BY <1>3, <1>4, <1>5 DEF Current, Holding
<1> QED BY <1>1, <1>3, <1>6, <1>7, LockStep

LEMMA UnlockStep == ASSUME LockInv, Shape', NEW p \in Clients, Unlock(p) PROVE LockInv'
<1> DEFINE name == client[p].name
           out == remove_plugin(lockFile, name)
           accepts == [u \in KnownAs(name) |-> Absent]
           r == [client[p] EXCEPT !.out = out, !.outBase = revision, !.accepts = accepts,
                    !.then = "open", !.stage = "truncate"]
<1>1. Move(p, r) /\ KeepLocks /\ UNCHANGED blind
  BY DEF Unlock, from_file, KeepAll, KeepFiles
<1>2. /\ r.out = out /\ r.accepts = accepts /\ r.outBase = revision /\ r.base = client[p].base
      /\ r.loaded = client[p].loaded /\ r.stale = client[p].stale /\ r.stage = "truncate" /\ r.then = "open"
  <2> HIDE DEF out, accepts
  <2> QED BY DEF LockInv, Shape, IsClient, ClientFields
<1>3. Past(client[p], revision) /\ (~blind => Current(client[p], lockFile, torn, revision, accepted))
  BY DEF LockInv, FileInv
<1>4. ASSUME Agree(lockFile, accepted) PROVE Agree(out, Replaced(accepted, accepts))
  <2>1. \A u \in Places : Replaced(accepted, accepts)[u] = IF u \in KnownAs(name) THEN Absent ELSE accepted[u]
    BY DEF Replaced
  <2>2. DOMAIN out = DOMAIN lockFile \ {name} /\ \A n \in DOMAIN out : out[n] = lockFile[n]
    BY DEF remove_plugin
  <2> HIDE DEF out, accepts
  <2>3. ASSUME NEW b \in Bases, OwnName(b, Replaced(accepted, accepts)[Dir(b)])
        PROVE  b \in DOMAIN out /\ out[b] = Replaced(accepted, accepts)[Dir(b)]
    <3>1. Dir(b) \notin KnownAs(name) /\ OwnName(b, accepted[Dir(b)])
          /\ Replaced(accepted, accepts)[Dir(b)] = accepted[Dir(b)]
      BY <2>1, <2>3, DirIsPlace DEF OwnName
    <3>2. b # name
      BY <3>1, DirIsPlace DEF KnownAs, OwnName
    <3> QED BY <1>4, <2>2, <3>1, <3>2 DEF Agree
  <2> QED BY <2>3 DEF Agree
<1> HIDE DEF r, out, accepts
<1>5. Past(r, revision)
  BY <1>2, <1>3 DEF Past, LockInv, Reads
<1>6. ~blind /\ ~torn => Agree(lockFile, accepted)
  BY DEF LockInv, FileInv
<1>7. ~blind => Current(r, lockFile, torn, revision, accepted)
  BY <1>2, <1>3, <1>4, <1>6 DEF Current, Holding
<1> QED BY <1>1, <1>2, <1>5, <1>7, LockStep

----------------------------------------------------------------------------
(* Locks: writing the file *)
LEMMA TruncateStep == ASSUME LockInv, Shape', NEW p \in Clients, Truncate(p) PROVE LockInv'
<1> DEFINE r == [client[p] EXCEPT !.stage = "write"]
<1>1. /\ Move(p, r) /\ client[p].stage = "truncate" /\ DOMAIN lockFile' = {} /\ torn' = TRUE
      /\ revision' = revision + 1 /\ blind' = (blind \/ torn \/ client[p].outBase # revision)
      /\ accepted' = accepted
  BY DEF Truncate, At
<1>2. client'[p] = r /\ \A q \in Clients : q # p => client'[q] = client[q]
  BY <1>1, Moved DEF LockInv
<1>3. /\ r.stage = "write" /\ r.out = client[p].out /\ r.accepts = client[p].accepts /\ r.then = client[p].then
      /\ r.loaded = client[p].loaded /\ r.stale = client[p].stale /\ r.skip = client[p].skip
      /\ r.base = client[p].base /\ r.outBase = client[p].outBase
  BY DEF LockInv, Shape, IsClient, ClientFields
<1> HIDE DEF r
<1>4. \A q \in Clients : Past(client'[q], revision')
  <2>1. Past(r, revision')
    BY <1>1, <1>3 DEF LockInv, Past, Reads
  <2>2. \A q \in Clients : Past(client[q], revision')
    BY <1>1 DEF LockInv, Past
  <2> QED BY <1>2, <2>1, <2>2
<1>5. ASSUME ~blind' PROVE FileInv'
  <2>1. ~blind /\ ~torn /\ client[p].outBase = revision
    BY <1>1, <1>5 DEF LockInv
  <2>2. FileInv /\ \A q \in Clients : client[q].stage # "write"
    BY <2>1 DEF LockInv, FileInv, At
  <2>3. Current(r, lockFile', torn', revision', accepted')
    <3>1. Current(client[p], lockFile, torn, revision, accepted)
      BY <2>2 DEF FileInv
    <3> QED BY <1>1, <1>3, <2>1, <3>1 DEF Current, Holding, Noticed
  <2>4. \A q \in Clients : Current(client[q], lockFile', torn', revision', accepted')
    <3>1. SUFFICES ASSUME NEW q \in Clients PROVE Current(client[q], lockFile', torn', revision', accepted')
      OBVIOUS
    <3>2. Current(client[q], lockFile, torn, revision, accepted) /\ Past(client[q], revision)
      BY <2>2 DEF FileInv, LockInv
    <3>3. client[q].base # revision' /\ client[q].outBase # revision'
      BY <1>1, <3>2 DEF Past, LockInv
    <3> QED BY <1>1, <2>2, <3>2, <3>3 DEF Current
  <2>5. \A q \in Clients : client'[q].stage = "write" => q = p
    BY <1>2, <2>2
  <2> QED BY <1>1, <1>2, <2>3, <2>4, <2>5 DEF FileInv, At
<1> QED BY <1>1, <1>4, <1>5 DEF LockInv

LEMMA WriteStep == ASSUME LockInv, Shape', NEW p \in Clients, Write(p) PROVE LockInv'
<1> DEFINE base == IF client[p].out = client[p].locks THEN revision' ELSE client[p].base
           r == [client[p] EXCEPT !.stage = client[p].then, !.name = NoManifest, !.base = base,
                    !.out = <<>>, !.outBase = 0, !.accepts = <<>>, !.then = "open"]
<1>1. /\ Move(p, r) /\ client[p].stage = "write" /\ lockFile' = client[p].out /\ torn' = FALSE
      /\ revision' = revision + 1 /\ blind' = blind /\ accepted' = Replaced(accepted, client[p].accepts)
  BY DEF Write, At, Replaced
<1>2. client'[p] = r /\ \A q \in Clients : q # p => client'[q] = client[q]
  BY <1>1, Moved DEF LockInv
<1>3. /\ r.stage = client[p].then /\ r.base = base /\ r.outBase = 0 /\ r.locks = client[p].locks
      /\ r.loaded = client[p].loaded /\ r.stale = client[p].stale /\ r.skip = client[p].skip
      /\ r.then = "open" /\ client[p].then \in {"import", "open"}
  <2> HIDE DEF base
  <2> QED BY DEF LockInv, Shape, IsClient, ClientFields
<1> HIDE DEF r
<1>4. \A q \in Clients : Past(client'[q], revision')
  <2>0. Past(client[p], revision) /\ revision \in Nat
    BY DEF LockInv
  <2>1. base \in Nat /\ base <= revision'
    BY <1>1, <2>0 DEF Past
  <2>2. r.stage = "import" => r.loaded = {}
    BY <1>1, <1>3, <2>0 DEF Past
  <2> HIDE DEF base
  <2>3. Past(r, revision')
    BY <1>1, <1>3, <2>0, <2>1, <2>2 DEF Past, Reads
  <2>4. \A q \in Clients : Past(client[q], revision')
    BY <1>1 DEF LockInv, Past
  <2> QED BY <1>2, <2>3, <2>4
<1>5. ASSUME ~blind' PROVE FileInv'
  <2>1. FileInv
    BY <1>1, <1>5 DEF LockInv
  <2>2. Current(client[p], lockFile, torn, revision, accepted) /\ Past(client[p], revision)
    BY <2>1 DEF FileInv, LockInv
  <2>3. Agree(lockFile', accepted')
    BY <1>1, <2>2 DEF Current
  <2>4. base = revision' => client[p].locks = client[p].out
    BY <1>1, <2>2 DEF Past, LockInv
  <2>5. Current(r, lockFile', torn', revision', accepted')
    <3>1. base = revision' => Agree(r.locks, accepted')
      BY <1>1, <1>3, <2>3, <2>4
    <3>2. r.stage = "import" => Noticed(r)
      BY <1>1, <1>3, <2>2 DEF Current, Noticed
    <3> HIDE DEF base
    <3> QED BY <1>3, <2>2, <3>1, <3>2 DEF Current
  <2>6. \A q \in Clients : q # p => Current(client[q], lockFile', torn', revision', accepted')
    <3>1. SUFFICES ASSUME NEW q \in Clients, q # p PROVE Current(client[q], lockFile', torn', revision', accepted')
      OBVIOUS
    <3>2. Current(client[q], lockFile, torn, revision, accepted) /\ Past(client[q], revision)
      BY <2>1 DEF FileInv, LockInv
    <3>3. client[q].base # revision' /\ client[q].outBase # revision'
      BY <1>1, <3>2 DEF Past, LockInv
    <3>4. client[q].stage # "write"
      BY <1>1, <2>1, <3>1 DEF FileInv, At
    <3> QED BY <3>2, <3>3, <3>4 DEF Current
  <2>7. \A q \in Clients : client'[q].stage # "write"
    BY <1>1, <1>2, <1>3, <2>1 DEF FileInv, At
  <2> QED BY <1>2, <2>3, <2>5, <2>6, <2>7 DEF FileInv, At
<1>6. revision' \in Nat /\ torn' = FALSE /\ blind' \in BOOLEAN
  BY <1>1 DEF LockInv
<1> QED BY <1>4, <1>5, <1>6 DEF LockInv

LEMMA ImportStep == ASSUME LockInv, Shape', NEW p \in Clients, Import(p) PROVE LockInv'
<1> DEFINE units == {u \in Units : NameOf(u) \notin client[p].skip}
           loaded == {<<u, tree[u]>> : u \in units}
           r == [client[p] EXCEPT !.loaded = loaded, !.stage = "open"]
<1>1. KeepLocks /\ UNCHANGED blind /\ client[p].stage = "import" /\ (Move(p, Closed) \/ Move(p, r))
  BY DEF Import, Fail, KeepAll, KeepFiles, At
<1>2. /\ r.loaded = loaded /\ r.stage = "open" /\ r.stale = client[p].stale /\ r.base = client[p].base
      /\ r.outBase = client[p].outBase /\ r.locks = client[p].locks
  <2> HIDE DEF loaded
  <2> QED BY DEF LockInv, Shape, IsClient, ClientFields
<1> HIDE DEF r
<1>3. Past(r, revision)
  BY <1>2 DEF LockInv, Past, Reads
<1>4. ASSUME ~blind PROVE Current(r, lockFile, torn, revision, accepted)
  <2>1. Current(client[p], lockFile, torn, revision, accepted) /\ Noticed(client[p])
    BY <1>1, <1>4 DEF LockInv, FileInv, Current
  <2>2. ASSUME NEW s \in loaded, s \in client[p].stale PROVE FALSE
    <3>1. PICK b \in Bases : s[1] = Dir(b) /\ OwnName(b, s[2]) /\ b \in client[p].skip
      BY <2>1, <2>2 DEF Noticed
    <3>2. PICK u \in units : s = <<u, tree[u]>>
      BY <2>2
    <3>3. u = Dir(b) /\ tree[u].manifest = b
      BY <3>1, <3>2 DEF OwnName
    <3>4. NameOf(u) = b
      BY <3>3, DirIsPlace DEF NameOf
    <3> QED BY <3>1, <3>2, <3>4
  <2>3. loaded \cap client[p].stale = {}
    BY <2>2
  <2> HIDE DEF loaded
  <2> QED BY <1>1, <1>2, <2>1, <2>3 DEF Current, Holding
<1> QED BY <1>1, <1>2, <1>3, <1>4, LockStep, ClosingStep

LEMMA LockInductive == MigrationInv /\ LockInv /\ [Next]_vars => LockInv'
<1> SUFFICES ASSUME MigrationInv, LockInv, [Next]_vars PROVE LockInv'
  OBVIOUS
<1>s. Shape'
  BY MigrationInductive DEF MigrationInv
<1>1. CASE Edit \/ UNCHANGED vars \/ \E p \in Clients : CreateTable(p)
  <2>1. UNCHANGED <<client, lockFile, torn, revision, accepted, blind>>
    BY <1>1 DEF Edit, CreateTable, vars, KeepFiles, KeepLocks
  <2> QED BY <1>s, <2>1 DEF LockInv, Shape, FileInv, At
<1>2. ASSUME NEW p \in Clients, Step(p), ~CreateTable(p) PROVE LockInv'
  <2>1. CASE Open(p) \/ ReadVersion(p) \/ LookForColumn(p) \/ AlterTable(p) \/ Rebuild(p) \/ Stamp(p)
    BY <1>s, <2>1, MigratingStep
  <2>2. CASE Copy(p) \/ Placeholder(p) \/ Uninstall(p)
    BY <1>s, <2>2, HoldingStep
  <2>3. CASE ReadLocks(p) \/ Check(p) \/ Truncate(p) \/ Write(p) \/ Import(p) \/ Unlock(p)
    BY <1>s, <2>3, ReadLocksStep, CheckStep, TruncateStep, WriteStep, ImportStep, UnlockStep
  <2>4. CASE Lock(p)
    BY <1>s, <2>4, AcceptStep DEF Lock, At, KeepAll, KeepFiles
  <2>5. CASE Reaccept(p)
    BY <1>s, <2>5, AcceptStep DEF Reaccept, At
  <2>6. CASE Busy(p) \/ Close(p) \/ Crash(p)
    BY <1>s, <2>6, ClosingStep DEF Busy, Close, Crash, Fail, KeepAll, KeepFiles
  <2> QED BY <1>2, <2>1, <2>2, <2>3, <2>4, <2>5, <2>6 DEF Step
<1> QED BY <1>1, <1>2 DEF Next
LEMMA LockInit == Init => LockInv
<1> SUFFICES ASSUME Init PROVE LockInv
  OBVIOUS
<1>1. Shape
  BY MigrationInit DEF MigrationInv
<1>2. /\ lockFile = <<>> /\ torn = FALSE /\ revision = 0 /\ blind = FALSE
      /\ \A p \in Clients : client[p] = Closed
      /\ \A b \in Bases : accepted[Dir(b)] = Absent
  BY DirIsPlace DEF Init
<1>3. Agree(lockFile, accepted)
  BY <1>2 DEF Agree, OwnName
<1>4. Past(Closed, 0) /\ Current(Closed, lockFile, torn, 0, accepted) /\ Closed.stage = "closed"
  BY DEF Closed, Past, Current, Reads, Holding
<1> QED BY <1>1, <1>2, <1>3, <1>4 DEF LockInv, FileInv, At

(* plugin_locks.py: as long as every write of the lock file replaced what it was based on, a    *)
(* locked plugin that was changed since is imported by no process that opens the workspace.     *)
THEOREM EditsNoticed == Spec => []EditsAreNoticed
<1>1. LockInv => EditsAreNoticed
  BY DEF LockInv, FileInv, Current, EditsAreNoticed
<1>2. Init => MigrationInv /\ LockInv
  BY MigrationInit, LockInit
<1>3. MigrationInv /\ LockInv /\ [Next]_vars => (MigrationInv /\ LockInv)'
  BY MigrationInductive, LockInductive
<1> QED BY <1>1, <1>2, <1>3, PTL DEF Spec

(* plugin_locks.py: a plugin that is as it was when it was locked is refused by no process that *)
(* has read the present lock file.                                                              *)
LEMMA RefusalsAreJust ==
    ASSUME LockInv, NEW p \in Clients, At(p, "check"), ~blind, client[p].base = revision, Check(p),
           NEW u \in Units, Regular(u), accepted[u] = tree[u]
    PROVE  NameOf(u) \notin client'[p].skip
<1> DEFINE locks == client[p].locks
<1>1. client'[p].skip = {NameOf(w) : w \in Tampered(locks)}
  <2> DEFINE new == [w \in NoLock(locks) |-> tree[w]]
             skip == {NameOf(w) : w \in Tampered(locks)}
             found == [Writing(p, WithNew(locks), new, "import") EXCEPT !.skip = skip, !.stale = Changed]
             r == IF Units = {} THEN [found EXCEPT !.stage = "import"] ELSE found
  <2>1. Move(p, r)
    BY DEF Check
  <2>2. found.skip = skip /\ found = [f \in ClientFields |-> found[f]]
    <3> HIDE DEF new, skip
    <3> QED BY DEF LockInv, Shape, Writing, IsClient, ClientFields
  <2> HIDE DEF found, skip
  <2>3. r.skip = skip
    BY <2>2 DEF ClientFields
  <2> QED BY <2>1, <2>3, Moved DEF LockInv, skip
<1>2. SUFFICES ASSUME NEW w \in Tampered(locks), NameOf(w) = NameOf(u) PROVE FALSE
  BY <1>1
<1>3. w = u
  BY <1>2 DEF Tampered, Regular
<1>4. PICK b \in Bases : u = Dir(b) /\ NameOf(u) = b /\ OwnName(b, tree[Dir(b)])
  <2>1. u \in Places /\ tree[u] # Absent /\ u.kind = "dir" /\ NameOf(u) = u.base
    BY DEF Units, Regular
  <2>2. u = Dir(u.base) /\ u.base \in Bases
    BY <2>1 DEF Places, Dir
  <2> QED BY <2>1, <2>2 DEF OwnName, NameOf
<1>5. locks = lockFile /\ (~torn => Agree(lockFile, accepted))
  BY DEF LockInv, FileInv, Current, At
<1>6. b \in DOMAIN locks /\ locks[b] # tree[u]
  BY <1>3, <1>4 DEF Tampered, NoLock
<1>7. ~torn
  BY <1>5, <1>6 DEF LockInv
<1> QED BY <1>4, <1>5, <1>6, <1>7 DEF Agree

THEOREM LockedLoad == Spec => LockedPluginsLoad
<1> DEFINE Just(p) ==
      At(p, "check") /\ client'[p].stage \in {"truncate", "import"} /\ ~blind /\ client[p].base = revision =>
         \A u \in Units : Regular(u) /\ accepted[u] = tree[u] => NameOf(u) \notin client'[p].skip
<1>1. ASSUME LockInv, [Next]_vars, NEW p \in Clients PROVE Just(p)
  <2> SUFFICES ASSUME At(p, "check"), client'[p].stage \in {"truncate", "import"}, ~blind,
                      client[p].base = revision
               PROVE  Check(p)
    BY <1>1, RefusalsAreJust
  <2>1. client'[p] # client[p]
    BY DEF At
  <2>2. CASE Edit \/ UNCHANGED vars \/ \E q \in Clients : CreateTable(q)
    BY <2>1, <2>2 DEF Edit, CreateTable, vars
  <2>3. ASSUME NEW q \in Clients, Step(q), ~CreateTable(q) PROVE Check(p)
    <3>1. ASSUME q # p, NEW r, Move(q, r) PROVE FALSE
      BY <1>1, <2>1, <3>1, Moved DEF LockInv
    <3>2. q = p
      <4>1. CASE LocksStep(q)
        BY <3>1, <4>1, <1>1, LocksStepStays DEF LockInv
      <4>2. CASE ~LocksStep(q)
        BY <2>3, <3>1, <4>2 DEF Step, LocksStep, Open, ReadVersion, LookForColumn, AlterTable, NextColumn,
           Rebuild, Stamp, Busy, Close, Crash, Fail
      <4> QED BY <4>1, <4>2
    <3>3. Check(p) \/ Busy(p) \/ Crash(p)
      BY <2>3, <3>2 DEF Step, At, Open, ReadVersion, LookForColumn, AlterTable, Rebuild, Stamp, ReadLocks,
         Truncate, Write, Import, Copy, Placeholder, Lock, Reaccept, Uninstall, Unlock, Close
    <3>4. ~Crash(p) /\ ~Busy(p)
      <4>1. client'[p] # Closed
        BY DEF Closed
      <4> QED BY <1>1, <4>1, Moved DEF LockInv, Crash, Busy, Fail
    <3> QED BY <3>3, <3>4
  <2> QED BY <1>1, <2>2, <2>3 DEF Next
<1>2. Init => MigrationInv /\ LockInv
  BY MigrationInit, LockInit
<1>3. MigrationInv /\ LockInv /\ [Next]_vars => (MigrationInv /\ LockInv)'
  BY MigrationInductive, LockInductive
<1>4. LockInv /\ [Next]_vars => [\A p \in Clients : Just(p)]_vars
  BY <1>1
<1> QED BY <1>2, <1>3, <1>4, PTL DEF Spec, LockedPluginsLoad
=============================================================================
