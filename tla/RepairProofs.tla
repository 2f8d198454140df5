---------------------------- MODULE RepairProofs ----------------------------
(***************************************************************************)
(* Repairs leave the repair directory and repair_runs in agreement, however*)
(* the steps of the commands of any processes interleave with each other,  *)
(* with edits of the sources, lost artefacts and crashes, for any paths,   *)
(* versions and commands. What nobody disturbed is told and done truly: a  *)
(* copy has the cells its records name, and clears what it is for.         *)
(***************************************************************************)
EXTENDS Repair, SequenceLemmas, FiniteSetTheorems, TLAPS

ProcFields == {"command", "item", "call", "outcomes", "stage", "since", "opened", "proposal", "affected",
               "before", "stats", "fingerprint", "copy", "run", "row", "records"}
IsProc(r) == r = [f \in ProcFields |-> r[f]]
IsRow(r) == r = [f \in RowFields |-> r[f]]
Busy(p) == proc[p] # Idle

(* The stages by what the process has in its hands. *)
OnSource == {"propose", "rules", "stats", "project", "carry", "report", "snapshot", "write", "fingerprint",
             "records", "save"}
InFlight == {"write", "fingerprint", "records", "save"}
OnRun == {"rollback", "save rollback", "verify", "diff"}
CallsAt(stage) ==
    CASE stage \in {"rules", "stats", "report"} -> {"preview"}
      [] stage \in {"project", "carry"} -> {"preview", "apply"}
      [] stage \in {"snapshot"} \cup InFlight -> {"apply"}
      [] stage \in {"rollback", "save rollback"} -> {"rollback"}
      [] stage = "propose" -> OnIssue
      [] stage \in {"verify", "diff"} -> {stage}
      [] OTHER -> RepairCalls

(* A row tells the truth of its artefacts d, after c changes. *)
RowSound(r, d, c) ==
    /\ IsRow(r) /\ r.id \in DOMAIN d /\ r.status \in {"applied", "rolled_back"}
    /\ r.status = "rolled_back" => d[r.id].restored # Gone
    /\ c = 0 => d[r.id].before # Gone /\ d[r.id].copy = r.fingerprint_after
    /\ r.quiet => \E v \in Versions : /\ OneVersion(r, v) /\ d[r.id].before \in {v, Gone}
                                      /\ d[r.id].copy \in {Of(v), NoCopy}
HasRow(id, rs) == \E i \in DOMAIN rs : rs[i].id = id
DiskSound(d) ==
    /\ d \in Seq(Artefact)
    /\ \A id \in DOMAIN d : /\ d[id].restored # Gone => d[id].before \in {d[id].restored, Gone}
                            /\ d[id].copy # NoCopy => Whole(d[id].copy)

(* What a process has read belongs together; while nothing has changed since its call     *)
(* began it is all of one version. The run it writes is its own until it has a row.       *)
ColumnsFit(proposal, v) == proposal.columns \subseteq ColumnsOf(Tables[v])
Reads(r, f, c) ==
    /\ r.opened \in Versioned /\ r.copy \in Copies /\ r.since \in Nat /\ r.since <= c
    /\ r.stage = "carry" => r.copy.projected \in Versions
    /\ r.stage \in OnSource \ {"propose"} => ColumnsFit(r.proposal, r.opened)
    /\ r.stage \in {"report", "snapshot"} \cup InFlight => Whole(r.copy)
    /\ r.since = c /\ r.stage \in OnSource =>
         /\ r.opened \in Versions /\ f[r.command.path] = r.opened
         /\ r.stage = "carry" => r.copy.projected = r.opened
         /\ r.stage \in {"report", "snapshot"} \cup InFlight => r.copy = Of(r.opened)
         /\ r.stage \in {"records", "save"} => r.fingerprint = r.opened
         /\ r.stage = "save" => r.records = r.opened
Owns(r, d, rs, c) ==
    r.stage \in InFlight =>
      /\ r.run \in DOMAIN d /\ ~HasRow(r.run, rs) /\ d[r.run].before \in Versions
      /\ r.stage # "write" => d[r.run].copy = r.copy
      /\ r.since = c => d[r.run].before = r.opened
Undoes(r, d, rs, c) ==
    r.stage \in OnRun =>
      /\ RowSound(r.row, d, c) /\ r.row.id = r.run /\ HasRow(r.run, rs)
      /\ r.stage = "save rollback" => d[r.run].restored # Gone
ProcSound(r, d, rs, f, c) ==
    /\ IsProc(r) /\ r.command \in Commands /\ r.stage \in Stages \ {"idle"}
    /\ r.item \in 1 .. Len(r.command.items) /\ r.call \in 1 .. Len(r.command.calls)
    /\ r.command.calls[r.call] \in CallsAt(r.stage)
    /\ Reads(r, f, c) /\ Owns(r, d, rs, c) /\ Undoes(r, d, rs, c)

Writes(p, id) == Busy(p) /\ proc[p].stage \in InFlight /\ proc[p].run = id
RowsInv ==
    /\ \E S : runs \in Seq(S)
    /\ \A i \in DOMAIN runs : RowSound(runs[i], disk, changes)
    /\ \A i, j \in DOMAIN runs : runs[i].id = runs[j].id => i = j
ProcsInv ==
    /\ proc = [p \in Procs |-> proc[p]]
    /\ \A p \in Procs : Busy(p) => ProcSound(proc[p], disk, runs, file, changes)
    /\ \A p, q \in Procs : \A id : Writes(p, id) /\ Writes(q, id) => p = q
NothingLeft ==
    Paths = Registered /\ changes = 0 =>
        \A id \in DOMAIN disk : HasRow(id, runs) \/ \E p \in Procs : Writes(p, id)
RepairInv ==
    /\ file \in [Paths -> Versioned] /\ changes \in Nat
    /\ DiskSound(disk) /\ RowsInv /\ ProcsInv /\ NothingLeft
----------------------------------------------------------------------------
(* Records *)
LEMMA ProcExcept == \A r, x : \A f \in ProcFields : IsProc(r) => IsProc([r EXCEPT ![f] = x])
  BY DEF IsProc
LEMMA CopiesHaveFields ==
    /\ \A x \in Copies : x = [carried |-> x.carried, projected |-> x.projected]
    /\ \A v, w \in Versioned : [carried |-> v, projected |-> w] \in Copies
    /\ NoCopy \in Copies
  BY DEF Copies, NoCopy, Versioned
LEMMA WholeIsCopied == \A x : Whole(x) => x # NoCopy
  BY RepairAssumption DEF Whole, NoCopy
LEMMA WholeOfOne == \A v \in Versions : Whole(Of(v)) /\ Of(v) \in Copies
  BY CopiesHaveFields DEF Whole, Of, Aligned, Copies, Versioned
(* What a call begins with; Begin and EndCall make such a record. *)
Opening(r, c) ==
    /\ IsProc(r) /\ r.command \in Commands /\ r.stage = "open"
    /\ r.item \in 1 .. Len(r.command.items) /\ r.call \in 1 .. Len(r.command.calls)
    /\ r.opened = Gone /\ r.copy = NoCopy /\ r.since = c
LEMMA OpeningIsSound ==
    ASSUME NEW r, NEW c \in Nat, Opening(r, c)
    PROVE  \A d, rs, f : ProcSound(r, d, rs, f, c)
<1>1. r.stage \notin OnSource /\ r.stage \notin InFlight /\ r.stage \notin OnRun /\ r.stage \in Stages \ {"idle"}
  BY DEF Opening, OnSource, InFlight, OnRun, Stages
<1>2. r.command.calls[r.call] \in CallsAt(r.stage)
  <2>1. CallsAt("open") = RepairCalls
    BY DEF CallsAt, InFlight
  <2> QED BY <2>1, RepairAssumption DEF Opening
<1>3. \A f : Reads(r, f, c)
  BY <1>1, CopiesHaveFields DEF Opening, Reads, Versioned
<1> QED BY <1>1, <1>2, <1>3 DEF ProcSound, Owns, Undoes, Opening
LEMMA EndOpens ==
    ASSUME NEW p \in Procs, NEW what, NEW told, EndCall(p, what, told), changes \in Nat,
           NEW d, NEW rs, NEW f, ProcSound(proc[p], d, rs, f, changes)
    PROVE  \E r : proc' = [proc EXCEPT ![p] = r] /\ (r = Idle \/ Opening(r, changes))
<1> DEFINE m == proc[p]
           o == [what |-> what, call |-> operation(p), item |-> m.item, told |-> told]
           os == Append(m.outcomes, o)
           more == what = "done" /\ m.call < Len(m.command.calls)
           i == IF more THEN m.item ELSE m.item + 1
           k == IF more THEN m.call + 1 ELSE 1
           n == [m EXCEPT !.outcomes = os, !.call = k, !.item = i]
           r == Fresh(n)
<1>t. /\ IsProc(m) /\ m.command \in Commands
      /\ m.item \in 1 .. Len(m.command.items) /\ m.call \in 1 .. Len(m.command.calls)
  BY DEF ProcSound
<1>l. Len(m.command.items) \in Nat \ {0} /\ Len(m.command.calls) \in Nat \ {0}
  BY <1>t, RepairAssumption
<1>1. CASE more \/ m.item < Len(m.command.items)
  <2>1. proc' = [proc EXCEPT ![p] = Fresh([m EXCEPT !.outcomes = os, !.call = IF more THEN @ + 1 ELSE 1,
                                                    !.item = IF more THEN @ ELSE @ + 1])]
    BY <1>1 DEF EndCall, Set, me, command
  <2>2. n = [m EXCEPT !.outcomes = os, !.call = IF more THEN @ + 1 ELSE 1,
                      !.item = IF more THEN @ ELSE @ + 1]
    BY <1>t DEF IsProc, ProcFields
  <2>3. IsProc(n) /\ n.command = m.command /\ n.item = i /\ n.call = k
    <3> HIDE DEF os, i, k
    <3> QED BY <1>t DEF IsProc, ProcFields
  <2>4. i \in 1 .. Len(m.command.items) /\ k \in 1 .. Len(m.command.calls)
    <3>1. CASE more
      BY <1>t, <1>l, <3>1
    <3>2. CASE ~more
      <4>1. m.item < Len(m.command.items) /\ i = m.item + 1 /\ k = 1
        BY <1>1, <3>2
      <4> HIDE DEF i, k, m
      <4> QED BY <1>t, <1>l, <4>1
    <3> QED BY <3>1, <3>2
  <2>5. Opening(r, changes)
    <3> HIDE DEF n
    <3>1. IsProc(r) /\ r.command = n.command /\ r.item = n.item /\ r.call = n.call
          /\ r.stage = "open" /\ r.opened = Gone /\ r.copy = NoCopy /\ r.since = changes
      BY <2>3 DEF Fresh, IsProc, ProcFields
    <3> HIDE DEF r, i, k, m
    <3> QED BY <1>t, <2>3, <2>4, <3>1 DEF Opening
  <2> HIDE DEF n
  <2> QED BY <2>1, <2>2, <2>5
<1>2. CASE ~(more \/ m.item < Len(m.command.items))
  BY <1>2 DEF EndCall, Set, me, command
<1> QED BY <1>1, <1>2

----------------------------------------------------------------------------
(* Steps that leave a row or a process alone: artefacts only wear off. *)
Worn(x, y, c) ==
    /\ y.before = x.before \/ (y.before = Gone /\ c # 0)
    /\ y.copy = x.copy \/ (y.copy = NoCopy /\ c # 0)
    /\ x.restored # Gone => y.restored # Gone
AllWorn(d, e, rs, c) ==
    DOMAIN d \subseteq DOMAIN e /\ \A id \in DOMAIN d : HasRow(id, rs) => Worn(d[id], e[id], c)
LEMMA RowStays ==
    ASSUME NEW r, NEW d, NEW e, NEW c \in Nat, NEW b \in Nat, c <= b,
           NEW rs, HasRow(r.id, rs), RowSound(r, d, c), AllWorn(d, e, rs, b)
    PROVE  RowSound(r, e, b)
<1>1. r.id \in DOMAIN d /\ r.id \in DOMAIN e /\ Worn(d[r.id], e[r.id], b)
  BY DEF RowSound, AllWorn
<1>2. b = 0 => c = 0
  OBVIOUS
<1> QED BY <1>1, <1>2 DEF RowSound, Worn
LEMMA SoundStays ==
    ASSUME NEW r, NEW d, NEW e, NEW rs, NEW rt, NEW f, NEW g, NEW c \in Nat, NEW b \in Nat,
           ProcSound(r, d, rs, f, c), (b = c /\ g = f) \/ b > c, AllWorn(d, e, rs, b),
           \A id : HasRow(id, rs) => HasRow(id, rt),
           r.stage \in InFlight => /\ ~HasRow(r.run, rt)
                                   /\ e[r.run].before = d[r.run].before /\ e[r.run].copy = d[r.run].copy
    PROVE  ProcSound(r, e, rt, g, b)
<1>1. c <= b /\ r.since \in Nat /\ r.since <= c
  BY DEF ProcSound, Reads
<1>2. r.since = b => r.since = c /\ b = c /\ g = f
  BY <1>1
<1>3. Reads(r, g, b)
  BY <1>1, <1>2 DEF ProcSound, Reads
<1>4. Owns(r, e, rt, b)
  BY <1>2 DEF ProcSound, Owns, AllWorn
<1>5. Undoes(r, e, rt, b)
  <2>1. ASSUME r.stage \in OnRun
        PROVE  /\ RowSound(r.row, e, b) /\ r.row.id = r.run /\ HasRow(r.run, rt)
               /\ r.stage = "save rollback" => e[r.run].restored # Gone
    <3>1. RowSound(r.row, d, c) /\ r.row.id = r.run /\ HasRow(r.run, rs)
      BY <2>1 DEF ProcSound, Undoes
    <3>2. RowSound(r.row, e, b)
      BY <1>1, <3>1, RowStays
    <3>3. Worn(d[r.run], e[r.run], b)
      BY <3>1 DEF RowSound, AllWorn
    <3>4. r.stage = "save rollback" => e[r.run].restored # Gone
      BY <2>1, <3>3 DEF Worn, ProcSound, Undoes
    <3> QED BY <3>1, <3>2, <3>4
  <2> QED BY <2>1 DEF Undoes
<1> QED BY <1>3, <1>4, <1>5 DEF ProcSound

(* What one process does keeps the invariant: it stays sound, the artefacts and rows do,  *)
(* and what the others write is still theirs.                                             *)
Holds(r) == r # Idle /\ r.stage \in InFlight
RowsGrow == \A id : HasRow(id, runs) => HasRow(id, runs')
OthersKeep(p, r) ==
    \A q \in Procs \ {p} : Holds(proc[q]) =>
        /\ ~HasRow(proc[q].run, runs')
        /\ disk'[proc[q].run].before = disk[proc[q].run].before
        /\ disk'[proc[q].run].copy = disk[proc[q].run].copy
        /\ Holds(r) => r.run # proc[q].run
NothingDropped(p, r) ==
    Paths = Registered /\ changes' = 0 =>
        \A id \in DOMAIN disk' :
            \/ HasRow(id, runs') \/ (Holds(r) /\ r.run = id)
            \/ id \in DOMAIN disk /\ ~HasRow(id, runs) /\ ~(Holds(proc[p]) /\ proc[p].run = id)
LEMMA OneProcess ==
    ASSUME RepairInv, NEW p \in Procs, NEW r, proc' = [proc EXCEPT ![p] = r],
           file' = file, changes' \in Nat, changes' >= changes,
           r # Idle => ProcSound(r, disk', runs', file', changes'),
           DiskSound(disk'), RowsInv', AllWorn(disk, disk', runs, changes'),
           RowsGrow, OthersKeep(p, r), NothingDropped(p, r)
    PROVE  RepairInv'
<1>1. /\ proc'[p] = r /\ \A q \in Procs \ {p} : proc'[q] = proc[q]
      /\ proc' = [q \in Procs |-> proc'[q]]
  BY DEF RepairInv, ProcsInv
<1>2. ASSUME NEW q \in Procs, proc'[q] # Idle
      PROVE  ProcSound(proc'[q], disk', runs', file', changes')
  <2>1. CASE q = p
    BY <1>1, <1>2, <2>1
  <2>2. CASE q # p
    <3>1. ProcSound(proc[q], disk, runs, file, changes) /\ proc'[q] = proc[q]
      BY <1>1, <1>2, <2>2 DEF RepairInv, ProcsInv, Busy
    <3>2. proc[q].stage \in InFlight => Holds(proc[q])
      BY <1>1, <1>2, <2>2 DEF Holds
    <3>3. (changes' = changes /\ file' = file) \/ changes' > changes
      BY DEF RepairInv
    <3>4. changes \in Nat
      BY DEF RepairInv
    <3> QED BY <2>2, <3>1, <3>2, <3>3, <3>4, SoundStays DEF RowsGrow, OthersKeep
  <2> QED BY <2>1, <2>2
<1>3. \A q \in Procs : \A id : Writes(q, id) <=> (Holds(proc[q]) /\ proc[q].run = id)
  BY DEF Writes, Holds, Busy
<1>4. \A q \in Procs : \A id : Writes(q, id)' <=> (Holds(proc'[q]) /\ proc'[q].run = id)
  BY DEF Writes, Holds, Busy
<1>5. \A q, s \in Procs : \A id : Writes(q, id)' /\ Writes(s, id)' => q = s
  BY <1>1, <1>3, <1>4 DEF RepairInv, ProcsInv, OthersKeep
<1>6. NothingLeft'
  <2> SUFFICES ASSUME Paths = Registered, changes' = 0, NEW id \in DOMAIN disk'
               PROVE  HasRow(id, runs') \/ \E q \in Procs : Writes(q, id)'
    BY DEF NothingLeft
  <2>1. changes = 0
    BY DEF RepairInv
  <2>2. CASE HasRow(id, runs') \/ (Holds(r) /\ r.run = id)
    BY <1>1, <1>4, <2>2
  <2>3. CASE id \in DOMAIN disk /\ ~HasRow(id, runs) /\ ~(Holds(proc[p]) /\ proc[p].run = id)
    <3>1. PICK q \in Procs : Writes(q, id)
      BY <2>1, <2>3 DEF RepairInv, NothingLeft
    <3> QED BY <1>1, <1>3, <1>4, <2>3, <3>1
  <2> QED BY <2>2, <2>3 DEF NothingDropped
<1>7. \A q \in Procs : proc'[q] # Idle => ProcSound(proc'[q], disk', runs', file', changes')
  BY <1>2
<1> QED BY <1>1, <1>5, <1>6, <1>7 DEF RepairInv, ProcsInv, Busy

(* A step that writes nothing. *)
LEMMA StepKeeps ==
    ASSUME RepairInv, NEW p \in Procs, NEW r, proc' = [proc EXCEPT ![p] = r],
           UNCHANGED <<file, disk, runs, changes>>,
           r # Idle => ProcSound(r, disk, runs, file, changes),
           Holds(r) => Holds(proc[p]) /\ r.run = proc[p].run,
           Paths = Registered /\ changes = 0 /\ Holds(proc[p]) => Holds(r) /\ r.run = proc[p].run
    PROVE  RepairInv'
<1>1. DiskSound(disk') /\ RowsInv' /\ changes' \in Nat /\ changes' >= changes
  BY DEF RepairInv, RowsInv
<1>2. AllWorn(disk, disk', runs, changes')
  BY DEF AllWorn, Worn
<1>3. \A q \in Procs \ {p} : Holds(proc[q]) => ~HasRow(proc[q].run, runs)
  BY DEF RepairInv, ProcsInv, Busy, Holds, ProcSound, Owns
<1>4. \A q \in Procs \ {p} : Holds(proc[q]) /\ Holds(r) => r.run # proc[q].run
  BY DEF RepairInv, ProcsInv, Busy, Holds, Writes
<1>5. r # Idle => ProcSound(r, disk', runs', file', changes')
  OBVIOUS
<1>6. NothingDropped(p, r)
  BY DEF NothingDropped
<1>7. RowsGrow /\ OthersKeep(p, r)
  BY <1>3, <1>4 DEF RowsGrow, OthersKeep
<1> QED BY <1>1, <1>2, <1>5, <1>6, <1>7, OneProcess
LEMMA EndKeeps ==
    ASSUME RepairInv, NEW p \in Procs, Busy(p), NEW what, NEW told, EndCall(p, what, told),
           UNCHANGED <<file, disk, runs, changes>>,
           Paths = Registered /\ changes = 0 => ~Holds(proc[p])
    PROVE  RepairInv'
<1>1. PICK r : proc' = [proc EXCEPT ![p] = r] /\ (r = Idle \/ Opening(r, changes))
  BY EndOpens DEF RepairInv, ProcsInv
<1>2. r # Idle => ProcSound(r, disk, runs, file, changes)
  BY <1>1, OpeningIsSound DEF RepairInv
<1>3. ~Holds(r)
  BY <1>1 DEF Holds, Opening, InFlight
<1> QED BY <1>1, <1>2, <1>3, StepKeeps
LEMMA RefuseKeeps ==
    ASSUME RepairInv, NEW p \in Procs, Busy(p), NEW what, Refuse(p, what),
           Paths = Registered /\ changes = 0 => ~Holds(proc[p])
    PROVE  RepairInv'
  BY EndKeeps DEF Refuse, Fail, Kept
LEMMA MoveKeeps ==
    ASSUME RepairInv, NEW p \in Procs, Busy(p), NEW r, Move(p, r),
           ProcSound(r, disk, runs, file, changes),
           r.stage \in InFlight <=> proc[p].stage \in InFlight,
           r.stage \in InFlight => r.run = proc[p].run
    PROVE  RepairInv'
<1>1. proc' = [proc EXCEPT ![p] = r] /\ UNCHANGED <<file, disk, runs, changes>>
  BY DEF Move, Set, Kept
<1>2. r # Idle
  BY DEF Idle, ProcSound
<1>3. (Holds(r) <=> Holds(proc[p])) /\ (Holds(r) => r.run = proc[p].run)
  BY <1>2 DEF Holds, Busy
<1> QED BY <1>1, <1>3, StepKeeps

----------------------------------------------------------------------------
(* The reads. *)
LEMMA AtIsBusy == \A p \in Procs : \A x : At(p, x) /\ x # "idle" => Busy(p) /\ proc[p].stage = x
  BY DEF At, Busy, Idle
LEMMA BusyIsSound ==
    ASSUME RepairInv, NEW p \in Procs, Busy(p)
    PROVE  /\ ProcSound(proc[p], disk, runs, file, changes) /\ IsProc(proc[p])
           /\ proc[p].command.path \in Paths /\ file[proc[p].command.path] \in Versioned
           /\ now(p) = file[proc[p].command.path] /\ operation(p) = proc[p].command.calls[proc[p].call]
<1>1. ProcSound(proc[p], disk, runs, file, changes)
  BY DEF RepairInv, ProcsInv
<1> QED BY <1>1, RepairAssumption DEF ProcSound, RepairInv, now, source, command, me, operation
LEMMA NotWriting == \A r : r.stage \notin InFlight => ~Holds(r)
  BY DEF Holds
(* A record that is moved on before anything is written. *)
LEMMA ReadingIsSound ==
    ASSUME NEW m, NEW r, NEW d, NEW rs, NEW f, NEW c,
           ProcSound(m, d, rs, f, c), IsProc(r), r.command = m.command, r.item = m.item,
           r.call = m.call, r.since = m.since,
           r.stage \in Stages \ {"idle"}, r.stage \notin InFlight, r.stage \notin OnRun,
           m.command.calls[m.call] \in CallsAt(r.stage), Reads(r, f, c)
    PROVE  ProcSound(r, d, rs, f, c)
  BY DEF ProcSound, Owns, Undoes
LEMMA BeginKeeps ==
    ASSUME RepairInv, NEW p \in Procs, NEW c \in Commands, Begin(p, c)
    PROVE  RepairInv'
<1> DEFINE r == [command |-> c, item |-> 1, call |-> 1, outcomes |-> <<>>, stage |-> "open", since |-> changes,
                 opened |-> Gone, proposal |-> NoProposal, affected |-> 0, before |-> 0, stats |-> NoStats,
                 fingerprint |-> Gone, copy |-> NoCopy, run |-> UnknownRun, row |-> Nothing, records |-> Gone]
<1>1. proc[p] = Idle /\ proc' = [proc EXCEPT ![p] = r] /\ UNCHANGED <<file, disk, runs, changes>>
  BY DEF Begin, me, Move, Set, Kept
<1>2. Opening(r, changes)
  <2>1. IsProc(r)
    BY DEF IsProc, ProcFields
  <2>2. Len(c.items) \in Nat \ {0} /\ Len(c.calls) \in Nat \ {0}
    BY RepairAssumption
  <2> QED BY <2>1, <2>2 DEF Opening
<1>3. ProcSound(r, disk, runs, file, changes)
  BY <1>2, OpeningIsSound DEF RepairInv
<1>4. ~Holds(r) /\ ~Holds(proc[p])
  BY <1>1, <1>2 DEF Opening, InFlight, Holds
<1> HIDE DEF r
<1> QED BY <1>1, <1>3, <1>4, StepKeeps
LEMMA OpenSourceKeeps ==
    ASSUME RepairInv, NEW p \in Procs, OpenSource(p)
    PROVE  RepairInv'
<1> DEFINE m == proc[p]
           r == [m EXCEPT !.stage = "propose", !.opened = now(p)]
<1>1. Busy(p) /\ m.stage = "open" /\ operation(p) \in OnIssue
  BY AtIsBusy DEF OpenSource
<1>2. ~Holds(m)
  BY <1>1 DEF Holds, InFlight
<1>3. CASE Refuse(p, "missing") \/ Refuse(p, "source")
  BY <1>1, <1>2, <1>3, RefuseKeeps
<1>4. CASE now(p) # Gone /\ Move(p, r)
  <2>1. /\ IsProc(r) /\ r.stage = "propose" /\ r.opened = now(p) /\ r.command = m.command
        /\ r.item = m.item /\ r.call = m.call /\ r.since = m.since /\ r.copy = m.copy
    BY <1>1, BusyIsSound DEF IsProc, ProcFields
  <2>2. /\ r.stage \in Stages \ {"idle"} /\ r.stage \notin InFlight /\ r.stage \notin OnRun
        /\ m.command.calls[m.call] \in CallsAt(r.stage)
    BY <1>1, <2>1, BusyIsSound DEF Stages, InFlight, OnRun, CallsAt
  <2> HIDE DEF r
  <2>3. Reads(r, file, changes)
    BY <1>1, <1>4, <2>1, BusyIsSound DEF ProcSound, Reads, Versioned, InFlight
  <2>4. ProcSound(r, disk, runs, file, changes)
    BY <1>1, <2>1, <2>2, <2>3, BusyIsSound, ReadingIsSound
  <2> QED BY <1>1, <1>4, <2>2, <2>4, MoveKeeps DEF InFlight
<1> QED BY <1>3, <1>4 DEF OpenSource, me
LEMMA ProposeKeeps ==
    ASSUME RepairInv, NEW p \in Procs, Propose(p)
    PROVE  RepairInv'
<1> DEFINE m == proc[p]
           x == ProposalOf(CHOOSE i \in get_issue_by_id(item(p)) : TRUE)
           n == Affected(x, Tables[SqlReads(p)])
           s == IF operation(p) = "preview" THEN "rules" ELSE "project"
           r == [m EXCEPT !.proposal = x, !.affected = n, !.stage = s]
<1>1. Busy(p) /\ m.stage = "propose"
  BY AtIsBusy DEF Propose
<1>2. ~Holds(m)
  BY <1>1 DEF Holds, InFlight
<1>3. \/ \E w : Refuse(p, w)
      \/ EndCall(p, "done", Nothing) /\ UNCHANGED <<file, disk, runs, changes, issues>>
      \/ Move(p, r) /\ operation(p) # "propose" /\ Readable(p) /\ ColumnsFit(x, SqlReads(p))
  <2> HIDE DEF x, n
  <2> QED BY DEF Propose, me, x, n, ColumnsFit
<1>4. CASE \E w : Refuse(p, w)
  BY <1>1, <1>2, <1>4, RefuseKeeps
<1>5. CASE EndCall(p, "done", Nothing) /\ UNCHANGED <<file, disk, runs, changes, issues>>
  BY <1>1, <1>2, <1>5, EndKeeps
<1>6. CASE Move(p, r) /\ operation(p) # "propose" /\ Readable(p) /\ ColumnsFit(x, SqlReads(p))
  <2>0. ColumnsFit(x, m.opened)
    <3> HIDE DEF x
    <3> QED BY <1>6 DEF ColumnsFit, Readable, ColumnsOf, me
  <2>1. /\ IsProc(r) /\ r.stage = s /\ r.opened = m.opened /\ r.command = m.command
        /\ r.item = m.item /\ r.call = m.call /\ r.since = m.since /\ r.copy = m.copy /\ r.proposal = x
    <3> HIDE DEF x, n, s
    <3> QED BY <1>1, BusyIsSound, ZenonT(30) DEF IsProc, ProcFields
  <2>2. /\ r.stage \in {"rules", "project"} /\ r.stage \in Stages \ {"idle"}
        /\ r.stage \notin InFlight /\ r.stage \notin OnRun
        /\ m.command.calls[m.call] \in CallsAt(r.stage)
    <3>1. operation(p) \in OnIssue
      BY <1>1, BusyIsSound DEF ProcSound, CallsAt, InFlight
    <3> QED BY <1>1, <1>6, <2>1, <3>1, BusyIsSound DEF Stages, InFlight, OnRun, CallsAt, OnIssue
  <2> HIDE DEF r
  <2>3. Reads(r, file, changes)
    <3> HIDE DEF x
    <3> QED BY <1>1, <2>0, <2>1, <2>2, BusyIsSound DEF ProcSound, Reads, InFlight, OnSource
  <2>4. ProcSound(r, disk, runs, file, changes)
    BY <1>1, <2>1, <2>2, <2>3, BusyIsSound, ReadingIsSound
  <2> QED BY <1>1, <1>6, <2>2, <2>4, MoveKeeps DEF InFlight
<1> QED BY <1>3, <1>4, <1>5, <1>6
LEMMA WhatIsRead ==
    ASSUME RepairInv, NEW p \in Procs, Busy(p)
    PROVE  /\ Readable(p) => SqlReads(p) \in Versions
           /\ proc[p].since = changes /\ proc[p].stage \in OnSource =>
                /\ SqlReads(p) = proc[p].opened /\ now(p) = proc[p].opened
                /\ now(p) \in Versions /\ Readable(p) /\ now(p) # Gone
<1>1. Reads(proc[p], file, changes) /\ now(p) = file[proc[p].command.path]
  BY BusyIsSound DEF ProcSound
<1>2. SqlReads(p) \in Versioned /\ (SqlReads(p) = proc[p].opened \/ SqlReads(p) = now(p))
  BY <1>1, BusyIsSound DEF Reads, SqlReads, me
<1>3. proc[p].since = changes /\ proc[p].stage \in OnSource =>
         proc[p].opened \in Versions /\ now(p) = proc[p].opened
  BY <1>1 DEF Reads
<1> QED BY <1>2, <1>3, RepairAssumption DEF Readable, Versioned, me
LEMMA PreviewRulesKeeps ==
    ASSUME RepairInv, NEW p \in Procs, PreviewRules(p)
    PROVE  RepairInv'
<1> DEFINE m == proc[p]
           n == Cardinality(RuleFailures(m.proposal.detector, Tables[SqlReads(p)]))
           r == [m EXCEPT !.stage = "stats", !.before = n]
<1>1. Busy(p) /\ m.stage = "rules"
  BY AtIsBusy DEF PreviewRules
<1>2. ~Holds(m)
  BY <1>1 DEF Holds, InFlight
<1>3. Refuse(p, "refused") \/ Refuse(p, "error") \/ Move(p, r)
  BY DEF PreviewRules, me
<1>4. CASE Move(p, r)
  <2>1. /\ IsProc(r) /\ r.stage = "stats" /\ r.opened = m.opened /\ r.command = m.command
        /\ r.item = m.item /\ r.call = m.call /\ r.since = m.since /\ r.copy = m.copy
        /\ r.proposal = m.proposal
    <3> HIDE DEF n
    <3> QED BY <1>1, BusyIsSound, ZenonT(40) DEF IsProc, ProcFields
  <2>2. /\ r.stage \in Stages \ {"idle"} /\ r.stage \notin InFlight /\ r.stage \notin OnRun
        /\ m.command.calls[m.call] \in CallsAt(r.stage)
    BY <1>1, <2>1, BusyIsSound DEF Stages, InFlight, OnRun, CallsAt, ProcSound
  <2> HIDE DEF r
  <2>3. Reads(r, file, changes)
    BY <1>1, <2>1, <2>2, BusyIsSound DEF ProcSound, Reads, InFlight, OnSource
  <2>4. ProcSound(r, disk, runs, file, changes)
    BY <1>1, <2>1, <2>2, <2>3, BusyIsSound, ReadingIsSound
  <2> QED BY <1>1, <1>4, <2>2, <2>4, MoveKeeps DEF InFlight
<1> QED BY <1>1, <1>2, <1>3, <1>4, RefuseKeeps
LEMMA PreviewStatsKeeps ==
    ASSUME RepairInv, NEW p \in Procs, PreviewStats(p)
    PROVE  RepairInv'
<1> DEFINE m == proc[p]
           n == Stats(m.proposal, Tables[SqlReads(p)])
           r == [m EXCEPT !.stage = "project", !.stats = n]
<1>1. Busy(p) /\ m.stage = "stats"
  BY AtIsBusy DEF PreviewStats
<1>2. ~Holds(m)
  BY <1>1 DEF Holds, InFlight
<1>3. Refuse(p, "error") \/ Move(p, r)
  BY DEF PreviewStats, me
<1>4. CASE Move(p, r)
  <2>1. /\ IsProc(r) /\ r.stage = "project" /\ r.opened = m.opened /\ r.command = m.command
        /\ r.item = m.item /\ r.call = m.call /\ r.since = m.since /\ r.copy = m.copy
        /\ r.proposal = m.proposal
    <3> HIDE DEF n
    <3> QED BY <1>1, BusyIsSound, ZenonT(30) DEF IsProc, ProcFields
  <2>2. /\ r.stage \in Stages \ {"idle"} /\ r.stage \notin InFlight /\ r.stage \notin OnRun
        /\ m.command.calls[m.call] \in CallsAt(r.stage)
    BY <1>1, <2>1, BusyIsSound DEF Stages, InFlight, OnRun, CallsAt, ProcSound
  <2> HIDE DEF r
  <2>3. Reads(r, file, changes)
    BY <1>1, <2>1, <2>2, BusyIsSound DEF ProcSound, Reads, InFlight, OnSource
  <2>4. ProcSound(r, disk, runs, file, changes)
    BY <1>1, <2>1, <2>2, <2>3, BusyIsSound, ReadingIsSound
  <2> QED BY <1>1, <1>4, <2>2, <2>4, MoveKeeps DEF InFlight
<1> QED BY <1>1, <1>2, <1>3, <1>4, RefuseKeeps

(* A copy that is complete, of one version while nothing has changed. *)
LEMMA CopiedKeeps ==
    ASSUME RepairInv, NEW p \in Procs, Busy(p), proc[p].stage \in {"project", "carry"},
           NEW copy \in Copies, Whole(copy), Move(p, Copied(p, copy)),
           proc[p].since = changes => copy = Of(proc[p].opened)
    PROVE  RepairInv'
<1> DEFINE m == proc[p]
           s == IF operation(p) = "preview" THEN "report" ELSE "snapshot"
           r == [m EXCEPT !.copy = copy, !.stage = s]
<1>1. /\ IsProc(r) /\ r.stage = s /\ r.opened = m.opened /\ r.command = m.command
      /\ r.item = m.item /\ r.call = m.call /\ r.since = m.since /\ r.copy = copy
      /\ r.proposal = m.proposal
  <2> HIDE DEF s
  <2> QED BY BusyIsSound DEF IsProc, ProcFields
<1>2. /\ r.stage \in {"report", "snapshot"} /\ r.stage \in Stages \ {"idle"}
      /\ r.stage \notin InFlight /\ r.stage \notin OnRun
      /\ m.command.calls[m.call] \in CallsAt(r.stage) /\ m.stage \notin InFlight
  <2>1. operation(p) \in {"preview", "apply"}
    BY BusyIsSound DEF ProcSound, CallsAt, InFlight
  <2> QED BY <1>1, <2>1, BusyIsSound DEF Stages, InFlight, OnRun, CallsAt
<1>3. Move(p, r)
  BY DEF Copied, me
<1> HIDE DEF r
<1>4. Reads(r, file, changes)
  BY <1>1, <1>2, BusyIsSound DEF ProcSound, Reads, InFlight, OnSource
<1>5. ProcSound(r, disk, runs, file, changes)
  BY <1>1, <1>2, <1>4, BusyIsSound, ReadingIsSound
<1> QED BY <1>2, <1>3, <1>5, MoveKeeps
LEMMA ProjectKeeps ==
    ASSUME RepairInv, NEW p \in Procs, Project(p)
    PROVE  RepairInv'
<1> DEFINE m == proc[p]
           r == [m EXCEPT !.stage = "carry", !.copy.projected = SqlReads(p)]
<1>1. Busy(p) /\ m.stage = "project"
  BY AtIsBusy DEF Project
<1>2. ~Holds(m)
  BY <1>1 DEF Holds, InFlight
<1>3. \/ \E w : Refuse(p, w)
      \/ Readable(p) /\ Format[source(p)] = "parquet" /\ Move(p, Copied(p, Of(now(p))))
      \/ Readable(p) /\ Move(p, r)
  BY DEF Project, me, Of, Writable, Carries
<1>4. CASE Readable(p) /\ Format[source(p)] = "parquet" /\ Move(p, Copied(p, Of(now(p))))
  <2>1. now(p) \in Versions
    BY <1>1, <1>4, WhatIsRead DEF SqlReads
  <2>2. m.since = changes => Of(now(p)) = Of(m.opened)
    BY <1>1, WhatIsRead DEF OnSource
  <2> QED BY <1>1, <1>4, <2>1, <2>2, CopiedKeeps, WholeOfOne
<1>5. CASE Readable(p) /\ Move(p, r)
  <2>1. SqlReads(p) \in Versions /\ (m.since = changes => SqlReads(p) = m.opened)
    BY <1>1, <1>5, WhatIsRead DEF OnSource
  <2>2. m.copy \in Copies
    BY <1>1, BusyIsSound DEF ProcSound, Reads
  <2>3. /\ [m.copy EXCEPT !.projected = SqlReads(p)] \in Copies
        /\ [m.copy EXCEPT !.projected = SqlReads(p)].projected = SqlReads(p)
    BY <2>1, <2>2 DEF Copies, Versioned
  <2>4. /\ IsProc(r) /\ r.stage = "carry" /\ r.opened = m.opened /\ r.command = m.command
        /\ r.item = m.item /\ r.call = m.call /\ r.since = m.since /\ r.proposal = m.proposal
        /\ r.copy = [m.copy EXCEPT !.projected = SqlReads(p)]
    BY <1>1, BusyIsSound, ZenonT(40) DEF IsProc, ProcFields
  <2>5. /\ r.stage \in Stages \ {"idle"} /\ r.stage \notin InFlight /\ r.stage \notin OnRun
        /\ m.command.calls[m.call] \in CallsAt(r.stage)
    BY <1>1, <2>4, BusyIsSound DEF Stages, InFlight, OnRun, CallsAt, ProcSound
  <2> HIDE DEF r
  <2>6. Reads(r, file, changes)
    BY <1>1, <2>1, <2>3, <2>4, <2>5, BusyIsSound DEF ProcSound, Reads, InFlight, OnSource
  <2>7. ProcSound(r, disk, runs, file, changes)
    BY <1>1, <2>4, <2>5, <2>6, BusyIsSound, ReadingIsSound
  <2> QED BY <1>1, <1>5, <2>5, <2>7, MoveKeeps DEF InFlight
<1> QED BY <1>1, <1>2, <1>3, <1>4, <1>5, RefuseKeeps
LEMMA CopyCellsKeeps ==
    ASSUME RepairInv, NEW p \in Procs, CopyCells(p)
    PROVE  RepairInv'
<1> DEFINE m == proc[p]
           copy == [m.copy EXCEPT !.carried = now(p)]
<1>1. Busy(p) /\ m.stage = "carry"
  BY AtIsBusy DEF CopyCells
<1>2. ~Holds(m)
  BY <1>1 DEF Holds, InFlight
<1>3. CASE now(p) # Gone /\ Aligned(now(p), m.copy.projected) /\ Move(p, Copied(p, copy))
  <2>1. m.copy \in Copies /\ m.copy.projected \in Versions
    BY <1>1, BusyIsSound DEF ProcSound, Reads
  <2>2. now(p) \in Versions
    BY <1>1, <1>3, BusyIsSound DEF Versioned
  <2>3. copy = [carried |-> now(p), projected |-> m.copy.projected] /\ copy \in Copies
    BY <2>1, <2>2 DEF Copies, Versioned
  <2>4. Whole(copy)
    BY <1>3, <2>1, <2>2, <2>3 DEF Whole
  <2>5. m.since = changes => now(p) = m.opened /\ m.copy.projected = m.opened
    BY <1>1, BusyIsSound, WhatIsRead DEF OnSource, ProcSound, Reads
  <2>6. m.since = changes => copy = Of(m.opened)
    BY <2>3, <2>5 DEF Of
  <2> HIDE DEF copy
  <2> QED BY <1>1, <1>3, <2>3, <2>4, <2>6, CopiedKeeps
<1> QED BY <1>1, <1>2, <1>3, RefuseKeeps DEF CopyCells, me
LEMMA ReportPreviewKeeps ==
    ASSUME RepairInv, NEW p \in Procs, ReportPreview(p)
    PROVE  RepairInv'
<1>1. Busy(p) /\ proc[p].stage = "report"
  BY AtIsBusy DEF ReportPreview
<1>2. ~Holds(proc[p])
  BY <1>1 DEF Holds, InFlight
<1>3. Refuse(p, "error") \/ \E told : EndCall(p, "done", told) /\ Kept
  BY DEF ReportPreview
<1> QED BY <1>1, <1>2, <1>3, RefuseKeeps, EndKeeps DEF Kept
LEMMA VerifyKeeps ==
    ASSUME RepairInv, NEW p \in Procs, Verify(p) \/ Diff(p)
    PROVE  RepairInv'
<1>1. Busy(p) /\ proc[p].stage \in {"verify", "diff"}
  BY AtIsBusy DEF Verify, Diff
<1>2. ~Holds(proc[p])
  BY <1>1 DEF Holds, InFlight
<1>3. Refuse(p, "source") \/ \E told : EndCall(p, "done", told) /\ Kept
  BY DEF Verify, Diff
<1> QED BY <1>1, <1>2, <1>3, RefuseKeeps, EndKeeps DEF Kept
LEMMA FingerprintKeeps ==
    ASSUME RepairInv, NEW p \in Procs, Fingerprint(p) \/ RecordOperations(p)
    PROVE  RepairInv'
<1> DEFINE m == proc[p]
           r == IF m.stage = "fingerprint" THEN [m EXCEPT !.stage = "records", !.fingerprint = now(p)]
                ELSE [m EXCEPT !.stage = "save", !.records = SqlReads(p)]
<1>1. Busy(p) /\ m.stage \in {"fingerprint", "records"} /\ m.stage \in OnSource /\ m.stage \in InFlight
  BY AtIsBusy DEF Fingerprint, RecordOperations, OnSource, InFlight
<1>2. \/ ~(now(p) # Gone /\ Readable(p)) /\ \E w : Refuse(p, w)
      \/ Move(p, r)
  BY AtIsBusy DEF Fingerprint, RecordOperations, me, Readable
<1>3. changes = 0 => now(p) # Gone /\ Readable(p)
  <2>1. m.since \in Nat /\ m.since <= changes /\ changes \in Nat
    BY <1>1, BusyIsSound DEF ProcSound, Reads, RepairInv
  <2> QED BY <1>1, <2>1, WhatIsRead
<1>4. CASE Move(p, r)
  <2>1. /\ IsProc(r) /\ r.opened = m.opened /\ r.command = m.command /\ r.item = m.item
        /\ r.call = m.call /\ r.since = m.since /\ r.copy = m.copy /\ r.run = m.run /\ r.proposal = m.proposal
        /\ \/ m.stage = "fingerprint" /\ r.stage = "records" /\ r.fingerprint = now(p)
           \/ m.stage = "records" /\ r.stage = "save" /\ r.fingerprint = m.fingerprint /\ r.records = SqlReads(p)
    BY <1>1, BusyIsSound, ZenonT(40) DEF IsProc, ProcFields
  <2> HIDE DEF r
  <2>2. /\ r.stage \in Stages \ {"idle"} /\ r.stage \in InFlight /\ r.stage \notin OnRun
        /\ r.stage \in OnSource /\ r.stage \notin {"write", "carry"} /\ m.stage # "write"
        /\ m.stage \in OnSource \ {"propose"}
        /\ m.command.calls[m.call] \in CallsAt(r.stage)
    BY <2>1, BusyIsSound, <1>1 DEF Stages, InFlight, OnRun, OnSource, CallsAt, ProcSound
  <2>3. Reads(r, file, changes)
    BY <1>1, <2>1, <2>2, BusyIsSound, WhatIsRead DEF ProcSound, Reads
  <2>4. Owns(r, disk, runs, changes) /\ Undoes(r, disk, runs, changes)
    BY <1>1, <2>1, <2>2, BusyIsSound DEF ProcSound, Owns, Undoes
  <2>5. ProcSound(r, disk, runs, file, changes)
    BY <1>1, <2>1, <2>2, <2>3, <2>4, BusyIsSound DEF ProcSound
  <2> QED BY <1>1, <1>4, <2>1, <2>2, <2>5, MoveKeeps
<1> QED BY <1>1, <1>2, <1>3, <1>4, RefuseKeeps

----------------------------------------------------------------------------
(* The writes. *)
LEMMA RowsStay ==
    ASSUME RepairInv, runs' = runs, changes' \in Nat, changes <= changes', AllWorn(disk, disk', runs, changes')
    PROVE  RowsInv'
<1>1. \A i \in DOMAIN runs : HasRow(runs[i].id, runs) /\ RowSound(runs[i], disk, changes)
  BY DEF RepairInv, RowsInv, HasRow
<1>2. \A i \in DOMAIN runs : RowSound(runs[i], disk', changes')
  BY <1>1, RowStays DEF RepairInv
<1> QED BY <1>2 DEF RepairInv, RowsInv
LEMMA RowsHaveArtefacts == ASSUME RepairInv, NEW id, HasRow(id, runs) PROVE id \in DOMAIN disk
  BY DEF RepairInv, RowsInv, HasRow, RowSound
LEMMA HeldIsOwned ==
    ASSUME RepairInv, NEW p \in Procs, Holds(proc[p])
    PROVE  /\ Busy(p) /\ Owns(proc[p], disk, runs, changes) /\ proc[p].run \in DOMAIN disk
           /\ ~HasRow(proc[p].run, runs)
           /\ \A q \in Procs \ {p} : Holds(proc[q]) => proc[q].run # proc[p].run
<1>1. Busy(p)
  BY DEF Holds, Busy
<1>2. Owns(proc[p], disk, runs, changes)
  BY <1>1, BusyIsSound DEF ProcSound
<1>3. \A q \in Procs \ {p} : Holds(proc[q]) => proc[q].run # proc[p].run
  BY DEF RepairInv, ProcsInv, Writes, Holds, Busy
<1> QED BY <1>1, <1>2, <1>3 DEF Owns, Holds
LEMMA SnapshotKeeps ==
    ASSUME RepairInv, NEW p \in Procs, Snapshot(p)
    PROVE  RepairInv'
<1> DEFINE m == proc[p]
           a == [before |-> now(p), copy |-> NoCopy, restored |-> Gone]
           n == Len(disk) + 1
           r == [m EXCEPT !.stage = "write", !.run = n]
<1>1. Busy(p) /\ m.stage = "snapshot" /\ m.stage \in OnSource
  BY AtIsBusy DEF Snapshot, OnSource
<1>2. ~Holds(m)
  BY <1>1 DEF Holds, InFlight
<1>3. CASE /\ now(p) # Gone /\ disk' = Append(disk, a) /\ proc' = [proc EXCEPT ![p] = r]
           /\ UNCHANGED <<file, runs, changes>>
  <2>1. disk \in Seq(Artefact) /\ n \in Nat /\ n \notin DOMAIN disk
    BY DEF RepairInv, DiskSound
  <2>2. now(p) \in Versions /\ a \in Artefact
    BY <1>1, <1>3, BusyIsSound, CopiesHaveFields DEF Artefact, Versioned
  <2> HIDE DEF a
  <2>3. /\ disk' \in Seq(Artefact) /\ DOMAIN disk' = DOMAIN disk \cup {n} /\ disk'[n] = a
        /\ \A id \in DOMAIN disk : disk'[id] = disk[id]
    BY <1>3, <2>1, <2>2
  <2>4. a.before = now(p) /\ a.copy = NoCopy /\ a.restored = Gone
    BY DEF a
  <2>5. DiskSound(disk')
    BY <2>3, <2>4 DEF RepairInv, DiskSound
  <2>6. AllWorn(disk, disk', runs, changes')
    BY <2>3 DEF AllWorn, Worn
  <2>7. changes' \in Nat /\ changes' = changes
    BY <1>3 DEF RepairInv
  <2>8. RowsInv'
    BY <1>3, <2>6, <2>7, RowsStay
  <2>9. /\ IsProc(r) /\ r.opened = m.opened /\ r.command = m.command /\ r.item = m.item
        /\ r.call = m.call /\ r.since = m.since /\ r.copy = m.copy /\ r.run = n /\ r.stage = "write"
        /\ r.proposal = m.proposal
    BY <1>1, BusyIsSound, ZenonT(30) DEF IsProc, ProcFields
  <2> HIDE DEF r
  <2>10. ~HasRow(n, runs)
    BY <2>1, RowsHaveArtefacts
  <2>11. /\ r.stage \in Stages \ {"idle"} /\ r.stage \in InFlight /\ r.stage \notin OnRun
         /\ r.stage \in OnSource /\ m.command.calls[m.call] \in CallsAt(r.stage)
         /\ m.stage \in OnSource \ {"propose"}
    BY <1>1, <2>9, BusyIsSound DEF Stages, InFlight, OnRun, OnSource, CallsAt, ProcSound
  <2>12. Reads(r, file, changes)
    BY <1>1, <2>9, <2>11, BusyIsSound DEF ProcSound, Reads
  <2>13. m.since = changes => now(p) = m.opened
    BY <1>1, WhatIsRead
  <2>14. Owns(r, disk', runs, changes) /\ Undoes(r, disk', runs, changes)
    BY <2>2, <2>3, <2>4, <2>9, <2>10, <2>11, <2>13 DEF Owns, Undoes
  <2>15. ProcSound(r, disk', runs', file', changes')
    BY <1>1, <1>3, <2>9, <2>11, <2>12, <2>14, BusyIsSound DEF ProcSound
  <2>16. OthersKeep(p, r)
    BY <1>3, <2>1, <2>3, <2>9, HeldIsOwned DEF OthersKeep
  <2>17. NothingDropped(p, r)
    BY <1>2, <1>3, <2>3, <2>9, <2>11 DEF NothingDropped, Holds, Idle, IsProc, ProcFields
  <2>18. RowsGrow
    BY <1>3 DEF RowsGrow
  <2>19. file' = file /\ proc' = [proc EXCEPT ![p] = r] /\ changes' >= changes
    BY <1>3, <2>7
  <2>20. r # Idle => ProcSound(r, disk', runs', file', changes')
    BY <2>15
  <2> HIDE DEF m, n
  <2> QED BY <2>5, <2>6, <2>7, <2>8, <2>16, <2>17, <2>18, <2>19, <2>20, OneProcess
<1> QED BY <1>1, <1>2, <1>3, RefuseKeeps DEF Snapshot, Set, me
LEMMA WriteCopyKeeps ==
    ASSUME RepairInv, NEW p \in Procs, WriteCopy(p)
    PROVE  RepairInv'
<1> DEFINE m == proc[p]
           n == m.run
           r == [m EXCEPT !.stage = "fingerprint"]
<1>1. Busy(p) /\ m.stage = "write" /\ m.stage \in OnSource /\ m.stage \in InFlight /\ Holds(m)
  BY AtIsBusy DEF WriteCopy, OnSource, InFlight, Holds, Busy
<1>2. changes = 0 => now(p) # Gone
  <2>1. m.since \in Nat /\ m.since <= changes /\ changes \in Nat
    BY <1>1, BusyIsSound DEF ProcSound, Reads, RepairInv
  <2> QED BY <1>1, <2>1, WhatIsRead
<1>3. CASE /\ disk' = [disk EXCEPT ![n].copy = m.copy] /\ proc' = [proc EXCEPT ![p] = r]
           /\ UNCHANGED <<file, runs, changes>>
  <2>1. disk \in Seq(Artefact) /\ n \in DOMAIN disk /\ ~HasRow(n, runs) /\ disk[n] \in Artefact
    BY <1>1, HeldIsOwned DEF RepairInv, DiskSound
  <2>2. Whole(m.copy) /\ m.copy \in Copies
    BY <1>1, BusyIsSound DEF ProcSound, Reads
  <2>3. /\ disk' \in Seq(Artefact) /\ DOMAIN disk' = DOMAIN disk
        /\ disk'[n].copy = m.copy /\ disk'[n].before = disk[n].before /\ disk'[n].restored = disk[n].restored
        /\ \A id \in DOMAIN disk : id # n => disk'[id] = disk[id]
    <3>1. [disk[n] EXCEPT !.copy = m.copy] \in Artefact
      BY <2>1, <2>2 DEF Artefact
    <3> QED BY <1>3, <2>1, <2>2, <3>1 DEF Artefact
  <2>4. DiskSound(disk')
    BY <2>2, <2>3 DEF RepairInv, DiskSound
  <2>5. AllWorn(disk, disk', runs, changes')
    BY <2>1, <2>3 DEF AllWorn, Worn
  <2>6. changes' \in Nat /\ changes' = changes
    BY <1>3 DEF RepairInv
  <2>7. RowsInv'
    BY <1>3, <2>5, <2>6, RowsStay
  <2>8. /\ IsProc(r) /\ r.opened = m.opened /\ r.command = m.command /\ r.item = m.item
        /\ r.call = m.call /\ r.since = m.since /\ r.copy = m.copy /\ r.run = n /\ r.stage = "fingerprint"
        /\ r.proposal = m.proposal
    BY <1>1, BusyIsSound DEF IsProc, ProcFields
  <2> HIDE DEF r
  <2>9. /\ r.stage \in Stages \ {"idle"} /\ r.stage \in InFlight /\ r.stage \notin OnRun
        /\ r.stage \in OnSource /\ m.command.calls[m.call] \in CallsAt(r.stage)
        /\ m.stage \in OnSource \ {"propose"}
    BY <1>1, <2>8, BusyIsSound DEF Stages, InFlight, OnRun, OnSource, CallsAt, ProcSound
  <2>10. Reads(r, file, changes)
    BY <1>1, <2>8, <2>9, BusyIsSound DEF ProcSound, Reads
  <2>11. Owns(r, disk', runs, changes) /\ Undoes(r, disk', runs, changes)
    BY <1>1, <2>1, <2>3, <2>8, <2>9, HeldIsOwned DEF Owns, Undoes
  <2>12. ProcSound(r, disk', runs', file', changes')
    BY <1>1, <1>3, <2>8, <2>9, <2>10, <2>11, BusyIsSound DEF ProcSound
  <2>13. OthersKeep(p, r)
    BY <1>1, <1>3, <2>1, <2>3, <2>8, HeldIsOwned DEF OthersKeep
  <2>14. NothingDropped(p, r)
    BY <1>1, <1>3, <2>3, <2>8, <2>9 DEF NothingDropped, Holds, Idle, IsProc, ProcFields
  <2>15. RowsGrow
    BY <1>3 DEF RowsGrow
  <2>16. file' = file /\ proc' = [proc EXCEPT ![p] = r] /\ changes' >= changes
    BY <1>3, <2>6
  <2>17. r # Idle => ProcSound(r, disk', runs', file', changes')
    BY <2>12
  <2> HIDE DEF m, n
  <2> QED BY <2>4, <2>5, <2>6, <2>7, <2>13, <2>14, <2>15, <2>16, <2>17, OneProcess
<1> QED BY <1>1, <1>2, <1>3, RefuseKeeps DEF WriteCopy, Set, me

(* A row is added, or put in place of another at the end of the table. *)
LEMMA Appended ==
    ASSUME NEW S, NEW s \in Seq(S), NEW x
    PROVE  /\ Append(s, x) \in Seq(S \cup {x}) /\ DOMAIN Append(s, x) = DOMAIN s \cup {Len(s) + 1}
           /\ Append(s, x)[Len(s) + 1] = x /\ \A i \in DOMAIN s : Append(s, x)[i] = s[i]
<1>1. s \in Seq(S \cup {x})
  OBVIOUS
<1> QED BY <1>1
RowsFrom(x) ==
    /\ \E i \in DOMAIN runs' : runs'[i] = x
    /\ \A i \in DOMAIN runs' : runs'[i] = x \/ \E j \in DOMAIN runs : runs'[i] = runs[j]
LEMMA RowAdded ==
    ASSUME RepairInv, NEW x, ~HasRow(x.id, runs), RowSound(x, disk, changes), runs' = Append(runs, x),
           UNCHANGED <<disk, changes>>
    PROVE  RowsInv' /\ RowsFrom(x) /\ \A id : HasRow(id, runs') <=> HasRow(id, runs) \/ id = x.id
<1>1. PICK S : runs \in Seq(S)
  BY DEF RepairInv, RowsInv
<1> DEFINE n == Len(runs) + 1
<1>2. /\ runs' \in Seq(S \cup {x}) /\ DOMAIN runs' = DOMAIN runs \cup {n}
      /\ runs'[n] = x /\ \A i \in DOMAIN runs : runs'[i] = runs[i]
  BY <1>1, Appended
<1> HIDE DEF n
<1>3. \A i \in DOMAIN runs' : RowSound(runs'[i], disk', changes')
  BY <1>2 DEF RepairInv, RowsInv
<1>4. \A i, j \in DOMAIN runs' : runs'[i].id = runs'[j].id => i = j
  BY <1>2 DEF RepairInv, RowsInv, HasRow
<1>5. \A id : HasRow(id, runs') <=> HasRow(id, runs) \/ id = x.id
  BY <1>2 DEF HasRow
<1>6. RowsFrom(x)
  BY <1>2 DEF RowsFrom
<1> QED BY <1>2, <1>3, <1>4, <1>5, <1>6 DEF RowsInv
LEMMA SaveRunKeeps ==
    ASSUME RepairInv, NEW p \in Procs, SaveRun(p)
    PROVE  RepairInv'
<1> DEFINE m == proc[p]
           x == [id |-> m.run, status |-> "applied", path |-> source(p), proposal |-> m.proposal,
                 origin |-> item(p).origin, fingerprint_before |-> m.fingerprint,
                 fingerprint_after |-> m.copy, operations |-> m.records, quiet |-> m.since = changes]
<1>1. Busy(p) /\ m.stage = "save" /\ m.stage \in OnSource /\ m.stage \in InFlight /\ Holds(m)
  BY AtIsBusy DEF SaveRun, OnSource, InFlight, Holds, Busy
<1>2. CASE source(p) \notin Registered /\ Refuse(p, "error")
  <2>1. Paths # Registered
    BY <1>1, <1>2, BusyIsSound DEF source, command
  <2> QED BY <1>1, <1>2, <2>1, RefuseKeeps
<1>3. CASE /\ runs' = Append(runs, x) /\ EndCall(p, "done", [run |-> m.run])
           /\ UNCHANGED <<file, disk, changes>>
  <2>1. /\ m.run \in DOMAIN disk /\ ~HasRow(m.run, runs) /\ disk[m.run].before \in Versions
        /\ disk[m.run].copy = m.copy
        /\ m.since = changes => disk[m.run].before = m.opened
    BY <1>1, HeldIsOwned DEF Owns
  <2>2. m.since = changes => /\ m.opened \in Versions /\ m.copy = Of(m.opened)
                             /\ m.fingerprint = m.opened /\ m.records = m.opened
                             /\ ColumnsFit(m.proposal, m.opened)
    BY <1>1, BusyIsSound DEF ProcSound, Reads, OnSource
  <2>3. /\ IsRow(x) /\ x.id = m.run /\ x.status = "applied" /\ x.fingerprint_after = m.copy
        /\ x.fingerprint_before = m.fingerprint /\ x.operations = m.records /\ x.quiet = (m.since = changes)
        /\ x.proposal = m.proposal
    BY DEF IsRow, RowFields
  <2> HIDE DEF x
  <2>4. RowSound(x, disk, changes)
    <3> HIDE DEF m
    <3>1. ASSUME x.quiet
          PROVE  /\ OneVersion(x, m.opened) /\ m.opened \in Versions
                 /\ disk[x.id].before = m.opened /\ disk[x.id].copy = Of(m.opened)
      <4>1. m.since = changes
        BY <2>3, <3>1
      <4> QED BY <2>1, <2>2, <2>3, <4>1 DEF OneVersion, Of, ColumnsFit
    <3>2. x.quiet => \E v \in Versions : /\ OneVersion(x, v) /\ disk[x.id].before \in {v, Gone}
                                         /\ disk[x.id].copy \in {Of(v), NoCopy}
      BY <3>1
    <3>3. x.id \in DOMAIN disk /\ disk[x.id].before # Gone /\ disk[x.id].copy = x.fingerprint_after
      BY <2>1, <2>3, RepairAssumption
    <3> QED BY <2>3, <3>2, <3>3 DEF RowSound
  <2>5. RowsInv' /\ \A id : HasRow(id, runs') <=> HasRow(id, runs) \/ id = m.run
    BY <1>3, <2>1, <2>3, <2>4, RowAdded
  <2>6. changes \in Nat
    BY DEF RepairInv
  <2>7. PICK r : proc' = [proc EXCEPT ![p] = r] /\ (r = Idle \/ Opening(r, changes))
    BY <1>1, <1>3, <2>6, EndOpens, BusyIsSound
  <2>8. r # Idle => ProcSound(r, disk', runs', file', changes')
    BY <1>3, <2>6, <2>7, OpeningIsSound
  <2>9. ~Holds(r)
    BY <2>7 DEF Holds, Opening, InFlight
  <2>10. OthersKeep(p, r)
    BY <1>1, <1>3, <2>5, <2>9, HeldIsOwned DEF OthersKeep
  <2>11. NothingDropped(p, r)
    BY <1>3, <2>5 DEF NothingDropped
  <2>12. RowsGrow /\ AllWorn(disk, disk', runs, changes')
    BY <1>3, <2>5 DEF RowsGrow, AllWorn, Worn
  <2>13. file' = file /\ changes' \in Nat /\ changes' >= changes /\ DiskSound(disk')
    BY <1>3, <2>6 DEF RepairInv
  <2> HIDE DEF m
  <2> QED BY <2>5, <2>7, <2>8, <2>10, <2>11, <2>12, <2>13, OneProcess
<1> QED BY <1>2, <1>3 DEF SaveRun, me

----------------------------------------------------------------------------
(* Of an earlier run. *)
LEMMA ReadRunKeeps ==
    ASSUME RepairInv, NEW p \in Procs, ReadRun(p)
    PROVE  RepairInv'
<1> DEFINE m == proc[p]
           x == CHOOSE x \in Stored(Target(p)) : TRUE
           b == LastId(Applied)
           r == [m EXCEPT !.stage = operation(p), !.run = Target(p), !.row = x, !.before = b]
<1>1. Busy(p) /\ m.stage = "open" /\ operation(p) \notin OnIssue
  BY AtIsBusy DEF ReadRun
<1>2. ~Holds(m)
  BY <1>1 DEF Holds, InFlight
<1>3. CASE Refuse(p, "missing")
  BY <1>1, <1>2, <1>3, RefuseKeeps
<1>4. CASE Stored(Target(p)) # {} /\ Move(p, r)
  <2>1. x \in Stored(Target(p))
    BY <1>4
  <2> HIDE DEF x, b
  <2>2. RowSound(x, disk, changes) /\ x.id = Target(p) /\ HasRow(Target(p), runs)
    BY <2>1 DEF Stored, Members, RepairInv, RowsInv, HasRow
  <2>3. operation(p) \in {"rollback", "verify", "diff"}
    BY <1>1, BusyIsSound, RepairAssumption DEF ProcSound, RepairCalls, OnIssue
  <2>4. /\ IsProc(r) /\ r.stage = operation(p) /\ r.opened = m.opened /\ r.command = m.command
        /\ r.item = m.item /\ r.call = m.call /\ r.since = m.since /\ r.copy = m.copy
        /\ r.run = Target(p) /\ r.row = x
    BY <1>1, BusyIsSound, ZenonT(40) DEF IsProc, ProcFields
  <2> HIDE DEF r
  <2>5. /\ r.stage \in Stages \ {"idle"} /\ r.stage \notin InFlight /\ r.stage \notin OnSource
        /\ r.stage # "save rollback" /\ m.command.calls[m.call] \in CallsAt(r.stage)
    BY <1>1, <2>3, <2>4, BusyIsSound DEF Stages, InFlight, OnSource, CallsAt
  <2>6. Reads(r, file, changes)
    BY <1>1, <2>4, <2>5, BusyIsSound DEF ProcSound, Reads, OnSource
  <2>7. Owns(r, disk, runs, changes) /\ Undoes(r, disk, runs, changes)
    BY <2>2, <2>4, <2>5 DEF Owns, Undoes
  <2>8. ProcSound(r, disk, runs, file, changes)
    BY <1>1, <2>4, <2>5, <2>6, <2>7, BusyIsSound DEF ProcSound
  <2>9. m.stage \notin InFlight
    BY <1>1 DEF InFlight
  <2> QED BY <1>1, <1>4, <2>5, <2>8, <2>9, MoveKeeps
<1> QED BY <1>3, <1>4 DEF ReadRun, me
LEMMA CopyBackKeeps ==
    ASSUME RepairInv, NEW p \in Procs, CopyBack(p)
    PROVE  RepairInv'
<1> DEFINE m == proc[p]
           n == m.run
           r == [m EXCEPT !.stage = "save rollback"]
<1>1. Busy(p) /\ m.stage = "rollback" /\ m.stage \in OnRun
  BY AtIsBusy DEF CopyBack, OnRun
<1>2. ~Holds(m)
  BY <1>1 DEF Holds, InFlight
<1>3. CASE /\ disk[n].before # Gone /\ disk' = [disk EXCEPT ![n].restored = disk[n].before]
           /\ proc' = [proc EXCEPT ![p] = r] /\ UNCHANGED <<file, runs, changes>>
  <2>1. RowSound(m.row, disk, changes) /\ m.row.id = n /\ HasRow(n, runs)
    BY <1>1, BusyIsSound DEF ProcSound, Undoes
  <2>2. disk \in Seq(Artefact) /\ n \in DOMAIN disk /\ disk[n] \in Artefact
    BY <2>1 DEF RepairInv, DiskSound, RowSound
  <2>3. /\ disk' \in Seq(Artefact) /\ DOMAIN disk' = DOMAIN disk
        /\ disk'[n].copy = disk[n].copy /\ disk'[n].before = disk[n].before
        /\ disk'[n].restored = disk[n].before
        /\ \A id \in DOMAIN disk : id # n => disk'[id] = disk[id]
    <3> DEFINE e == [disk[n] EXCEPT !.restored = disk[n].before]
    <3>1. /\ e \in Artefact /\ e.copy = disk[n].copy /\ e.before = disk[n].before
          /\ e.restored = disk[n].before
      BY <2>2 DEF Artefact
    <3>2. disk' = [disk EXCEPT ![n] = e]
      BY <1>3
    <3> HIDE DEF e, n
    <3> QED BY <2>2, <3>1, <3>2
  <2>4. DiskSound(disk')
    BY <2>3 DEF RepairInv, DiskSound
  <2>5. AllWorn(disk, disk', runs, changes')
    BY <1>3, <2>3 DEF AllWorn, Worn
  <2>6. changes' \in Nat /\ changes' = changes
    BY <1>3 DEF RepairInv
  <2>7. RowsInv'
    <3>1. runs' = runs
      BY <1>3
    <3>2. changes <= changes'
      BY <2>6
    <3> QED BY <2>5, <2>6, <3>1, <3>2, RowsStay
  <2>8. /\ IsProc(r) /\ r.opened = m.opened /\ r.command = m.command /\ r.item = m.item
        /\ r.call = m.call /\ r.since = m.since /\ r.copy = m.copy /\ r.run = n /\ r.row = m.row
        /\ r.stage = "save rollback"
    BY <1>1, BusyIsSound DEF IsProc, ProcFields
  <2> HIDE DEF r
  <2>9. /\ r.stage \in Stages \ {"idle"} /\ r.stage \notin InFlight /\ r.stage \notin OnSource
        /\ r.stage # "carry" /\ m.command.calls[m.call] \in CallsAt(r.stage)
    BY <1>1, <2>8, BusyIsSound DEF Stages, InFlight, OnRun, OnSource, CallsAt, ProcSound
  <2>10. Reads(r, file, changes)
    BY <1>1, <2>8, <2>9, BusyIsSound DEF ProcSound, Reads, OnSource
  <2>11. RowSound(m.row, disk', changes')
    BY <2>1, <2>5, <2>6, RowStays
  <2>12. Owns(r, disk', runs', changes') /\ Undoes(r, disk', runs', changes')
    BY <1>3, <2>1, <2>3, <2>8, <2>9, <2>11 DEF Owns, Undoes
  <2>13. r # Idle => ProcSound(r, disk', runs', file', changes')
    BY <1>1, <1>3, <2>6, <2>8, <2>9, <2>10, <2>12, BusyIsSound DEF ProcSound
  <2>14. ~Holds(r)
    BY <2>9 DEF Holds
  <2>15. OthersKeep(p, r)
    BY <1>3, <2>3, <2>14, HeldIsOwned DEF OthersKeep
  <2>16. NothingDropped(p, r)
    BY <1>2, <1>3, <2>3 DEF NothingDropped
  <2>17. RowsGrow /\ file' = file /\ proc' = [proc EXCEPT ![p] = r] /\ changes' >= changes
    BY <1>3, <2>6 DEF RowsGrow
  <2> HIDE DEF m, n
  <2> QED BY <2>4, <2>5, <2>6, <2>7, <2>13, <2>15, <2>16, <2>17, OneProcess
<1> QED BY <1>1, <1>2, <1>3, RefuseKeeps DEF CopyBack, Set, me
(* t is s, of n elements, without its k-th, and with x at the end. *)
Replaces(t, s, n, k, x) ==
    /\ \E T : t \in Seq(T)
    /\ Len(t) = n /\ t[n] = x
    /\ \A i \in 1 .. k - 1 : t[i] = s[i]
    /\ \A i \in k .. n - 1 : t[i] = s[i + 1]
LEMMA RowReplaced ==
    ASSUME NEW S, NEW s \in Seq(S), NEW k \in DOMAIN s, NEW x
    PROVE  Replaces(Append(RemoveAt(s, k), x), s, Len(s), k, x)
<1> DEFINE a == SubSeq(s, 1, k - 1)
           b == SubSeq(s, k + 1, Len(s))
           c == a \o b
<1>1. Len(s) \in Nat /\ k \in 1 .. Len(s)
  OBVIOUS
<1>2. /\ a \in Seq(S) /\ Len(a) = k - 1 /\ \A i \in 1 .. k - 1 : a[i] = s[i]
  BY <1>1
<1>3. /\ b \in Seq(S) /\ Len(b) = Len(s) - k /\ \A i \in 1 .. Len(s) - k : b[i] = s[k + i]
  BY <1>1
<1> HIDE DEF a, b
<1>4. /\ c \in Seq(S) /\ Len(c) = Len(s) - 1
      /\ \A i \in 1 .. k - 1 : c[i] = a[i]
      /\ \A i \in k .. Len(s) - 1 : c[i] = b[i - (k - 1)]
  BY <1>1, <1>2, <1>3, SMTT(30)
<1>5. \A i \in k .. Len(s) - 1 : c[i] = s[i + 1]
  <2> TAKE i \in k .. Len(s) - 1
  <2>1. i - (k - 1) \in 1 .. Len(s) - k /\ k + (i - (k - 1)) = i + 1
    BY <1>1
  <2> HIDE DEF c
  <2> QED BY <1>3, <1>4, <2>1
<1> DEFINE t == Append(c, x)
<1>6. t = Append(RemoveAt(s, k), x)
  BY DEF RemoveAt, a, b
<1> HIDE DEF c
<1>7. /\ t \in Seq(S \cup {x}) /\ Len(t) = Len(c) + 1 /\ t[Len(c) + 1] = x
      /\ \A i \in 1 .. Len(c) : t[i] = c[i]
  BY <1>4, Appended
<1> HIDE DEF t
<1>8. Len(t) = Len(s) /\ t[Len(s)] = x
  BY <1>1, <1>4, <1>7
<1>9. \A i \in 1 .. k - 1 : t[i] = s[i]
  <2> TAKE i \in 1 .. k - 1
  <2>1. i \in 1 .. Len(c)
    BY <1>1, <1>4
  <2> QED BY <1>2, <1>4, <1>7, <2>1
<1>10. \A i \in k .. Len(s) - 1 : t[i] = s[i + 1]
  <2> TAKE i \in k .. Len(s) - 1
  <2>1. i \in 1 .. Len(c) /\ i \in Nat
    BY <1>1, <1>4
  <2>2. t[i] = c[i]
    BY <1>7, <2>1
  <2>3. c[i] = s[i + 1]
    BY <1>5
  <2> QED BY <2>2, <2>3
<1>11. \E T : t \in Seq(T)
  BY <1>7
<1> QED BY <1>6, <1>8, <1>9, <1>10, <1>11 DEF Replaces
LEMMA RowMarked ==
    ASSUME RepairInv, NEW x, HasRow(x.id, runs), RowSound(x, disk, changes),
           runs' = Append(RemoveAt(runs, CHOOSE i \in DOMAIN runs : runs[i].id = x.id), x),
           UNCHANGED <<disk, changes>>
    PROVE  RowsInv' /\ RowsFrom(x) /\ \A id : HasRow(id, runs') <=> HasRow(id, runs)
<1>1. PICK S : runs \in Seq(S)
  BY DEF RepairInv, RowsInv
<1>2. PICK k : k = CHOOSE i \in DOMAIN runs : runs[i].id = x.id
  OBVIOUS
<1>3. k \in DOMAIN runs /\ runs[k].id = x.id
  BY <1>2 DEF HasRow
<1>4. runs' = Append(RemoveAt(runs, k), x)
  BY <1>2
<1> DEFINE n == Len(runs)
<1>5. Replaces(runs', runs, n, k, x)
  BY <1>1, <1>3, <1>4, RowReplaced
<1>6. n \in Nat /\ k \in 1 .. n /\ DOMAIN runs = 1 .. n /\ DOMAIN runs' = 1 .. n
  <2>1. Len(runs) \in Nat /\ DOMAIN runs = 1 .. Len(runs)
    BY <1>1
  <2>2. PICK T : runs' \in Seq(T)
    BY <1>5 DEF Replaces
  <2>3. DOMAIN runs' = 1 .. Len(runs')
    BY <2>2
  <2>4. Len(runs') = n
    BY <1>5 DEF Replaces
  <2> QED BY <1>3, <2>1, <2>3, <2>4
<1> HIDE DEF n
<1>7. \A i, j \in 1 .. n : runs[i].id = runs[j].id => i = j
  BY <1>6 DEF RepairInv, RowsInv
<1>f. PICK from : from = [i \in 1 .. n |-> IF i < k THEN i ELSE IF i < n THEN i + 1 ELSE k]
  OBVIOUS
<1>8. \A i \in 1 .. n : from[i] \in 1 .. n /\ runs'[i].id = runs[from[i]].id
  <2> TAKE i \in 1 .. n
  <2>1. CASE i < k
    <3>1. i \in 1 .. k - 1 /\ from[i] = i
      BY <1>f, <1>6, <2>1
    <3>2. runs'[i] = runs[i]
      BY <1>5, <3>1 DEF Replaces
    <3> QED BY <3>1, <3>2
  <2>2. CASE k <= i /\ i < n
    <3>1. i \in k .. n - 1 /\ from[i] = i + 1 /\ i + 1 \in 1 .. n
      BY <1>f, <1>6, <2>2
    <3>2. runs'[i] = runs[i + 1]
      BY <1>5, <3>1 DEF Replaces
    <3> QED BY <3>1, <3>2
  <2>3. CASE i = n
    <3>1. from[i] = k
      BY <1>f, <1>6, <2>3
    <3>2. runs'[n] = x
      BY <1>5 DEF Replaces
    <3> QED BY <1>3, <1>6, <2>3, <3>1, <3>2
  <2> QED BY <1>6, <2>1, <2>2, <2>3
<1>9. \A i \in 1 .. n : runs'[i] = runs[from[i]] \/ runs'[i] = x
  BY <1>f, <1>5, <1>6 DEF Replaces
<1>10. \A i, j \in 1 .. n : from[i] = from[j] => i = j
  <2> TAKE i, j \in 1 .. n
  <2>1. /\ from[i] = IF i < k THEN i ELSE IF i < n THEN i + 1 ELSE k
        /\ from[j] = IF j < k THEN j ELSE IF j < n THEN j + 1 ELSE k
    BY <1>f
  <2> QED BY <1>6, <2>1
<1>11. \A j \in 1 .. n : \E i \in 1 .. n : from[i] = j
  <2> TAKE j \in 1 .. n
  <2>1. CASE j < k
    <3>1. from[j] = j
      BY <1>f, <2>1
    <3> QED BY <3>1
  <2>2. CASE j = k
    <3>1. n \in 1 .. n /\ from[n] = k
      BY <1>f, <1>6
    <3> QED BY <2>2, <3>1
  <2>3. CASE j > k
    <3>1. j - 1 \in 1 .. n /\ ~(j - 1 < k) /\ j - 1 < n /\ (j - 1) + 1 = j
      BY <1>6, <2>3
    <3>2. from[j - 1] = j
      BY <1>f, <3>1
    <3> QED BY <3>1, <3>2
  <2> QED BY <1>6, <2>1, <2>2, <2>3
<1>12. \A i \in DOMAIN runs' : RowSound(runs'[i], disk', changes')
  BY <1>6, <1>8, <1>9 DEF RepairInv, RowsInv
<1>13. \A i, j \in DOMAIN runs' : runs'[i].id = runs'[j].id => i = j
  <2> SUFFICES ASSUME NEW i \in 1 .. n, NEW j \in 1 .. n, runs'[i].id = runs'[j].id
               PROVE  i = j
    BY <1>6
  <2>1. from[i] \in 1 .. n /\ from[j] \in 1 .. n /\ runs[from[i]].id = runs[from[j]].id
    BY <1>8
  <2> QED BY <1>7, <1>10, <2>1
<1>14. \A id : HasRow(id, runs') <=> HasRow(id, runs)
  <2> SUFFICES ASSUME NEW id
               PROVE  (\E i \in 1 .. n : runs'[i].id = id) <=> (\E i \in 1 .. n : runs[i].id = id)
    BY <1>6, ZenonT(30) DEF HasRow
  <2>1. ASSUME NEW j \in 1 .. n, runs[j].id = id
        PROVE  \E i \in 1 .. n : runs'[i].id = id
    <3>1. PICK i \in 1 .. n : from[i] = j
      BY <1>11
    <3> QED BY <1>8, <2>1, <3>1
  <2>2. ASSUME NEW i \in 1 .. n, runs'[i].id = id
        PROVE  \E j \in 1 .. n : runs[j].id = id
    BY <1>8, <2>2
  <2> QED BY <2>1, <2>2
<1>15. n \in 1 .. n /\ runs'[n] = x
  BY <1>5, <1>6 DEF Replaces
<1>16. RowsFrom(x)
  BY <1>6, <1>8, <1>9, <1>15 DEF RowsFrom
<1> QED BY <1>5, <1>12, <1>13, <1>14, <1>16 DEF RowsInv, Replaces
LEMMA SaveRollbackMarks ==
    ASSUME RepairInv, NEW p \in Procs, SaveRollback(p)
    PROVE  /\ RowsInv' /\ \A id : HasRow(id, runs') <=> HasRow(id, runs)
           /\ \E x : RowsFrom(x) /\ x.id = proc[p].run /\ x.status = "rolled_back" /\ HasRow(x.id, runs)
<1> DEFINE m == proc[p]
           x == [m.row EXCEPT !.status = "rolled_back"]
<1>1. Busy(p) /\ m.stage = "save rollback" /\ m.stage \in OnRun
  BY AtIsBusy DEF SaveRollback, OnRun
<1>2. /\ runs' = Append(RemoveAt(runs, CHOOSE i \in DOMAIN runs : runs[i].id = m.run), x)
      /\ disk' = disk /\ changes' = changes
  BY DEF SaveRollback, me
<1>3. /\ RowSound(m.row, disk, changes) /\ m.row.id = m.run /\ HasRow(m.run, runs)
      /\ disk[m.run].restored # Gone
  BY <1>1, BusyIsSound DEF ProcSound, Undoes
<1>4. /\ IsRow(x) /\ x.id = m.run /\ x.status = "rolled_back" /\ x.quiet = m.row.quiet
      /\ x.fingerprint_after = m.row.fingerprint_after
      /\ \A v : OneVersion(m.row, v) => OneVersion(x, v)
  BY <1>3 DEF RowSound, IsRow, RowFields, OneVersion
<1> HIDE DEF x
<1>5. RowSound(x, disk, changes)
  BY <1>3, <1>4 DEF RowSound
<1>6. RowsInv' /\ RowsFrom(x) /\ \A id : HasRow(id, runs') <=> HasRow(id, runs)
  BY <1>2, <1>3, <1>4, <1>5, RowMarked
<1> QED BY <1>3, <1>4, <1>6
LEMMA SaveRollbackKeeps ==
    ASSUME RepairInv, NEW p \in Procs, SaveRollback(p)
    PROVE  RepairInv'
<1> DEFINE m == proc[p]
<1>1. Busy(p) /\ m.stage = "save rollback"
  BY AtIsBusy DEF SaveRollback
<1>2. ~Holds(m)
  BY <1>1 DEF Holds, InFlight
<1>3. file' = file /\ disk' = disk /\ changes' = changes
  BY DEF SaveRollback
<1>4. PICK told : EndCall(p, "done", told)
  BY DEF SaveRollback
<1>5. RowsInv' /\ \A id : HasRow(id, runs') <=> HasRow(id, runs)
  BY SaveRollbackMarks
<1>6. changes \in Nat
  BY DEF RepairInv
<1>7. PICK r : proc' = [proc EXCEPT ![p] = r] /\ (r = Idle \/ Opening(r, changes))
  BY <1>1, <1>4, <1>6, EndOpens, BusyIsSound
<1>8. r # Idle => ProcSound(r, disk', runs', file', changes')
  BY <1>3, <1>6, <1>7, OpeningIsSound
<1>9. ~Holds(r)
  BY <1>7 DEF Holds, Opening, InFlight
<1>10. OthersKeep(p, r)
  BY <1>3, <1>5, <1>9, HeldIsOwned DEF OthersKeep
<1>11. NothingDropped(p, r)
  BY <1>2, <1>3, <1>5 DEF NothingDropped
<1>12. RowsGrow /\ AllWorn(disk, disk', runs, changes')
  BY <1>3, <1>5 DEF RowsGrow, AllWorn, Worn
<1>13. changes' \in Nat /\ changes' >= changes /\ DiskSound(disk')
  BY <1>3, <1>6 DEF RepairInv
<1> HIDE DEF m
<1> QED BY <1>3, <1>5, <1>7, <1>8, <1>10, <1>11, <1>12, <1>13, OneProcess

----------------------------------------------------------------------------
(* Crashes, edits and lost artefacts. *)
LEMMA CrashKeeps ==
    ASSUME RepairInv, NEW p \in Procs, Crash(p)
    PROVE  RepairInv'
<1>1. /\ proc' = [proc EXCEPT ![p] = Idle] /\ file' = file /\ disk' = disk /\ runs' = runs
      /\ changes' = changes + 1
  BY DEF Crash, Set
<1>2. changes \in Nat /\ changes' \in Nat /\ changes <= changes' /\ changes' # 0 /\ changes' >= changes
  BY <1>1 DEF RepairInv
<1>3. DiskSound(disk') /\ AllWorn(disk, disk', runs, changes')
  BY <1>1 DEF RepairInv, AllWorn, Worn
<1>4. RowsInv'
  BY <1>1, <1>2, <1>3, RowsStay
<1>5. OthersKeep(p, Idle)
  BY <1>1, HeldIsOwned DEF OthersKeep, Holds
<1>6. NothingDropped(p, Idle) /\ RowsGrow
  BY <1>1, <1>2 DEF NothingDropped, RowsGrow
<1> QED BY <1>1, <1>2, <1>3, <1>4, <1>5, <1>6, OneProcess
LEMMA EnvironmentKeeps ==
    ASSUME RepairInv, proc' = proc, runs' = runs, changes' = changes + 1, file' \in [Paths -> Versioned],
           DiskSound(disk'), AllWorn(disk, disk', runs, changes'),
           \A id \in DOMAIN disk : ~HasRow(id, runs) => disk'[id] = disk[id]
    PROVE  RepairInv'
<1>1. changes \in Nat /\ changes' \in Nat /\ changes <= changes' /\ changes' # 0 /\ changes' > changes
  BY DEF RepairInv
<1>2. RowsInv'
  BY <1>1, RowsStay
<1>3. ASSUME NEW q \in Procs, Busy(q)
      PROVE  ProcSound(proc[q], disk', runs', file', changes')
  <2>1. ProcSound(proc[q], disk, runs, file, changes)
    BY <1>3, BusyIsSound
  <2>2. ASSUME proc[q].stage \in InFlight
        PROVE  /\ ~HasRow(proc[q].run, runs')
               /\ disk'[proc[q].run].before = disk[proc[q].run].before
               /\ disk'[proc[q].run].copy = disk[proc[q].run].copy
    BY <1>3, <2>2, HeldIsOwned DEF Holds, Busy
  <2> QED BY <1>1, <2>1, <2>2, SoundStays
<1>4. ProcsInv'
  BY <1>3 DEF RepairInv, ProcsInv, Busy, Writes
<1>5. NothingLeft'
  BY <1>1 DEF NothingLeft
<1> QED BY <1>1, <1>2, <1>4, <1>5 DEF RepairInv
LEMMA EditKeeps ==
    ASSUME RepairInv, NEW f \in Paths, NEW v \in Later, Edit(f, v)
    PROVE  RepairInv'
<1>1. /\ file' = [file EXCEPT ![f] = v] /\ proc' = proc /\ disk' = disk /\ runs' = runs
      /\ changes' = changes + 1
  BY DEF Edit
<1>2. v \in Versioned
  BY RepairAssumption
<1>3. file' \in [Paths -> Versioned]
  BY <1>1, <1>2 DEF RepairInv
<1>4. DiskSound(disk') /\ AllWorn(disk, disk', runs, changes')
  BY <1>1 DEF RepairInv, AllWorn, Worn
<1> QED BY <1>1, <1>3, <1>4, EnvironmentKeeps
LEMMA RemoveArtefactKeeps ==
    ASSUME RepairInv, NEW id \in DOMAIN disk, RemoveArtefact(id)
    PROVE  RepairInv'
<1>1. file' = file /\ proc' = proc /\ runs' = runs /\ changes' = changes + 1
  BY DEF RemoveArtefact
<1>2. HasRow(id, runs)
  BY DEF RemoveArtefact, Stored, Members, HasRow
<1>3. disk \in Seq(Artefact) /\ disk[id] \in Artefact
  BY DEF RepairInv, DiskSound
<1>4. PICK d \in Artefact : /\ disk' = [disk EXCEPT ![id] = d] /\ d.restored = disk[id].restored
                            /\ d.before \in {disk[id].before, Gone} /\ d.copy \in {disk[id].copy, NoCopy}
  <2>1. CASE disk' = [disk EXCEPT ![id].before = Gone]
    <3> DEFINE d == [disk[id] EXCEPT !.before = Gone]
    <3>1. /\ d \in Artefact /\ d.restored = disk[id].restored /\ d.before = Gone /\ d.copy = disk[id].copy
      BY <1>3 DEF Artefact, Versioned
    <3>2. disk' = [disk EXCEPT ![id] = d]
      BY <2>1
    <3> HIDE DEF d
    <3> QED BY <3>1, <3>2
  <2>2. CASE disk' = [disk EXCEPT ![id].copy = NoCopy]
    <3> DEFINE d == [disk[id] EXCEPT !.copy = NoCopy]
    <3>1. /\ d \in Artefact /\ d.restored = disk[id].restored /\ d.before = disk[id].before /\ d.copy = NoCopy
      BY <1>3, CopiesHaveFields DEF Artefact
    <3>2. disk' = [disk EXCEPT ![id] = d]
      BY <2>2
    <3> HIDE DEF d
    <3> QED BY <3>1, <3>2
  <2> QED BY <2>1, <2>2 DEF RemoveArtefact
<1>5. /\ disk' \in Seq(Artefact) /\ DOMAIN disk' = DOMAIN disk /\ disk'[id] = d
      /\ \A i \in DOMAIN disk : i # id => disk'[i] = disk[i]
  BY <1>3, <1>4
<1>6. DiskSound(disk')
  BY <1>4, <1>5 DEF RepairInv, DiskSound
<1>7. changes' # 0
  BY <1>1 DEF RepairInv
<1>8. AllWorn(disk, disk', runs, changes')
  BY <1>4, <1>5, <1>7 DEF AllWorn, Worn
<1>9. file' \in [Paths -> Versioned]
  BY <1>1 DEF RepairInv
<1>10. \A i \in DOMAIN disk : ~HasRow(i, runs) => disk'[i] = disk[i]
  BY <1>2, <1>5
<1> QED BY <1>1, <1>6, <1>8, <1>9, <1>10, EnvironmentKeeps

----------------------------------------------------------------------------
LEMMA InitSound == Init => RepairInv
<1> SUFFICES ASSUME Init PROVE RepairInv
  OBVIOUS
<1>1. PICK s \in InitialStores : disk = s.disk /\ runs = s.runs
  BY DEF Init
<1>2. Orderly(s)
  BY RepairAssumption
<1>3. /\ disk \in Seq(Artefact) /\ runs \in Seq(Members(runs))
      /\ \A id \in DOMAIN disk : HasRow(id, runs)
  BY <1>1, <1>2 DEF Orderly, HasRow
<1>4. /\ \A i, j \in DOMAIN runs : runs[i].id = runs[j].id => i = j
      /\ \A i \in DOMAIN runs :
           LET r == runs[i]  d == disk[r.id]
           IN  /\ IsRow(r) /\ r.status \in {"applied", "rolled_back"} /\ r.id \in DOMAIN disk
               /\ d.before # Gone /\ d.copy = r.fingerprint_after /\ Whole(d.copy)
               /\ r.quiet => OneVersion(r, d.before)
               /\ d.restored = IF r.status = "rolled_back" THEN d.before ELSE Gone
  BY <1>1, <1>2 DEF Orderly, IsRow
<1>5. \A id \in DOMAIN disk : disk[id] \in Artefact
  BY <1>3
<1>6. DiskSound(disk)
  <2>1. ASSUME NEW id \in DOMAIN disk
        PROVE  /\ disk[id].restored # Gone => disk[id].before \in {disk[id].restored, Gone}
               /\ disk[id].copy # NoCopy => Whole(disk[id].copy)
    BY <1>3, <1>4, <2>1 DEF HasRow
  <2> QED BY <1>3, <2>1 DEF DiskSound
<1>7. ASSUME NEW i \in DOMAIN runs
      PROVE  RowSound(runs[i], disk, changes)
  <2> DEFINE r == runs[i]
             d == disk[r.id]
  <2>1. /\ IsRow(r) /\ r.status \in {"applied", "rolled_back"} /\ r.id \in DOMAIN disk
        /\ d.before # Gone /\ d.copy = r.fingerprint_after
        /\ r.quiet => OneVersion(r, d.before)
        /\ d.restored = IF r.status = "rolled_back" THEN d.before ELSE Gone
    BY <1>4
  <2>2. d.before \in Versions
    BY <1>5, <2>1 DEF Artefact, Versioned
  <2>3. r.quiet => /\ OneVersion(r, d.before) /\ d.copy = Of(d.before)
    BY <2>1 DEF OneVersion, Of
  <2> HIDE DEF r
  <2> QED BY <2>1, <2>2, <2>3 DEF RowSound, r
<1>8. RowsInv
  BY <1>3, <1>4, <1>7 DEF RowsInv
<1>9. ProcsInv
  BY DEF Init, ProcsInv, Busy, Writes
<1>10. NothingLeft
  BY <1>3 DEF NothingLeft
<1> QED BY <1>6, <1>8, <1>9, <1>10, RepairAssumption DEF Init, RepairInv
LEMMA StepSound == RepairInv /\ [Next]_vars => RepairInv'
<1> SUFFICES ASSUME RepairInv, [Next]_vars PROVE RepairInv'
  OBVIOUS
<1>1. ASSUME NEW p \in Procs, Step(p) PROVE RepairInv'
  <2>1. CASE \E c \in Commands : Begin(p, c)
    BY <2>1, BeginKeeps
  <2>2. CASE OpenSource(p) \/ Propose(p) \/ PreviewRules(p) \/ PreviewStats(p)
    BY <2>2, OpenSourceKeeps, ProposeKeeps, PreviewRulesKeeps, PreviewStatsKeeps
  <2>3. CASE Project(p) \/ CopyCells(p) \/ ReportPreview(p) \/ Snapshot(p) \/ WriteCopy(p)
    BY <2>3, ProjectKeeps, CopyCellsKeeps, ReportPreviewKeeps, SnapshotKeeps, WriteCopyKeeps
  <2>4. CASE Fingerprint(p) \/ RecordOperations(p) \/ SaveRun(p)
    BY <2>4, FingerprintKeeps, SaveRunKeeps
  <2>5. CASE ReadRun(p) \/ CopyBack(p) \/ SaveRollback(p) \/ Verify(p) \/ Diff(p) \/ Crash(p)
    BY <2>5, ReadRunKeeps, CopyBackKeeps, SaveRollbackKeeps, VerifyKeeps, CrashKeeps
  <2> QED BY <1>1, <2>1, <2>2, <2>3, <2>4, <2>5 DEF Step
<1>2. CASE (\E f \in Paths, v \in Later : Edit(f, v)) \/ \E id \in DOMAIN disk : RemoveArtefact(id)
  BY <1>2, EditKeeps, RemoveArtefactKeeps
<1>3. CASE UNCHANGED vars
  BY <1>3 DEF vars, RepairInv, DiskSound, RowsInv, ProcsInv, NothingLeft, Busy, Writes
<1> QED BY <1>1, <1>2, <1>3 DEF Next
LEMMA RepairIsSound == Spec => []RepairInv
  BY InitSound, StepSound, PTL DEF Spec

(* A run that is marked as rolled back has its restored copy, however many processes roll *)
(* it back; an applied one has both artefacts unless somebody removed them: the row is    *)
(* written after the files, and INSERT OR REPLACE after the copy.                         *)
THEOREM RowsAndFiles == Spec => []RowsHaveTheirFiles
<1>1. ASSUME RepairInv
      PROVE  RowsHaveTheirFiles
  <2> SUFFICES ASSUME NEW r \in Members(runs)
               PROVE  /\ r.status = "rolled_back" =>
                           disk[r.id].restored # Gone /\ disk[r.id].before \in {disk[r.id].restored, Gone}
                      /\ changes = 0 => disk[r.id].before # Gone /\ disk[r.id].copy = r.fingerprint_after
    BY DEF RowsHaveTheirFiles
  <2>1. RowSound(r, disk, changes)
    BY <1>1 DEF RepairInv, RowsInv, Members
  <2>2. disk[r.id].restored # Gone => disk[r.id].before \in {disk[r.id].restored, Gone}
    BY <1>1, <2>1 DEF RepairInv, DiskSound, RowSound
  <2> QED BY <2>1, <2>2 DEF RowSound
<1> QED BY <1>1, RepairIsSound, PTL

(* As long as nothing disturbs the commands, no artefact of a registered source is left   *)
(* behind without its row: apply_repair refuses before it writes, and what it reads       *)
(* afterwards is what it has read before.                                                 *)
THEOREM NoArtefactIsLeft == Spec => []ArtefactsHaveARow
<1>1. ASSUME RepairInv
      PROVE  ArtefactsHaveARow
  <2> SUFFICES ASSUME Paths = Registered, changes = 0, NEW id \in DOMAIN disk
               PROVE  Stored(id) # {} \/ id \in Running
    BY DEF ArtefactsHaveARow
  <2>1. CASE HasRow(id, runs)
    BY <2>1 DEF HasRow, Stored, Members
  <2>2. CASE \E p \in Procs : Writes(p, id)
    BY <2>2 DEF Writes, Busy, Running
  <2> QED BY <1>1, <2>1, <2>2 DEF RepairInv, NothingLeft
<1> QED BY <1>1, RepairIsSound, PTL

-----------------------------------------------------------------------------
(* Tables. The rows of a table are the cells of its entries, as many as Size counts. *)
Entries(t) == [i \in DOMAIN t.rows |-> [k \in 1 .. t.rows[i].times |-> t.rows[i].cells]]
CellsOf(t) == {e.cells : e \in Members(t.rows)}
LEMMA EntriesAreLists ==
    ASSUME NEW t, Rectangular(t)
    PROVE  /\ Entries(t) \in Seq(Seq(CellsOf(t))) /\ Len(Entries(t)) = Len(t.rows) /\ Len(t.rows) \in Nat
           /\ DOMAIN Entries(t) = 1 .. Len(t.rows)
           /\ \A i \in 1 .. Len(t.rows) : /\ Entries(t)[i] = [k \in 1 .. t.rows[i].times |-> t.rows[i].cells]
                                          /\ Len(Entries(t)[i]) = t.rows[i].times /\ t.rows[i].times \in Nat
<1>1. t.rows \in Seq(Members(t.rows)) /\ Len(t.rows) \in Nat /\ DOMAIN t.rows = 1 .. Len(t.rows)
  BY DEF Rectangular
<1>2. ASSUME NEW i \in 1 .. Len(t.rows)
      PROVE  /\ t.rows[i].times \in Nat /\ t.rows[i].cells \in CellsOf(t)
             /\ [k \in 1 .. t.rows[i].times |-> t.rows[i].cells] \in Seq(CellsOf(t))
             /\ Len([k \in 1 .. t.rows[i].times |-> t.rows[i].cells]) = t.rows[i].times
  <2>1. t.rows[i] \in Members(t.rows)
    BY <1>1 DEF Members
  <2>2. t.rows[i].times \in Nat /\ t.rows[i].cells \in CellsOf(t)
    BY <2>1 DEF Rectangular, CellsOf
  <2>3. PICK n \in Nat : n = t.rows[i].times
    BY <2>2
  <2>4. PICK x \in CellsOf(t) : x = t.rows[i].cells
    BY <2>2
  <2>5. [k \in 1 .. n |-> x] \in Seq(CellsOf(t)) /\ Len([k \in 1 .. n |-> x]) = n
    OBVIOUS
  <2> QED BY <2>2, <2>3, <2>4, <2>5
<1>3. \A i \in 1 .. Len(t.rows) : Entries(t)[i] = [k \in 1 .. t.rows[i].times |-> t.rows[i].cells]
  BY <1>1 DEF Entries
<1>4. Entries(t) \in [1 .. Len(t.rows) -> Seq(CellsOf(t))]
  BY <1>1, <1>2 DEF Entries
<1>5. \A f : f \in [1 .. Len(t.rows) -> Seq(CellsOf(t))] =>
         f \in Seq(Seq(CellsOf(t))) /\ Len(f) = Len(t.rows) /\ DOMAIN f = 1 .. Len(t.rows)
  BY <1>1
<1>6. \A i \in 1 .. Len(t.rows) : Len(Entries(t)[i]) = t.rows[i].times /\ t.rows[i].times \in Nat
  <2> SUFFICES ASSUME NEW i \in 1 .. Len(t.rows)
               PROVE  Len(Entries(t)[i]) = t.rows[i].times /\ t.rows[i].times \in Nat
    OBVIOUS
  <2> HIDE DEF Entries
  <2> QED BY <1>2, <1>3, Zenon
<1>7. Entries(t) \in Seq(Seq(CellsOf(t))) /\ Len(Entries(t)) = Len(t.rows) /\ DOMAIN Entries(t) = 1 .. Len(t.rows)
  BY <1>4, <1>5, Zenon
<1> QED BY <1>1, <1>3, <1>6, <1>7, Zenon
LEMMA RowsAreCells ==
    ASSUME NEW t, Rectangular(t)
    PROVE  RowsOf(t) = FlattenSeq(Entries(t)) /\ RowsOf(t) \in Seq(CellsOf(t))
<1>1. RowsOf(t) = FlattenSeq(Entries(t))
  BY DEF RowsOf, Entries
<1> QED BY <1>1, EntriesAreLists, FlattenIsSeq
LEMMA RowsAreCounted ==
    ASSUME NEW t, Rectangular(t)
    PROVE  Len(RowsOf(t)) = Size(t)
<1> DEFINE n == Len(t.rows)
<1>1. n \in Nat /\ t.rows \in Seq(Members(t.rows)) /\ DOMAIN t.rows = 1 .. n
  BY EntriesAreLists DEF Rectangular
<1>2. PICK h : h = [i \in 1 .. n |-> t.rows[i].times]
  OBVIOUS
<1>3. Size(t) = SumFunction(h)
  <2>1. {i \in DOMAIN t.rows : TRUE} = 1 .. n
    BY <1>1
  <2> QED BY <1>2, <2>1 DEF Size, Counted, RowsIn
<1>4. n = Len(Entries(t)) /\ \A i \in 1 .. n : Len(Entries(t)[i]) = t.rows[i].times
  BY EntriesAreLists
<1>5. h \in [1 .. n -> Int]
  <2>1. ASSUME NEW i \in 1 .. n PROVE h[i] \in Nat
    BY <1>2, EntriesAreLists
  <2>2. \A i \in 1 .. n : h[i] \in Int
    BY <2>1
  <2> HIDE DEF n
  <2> QED BY <1>2, <2>2
<1>6. PICK c : c[0] = 0 /\ \A i \in 1 .. n : c[i] = c[i - 1] + h[i]
  <2>1. PICK c : Sums(c, h, n)
    BY <1>1, SumExists
  <2> QED BY <2>1 DEF Sums
<1>7. \A i \in 1 .. n : c[i] = c[i - 1] + Len(Entries(t)[i])
  BY <1>2, <1>4, <1>6
<1>8. Len(FlattenSeq(Entries(t))) = c[n]
  <2>1. PICK e : e = Entries(t) /\ e \in Seq(Seq(CellsOf(t)))
    BY EntriesAreLists
  <2>2. Len(FlattenSeq(e)) = c[Len(e)]
    BY <1>4, <1>6, <1>7, <2>1, FlattenCounts
  <2> QED BY <1>4, <2>1, <2>2
<1>9. SumFunction(h) = c[n]
  BY <1>1, <1>5, <1>6, SumRuns
<1> QED BY <1>3, <1>8, <1>9, RowsAreCells

(* The rows of a table that is rewritten cell by cell are the rows, rewritten. *)
Rewriting(t, proposal) ==
    [r \in CellsOf(t) |->
        [c \in DOMAIN r |-> IF c \in proposal.columns THEN After(proposal, r[c]) ELSE r[c]]]
LEMMA ProjectedRows ==
    ASSUME NEW v \in Versions, NEW proposal
    PROVE  RowsOf(Projection(proposal, v)) = Through(Rewriting(Tables[v], proposal), RowsOf(Tables[v]))
<1> DEFINE t == Tables[v]
           u == Projection(proposal, v)
           m == Rewriting(t, proposal)
<1>0. Rectangular(t)
  BY TablesAssumption
<1>1. PICK g : g = m
  OBVIOUS
<1>2. /\ u.rows = [i \in DOMAIN t.rows |->
                     [t.rows[i] EXCEPT !.cells =
                       [c \in DOMAIN @ |-> IF c \in proposal.columns THEN After(proposal, @[c]) ELSE @[c]]]]
  BY <1>0 DEF Projection, Mapped, Rectangular
<1>3. ASSUME NEW i \in DOMAIN t.rows
      PROVE  u.rows[i].times = t.rows[i].times /\ u.rows[i].cells = g[t.rows[i].cells]
  <2>1. PICK e : e = t.rows[i]
    OBVIOUS
  <2>2. e \in Members(t.rows) /\ e = [cells |-> e.cells, times |-> e.times] /\ e.cells \in CellsOf(t)
    BY <1>0, <2>1 DEF Rectangular, Members, CellsOf
  <2>3. u.rows[i] = [e EXCEPT !.cells =
                       [c \in DOMAIN @ |-> IF c \in proposal.columns THEN After(proposal, @[c]) ELSE @[c]]]
    BY <1>2, <2>1
  <2>4. u.rows[i].times = e.times
    BY <2>2, <2>3
  <2>5. u.rows[i].cells = [c \in DOMAIN e.cells |-> IF c \in proposal.columns THEN After(proposal, e.cells[c]) ELSE e.cells[c]]
    BY <2>2, <2>3
  <2>6. g[e.cells] = [c \in DOMAIN e.cells |-> IF c \in proposal.columns THEN After(proposal, e.cells[c]) ELSE e.cells[c]]
    BY <1>1, <2>2 DEF Rewriting
  <2> QED BY <2>1, <2>4, <2>5, <2>6
<1>4. DOMAIN u.rows = DOMAIN t.rows
  BY <1>2
<1> HIDE DEF t, u
<1>5. ASSUME NEW i \in DOMAIN Entries(t)
      PROVE  Entries(u)[i] = Through(g, Entries(t)[i])
  <2>1. i \in DOMAIN t.rows /\ t.rows[i].times \in Nat
    BY <1>0, EntriesAreLists DEF Entries
  <2>2. Entries(t)[i] = [k \in 1 .. t.rows[i].times |-> t.rows[i].cells]
    BY <2>1 DEF Entries
  <2>3. Entries(u)[i] = [k \in 1 .. t.rows[i].times |-> g[t.rows[i].cells]]
    BY <2>1, <1>3, <1>4 DEF Entries
  <2> QED BY <2>2, <2>3 DEF Through
<1>6. DOMAIN Entries(u) = DOMAIN Entries(t) /\ Entries(u) = [i \in DOMAIN Entries(t) |-> Entries(u)[i]]
  BY <1>4 DEF Entries
<1>7. PICK w : w = Entries(u)
  OBVIOUS
<1>8. FlattenSeq(w) = Through(g, FlattenSeq(Entries(t)))
  BY <1>0, <1>5, <1>6, <1>7, EntriesAreLists, FlattenMaps
<1>9. RowsOf(u) = FlattenSeq(w)
  BY <1>7 DEF RowsOf, Entries
<1>10. RowsOf(t) = FlattenSeq(Entries(t))
  BY <1>0, RowsAreCells
<1>11. RowsOf(u) = Through(g, RowsOf(t))
  BY <1>8, <1>9, <1>10
<1> QED BY <1>1, <1>11 DEF t, u

(* A copy of one version has its rows, rewritten in the columns of the proposal: what the *)
(* projection that the records and the examples are read from has.                        *)
CopiedFrom(u, t, a, b, proposal) ==
    /\ u.cols = t.cols /\ DOMAIN a = DOMAIN b
    /\ \A k \in DOMAIN b :
         /\ DOMAIN b[k] = ColumnsOf(t) /\ DOMAIN a[k] = DOMAIN b[k]
         /\ \A c \in DOMAIN b[k] :
              a[k][c] = IF c \in proposal.columns THEN After(proposal, b[k][c]) ELSE b[k][c]
LEMMA CopiedRows ==
    ASSUME NEW v \in Versions, NEW proposal
    PROVE  /\ CopiedFrom(CopyTable(Of(v), proposal), Tables[v],
                         RowsOf(CopyTable(Of(v), proposal)), RowsOf(Tables[v]), proposal)
           /\ RowsOf(CopyTable(Of(v), proposal)) = RowsOf(Projection(proposal, v))
<1> DEFINE t == Tables[v]
           u == CopyTable(Of(v), proposal)
<1>0. Rectangular(t)
  BY TablesAssumption
<1>1. PICK b : b = RowsOf(t)
  OBVIOUS
<1>2. PICK g : g = Rewriting(t, proposal)
  OBVIOUS
<1>3. b \in Seq(CellsOf(t)) /\ DOMAIN b = 1 .. Len(b) /\ Len(b) \in Nat
  BY <1>0, <1>1, RowsAreCells
<1>4. PICK h : h = RowsOf(Projection(proposal, v))
  OBVIOUS
<1>5. h = Through(g, b)
  BY <1>1, <1>2, <1>4, ProjectedRows
<1>6. DOMAIN h = DOMAIN b /\ \A k \in DOMAIN b : h[k] = g[b[k]]
  BY <1>5 DEF Through
<1> DEFINE x == [k \in DOMAIN h |-> [c \in DOMAIN b[k] |-> IF c \in proposal.columns THEN h[k][c] ELSE b[k][c]]]
<1>7. u.cols = t.cols /\ u.rows = [k \in DOMAIN h |-> [times |-> 1, cells |-> x[k]]]
  BY <1>1, <1>4 DEF CopyTable, Of
<1>8. PICK y : y = x
  OBVIOUS
<1>9. RowsOf(u) = [k \in 1 .. Len(b) |-> y[k]]
  <2>1. u.rows = [k \in 1 .. Len(b) |-> [times |-> 1, cells |-> y[k]]]
    BY <1>3, <1>6, <1>7, <1>8
  <2> HIDE DEF u
  <2>2. PICK s : s = [i \in DOMAIN u.rows |-> [k \in 1 .. u.rows[i].times |-> u.rows[i].cells]]
    OBVIOUS
  <2>3. s = [i \in 1 .. Len(b) |-> <<y[i]>>]
    <3>1. DOMAIN u.rows = 1 .. Len(b) /\ \A i \in 1 .. Len(b) : u.rows[i].times = 1 /\ u.rows[i].cells = y[i]
      BY <2>1
    <3>2. ASSUME NEW i \in 1 .. Len(b) PROVE [k \in 1 .. u.rows[i].times |-> u.rows[i].cells] = <<y[i]>>
      BY <3>1
    <3> QED BY <2>2, <3>1, <3>2
  <2>4. RowsOf(u) = FlattenSeq(s)
    BY <2>2 DEF RowsOf
  <2> QED BY <2>3, <2>4, <1>3, FlattenOfSingles
<1>10. PICK a : a = RowsOf(u)
  OBVIOUS
<1>11. ASSUME NEW k \in DOMAIN b
       PROVE  /\ DOMAIN b[k] = ColumnsOf(t) /\ DOMAIN a[k] = DOMAIN b[k]
              /\ \A c \in DOMAIN b[k] :
                    a[k][c] = IF c \in proposal.columns THEN After(proposal, b[k][c]) ELSE b[k][c]
  <2>1. a[k] = [c \in DOMAIN b[k] |-> IF c \in proposal.columns THEN h[k][c] ELSE b[k][c]]
    BY <1>3, <1>6, <1>8, <1>9, <1>10
  <2>2. b[k] \in CellsOf(t)
    BY <1>3
  <2>3. DOMAIN b[k] = ColumnsOf(t)
    <3>1. PICK e \in Members(t.rows) : b[k] = e.cells
      BY <2>2 DEF CellsOf
    <3> HIDE DEF t
    <3>2. e.cells = [c \in ColumnsOf(t) |-> e.cells[c]]
      BY <1>0, <3>1 DEF Rectangular
    <3> QED BY <3>1, <3>2
  <2>4. h[k] = [c \in DOMAIN b[k] |-> IF c \in proposal.columns THEN After(proposal, b[k][c]) ELSE b[k][c]]
    <3>1. PICK e \in CellsOf(t) : e = b[k]
      BY <2>2
    <3>2. g[e] = [c \in DOMAIN e |-> IF c \in proposal.columns THEN After(proposal, e[c]) ELSE e[c]]
      BY <1>2 DEF Rewriting
    <3> QED BY <1>6, <3>1, <3>2
  <2> QED BY <2>1, <2>3, <2>4
<1>12. DOMAIN a = DOMAIN b
  BY <1>3, <1>9, <1>10
<1>13. ASSUME NEW k \in DOMAIN b PROVE y[k] = h[k]
  <2>1. y[k] = [c \in DOMAIN b[k] |-> IF c \in proposal.columns THEN h[k][c] ELSE b[k][c]]
    BY <1>6, <1>8
  <2>2. PICK e \in CellsOf(t) : e = b[k]
    BY <1>3
  <2>3. h[k] = [c \in DOMAIN e |-> IF c \in proposal.columns THEN After(proposal, e[c]) ELSE e[c]]
    BY <1>2, <1>6, <2>2 DEF Rewriting
  <2> HIDE DEF x
  <2> QED BY <2>1, <2>2, <2>3
<1>14. a = h
  <2>1. h = [k \in 1 .. Len(b) |-> h[k]]
    BY <1>3, <1>5 DEF Through
  <2> HIDE DEF x
  <2> QED BY <1>3, <1>9, <1>10, <1>13, <2>1
<1> HIDE DEF x
<1>15. CopiedFrom(u, t, a, b, proposal)
  <2>1. u.cols = t.cols
    BY <1>7
  <2> HIDE DEF t, u
  <2> QED BY <2>1, <1>11, <1>12 DEF CopiedFrom
<1> QED BY <1>1, <1>4, <1>10, <1>14, <1>15
LEMMA CopyIsProjected ==
    ASSUME NEW v \in Versions, NEW proposal, NEW cap
    PROVE  Sample(Tables[v], CopyTable(Of(v), proposal), cap) = Sample(Tables[v], Projection(proposal, v), cap)
<1> DEFINE t == Tables[v]
           u == CopyTable(Of(v), proposal)
           w == Projection(proposal, v)
<1>1. RowsOf(u) = RowsOf(w) /\ u.cols = t.cols
  BY CopiedRows DEF CopiedFrom
<1>2. w.cols = t.cols
  BY TablesAssumption DEF Projection, Mapped, Rectangular
<1> HIDE DEF t, u, w
<1>3. ColumnsOf(u) = ColumnsOf(w)
  BY <1>1, <1>2 DEF ColumnsOf
<1>4. Moved(t, u) = Moved(t, w)
  BY <1>1, <1>3 DEF Moved
<1>5. Sample(t, u, cap) = Sample(t, w, cap)
  BY <1>1, <1>4 DEF Sample
<1> QED BY <1>5 DEF t, u, w

(* It differs from its snapshot in the cells of the proposal's columns that the repair changes. *)
Changing(proposal, v) ==
    LET t == RowsOf(Tables[v])
    IN  {x \in (DOMAIN t) \X proposal.columns : t[x[1]][x[2]] # After(proposal, t[x[1]][x[2]])}
LEMMA ChangedCellsMove ==
    ASSUME NEW v \in Versions, NEW proposal, ColumnsFit(proposal, v)
    PROVE  Moved(Tables[v], CopyTable(Of(v), proposal)) = Changing(proposal, v)
<1>1. PICK t : t = Tables[v]
  OBVIOUS
<1>2. PICK u : u = CopyTable(Of(v), proposal)
  OBVIOUS
<1>3. PICK b : b = RowsOf(t)
  OBVIOUS
<1>4. PICK a : a = RowsOf(u)
  OBVIOUS
<1>5. PICK C : C = ColumnsOf(t)
  OBVIOUS
<1>6. PICK P : P = proposal.columns
  OBVIOUS
<1>7. PICK F : F = [k \in DOMAIN b |-> [c \in C |-> After(proposal, b[k][c])]]
  OBVIOUS
<1>8. /\ u.cols = t.cols /\ DOMAIN a = DOMAIN b
      /\ \A k \in DOMAIN b : /\ DOMAIN b[k] = C /\ DOMAIN a[k] = C
                             /\ \A c \in C : a[k][c] = IF c \in P THEN F[k][c] ELSE b[k][c]
  <2>1. /\ u.cols = t.cols /\ DOMAIN a = DOMAIN b
        /\ \A k \in DOMAIN b : /\ DOMAIN b[k] = C /\ DOMAIN a[k] = DOMAIN b[k]
                               /\ \A c \in DOMAIN b[k] :
                                    a[k][c] = IF c \in P THEN After(proposal, b[k][c]) ELSE b[k][c]
    <3>1. CopiedFrom(u, t, a, b, proposal)
      BY <1>1, <1>2, <1>3, <1>4, CopiedRows
    <3> QED BY <3>1, <1>5, <1>6 DEF CopiedFrom
  <2>2. \A k \in DOMAIN b : \A c \in C : F[k][c] = After(proposal, b[k][c])
    BY <1>7
  <2> QED BY <2>1, <2>2
<1>9. P \subseteq C
  BY <1>1, <1>5, <1>6 DEF ColumnsFit
<1>10. ColumnsOf(u) = C
  BY <1>5, <1>8 DEF ColumnsOf
<1>11. Changing(proposal, v) = {x \in (DOMAIN b) \X P : b[x[1]][x[2]] # F[x[1]][x[2]]}
  <2>1. \A x \in (DOMAIN b) \X P : F[x[1]][x[2]] = After(proposal, b[x[1]][x[2]])
    BY <1>7, <1>9
  <2>2. Changing(proposal, v) = {x \in (DOMAIN b) \X P : b[x[1]][x[2]] # After(proposal, b[x[1]][x[2]])}
    BY <1>1, <1>3, <1>6 DEF Changing
  <2> QED BY <2>1, <2>2
<1>12. Moved(t, u) =
          {x \in (DOMAIN a \cup DOMAIN b) \X C :
              \/ x[1] \notin DOMAIN a \cap DOMAIN b
              \/ x[2] \notin DOMAIN a[x[1]] \cap DOMAIN b[x[1]]
              \/ a[x[1]][x[2]] # b[x[1]][x[2]]}
  BY <1>3, <1>4, <1>5, <1>10 DEF Moved
<1>13. Moved(t, u) = {x \in (DOMAIN b) \X C : a[x[1]][x[2]] # b[x[1]][x[2]]}
  <2>1. \A x \in (DOMAIN b) \X C : x[1] \in DOMAIN b /\ x[2] \in C
    OBVIOUS
  <2> QED BY <1>8, <1>12, <2>1
<1>14. \A x \in (DOMAIN b) \X C : a[x[1]][x[2]] = IF x[2] \in P THEN F[x[1]][x[2]] ELSE b[x[1]][x[2]]
  BY <1>8
<1>15. ASSUME NEW x
       PROVE  x \in Moved(t, u) <=> x \in Changing(proposal, v)
  <2>1. CASE x \in (DOMAIN b) \X C
    <3>1. x \in (DOMAIN b) \X P <=> x[2] \in P
      BY <1>9, <2>1
    <3> QED BY <2>1, <3>1, <1>11, <1>13, <1>14
  <2>2. CASE x \notin (DOMAIN b) \X C
    <3>1. x \notin (DOMAIN b) \X P
      BY <1>9, <2>2
    <3> QED BY <2>2, <3>1, <1>11, <1>13
  <2> QED BY <2>1, <2>2
<1>16. Moved(t, u) = Changing(proposal, v)
  BY <1>15
<1> QED BY <1>1, <1>2, <1>16

-----------------------------------------------------------------------------
(* A copy never mixes rows that do not belong together, whatever changes between the      *)
(* reads: _carried_cells refuses a file that has other columns or another number of rows. *)
THEOREM CopiesAlign == Spec => []CopiesAreAligned
<1>1. ASSUME RepairInv
      PROVE  CopiesAreAligned
  <2> SUFFICES ASSUME NEW id \in DOMAIN disk, disk[id].copy # NoCopy
               PROVE  LET t == Tables[disk[id].copy.carried]  u == Tables[disk[id].copy.projected]
                      IN  t.cols = u.cols /\ Len(RowsOf(t)) = Len(RowsOf(u))
    BY DEF CopiesAreAligned
  <2>1. Whole(disk[id].copy)
    BY <1>1 DEF RepairInv, DiskSound
  <2>2. PICK v \in Versions : v = disk[id].copy.carried
    BY <2>1 DEF Whole
  <2>3. PICK w \in Versions : w = disk[id].copy.projected
    BY <2>1 DEF Whole
  <2>4. Tables[v].cols = Tables[w].cols /\ Size(Tables[v]) = Size(Tables[w])
    BY <2>1, <2>2, <2>3 DEF Whole, Aligned
  <2>5. Len(RowsOf(Tables[v])) = Size(Tables[v]) /\ Len(RowsOf(Tables[w])) = Size(Tables[w])
    BY TablesAssumption, RowsAreCounted
  <2> QED BY <2>2, <2>3, <2>4, <2>5
<1> QED BY <1>1, RepairIsSound, PTL

----------------------------------------------------------------------------
(* What the answers say. Rows stay, and a row that is marked as rolled back stays so. *)
Marked(id, rs) == \A i \in DOMAIN rs : rs[i].id = id => rs[i].status = "rolled_back"
RowsLast == \A id : HasRow(id, runs) => HasRow(id, runs') /\ (Marked(id, runs) => Marked(id, runs'))
Told(o, rs) ==
    o.what = "done" => /\ o.call = "apply" => HasRow(o.told.run, rs)
                       /\ o.call = "rollback" => HasRow(o.told.run, rs) /\ Marked(o.told.run, rs)
Closes(o, i, c) == o.item = i /\ (o.what # "done" \/ o.call = Last(c.calls))
Closed(os, i, c) == \E k \in DOMAIN os : Closes(os[k], i, c)
(* A command on its way has an outcome that ended each of the items before. *)
SoFar(os, n, c, rs) ==
    /\ \E S : os \in Seq(S)
    /\ \A k \in DOMAIN os : Told(os[k], rs)
    /\ \A i \in 1 .. n : Closed(os, i, c)
Fine == {"ok", "200", "redirect"}
Achieved(a, rs) ==
    a.exit \in Fine =>
        /\ SoFar(a.outcomes, Len(a.command.items), a.command, rs)
        /\ a.command.items \in Seq(Members(a.command.items))
        /\ \A i \in 1 .. Len(a.command.items) : \E k \in DOMAIN a.outcomes :
              Closes(a.outcomes[k], i, a.command) /\ a.outcomes[k].what \in {"done", "none"}
AnswersInv ==
    /\ RepairInv
    /\ \E S : answers \in Seq(S)
    /\ \A k \in DOMAIN answers : Achieved(answers[k], runs)
    /\ \A p \in Procs : Busy(p) => SoFar(proc[p].outcomes, proc[p].item - 1, proc[p].command, runs)
LEMMA ToldStays == ASSUME NEW o, Told(o, runs), RowsLast PROVE Told(o, runs')
  BY DEF Told, RowsLast
LEMMA SoFarStays ==
    ASSUME NEW os, NEW n, NEW c, SoFar(os, n, c, runs), RowsLast
    PROVE  SoFar(os, n, c, runs')
  BY ToldStays DEF SoFar
LEMMA AchievedStays == ASSUME NEW a, Achieved(a, runs), RowsLast PROVE Achieved(a, runs')
  BY SoFarStays DEF Achieved
LEMMA OneMoreRow ==
    ASSUME NEW x, RowsFrom(x), \A id : HasRow(id, runs) => HasRow(id, runs'),
           x.status = "rolled_back" \/ ~HasRow(x.id, runs)
    PROVE  RowsLast
<1> SUFFICES ASSUME NEW id, HasRow(id, runs), Marked(id, runs) PROVE Marked(id, runs')
  BY DEF RowsLast
<1> SUFFICES ASSUME NEW i \in DOMAIN runs', runs'[i].id = id PROVE runs'[i].status = "rolled_back"
  BY DEF Marked
<1> QED BY DEF RowsFrom, Marked
LEMMA SaveRunAdds ==
    ASSUME RepairInv, NEW p \in Procs, SaveRun(p), runs' # runs
    PROVE  RowsLast /\ HasRow(proc[p].run, runs')
<1> DEFINE m == proc[p]
<1>1. Holds(m)
  BY AtIsBusy DEF SaveRun, InFlight, Holds, Busy
<1>2. PICK x : runs' = Append(runs, x) /\ x.id = m.run
  BY DEF SaveRun, Refuse, Kept, me
<1>3. ~HasRow(x.id, runs)
  BY <1>1, <1>2, HeldIsOwned
<1>4. PICK S : runs \in Seq(S)
  BY DEF RepairInv, RowsInv
<1>5. /\ DOMAIN runs' = DOMAIN runs \cup {Len(runs) + 1}
      /\ runs'[Len(runs) + 1] = x /\ \A i \in DOMAIN runs : runs'[i] = runs[i]
  BY <1>2, <1>4, Appended
<1>6. RowsFrom(x)
  BY <1>5 DEF RowsFrom
<1>7. HasRow(x.id, runs') /\ \A id : HasRow(id, runs) => HasRow(id, runs')
  BY <1>5 DEF HasRow
<1> QED BY <1>2, <1>3, <1>6, <1>7, OneMoreRow
LEMMA SaveRollbackLasts ==
    ASSUME RepairInv, NEW p \in Procs, SaveRollback(p)
    PROVE  RowsLast /\ HasRow(proc[p].run, runs') /\ Marked(proc[p].run, runs')
<1>1. PICK x : RowsFrom(x) /\ x.id = proc[p].run /\ x.status = "rolled_back" /\ HasRow(x.id, runs)
  BY SaveRollbackMarks
<1>2. RowsInv' /\ \A id : HasRow(id, runs') <=> HasRow(id, runs)
  BY SaveRollbackMarks
<1>3. RowsLast
  BY <1>1, <1>2, OneMoreRow
<1>4. Marked(x.id, runs')
  <2> SUFFICES ASSUME NEW i \in DOMAIN runs', runs'[i].id = x.id PROVE runs'[i].status = "rolled_back"
    BY DEF Marked
  <2>1. PICK j \in DOMAIN runs' : runs'[j] = x
    BY <1>1 DEF RowsFrom
  <2>2. i = j
    BY <1>2, <2>1 DEF RowsInv
  <2> QED BY <1>1, <2>1, <2>2
<1> QED BY <1>1, <1>2, <1>3, <1>4

(* A step of a process goes on with its call or ends it; what is told of an apply or a    *)
(* rollback is its run.                                                                   *)
GoesOn(p) ==
    \E r : /\ proc' = [proc EXCEPT ![p] = r] /\ answers' = answers
           /\ IsProc(r) /\ r.outcomes = proc[p].outcomes /\ r.item = proc[p].item
           /\ r.command = proc[p].command
Ends(p) ==
    \E what, told :
        /\ EndCall(p, what, told)
        /\ what = "done" => /\ operation(p) = "apply" => HasRow(told.run, runs')
                            /\ operation(p) = "rollback" => HasRow(told.run, runs') /\ Marked(told.run, runs')
LEMMA RefuseEnds == \A p \in Procs : \A what : Refuse(p, what) /\ what # "done" => Ends(p)
  BY DEF Refuse, Fail, Ends
LEMMA OtherEnds ==
    \A p \in Procs : \A told : EndCall(p, "done", told) /\ operation(p) \notin {"apply", "rollback"} => Ends(p)
  BY DEF Ends
LEMMA MoveGoesOn ==
    ASSUME NEW p \in Procs, NEW r, Move(p, r), IsProc(r), r.outcomes = proc[p].outcomes,
           r.item = proc[p].item, r.command = proc[p].command
    PROVE  GoesOn(p)
  BY DEF Move, Set, GoesOn
LEMMA ReadsGo ==
    ASSUME RepairInv, NEW p \in Procs,
           OpenSource(p) \/ Propose(p) \/ PreviewRules(p) \/ PreviewStats(p) \/ Project(p)
    PROVE  GoesOn(p) \/ Ends(p)
<1> DEFINE m == proc[p]
<1>0. Busy(p) /\ IsProc(m)
  <2>1. Busy(p)
    BY AtIsBusy DEF OpenSource, Propose, PreviewRules, PreviewStats, Project
  <2> QED BY <2>1, BusyIsSound
<1>1. CASE OpenSource(p)
  <2> DEFINE r == [m EXCEPT !.stage = "propose", !.opened = now(p)]
  <2>1. (\E w : Refuse(p, w) /\ w # "done") \/ Move(p, r)
    BY <1>1 DEF OpenSource, me
  <2>2. IsProc(r) /\ r.outcomes = m.outcomes /\ r.item = m.item /\ r.command = m.command
    BY <1>0 DEF IsProc, ProcFields
  <2> HIDE DEF r
  <2> QED BY <2>1, <2>2, RefuseEnds, MoveGoesOn
<1>2. CASE Propose(p)
  <2> DEFINE x == ProposalOf(CHOOSE i \in get_issue_by_id(item(p)) : TRUE)
             n == Affected(x, Tables[SqlReads(p)])
             s == IF operation(p) = "preview" THEN "rules" ELSE "project"
             r == [m EXCEPT !.proposal = x, !.affected = n, !.stage = s]
  <2>1. \/ \E w : Refuse(p, w) /\ w # "done"
        \/ EndCall(p, "done", Nothing) /\ operation(p) = "propose"
        \/ Move(p, r)
    <3> HIDE DEF x, n
    <3> QED BY <1>2 DEF Propose, me, x, n
  <2> HIDE DEF x, n, s
  <2>2. IsProc(r) /\ r.outcomes = m.outcomes /\ r.item = m.item /\ r.command = m.command
    BY <1>0 DEF IsProc, ProcFields
  <2> HIDE DEF r
  <2> QED BY <2>1, <2>2, RefuseEnds, OtherEnds, MoveGoesOn
<1>3. CASE PreviewRules(p)
  <2> DEFINE n == Cardinality(RuleFailures(m.proposal.detector, Tables[SqlReads(p)]))
             r == [m EXCEPT !.stage = "stats", !.before = n]
  <2>1. (\E w : Refuse(p, w) /\ w # "done") \/ Move(p, r)
    BY <1>3 DEF PreviewRules, me
  <2> HIDE DEF n
  <2>2. IsProc(r) /\ r.outcomes = m.outcomes /\ r.item = m.item /\ r.command = m.command
    BY <1>0 DEF IsProc, ProcFields
  <2> HIDE DEF r
  <2> QED BY <2>1, <2>2, RefuseEnds, MoveGoesOn
<1>4. CASE PreviewStats(p)
  <2> DEFINE n == Stats(m.proposal, Tables[SqlReads(p)])
             r == [m EXCEPT !.stage = "project", !.stats = n]
  <2>1. (\E w : Refuse(p, w) /\ w # "done") \/ Move(p, r)
    BY <1>4 DEF PreviewStats, me
  <2> HIDE DEF n
  <2>2. IsProc(r) /\ r.outcomes = m.outcomes /\ r.item = m.item /\ r.command = m.command
    BY <1>0 DEF IsProc, ProcFields
  <2> HIDE DEF r
  <2> QED BY <2>1, <2>2, RefuseEnds, MoveGoesOn
<1>5. CASE Project(p)
  <2> DEFINE c == [carried |-> now(p), projected |-> now(p)]
             s == IF operation(p) = "preview" THEN "report" ELSE "snapshot"
             a == [m EXCEPT !.copy = c, !.stage = s]
             b == [m EXCEPT !.stage = "carry", !.copy.projected = SqlReads(p)]
  <2>1. \/ Refuse(p, "source") \/ Refuse(p, "refused") \/ Refuse(p, "error")
        \/ Move(p, Copied(p, c)) \/ Move(p, b)
    <3> HIDE DEF m
    <3> QED BY <1>5 DEF Project, me, Writable, Carries, m
  <2>2. Copied(p, c) = a
    BY DEF Copied, me
  <2>3. /\ IsProc(a) /\ a.outcomes = m.outcomes /\ a.item = m.item /\ a.command = m.command
        /\ IsProc(b) /\ b.outcomes = m.outcomes /\ b.item = m.item /\ b.command = m.command
    BY <1>0 DEF IsProc, ProcFields
  <2> HIDE DEF a, b
  <2> QED BY <2>1, <2>2, <2>3, RefuseEnds, MoveGoesOn
<1> QED BY <1>1, <1>2, <1>3, <1>4, <1>5
LEMMA CopiesGo ==
    ASSUME RepairInv, NEW p \in Procs,
           CopyCells(p) \/ ReportPreview(p) \/ Snapshot(p) \/ WriteCopy(p)
    PROVE  GoesOn(p) \/ Ends(p)
<1> DEFINE m == proc[p]
<1>0. Busy(p) /\ IsProc(m)
  <2>1. Busy(p)
    BY AtIsBusy DEF CopyCells, ReportPreview, Snapshot, WriteCopy
  <2> QED BY <2>1, BusyIsSound
<1>1. CASE CopyCells(p)
  <2> DEFINE c == [m.copy EXCEPT !.carried = now(p)]
             s == IF operation(p) = "preview" THEN "report" ELSE "snapshot"
             r == [m EXCEPT !.copy = c, !.stage = s]
  <2>1. Refuse(p, "refused") \/ Move(p, r)
    BY <1>1 DEF CopyCells, Copied, me
  <2> HIDE DEF c, s
  <2>2. IsProc(r) /\ r.outcomes = m.outcomes /\ r.item = m.item /\ r.command = m.command
    BY <1>0 DEF IsProc, ProcFields
  <2> HIDE DEF r
  <2> QED BY <2>1, <2>2, RefuseEnds, MoveGoesOn
<1>2. CASE ReportPreview(p)
  <2>1. Refuse(p, "error") \/ \E told : EndCall(p, "done", told)
    BY <1>2 DEF ReportPreview
  <2>2. m.stage = "report"
    BY <1>2, AtIsBusy DEF ReportPreview
  <2>3. operation(p) = "preview"
    BY <1>0, <2>2, BusyIsSound DEF ProcSound, CallsAt, InFlight
  <2> QED BY <2>1, <2>3, RefuseEnds, OtherEnds
<1>3. CASE Snapshot(p)
  <2> DEFINE n == Len(disk) + 1
             r == [m EXCEPT !.stage = "write", !.run = n]
  <2>1. Refuse(p, "source") \/ (proc' = [proc EXCEPT ![p] = r] /\ answers' = answers)
    BY <1>3 DEF Snapshot, Set, me
  <2> HIDE DEF n
  <2>2. IsProc(r) /\ r.outcomes = m.outcomes /\ r.item = m.item /\ r.command = m.command
    BY <1>0 DEF IsProc, ProcFields
  <2> HIDE DEF r
  <2> QED BY <2>1, <2>2, RefuseEnds DEF GoesOn
<1>4. CASE WriteCopy(p)
  <2> DEFINE r == [m EXCEPT !.stage = "fingerprint"]
  <2>1. Refuse(p, "source") \/ (proc' = [proc EXCEPT ![p] = r] /\ answers' = answers)
    BY <1>4 DEF WriteCopy, Set, me
  <2>2. IsProc(r) /\ r.outcomes = m.outcomes /\ r.item = m.item /\ r.command = m.command
    BY <1>0 DEF IsProc, ProcFields
  <2> HIDE DEF r
  <2> QED BY <2>1, <2>2, RefuseEnds DEF GoesOn
<1> QED BY <1>1, <1>2, <1>3, <1>4
LEMMA RowsGo ==
    ASSUME RepairInv, NEW p \in Procs, Fingerprint(p) \/ RecordOperations(p) \/ SaveRun(p)
    PROVE  GoesOn(p) \/ Ends(p)
<1> DEFINE m == proc[p]
<1>0. Busy(p) /\ IsProc(m)
  <2>1. Busy(p)
    BY AtIsBusy DEF Fingerprint, RecordOperations, SaveRun
  <2> QED BY <2>1, BusyIsSound
<1>1. CASE Fingerprint(p) \/ RecordOperations(p)
  <2> DEFINE r == IF m.stage = "fingerprint" THEN [m EXCEPT !.stage = "records", !.fingerprint = now(p)]
                  ELSE [m EXCEPT !.stage = "save", !.records = SqlReads(p)]
  <2>1. Refuse(p, "source") \/ Refuse(p, "error") \/ Move(p, r)
    BY <1>1, AtIsBusy DEF Fingerprint, RecordOperations, me
  <2>2. IsProc(r) /\ r.outcomes = m.outcomes /\ r.item = m.item /\ r.command = m.command
    BY <1>0 DEF IsProc, ProcFields
  <2> HIDE DEF r
  <2> QED BY <2>1, <2>2, RefuseEnds, MoveGoesOn
<1>2. CASE SaveRun(p)
  <2> DEFINE told == [run |-> m.run]
  <2>1. Refuse(p, "error") \/ (EndCall(p, "done", told) /\ \E x : runs' = Append(runs, x))
    BY <1>2 DEF SaveRun, me
  <2>2. CASE EndCall(p, "done", told) /\ \E x : runs' = Append(runs, x)
    <3>1. PICK S : runs \in Seq(S)
      BY DEF RepairInv, RowsInv
    <3>2. runs' # runs
      BY <2>2, <3>1
    <3>3. HasRow(told.run, runs')
      BY <1>2, <3>2, SaveRunAdds
    <3>4. m.stage = "save"
      BY <1>2, AtIsBusy DEF SaveRun
    <3>5. operation(p) = "apply"
      BY <1>0, <3>4, BusyIsSound DEF ProcSound, CallsAt, InFlight
    <3> HIDE DEF told
    <3> QED BY <2>2, <3>3, <3>5 DEF Ends
  <2> QED BY <2>1, <2>2, RefuseEnds
<1> QED BY <1>1, <1>2
LEMMA RunsGo ==
    ASSUME RepairInv, NEW p \in Procs,
           ReadRun(p) \/ CopyBack(p) \/ SaveRollback(p) \/ Verify(p) \/ Diff(p)
    PROVE  GoesOn(p) \/ Ends(p)
<1> DEFINE m == proc[p]
<1>0. Busy(p) /\ IsProc(m)
  <2>1. Busy(p)
    BY AtIsBusy DEF ReadRun, CopyBack, SaveRollback, Verify, Diff
  <2> QED BY <2>1, BusyIsSound
<1>1. CASE ReadRun(p)
  <2> DEFINE x == CHOOSE x \in Stored(Target(p)) : TRUE
             b == LastId(Applied)
             r == [m EXCEPT !.stage = operation(p), !.run = Target(p), !.row = x, !.before = b]
  <2>1. Refuse(p, "missing") \/ Move(p, r)
    BY <1>1 DEF ReadRun, me
  <2> HIDE DEF x, b
  <2>2. IsProc(r) /\ r.outcomes = m.outcomes /\ r.item = m.item /\ r.command = m.command
    BY <1>0 DEF IsProc, ProcFields
  <2> HIDE DEF r
  <2> QED BY <2>1, <2>2, RefuseEnds, MoveGoesOn
<1>2. CASE CopyBack(p)
  <2> DEFINE r == [m EXCEPT !.stage = "save rollback"]
  <2>1. Refuse(p, "source") \/ (proc' = [proc EXCEPT ![p] = r] /\ answers' = answers)
    BY <1>2 DEF CopyBack, Set, me
  <2>2. IsProc(r) /\ r.outcomes = m.outcomes /\ r.item = m.item /\ r.command = m.command
    BY <1>0 DEF IsProc, ProcFields
  <2> HIDE DEF r
  <2> QED BY <2>1, <2>2, RefuseEnds DEF GoesOn
<1>3. CASE SaveRollback(p)
  <2> DEFINE told == [run |-> m.run, due |-> m.before]
  <2>1. EndCall(p, "done", told)
    BY <1>3 DEF SaveRollback, me
  <2>2. HasRow(told.run, runs') /\ Marked(told.run, runs')
    BY <1>3, SaveRollbackLasts
  <2>3. m.stage = "save rollback"
    BY <1>3, AtIsBusy DEF SaveRollback
  <2>4. operation(p) = "rollback"
    BY <1>0, <2>3, BusyIsSound DEF ProcSound, CallsAt, InFlight
  <2> HIDE DEF told
  <2> QED BY <2>1, <2>2, <2>4 DEF Ends
<1>4. CASE Verify(p) \/ Diff(p)
  <2>1. Refuse(p, "source") \/ \E told : EndCall(p, "done", told)
    <3>1. CASE Verify(p)
      BY <3>1 DEF Verify
    <3>2. CASE Diff(p)
      BY <3>2 DEF Diff
    <3> QED BY <1>4, <3>1, <3>2
  <2>2. m.stage \in {"verify", "diff"}
    BY <1>4, AtIsBusy DEF Verify, Diff
  <2>3. operation(p) \notin {"apply", "rollback"}
    BY <1>0, <2>2, BusyIsSound DEF ProcSound, CallsAt, InFlight
  <2> QED BY <2>1, <2>3, RefuseEnds, OtherEnds
<1> QED BY <1>1, <1>2, <1>3, <1>4
LEMMA StepsGo ==
    ASSUME RepairInv, NEW p \in Procs, Step(p)
    PROVE  \/ \E c \in Commands : Begin(p, c)
           \/ Crash(p) \/ (Busy(p) /\ (GoesOn(p) \/ Ends(p)))
<1>1. ASSUME \/ OpenSource(p) \/ Propose(p) \/ PreviewRules(p) \/ PreviewStats(p) \/ Project(p)
             \/ CopyCells(p) \/ ReportPreview(p) \/ Snapshot(p) \/ WriteCopy(p)
      PROVE  Busy(p) /\ (GoesOn(p) \/ Ends(p))
  <2>1. Busy(p)
    BY <1>1, AtIsBusy DEF OpenSource, Propose, PreviewRules, PreviewStats, Project, CopyCells, ReportPreview,
       Snapshot, WriteCopy
  <2> QED BY <1>1, <2>1, ReadsGo, CopiesGo
<1>2. ASSUME \/ Fingerprint(p) \/ RecordOperations(p) \/ SaveRun(p)
             \/ ReadRun(p) \/ CopyBack(p) \/ SaveRollback(p) \/ Verify(p) \/ Diff(p)
      PROVE  Busy(p) /\ (GoesOn(p) \/ Ends(p))
  <2>1. Busy(p)
    BY <1>2, AtIsBusy DEF Fingerprint, RecordOperations, SaveRun, ReadRun, CopyBack, SaveRollback, Verify, Diff
  <2> QED BY <1>2, <2>1, RowsGo, RunsGo
<1> QED BY <1>1, <1>2 DEF Step
(* Only SaveRun and SaveRollback write rows; the environment and crashes count as changes. *)
LEMMA WhoWrites ==
    ASSUME NEW p \in Procs, Step(p)
    PROVE  /\ runs' = runs \/ SaveRun(p) \/ SaveRollback(p)
           /\ changes' = changes \/ Crash(p)
<1>1. Kept => runs' = runs /\ changes' = changes
  BY DEF Kept
<1>2. /\ \A r : Move(p, r) => runs' = runs /\ changes' = changes
      /\ \A w : Refuse(p, w) => runs' = runs /\ changes' = changes
  BY <1>1 DEF Move, Refuse
<1>3. CASE OpenSource(p) \/ PreviewRules(p) \/ PreviewStats(p)
  BY <1>2, <1>3 DEF OpenSource, PreviewRules, PreviewStats
<1>4. CASE Propose(p)
  BY <1>2, <1>4 DEF Propose
<1>5. CASE Project(p)
  BY <1>2, <1>5 DEF Project, Writable, Carries
<1>6. CASE CopyCells(p) \/ ReportPreview(p) \/ Snapshot(p) \/ WriteCopy(p)
  BY <1>1, <1>2, <1>6 DEF CopyCells, ReportPreview, Snapshot, WriteCopy
<1>7. CASE Fingerprint(p) \/ RecordOperations(p) \/ ReadRun(p) \/ CopyBack(p)
  BY <1>2, <1>7 DEF Fingerprint, RecordOperations, ReadRun, CopyBack
<1>8. CASE Crash(p) \/ SaveRun(p) \/ SaveRollback(p)
  BY <1>2, <1>8 DEF Crash, SaveRun, SaveRollback
<1>9. CASE Verify(p)
  BY <1>1, <1>2, <1>9 DEF Verify
<1>10. CASE Diff(p)
  BY <1>1, <1>2, <1>10 DEF Diff
<1>11. CASE \E c \in Commands : Begin(p, c)
  BY <1>2, <1>11 DEF Begin
<1> QED BY <1>3, <1>4, <1>5, <1>6, <1>7, <1>8, <1>9, <1>10, <1>11 DEF Step
LEMMA RowsAreKept == ASSUME RepairInv, [Next]_vars PROVE RowsLast
<1>1. CASE runs' = runs
  BY <1>1 DEF RowsLast
<1>2. ASSUME NEW p \in Procs, Step(p), runs' # runs
      PROVE  RowsLast
  BY <1>2, WhoWrites, SaveRunAdds, SaveRollbackLasts
<1>3. CASE (\E f \in Paths, v \in Later : Edit(f, v)) \/ (\E id \in DOMAIN disk : RemoveArtefact(id)) \/ UNCHANGED vars
  BY <1>1, <1>3 DEF Edit, RemoveArtefact, vars
<1> QED BY <1>1, <1>2, <1>3 DEF Next
LEMMA AnswersKeep ==
    ASSUME AnswersInv, RepairInv', RowsLast, NEW p \in Procs, NEW r, proc' = [proc EXCEPT ![p] = r],
           r # Idle => SoFar(r.outcomes, r.item - 1, r.command, runs'),
           answers' = answers \/ \E a : answers' = Append(answers, a) /\ Achieved(a, runs')
    PROVE  AnswersInv'
<1>1. \A q \in Procs : proc'[q] = IF q = p THEN r ELSE proc[q]
  BY DEF AnswersInv, RepairInv, ProcsInv
<1>2. ASSUME NEW q \in Procs, proc'[q] # Idle
      PROVE  SoFar(proc'[q].outcomes, proc'[q].item - 1, proc'[q].command, runs')
  <2>1. CASE q = p
    BY <1>1, <1>2, <2>1
  <2>2. CASE q # p
    <3>1. SoFar(proc[q].outcomes, proc[q].item - 1, proc[q].command, runs) /\ proc'[q] = proc[q]
      BY <1>1, <1>2, <2>2 DEF AnswersInv, Busy
    <3> QED BY <3>1, SoFarStays
  <2> QED BY <2>1, <2>2
<1>3. PICK S : answers \in Seq(S)
  BY DEF AnswersInv
<1>4. \A k \in DOMAIN answers : Achieved(answers[k], runs')
  BY AchievedStays DEF AnswersInv
<1>5. (\E T : answers' \in Seq(T)) /\ \A k \in DOMAIN answers' : Achieved(answers'[k], runs')
  <2>1. CASE answers' = answers
    BY <1>3, <1>4, <2>1
  <2>2. CASE \E a : answers' = Append(answers, a) /\ Achieved(a, runs')
    <3>1. PICK a : answers' = Append(answers, a) /\ Achieved(a, runs')
      BY <2>2
    <3>2. /\ answers' \in Seq(S \cup {a}) /\ DOMAIN answers' = DOMAIN answers \cup {Len(answers) + 1}
          /\ answers'[Len(answers) + 1] = a /\ \A k \in DOMAIN answers : answers'[k] = answers[k]
      BY <1>3, <3>1, Appended
    <3> QED BY <1>4, <3>1, <3>2
  <2> QED BY <2>1, <2>2
<1> QED BY <1>2, <1>5 DEF AnswersInv, Busy
LEMMA GoesOnAnswers ==
    ASSUME AnswersInv, RepairInv', RowsLast, NEW p \in Procs, Busy(p), GoesOn(p)
    PROVE  AnswersInv'
<1>1. PICK r : /\ proc' = [proc EXCEPT ![p] = r] /\ answers' = answers
               /\ IsProc(r) /\ r.outcomes = proc[p].outcomes /\ r.item = proc[p].item
               /\ r.command = proc[p].command
  BY DEF GoesOn
<1>2. SoFar(proc[p].outcomes, proc[p].item - 1, proc[p].command, runs)
  BY DEF AnswersInv
<1>3. SoFar(r.outcomes, r.item - 1, r.command, runs')
  BY <1>1, <1>2, SoFarStays
<1> QED BY <1>1, <1>3, AnswersKeep

(* The exit codes, statuses and pages that say all went well are given only when the last *)
(* outcome is good, and for several items only when all are.                              *)
LEMMA FineMeansGood ==
    ASSUME NEW c \in Commands, NEW os, Exit(c, os) \in Fine,
           NEW S, os \in Seq(S), os # <<>>
    PROVE  \/ \A k \in DOMAIN os : os[k].what \in {"done", "none"}
           \/ Len(c.items) <= 1 /\ os[Len(os)].what \in {"done", "none"}
<1> DEFINE o == os[Len(os)]
<1>1. Last(os) = o
  BY DEF Last
<1>2. Len(c.items) > 1 => c.batch /\ c.face # "api"
  BY RepairAssumption
<1>3. Len(c.items) \in Nat
  BY RepairAssumption
<1> HIDE DEF o
<1>4. CASE c.face = "cli" /\ c.batch
  <2>1. Exit(c, os) = ExitBatch(os)
    BY <1>4 DEF Exit, ExitCli
  <2>2. Failing(os) = {}
    BY <2>1 DEF ExitBatch, Fine
  <2> QED BY <2>2 DEF Failing, Members
<1>5. CASE c.face = "cli" /\ ~c.batch
  <2>1. Exit(c, os) \in {ExitProposal(o), ExitVerify(c, o), ExitRun(o)}
    BY <1>1, <1>5 DEF Exit, ExitCli
  <2>2. ExitProposal(o) \in Fine => o.what \in {"done", "none"}
    BY DEF ExitProposal, Fine
  <2>3. ExitVerify(c, o) \in Fine => o.what \in {"done", "none"}
    BY DEF ExitVerify, Fine
  <2>4. ExitRun(o) \in Fine => o.what \in {"done", "none"}
    BY DEF ExitRun, Fine
  <2>5. o.what \in {"done", "none"}
    BY <2>1, <2>2, <2>3, <2>4
  <2> QED BY <1>2, <1>3, <1>5, <2>5 DEF o
<1>6. CASE c.face = "api"
  <2>1. ExitApi(o) \in Fine
    BY <1>1, <1>6 DEF Exit
  <2>2. o.what \in {"done", "none"}
    BY <2>1 DEF ExitApi, StatusOf, Fine
  <2> QED BY <1>2, <1>3, <1>6, <2>2 DEF o
<1>7. CASE c.face = "ui"
  <2>1. ExitPage(c, o) \in Fine
    BY <1>1, <1>7 DEF Exit
  <2>2. ~c.batch /\ o.what = "done"
    BY <2>1 DEF ExitPage, Fine
  <2> QED BY <1>2, <1>3, <2>2 DEF o
<1>8. CASE c.face \notin {"cli", "api", "ui"}
  BY <1>8 DEF Exit, Fine
<1> QED BY <1>4, <1>5, <1>6, <1>7, <1>8
LEMMA EndAnswers ==
    ASSUME AnswersInv, RepairInv', RowsLast, NEW p \in Procs, Busy(p), Ends(p)
    PROVE  AnswersInv'
<1>1. PICK what, told :
        /\ EndCall(p, what, told)
        /\ what = "done" => /\ operation(p) = "apply" => HasRow(told.run, runs')
                            /\ operation(p) = "rollback" => HasRow(told.run, runs') /\ Marked(told.run, runs')
  BY DEF Ends
<1> DEFINE m == proc[p]
           c == m.command
           o == [what |-> what, call |-> operation(p), item |-> m.item, told |-> told]
           os == Append(m.outcomes, o)
           more == what = "done" /\ m.call < Len(c.calls)
<1>2. /\ IsProc(m) /\ c \in Commands /\ m.item \in 1 .. Len(c.items) /\ m.call \in 1 .. Len(c.calls)
      /\ operation(p) = c.calls[m.call]
  BY BusyIsSound DEF AnswersInv, ProcSound
<1>3. /\ c.items \in Seq(Members(c.items)) /\ c.calls \in Seq(RepairCalls)
      /\ Len(c.items) \in Nat \ {0} /\ Len(c.calls) \in Nat \ {0}
  BY <1>2, RepairAssumption
<1>4. /\ o.what = what /\ o.call = operation(p) /\ o.item = m.item /\ o.told = told
  OBVIOUS
<1>5. Told(o, runs')
  BY <1>1, <1>4 DEF Told
<1>6. SoFar(m.outcomes, m.item - 1, c, runs')
  BY SoFarStays DEF AnswersInv
<1>7. PICK S : m.outcomes \in Seq(S)
  BY <1>6 DEF SoFar
<1> HIDE DEF o
<1>8. /\ os \in Seq(S \cup {o}) /\ DOMAIN os = DOMAIN m.outcomes \cup {Len(m.outcomes) + 1}
      /\ os[Len(m.outcomes) + 1] = o /\ \A k \in DOMAIN m.outcomes : os[k] = m.outcomes[k]
  BY <1>7, Appended
<1>9. SoFar(os, m.item - 1, c, runs')
  <2> HIDE DEF os, c
  <2>1. \A k \in DOMAIN os : Told(os[k], runs')
    BY <1>5, <1>6, <1>8 DEF SoFar
  <2>2. \A i \in 1 .. m.item - 1 : Closed(os, i, c)
    BY <1>6, <1>8 DEF SoFar, Closed
  <2> QED BY <1>8, <2>1, <2>2 DEF SoFar
<1>10. ~more => Closes(o, m.item, c)
  <2>1. ~more /\ what = "done" => m.call = Len(c.calls)
    BY <1>2, <1>3
  <2>2. Last(c.calls) = c.calls[Len(c.calls)]
    BY DEF Last
  <2> HIDE DEF c
  <2> QED BY <1>2, <1>4, <2>1, <2>2 DEF Closes
<1>11. ~more => SoFar(os, m.item, c, runs')
  <2> SUFFICES ASSUME ~more PROVE SoFar(os, m.item, c, runs')
    OBVIOUS
  <2> HIDE DEF os, c, more
  <2>1. Closed(os, m.item, c)
    BY <1>8, <1>10 DEF Closed
  <2>2. \A i \in 1 .. m.item : i \in 1 .. m.item - 1 \/ i = m.item
    BY <1>2
  <2> QED BY <1>9, <2>1, <2>2 DEF SoFar
<1>12. CASE more \/ m.item < Len(c.items)
  <2> DEFINE i == IF more THEN m.item ELSE m.item + 1
             k == IF more THEN m.call + 1 ELSE 1
             n == [m EXCEPT !.outcomes = os, !.call = k, !.item = i]
             r == Fresh(n)
  <2>1. proc' = [proc EXCEPT ![p] = Fresh([m EXCEPT !.outcomes = os, !.call = IF more THEN @ + 1 ELSE 1,
                                                    !.item = IF more THEN @ ELSE @ + 1])]
        /\ answers' = answers
    BY <1>1, <1>12 DEF EndCall, Set, me, command, o
  <2>2. n = [m EXCEPT !.outcomes = os, !.call = IF more THEN @ + 1 ELSE 1,
                      !.item = IF more THEN @ ELSE @ + 1]
    BY <1>2 DEF IsProc, ProcFields
  <2>3. IsProc(n) /\ n.command = c /\ n.item = i /\ n.outcomes = os
    <3> HIDE DEF os, i, k
    <3> QED BY <1>2 DEF IsProc, ProcFields
  <2>4. r.command = c /\ r.item = i /\ r.outcomes = os
    <3> HIDE DEF n, os, i, c
    <3> QED BY <2>3 DEF Fresh, IsProc, ProcFields
  <2>5. SoFar(os, i - 1, c, runs')
    <3>1. CASE more
      BY <1>9, <3>1
    <3>2. CASE ~more
      <4>1. i - 1 = m.item
        BY <1>2, <3>2
      <4> HIDE DEF i, os, c, more
      <4> QED BY <1>11, <3>2, <4>1
    <3> QED BY <3>1, <3>2
  <2>6. proc' = [proc EXCEPT ![p] = r]
    BY <2>1, <2>2
  <2> HIDE DEF r, n, i, os, c
  <2> QED BY <2>1, <2>4, <2>5, <2>6, AnswersKeep
<1>13. CASE ~(more \/ m.item < Len(c.items))
  <2> DEFINE a == [command |-> c, outcomes |-> os, exit |-> Exit(c, os)]
  <2>1. proc' = [proc EXCEPT ![p] = Idle] /\ answers' = Append(answers, a)
    BY <1>1, <1>13 DEF EndCall, Set, me, command, o
  <2>2. m.item = Len(c.items) /\ ~more
    BY <1>2, <1>3, <1>13
  <2>3. a.command = c /\ a.outcomes = os /\ a.exit = Exit(c, os)
    OBVIOUS
  <2>4. SoFar(os, Len(c.items), c, runs')
    BY <1>11, <2>2
  <2>5. Len(os) = Len(m.outcomes) + 1 /\ os # <<>> /\ Len(os) \in DOMAIN os
    BY <1>7
  <2>6. ASSUME Exit(c, os) \in Fine, NEW i \in 1 .. Len(c.items)
        PROVE  \E k \in DOMAIN os : Closes(os[k], i, c) /\ os[k].what \in {"done", "none"}
    <3> HIDE DEF os, c
    <3>1. PICK k \in DOMAIN os : Closes(os[k], i, c)
      BY <2>4 DEF SoFar, Closed
    <3>2. CASE \A j \in DOMAIN os : os[j].what \in {"done", "none"}
      BY <3>1, <3>2
    <3>3. CASE Len(c.items) <= 1 /\ os[Len(os)].what \in {"done", "none"}
      <4>1. i = m.item
        BY <1>3, <2>2, <3>3
      <4>2. os[Len(os)] = o
        BY <1>8, <2>5
      <4> QED BY <1>10, <2>2, <2>5, <3>3, <4>1, <4>2
    <3> QED BY <1>2, <1>8, <2>5, <2>6, <3>2, <3>3, FineMeansGood
  <2>7. Achieved(a, runs')
    <3> HIDE DEF a, os, c
    <3> QED BY <1>3, <2>3, <2>4, <2>6 DEF Achieved
  <2> HIDE DEF a
  <2> QED BY <2>1, <2>7, AnswersKeep
<1> QED BY <1>12, <1>13
LEMMA AnswersStart == Init => AnswersInv
<1> SUFFICES ASSUME Init PROVE AnswersInv
  OBVIOUS
<1>1. answers = <<>> /\ \A p \in Procs : ~Busy(p)
  BY DEF Init, Busy
<1>2. (\E S : answers \in Seq(S)) /\ DOMAIN answers = {}
  BY <1>1
<1> QED BY <1>1, <1>2, InitSound DEF AnswersInv
LEMMA AnswersStep == AnswersInv /\ [Next]_vars => AnswersInv'
<1> SUFFICES ASSUME AnswersInv, [Next]_vars PROVE AnswersInv'
  OBVIOUS
<1>0. RepairInv /\ RepairInv' /\ RowsLast
  BY StepSound, RowsAreKept DEF AnswersInv
<1>1. ASSUME NEW p \in Procs, Step(p)
      PROVE  AnswersInv'
  <2>1. CASE \E c \in Commands : Begin(p, c)
    <3>1. PICK c \in Commands : Begin(p, c)
      BY <2>1
    <3>2. PICK r : /\ proc' = [proc EXCEPT ![p] = r] /\ answers' = answers
                   /\ r.outcomes = <<>> /\ r.item = 1 /\ r.command = c
      <4> DEFINE r == [command |-> c, item |-> 1, call |-> 1, outcomes |-> <<>>, stage |-> "open",
                       since |-> changes, opened |-> Gone, proposal |-> NoProposal, affected |-> 0, before |-> 0,
                       stats |-> NoStats, fingerprint |-> Gone, copy |-> NoCopy, run |-> UnknownRun,
                       row |-> Nothing, records |-> Gone]
      <4>1. proc' = [proc EXCEPT ![p] = r] /\ answers' = answers
        BY <3>1 DEF Begin, Move, Set
      <4>2. r.outcomes = <<>> /\ r.item = 1 /\ r.command = c
        OBVIOUS
      <4> HIDE DEF r
      <4> QED BY <4>1, <4>2
    <3>3. SoFar(r.outcomes, r.item - 1, r.command, runs')
      <4>1. r.outcomes \in Seq({}) /\ DOMAIN r.outcomes = {} /\ 1 .. r.item - 1 = {}
        BY <3>2
      <4> QED BY <4>1 DEF SoFar
    <3> QED BY <1>0, <3>2, <3>3, AnswersKeep
  <2>2. CASE Crash(p)
    <3> DEFINE a == [command |-> command(p), outcomes |-> me(p).outcomes, exit |-> "killed"]
    <3>1. proc' = [proc EXCEPT ![p] = Idle] /\ answers' = Append(answers, a)
      BY <2>2 DEF Crash, Set
    <3>2. Achieved(a, runs')
      BY DEF Achieved, Fine
    <3> HIDE DEF a
    <3> QED BY <1>0, <3>1, <3>2, AnswersKeep
  <2>3. CASE GoesOn(p) /\ Busy(p)
    BY <1>0, <2>3, GoesOnAnswers
  <2>4. CASE Ends(p) /\ Busy(p)
    BY <1>0, <2>4, EndAnswers
  <2> QED BY <1>0, <1>1, <2>1, <2>2, <2>3, <2>4, StepsGo
<1>2. ASSUME (\E f \in Paths, v \in Later : Edit(f, v)) \/ (\E id \in DOMAIN disk : RemoveArtefact(id)) \/ UNCHANGED vars
      PROVE  AnswersInv'
  <2>1. proc' = proc /\ answers' = answers /\ runs' = runs
    BY <1>2 DEF Edit, RemoveArtefact, vars
  <2> QED BY <1>0, <2>1 DEF AnswersInv, Busy
<1> QED BY <1>1, <1>2 DEF Next

(* A caller who is told that all went well finds it done: every item of the command was   *)
(* carried out or had nothing to repair, what was applied has its row and what was rolled *)
(* back is marked so, whatever other processes have done to it since.                     *)
THEOREM OkIsDone == Spec => []OkMeansDone
<1>1. ASSUME AnswersInv
      PROVE  OkMeansDone
  <2> SUFFICES ASSUME NEW k \in DOMAIN answers, answers[k].exit \in {"ok", "200", "redirect"},
                      NEW i \in DOMAIN answers[k].command.items
               PROVE  LET own == {o \in Members(answers[k].outcomes) : o.item = i}
                      IN  \/ \E o \in own : o.what = "none"
                          \/ \E o \in own :
                                /\ o.call = Last(answers[k].command.calls) /\ o.what = "done"
                                /\ o.call = "apply" => Stored(o.told.run) # {}
                                /\ o.call = "rollback" => \A r \in Stored(o.told.run) : r.status = "rolled_back"
    BY DEF OkMeansDone
  <2> DEFINE a == answers[k]
  <2>1. /\ SoFar(a.outcomes, Len(a.command.items), a.command, runs)
        /\ a.command.items \in Seq(Members(a.command.items))
        /\ \A j \in 1 .. Len(a.command.items) : \E n \in DOMAIN a.outcomes :
              Closes(a.outcomes[n], j, a.command) /\ a.outcomes[n].what \in {"done", "none"}
    BY <1>1 DEF AnswersInv, Achieved, Fine
  <2>2. i \in 1 .. Len(a.command.items)
    BY <2>1
  <2>3. PICK n \in DOMAIN a.outcomes :
              Closes(a.outcomes[n], i, a.command) /\ a.outcomes[n].what \in {"done", "none"}
    BY <2>1, <2>2
  <2> DEFINE o == a.outcomes[n]
  <2>4. o \in {x \in Members(a.outcomes) : x.item = i}
    BY <2>3 DEF Members, Closes
  <2>5. Told(o, runs)
    BY <2>1 DEF SoFar
  <2>6. \A id : HasRow(id, runs) => Stored(id) # {}
    BY DEF HasRow, Stored, Members
  <2>7. \A id : Marked(id, runs) => \A r \in Stored(id) : r.status = "rolled_back"
    BY DEF Marked, Stored, Members
  <2>8. o.what # "none" => /\ o.call = Last(a.command.calls) /\ o.what = "done"
                           /\ o.call = "apply" => Stored(o.told.run) # {}
                           /\ o.call = "rollback" => \A r \in Stored(o.told.run) : r.status = "rolled_back"
    BY <2>3, <2>5, <2>6, <2>7 DEF Closes, Told
  <2> HIDE DEF o, a
  <2> QED BY <2>4, <2>8 DEF a
<1> QED BY <1>1, AnswersStart, AnswersStep, PTL DEF Spec

----------------------------------------------------------------------------
(* The bounds of the model. *)
AtWork == {p \in Procs : proc[p] # Idle}
BoundsInv ==
    /\ AnswersInv
    /\ Len(answers) + Cardinality(AtWork) <= MaxCommands
    /\ changes <= MaxChanges
LEMMA RunningIsFinite == IsFiniteSet(AtWork) /\ Cardinality(AtWork) \in Nat
  BY RepairAssumption, FS_Subset, FS_CardinalityType DEF AtWork
LEMMA AnswersAreCounted == AnswersInv => Len(answers) \in Nat
  BY DEF AnswersInv
LEMMA CountKeeps ==
    ASSUME BoundsInv, AnswersInv', NEW p \in Procs, Busy(p), NEW r, proc' = [proc EXCEPT ![p] = r],
           answers' = answers \/ (r = Idle /\ \E a : answers' = Append(answers, a))
    PROVE  Len(answers') + Cardinality(AtWork') <= MaxCommands
<1>1. /\ AtWork \ {p} \subseteq AtWork' /\ AtWork' \subseteq AtWork /\ p \in AtWork
      /\ r = Idle => AtWork' = AtWork \ {p}
  BY DEF AtWork, Busy, BoundsInv, AnswersInv, RepairInv, ProcsInv
<1>2. IsFiniteSet(AtWork) /\ Cardinality(AtWork) \in Nat /\ MaxCommands \in Nat
  BY RunningIsFinite, RepairAssumption
<1>3. Len(answers) \in Nat /\ Len(answers) + Cardinality(AtWork) <= MaxCommands
  BY AnswersAreCounted DEF BoundsInv
<1>4. CASE answers' = answers
  <2>1. Cardinality(AtWork') \in Nat /\ Cardinality(AtWork') <= Cardinality(AtWork)
    BY <1>1, <1>2, FS_Subset, FS_CardinalityType
  <2> QED BY <1>2, <1>3, <1>4, <2>1
<1>5. CASE r = Idle /\ \E a : answers' = Append(answers, a)
  <2>1. PICK a : answers' = Append(answers, a)
    BY <1>5
  <2>2. PICK S : answers \in Seq(S)
    BY DEF BoundsInv, AnswersInv
  <2>3. Len(answers') = Len(answers) + 1
    <3>1. Append(answers, a) \in Seq(S \cup {a}) /\ DOMAIN Append(answers, a) = 1 .. Len(Append(answers, a))
      BY <2>2, Appended
    <3> QED BY <2>1, <2>2
  <2>4. Cardinality(AtWork') = Cardinality(AtWork) - 1
    BY <1>1, <1>2, <1>5, FS_RemoveElement
  <2> QED BY <1>2, <1>3, <2>3, <2>4
<1> QED BY <1>4, <1>5
LEMMA BoundsStart == Init => BoundsInv
<1> SUFFICES ASSUME Init PROVE BoundsInv
  OBVIOUS
<1>1. AtWork = {} /\ answers = <<>> /\ changes = 0
  BY DEF Init, AtWork
<1>2. Cardinality(AtWork) = 0
  BY <1>1, FS_EmptySet
<1> QED BY <1>1, <1>2, AnswersStart, RepairAssumption DEF BoundsInv
LEMMA EndIsCounted ==
    \A p \in Procs : Ends(p) =>
        \E r : /\ proc' = [proc EXCEPT ![p] = r]
               /\ answers' = answers \/ (r = Idle /\ \E a : answers' = Append(answers, a))
<1> SUFFICES ASSUME NEW p \in Procs, NEW what, NEW told, EndCall(p, what, told)
             PROVE  \E r : /\ proc' = [proc EXCEPT ![p] = r]
                           /\ answers' = answers \/ (r = Idle /\ \E a : answers' = Append(answers, a))
  BY DEF Ends
<1> QED BY DEF EndCall, Set
LEMMA BoundsKept == BoundsInv /\ [Next]_vars => BoundsInv'
<1> SUFFICES ASSUME BoundsInv, [Next]_vars PROVE BoundsInv'
  OBVIOUS
<1>0. AnswersInv /\ AnswersInv' /\ RepairInv /\ changes \in Nat /\ MaxChanges \in Nat
  BY AnswersStep, RepairAssumption DEF BoundsInv, AnswersInv, RepairInv
<1>1. changes' <= MaxChanges
  <2>1. CASE changes' = changes
    BY <2>1 DEF BoundsInv
  <2>2. CASE changes < MaxChanges /\ changes' = changes + 1
    BY <1>0, <2>2
  <2>3. changes' = changes \/ (changes < MaxChanges /\ changes' = changes + 1)
    <3>1. ASSUME NEW p \in Procs, Step(p)
          PROVE  changes' = changes \/ (changes < MaxChanges /\ changes' = changes + 1)
      BY <3>1, WhoWrites DEF Crash
    <3>2. CASE (\E f \in Paths, v \in Later : Edit(f, v)) \/ (\E id \in DOMAIN disk : RemoveArtefact(id)) \/ UNCHANGED vars
      BY <3>2 DEF Edit, RemoveArtefact, vars
    <3> QED BY <3>1, <3>2 DEF Next
  <2> QED BY <2>1, <2>2, <2>3
<1>2. ASSUME NEW p \in Procs, Step(p)
      PROVE  Len(answers') + Cardinality(AtWork') <= MaxCommands
  <2>1. CASE \E c \in Commands : Begin(p, c)
    <3>1. PICK r : /\ proc[p] = Idle /\ proc' = [proc EXCEPT ![p] = r] /\ answers' = answers
                   /\ Len(answers) + Cardinality(AtWork) < MaxCommands
      BY <2>1 DEF Begin, Move, Set, me, AtWork
    <3>2. p \notin AtWork /\ AtWork' \in {AtWork, AtWork \cup {p}}
      BY <1>0, <3>1 DEF AtWork, RepairInv, ProcsInv
    <3>3. Cardinality(AtWork') \in {Cardinality(AtWork), Cardinality(AtWork) + 1}
      BY <3>2, RunningIsFinite, FS_AddElement
    <3> QED BY <1>0, <3>1, <3>3, RunningIsFinite, AnswersAreCounted, RepairAssumption
  <2>2. CASE Crash(p)
    BY <1>0, <2>2, CountKeeps DEF Crash, Set, me, Busy
  <2>3. CASE Busy(p) /\ GoesOn(p)
    BY <1>0, <2>3, CountKeeps DEF GoesOn
  <2>4. CASE Busy(p) /\ Ends(p)
    BY <1>0, <2>4, EndIsCounted, CountKeeps
  <2> QED BY <1>0, <1>2, <2>1, <2>2, <2>3, <2>4, StepsGo
<1>3. ASSUME proc' = proc, answers' = answers
      PROVE  Len(answers') + Cardinality(AtWork') <= MaxCommands
  <2>1. AtWork' = AtWork
    BY <1>3 DEF AtWork
  <2>2. Cardinality(AtWork') = Cardinality(AtWork) /\ Len(answers') = Len(answers)
    BY <1>3, <2>1
  <2>3. Len(answers) + Cardinality(AtWork) <= MaxCommands
    BY DEF BoundsInv
  <2> QED BY <2>2, <2>3
<1>4. (\E p \in Procs : Step(p)) \/ (proc' = proc /\ answers' = answers)
  BY DEF Next, Edit, RemoveArtefact, vars
<1> QED BY <1>0, <1>1, <1>2, <1>3, <1>4 DEF BoundsInv

(* Every row is of one run that has artefacts, these are copies of versions, and every    *)
(* process is idle or at a stage of a call.                                               *)
THEOREM RepairTypes == Spec => []TypeOK
<1>1. ASSUME BoundsInv
      PROVE  TypeOK
  <2>1. RepairInv
    BY <1>1 DEF BoundsInv, AnswersInv
  <2>2. \A i, j \in DOMAIN runs : /\ runs[i].id \in DOMAIN disk
                                  /\ runs[i].id = runs[j].id => i = j
                                  /\ runs[i].status \in {"applied", "rolled_back"}
    BY <2>1 DEF RepairInv, RowsInv, RowSound
  <2>3. ASSUME NEW id \in DOMAIN disk
        PROVE  /\ {disk[id].before, disk[id].restored} \subseteq Versions \cup {Gone}
               /\ disk[id].copy \in [{"carried", "projected"} -> Versions \cup {Gone}]
    <3>1. disk[id] \in Artefact
      BY <2>1 DEF RepairInv, DiskSound
    <3> QED BY <3>1 DEF Artefact, Copies, Versioned
  <2>4. ASSUME NEW p \in Procs
        PROVE  proc[p].stage \in Stages
    <3>1. CASE proc[p] = Idle
      BY <3>1 DEF Idle, Stages
    <3>2. CASE Busy(p)
      BY <2>1, <3>2, BusyIsSound DEF ProcSound
    <3> QED BY <3>1, <3>2 DEF Busy
  <2>5. Len(answers) <= MaxCommands /\ changes <= MaxChanges
    BY <1>1, RunningIsFinite, AnswersAreCounted, RepairAssumption DEF BoundsInv
  <2> QED BY <2>2, <2>3, <2>4, <2>5 DEF TypeOK
<1> QED BY <1>1, BoundsStart, BoundsKept, PTL DEF Spec

-----------------------------------------------------------------------------
(* The audit of a repair that nobody disturbed is the truth: its row, its snapshot and its *)
(* copy are all of one version, so _operation_records samples the values that the two      *)
(* artefacts have, and CopyTable rewrites that version in the proposal's columns only;     *)
(* what table_diff shows besides is a cell whose value the copy spells otherwise.          *)
THEOREM AuditExact == Spec => []AuditIsExact
<1>1. ASSUME RepairInv
      PROVE  AuditIsExact
  <2> SUFFICES ASSUME NEW r \in Members(runs), r.quiet, disk[r.id].before # Gone, disk[r.id].copy # NoCopy
               PROVE  LET d == disk[r.id]
                          copy == CopyTable(d.copy, r.proposal)
                      IN  /\ Recorded(r.proposal, r.operations) = Sample(Tables[d.before], copy, LogCap)
                          /\ \A x \in table_diff(Format[r.path], r.proposal, d.before, d.copy) :
                                /\ x[2] \in r.proposal.columns
                                /\ Rewrites(Format[r.path], x[2]) \/ x \in Moved(Tables[d.before], copy)
                          /\ r.fingerprint_before = d.before
    BY DEF AuditIsExact
  <2>1. RowSound(r, disk, changes)
    BY <1>1 DEF RepairInv, RowsInv, Members
  <2>2. PICK v \in Versions : OneVersion(r, v) /\ disk[r.id].before \in {v, Gone} /\ disk[r.id].copy \in {Of(v), NoCopy}
    BY <2>1 DEF RowSound
  <2>3. /\ disk[r.id].before = v /\ disk[r.id].copy = Of(v)
        /\ r.operations = v /\ r.fingerprint_before = v /\ ColumnsFit(r.proposal, v)
    BY <2>2 DEF OneVersion, ColumnsFit
  <2>4. Recorded(r.proposal, v) = Sample(Tables[v], CopyTable(Of(v), r.proposal), LogCap)
    BY CopyIsProjected DEF Recorded
  <2>5. Moved(Tables[v], CopyTable(Of(v), r.proposal)) = Changing(r.proposal, v)
    BY <2>3, ChangedCellsMove
  <2>6. \A x \in Changing(r.proposal, v) : x[2] \in r.proposal.columns
    BY DEF Changing
  <2>7. ASSUME NEW x \in table_diff(Format[r.path], r.proposal, v, Of(v))
        PROVE  /\ x[2] \in r.proposal.columns
               /\ Rewrites(Format[r.path], x[2]) \/ x \in Moved(Tables[v], CopyTable(Of(v), r.proposal))
    BY <2>5, <2>6, <2>7 DEF table_diff
  <2> QED BY <2>3, <2>4, <2>7
<1> QED BY <1>1, RepairIsSound, PTL

-----------------------------------------------------------------------------
(* What the rows of a table count to: the sum over its entries is the number of its rows. *)
ColumnCount(t, c, V) == RowsIn(t, {i \in DOMAIN t.rows : t.rows[i].cells[c] \in V})
LEMMA RowsInHits ==
    ASSUME NEW t, Rectangular(t), NEW H
    PROVE  RowsIn(t, {i \in DOMAIN t.rows : t.rows[i].cells \in H}) = Cardinality(Hits(RowsOf(t), H))
<1>1. PICK n \in Nat : n = Len(t.rows) /\ DOMAIN t.rows = 1 .. n
  BY EntriesAreLists DEF Rectangular
<1>2. PICK hits \in SUBSET (1 .. n) : hits = {i \in DOMAIN t.rows : t.rows[i].cells \in H}
  BY <1>1
<1>3. PICK f : f = [i \in hits |-> t.rows[i].times]
  OBVIOUS
<1>4. PICK e : e = [i \in 1 .. n |-> IF i \in hits THEN f[i] ELSE 0]
  OBVIOUS
<1>5. PICK s : s = Entries(t) /\ s \in Seq(Seq(CellsOf(t)))
  BY EntriesAreLists
<1>6. \A i \in 1 .. n : t.rows[i].times \in Nat
  BY <1>1, EntriesAreLists
<1>7. f \in [hits -> Int] /\ e \in [1 .. n -> Int]
  <2>1. \A i \in 1 .. n : t.rows[i].times \in Int
    BY <1>6
  <2> QED BY <2>1, <1>2, <1>3, <1>4
<1>8. ASSUME NEW i \in 1 .. n PROVE e[i] = Cardinality(Hits(s[i], H))
  <2>1. s[i] = [k \in 1 .. t.rows[i].times |-> t.rows[i].cells]
    BY <1>1, <1>5, EntriesAreLists
  <2>2. PICK m \in Nat : m = t.rows[i].times
    BY <1>6
  <2>3. Cardinality(1 .. m) = m
    <3>1. 1 \in Int /\ m \in Int
      BY <2>2
    <3>2. Cardinality(1 .. m) = IF 1 > m THEN 0 ELSE m - 1 + 1
      BY <3>1, FS_Interval
    <3> QED BY <2>2, <3>2
  <2>4. CASE i \in hits
    <3>1. Hits(s[i], H) = 1 .. m
      BY <1>2, <2>1, <2>2, <2>4 DEF Hits
    <3> QED BY <1>3, <1>4, <2>2, <2>3, <2>4, <3>1
  <2>5. CASE i \notin hits
    <3>1. Hits(s[i], H) = {}
      BY <1>1, <1>2, <2>1, <2>2, <2>5 DEF Hits
    <3> QED BY <1>4, <2>5, <3>1, FS_EmptySet
  <2> QED BY <2>4, <2>5
<1>9. PICK c : c[0] = 0 /\ \A i \in 1 .. n : c[i] = c[i - 1] + e[i]
  <2>1. PICK c : Sums(c, e, n)
    BY SumExists
  <2> QED BY <2>1 DEF Sums
<1>10. Len(s) = n
  BY <1>1, <1>5, EntriesAreLists
<1>11. Tally(c, s, H, Len(s))
  BY <1>8, <1>9, <1>10 DEF Tally
<1>12. Cardinality(Hits(FlattenSeq(s), H)) = c[n]
  BY <1>5, <1>10, <1>11, FlattenHits
<1>13. SumFunction(e) = c[n]
  BY <1>7, <1>9, SumRuns
<1>14. SumFunction(f) = SumFunction(e)
  <2>1. PICK S : S = 1 .. n
    OBVIOUS
  <2>2. IsFiniteSet(S)
    <3>1. 1 \in Int /\ n \in Int
      OBVIOUS
    <3>2. IsFiniteSet(1 .. n)
      BY <3>1, FS_Interval
    <3> QED BY <2>1, <3>2
  <2>3. hits \in SUBSET S /\ f \in [hits -> Int]
    BY <1>7, <2>1
  <2>4. Padded(e, f, hits, S)
    BY <1>4, <1>7, <2>1, <2>3 DEF Padded
  <2> QED BY <2>2, <2>4, SumOfPart
<1> QED BY <1>2, <1>3, <1>5, <1>12, <1>13, <1>14, RowsAreCells DEF RowsIn
Places(t, c, V) == {k \in DOMAIN RowsOf(t) : RowsOf(t)[k][c] \in V}
LEMMA ColumnIsCounted ==
    ASSUME NEW t, Rectangular(t), NEW c, NEW V
    PROVE  /\ ColumnCount(t, c, V) = Cardinality(Places(t, c, V))
           /\ IsFiniteSet(Places(t, c, V)) /\ Cardinality(Places(t, c, V)) \in Nat
<1>1. PICK H : H = {r \in CellsOf(t) : r[c] \in V}
  OBVIOUS
<1>2. PICK b : b = RowsOf(t)
  OBVIOUS
<1>3. b \in Seq(CellsOf(t))
  BY <1>2, RowsAreCells
<1>4. Hits(b, H) = Places(t, c, V)
  <2>1. \A k \in DOMAIN b : b[k] \in CellsOf(t)
    BY <1>3
  <2> QED BY <1>1, <1>2, <2>1 DEF Hits, Places
<1>5. {i \in DOMAIN t.rows : t.rows[i].cells \in H} = {i \in DOMAIN t.rows : t.rows[i].cells[c] \in V}
  <2>1. \A i \in DOMAIN t.rows : t.rows[i].cells \in CellsOf(t)
    BY DEF CellsOf, Members
  <2> QED BY <1>1, <2>1
<1>6. RowsIn(t, {i \in DOMAIN t.rows : t.rows[i].cells \in H}) = Cardinality(Hits(b, H))
  BY <1>2, RowsInHits
<1> QED BY <1>3, <1>4, <1>5, <1>6, HitsAreFinite DEF ColumnCount

(* Copies and projections are tables. *)
LEMMA CopyIsTable ==
    ASSUME NEW v \in Versions, NEW proposal
    PROVE  Rectangular(CopyTable(Of(v), proposal))
<1> DEFINE t == Tables[v]
           u == CopyTable(Of(v), proposal)
<1>0. Rectangular(t)
  BY TablesAssumption
<1>1. PICK b : b = RowsOf(t)
  OBVIOUS
<1>2. PICK h : h = RowsOf(Projection(proposal, v))
  OBVIOUS
<1>3. b \in Seq(CellsOf(t)) /\ DOMAIN b = 1 .. Len(b) /\ Len(b) \in Nat
  BY <1>0, <1>1, RowsAreCells
<1>4. DOMAIN h = DOMAIN b
  BY <1>1, <1>2, ProjectedRows DEF Through
<1>5. PICK y : y = [k \in 1 .. Len(b) |-> [c \in DOMAIN b[k] |-> IF c \in proposal.columns THEN h[k][c] ELSE b[k][c]]]
  OBVIOUS
<1>6. PICK z : z = [k \in 1 .. Len(b) |-> [times |-> 1, cells |-> y[k]]]
  OBVIOUS
<1>7. u = [cols |-> t.cols, rows |-> z]
  <2>1. z = [k \in DOMAIN h |-> [times |-> 1, cells |-> [c \in DOMAIN b[k] |-> IF c \in proposal.columns THEN h[k][c] ELSE b[k][c]]]]
    BY <1>3, <1>4, <1>5, <1>6
  <2> QED BY <1>1, <1>2, <2>1 DEF CopyTable, Of
<1>8. ColumnsOf(u) = ColumnsOf(t)
  BY <1>7 DEF ColumnsOf
<1>9. \A k \in 1 .. Len(b) : y[k] = [c \in ColumnsOf(t) |-> y[k][c]]
  <2>1. \A k \in 1 .. Len(b) : b[k] \in CellsOf(t)
    BY <1>3
  <2>2. ASSUME NEW k \in 1 .. Len(b) PROVE DOMAIN b[k] = ColumnsOf(t)
    <3>1. PICK e \in Members(t.rows) : b[k] = e.cells
      BY <2>1 DEF CellsOf
    <3>2. e.cells = [c \in ColumnsOf(t) |-> e.cells[c]]
      BY <1>0, <3>1 DEF Rectangular
    <3> QED BY <3>1, <3>2
  <2> HIDE DEF t
  <2> QED BY <1>5, <2>2
<1>10. DOMAIN z = 1 .. Len(b) /\ z \in Seq(Members(z))
  <2>1. z \in [1 .. Len(b) -> Members(z)]
    BY <1>6 DEF Members
  <2> QED BY <1>3, <2>1
<1>11. \A e \in Members(z) : /\ e = [cells |-> e.cells, times |-> e.times] /\ e.times \in Nat \ {0}
                             /\ e.cells = [c \in ColumnsOf(t) |-> e.cells[c]]
  <2> SUFFICES ASSUME NEW k \in 1 .. Len(b)
               PROVE  /\ z[k] = [cells |-> z[k].cells, times |-> z[k].times] /\ z[k].times \in Nat \ {0}
                      /\ z[k].cells = [c \in ColumnsOf(t) |-> z[k].cells[c]]
    BY <1>10 DEF Members
  <2>1. z[k] = [times |-> 1, cells |-> y[k]] /\ y[k] = [c \in ColumnsOf(t) |-> y[k][c]]
    BY <1>6, <1>9
  <2> HIDE DEF t
  <2> QED BY <2>1
<1>12. t.cols \in Seq(ColumnsOf(t))
  BY <1>0 DEF Rectangular
<1>13. u.cols = t.cols /\ u.rows = z /\ u = [cols |-> u.cols, rows |-> u.rows]
  BY <1>7
<1> HIDE DEF t, u
<1>14. Rectangular(u)
  BY <1>8, <1>10, <1>11, <1>12, <1>13 DEF Rectangular
<1> QED BY <1>14 DEF u
LEMMA ProjectionIsTable ==
    ASSUME NEW v \in Versions, NEW proposal
    PROVE  Rectangular(Projection(proposal, v)) /\ Projection(proposal, v).cols = Tables[v].cols
<1> DEFINE t == Tables[v]
<1>0. Rectangular(t)
  BY TablesAssumption
<1>1. PICK z : z = [i \in DOMAIN t.rows |->
                     [t.rows[i] EXCEPT !.cells =
                       [c \in DOMAIN @ |-> IF c \in proposal.columns THEN After(proposal, @[c]) ELSE @[c]]]]
  OBVIOUS
<1>2. PICK u : u = Projection(proposal, v)
  OBVIOUS
<1>3. u = [cols |-> t.cols, rows |-> z]
  BY <1>0, <1>1, <1>2 DEF Projection, Mapped, Rectangular
<1> HIDE DEF t
<1>4. ASSUME NEW i \in DOMAIN t.rows
      PROVE  /\ z[i] = [cells |-> z[i].cells, times |-> z[i].times] /\ z[i].times \in Nat \ {0}
             /\ z[i].cells = [c \in ColumnsOf(t) |-> z[i].cells[c]]
  <2>1. PICK e : e = t.rows[i]
    OBVIOUS
  <2>2. /\ e = [cells |-> e.cells, times |-> e.times] /\ e.times \in Nat \ {0}
        /\ e.cells = [c \in ColumnsOf(t) |-> e.cells[c]]
    BY <1>0, <2>1 DEF Rectangular, Members
  <2>3. PICK w : w = [c \in DOMAIN e.cells |-> IF c \in proposal.columns THEN After(proposal, e.cells[c]) ELSE e.cells[c]]
    OBVIOUS
  <2>4. z[i] = [e EXCEPT !.cells = w]
    BY <1>1, <2>1, <2>3
  <2>5. z[i] = [cells |-> w, times |-> e.times]
    BY <2>2, <2>4
  <2>6. w = [c \in ColumnsOf(t) |-> w[c]]
    <3>1. DOMAIN e.cells = ColumnsOf(t)
      BY <2>2
    <3> QED BY <2>3, <3>1
  <2> QED BY <2>2, <2>5, <2>6
<1>5. z \in Seq(Members(z))
  <2>1. t.rows \in Seq(Members(t.rows))
    BY <1>0 DEF Rectangular
  <2>2. DOMAIN z = 1 .. Len(t.rows) /\ Len(t.rows) \in Nat
    BY <1>1, <2>1
  <2>3. z \in [1 .. Len(t.rows) -> Members(z)]
    BY <1>1, <2>2 DEF Members
  <2> QED BY <2>2, <2>3
<1>6. ColumnsOf(u) = ColumnsOf(t)
  BY <1>3 DEF ColumnsOf
<1>7. DOMAIN z = DOMAIN t.rows
  BY <1>1
<1>8. \A e \in Members(z) : /\ e = [cells |-> e.cells, times |-> e.times] /\ e.times \in Nat \ {0}
                            /\ e.cells = [c \in ColumnsOf(t) |-> e.cells[c]]
  BY <1>4, <1>7 DEF Members
<1>9. t.cols \in Seq(ColumnsOf(t))
  BY <1>0 DEF Rectangular
<1>10. u.cols = t.cols /\ u.rows = z /\ u = [cols |-> u.cols, rows |-> u.rows]
  BY <1>3
<1>11. Rectangular(u)
  BY <1>5, <1>6, <1>8, <1>9, <1>10 DEF Rectangular
<1> QED BY <1>2, <1>10, <1>11 DEF t
(* Every entry of a table is among its rows. *)
LEMMA RowsShowEntries ==
    ASSUME NEW t, Rectangular(t)
    PROVE  CellsOf(t) = {RowsOf(t)[k] : k \in DOMAIN RowsOf(t)}
<1>1. PICK b : b = RowsOf(t)
  OBVIOUS
<1>2. b \in Seq(CellsOf(t)) /\ b = FlattenSeq(Entries(t))
  BY <1>1, RowsAreCells
<1>3. PICK s : s = Entries(t)
  OBVIOUS
<1>4. ASSUME NEW i \in DOMAIN t.rows
      PROVE  \E k \in DOMAIN b : b[k] = t.rows[i].cells
  <2>1. i \in 1 .. Len(t.rows) /\ t.rows[i] \in Members(t.rows)
    BY EntriesAreLists DEF Rectangular, Members
  <2>2. t.rows[i].times \in Nat \ {0}
    BY <2>1 DEF Rectangular
  <2>3. s \in Seq(Seq(CellsOf(t))) /\ i \in DOMAIN s /\ s[i] = [k \in 1 .. t.rows[i].times |-> t.rows[i].cells]
    BY <1>3, <2>1, EntriesAreLists
  <2>4. Within(s[i], FlattenSeq(s))
    BY <2>3, FlattenHolds
  <2>5. 1 \in DOMAIN s[i] /\ s[i][1] = t.rows[i].cells
    BY <2>2, <2>3
  <2> QED BY <1>2, <1>3, <2>4, <2>5 DEF Within
<1>5. \A x \in CellsOf(t) : \E k \in DOMAIN b : b[k] = x
  BY <1>4 DEF CellsOf, Members
<1>6. \A k \in DOMAIN b : b[k] \in CellsOf(t)
  BY <1>2
<1> QED BY <1>1, <1>5, <1>6
LEMMA ValuesAreInRows ==
    ASSUME NEW t, Rectangular(t), NEW c
    PROVE  ValuesOf(t, c) = {RowsOf(t)[k][c] : k \in DOMAIN RowsOf(t)} \ {Null}
<1>1. PICK b : b = RowsOf(t)
  OBVIOUS
<1>2. CellsOf(t) = {b[k] : k \in DOMAIN b}
  BY <1>1, RowsShowEntries
<1>3. {Cell(t, i, c) : i \in DOMAIN t.rows} = {x[c] : x \in CellsOf(t)}
  BY DEF Cell, CellsOf, Members
<1>4. {x[c] : x \in CellsOf(t)} = {b[k][c] : k \in DOMAIN b}
  BY <1>2
<1> QED BY <1>1, <1>3, <1>4 DEF ValuesOf

(* What a copy keeps and what it changes, column by column. *)
LEMMA ColumnsOfCopies ==
    ASSUME NEW v \in Versions, NEW proposal, NEW c \in ColumnsOf(Tables[v])
    PROVE  /\ DOMAIN RowsOf(CopyTable(Of(v), proposal)) = DOMAIN RowsOf(Tables[v])
           /\ \A k \in DOMAIN RowsOf(Tables[v]) :
                 RowsOf(CopyTable(Of(v), proposal))[k][c] =
                    IF c \in proposal.columns THEN After(proposal, RowsOf(Tables[v])[k][c]) ELSE RowsOf(Tables[v])[k][c]
<1>1. PICK a : a = RowsOf(CopyTable(Of(v), proposal))
  OBVIOUS
<1>2. PICK b : b = RowsOf(Tables[v])
  OBVIOUS
<1>3. CopiedFrom(CopyTable(Of(v), proposal), Tables[v], a, b, proposal)
  BY <1>1, <1>2, CopiedRows
<1>4. DOMAIN a = DOMAIN b
  BY <1>3 DEF CopiedFrom
<1>5. \A k \in DOMAIN b : a[k][c] = IF c \in proposal.columns THEN After(proposal, b[k][c]) ELSE b[k][c]
  BY <1>3 DEF CopiedFrom
<1> QED BY <1>1, <1>2, <1>4, <1>5
LEMMA CopiesCount ==
    ASSUME NEW v \in Versions, NEW proposal, NEW c \in ColumnsOf(Tables[v]), NEW V
    PROVE  /\ c \notin proposal.columns =>
                 ColumnCount(CopyTable(Of(v), proposal), c, V) = ColumnCount(Tables[v], c, V)
           /\ c \in proposal.columns /\ (\A k \in DOMAIN RowsOf(Tables[v]) : After(proposal, RowsOf(Tables[v])[k][c]) \notin V) =>
                 ColumnCount(CopyTable(Of(v), proposal), c, V) = 0
<1>1. PICK u : u = CopyTable(Of(v), proposal)
  OBVIOUS
<1>2. PICK t : t = Tables[v]
  OBVIOUS
<1>3. PICK a : a = RowsOf(u)
  OBVIOUS
<1>4. PICK b : b = RowsOf(t)
  OBVIOUS
<1>5. /\ DOMAIN a = DOMAIN b
      /\ \A k \in DOMAIN b : a[k][c] = IF c \in proposal.columns THEN After(proposal, b[k][c]) ELSE b[k][c]
  BY <1>1, <1>2, <1>3, <1>4, ColumnsOfCopies
<1>6. Rectangular(u) /\ Rectangular(t)
  BY <1>1, <1>2, CopyIsTable, TablesAssumption
<1>7. ColumnCount(u, c, V) = Cardinality(Places(u, c, V)) /\ ColumnCount(t, c, V) = Cardinality(Places(t, c, V))
  BY <1>6, ColumnIsCounted
<1>8. Places(u, c, V) = {k \in DOMAIN a : a[k][c] \in V} /\ Places(t, c, V) = {k \in DOMAIN b : b[k][c] \in V}
  BY <1>3, <1>4 DEF Places
<1>9. c \notin proposal.columns => Places(u, c, V) = Places(t, c, V)
  BY <1>5, <1>8
<1>10. ASSUME c \in proposal.columns, \A k \in DOMAIN b : After(proposal, b[k][c]) \notin V
       PROVE  ColumnCount(u, c, V) = 0
  <2>1. Places(u, c, V) = {}
    BY <1>5, <1>8, <1>10
  <2> QED BY <1>7, <2>1, FS_EmptySet
<1> QED BY <1>1, <1>2, <1>4, <1>7, <1>9, <1>10
LEMMA CopiesHoldValues ==
    ASSUME NEW v \in Versions, NEW proposal, NEW c \in ColumnsOf(Tables[v])
    PROVE  /\ c \notin proposal.columns => ValuesOf(CopyTable(Of(v), proposal), c) = ValuesOf(Tables[v], c)
           /\ c \in proposal.columns =>
                 \A x \in ValuesOf(CopyTable(Of(v), proposal), c) :
                    \E k \in DOMAIN RowsOf(Tables[v]) : x = After(proposal, RowsOf(Tables[v])[k][c])
<1>1. PICK u : u = CopyTable(Of(v), proposal)
  OBVIOUS
<1>2. PICK t : t = Tables[v]
  OBVIOUS
<1>3. PICK a : a = RowsOf(u)
  OBVIOUS
<1>4. PICK b : b = RowsOf(t)
  OBVIOUS
<1>5. /\ DOMAIN a = DOMAIN b
      /\ \A k \in DOMAIN b : a[k][c] = IF c \in proposal.columns THEN After(proposal, b[k][c]) ELSE b[k][c]
  BY <1>1, <1>2, <1>3, <1>4, ColumnsOfCopies
<1>6. Rectangular(u) /\ Rectangular(t)
  BY <1>1, <1>2, CopyIsTable, TablesAssumption
<1>7. ValuesOf(u, c) = {a[k][c] : k \in DOMAIN a} \ {Null} /\ ValuesOf(t, c) = {b[k][c] : k \in DOMAIN b} \ {Null}
  BY <1>3, <1>4, <1>6, ValuesAreInRows
<1> QED BY <1>1, <1>2, <1>4, <1>5, <1>7
LEMMA CopiesHaveTheSize ==
    ASSUME NEW v \in Versions, NEW proposal
    PROVE  Size(CopyTable(Of(v), proposal)) = Size(Tables[v])
<1>1. PICK u : u = CopyTable(Of(v), proposal)
  OBVIOUS
<1>2. PICK t : t = Tables[v]
  OBVIOUS
<1>3. PICK a : a = RowsOf(u)
  OBVIOUS
<1>4. PICK b : b = RowsOf(t)
  OBVIOUS
<1>5. Rectangular(u) /\ Rectangular(t)
  BY <1>1, <1>2, CopyIsTable, TablesAssumption
<1>6. CopiedFrom(u, t, a, b, proposal)
  BY <1>1, <1>2, <1>3, <1>4, CopiedRows
<1>7. DOMAIN a = DOMAIN b
  BY <1>6 DEF CopiedFrom
<1>8. a \in Seq(CellsOf(u)) /\ b \in Seq(CellsOf(t))
  BY <1>3, <1>4, <1>5, RowsAreCells
<1>9. Len(a) = Len(b)
  BY <1>7, <1>8
<1> QED BY <1>1, <1>2, <1>3, <1>4, <1>5, <1>9, RowsAreCounted

-----------------------------------------------------------------------------
(* A count per column that a copy has on the other columns only. *)
Agree(m, n, P) ==
    /\ DOMAIN m = DOMAIN n
    /\ \A c \in DOMAIN n : IF c \in P THEN ~(m[c] > 0) ELSE m[c] = n[c]
OffColumns(found, P) == {f \in found : Members(f.columns) \cap P = {}}
LEMMA FoundElsewhere ==
    ASSUME NEW d, NEW m, NEW n, NEW severity, NEW confidence, NEW P, Agree(m, n, P)
    PROVE  PerColumn(d, m, severity, confidence) = OffColumns(PerColumn(d, n, severity, confidence), P)
<1> DEFINE Reported(k, c) == Finding(d, <<c>>, k[c], severity, confidence)
<1>1. \A k, c : Reported(k, c).columns = <<c>>
  BY DEF Finding
<1>2. \A c : Members(<<c>>) = {c}
  BY DEF Members
<1>3. \A k, c : Members(Reported(k, c).columns) \cap P = {} <=> c \notin P
  <2> HIDE DEF Reported
  <2> SUFFICES ASSUME NEW k, NEW c PROVE Members(Reported(k, c).columns) \cap P = {} <=> c \notin P
    OBVIOUS
  <2>1. Members(Reported(k, c).columns) = {c}
    BY <1>1, <1>2
  <2> QED BY <2>1
<1>4. \A c : m[c] = n[c] => Reported(m, c) = Reported(n, c)
  OBVIOUS
<1>5. PerColumn(d, m, severity, confidence) = {Reported(m, c) : c \in {x \in DOMAIN m : m[x] > 0}}
  BY DEF PerColumn
<1>6. PerColumn(d, n, severity, confidence) = {Reported(n, c) : c \in {x \in DOMAIN n : n[x] > 0}}
  BY DEF PerColumn
<1> HIDE DEF Reported
<1>7. ASSUME NEW f \in PerColumn(d, m, severity, confidence)
      PROVE  f \in PerColumn(d, n, severity, confidence) /\ Members(f.columns) \cap P = {}
  <2>1. PICK c \in DOMAIN m : m[c] > 0 /\ f = Reported(m, c)
    BY <1>5
  <2>2. c \in DOMAIN n /\ c \notin P /\ m[c] = n[c]
    BY <2>1 DEF Agree
  <2>3. f = Reported(n, c) /\ n[c] > 0
    BY <1>4, <2>1, <2>2
  <2> QED BY <1>3, <1>6, <2>2, <2>3
<1>8. ASSUME NEW f \in PerColumn(d, n, severity, confidence), Members(f.columns) \cap P = {}
      PROVE  f \in PerColumn(d, m, severity, confidence)
  <2>1. PICK c \in DOMAIN n : n[c] > 0 /\ f = Reported(n, c)
    BY <1>6
  <2>2. c \in DOMAIN m /\ m[c] = n[c]
    BY <1>3, <1>8, <2>1 DEF Agree
  <2>3. f = Reported(m, c) /\ m[c] > 0
    BY <1>4, <2>1, <2>2
  <2> QED BY <1>5, <2>2, <2>3
<1> QED BY <1>7, <1>8 DEF OffColumns

(* A count of the cells in V[c], and the cells it may be of. *)
Counts(m, t, D, V) == DOMAIN m = D /\ \A c \in D : m[c] = ColumnCount(t, c, V[c])
Pool(t, u, c) == {Cell(t, i, c) : i \in DOMAIN t.rows} \cup {Cell(u, i, c) : i \in DOMAIN u.rows}
Repaired(proposal, D, V) == \A c \in D \cap proposal.columns : \A x : After(proposal, x) \notin V[c]
LEMMA CountsAgree ==
    ASSUME NEW v \in Versions, NEW proposal, NEW D, D \subseteq ColumnsOf(Tables[v]), NEW V, NEW m, NEW n,
           Counts(m, CopyTable(Of(v), proposal), D, V), Counts(n, Tables[v], D, V), Repaired(proposal, D, V)
    PROVE  Agree(m, n, proposal.columns)
<1>1. PICK u : u = CopyTable(Of(v), proposal)
  OBVIOUS
<1>2. PICK t : t = Tables[v]
  OBVIOUS
<1>3. PICK b : b = RowsOf(t)
  OBVIOUS
<1>4. PICK P : P = proposal.columns
  OBVIOUS
<1>5. ASSUME NEW c \in D
      PROVE  IF c \in P THEN ~(m[c] > 0) ELSE m[c] = n[c]
  <2>1. m[c] = ColumnCount(u, c, V[c]) /\ n[c] = ColumnCount(t, c, V[c])
    BY <1>1, <1>2 DEF Counts
  <2>2. PICK W : W = V[c]
    OBVIOUS
  <2>3. c \in ColumnsOf(Tables[v])
    OBVIOUS
  <2>4. /\ c \notin P => ColumnCount(u, c, W) = ColumnCount(t, c, W)
        /\ c \in P /\ (\A k \in DOMAIN b : After(proposal, b[k][c]) \notin W) => ColumnCount(u, c, W) = 0
    BY <2>3, <1>1, <1>2, <1>3, <1>4, CopiesCount
  <2>5. c \in P => \A x : After(proposal, x) \notin W
    BY <1>4, <2>2 DEF Repaired
  <2>6. c \in P => m[c] = 0
    BY <2>1, <2>2, <2>4, <2>5
  <2> QED BY <2>1, <2>2, <2>4, <2>6
<1>6. DOMAIN m = D /\ DOMAIN n = D
  BY DEF Counts
<1> QED BY <1>4, <1>5, <1>6 DEF Agree
LEMMA CopiesKeepColumns ==
    ASSUME NEW v \in Versions, NEW proposal
    PROVE  /\ CopyTable(Of(v), proposal).cols = Tables[v].cols
           /\ ColumnsOf(CopyTable(Of(v), proposal)) = ColumnsOf(Tables[v])
           /\ StringColumns(CopyTable(Of(v), proposal)) = StringColumns(Tables[v])
           /\ StringColumns(Tables[v]) \subseteq ColumnsOf(Tables[v])
           /\ \A h : /\ Hinted(CopyTable(Of(v), proposal), h) = Hinted(Tables[v], h)
                     /\ Hinted(Tables[v], h) \subseteq ColumnsOf(Tables[v])
<1>1. CopyTable(Of(v), proposal).cols = Tables[v].cols
  BY DEF CopyTable, Of
<1> QED BY <1>1 DEF ColumnsOf, StringColumns, OfKind, Hinted

(* What each repair leaves is not reported. *)
LEMMA TrimmedIsTrimmed == \A x : Trimmed(x) # Null => Trimmed(Trimmed(x)) = Trimmed(x)
<1> SUFFICES ASSUME NEW x, Trimmed(x) # Null PROVE Trimmed(Trimmed(x)) = Trimmed(x)
  OBVIOUS
<1>1. CASE x = Null
  BY <1>1 DEF Trimmed
<1>2. CASE x # Null
  <2>1. PICK y : y = Trimmed(x)
    OBVIOUS
  <2>2. y = [x EXCEPT !.marks = @ \ {"padded"}]
    BY <1>2, <2>1 DEF Trimmed
  <2>3. Trimmed(y) = [y EXCEPT !.marks = @ \ {"padded"}]
    BY <2>1 DEF Trimmed
  <2>4. [y EXCEPT !.marks = @ \ {"padded"}] = y
    BY <2>2
  <2> QED BY <2>1, <2>3, <2>4
<1> QED BY <1>1, <1>2
LEMMA LoweredStaysLow == \A x : x # Null => Lowered(Trimmed(Lowered(x))) = Trimmed(Lowered(x))
<1> SUFFICES ASSUME NEW x, x # Null PROVE Lowered(Trimmed(Lowered(x))) = Trimmed(Lowered(x))
  OBVIOUS
<1>1. PICK y : y = Lowered(x)
  OBVIOUS
<1>2. PICK z : z = Trimmed(y)
  OBVIOUS
<1>3. y = [x EXCEPT !.marks = @ \ {"upper"}]
  BY <1>1 DEF Lowered
<1>4. CASE z = Null
  BY <1>1, <1>2, <1>4 DEF Lowered
<1>5. CASE z # Null /\ y = Null
  BY <1>2, <1>5 DEF Trimmed
<1>6. CASE z # Null /\ y # Null
  <2>1. z = [y EXCEPT !.marks = @ \ {"padded"}]
    BY <1>2, <1>6 DEF Trimmed
  <2>2. Lowered(z) = [z EXCEPT !.marks = @ \ {"upper"}]
    BY <1>6 DEF Lowered
  <2>3. [z EXCEPT !.marks = @ \ {"upper"}] = z
    BY <1>3, <2>1
  <2> QED BY <1>1, <1>2, <2>2, <2>3
<1> QED BY <1>1, <1>2, <1>4, <1>5, <1>6
(* The five detectors that the map of operations knows a repair for. *)
DropsTokens(proposal) == proposal.operation = "token to null"
DropsDates(proposal) == proposal.operation = "set null"
LEMMA TrimClears ==
    ASSUME NEW v \in Versions, NEW proposal, proposal.operation = "trim"
    PROVE  LeadingTrailingWhitespace(CopyTable(Of(v), proposal)) = OffColumns(LeadingTrailingWhitespace(Tables[v]), proposal.columns)
<1>1. PICK u : u = CopyTable(Of(v), proposal)
  OBVIOUS
<1>2. PICK t : t = Tables[v]
  OBVIOUS
<1>3. PICK D : D = StringColumns(t)
  OBVIOUS
<1>4. StringColumns(u) = D /\ D \subseteq ColumnsOf(Tables[v])
  BY <1>1, <1>2, <1>3, CopiesKeepColumns
<1>5. PICK V : V = [c \in D |-> {x \in Pool(t, u, c) : x # Null /\ x # Trimmed(x)}]
  OBVIOUS
<1>6. PICK m : m = [c \in D |-> CountWhere(u, c, LAMBDA x : x # Trimmed(x))]
  OBVIOUS
<1>7. PICK n : n = [c \in D |-> CountWhere(t, c, LAMBDA x : x # Trimmed(x))]
  OBVIOUS
<1>8. Counts(m, u, D, V)
  <2>1. ASSUME NEW c \in D
        PROVE  {i \in DOMAIN u.rows : u.rows[i].cells[c] # Null /\ u.rows[i].cells[c] # Trimmed(u.rows[i].cells[c])}
                  = {i \in DOMAIN u.rows : u.rows[i].cells[c] \in V[c]}
    BY <1>5 DEF Pool, Cell
  <2> QED BY <1>6, <2>1 DEF Counts, ColumnCount, CountWhere, Counted
<1>9. Counts(n, t, D, V)
  <2>1. ASSUME NEW c \in D
        PROVE  {i \in DOMAIN t.rows : t.rows[i].cells[c] # Null /\ t.rows[i].cells[c] # Trimmed(t.rows[i].cells[c])}
                  = {i \in DOMAIN t.rows : t.rows[i].cells[c] \in V[c]}
    BY <1>5 DEF Pool, Cell
  <2> QED BY <1>7, <2>1 DEF Counts, ColumnCount, CountWhere, Counted
<1>10. Repaired(proposal, D, V)
  <2>1. \A x : After(proposal, x) = Trimmed(x)
    BY DEF After, Trimmed
  <2>2. \A x : Trimmed(x) # Null => Trimmed(Trimmed(x)) = Trimmed(x)
    BY TrimmedIsTrimmed
  <2> QED BY <1>5, <2>1, <2>2 DEF Repaired
<1>11. Agree(m, n, proposal.columns)
  BY <1>1, <1>2, <1>4, <1>8, <1>9, <1>10, CountsAgree
<1>12. LeadingTrailingWhitespace(u) = PerColumn("leading_or_trailing_whitespace", m, "low", 98)
  BY <1>4, <1>6 DEF LeadingTrailingWhitespace
<1>13. LeadingTrailingWhitespace(t) = PerColumn("leading_or_trailing_whitespace", n, "low", 98)
  BY <1>3, <1>7 DEF LeadingTrailingWhitespace
<1>14. PerColumn("leading_or_trailing_whitespace", m, "low", 98) = OffColumns(PerColumn("leading_or_trailing_whitespace", n, "low", 98), proposal.columns)
  <2>1. PICK k : k = 98
    OBVIOUS
  <2>2. PerColumn("leading_or_trailing_whitespace", m, "low", k) = OffColumns(PerColumn("leading_or_trailing_whitespace", n, "low", k), proposal.columns)
    BY <1>11, FoundElsewhere
  <2> QED BY <2>1, <2>2
<1> QED BY <1>1, <1>2, <1>12, <1>13, <1>14
LEMMA TokensClear ==
    ASSUME NEW v \in Versions, NEW proposal, DropsTokens(proposal)
    PROVE  SuspiciousMissingToken(CopyTable(Of(v), proposal)) = OffColumns(SuspiciousMissingToken(Tables[v]), proposal.columns)
<1>1. PICK u : u = CopyTable(Of(v), proposal)
  OBVIOUS
<1>2. PICK t : t = Tables[v]
  OBVIOUS
<1>3. PICK D : D = StringColumns(t)
  OBVIOUS
<1>4. StringColumns(u) = D /\ D \subseteq ColumnsOf(Tables[v])
  BY <1>1, <1>2, <1>3, CopiesKeepColumns
<1>5. PICK V : V = [c \in D |-> {x \in Pool(t, u, c) : x # Null /\ Matches(x, "missing")}]
  OBVIOUS
<1>6. PICK m : m = [c \in D |-> CountWhere(u, c, LAMBDA x : Matches(x, "missing"))]
  OBVIOUS
<1>7. PICK n : n = [c \in D |-> CountWhere(t, c, LAMBDA x : Matches(x, "missing"))]
  OBVIOUS
<1>8. Counts(m, u, D, V)
  <2>1. ASSUME NEW c \in D
        PROVE  {i \in DOMAIN u.rows : u.rows[i].cells[c] # Null /\ Matches(u.rows[i].cells[c], "missing")}
                  = {i \in DOMAIN u.rows : u.rows[i].cells[c] \in V[c]}
    BY <1>5 DEF Pool, Cell
  <2> QED BY <1>6, <2>1 DEF Counts, ColumnCount, CountWhere, Counted
<1>9. Counts(n, t, D, V)
  <2>1. ASSUME NEW c \in D
        PROVE  {i \in DOMAIN t.rows : t.rows[i].cells[c] # Null /\ Matches(t.rows[i].cells[c], "missing")}
                  = {i \in DOMAIN t.rows : t.rows[i].cells[c] \in V[c]}
    BY <1>5 DEF Pool, Cell
  <2> QED BY <1>7, <2>1 DEF Counts, ColumnCount, CountWhere, Counted
<1>10. Repaired(proposal, D, V)
  <2>1. \A x : After(proposal, x) = Null \/ (After(proposal, x) = x /\ ~Matches(x, "missing"))
    BY DEF After, DropsTokens
  <2> QED BY <1>5, <2>1 DEF Repaired
<1>11. Agree(m, n, proposal.columns)
  BY <1>1, <1>2, <1>4, <1>8, <1>9, <1>10, CountsAgree
<1>12. PICK A : A = PerColumn("suspicious_missing_token", m, "low", 90)
  OBVIOUS
<1>13. PICK B : B = PerColumn("suspicious_missing_token", n, "low", 90)
  OBVIOUS
<1>14. SuspiciousMissingToken(u) = {f \in A : f.affected * 200 > Size(u)}
  BY <1>4, <1>6, <1>12 DEF SuspiciousMissingToken, Like
<1>15. SuspiciousMissingToken(t) = {f \in B : f.affected * 200 > Size(t)}
  BY <1>3, <1>7, <1>13 DEF SuspiciousMissingToken, Like
<1>16. A = OffColumns(B, proposal.columns)
  <2>1. PerColumn("suspicious_missing_token", m, "low", 90) = OffColumns(PerColumn("suspicious_missing_token", n, "low", 90), proposal.columns)
    <3>1. PICK k : k = 90
      OBVIOUS
    <3>2. PerColumn("suspicious_missing_token", m, "low", k) = OffColumns(PerColumn("suspicious_missing_token", n, "low", k), proposal.columns)
      BY <1>11, FoundElsewhere
    <3> QED BY <3>1, <3>2
  <2> QED BY <1>12, <1>13, <2>1
<1>17. Size(u) = Size(t)
  BY <1>1, <1>2, CopiesHaveTheSize
<1> QED BY <1>1, <1>2, <1>14, <1>15, <1>16, <1>17 DEF OffColumns
LEMMA DatesClear ==
    ASSUME NEW v \in Versions, NEW proposal, DropsDates(proposal)
    PROVE  InvalidDate(CopyTable(Of(v), proposal)) = OffColumns(InvalidDate(Tables[v]), proposal.columns)
<1>1. PICK u : u = CopyTable(Of(v), proposal)
  OBVIOUS
<1>2. PICK t : t = Tables[v]
  OBVIOUS
<1>3. PICK D : D = Hinted(t, "date")
  OBVIOUS
<1>4. Hinted(u, "date") = D /\ D \subseteq ColumnsOf(Tables[v])
  BY <1>1, <1>2, <1>3, CopiesKeepColumns
<1>5. PICK V : V = [c \in D |-> {x \in Pool(t, u, c) : x # Null /\ ~Matches(x, "iso")}]
  OBVIOUS
<1>6. PICK m : m = [c \in D |-> CountWhere(u, c, LAMBDA x : ~Matches(x, "iso"))]
  OBVIOUS
<1>7. PICK n : n = [c \in D |-> CountWhere(t, c, LAMBDA x : ~Matches(x, "iso"))]
  OBVIOUS
<1>8. Counts(m, u, D, V)
  <2>1. ASSUME NEW c \in D
        PROVE  {i \in DOMAIN u.rows : u.rows[i].cells[c] # Null /\ ~Matches(u.rows[i].cells[c], "iso")}
                  = {i \in DOMAIN u.rows : u.rows[i].cells[c] \in V[c]}
    BY <1>5 DEF Pool, Cell
  <2> QED BY <1>6, <2>1 DEF Counts, ColumnCount, CountWhere, Counted
<1>9. Counts(n, t, D, V)
  <2>1. ASSUME NEW c \in D
        PROVE  {i \in DOMAIN t.rows : t.rows[i].cells[c] # Null /\ ~Matches(t.rows[i].cells[c], "iso")}
                  = {i \in DOMAIN t.rows : t.rows[i].cells[c] \in V[c]}
    BY <1>5 DEF Pool, Cell
  <2> QED BY <1>7, <2>1 DEF Counts, ColumnCount, CountWhere, Counted
<1>10. Repaired(proposal, D, V)
  <2>1. \A x : After(proposal, x) = Null \/ (After(proposal, x) = x /\ Matches(x, "iso") /\ Matches(x, "calendar"))
    BY DEF After, DropsDates
  <2> QED BY <1>5, <2>1 DEF Repaired
<1>11. Agree(m, n, proposal.columns)
  BY <1>1, <1>2, <1>4, <1>8, <1>9, <1>10, CountsAgree
<1>12. InvalidDate(u) = PerColumn("invalid_date", m, "medium", 90)
  BY <1>4, <1>6 DEF InvalidDate, Unlike
<1>13. InvalidDate(t) = PerColumn("invalid_date", n, "medium", 90)
  BY <1>3, <1>7 DEF InvalidDate, Unlike
<1>14. PerColumn("invalid_date", m, "medium", 90) = OffColumns(PerColumn("invalid_date", n, "medium", 90), proposal.columns)
  <2>1. PICK k : k = 90
    OBVIOUS
  <2>2. PerColumn("invalid_date", m, "medium", k) = OffColumns(PerColumn("invalid_date", n, "medium", k), proposal.columns)
    BY <1>11, FoundElsewhere
  <2> QED BY <2>1, <2>2
<1> QED BY <1>1, <1>2, <1>12, <1>13, <1>14
LEMMA DaysClear ==
    ASSUME NEW v \in Versions, NEW proposal, DropsDates(proposal)
    PROVE  ImpossibleDate(CopyTable(Of(v), proposal)) = OffColumns(ImpossibleDate(Tables[v]), proposal.columns)
<1>1. PICK u : u = CopyTable(Of(v), proposal)
  OBVIOUS
<1>2. PICK t : t = Tables[v]
  OBVIOUS
<1>3. PICK D : D = Hinted(t, "date")
  OBVIOUS
<1>4. Hinted(u, "date") = D /\ D \subseteq ColumnsOf(Tables[v])
  BY <1>1, <1>2, <1>3, CopiesKeepColumns
<1>5. PICK V : V = [c \in D |-> {x \in Pool(t, u, c) : x # Null /\ (Matches(x, "iso") /\ ~Matches(x, "calendar"))}]
  OBVIOUS
<1>6. PICK m : m = [c \in D |-> CountWhere(u, c, LAMBDA x : (Matches(x, "iso") /\ ~Matches(x, "calendar")))]
  OBVIOUS
<1>7. PICK n : n = [c \in D |-> CountWhere(t, c, LAMBDA x : (Matches(x, "iso") /\ ~Matches(x, "calendar")))]
  OBVIOUS
<1>8. Counts(m, u, D, V)
  <2>1. ASSUME NEW c \in D
        PROVE  {i \in DOMAIN u.rows : u.rows[i].cells[c] # Null /\ (Matches(u.rows[i].cells[c], "iso") /\ ~Matches(u.rows[i].cells[c], "calendar"))}
                  = {i \in DOMAIN u.rows : u.rows[i].cells[c] \in V[c]}
    BY <1>5 DEF Pool, Cell
  <2> QED BY <1>6, <2>1 DEF Counts, ColumnCount, CountWhere, Counted
<1>9. Counts(n, t, D, V)
  <2>1. ASSUME NEW c \in D
        PROVE  {i \in DOMAIN t.rows : t.rows[i].cells[c] # Null /\ (Matches(t.rows[i].cells[c], "iso") /\ ~Matches(t.rows[i].cells[c], "calendar"))}
                  = {i \in DOMAIN t.rows : t.rows[i].cells[c] \in V[c]}
    BY <1>5 DEF Pool, Cell
  <2> QED BY <1>7, <2>1 DEF Counts, ColumnCount, CountWhere, Counted
<1>10. Repaired(proposal, D, V)
  <2>1. \A x : After(proposal, x) = Null \/ (After(proposal, x) = x /\ Matches(x, "iso") /\ Matches(x, "calendar"))
    BY DEF After, DropsDates
  <2> QED BY <1>5, <2>1 DEF Repaired
<1>11. Agree(m, n, proposal.columns)
  BY <1>1, <1>2, <1>4, <1>8, <1>9, <1>10, CountsAgree
<1>12. ImpossibleDate(u) = PerColumn("impossible_date", m, "high", 95)
  BY <1>4, <1>6 DEF ImpossibleDate
<1>13. ImpossibleDate(t) = PerColumn("impossible_date", n, "high", 95)
  BY <1>3, <1>7 DEF ImpossibleDate
<1>14. PerColumn("impossible_date", m, "high", 95) = OffColumns(PerColumn("impossible_date", n, "high", 95), proposal.columns)
  <2>1. PICK k : k = 95
    OBVIOUS
  <2>2. PerColumn("impossible_date", m, "high", k) = OffColumns(PerColumn("impossible_date", n, "high", k), proposal.columns)
    BY <1>11, FoundElsewhere
  <2> QED BY <2>1, <2>2
<1> QED BY <1>1, <1>2, <1>12, <1>13, <1>14
(* The groups of values that differ in case only, and how often they occur. *)
FormsOf(g) == {Trimmed(x) : x \in g}
MixedGroups(X) ==
    {g \in {{x \in X : Lowered(Trimmed(x)) = k} : k \in {Lowered(Trimmed(x)) : x \in X}} :
        Cardinality(FormsOf(g)) >= 2}
GroupCounts(t, c) == [g \in MixedGroups(ValuesOf(t, c)) |-> InGroup(t, c, g)]
LEMMA CaseIsCounted ==
    \A t : InconsistentCase(t) =
              PerColumn("inconsistent_case", [c \in StringColumns(t) |-> SumFunction(GroupCounts(t, c))], "low", 90)
  BY DEF InconsistentCase, Together, GroupCounts, MixedGroups, FormsOf, Groups
LEMMA LoweredIsOneForm ==
    ASSUME NEW X, \A x \in X : Lowered(Trimmed(x)) = Trimmed(x)
    PROVE  MixedGroups(X) = {}
<1> SUFFICES ASSUME NEW k, NEW g, g = {x \in X : Lowered(Trimmed(x)) = k}, Cardinality(FormsOf(g)) >= 2
             PROVE  FALSE
  BY DEF MixedGroups
<1>1. \A x \in g : Trimmed(x) = k
  OBVIOUS
<1>2. FormsOf(g) \subseteq {k}
  BY <1>1 DEF FormsOf
<1>3. FormsOf(g) = {} \/ FormsOf(g) = {k}
  BY <1>2
<1>4. Cardinality({}) = 0 /\ Cardinality({k}) = 1
  BY FS_EmptySet, FS_Singleton
<1> QED BY <1>3, <1>4
LEMMA LowerClears ==
    ASSUME NEW v \in Versions, NEW proposal, proposal.operation = "lower"
    PROVE  InconsistentCase(CopyTable(Of(v), proposal)) = OffColumns(InconsistentCase(Tables[v]), proposal.columns)
<1>1. PICK u : u = CopyTable(Of(v), proposal)
  OBVIOUS
<1>2. PICK t : t = Tables[v]
  OBVIOUS
<1>3. PICK D : D = StringColumns(t)
  OBVIOUS
<1>4. StringColumns(u) = D /\ D \subseteq ColumnsOf(Tables[v])
  BY <1>1, <1>2, <1>3, CopiesKeepColumns
<1>5. PICK m : m = [c \in D |-> SumFunction(GroupCounts(u, c))]
  OBVIOUS
<1>6. PICK n : n = [c \in D |-> SumFunction(GroupCounts(t, c))]
  OBVIOUS
<1>7. PICK b : b = RowsOf(t)
  OBVIOUS
<1>8. ASSUME NEW c \in D, c \notin proposal.columns
      PROVE  m[c] = n[c]
  <2>1. c \in ColumnsOf(Tables[v])
    BY <1>4
  <2>2. ValuesOf(u, c) = ValuesOf(t, c)
    BY <1>1, <1>2, <1>8, <2>1, CopiesHoldValues
  <2>3. PICK X : X = MixedGroups(ValuesOf(t, c))
    OBVIOUS
  <2>4. ASSUME NEW g \in X
        PROVE  InGroup(u, c, g) = InGroup(t, c, g)
    <3>1. PICK W : W = g \ {Null}
      OBVIOUS
    <3>2. \A y : InGroup(y, c, g) = ColumnCount(y, c, W)
      <4>1. \A y : {i \in DOMAIN y.rows : y.rows[i].cells[c] # Null /\ y.rows[i].cells[c] \in g}
                      = {i \in DOMAIN y.rows : y.rows[i].cells[c] \in W}
        BY <3>1
      <4> QED BY <4>1 DEF InGroup, CountWhere, Counted, ColumnCount
    <3>3. ColumnCount(u, c, W) = ColumnCount(t, c, W)
      BY <1>1, <1>2, <1>8, <2>1, CopiesCount
    <3> QED BY <3>2, <3>3
  <2>5. GroupCounts(u, c) = GroupCounts(t, c)
    BY <2>2, <2>3, <2>4 DEF GroupCounts
  <2> QED BY <1>5, <1>6, <2>5
<1>9. ASSUME NEW c \in D, c \in proposal.columns
      PROVE  m[c] = 0
  <2>1. c \in ColumnsOf(Tables[v])
    BY <1>4
  <2>2. PICK X : X = ValuesOf(u, c)
    OBVIOUS
  <2>3. ASSUME NEW x \in X
        PROVE  Lowered(Trimmed(x)) = Trimmed(x)
    <3>1. x # Null
      BY <2>2 DEF ValuesOf
    <3>2. PICK k \in DOMAIN b : x = After(proposal, b[k][c])
      BY <1>1, <1>2, <1>7, <1>9, <2>1, <2>2, CopiesHoldValues
    <3>3. PICK w : w = b[k][c]
      OBVIOUS
    <3>4. w # Null /\ x = Lowered(w)
      BY <3>1, <3>2, <3>3 DEF After
    <3> QED BY <3>4, LoweredStaysLow
  <2>4. MixedGroups(X) = {}
    BY <2>3, LoweredIsOneForm
  <2>5. DOMAIN GroupCounts(u, c) = {}
    BY <2>2, <2>4 DEF GroupCounts
  <2> QED BY <1>5, <2>5, SumOfNone
<1>10. Agree(m, n, proposal.columns)
  <2>1. \A c \in D : IF c \in proposal.columns THEN ~(m[c] > 0) ELSE m[c] = n[c]
    BY <1>8, <1>9
  <2>2. DOMAIN m = D /\ DOMAIN n = D
    BY <1>5, <1>6
  <2> QED BY <2>1, <2>2 DEF Agree
<1>11. InconsistentCase(u) = PerColumn("inconsistent_case", m, "low", 90)
  BY <1>4, <1>5, CaseIsCounted
<1>12. InconsistentCase(t) = PerColumn("inconsistent_case", n, "low", 90)
  BY <1>3, <1>6, CaseIsCounted
<1>13. PerColumn("inconsistent_case", m, "low", 90) = OffColumns(PerColumn("inconsistent_case", n, "low", 90), proposal.columns)
  BY <1>10, FoundElsewhere
<1> QED BY <1>1, <1>2, <1>11, <1>12, <1>13

(* A repair clears what its detector reported on its columns, and that only. *)
LEMMA DetectorsAgree ==
    ASSUME NEW d \in DOMAIN ProposalMap, NEW t, NEW u, NEW P,
           \/ d = "leading_or_trailing_whitespace" /\ LeadingTrailingWhitespace(u) = OffColumns(LeadingTrailingWhitespace(t), P)
           \/ d = "inconsistent_case" /\ InconsistentCase(u) = OffColumns(InconsistentCase(t), P)
           \/ d = "suspicious_missing_token" /\ SuspiciousMissingToken(u) = OffColumns(SuspiciousMissingToken(t), P)
           \/ d = "invalid_date" /\ InvalidDate(u) = OffColumns(InvalidDate(t), P)
           \/ d = "impossible_date" /\ ImpossibleDate(u) = OffColumns(ImpossibleDate(t), P)
    PROVE  Detect(d, u) = OffColumns(Detect(d, t), P)
<1>1. CASE d = "leading_or_trailing_whitespace" /\ LeadingTrailingWhitespace(u) = OffColumns(LeadingTrailingWhitespace(t), P)
  BY <1>1 DEF Detect
<1>2. CASE d = "inconsistent_case" /\ InconsistentCase(u) = OffColumns(InconsistentCase(t), P)
  BY <1>2 DEF Detect
<1>3. CASE d = "suspicious_missing_token" /\ SuspiciousMissingToken(u) = OffColumns(SuspiciousMissingToken(t), P)
  BY <1>3 DEF Detect
<1>4. CASE d = "invalid_date" /\ InvalidDate(u) = OffColumns(InvalidDate(t), P)
  BY <1>4 DEF Detect
<1>5. CASE d = "impossible_date" /\ ImpossibleDate(u) = OffColumns(ImpossibleDate(t), P)
  BY <1>5 DEF Detect
<1> QED BY <1>1, <1>2, <1>3, <1>4, <1>5
LEMMA RepairClears ==
    ASSUME NEW v \in Versions, NEW proposal, Meant(proposal), proposal.operation # "clip"
    PROVE  RuleFailures(proposal.detector, CopyTable(Of(v), proposal))
             = Elsewhere(proposal, RuleFailures(proposal.detector, Tables[v]))
<1>1. PICK u : u = CopyTable(Of(v), proposal)
  OBVIOUS
<1>2. PICK t : t = Tables[v]
  OBVIOUS
<1>3. PICK d \in DOMAIN ProposalMap : d = proposal.detector /\ proposal.operation = ProposalMap[d]
  BY DEF Meant
<1>4. Detect(d, u) = OffColumns(Detect(d, t), proposal.columns)
  <2>1. CASE d = "leading_or_trailing_whitespace"
    <3>1. proposal.operation = "trim"
      BY <1>3, <2>1 DEF ProposalMap
    <3> QED BY <1>1, <1>2, <2>1, <3>1, TrimClears, DetectorsAgree
  <2>2. CASE d = "inconsistent_case"
    <3>1. proposal.operation = "lower"
      BY <1>3, <2>2 DEF ProposalMap
    <3> QED BY <1>1, <1>2, <2>2, <3>1, LowerClears, DetectorsAgree
  <2>3. CASE d = "suspicious_missing_token"
    <3>1. ProposalMap["suspicious_missing_token"] = "token to null"
      BY DEF ProposalMap
    <3>2. DropsTokens(proposal)
      BY <1>3, <2>3, <3>1 DEF DropsTokens
    <3> QED BY <1>1, <1>2, <2>3, <3>2, TokensClear, DetectorsAgree
  <2>4. CASE d = "invalid_date"
    <3>1. ProposalMap["invalid_date"] = "set null"
      BY DEF ProposalMap
    <3>2. DropsDates(proposal)
      BY <1>3, <2>4, <3>1 DEF DropsDates
    <3> QED BY <1>1, <1>2, <2>4, <3>2, DatesClear, DetectorsAgree
  <2>5. CASE d = "impossible_date"
    <3>1. ProposalMap["impossible_date"] = "set null"
      BY DEF ProposalMap
    <3>2. DropsDates(proposal)
      BY <1>3, <2>5, <3>1 DEF DropsDates
    <3> QED BY <1>1, <1>2, <2>5, <3>2, DaysClear, DetectorsAgree
  <2> QED BY <2>1, <2>2, <2>3, <2>4, <2>5 DEF ProposalMap
<1>5. Supports(d, u) <=> Supports(d, t)
  <2>1. ColumnsOf(u) = ColumnsOf(t) /\ StringColumns(u) = StringColumns(t) /\ Hinted(u, "date") = Hinted(t, "date")
    BY <1>1, <1>2, CopiesKeepColumns
  <2>2. d \in {"suspicious_missing_token"} \/ d \in {"invalid_date", "impossible_date"}
        \/ d \in {"leading_or_trailing_whitespace", "inconsistent_case"}
    BY DEF ProposalMap
  <2> QED BY <2>1, <2>2 DEF Supports
<1>6. RuleFailures(d, u) = OffColumns(RuleFailures(d, t), proposal.columns)
  BY <1>4, <1>5 DEF RuleFailures, OffColumns
<1> QED BY <1>1, <1>2, <1>3, <1>6 DEF Elsewhere, OffColumns

-----------------------------------------------------------------------------
(* A preview counts the cells that the repair changes. *)
LEMMA ColumnsAreFinite ==
    ASSUME NEW t, Rectangular(t)
    PROVE  IsFiniteSet(ColumnsOf(t))
<1>1. PICK s : s = t.cols
  OBVIOUS
<1>2. s \in Seq(ColumnsOf(t))
  BY <1>1 DEF Rectangular
<1>3. DOMAIN s = 1 .. Len(s) /\ Len(s) \in Nat
  BY <1>2
<1>4. PICK S : S = DOMAIN s
  OBVIOUS
<1>5. IsFiniteSet(S)
  <2>1. 1 \in Int /\ Len(s) \in Int
    BY <1>3
  <2> QED BY <1>3, <1>4, <2>1, FS_Interval
<1>6. ColumnsOf(t) = {s[i] : i \in S}
  BY <1>1, <1>4 DEF ColumnsOf
<1> QED BY <1>5, <1>6, FiniteImage
InColumn(K, c) == {<<k, c>> : k \in K}
LEMMA PairsAreCounted ==
    ASSUME NEW K, IsFiniteSet(K), NEW c
    PROVE  IsFiniteSet(InColumn(K, c)) /\ Cardinality(InColumn(K, c)) = Cardinality(K)
<1>1. PICK X : X = InColumn(K, c)
  OBVIOUS
<1>2. PICK h : h = [k \in K |-> <<k, c>>]
  OBVIOUS
<1>3. h \in Bijection(K, X)
  BY <1>1, <1>2 DEF InColumn, Bijection, Injection, Surjection, IsInjective
<1>4. ExistsBijection(K, X)
  BY <1>3 DEF ExistsBijection
<1> QED BY <1>1, <1>4, FS_Bijection
LEMMA AffectedCellsChange ==
    ASSUME NEW v \in Versions, NEW proposal, ColumnsFit(proposal, v)
    PROVE  Affected(proposal, Tables[v]) = Cardinality(Changing(proposal, v))
<1>1. PICK t : t = Tables[v]
  OBVIOUS
<1>2. PICK b : b = RowsOf(t)
  OBVIOUS
<1>3. PICK P : P = proposal.columns
  OBVIOUS
<1>4. Rectangular(t)
  BY <1>1, TablesAssumption
<1>5. IsFiniteSet(P)
  <2>1. P \in SUBSET ColumnsOf(t) /\ IsFiniteSet(ColumnsOf(t))
    BY <1>1, <1>3, <1>4, ColumnsAreFinite DEF ColumnsFit
  <2> QED BY <2>1, FS_Subset
<1>6. b \in Seq(CellsOf(t))
  BY <1>2, <1>4, RowsAreCells
<1>7. PICK V : V = [c \in P |-> {x \in {r[c] : r \in CellsOf(t)} : x # Null /\ x # After(proposal, x)}]
  OBVIOUS
<1>8. PICK K : K = [c \in P |-> Places(t, c, V[c])]
  OBVIOUS
<1>9. PICK F : F = [c \in P |-> {<<k, c>> : k \in K[c]}]
  OBVIOUS
<1>10. PICK h : h = [c \in P |-> CountWhere(t, c, LAMBDA x : x # After(proposal, x))]
  OBVIOUS
<1>11. ASSUME NEW c \in P
       PROVE  IsFiniteSet(F[c]) /\ h[c] = Cardinality(F[c])
  <2>1. PICK W : W = V[c]
    OBVIOUS
  <2>2. {i \in DOMAIN t.rows : t.rows[i].cells[c] # Null /\ t.rows[i].cells[c] # After(proposal, t.rows[i].cells[c])}
           = {i \in DOMAIN t.rows : t.rows[i].cells[c] \in W}
    <3>1. \A i \in DOMAIN t.rows : t.rows[i].cells \in CellsOf(t)
      BY DEF CellsOf, Members
    <3> QED BY <1>7, <2>1, <3>1
  <2>3. h[c] = ColumnCount(t, c, W)
    BY <1>10, <2>2 DEF ColumnCount, CountWhere, Counted
  <2>4. h[c] = Cardinality(K[c]) /\ IsFiniteSet(K[c])
    <3>1. K[c] = Places(t, c, W)
      BY <1>8, <2>1
    <3> QED BY <1>4, <2>3, <3>1, ColumnIsCounted
  <2>5. F[c] = InColumn(K[c], c)
    BY <1>9 DEF InColumn
  <2> QED BY <2>4, <2>5, PairsAreCounted
<1>12. Parts(F, h, P)
  <2>1. \A c, e \in P : c # e => F[c] \cap F[e] = {}
    BY <1>9
  <2>2. h = [c \in P |-> h[c]]
    BY <1>10
  <2> QED BY <1>11, <2>1, <2>2 DEF Parts
<1>13. SumFunction(h) = Cardinality(UNION {F[c] : c \in P})
  BY <1>5, <1>12, SumOfSizes
<1>14. ASSUME NEW c \in P, NEW k \in DOMAIN b
       PROVE  k \in K[c] <=> b[k][c] # After(proposal, b[k][c])
  <2>1. b[k] \in CellsOf(t)
    BY <1>6
  <2>2. PICK x : x = b[k][c]
    OBVIOUS
  <2>3. k \in K[c] <=> x \in V[c]
    BY <1>2, <1>8, <2>2 DEF Places
  <2>4. x \in V[c] <=> x # Null /\ x # After(proposal, x)
    BY <1>7, <2>1, <2>2
  <2>5. x = Null => x = After(proposal, x)
    BY DEF After
  <2> QED BY <2>2, <2>3, <2>4, <2>5
<1>15. \A c \in P : K[c] \subseteq DOMAIN b
  BY <1>2, <1>8 DEF Places
<1>16. Changing(proposal, v) = {x \in (DOMAIN b) \X P : b[x[1]][x[2]] # After(proposal, b[x[1]][x[2]])}
  BY <1>1, <1>2, <1>3 DEF Changing
<1>17. ASSUME NEW x
       PROVE  x \in Changing(proposal, v) <=> x \in UNION {F[c] : c \in P}
  <2>1. ASSUME x \in Changing(proposal, v)
        PROVE  x \in UNION {F[c] : c \in P}
    <3>1. PICK k \in DOMAIN b, c \in P : x = <<k, c>> /\ b[k][c] # After(proposal, b[k][c])
      <4>1. x \in (DOMAIN b) \X P /\ b[x[1]][x[2]] # After(proposal, b[x[1]][x[2]])
        BY <1>16, <2>1
      <4> QED BY <4>1
    <3>2. c \in P /\ k \in K[c]
      BY <1>14, <3>1
    <3>3. x \in F[c]
      BY <1>9, <3>1, <3>2
    <3> QED BY <3>2, <3>3
  <2>2. ASSUME x \in UNION {F[c] : c \in P}
        PROVE  x \in Changing(proposal, v)
    <3>1. PICK c \in P : x \in F[c]
      BY <2>2
    <3>2. PICK k \in K[c] : x = <<k, c>>
      BY <1>9, <3>1
    <3>3. k \in DOMAIN b /\ b[k][c] # After(proposal, b[k][c])
      BY <1>14, <1>15, <3>2
    <3>4. x \in (DOMAIN b) \X P /\ x[1] = k /\ x[2] = c
      BY <3>1, <3>2, <3>3
    <3> QED BY <1>16, <3>3, <3>4
  <2> QED BY <2>1, <2>2
<1>18. Changing(proposal, v) = UNION {F[c] : c \in P}
  BY <1>17
<1>19. Affected(proposal, t) = SumFunction(h)
  BY <1>3, <1>10 DEF Affected
<1> QED BY <1>1, <1>13, <1>18, <1>19

(* It tells how many nulls the copy has more in each column of the repair. *)
LEMMA NullsAreCounted == \A t, c : NullsOf(t, c) = ColumnCount(t, c, {Null})
  BY DEF NullsOf, Counted, ColumnCount
LEMMA ProjectionsHaveTheNulls ==
    ASSUME NEW v \in Versions, NEW proposal, NEW c \in ColumnsOf(Tables[v])
    PROVE  NullsOf(Projection(proposal, v), c) = NullsOf(CopyTable(Of(v), proposal), c)
<1>1. PICK u : u = CopyTable(Of(v), proposal)
  OBVIOUS
<1>2. PICK w : w = Projection(proposal, v)
  OBVIOUS
<1>3. PICK t : t = Tables[v]
  OBVIOUS
<1>4. PICK a : a = RowsOf(u)
  OBVIOUS
<1>5. PICK h : h = RowsOf(w)
  OBVIOUS
<1>6. PICK b : b = RowsOf(t)
  OBVIOUS
<1>7. /\ DOMAIN a = DOMAIN b
      /\ \A k \in DOMAIN b : a[k][c] = IF c \in proposal.columns THEN After(proposal, b[k][c]) ELSE b[k][c]
  BY <1>1, <1>3, <1>4, <1>6, ColumnsOfCopies
<1>8. PICK g : g = Rewriting(t, proposal)
  OBVIOUS
<1>9. h = Through(g, b)
  BY <1>2, <1>3, <1>5, <1>6, <1>8, ProjectedRows
<1>10. Rectangular(t) /\ Rectangular(u) /\ Rectangular(w)
  BY <1>1, <1>2, <1>3, CopyIsTable, ProjectionIsTable, TablesAssumption
<1>11. b \in Seq(CellsOf(t))
  BY <1>6, <1>10, RowsAreCells
<1>12. ASSUME NEW k \in DOMAIN b
       PROVE  h[k][c] = a[k][c]
  <2>1. b[k] \in CellsOf(t)
    BY <1>11
  <2>2. DOMAIN b[k] = ColumnsOf(t)
    <3>1. PICK e \in Members(t.rows) : b[k] = e.cells
      BY <2>1 DEF CellsOf
    <3>2. e.cells = [x \in ColumnsOf(t) |-> e.cells[x]]
      BY <1>10, <3>1 DEF Rectangular
    <3> QED BY <3>1, <3>2
  <2>3. h[k] = g[b[k]]
    BY <1>9 DEF Through
  <2>4. h[k] = [x \in ColumnsOf(t) |-> IF x \in proposal.columns THEN After(proposal, b[k][x]) ELSE b[k][x]]
    BY <1>8, <2>1, <2>2, <2>3 DEF Rewriting
  <2>5. c \in ColumnsOf(t)
    BY <1>3
  <2> QED BY <1>7, <2>4, <2>5
<1>13. DOMAIN h = DOMAIN b
  BY <1>9 DEF Through
<1>14. Places(w, c, {Null}) = Places(u, c, {Null})
  BY <1>4, <1>5, <1>7, <1>12, <1>13 DEF Places
<1> QED BY <1>1, <1>2, <1>10, <1>14, ColumnIsCounted, NullsAreCounted
LEMMA StatsAreOfTheCopy ==
    ASSUME NEW v \in Versions, NEW proposal, ColumnsFit(proposal, v)
    PROVE  /\ DOMAIN Stats(proposal, Tables[v]) = proposal.columns
           /\ \A c \in proposal.columns :
                 Stats(proposal, Tables[v])[c][1] = NullsOf(CopyTable(Of(v), proposal), c) - NullsOf(Tables[v], c)
<1>1. PICK w : w = Projection(proposal, v)
  OBVIOUS
<1>2. Stats(proposal, Tables[v]) =
        [c \in proposal.columns |-> <<NullsOf(w, c) - NullsOf(Tables[v], c),
                                      Cardinality(ValuesOf(w, c)) - Cardinality(ValuesOf(Tables[v], c))>>]
  BY <1>1 DEF Stats, Projection
<1>3. ASSUME NEW c \in proposal.columns
      PROVE  NullsOf(w, c) = NullsOf(CopyTable(Of(v), proposal), c)
  <2>1. c \in ColumnsOf(Tables[v])
    BY DEF ColumnsFit
  <2> QED BY <1>1, <2>1, ProjectionsHaveTheNulls
<1> QED BY <1>2, <1>3
(* A proposal is made of the first detector that is in the list. *)
LEMMA RegistryIsList == DOMAIN Registry \subseteq Nat
<1> DEFINE last == <<"foreign_key_violation", "model_outlier">>
<1>1. PICK S : S = Members(Completeness) \cup Members(Uniqueness) \cup Members(Validity) \cup Members(last)
  OBVIOUS
<1>2. Completeness \in Seq(S)
  <2>1. DOMAIN Completeness = 1 .. 6 /\ Completeness = [i \in 1 .. 6 |-> Completeness[i]]
    BY DEF Completeness
  <2>2. \A i \in 1 .. 6 : Completeness[i] \in S
    BY <1>1, <2>1 DEF Members
  <2> QED BY <2>1, <2>2, SeqDef
<1>3. Uniqueness \in Seq(S)
  <2>1. DOMAIN Uniqueness = 1 .. 2 /\ Uniqueness = [i \in 1 .. 2 |-> Uniqueness[i]]
    BY DEF Uniqueness
  <2>2. \A i \in 1 .. 2 : Uniqueness[i] \in S
    BY <1>1, <2>1 DEF Members
  <2> QED BY <2>1, <2>2, SeqDef
<1>4. Validity \in Seq(S)
  <2>1. DOMAIN Validity = 1 .. 29 /\ Validity = [i \in 1 .. 29 |-> Validity[i]]
    BY DEF Validity
  <2>2. \A i \in 1 .. 29 : Validity[i] \in S
    BY <1>1, <2>1 DEF Members
  <2> QED BY <2>1, <2>2, SeqDef
<1>5. last \in Seq(S)
  <2>1. DOMAIN last = 1 .. 2 /\ last = [i \in 1 .. 2 |-> last[i]]
    OBVIOUS
  <2> HIDE DEF last
  <2>2. \A i \in 1 .. 2 : last[i] \in S
    BY <1>1, <2>1 DEF Members
  <2> QED BY <2>1, <2>2, SeqDef
<1>6. Registry = ((Completeness \o Uniqueness) \o Validity) \o last
  BY DEF Registry
<1> HIDE DEF last
<1>7. Registry \in Seq(S)
  BY <1>2, <1>3, <1>4, <1>5, <1>6
<1> QED BY <1>7
(* What a repair proposes is what the map of operations gives. *)
LEMMA ProposalsAreMeant ==
    ASSUME NEW x, ProposalOf(x) # NoProposal
    PROVE  Meant(ProposalOf(x))
<1> DEFINE clip == x.bounds # NoBounds /\ Cardinality(x.id.columns) = 1
           usable == {i \in DOMAIN Registry :
                        /\ Registry[i] \in x.detectors
                        /\ Registry[i] \in DOMAIN ProposalMap \/ (clip /\ Registry[i] \in ClipTypes)}
           first == Registry[Min(usable)]
           operation1 == IF first \in ClipTypes THEN "clip" ELSE ProposalMap[first]
           y == [detector |-> first, columns |-> x.id.columns, bounds |-> x.bounds, operation |-> operation1]
<1>1. usable # {} /\ ProposalOf(x) = y
  BY DEF ProposalOf
<1>2. usable \in SUBSET Nat
  BY RegistryIsList
<1>3. PICK k \in usable : \A i \in usable : k <= i
  BY <1>1, <1>2, LeastOf
<1>4. Min(usable) \in usable
  BY <1>3 DEF Min
<1>5. first \in DOMAIN ProposalMap \/ first \in ClipTypes
  BY <1>4
<1>6. y.detector = first /\ y.operation = operation1
  OBVIOUS
<1> HIDE DEF y, first
<1> QED BY <1>1, <1>5, <1>6 DEF Meant

-----------------------------------------------------------------------------
(* What a preview tells is of one version, unless something changed while it was made, and *)
(* what a process holds on the way there is of the version it opened.                      *)
Shows(t, v) ==
    /\ t.copy = Of(v) /\ ColumnsFit(t.proposal, v) /\ Meant(t.proposal)
    /\ t.before = Cardinality(RuleFailures(t.proposal.detector, Tables[v]))
    /\ t.after = Cardinality(RuleFailures(t.proposal.detector, CopyTable(Of(v), t.proposal)))
    /\ t.affected = Affected(t.proposal, Tables[v]) /\ t.stats = Stats(t.proposal, Tables[v])
    /\ t.examples = Examples(t.proposal, v)
Honest(t) == t.quiet => \E v \in Versions : Shows(t, v)
Frank(os) == \A k \in DOMAIN os : os[k].call = "preview" /\ os[k].what = "done" => Honest(os[k].told)
Previewing == {"rules", "stats", "project", "carry", "report"}
Accurate(r) ==
    /\ r.stage \in Previewing => r.affected = Affected(r.proposal, Tables[r.opened])
    /\ r.command.calls[r.call] = "preview" =>
         /\ r.stage \in Previewing \ {"rules"} =>
                r.before = Cardinality(RuleFailures(r.proposal.detector, Tables[r.opened]))
         /\ r.stage \in {"project", "carry", "report"} => r.stats = Stats(r.proposal, Tables[r.opened])
Careful(r, c) ==
    /\ r.stage \in OnSource \ {"propose"} => Meant(r.proposal)
    /\ r.stage \in OnRun => Meant(r.row.proposal)
    /\ r.since = c => Accurate(r)
RowsMeant == \A i \in DOMAIN runs : Meant(runs[i].proposal)
HonestInv ==
    /\ AnswersInv /\ RowsMeant
    /\ \A p \in Procs : Busy(p) => Careful(proc[p], changes) /\ Frank(proc[p].outcomes)
    /\ \A k \in DOMAIN answers : Frank(answers[k].outcomes)

LEMMA OpenIsCareful == ASSUME NEW r, r.stage \in {"open", "propose"} PROVE \A c : Careful(r, c)
  BY DEF Careful, Accurate, Previewing, OnSource, OnRun
LEMMA FrankIsKept ==
    ASSUME NEW S, NEW os \in Seq(S), Frank(os), NEW o, o.call = "preview" /\ o.what = "done" => Honest(o.told)
    PROVE  Frank(Append(os, o))
  BY Appended DEF Frank
LEMMA HonestKeeps ==
    ASSUME HonestInv, AnswersInv', RowsMeant', NEW p \in Procs, NEW r, proc' = [proc EXCEPT ![p] = r],
           r # Idle => Careful(r, changes') /\ Frank(r.outcomes), changes' = changes \/ changes' = changes + 1,
           answers' = answers \/ \E a : answers' = Append(answers, a) /\ Frank(a.outcomes)
    PROVE  HonestInv'
<1>0. RepairInv /\ changes \in Nat
  BY DEF HonestInv, AnswersInv, RepairInv
<1>1. \A q \in Procs : proc'[q] = IF q = p THEN r ELSE proc[q]
  BY <1>0 DEF RepairInv, ProcsInv
<1>2. ASSUME NEW q \in Procs, proc'[q] # Idle
      PROVE  Careful(proc'[q], changes') /\ Frank(proc'[q].outcomes)
  <2>1. CASE q = p
    BY <1>1, <1>2, <2>1
  <2>2. CASE q # p
    <3>1. Busy(q) /\ proc'[q] = proc[q]
      BY <1>1, <1>2, <2>2 DEF Busy
    <3>2. Careful(proc[q], changes) /\ Frank(proc[q].outcomes)
      BY <3>1 DEF HonestInv
    <3>3. proc[q].since \in Nat /\ proc[q].since <= changes
      BY <1>0, <3>1, BusyIsSound DEF ProcSound, Reads
    <3>4. proc[q].since = changes' => proc[q].since = changes
      BY <1>0, <3>3
    <3> QED BY <3>1, <3>2, <3>4 DEF Careful
  <2> QED BY <2>1, <2>2
<1>3. PICK S : answers \in Seq(S)
  BY DEF HonestInv, AnswersInv
<1>4. \A k \in DOMAIN answers : Frank(answers[k].outcomes)
  BY DEF HonestInv
<1>5. \A k \in DOMAIN answers' : Frank(answers'[k].outcomes)
  <2>1. CASE answers' = answers
    BY <1>4, <2>1
  <2>2. CASE \E a : answers' = Append(answers, a) /\ Frank(a.outcomes)
    <3>1. PICK a : answers' = Append(answers, a) /\ Frank(a.outcomes)
      BY <2>2
    <3>2. /\ DOMAIN answers' = DOMAIN answers \cup {Len(answers) + 1}
          /\ answers'[Len(answers) + 1] = a /\ \A k \in DOMAIN answers : answers'[k] = answers[k]
      BY <1>3, <3>1, Appended
    <3> QED BY <1>4, <3>1, <3>2
  <2> QED BY <2>1, <2>2
<1> QED BY <1>2, <1>5 DEF HonestInv, Busy

(* A call that ends tells its outcome, of a preview an honest one. *)
HonestEnd(p) ==
    \E what, told : /\ EndCall(p, what, told)
                    /\ what = "done" /\ operation(p) = "preview" => Honest(told)
LEMMA EndIsHonest ==
    ASSUME HonestInv, AnswersInv', RowsMeant', changes' = changes, NEW p \in Procs, Busy(p), HonestEnd(p)
    PROVE  HonestInv'
<1>1. PICK what, told : EndCall(p, what, told) /\ (what = "done" /\ operation(p) = "preview" => Honest(told))
  BY DEF HonestEnd
<1> DEFINE m == proc[p]
           c == m.command
           o == [what |-> what, call |-> operation(p), item |-> m.item, told |-> told]
           os == Append(m.outcomes, o)
           more == what = "done" /\ m.call < Len(c.calls)
<1>2. IsProc(m) /\ RepairInv
  BY BusyIsSound DEF HonestInv, AnswersInv
<1>3. o.what = what /\ o.call = operation(p) /\ o.told = told
  OBVIOUS
<1>4. PICK S : m.outcomes \in Seq(S)
  BY DEF HonestInv, AnswersInv, SoFar
<1> HIDE DEF o
<1>5. Frank(os)
  BY <1>1, <1>3, <1>4, FrankIsKept DEF HonestInv
<1>6. CASE more \/ m.item < Len(c.items)
  <2> DEFINE i == IF more THEN m.item ELSE m.item + 1
             k == IF more THEN m.call + 1 ELSE 1
             n == [m EXCEPT !.outcomes = os, !.call = k, !.item = i]
             r == Fresh(n)
  <2>1. proc' = [proc EXCEPT ![p] = Fresh([m EXCEPT !.outcomes = os, !.call = IF more THEN @ + 1 ELSE 1,
                                                    !.item = IF more THEN @ ELSE @ + 1])]
        /\ answers' = answers
    BY <1>1, <1>6 DEF EndCall, Set, me, command, o
  <2>2. n = [m EXCEPT !.outcomes = os, !.call = IF more THEN @ + 1 ELSE 1,
                      !.item = IF more THEN @ ELSE @ + 1]
    BY <1>2 DEF IsProc, ProcFields
  <2>3. IsProc(n) /\ n.outcomes = os
    <3> HIDE DEF os, i, k
    <3> QED BY <1>2 DEF IsProc, ProcFields
  <2>4. r.stage = "open" /\ r.outcomes = os
    <3> HIDE DEF n, os, i, c
    <3> QED BY <2>3 DEF Fresh, IsProc, ProcFields
  <2>5. proc' = [proc EXCEPT ![p] = r]
    BY <2>1, <2>2
  <2> HIDE DEF r, n, i, os, c
  <2>6. Careful(r, changes') /\ Frank(r.outcomes)
    BY <1>5, <2>4, OpenIsCareful
  <2> QED BY <2>1, <2>5, <2>6, HonestKeeps
<1>7. CASE ~(more \/ m.item < Len(c.items))
  <2> DEFINE a == [command |-> c, outcomes |-> os, exit |-> Exit(c, os)]
  <2>1. proc' = [proc EXCEPT ![p] = Idle] /\ answers' = Append(answers, a)
    BY <1>1, <1>7 DEF EndCall, Set, me, command, o
  <2>2. Frank(a.outcomes)
    BY <1>5
  <2> HIDE DEF a
  <2> QED BY <2>1, <2>2, HonestKeeps
<1> QED BY <1>6, <1>7

(* A step that goes on with its call. *)
HonestMove(p) ==
    \E r : /\ proc' = [proc EXCEPT ![p] = r] /\ answers' = answers
           /\ r.outcomes = proc[p].outcomes /\ Careful(r, changes)
LEMMA MoveIsHonest ==
    ASSUME HonestInv, AnswersInv', RowsMeant', changes' = changes, NEW p \in Procs, Busy(p), HonestMove(p)
    PROVE  HonestInv'
<1>1. PICK r : /\ proc' = [proc EXCEPT ![p] = r] /\ answers' = answers
               /\ r.outcomes = proc[p].outcomes /\ Careful(r, changes)
  BY DEF HonestMove
<1>2. Frank(proc[p].outcomes)
  BY DEF HonestInv
<1> QED BY <1>1, <1>2, HonestKeeps
LEMMA RefusalIsHonest == \A p \in Procs : \A what : Refuse(p, what) /\ what # "done" => HonestEnd(p)
  BY DEF Refuse, Fail, HonestEnd
LEMMA OtherEndIsHonest ==
    \A p \in Procs : \A told : EndCall(p, "done", told) /\ operation(p) # "preview" => HonestEnd(p)
  BY DEF HonestEnd
LEMMA CarefulMove ==
    ASSUME NEW p \in Procs, NEW r, Move(p, r), r.outcomes = proc[p].outcomes, Careful(r, changes)
    PROVE  HonestMove(p)
  BY DEF Move, Set, HonestMove
LEMMA HeldIsCareful ==
    ASSUME HonestInv, NEW p \in Procs, Busy(p)
    PROVE  /\ RepairInv /\ IsProc(proc[p]) /\ Careful(proc[p], changes)
           /\ operation(p) = proc[p].command.calls[proc[p].call]
           /\ operation(p) \in CallsAt(proc[p].stage)
           /\ Reads(proc[p], file, changes) /\ Undoes(proc[p], disk, runs, changes)
  BY BusyIsSound DEF HonestInv, AnswersInv, ProcSound

(* Up to the copy. *)
LEMMA OpenSourceIsHonest ==
    ASSUME HonestInv, NEW p \in Procs, Busy(p), OpenSource(p)
    PROVE  HonestMove(p) \/ HonestEnd(p)
<1> DEFINE m == proc[p]
           r == [m EXCEPT !.stage = "propose", !.opened = now(p)]
<1>1. (\E w : Refuse(p, w) /\ w # "done") \/ Move(p, r)
  BY DEF OpenSource, me
<1>2. r.outcomes = m.outcomes /\ r.stage = "propose"
  BY HeldIsCareful DEF IsProc, ProcFields
<1> HIDE DEF r
<1> QED BY <1>1, <1>2, OpenIsCareful, RefusalIsHonest, CarefulMove
LEMMA ProposeIsHonest ==
    ASSUME HonestInv, NEW p \in Procs, Busy(p), Propose(p)
    PROVE  HonestMove(p) \/ HonestEnd(p)
<1> DEFINE m == proc[p]
           x == ProposalOf(CHOOSE i \in get_issue_by_id(item(p)) : TRUE)
           n == Affected(x, Tables[SqlReads(p)])
           s == IF operation(p) = "preview" THEN "rules" ELSE "project"
           r == [m EXCEPT !.proposal = x, !.affected = n, !.stage = s]
<1>1. \/ \E w : Refuse(p, w) /\ w # "done"
      \/ EndCall(p, "done", Nothing) /\ operation(p) = "propose"
      \/ Move(p, r) /\ x # NoProposal
  <2> HIDE DEF x, n
  <2> QED BY DEF Propose, me, x, n
<1>2. CASE Move(p, r) /\ x # NoProposal
  <2>0. Meant(x)
    BY <1>2, ProposalsAreMeant
  <2>1. m.stage = "propose"
    BY AtIsBusy DEF Propose
  <2>2. m.since = changes => SqlReads(p) = m.opened
    BY <2>1, HeldIsCareful, WhatIsRead DEF OnSource
  <2>3. /\ r.outcomes = m.outcomes /\ r.stage = s /\ r.proposal = x /\ r.affected = n /\ r.since = m.since
        /\ r.opened = m.opened /\ r.command = m.command /\ r.call = m.call
    <3> HIDE DEF x, n, s
    <3> QED BY HeldIsCareful DEF IsProc, ProcFields
  <2>4. r.stage \notin OnRun
    BY <2>3 DEF OnRun
  <2>5. r.since = changes => r.affected = Affected(r.proposal, Tables[r.opened])
    <3> HIDE DEF r, x
    <3> QED BY <2>2, <2>3
  <2>6. r.command.calls[r.call] = "preview" => r.stage = "rules"
    BY <2>3, HeldIsCareful
  <2> HIDE DEF r, x, n, s
  <2>7. Careful(r, changes)
    BY <2>0, <2>3, <2>4, <2>5, <2>6 DEF Careful, Accurate, Previewing
  <2> QED BY <1>2, <2>3, <2>7, CarefulMove
<1> QED BY <1>1, <1>2, RefusalIsHonest, OtherEndIsHonest
LEMMA PreviewRulesIsHonest ==
    ASSUME HonestInv, NEW p \in Procs, Busy(p), PreviewRules(p)
    PROVE  HonestMove(p) \/ HonestEnd(p)
<1> DEFINE m == proc[p]
           n == Cardinality(RuleFailures(m.proposal.detector, Tables[SqlReads(p)]))
           r == [m EXCEPT !.stage = "stats", !.before = n]
<1>1. (\E w : Refuse(p, w) /\ w # "done") \/ Move(p, r)
  BY DEF PreviewRules, me
<1>2. m.stage = "rules"
  BY AtIsBusy DEF PreviewRules
<1>3. m.since = changes => SqlReads(p) = m.opened
  BY <1>2, HeldIsCareful, WhatIsRead DEF OnSource
<1>4. /\ r.outcomes = m.outcomes /\ r.stage = "stats" /\ r.proposal = m.proposal /\ r.affected = m.affected
      /\ r.before = n /\ r.since = m.since /\ r.opened = m.opened /\ r.command = m.command /\ r.call = m.call
  <2> HIDE DEF n
  <2> QED BY HeldIsCareful, ZenonT(40) DEF IsProc, ProcFields
<1>5. m.since = changes => n = Cardinality(RuleFailures(m.proposal.detector, Tables[m.opened]))
  BY <1>3
<1>6. Meant(m.proposal) /\ (m.since = changes => m.affected = Affected(m.proposal, Tables[m.opened]))
  BY <1>2, HeldIsCareful DEF Careful, Accurate, Previewing, OnSource
<1> HIDE DEF r, n
<1>7. Careful(r, changes)
  BY <1>4, <1>5, <1>6 DEF Careful, Accurate, Previewing, OnRun
<1> QED BY <1>1, <1>4, <1>7, CarefulMove, RefusalIsHonest
LEMMA PreviewStatsIsHonest ==
    ASSUME HonestInv, NEW p \in Procs, Busy(p), PreviewStats(p)
    PROVE  HonestMove(p) \/ HonestEnd(p)
<1> DEFINE m == proc[p]
           n == Stats(m.proposal, Tables[SqlReads(p)])
           r == [m EXCEPT !.stage = "project", !.stats = n]
<1>1. (\E w : Refuse(p, w) /\ w # "done") \/ Move(p, r)
  BY DEF PreviewStats, me
<1>2. m.stage = "stats"
  BY AtIsBusy DEF PreviewStats
<1>3. m.since = changes => SqlReads(p) = m.opened
  BY <1>2, HeldIsCareful, WhatIsRead DEF OnSource
<1>4. /\ r.outcomes = m.outcomes /\ r.stage = "project" /\ r.proposal = m.proposal /\ r.affected = m.affected
      /\ r.before = m.before /\ r.stats = n /\ r.since = m.since /\ r.opened = m.opened
      /\ r.command = m.command /\ r.call = m.call
  <2> HIDE DEF n
  <2> QED BY HeldIsCareful, ZenonT(40) DEF IsProc, ProcFields
<1>5. m.since = changes => n = Stats(m.proposal, Tables[m.opened])
  BY <1>3
<1>6. /\ Meant(m.proposal)
      /\ m.since = changes => Accurate(m)
  BY <1>2, HeldIsCareful DEF Careful, OnSource
<1> HIDE DEF r, n
<1>7. r.since = changes => Accurate(r)
  BY <1>2, <1>4, <1>5, <1>6 DEF Accurate, Previewing
<1>8. Careful(r, changes)
  BY <1>4, <1>6, <1>7 DEF Careful, OnRun
<1> QED BY <1>1, <1>4, <1>8, CarefulMove, RefusalIsHonest

(* From there to the row what the proposal is and what was counted does not change. *)
Carried(r, m) ==
    /\ r.outcomes = m.outcomes /\ r.proposal = m.proposal /\ r.affected = m.affected /\ r.before = m.before
    /\ r.stats = m.stats /\ r.since = m.since /\ r.opened = m.opened /\ r.command = m.command /\ r.call = m.call
LEMMA CarriedIsCareful ==
    ASSUME NEW r, NEW m, Carried(r, m), NEW c, Careful(m, c), m.stage \in OnSource \ {"propose", "rules", "stats"},
           r.stage \in {"carry", "report", "snapshot"} \cup InFlight,
           r.stage \in {"carry", "report"} => m.stage \in {"project", "carry"}
    PROVE  Careful(r, c)
<1>1. r.stage \in OnSource \ {"propose"} /\ r.stage \notin OnRun
  BY DEF OnSource, OnRun, InFlight
<1>2. Meant(r.proposal)
  BY DEF Careful, Carried
<1>3. r.since = c => Accurate(m)
  BY DEF Careful, Carried
<1>4. ASSUME Accurate(m) PROVE Accurate(r)
  <2>1. CASE r.stage \in {"carry", "report"}
    <3>1. /\ m.affected = Affected(m.proposal, Tables[m.opened])
          /\ m.command.calls[m.call] = "preview" =>
               /\ m.before = Cardinality(RuleFailures(m.proposal.detector, Tables[m.opened]))
               /\ m.stats = Stats(m.proposal, Tables[m.opened])
      BY <1>4, <2>1 DEF Accurate, Previewing
    <3> QED BY <3>1 DEF Accurate, Carried
  <2>2. CASE r.stage \notin {"carry", "report"}
    BY <2>2 DEF Accurate, Previewing, InFlight
  <2> QED BY <2>1, <2>2
<1> QED BY <1>1, <1>2, <1>3, <1>4 DEF Careful
LEMMA CopiesAreHonest ==
    ASSUME HonestInv, NEW p \in Procs, Busy(p), Project(p) \/ CopyCells(p)
    PROVE  HonestMove(p) \/ HonestEnd(p)
<1> DEFINE m == proc[p]
<1>0. IsProc(m) /\ Careful(m, changes)
  BY HeldIsCareful
<1>1. m.stage \in {"project", "carry"} /\ m.stage \in OnSource \ {"propose", "rules", "stats"}
  <2>1. m.stage \in {"project", "carry"}
    BY AtIsBusy DEF Project, CopyCells
  <2> QED BY <2>1 DEF OnSource
<1>2. ASSUME NEW c PROVE Move(p, Copied(p, c)) => HonestMove(p)
  <2> DEFINE s == IF operation(p) = "preview" THEN "report" ELSE "snapshot"
             r == [m EXCEPT !.copy = c, !.stage = s]
  <2>1. Copied(p, c) = r
    BY DEF Copied, me
  <2> HIDE DEF s
  <2>2. r.stage = s /\ Carried(r, m)
    BY <1>0 DEF IsProc, ProcFields, Carried
  <2> HIDE DEF r
  <2>3. s \in {"report", "snapshot"}
    BY DEF s
  <2>4. Careful(r, changes)
    BY <1>0, <1>1, <2>2, <2>3, CarriedIsCareful
  <2>5. r.outcomes = m.outcomes
    BY <2>2 DEF Carried
  <2> QED BY <2>1, <2>4, <2>5, CarefulMove
<1>3. CASE Project(p)
  <2> DEFINE b == [m EXCEPT !.stage = "carry", !.copy.projected = SqlReads(p)]
  <2>1. \/ Refuse(p, "source") \/ Refuse(p, "refused") \/ Refuse(p, "error")
        \/ Move(p, Copied(p, [carried |-> now(p), projected |-> now(p)])) \/ Move(p, b)
    <3> HIDE DEF m
    <3> QED BY <1>3 DEF Project, me, Writable, Carries, m
  <2>2. b.stage = "carry" /\ Carried(b, m)
    BY <1>0 DEF IsProc, ProcFields, Carried
  <2> HIDE DEF b
  <2>3. m.stage = "project"
    BY <1>3, AtIsBusy DEF Project
  <2>4. Careful(b, changes) /\ b.outcomes = m.outcomes
    <3>1. b.outcomes = m.outcomes
      BY <2>2 DEF Carried
    <3> QED BY <1>0, <1>1, <2>2, <3>1, CarriedIsCareful
  <2> QED BY <1>2, <2>1, <2>4, CarefulMove, RefusalIsHonest
<1>4. CASE CopyCells(p)
  <2>1. (\E w : Refuse(p, w) /\ w # "done") \/ \E c : Move(p, Copied(p, c))
    BY <1>4 DEF CopyCells
  <2> QED BY <1>2, <2>1, RefusalIsHonest
<1> QED BY <1>3, <1>4
LEMMA WritesAreHonest ==
    ASSUME HonestInv, NEW p \in Procs, Busy(p),
           Snapshot(p) \/ WriteCopy(p) \/ Fingerprint(p) \/ RecordOperations(p)
    PROVE  HonestMove(p) \/ HonestEnd(p)
<1> DEFINE m == proc[p]
<1>0. IsProc(m) /\ Careful(m, changes)
  BY HeldIsCareful
<1>1. m.stage \in {"snapshot", "write", "fingerprint", "records"}
  BY AtIsBusy DEF Snapshot, WriteCopy, Fingerprint, RecordOperations
<1>2. ASSUME NEW r, Carried(r, m), r.stage \in InFlight, proc' = [proc EXCEPT ![p] = r], answers' = answers
      PROVE  HonestMove(p)
  <2>1. r.stage \notin {"carry", "report"} /\ m.stage \in OnSource \ {"propose", "rules", "stats"}
    BY <1>1, <1>2 DEF InFlight, OnSource
  <2>2. Careful(r, changes)
    BY <1>0, <1>2, <2>1, CarriedIsCareful
  <2>3. r.outcomes = m.outcomes
    BY <1>2 DEF Carried
  <2> HIDE DEF m
  <2> QED BY <1>2, <2>2, <2>3 DEF HonestMove, m
<1>3. CASE Snapshot(p)
  <2> DEFINE n == Len(disk) + 1
             r == [m EXCEPT !.stage = "write", !.run = n]
  <2>1. Refuse(p, "source") \/ (proc' = [proc EXCEPT ![p] = r] /\ answers' = answers)
    BY <1>3 DEF Snapshot, Set, me
  <2> HIDE DEF n
  <2>2. r.stage \in InFlight /\ Carried(r, m)
    BY <1>0 DEF IsProc, ProcFields, Carried, InFlight
  <2> HIDE DEF r
  <2> QED BY <1>2, <2>1, <2>2, RefusalIsHonest
<1>4. CASE WriteCopy(p)
  <2> DEFINE r == [m EXCEPT !.stage = "fingerprint"]
  <2>1. Refuse(p, "source") \/ (proc' = [proc EXCEPT ![p] = r] /\ answers' = answers)
    BY <1>4 DEF WriteCopy, Set, me
  <2>2. r.stage \in InFlight /\ Carried(r, m)
    BY <1>0 DEF IsProc, ProcFields, Carried, InFlight
  <2> HIDE DEF r
  <2> QED BY <1>2, <2>1, <2>2, RefusalIsHonest
<1>5. CASE Fingerprint(p) \/ RecordOperations(p)
  <2> DEFINE r == IF m.stage = "fingerprint" THEN [m EXCEPT !.stage = "records", !.fingerprint = now(p)]
                  ELSE [m EXCEPT !.stage = "save", !.records = SqlReads(p)]
  <2>1. Refuse(p, "source") \/ Refuse(p, "error") \/ Move(p, r)
    BY <1>5, AtIsBusy DEF Fingerprint, RecordOperations, me
  <2>2. r.stage \in InFlight /\ Carried(r, m)
    BY <1>0 DEF IsProc, ProcFields, Carried, InFlight
  <2> HIDE DEF r
  <2> QED BY <1>2, <2>1, <2>2, RefusalIsHonest DEF Move, Set
<1> QED BY <1>3, <1>4, <1>5

(* What a preview reports. *)
LEMMA ReportIsHonest ==
    ASSUME HonestInv, NEW p \in Procs, Busy(p), ReportPreview(p)
    PROVE  HonestMove(p) \/ HonestEnd(p)
<1> DEFINE m == proc[p]
           b == m.before
           n == m.affected
           a == Cardinality(RuleFailures(m.proposal.detector, CopyTable(m.copy, m.proposal)))
           s == m.stats
           y == m.copy
           e == Examples(m.proposal, SqlReads(p))
           z == m.proposal
           q == m.since = changes
           t == [before |-> b, affected |-> n, after |-> a, stats |-> s, copy |-> y, examples |-> e,
                 proposal |-> z, quiet |-> q]
<1>1. Refuse(p, "error") \/ EndCall(p, "done", t)
  BY DEF ReportPreview, me
<1>2. m.stage = "report" /\ m.stage \in OnSource
  <2>1. m.stage = "report"
    BY AtIsBusy DEF ReportPreview
  <2> QED BY <2>1 DEF OnSource
<1>3. /\ t.before = b /\ t.affected = n /\ t.after = a /\ t.stats = s /\ t.copy = y /\ t.examples = e
      /\ t.proposal = z /\ (t.quiet <=> q)
  <2> HIDE DEF b, n, a, s, y, e, z, q
  <2> QED OBVIOUS
<1>4. operation(p) = "preview" /\ operation(p) = m.command.calls[m.call]
  BY <1>2, HeldIsCareful DEF CallsAt, InFlight
<1> HIDE DEF t
<1>5. Honest(t)
  <2> SUFFICES ASSUME q PROVE \E v \in Versions : Shows(t, v)
    BY <1>3 DEF Honest
  <2>1. PICK v : v = m.opened
    OBVIOUS
  <2>2. v \in Versions /\ SqlReads(p) = v
    BY <1>2, <2>1, HeldIsCareful, WhatIsRead
  <2>3. y = Of(v) /\ ColumnsFit(z, v)
    BY <1>2, <2>1, HeldIsCareful DEF Reads
  <2>4. Meant(z) /\ Accurate(m)
    BY <1>2, HeldIsCareful DEF Careful
  <2>5. n = Affected(z, Tables[v]) /\ b = Cardinality(RuleFailures(z.detector, Tables[v])) /\ s = Stats(z, Tables[v])
    BY <1>2, <1>4, <2>1, <2>4 DEF Accurate, Previewing
  <2>6. e = Examples(z, v) /\ a = Cardinality(RuleFailures(z.detector, CopyTable(Of(v), z)))
    BY <2>2, <2>3
  <2> HIDE DEF b, n, a, s, y, e, z, q
  <2>7. Shows(t, v)
    BY <1>3, <2>3, <2>4, <2>5, <2>6 DEF Shows
  <2> QED BY <2>2, <2>7
<1>6. CASE EndCall(p, "done", t)
  BY <1>5, <1>6 DEF HonestEnd
<1> HIDE DEF m
<1> QED BY <1>1, <1>6, RefusalIsHonest

(* Rows are written with the proposal of the process, and read back with it. *)
LEMMA RowsStayMeant ==
    ASSUME RowsMeant, NEW x, Meant(x.proposal), RowsFrom(x)
    PROVE  RowsMeant'
  BY DEF RowsMeant, RowsFrom
LEMMA SaveRunIsHonest ==
    ASSUME HonestInv, NEW p \in Procs, Busy(p), SaveRun(p)
    PROVE  RowsMeant' /\ HonestEnd(p)
<1> DEFINE m == proc[p]
           told == [run |-> m.run]
<1>1. m.stage = "save"
  BY AtIsBusy DEF SaveRun
<1>2. Meant(m.proposal) /\ operation(p) # "preview"
  <2>1. Meant(m.proposal)
    BY <1>1, HeldIsCareful DEF Careful, OnSource
  <2>2. operation(p) # "preview"
    BY <1>1, HeldIsCareful DEF CallsAt, InFlight
  <2> QED BY <2>1, <2>2
<1>3. \/ Refuse(p, "error") /\ runs' = runs
      \/ EndCall(p, "done", told) /\ \E x : runs' = Append(runs, x) /\ x.proposal = m.proposal
  BY DEF SaveRun, Refuse, Kept, me
<1>4. CASE Refuse(p, "error") /\ runs' = runs
  BY <1>4, RefusalIsHonest DEF RowsMeant, HonestInv
<1>5. CASE EndCall(p, "done", told) /\ \E x : runs' = Append(runs, x) /\ x.proposal = m.proposal
  <2>1. PICK x : runs' = Append(runs, x) /\ x.proposal = m.proposal
    BY <1>5
  <2>2. PICK S : runs \in Seq(S)
    BY DEF HonestInv, AnswersInv, RepairInv, RowsInv
  <2>3. RowsFrom(x)
    BY <2>1, <2>2, Appended DEF RowsFrom
  <2> HIDE DEF told
  <2> QED BY <1>2, <1>5, <2>1, <2>3, RowsStayMeant, OtherEndIsHonest DEF HonestInv
<1> QED BY <1>3, <1>4, <1>5
LEMMA ReadRunIsHonest ==
    ASSUME HonestInv, NEW p \in Procs, Busy(p), ReadRun(p)
    PROVE  HonestMove(p) \/ HonestEnd(p)
<1> DEFINE m == proc[p]
           x == CHOOSE x \in Stored(Target(p)) : TRUE
           b == LastId(Applied)
           r == [m EXCEPT !.stage = operation(p), !.run = Target(p), !.row = x, !.before = b]
<1>1. Refuse(p, "missing") \/ (Move(p, r) /\ Stored(Target(p)) # {})
  BY DEF ReadRun, me
<1>2. CASE Move(p, r) /\ Stored(Target(p)) # {}
  <2>1. x \in Members(runs)
    <3>1. x \in Stored(Target(p))
      BY <1>2
    <3> QED BY <3>1 DEF Stored
  <2>2. Meant(x.proposal)
    BY <2>1 DEF Members, HonestInv, RowsMeant
  <2> HIDE DEF x, b
  <2>3. r.outcomes = m.outcomes /\ r.stage = operation(p) /\ r.row = x
    BY HeldIsCareful DEF IsProc, ProcFields
  <2>4. operation(p) \notin OnIssue /\ operation(p) \in RepairCalls
    <3>1. CallsAt("open") = RepairCalls
      BY DEF CallsAt, InFlight
    <3>2. m.stage = "open" /\ operation(p) \notin OnIssue
      BY AtIsBusy DEF ReadRun
    <3> QED BY <3>1, <3>2, HeldIsCareful
  <2>5. operation(p) \notin OnSource /\ operation(p) \notin Previewing
    BY <2>4 DEF OnIssue, RepairCalls, OnSource, Previewing
  <2> HIDE DEF r
  <2>6. Careful(r, changes)
    BY <2>2, <2>3, <2>5 DEF Careful, Accurate, Previewing
  <2> QED BY <1>2, <2>3, <2>6, CarefulMove
<1> HIDE DEF r
<1> QED BY <1>1, <1>2, RefusalIsHonest
LEMMA CopyBackIsHonest ==
    ASSUME HonestInv, NEW p \in Procs, Busy(p), CopyBack(p)
    PROVE  HonestMove(p) \/ HonestEnd(p)
<1> DEFINE m == proc[p]
           r == [m EXCEPT !.stage = "save rollback"]
<1>1. Refuse(p, "source") \/ (proc' = [proc EXCEPT ![p] = r] /\ answers' = answers)
  BY DEF CopyBack, Set, me
<1>2. r.outcomes = m.outcomes /\ r.stage = "save rollback" /\ r.row = m.row
  BY HeldIsCareful DEF IsProc, ProcFields
<1>3. Meant(m.row.proposal)
  <2>1. m.stage \in OnRun
    BY AtIsBusy DEF CopyBack, OnRun
  <2> QED BY <2>1, HeldIsCareful DEF Careful
<1> HIDE DEF r
<1>4. r.stage \notin OnSource /\ r.stage \notin Previewing
  BY <1>2 DEF OnSource, Previewing
<1>5. Careful(r, changes)
  BY <1>2, <1>3, <1>4 DEF Careful, Accurate
<1> QED BY <1>1, <1>2, <1>5, RefusalIsHonest DEF HonestMove
LEMMA SaveRollbackIsHonest ==
    ASSUME HonestInv, NEW p \in Procs, Busy(p), SaveRollback(p)
    PROVE  RowsMeant' /\ HonestEnd(p)
<1> DEFINE m == proc[p]
           x == [m.row EXCEPT !.status = "rolled_back"]
<1>1. m.stage \in OnRun /\ m.stage = "save rollback"
  BY AtIsBusy DEF SaveRollback, OnRun
<1>2. /\ runs' = Append(RemoveAt(runs, CHOOSE i \in DOMAIN runs : runs[i].id = m.run), x)
      /\ disk' = disk /\ changes' = changes
  BY DEF SaveRollback, me
<1>3. /\ RepairInv /\ RowSound(m.row, disk, changes) /\ m.row.id = m.run /\ HasRow(m.run, runs)
      /\ disk[m.run].restored # Gone
  BY <1>1, HeldIsCareful DEF Undoes
<1>4. /\ IsRow(x) /\ x.id = m.run /\ x.status = "rolled_back" /\ x.quiet = m.row.quiet
      /\ x.fingerprint_after = m.row.fingerprint_after /\ x.proposal = m.row.proposal
      /\ \A v : OneVersion(m.row, v) => OneVersion(x, v)
  BY <1>3 DEF RowSound, IsRow, RowFields, OneVersion
<1> HIDE DEF x
<1>5. RowSound(x, disk, changes)
  BY <1>3, <1>4 DEF RowSound
<1>6. RowsFrom(x)
  BY <1>2, <1>3, <1>4, <1>5, RowMarked
<1>7. Meant(x.proposal)
  BY <1>1, <1>4, HeldIsCareful DEF Careful
<1>8. operation(p) # "preview"
  BY <1>1, HeldIsCareful DEF CallsAt, InFlight
<1>9. \E told : EndCall(p, "done", told)
  BY DEF SaveRollback
<1>10. RowsMeant'
  BY <1>6, <1>7, RowsStayMeant DEF HonestInv
<1> QED BY <1>8, <1>9, <1>10, OtherEndIsHonest
LEMMA ReadersAreHonest ==
    ASSUME HonestInv, NEW p \in Procs, Busy(p), Verify(p) \/ Diff(p)
    PROVE  HonestEnd(p)
<1>1. Refuse(p, "source") \/ \E told : EndCall(p, "done", told)
  <2>1. CASE Verify(p)
    BY <2>1 DEF Verify
  <2>2. CASE Diff(p)
    BY <2>2 DEF Diff
  <2> QED BY <2>1, <2>2
<1>2. proc[p].stage \in {"verify", "diff"}
  BY AtIsBusy DEF Verify, Diff
<1>3. operation(p) # "preview"
  BY <1>2, HeldIsCareful DEF CallsAt, InFlight
<1> QED BY <1>1, <1>3, RefusalIsHonest, OtherEndIsHonest

LEMMA WorkIsHonest ==
    ASSUME HonestInv, NEW p \in Procs, Step(p), ~(\E c \in Commands : Begin(p, c)), ~Crash(p)
    PROVE  RowsMeant' /\ Busy(p) /\ (HonestMove(p) \/ HonestEnd(p))
<1>0. Busy(p)
  BY StepsGo DEF HonestInv, AnswersInv
<1>1. CASE SaveRun(p) \/ SaveRollback(p)
  BY <1>0, <1>1, SaveRunIsHonest, SaveRollbackIsHonest
<1>2. CASE ~(SaveRun(p) \/ SaveRollback(p))
  <2>1. runs' = runs
    BY <1>2, WhoWrites
  <2>2. RowsMeant'
    BY <2>1 DEF HonestInv, RowsMeant
  <2>3. CASE OpenSource(p) \/ Propose(p) \/ PreviewRules(p) \/ PreviewStats(p)
    BY <1>0, <2>2, <2>3, OpenSourceIsHonest, ProposeIsHonest, PreviewRulesIsHonest, PreviewStatsIsHonest
  <2>4. CASE Project(p) \/ CopyCells(p) \/ ReportPreview(p)
    BY <1>0, <2>2, <2>4, CopiesAreHonest, ReportIsHonest
  <2>5. CASE Snapshot(p) \/ WriteCopy(p) \/ Fingerprint(p) \/ RecordOperations(p)
    BY <1>0, <2>2, <2>5, WritesAreHonest
  <2>6. CASE ReadRun(p) \/ CopyBack(p) \/ Verify(p) \/ Diff(p)
    BY <1>0, <2>2, <2>6, ReadRunIsHonest, CopyBackIsHonest, ReadersAreHonest
  <2> QED BY <1>2, <2>3, <2>4, <2>5, <2>6 DEF Step
<1> QED BY <1>1, <1>2
LEMMA HonestStart == Init => HonestInv
<1> SUFFICES ASSUME Init PROVE HonestInv
  OBVIOUS
<1>1. PICK s \in InitialStores : runs = s.runs
  BY DEF Init
<1>2. RowsMeant
  BY <1>1, RepairAssumption DEF Orderly, RowsMeant
<1>3. DOMAIN answers = {} /\ \A p \in Procs : ~Busy(p)
  BY DEF Init, Busy
<1> QED BY <1>2, <1>3, AnswersStart DEF HonestInv
LEMMA HonestStep == HonestInv /\ [Next]_vars => HonestInv'
<1> SUFFICES ASSUME HonestInv, [Next]_vars PROVE HonestInv'
  OBVIOUS
<1>0. AnswersInv /\ AnswersInv' /\ RepairInv /\ changes \in Nat
  BY AnswersStep DEF HonestInv, AnswersInv, RepairInv
<1>1. ASSUME NEW p \in Procs, Step(p) PROVE HonestInv'
  <2>1. CASE \E c \in Commands : Begin(p, c)
    <3>1. PICK c \in Commands : Begin(p, c)
      BY <2>1
    <3>2. PICK r : /\ proc' = [proc EXCEPT ![p] = r] /\ answers' = answers
                   /\ r.outcomes = <<>> /\ r.stage = "open"
      <4> DEFINE r == [command |-> c, item |-> 1, call |-> 1, outcomes |-> <<>>, stage |-> "open",
                       since |-> changes, opened |-> Gone, proposal |-> NoProposal, affected |-> 0, before |-> 0,
                       stats |-> NoStats, fingerprint |-> Gone, copy |-> NoCopy, run |-> UnknownRun,
                       row |-> Nothing, records |-> Gone]
      <4>1. proc' = [proc EXCEPT ![p] = r] /\ answers' = answers
        BY <3>1 DEF Begin, Move, Set
      <4>2. r.outcomes = <<>> /\ r.stage = "open"
        OBVIOUS
      <4> HIDE DEF r
      <4> QED BY <4>1, <4>2
    <3>3. runs' = runs /\ changes' = changes
      BY <3>1 DEF Begin, Move, Kept
    <3>4. Careful(r, changes') /\ Frank(r.outcomes)
      BY <3>2, OpenIsCareful DEF Frank
    <3>5. RowsMeant'
      BY <3>3 DEF HonestInv, RowsMeant
    <3> QED BY <1>0, <3>2, <3>3, <3>4, <3>5, HonestKeeps
  <2>2. CASE Crash(p)
    <3> DEFINE a == [command |-> command(p), outcomes |-> me(p).outcomes, exit |-> "killed"]
    <3>1. /\ proc' = [proc EXCEPT ![p] = Idle] /\ answers' = Append(answers, a)
          /\ runs' = runs /\ changes' = changes + 1 /\ Busy(p)
      BY <2>2 DEF Crash, Set, Busy, me
    <3>2. a.outcomes = proc[p].outcomes
      BY DEF me
    <3>3. Frank(a.outcomes)
      BY <3>1, <3>2 DEF HonestInv
    <3>4. RowsMeant'
      BY <3>1 DEF HonestInv, RowsMeant
    <3> HIDE DEF a
    <3> QED BY <1>0, <3>1, <3>3, <3>4, HonestKeeps
  <2>3. CASE ~(\E c \in Commands : Begin(p, c)) /\ ~Crash(p)
    <3>1. RowsMeant' /\ Busy(p) /\ (HonestMove(p) \/ HonestEnd(p))
      BY <1>1, <2>3, WorkIsHonest
    <3>2. changes' = changes
      BY <1>1, <2>3, WhoWrites
    <3> QED BY <1>0, <3>1, <3>2, MoveIsHonest, EndIsHonest
  <2> QED BY <2>1, <2>2, <2>3
<1>2. ASSUME (\E f \in Paths, v \in Later : Edit(f, v)) \/ (\E id \in DOMAIN disk : RemoveArtefact(id)) \/ UNCHANGED vars
      PROVE  HonestInv'
  <2>1. /\ proc' = proc /\ answers' = answers /\ runs' = runs
        /\ changes' = changes \/ changes' = changes + 1
    BY <1>2 DEF Edit, RemoveArtefact, vars
  <2>2. ASSUME NEW q \in Procs, Busy(q)
        PROVE  Careful(proc[q], changes') /\ Frank(proc[q].outcomes)
    <3>1. Careful(proc[q], changes) /\ Frank(proc[q].outcomes)
      BY <2>2 DEF HonestInv
    <3>2. proc[q].since \in Nat /\ proc[q].since <= changes
      BY <1>0, <2>2, BusyIsSound DEF ProcSound, Reads
    <3>3. proc[q].since = changes' => proc[q].since = changes
      BY <1>0, <2>1, <3>2
    <3> QED BY <3>1, <3>3 DEF Careful
  <2>3. RowsMeant'
    BY <2>1 DEF HonestInv, RowsMeant
  <2> QED BY <1>0, <2>1, <2>2, <2>3 DEF HonestInv, Busy
<1> QED BY <1>1, <1>2 DEF Next

(* A preview that is of one version tells the truth about its copy. *)
LEMMA HonestPreview ==
    ASSUME NEW t, NEW v \in Versions, Shows(t, v),
           NEW found, found = RuleFailures(t.proposal.detector, Tables[v])
    PROVE  LET copy == CopyTable(Of(v), t.proposal)
           IN  /\ t.before = Cardinality(found)
               /\ t.proposal.operation # "clip" => t.after = Cardinality(Elsewhere(t.proposal, found))
               /\ t.affected = Cardinality(Moved(Tables[v], copy))
               /\ t.examples = Sample(Tables[v], copy, ExampleCap)
               /\ \A c \in DOMAIN t.stats : t.stats[c][1] = NullsOf(copy, c) - NullsOf(Tables[v], c)
<1>1. PICK P : P = t.proposal
  OBVIOUS
<1>2. PICK u : u = CopyTable(Of(v), P)
  OBVIOUS
<1>3. ColumnsFit(P, v) /\ Meant(P)
  BY <1>1 DEF Shows
<1>4. Moved(Tables[v], u) = Changing(P, v)
  BY <1>2, <1>3, ChangedCellsMove
<1>5. t.affected = Cardinality(Changing(P, v))
  BY <1>1, <1>3, AffectedCellsChange DEF Shows
<1>6. t.examples = Sample(Tables[v], u, ExampleCap)
  BY <1>1, <1>2, CopyIsProjected DEF Shows, Examples
<1>7. P.operation # "clip" => t.after = Cardinality(Elsewhere(P, found))
  BY <1>1, <1>3, RepairClears DEF Shows
<1>8. \A c \in DOMAIN t.stats : t.stats[c][1] = NullsOf(u, c) - NullsOf(Tables[v], c)
  BY <1>1, <1>2, <1>3, StatsAreOfTheCopy DEF Shows
<1>9. t.before = Cardinality(found)
  BY DEF Shows
<1> QED BY <1>1, <1>2, <1>4, <1>5, <1>6, <1>7, <1>8, <1>9

(* A repair does what it is for and nothing else, whatever is interleaved: the rows and   *)
(* the previews of repairs that nobody disturbed are of one version, and there the copy   *)
(* is free of what the detector reported on the proposal's columns, and of nothing more.  *)
THEOREM RepairsClear == Spec => []RepairsClearTheirIssue
<1>1. ASSUME HonestInv
      PROVE  RepairsClearTheirIssue
  <2>1. ASSUME NEW r \in Members(runs), r.quiet, disk[r.id].copy # NoCopy, r.proposal.operation # "clip"
        PROVE  \E v \in Versions :
                 /\ disk[r.id].copy = Of(v)
                 /\ RuleFailures(r.proposal.detector, CopyTable(Of(v), r.proposal))
                      = Elsewhere(r.proposal, RuleFailures(r.proposal.detector, Tables[v]))
    <3>1. RowSound(r, disk, changes) /\ Meant(r.proposal)
      BY <1>1 DEF HonestInv, AnswersInv, RepairInv, RowsInv, RowsMeant, Members
    <3>2. PICK v \in Versions : disk[r.id].copy = Of(v)
      BY <2>1, <3>1 DEF RowSound
    <3> QED BY <2>1, <3>1, <3>2, RepairClears
  <2>2. ASSUME NEW k \in DOMAIN answers, NEW o \in Members(answers[k].outcomes),
               o.call = "preview", o.what = "done", o.told.quiet
        PROVE  \E v \in Versions : Shows(o.told, v)
    BY <1>1, <2>2 DEF HonestInv, Frank, Honest, Members
  <2>3. ASSUME NEW k \in DOMAIN answers, NEW o \in Members(answers[k].outcomes),
               o.call = "preview", o.what = "done", o.told.quiet
        PROVE  \E v \in Versions :
                 /\ o.told.copy = Of(v)
                 /\ \E found \in {RuleFailures(o.told.proposal.detector, Tables[v])} :
                      LET t == o.told
                          copy == CopyTable(Of(v), t.proposal)
                      IN  /\ t.before = Cardinality(found)
                          /\ t.proposal.operation # "clip" =>
                                t.after = Cardinality(Elsewhere(t.proposal, found))
                          /\ t.affected = Cardinality(Moved(Tables[v], copy))
                          /\ t.examples = Sample(Tables[v], copy, ExampleCap)
                          /\ \A c \in DOMAIN t.stats :
                                t.stats[c][1] = NullsOf(copy, c) - NullsOf(Tables[v], c)
    <3>1. PICK v \in Versions : Shows(o.told, v)
      BY <2>2, <2>3
    <3>2. o.told.copy = Of(v)
      BY <3>1 DEF Shows
    <3> QED BY <3>1, <3>2, HonestPreview
  <2> QED BY <2>1, <2>3 DEF RepairsClearTheirIssue
<1> QED BY <1>1, HonestStart, HonestStep, PTL DEF Spec
=============================================================================
