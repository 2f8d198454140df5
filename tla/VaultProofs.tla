---------------------------- MODULE VaultProofs ----------------------------
(***************************************************************************)
(* For any processes, commands, keys, sessions, files and replies: every   *)
(* session stays readable (MappingsStayReadable); a restored reply says    *)
(* what the command's own sample said (RestoredAsScanned); and the types   *)
(* of the vault and of the proposals (TypeOK).                             *)
(***************************************************************************)
EXTENDS AssistProofs, FiniteSetTheorems, SequenceLemmas

(* Nothing has happened that the property excepts; once it has, the exception stays. *)
Undisturbed == ~raced /\ (env = NoKey \/ \A n \in invocations : n.task # "pii_key_rotate")

Rotation == {"rotate", "encrypt", "rotated"}
Keyed == {"profile", "sample", "session", "save session"}
RowFields == {"id", "payload", "key", "created"}
IsRow(x) == x = [f \in RowFields |-> x[f]]
Listed(s) == (\E S : s \in Seq(S)) /\ \A k \in DOMAIN s : IsRow(s[k])
Encrypting(r) == r.stage \in {"encrypt", "rotated"}
(* The stages of a rotation, and what it has been given. *)
RotationInv ==
    \A p \in Procs : Busy(p) =>
        /\ Rotating(p) <=> command(p).call = "rotate"
        /\ me(p).stage \in Rotation => Rotating(p)
        /\ Rotating(p) => me(p).stage \in Rotation \cup {"bind"} /\ command(p).material # NoKey
        /\ Encrypting(me(p)) => me(p).new # NoKey
        /\ me(p).stage = "encrypt" => Listed(me(p).left)
(* A rotation runs alone; a process that is about to write a row has the key that is         *)
(* configured; a row is under that key or the rotation that will change it knows of it.      *)
RowsInv ==
    /\ \A p, q \in Procs : Busy(p) /\ Busy(q) /\ Rotating(p) => p = q
    /\ \A p \in Procs : Busy(p) /\ me(p).stage \in Keyed \cup {"rotate", "encrypt"} => Key(p) = Effective(Configured)
    /\ (\A p \in Procs : Busy(p) => ~Encrypting(me(p))) => \A r \in sessions : r.key = Effective(Configured)
    /\ \A p \in Procs : Busy(p) /\ me(p).stage = "encrypt" =>
          /\ \A k \in DOMAIN me(p).left : me(p).left[k].key = Key(p)
          /\ \A r \in sessions : r.key = me(p).new \/ \E k \in DOMAIN me(p).left : me(p).left[k] = r
    /\ \A p \in Procs : Busy(p) /\ me(p).stage = "rotated" =>
          keyFile = me(p).new /\ \A r \in sessions : r.key = me(p).new
KeyInv ==
    /\ IsFiniteSet(sessions) /\ issued \in Nat /\ raced \in BOOLEAN
    /\ \A x \in sessions : IsRow(x)
    /\ RotationInv
    /\ Undisturbed => RowsInv

----------------------------------------------------------------------------
LEMMA ListsAll ==
    ASSUME NEW S, IsFiniteSet(S)
    PROVE  /\ SetToSeq(S) \in Seq(S)
           /\ \A x \in S : \E k \in DOMAIN SetToSeq(S) : SetToSeq(S)[k] = x
<1> DEFINE n == Cardinality(S)
<1>1. n \in Nat /\ ExistsBijection(1..n, S)
  BY FS_CardinalityType
<1>2. PICK g : g \in Bijection(1..n, S)
  BY <1>1 DEF ExistsBijection
<1>3. g \in [1..n -> S] /\ IsInjective(g)
  BY <1>2 DEF Bijection, Injection, IsInjective
<1>4. SetToSeq(S) \in [1..n -> S] /\ IsInjective(SetToSeq(S))
  BY <1>3 DEF SetToSeq
<1> DEFINE f == SetToSeq(S)
<1> HIDE DEF f
<1>5. f \in Injection(1..n, S)
  BY <1>4 DEF Injection, IsInjective, f
<1>6. Cardinality(1..n) = n
  BY <1>1, FS_Interval
<1>7. f \in Surjection(1..n, S)
  BY <1>5, <1>6, FS_Injection DEF n
<1>8. f \in Seq(S)
  BY <1>1, <1>4 DEF f
<1> QED BY <1>4, <1>7, <1>8 DEF Surjection, f

LEMMA ExceptionsStay ==
    ASSUME Undisturbed', invocations \subseteq invocations', env' = env, raced => raced', raced \in BOOLEAN
    PROVE  Undisturbed
  BY DEF Undisturbed

(* The others are not touched by what one process does. *)
LEMMA OthersStay ==
    ASSUME AuditInv, NEW p \in Procs, NEW r, Set(p, r)
    PROVE  proc'[p] = r /\ \A q \in Procs \ {p} : proc'[q] = proc[q]
  BY DEF AuditInv, Shape, Set

(* A step of a process that encrypts nothing, adds no row and begins neither with another key *)
(* than the configured one.                                                                  *)
LEMMA AsideKeeps ==
    ASSUME AuditInv, KeyInv, NEW p \in Procs, Busy(p), ~Encrypting(me(p)), NEW r, Set(p, r),
           UNCHANGED <<env, keyFile, raced, issued>>,
           sessions' \subseteq sessions, invocations \subseteq invocations',
           \/ r = Idle
           \/ /\ r.command = command(p) /\ ~Encrypting(r) /\ (Rotating(p) <=> r.stage = "rotate")
              /\ Undisturbed /\ r.stage \in Keyed \cup {"rotate"} => Effective(r.key) = Effective(Configured)
    PROVE  KeyInv'
<1>1. proc'[p] = r /\ \A q \in Procs \ {p} : proc'[q] = proc[q]
  BY OthersStay
<1>2. IsFiniteSet(sessions') /\ issued' \in Nat /\ raced' \in BOOLEAN /\ \A x \in sessions' : IsRow(x)
  BY FS_Subset DEF KeyInv
<1>3. \A q \in Procs : proc'[q] # Idle =>
        /\ proc[q] # Idle /\ proc'[q].command = proc[q].command
        /\ q = p \/ proc'[q] = proc[q]
        /\ Encrypting(proc'[q]) => proc'[q] = proc[q]
        /\ q = p => r # Idle /\ proc'[q] = r
  BY <1>1 DEF Busy, command
<1>4. RotationInv'
  <2> SUFFICES ASSUME NEW q \in Procs, proc'[q] # Idle
               PROVE  /\ proc'[q].stage \in Rotation => proc'[q].command.call = "rotate"
                      /\ proc'[q].command.call = "rotate" =>
                            proc'[q].stage \in Rotation \cup {"bind"} /\ proc'[q].command.material # NoKey
                      /\ Encrypting(proc'[q]) => proc'[q].new # NoKey
                      /\ proc'[q].stage = "encrypt" => Listed(proc'[q].left)
    BY DEF RotationInv, Rotating, Busy, command, me
  <2>1. CASE q = p
    BY <1>3, <2>1 DEF KeyInv, RotationInv, Rotating, Busy, command, me, Encrypting, Rotation
  <2>2. CASE q # p
    BY <1>1, <2>2 DEF KeyInv, RotationInv, Rotating, Busy, command, me
  <2> QED BY <2>1, <2>2
<1>5. ASSUME Undisturbed'
      PROVE  RowsInv'
  <2>1. Undisturbed /\ RowsInv
    BY <1>5, ExceptionsStay DEF KeyInv
  <2>2. Configured' = Configured /\ Effective(Configured)' = Effective(Configured)
    BY DEF Configured, Effective
  <2>3. \A q1, q2 \in Procs : Busy(q1)' /\ Busy(q2)' /\ Rotating(q1)' => q1 = q2
    BY <1>3, <2>1 DEF RowsInv, Rotating, Busy
  <2>4. \A q \in Procs : proc'[q] # Idle /\ proc'[q].stage \in Keyed \cup {"rotate", "encrypt"} =>
            Effective(proc'[q].key) = Effective(Configured)
    <3> SUFFICES ASSUME NEW q \in Procs, proc'[q] # Idle, proc'[q].stage \in Keyed \cup {"rotate", "encrypt"}
                 PROVE  Effective(proc'[q].key) = Effective(Configured)
      OBVIOUS
    <3>1. CASE q = p
      BY <1>3, <2>1, <3>1 DEF Encrypting
    <3>2. CASE q # p
      BY <1>1, <2>1, <3>2 DEF RowsInv, Busy, me, Key
    <3> QED BY <3>1, <3>2
  <2>5. (\A q \in Procs : proc'[q] # Idle => ~Encrypting(proc'[q])) => \A x \in sessions' : x.key = Effective(Configured)
    <3>1. SUFFICES ASSUME \A q \in Procs : proc'[q] # Idle => ~Encrypting(proc'[q])
                   PROVE  \A x \in sessions' : x.key = Effective(Configured)
      OBVIOUS
    <3>2. \A q \in Procs : Busy(q) => ~Encrypting(me(q))
      BY <1>1, <3>1 DEF Busy, me
    <3> QED BY <2>1, <3>2 DEF RowsInv
  <2>6. \A q \in Procs : proc'[q] # Idle /\ proc'[q].stage = "encrypt" =>
          /\ \A k \in DOMAIN proc'[q].left : proc'[q].left[k].key = Effective(proc'[q].key)
          /\ \A x \in sessions' : x.key = proc'[q].new \/ \E k \in DOMAIN proc'[q].left : proc'[q].left[k] = x
    <3> SUFFICES ASSUME NEW q \in Procs, proc'[q] # Idle, proc'[q].stage = "encrypt"
                 PROVE  /\ \A k \in DOMAIN proc'[q].left : proc'[q].left[k].key = Effective(proc'[q].key)
                        /\ \A x \in sessions' : x.key = proc'[q].new \/ \E k \in DOMAIN proc'[q].left : proc'[q].left[k] = x
      OBVIOUS
    <3>1. proc'[q] = proc[q] /\ proc[q] # Idle
      BY <1>3 DEF Encrypting
    <3> QED BY <2>1, <3>1 DEF RowsInv, Busy, me, Key
  <2>7. \A q \in Procs : proc'[q] # Idle /\ proc'[q].stage = "rotated" =>
          keyFile' = proc'[q].new /\ \A x \in sessions' : x.key = proc'[q].new
    BY <1>3, <2>1 DEF RowsInv, Busy, me, Encrypting
  <2> QED BY <2>2, <2>3, <2>4, <2>5, <2>6, <2>7 DEF RowsInv, Busy, me, Key, Effective
<1> QED BY <1>2, <1>4, <1>5 DEF KeyInv

----------------------------------------------------------------------------
(* The steps that have nothing to do with keys. *)
Passing(p) ==
    /\ \E r : Set(p, r) /\ (r = Idle \/ (r.command = command(p) /\ r.stage \notin Rotation \cup Keyed))
    /\ UNCHANGED <<env, keyFile, raced, issued>>
    /\ sessions' \subseteq sessions /\ invocations \subseteq invocations'
LEMMA PassingKeeps ==
    ASSUME AuditInv, KeyInv, NEW p \in Procs, Busy(p), ~Rotating(p), Passing(p)
    PROVE  KeyInv'
<1>1. ~Encrypting(me(p))
  BY DEF KeyInv, RotationInv, Encrypting, Rotation
<1> QED BY <1>1, AsideKeeps DEF Passing, Encrypting, Rotation, Keyed

LEMMA NotRotating ==
    ASSUME KeyInv, NEW p \in Procs, NEW x, At(p, x), x \notin Rotation \cup {"bind", "idle"}
    PROVE  Busy(p) /\ ~Rotating(p)
  BY DEF KeyInv, RotationInv, At, Busy, Idle, me

LEMMA RecordFields ==
    ASSUME AuditInv, NEW p \in Procs, Busy(p)
    PROVE  /\ IsProcess(me(p))
           /\ \A x : /\ [me(p) EXCEPT !.stage = x].command = command(p)
                     /\ [me(p) EXCEPT !.stage = x].stage = x
                     /\ [me(p) EXCEPT !.stage = x].key = me(p).key
<1>1. IsProcess(me(p))
  BY DEF AuditInv, Honest, me
<1> QED BY <1>1 DEF IsProcess, Fields, command, me

LEMMA MovePasses ==
    ASSUME NEW p \in Procs, NEW r, Move(p, r), r.command = command(p), r.stage \notin Rotation \cup Keyed
    PROVE  Passing(p)
<1>1. Set(p, r) /\ UNCHANGED <<sessions, env, keyFile, raced, issued, invocations>>
  BY DEF Move, Tables, KeptByVault
<1> QED BY <1>1 DEF Passing
LEMMA StagePasses ==
    ASSUME AuditInv, NEW p \in Procs, Busy(p), NEW x, Stage(p, x), x \notin Rotation \cup Keyed
    PROVE  Passing(p)
<1> DEFINE r == [me(p) EXCEPT !.stage = x]
<1>1. r.command = command(p) /\ r.stage = x /\ Move(p, r)
  BY RecordFields DEF Stage
<1> HIDE DEF r
<1> QED BY <1>1, MovePasses
LEMMA AdvancePasses ==
    ASSUME AuditInv, NEW p \in Procs, Busy(p), NEW x, NEW w, Advance(p, x, w), x \notin Rotation \cup Keyed
    PROVE  Passing(p)
<1> DEFINE r == [me(p) EXCEPT !.stage = x]
<1>1. r.command = command(p) /\ r.stage = x /\ Move(p, r)
  BY RecordFields DEF Advance
<1> HIDE DEF r
<1> QED BY <1>1, MovePasses
LEMMA EndPasses ==
    ASSUME NEW p \in Procs, NEW what, NEW exit, EndWith(p, what, exit), UNCHANGED <<keyFile, issued>>,
           sessions' \subseteq sessions, invocations \subseteq invocations'
    PROVE  Passing(p)
  BY DEF Passing, EndWith, KeptByVault
LEMMA RefusePasses ==
    ASSUME NEW p \in Procs, NEW what, Refuse(p, what)
    PROVE  Passing(p)
<1>1. \E exit : EndWith(p, what, exit)
  BY DEF Refuse, End
<1> QED BY <1>1, EndPasses DEF Refuse, Tables
LEMMA AnswerPasses ==
    ASSUME NEW p \in Procs, NEW what, Answer(p, what)
    PROVE  Passing(p)
<1>1. \E exit : EndWith(p, what, exit)
  BY DEF Answer, Finish
<1> QED BY <1>1, EndPasses DEF Answer, Finish, Tables

LEMMA RestorePasses ==
    ASSUME AuditInv, NEW p \in Procs, Busy(p), NEW texts, Move(p, RestoreTexts(p, texts))
    PROVE  Passing(p)
<1>1. IsProcess(me(p))
  BY RecordFields
<1>2. RestoreTexts(p, texts).command = command(p) /\ RestoreTexts(p, texts).stage \in {"load", "restored"}
  BY <1>1 DEF RestoreTexts, IsProcess, Fields, command, me
<1> QED BY <1>2, MovePasses DEF Rotation, Keyed

(* Every action of a proposal that comes after its session, and every one of an approval. *)
Tells(p) == Tell(p) \/ Remember(p) \/ ParseRepair(p) \/ ParseRules(p) \/ Preflight(p)
Approves(p) == CountRows(p) \/ CountFailures(p) \/ ReadExamples(p)

LEMMA AsksPass ==
    ASSUME AuditInv, KeyInv, NEW p \in Procs, Asks(p)
    PROVE  KeyInv'
<1>1. Busy(p) /\ ~Rotating(p)
  BY NotRotating DEF Asks, Lookup, TimesOut, Breaks, Answers, Rotation
<1>2. \/ \E x \in {"ask", "failed"} : Stage(p, x)
      \/ \E x \in {"parse", "ask", "record"} : \E w : Advance(p, x, w)
  BY DEF Asks, Lookup, TimesOut, Breaks, Answers
<1> QED BY <1>1, <1>2, StagePasses, AdvancePasses, PassingKeeps DEF Rotation, Keyed

LEMMA TellsPass ==
    ASSUME AuditInv, KeyInv, NEW p \in Procs, Tells(p)
    PROVE  KeyInv'
<1>1. Busy(p) /\ ~Rotating(p)
  BY NotRotating DEF Tells, Tell, Remember, ParseRepair, ParseRules, Preflight, Rotation
<1>2. \/ \E what : Answer(p, what)
      \/ Move(p, [me(p) EXCEPT !.stage = "parse"])
      \/ \E x \in {"estimate", "save rule"} : Stage(p, x)
      \/ \E w : Advance(p, "item", w)
  BY DEF Tells, Tell, Remember, ParseRepair, ParseRules, Preflight, DropItem
<1>3. CASE \E what : Answer(p, what)
  BY <1>1, <1>3, AnswerPasses, PassingKeeps
<1>4. CASE Move(p, [me(p) EXCEPT !.stage = "parse"])
  <2>1. "parse" \notin Rotation \cup Keyed
    BY DEF Rotation, Keyed
  <2>2. PICK r : r = [me(p) EXCEPT !.stage = "parse"]
    OBVIOUS
  <2>3. r.command = command(p) /\ r.stage = "parse"
    BY <1>1, <2>2, RecordFields
  <2>4. Move(p, r)
    BY <1>4, <2>2
  <2>5. Passing(p)
    BY <2>1, <2>3, <2>4, MovePasses
  <2> QED BY <1>1, <2>5, PassingKeeps
<1>5. CASE \E x \in {"estimate", "save rule"} : Stage(p, x)
  BY <1>1, <1>5, StagePasses, PassingKeeps DEF Rotation, Keyed
<1>6. CASE \E w : Advance(p, "item", w)
  BY <1>1, <1>6, AdvancePasses, PassingKeeps DEF Rotation, Keyed
<1> QED BY <1>2, <1>3, <1>4, <1>5, <1>6

LEMMA ApprovesPass ==
    ASSUME AuditInv, KeyInv, NEW p \in Procs, Approves(p)
    PROVE  KeyInv'
<1>1. Busy(p) /\ ~Rotating(p)
  BY NotRotating DEF Approves, CountRows, CountFailures, ReadExamples, Rotation
<1>2. \/ \E what : Answer(p, what)
      \/ Stage(p, "activate")
      \/ \E x \in {"failures", "activate", "examples"} : \E w : Advance(p, x, w)
  BY DEF Approves, CountRows, CountFailures, ReadExamples
<1> QED BY <1>1, <1>2, AnswerPasses, StagePasses, AdvancePasses, PassingKeeps DEF Rotation, Keyed

LEMMA RecordsPass ==
    ASSUME AuditInv, KeyInv, NEW p \in Procs, RecordFailure(p) \/ RecordCall(p)
    PROVE  KeyInv'
<1>1. Busy(p) /\ ~Rotating(p)
  BY NotRotating DEF RecordFailure, RecordCall, Rotation
<1>2. \E x \in {"tell", "remember"} : Set(p, [me(p) EXCEPT !.stage = x])
  BY DEF RecordFailure, RecordCall, Record
<1>3. /\ UNCHANGED <<sessions, env, keyFile, raced, issued>> /\ invocations \subseteq invocations'
  BY DEF RecordFailure, RecordCall, Record, KeptByVault
<1>4. Passing(p)
  BY <1>1, <1>2, <1>3, RecordFields DEF Passing, Rotation, Keyed
<1> QED BY <1>1, <1>4, PassingKeeps

LEMMA RestsPass ==
    ASSUME AuditInv, KeyInv, NEW p \in Procs, Estimate(p) \/ NextItem(p)
    PROVE  KeyInv'
<1>1. Busy(p) /\ ~Rotating(p)
  BY NotRotating DEF Estimate, NextItem, Rotation
<1>2. (\E what : Answer(p, what)) \/ (\E texts : Move(p, RestoreTexts(p, texts)))
  BY DEF Estimate, NextItem
<1> QED BY <1>1, <1>2, AnswerPasses, RestorePasses, PassingKeeps

LEMMA SavesPass ==
    ASSUME AuditInv, KeyInv, NEW p \in Procs, SaveProposal(p) \/ SaveRule(p) \/ Activate(p)
    PROVE  KeyInv'
<1>1. Busy(p) /\ ~Rotating(p)
  BY NotRotating DEF SaveProposal, SaveRule, Activate, Rotation
<1>2. \/ (\E what, exit : EndWith(p, what, exit) /\ UNCHANGED Tables)
      \/ Move(p, [me(p) EXCEPT !.stage = "item"])
  BY DEF SaveProposal, SaveRule, Activate, Finish
<1>3. CASE \E what, exit : EndWith(p, what, exit) /\ UNCHANGED Tables
  BY <1>1, <1>3, EndPasses, PassingKeeps DEF Tables
<1>4. CASE Move(p, [me(p) EXCEPT !.stage = "item"])
  <2>1. "item" \notin Rotation \cup Keyed
    BY DEF Rotation, Keyed
  <2>2. PICK r : r = [me(p) EXCEPT !.stage = "item"]
    OBVIOUS
  <2>3. r.command = command(p) /\ r.stage = "item"
    BY <1>1, <2>2, RecordFields
  <2>4. Move(p, r)
    BY <1>4, <2>2
  <2>5. Passing(p)
    BY <2>1, <2>3, <2>4, MovePasses
  <2> QED BY <1>1, <2>5, PassingKeeps
<1> QED BY <1>2, <1>3, <1>4

----------------------------------------------------------------------------
(* The commands of the vault that rotate nothing. *)
LEMMA OpenKeepsKeys ==
    ASSUME AuditInv, KeyInv, NEW p \in Procs, Open(p)
    PROVE  KeyInv'
<1>1. Busy(p) /\ Proposing(p) /\ ~Rotating(p)
  BY AtIsBusy DEF Open, Proposing, Rotating, command
<1>2. CASE \E what : Answer(p, what)
  BY <1>1, <1>2, AnswerPasses, PassingKeeps
<1>3. CASE Move(p, [me(p) EXCEPT !.key = Configured, !.stage = "profile"])
  <2> DEFINE r == [me(p) EXCEPT !.key = Configured, !.stage = "profile"]
  <2>1. r.command = command(p) /\ r.stage = "profile" /\ r.key = Configured
    BY <1>1, RecordFields DEF IsProcess, Fields, command, me
  <2>2. /\ Set(p, r) /\ invocations' = invocations
        /\ UNCHANGED <<sessions, env, keyFile, raced, issued>>
    BY <1>3 DEF Move, Tables, KeptByVault
  <2> HIDE DEF r
  <2>3. ~Encrypting(me(p)) /\ ~Encrypting(r)
    BY <1>1, <2>1 DEF KeyInv, RotationInv, Encrypting, Rotation
  <2> QED BY <1>1, <2>1, <2>2, <2>3, AsideKeeps
<1> QED BY <1>2, <1>3 DEF Open

(* Between two of these stages the key is the one that was found when the vault was bound. *)
LEMMA KeyedKeeps ==
    ASSUME AuditInv, KeyInv, NEW p \in Procs, Busy(p), ~Rotating(p), me(p).stage \in Keyed,
           NEW r, Set(p, r), r.command = command(p), r.key = me(p).key, r.stage \notin Rotation,
           UNCHANGED <<sessions, env, keyFile, raced, issued, invocations>>
    PROVE  KeyInv'
<1>1. Undisturbed => Effective(r.key) = Effective(Configured)
  BY DEF KeyInv, RowsInv, Key
<1>2. ~Encrypting(me(p)) /\ ~Encrypting(r) /\ r.stage # "rotate"
  BY DEF KeyInv, RotationInv, Encrypting, Rotation
<1> QED BY <1>1, <1>2, AsideKeeps

LEMMA ProfileKeepsKeys ==
    ASSUME AuditInv, KeyInv, NEW p \in Procs, Profile(p) \/ Sample(p)
    PROVE  KeyInv'
<1>1. Busy(p) /\ ~Rotating(p) /\ me(p).stage \in Keyed
  BY NotRotating DEF Profile, Sample, Rotation, Keyed, At, me
<1>2. CASE Answer(p, "error")
  BY <1>1, <1>2, AnswerPasses, PassingKeeps
<1>3. ASSUME NEW r, Move(p, r), r.command = command(p), r.key = me(p).key, r.stage \notin Rotation
      PROVE  KeyInv'
  BY <1>1, <1>3, KeyedKeeps DEF Move, Tables, KeptByVault
<1>4. ASSUME NEW m, NEW s, NEW x \in {"lookup", "session"}, Move(p, [me(p) EXCEPT !.mapping = m, !.session = s, !.stage = x])
      PROVE  KeyInv'
  <2> DEFINE r == [me(p) EXCEPT !.mapping = m, !.session = s, !.stage = x]
  <2>1. r.command = command(p) /\ r.key = me(p).key /\ r.stage = x
    BY <1>1, RecordFields DEF IsProcess, Fields, command, me
  <2>2. Move(p, r)
    BY <1>4
  <2> HIDE DEF r
  <2> QED BY <1>3, <2>1, <2>2 DEF Rotation
<1>5. ASSUME NEW w, Advance(p, "sample", w)
      PROVE  KeyInv'
  <2> DEFINE r == [me(p) EXCEPT !.stage = "sample"]
  <2>1. r.command = command(p) /\ r.key = me(p).key /\ r.stage = "sample"
    BY <1>1, RecordFields
  <2>2. Move(p, r)
    BY <1>5 DEF Advance
  <2> HIDE DEF r
  <2> QED BY <1>3, <2>1, <2>2 DEF Rotation
<1> QED BY <1>2, <1>4, <1>5 DEF Profile, Sample

LEMMA SaveMappingKeepsKeys ==
    ASSUME AuditInv, KeyInv, NEW p \in Procs, SaveMapping(p)
    PROVE  KeyInv'
<1>1. Busy(p) /\ ~Rotating(p) /\ me(p).stage \in Keyed
  BY NotRotating DEF SaveMapping, Rotation, Keyed, At, me
<1>2. CASE EndWith(p, "conflict", "error") /\ UNCHANGED Tables
  BY <1>1, <1>2, EndPasses, PassingKeeps DEF Tables
<1>3. ASSUME NEW x \in {"lookup", "save session"}, Move(p, [me(p) EXCEPT !.stage = x])
      PROVE  KeyInv'
  BY <1>1, <1>3, KeyedKeeps, RecordFields DEF Move, Tables, KeptByVault, Rotation
<1> QED BY <1>2, <1>3 DEF SaveMapping

(* The row that is written is under the configured key, which no rotation is replacing. *)
LEMMA WriteMappingKeepsKeys ==
    ASSUME AuditInv, KeyInv, NEW p \in Procs, WriteMapping(p)
    PROVE  KeyInv'
<1> DEFINE r == [me(p) EXCEPT !.stage = "lookup"]
<1>1. Busy(p) /\ ~Rotating(p) /\ me(p).stage \in Keyed
  BY NotRotating DEF WriteMapping, Rotation, Keyed, At, me
<1>2. proc'[p] = r /\ \A q \in Procs \ {p} : proc'[q] = proc[q]
  BY OthersStay DEF WriteMapping
<1>3. r.command = command(p) /\ r.stage = "lookup" /\ r.key = me(p).key
  BY <1>1, RecordFields
<1>4. UNCHANGED <<env, keyFile, raced, issued, invocations>> /\ sessions' = Put(Row(p))
  BY DEF WriteMapping, KeptByVault
<1>5. IsFiniteSet(sessions') /\ \A x \in sessions' : IsRow(x)
  <2>1. IsFiniteSet({o \in sessions : o.id # Row(p).id})
    BY FS_Subset DEF KeyInv
  <2>2. IsRow(Row(p))
    BY DEF IsRow, RowFields, Row
  <2> QED BY <1>4, <2>1, <2>2, FS_AddElement DEF KeyInv, Put
<1>6. \A q \in Procs : proc'[q] # Idle =>
        /\ proc[q] # Idle /\ proc'[q].command = proc[q].command
        /\ q = p \/ proc'[q] = proc[q]
        /\ proc'[q].stage \in Rotation \cup {"bind"} => q # p
  BY <1>1, <1>2, <1>3 DEF Busy, command, me, Rotation
<1> HIDE DEF r
<1>7. RotationInv'
  <2>1. ~(proc[p].command.call = "rotate")
    BY <1>1 DEF Rotating, Busy, command
  <2> QED BY <1>6, <2>1 DEF KeyInv, RotationInv, Rotating, command, me, Busy, Rotation, Encrypting
<1>8. ASSUME Undisturbed'
      PROVE  RowsInv'
  <2>1. Undisturbed /\ RowsInv
    BY <1>4, <1>8, ExceptionsStay DEF KeyInv
  <2>2. Configured' = Configured /\ Effective(Configured)' = Effective(Configured)
    BY <1>4 DEF Configured, Effective
  <2>3. \A q \in Procs : proc[q] # Idle => ~Rotating(q)
    BY <1>1, <2>1 DEF RowsInv, Busy
  <2>4. \A q \in Procs : proc'[q] # Idle => ~Rotating(q)' /\ proc'[q].stage \notin Rotation
    BY <1>2, <1>3, <1>6, <2>3 DEF KeyInv, RotationInv, Rotating, Busy, me, Rotation
  <2>5. \A q \in Procs : proc[q] # Idle => ~Encrypting(proc[q])
    BY <2>3 DEF KeyInv, RotationInv, Encrypting, Rotation, Busy, me
  <2>6. \A x \in sessions' : x.key = Effective(Configured)
    <3>1. \A x \in sessions : x.key = Effective(Configured)
      BY <2>1, <2>5 DEF RowsInv, Busy, me
    <3>2. Row(p).key = Effective(Configured)
      BY <1>1, <2>1 DEF RowsInv, Row
    <3> QED BY <1>4, <3>1, <3>2 DEF Put
  <2>7. \A q \in Procs : proc'[q] # Idle /\ proc'[q].stage \in Keyed => Effective(proc'[q].key) = Effective(Configured)
    <3> SUFFICES ASSUME NEW q \in Procs, proc'[q] # Idle, proc'[q].stage \in Keyed
                 PROVE  Effective(proc'[q].key) = Effective(Configured)
      OBVIOUS
    <3>1. \A o \in Procs : proc[o] # Idle /\ proc[o].stage \in Keyed => Effective(proc[o].key) = Effective(Configured)
      BY <2>1 DEF RowsInv, Busy, me, Key
    <3>2. CASE q = p
      <4>1. proc'[q].key = proc[p].key /\ proc[p] # Idle /\ proc[p].stage \in Keyed
        BY <1>1, <1>2, <1>3, <3>2 DEF Busy, me
      <4> QED BY <3>1, <4>1
    <3>3. CASE q # p
      <4>1. proc'[q] = proc[q]
        BY <1>2, <3>3
      <4> QED BY <3>1, <4>1
    <3> QED BY <3>2, <3>3
  <2> QED BY <2>2, <2>4, <2>6, <2>7 DEF RowsInv, Busy, me, Key, Effective, Rotation
<1> QED BY <1>4, <1>5, <1>7, <1>8 DEF KeyInv

LEMMA TextsPass ==
    ASSUME AuditInv, KeyInv, NEW p \in Procs, LoadMapping(p) \/ AuditRestore(p) \/ Show(p)
    PROVE  KeyInv'
<1>1. Busy(p) /\ ~Rotating(p) /\ IsProcess(me(p))
  BY NotRotating, RecordFields DEF LoadMapping, AuditRestore, Show, Rotation
<1>2. CASE \E what : Refuse(p, what)
  BY <1>1, <1>2, RefusePasses, PassingKeeps
<1>3. ASSUME NEW m, Move(p, [me(p) EXCEPT !.mapping = m, !.stage = "audit"])
      PROVE  KeyInv'
  <2> DEFINE r == [me(p) EXCEPT !.mapping = m, !.stage = "audit"]
  <2>1. r.command = command(p) /\ r.stage = "audit" /\ Move(p, r)
    BY <1>1, <1>3 DEF IsProcess, Fields, command, me
  <2> HIDE DEF r
  <2> QED BY <1>1, <2>1, MovePasses, PassingKeeps DEF Rotation, Keyed
<1>4. CASE AuditRestore(p)
  <2> DEFINE x == IF Len(me(p).texts) > 1 THEN "load" ELSE "restored"
             r == [me(p) EXCEPT !.restored = Append(@, restore(Head(me(p).texts), me(p).mapping)),
                                !.texts = Tail(@), !.stage = x]
  <2>1. r.command = command(p) /\ r.stage \in {"load", "restored"}
    BY <1>1 DEF IsProcess, Fields, command, me
  <2>2. Set(p, r) /\ UNCHANGED <<sessions, env, keyFile, raced, issued>> /\ invocations \subseteq invocations'
    BY <1>4 DEF AuditRestore, KeptByVault
  <2> HIDE DEF r, x
  <2>3. Passing(p)
    BY <2>1, <2>2 DEF Passing, Rotation, Keyed
  <2> QED BY <1>1, <2>3, PassingKeeps
<1> QED BY <1>2, <1>3, <1>4 DEF LoadMapping, Show

LEMMA RemovesPass ==
    ASSUME AuditInv, KeyInv, NEW p \in Procs, Delete(p) \/ ListOld(p) \/ DropOld(p)
    PROVE  KeyInv'
<1>1. Busy(p) /\ ~Rotating(p) /\ IsProcess(me(p))
  BY NotRotating, RecordFields DEF Delete, ListOld, DropOld, Rotation
<1>2. CASE Delete(p)
  <2>1. \E what, exit : EndWith(p, what, exit)
    BY <1>2 DEF Delete, End
  <2>2. UNCHANGED <<keyFile, issued, invocations>> /\ sessions' \subseteq sessions
    BY <1>2 DEF Delete
  <2> QED BY <1>1, <2>1, <2>2, EndPasses, PassingKeeps
<1>3. CASE Refuse(p, "done")
  BY <1>1, <1>3, RefusePasses, PassingKeeps
<1>4. ASSUME NEW r, Set(p, r), r.command = command(p), r.stage = "drop",
             UNCHANGED <<env, keyFile, raced, issued, invocations>>, sessions' \subseteq sessions
      PROVE  KeyInv'
  BY <1>1, <1>4, PassingKeeps DEF Passing, Rotation, Keyed
<1>5. CASE ListOld(p)
  <2>1. PICK ids : Move(p, [me(p) EXCEPT !.stage = "drop", !.left = ids])
    BY <1>5 DEF ListOld
  <2> DEFINE r == [me(p) EXCEPT !.stage = "drop", !.left = ids]
  <2>2. r.command = command(p) /\ r.stage = "drop"
    BY <1>1 DEF IsProcess, Fields, command, me
  <2>3. Set(p, r) /\ UNCHANGED <<sessions, env, keyFile, raced, issued, invocations>>
    BY <2>1 DEF Move, Tables, KeptByVault
  <2> HIDE DEF r
  <2> QED BY <1>4, <2>2, <2>3
<1>6. CASE DropOld(p) /\ me(p).left # <<>>
  <2> DEFINE r == [me(p) EXCEPT !.left = Tail(@)]
  <2>1. r.command = command(p) /\ r.stage = "drop"
    BY <1>1, <1>6 DEF IsProcess, Fields, command, me, DropOld, At
  <2>2. Set(p, r) /\ UNCHANGED <<env, keyFile, raced, issued, invocations>> /\ sessions' \subseteq sessions
    BY <1>6 DEF DropOld, KeptByVault
  <2> HIDE DEF r
  <2> QED BY <1>4, <2>1, <2>2
<1>7. DropOld(p) /\ me(p).left = <<>> => Refuse(p, "done")
  BY DEF DropOld
<1> QED BY <1>2, <1>3, <1>5, <1>6, <1>7


----------------------------------------------------------------------------
(* Beginning, binding and dying. *)
LEMMA BindKeepsKeys ==
    ASSUME AuditInv, KeyInv, NEW p \in Procs, Bind(p)
    PROVE  KeyInv'
<1> DEFINE x == IF command(p).call \in {"restore", "summary"} THEN "load" ELSE command(p).call
           r == [me(p) EXCEPT !.key = Configured, !.session = command(p).session,
                              !.texts = command(p).texts, !.stage = x]
<1>1. Busy(p) /\ me(p).stage = "bind" /\ IsProcess(me(p)) /\ ~Encrypting(me(p))
  BY AtIsBusy, RecordFields DEF Bind, At, me, Encrypting
<1>2. CASE Refuse(p, "disabled")
  <2>1. PICK exit : EndWith(p, "disabled", exit) /\ UNCHANGED Tables
    BY <1>2 DEF Refuse, End
  <2>2. Set(p, Idle) /\ UNCHANGED <<sessions, env, keyFile, raced, issued, invocations>>
    BY <2>1 DEF EndWith, KeptByVault, Tables
  <2> QED BY <1>1, <2>2, AsideKeeps
<1>3. CASE Move(p, r)
  <2>1. r.command = command(p) /\ r.stage = x /\ r.key = Configured
    BY <1>1 DEF IsProcess, Fields, command, me
  <2>2. Set(p, r) /\ UNCHANGED <<sessions, env, keyFile, raced, issued, invocations>>
    BY <1>3 DEF Move, Tables, KeptByVault
  <2>3. x \in {"load", "delete", "purge", "rotate"} /\ (x = "rotate" <=> Rotating(p))
    BY <1>1 DEF Bind, Rotating, Busy, command
  <2>4. ~Encrypting(r)
    BY <2>1, <2>3 DEF Encrypting
  <2> HIDE DEF r, x
  <2> QED BY <1>1, <2>1, <2>2, <2>3, <2>4, AsideKeeps
<1> QED BY <1>2, <1>3 DEF Bind

LEMMA BeginKeepsKeys ==
    ASSUME AuditInv, KeyInv, NEW p \in Procs, NEW c \in VaultCommands \cup AssistCommands, Begin(p, c)
    PROVE  KeyInv'
<1> DEFINE r == [command |-> c, stage |-> "bind", key |-> NoKey, new |-> NoKey, session |-> NoSession,
                 mapping |-> <<>>, left |-> <<>>, texts |-> <<>>, restored |-> <<>>]
<1>1. Set(p, r)
  BY DEF Begin
<1>2. r.command = c /\ r.stage = "bind"
  OBVIOUS
<1>3. proc[p] = Idle /\ UNCHANGED <<sessions, env, keyFile, issued, invocations>>
  BY DEF Begin, me, Tables, KeptByVault
<1>4. raced' = (raced \/ (\E q \in Active : Rotating(q)) \/ (c.call = "rotate" /\ Active # {}))
  BY DEF Begin
<1> HIDE DEF r
<1>5. proc'[p] = r /\ \A q \in Procs \ {p} : proc'[q] = proc[q]
  BY <1>1, OthersStay
<1>6. c.call = "rotate" => c.material # NoKey
  BY MaterialAssumption, CommandsAssumption
<1>7. RotationInv'
  <2> SUFFICES ASSUME NEW q \in Procs, proc'[q] # Idle
               PROVE  /\ proc'[q].stage \in Rotation => proc'[q].command.call = "rotate"
                      /\ proc'[q].command.call = "rotate" =>
                            proc'[q].stage \in Rotation \cup {"bind"} /\ proc'[q].command.material # NoKey
                      /\ Encrypting(proc'[q]) => proc'[q].new # NoKey
                      /\ proc'[q].stage = "encrypt" => Listed(proc'[q].left)
    BY DEF RotationInv, Rotating, Busy, command, me
  <2>1. CASE q = p
    BY <1>2, <1>5, <1>6, <2>1 DEF Encrypting, Rotation
  <2>2. CASE q # p
    BY <1>5, <2>2 DEF KeyInv, RotationInv, Rotating, Busy, command, me
  <2> QED BY <2>1, <2>2
<1>8. ASSUME Undisturbed'
      PROVE  RowsInv'
  <2>1. Undisturbed /\ RowsInv
    BY <1>3, <1>4, <1>8 DEF KeyInv, Undisturbed
  <2>2. Configured' = Configured /\ Effective(Configured)' = Effective(Configured)
    BY <1>3 DEF Configured, Effective
  <2>3. \A q \in Procs : proc[q] # Idle => proc[q].command.call # "rotate" /\ c.call # "rotate"
    BY <1>4, <1>8 DEF Undisturbed, Active, Rotating
  <2>4. \A q1, q2 \in Procs : proc'[q1] # Idle /\ proc'[q2] # Idle /\ proc'[q1].command.call = "rotate" => q1 = q2
    BY <1>2, <1>5, <2>3
  <2>5. \A q \in Procs : proc'[q] # Idle /\ proc'[q].stage # "bind" => proc'[q] = proc[q] /\ proc[q] # Idle
    BY <1>2, <1>5
  <2>6. (\A q \in Procs : proc'[q] # Idle => ~Encrypting(proc'[q])) => \A y \in sessions : y.key = Effective(Configured)
    BY <1>3, <1>5, <2>1 DEF RowsInv, Busy, me
  <2>7. \A q \in Procs : proc'[q] # Idle /\ proc'[q].stage \in Keyed \cup {"rotate", "encrypt"} =>
            Effective(proc'[q].key) = Effective(Configured)
    BY <2>1, <2>5 DEF RowsInv, Busy, me, Key, Keyed
  <2>8. \A q \in Procs : proc'[q] # Idle /\ proc'[q].stage = "encrypt" =>
          /\ \A k \in DOMAIN proc'[q].left : proc'[q].left[k].key = Effective(proc'[q].key)
          /\ \A x \in sessions : x.key = proc'[q].new \/ \E k \in DOMAIN proc'[q].left : proc'[q].left[k] = x
    <3> SUFFICES ASSUME NEW q \in Procs, proc'[q] # Idle, proc'[q].stage = "encrypt"
                 PROVE  /\ \A k \in DOMAIN proc'[q].left : proc'[q].left[k].key = Effective(proc'[q].key)
                        /\ \A x \in sessions : x.key = proc'[q].new \/ \E k \in DOMAIN proc'[q].left : proc'[q].left[k] = x
      OBVIOUS
    <3>1. proc'[q] = proc[q] /\ proc[q] # Idle
      BY <2>5
    <3> QED BY <2>1, <3>1 DEF RowsInv, Busy, me, Key
  <2>9. \A q \in Procs : proc'[q] # Idle /\ proc'[q].stage = "rotated" =>
          keyFile' = proc'[q].new /\ \A x \in sessions : x.key = proc'[q].new
    BY <1>3, <2>1, <2>5 DEF RowsInv, Busy, me
  <2> QED BY <1>3, <2>2, <2>4, <2>6, <2>7, <2>8, <2>9 DEF RowsInv, Busy, me, Key, Rotating, Effective
<1> QED BY <1>3, <1>4, <1>7, <1>8 DEF KeyInv

LEMMA CrashKeepsKeys ==
    ASSUME AuditInv, KeyInv, NEW p \in Procs, Crash(p)
    PROVE  KeyInv'
<1>1. Busy(p) /\ Set(p, Idle) /\ UNCHANGED <<sessions, env, keyFile, issued, invocations>>
  BY DEF Crash, Busy, me, Tables
<1>2. raced' = (raced \/ Rotating(p))
  BY DEF Crash
<1>3. CASE Rotating(p)
  <2>1. proc'[p] = Idle /\ \A q \in Procs \ {p} : proc'[q] = proc[q]
    BY <1>1, OthersStay
  <2>2. RotationInv'
    BY <2>1 DEF KeyInv, RotationInv, Rotating, Busy, command, me
  <2>3. ~Undisturbed'
    BY <1>2, <1>3 DEF Undisturbed
  <2> QED BY <1>1, <1>2, <2>2, <2>3 DEF KeyInv
<1>4. CASE ~Rotating(p)
  <2>1. ~Encrypting(me(p))
    BY <1>1, <1>4 DEF KeyInv, RotationInv, Encrypting, Rotation
  <2>2. raced' = raced
    BY <1>2, <1>4 DEF KeyInv
  <2> QED BY <1>1, <2>1, <2>2, AsideKeeps
<1> QED BY <1>3, <1>4

----------------------------------------------------------------------------
(* The steps of a rotation, which is alone. *)
LEMMA RotatorKeeps ==
    ASSUME AuditInv, KeyInv, NEW p \in Procs, Busy(p), Rotating(p), NEW r, Set(p, r),
           env' = env, raced' = raced, invocations \subseteq invocations',
           issued' \in Nat, IsFiniteSet(sessions'), \A x \in sessions' : IsRow(x),
           r # Idle => /\ r.command = command(p) /\ Encrypting(r) /\ r.new # NoKey
                       /\ r.stage = "encrypt" => Listed(r.left),
           Undisturbed' =>
              /\ r = Idle => \A x \in sessions' : x.key = Effective(Configured')
              /\ r # Idle /\ r.stage = "encrypt" =>
                    /\ Effective(r.key) = Effective(Configured')
                    /\ \A k \in DOMAIN r.left : r.left[k].key = Effective(r.key)
                    /\ \A x \in sessions' : x.key = r.new \/ \E k \in DOMAIN r.left : r.left[k] = x
              /\ r # Idle /\ r.stage = "rotated" => keyFile' = r.new /\ \A x \in sessions' : x.key = r.new
    PROVE  KeyInv'
<1>1. proc'[p] = r /\ \A q \in Procs \ {p} : proc'[q] = proc[q]
  BY OthersStay
<1>2. RotationInv'
  <2> SUFFICES ASSUME NEW q \in Procs, proc'[q] # Idle
               PROVE  /\ proc'[q].stage \in Rotation => proc'[q].command.call = "rotate"
                      /\ proc'[q].command.call = "rotate" =>
                            proc'[q].stage \in Rotation \cup {"bind"} /\ proc'[q].command.material # NoKey
                      /\ Encrypting(proc'[q]) => proc'[q].new # NoKey
                      /\ proc'[q].stage = "encrypt" => Listed(proc'[q].left)
    BY DEF RotationInv, Rotating, Busy, command, me
  <2>1. CASE q = p
    BY <1>1, <2>1 DEF KeyInv, RotationInv, Rotating, Busy, command, me, Encrypting, Rotation
  <2>2. CASE q # p
    BY <1>1, <2>2 DEF KeyInv, RotationInv, Rotating, Busy, command, me
  <2> QED BY <2>1, <2>2
<1>3. ASSUME Undisturbed'
      PROVE  RowsInv'
  <2>1. Undisturbed /\ RowsInv
    BY <1>3, ExceptionsStay DEF KeyInv
  <2>2. \A q \in Procs : proc'[q] # Idle => q = p /\ r # Idle /\ proc'[q] = r
    BY <1>1, <2>1 DEF RowsInv, Busy
  <2>3. Effective(Configured)' = Effective(Configured')
    BY DEF Effective
  <2>4. r # Idle => r.stage \in {"encrypt", "rotated"}
    BY DEF Encrypting
  <2>5. (\A q \in Procs : Busy(q)' => ~Encrypting(me(q))') => r = Idle
    BY <1>1 DEF Busy, me, Encrypting
  <2>6. \A q \in Procs : Busy(q)' /\ me(q)'.stage \in Keyed \cup {"rotate", "encrypt"} => Key(q)' = Effective(Configured)'
    BY <1>3, <2>2, <2>3, <2>4 DEF Busy, me, Key, Effective, Keyed
  <2>7. \A q \in Procs : Busy(q)' /\ me(q)'.stage = "encrypt" =>
          /\ \A k \in DOMAIN me(q)'.left : me(q)'.left[k].key = Key(q)'
          /\ \A x \in sessions' : x.key = me(q)'.new \/ \E k \in DOMAIN me(q)'.left : me(q)'.left[k] = x
    <3> SUFFICES ASSUME NEW q \in Procs, proc'[q] # Idle, proc'[q].stage = "encrypt"
                 PROVE  /\ \A k \in DOMAIN proc'[q].left : proc'[q].left[k].key = Effective(proc'[q].key)
                        /\ \A x \in sessions' : x.key = proc'[q].new \/ \E k \in DOMAIN proc'[q].left : proc'[q].left[k] = x
      BY DEF Busy, me, Key, Effective
    <3>1. proc'[q] = r /\ r # Idle
      BY <2>2
    <3> QED BY <1>3, <3>1
  <2>8. \A q \in Procs : Busy(q)' /\ me(q)'.stage = "rotated" =>
          keyFile' = me(q)'.new /\ \A x \in sessions' : x.key = me(q)'.new
    BY <1>3, <2>2 DEF Busy, me
  <2> QED BY <1>3, <2>2, <2>3, <2>5, <2>6, <2>7, <2>8 DEF RowsInv, Busy
<1> QED BY <1>2, <1>3 DEF KeyInv

LEMMA StartRotationKeepsKeys ==
    ASSUME AuditInv, KeyInv, NEW p \in Procs, StartRotation(p)
    PROVE  KeyInv'
<1> DEFINE random == command(p).material = Random
           new == IF random THEN RandomKeys[issued + 1] ELSE command(p).material
           r == [me(p) EXCEPT !.stage = "encrypt", !.left = SetToSeq(sessions), !.new = new]
<1>1. Busy(p) /\ Rotating(p) /\ IsProcess(me(p)) /\ me(p).stage = "rotate"
  BY AtIsBusy, RecordFields DEF StartRotation, At, me, KeyInv, RotationInv, Rotation
<1>2. new # NoKey /\ issued' \in Nat
  <2>1. command(p).material # NoKey /\ issued \in Nat
    BY <1>1 DEF KeyInv, RotationInv
  <2>2. CASE random
    <3>1. issued + 1 \in 1 .. Len(RandomKeys) /\ issued' = issued + 1
      BY <2>1, <2>2, MaterialAssumption DEF StartRotation
    <3>2. RandomKeys[issued + 1] \in ToSet(RandomKeys) \ {NoKey}
      BY <3>1, MaterialAssumption
    <3> QED BY <2>1, <2>2, <3>1, <3>2
  <2>3. CASE ~random
    BY <2>1, <2>3 DEF StartRotation
  <2> QED BY <2>2, <2>3
<1>3. Set(p, r) /\ UNCHANGED <<sessions, env, keyFile, raced, invocations>>
  BY DEF StartRotation, KeptByVault
<1>4. /\ r.command = command(p) /\ r.stage = "encrypt" /\ r.key = me(p).key
      /\ r.left = SetToSeq(sessions) /\ r.new = new
  BY <1>1 DEF IsProcess, Fields, command, me
<1>5. IsFiniteSet(sessions) /\ \A x \in sessions : IsRow(x)
  BY DEF KeyInv
<1>6. r.left \in Seq(sessions) /\ \A x \in sessions : \E k \in DOMAIN r.left : r.left[k] = x
  BY <1>4, <1>5, ListsAll
<1>7. \A k \in DOMAIN r.left : r.left[k] \in sessions
  BY <1>6
<1>8. Listed(r.left)
  BY <1>5, <1>6, <1>7 DEF Listed
<1> HIDE DEF r, new
<1>9. ASSUME Undisturbed'
      PROVE  Effective(r.key) = Effective(Configured') /\ \A x \in sessions : x.key = Effective(r.key)
  <2>1. Undisturbed /\ RowsInv
    BY <1>3, <1>9, ExceptionsStay DEF KeyInv
  <2>2. Configured' = Configured
    BY <1>3 DEF Configured
  <2>3. Effective(r.key) = Effective(Configured)
    BY <1>1, <1>4, <2>1 DEF RowsInv, Key
  <2>4. \A q \in Procs : Busy(q) => ~Encrypting(me(q))
    BY <1>1, <2>1 DEF RowsInv, KeyInv, RotationInv, Encrypting, Rotation
  <2> QED BY <2>1, <2>2, <2>3, <2>4 DEF RowsInv
<1> QED BY <1>1, <1>2, <1>3, <1>4, <1>5, <1>6, <1>7, <1>8, <1>9, RotatorKeeps DEF Encrypting

LEMMA RestListed ==
    ASSUME NEW s, Listed(s), s # <<>>
    PROVE  /\ Listed(Tail(s)) /\ 1 \in DOMAIN s /\ Head(s) = s[1]
           /\ \A k \in DOMAIN s : k = 1 \/ \E j \in DOMAIN Tail(s) : Tail(s)[j] = s[k]
           /\ \A j \in DOMAIN Tail(s) : j + 1 \in DOMAIN s /\ Tail(s)[j] = s[j + 1]
<1>1. PICK S : s \in Seq(S)
  BY DEF Listed
<1>2. /\ Len(s) \in Nat /\ Len(s) > 0 /\ DOMAIN s = 1 .. Len(s)
      /\ Tail(s) \in Seq(S) /\ DOMAIN Tail(s) = 1 .. Len(s) - 1
      /\ \A j \in 1 .. Len(s) - 1 : Tail(s)[j] = s[j + 1]
      /\ Head(s) = s[1]
  BY <1>1
<1>3. \A k \in DOMAIN s : k = 1 \/ \E j \in DOMAIN Tail(s) : Tail(s)[j] = s[k]
  <2> SUFFICES ASSUME NEW k \in DOMAIN s, k # 1
               PROVE  \E j \in DOMAIN Tail(s) : Tail(s)[j] = s[k]
    OBVIOUS
  <2>1. k - 1 \in DOMAIN Tail(s) /\ Tail(s)[k - 1] = s[k]
    BY <1>2
  <2> QED BY <2>1
<1>4. \A j \in DOMAIN Tail(s) : j + 1 \in DOMAIN s /\ Tail(s)[j] = s[j + 1]
  BY <1>2
<1> QED BY <1>2, <1>3, <1>4 DEF Listed

LEMMA EncryptAnewKeepsKeys ==
    ASSUME AuditInv, KeyInv, NEW p \in Procs, EncryptAnew(p)
    PROVE  KeyInv'
<1> DEFINE row == Head(me(p).left)
           anew == [row EXCEPT !.key = me(p).new, !.created = Today]
           r == [me(p) EXCEPT !.left = Tail(@)]
<1>1. /\ Busy(p) /\ Rotating(p) /\ IsProcess(me(p)) /\ me(p).stage = "encrypt" /\ me(p).left # <<>>
      /\ Listed(me(p).left) /\ me(p).new # NoKey
  BY AtIsBusy, RecordFields DEF EncryptAnew, At, me, KeyInv, RotationInv, Rotation, Encrypting
<1>2. /\ Listed(Tail(me(p).left)) /\ 1 \in DOMAIN me(p).left /\ row = me(p).left[1]
      /\ \A k \in DOMAIN me(p).left : k = 1 \/ \E j \in DOMAIN Tail(me(p).left) : Tail(me(p).left)[j] = me(p).left[k]
      /\ \A j \in DOMAIN Tail(me(p).left) : j + 1 \in DOMAIN me(p).left /\ Tail(me(p).left)[j] = me(p).left[j + 1]
  BY <1>1, RestListed
<1>3. issued \in Nat /\ IsFiniteSet(sessions) /\ \A x \in sessions : IsRow(x)
  BY DEF KeyInv
<1>4. ASSUME UNCHANGED <<env, keyFile, raced>>, invocations \subseteq invocations', Undisturbed'
      PROVE  /\ Key(p) = Effective(Configured) /\ Configured' = Configured
             /\ \A k \in DOMAIN me(p).left : me(p).left[k].key = Key(p)
             /\ \A x \in sessions : x.key = me(p).new \/ \E k \in DOMAIN me(p).left : me(p).left[k] = x
  <2>1. Undisturbed /\ RowsInv
    BY <1>4, ExceptionsStay DEF KeyInv
  <2> QED BY <1>1, <1>4, <2>1 DEF RowsInv, Configured
<1>5. CASE row.key # Key(p) /\ Refuse(p, "key")
  <2>1. Set(p, Idle) /\ UNCHANGED <<sessions, env, keyFile, raced, issued, invocations>>
    BY <1>5 DEF Refuse, End, EndWith, KeptByVault, Tables
  <2>2. ~Undisturbed'
    BY <1>2, <1>4, <1>5, <2>1
  <2> QED BY <1>1, <1>3, <2>1, <2>2, RotatorKeeps
<1>6. CASE /\ sessions' = Put(anew) /\ Set(p, r)
           /\ UNCHANGED <<env, keyFile, raced, issued, invocations>>
  <2>1. /\ r.command = command(p) /\ r.stage = "encrypt" /\ r.key = me(p).key /\ r.new = me(p).new
        /\ r.left = Tail(me(p).left)
    BY <1>1 DEF IsProcess, Fields, command, me
  <2>2. IsRow(row)
    BY <1>1, <1>2 DEF Listed
  <2>3. IsRow(anew) /\ anew.key = me(p).new /\ anew.id = row.id
    BY <2>2 DEF IsRow, RowFields
  <2> HIDE DEF r, anew
  <2>4. IsFiniteSet(sessions')
    <3>1. IsFiniteSet({o \in sessions : o.id # anew.id})
      BY <1>3, FS_Subset
    <3> QED BY <1>6, <3>1, FS_AddElement DEF Put
  <2>5. \A x \in sessions' : x = anew \/ (x \in sessions /\ x.id # row.id)
    BY <1>6, <2>3 DEF Put
  <2>6. ASSUME Undisturbed'
        PROVE  /\ Effective(r.key) = Effective(Configured')
               /\ \A k \in DOMAIN r.left : r.left[k].key = Effective(r.key)
               /\ \A x \in sessions' : x.key = r.new \/ \E k \in DOMAIN r.left : r.left[k] = x
    <3>1. /\ Key(p) = Effective(Configured) /\ Configured' = Configured
          /\ \A k \in DOMAIN me(p).left : me(p).left[k].key = Key(p)
          /\ \A x \in sessions : x.key = me(p).new \/ \E k \in DOMAIN me(p).left : me(p).left[k] = x
      BY <1>4, <1>6, <2>6
    <3>2. Effective(r.key) = Key(p)
      BY <2>1 DEF Key
    <3>3. \A x \in sessions' : x.key = r.new \/ \E k \in DOMAIN r.left : r.left[k] = x
      BY <1>2, <2>1, <2>3, <2>5, <3>1
    <3>4. \A k \in DOMAIN r.left : r.left[k].key = Key(p)
      BY <1>2, <2>1, <3>1
    <3> QED BY <3>1, <3>2, <3>3, <3>4
  <2>7. Listed(r.left) /\ r.new # NoKey /\ Encrypting(r)
    BY <1>1, <1>2, <2>1 DEF Encrypting
  <2>8. \A x \in sessions' : IsRow(x)
    BY <1>3, <2>3, <2>5
  <2>9. r # Idle
    BY <2>1 DEF Idle
  <2>10. Undisturbed' =>
              /\ r = Idle => \A x \in sessions' : x.key = Effective(Configured')
              /\ r # Idle /\ r.stage = "encrypt" =>
                    /\ Effective(r.key) = Effective(Configured')
                    /\ \A k \in DOMAIN r.left : r.left[k].key = Effective(r.key)
                    /\ \A x \in sessions' : x.key = r.new \/ \E k \in DOMAIN r.left : r.left[k] = x
              /\ r # Idle /\ r.stage = "rotated" => keyFile' = r.new /\ \A x \in sessions' : x.key = r.new
    BY <2>1, <2>6, <2>9
  <2>11. r # Idle => /\ r.command = command(p) /\ Encrypting(r) /\ r.new # NoKey
                     /\ r.stage = "encrypt" => Listed(r.left)
    BY <2>1, <2>7
  <2>12. Set(p, r) /\ env' = env /\ raced' = raced /\ invocations \subseteq invocations' /\ issued' \in Nat
    BY <1>3, <1>6
  <2> QED BY <1>1, <2>4, <2>8, <2>10, <2>11, <2>12, RotatorKeeps
<1> QED BY <1>5, <1>6 DEF EncryptAnew, KeptByVault

LEMMA ReplaceKeyFileKeepsKeys ==
    ASSUME AuditInv, KeyInv, NEW p \in Procs, ReplaceKeyFile(p)
    PROVE  KeyInv'
<1> DEFINE r == [me(p) EXCEPT !.key = me(p).new, !.stage = "rotated"]
<1>1. /\ Busy(p) /\ Rotating(p) /\ IsProcess(me(p)) /\ me(p).stage = "encrypt" /\ me(p).left = <<>>
      /\ me(p).new # NoKey
  BY AtIsBusy, RecordFields DEF ReplaceKeyFile, At, me, KeyInv, RotationInv, Rotation, Encrypting
<1>2. /\ Set(p, r) /\ keyFile' = me(p).new
      /\ UNCHANGED <<sessions, env, raced, issued, invocations>>
  BY DEF ReplaceKeyFile, KeptByVault
<1>3. r.command = command(p) /\ r.stage = "rotated" /\ r.new = me(p).new
  BY <1>1 DEF IsProcess, Fields, command, me
<1> HIDE DEF r
<1>4. Undisturbed' => \A x \in sessions' : x.key = me(p).new
  <2> SUFFICES ASSUME Undisturbed' PROVE \A x \in sessions : x.key = me(p).new
    BY <1>2
  <2>1. RowsInv
    BY <1>2, ExceptionsStay DEF KeyInv
  <2> QED BY <1>1, <2>1 DEF RowsInv
<1>5. issued' \in Nat /\ IsFiniteSet(sessions') /\ \A x \in sessions' : IsRow(x)
  BY <1>2 DEF KeyInv
<1>6. Encrypting(r)
  BY <1>3 DEF Encrypting
<1>7. r # Idle
  BY <1>3 DEF Idle
<1>8. Undisturbed' =>
           /\ r = Idle => \A x \in sessions' : x.key = Effective(Configured')
           /\ r # Idle /\ r.stage = "encrypt" =>
                 /\ Effective(r.key) = Effective(Configured')
                 /\ \A k \in DOMAIN r.left : r.left[k].key = Effective(r.key)
                 /\ \A x \in sessions' : x.key = r.new \/ \E k \in DOMAIN r.left : r.left[k] = x
           /\ r # Idle /\ r.stage = "rotated" => keyFile' = r.new /\ \A x \in sessions' : x.key = r.new
  BY <1>2, <1>3, <1>4, <1>7
<1>9. r # Idle => /\ r.command = command(p) /\ Encrypting(r) /\ r.new # NoKey
                  /\ r.stage = "encrypt" => Listed(r.left)
  BY <1>1, <1>3, <1>6
<1>10. Set(p, r) /\ env' = env /\ raced' = raced /\ invocations \subseteq invocations'
  BY <1>2
<1> QED BY <1>1, <1>5, <1>8, <1>9, <1>10, RotatorKeeps

(* The audit of a rotation ends it: without a key in the environment the file's key is now *)
(* the configured one, and otherwise the exception has occurred.                            *)
LEMMA AuditRotationKeepsKeys ==
    ASSUME AuditInv, KeyInv, NEW p \in Procs, AuditRotation(p)
    PROVE  KeyInv'
<1>1. /\ Busy(p) /\ Rotating(p) /\ me(p).stage = "rotated" /\ me(p).new # NoKey
  BY AtIsBusy DEF AuditRotation, At, me, KeyInv, RotationInv, Rotation, Encrypting
<1>2. Set(p, Idle) /\ UNCHANGED <<sessions, keyFile, env, raced, issued>>
  BY DEF AuditRotation, End, EndWith, KeptByVault
<1> DEFINE n == Invocation("pii_key_rotate", "ok", NoSession, NoPrompt)
<1>3. invocations \subseteq invocations' /\ n \in invocations' /\ n.task = "pii_key_rotate"
  BY DEF AuditRotation, Invocation
<1> HIDE DEF n
<1>4. ASSUME Undisturbed'
      PROVE  \A x \in sessions' : x.key = Effective(Configured')
  <2>1. RowsInv
    BY <1>2, <1>3, <1>4, ExceptionsStay DEF KeyInv
  <2>2. env = NoKey
    BY <1>2, <1>3, <1>4 DEF Undisturbed
  <2>3. keyFile = me(p).new /\ \A x \in sessions : x.key = me(p).new
    BY <1>1, <2>1 DEF RowsInv
  <2>4. Configured' = me(p).new
    BY <1>2, <2>2, <2>3 DEF Configured
  <2>5. Effective(Configured') = me(p).new
    BY <1>1, <2>4 DEF Effective
  <2> QED BY <1>2, <2>3, <2>5
<1>5. issued' \in Nat /\ IsFiniteSet(sessions') /\ \A x \in sessions' : IsRow(x)
  BY <1>2 DEF KeyInv
<1> QED BY <1>1, <1>2, <1>3, <1>4, <1>5, RotatorKeeps

LEMMA KeyApproves ==
    ASSUME AuditInv, KeyInv, NEW p \in Procs, Approve(p)
    PROVE  KeyInv'
<1>1. Busy(p) /\ me(p).stage = "bind" /\ command(p).call = "approve" /\ ~Rotating(p)
  BY AtIsBusy DEF Approve, At, me, Rotating, command
<1>2. \/ \E what : Answer(p, what)
      \/ Stage(p, "activate")
      \/ \E w : Advance(p, "count", w)
  BY DEF Approve
<1> QED BY <1>1, <1>2, AnswerPasses, StagePasses, AdvancePasses, PassingKeeps DEF Rotation, Keyed

----------------------------------------------------------------------------
LEMMA KeyUnchanged ==
    ASSUME KeyInv, UNCHANGED <<sessions, env, keyFile, issued, invocations, proc, raced>>
    PROVE  KeyInv'
<1>1. RotationInv'
  BY DEF KeyInv, RotationInv, Rotating, Busy, command, me
<1>2. Undisturbed' => Undisturbed
  BY DEF Undisturbed
<1>3. RowsInv => RowsInv'
  BY DEF RowsInv, Rotating, Busy, me, Key, Effective, Configured
<1> QED BY <1>1, <1>2, <1>3 DEF KeyInv

LEMMA KeyStarts == Init => KeyInv
<1> SUFFICES ASSUME Init PROVE KeyInv
  OBVIOUS
<1>1. PICK stored \in InitialSessions :
        sessions = {[id |-> SessionId(m.mapping), payload |-> m.mapping, created |-> m.day,
                     key |-> Effective(Configured)] : m \in stored}
  BY DEF Init, VaultInit
<1> DEFINE Made(m) == [id |-> SessionId(m.mapping), payload |-> m.mapping, created |-> m.day,
                       key |-> Effective(Configured)]
           f == [m \in stored |-> Made(m)]
<1>2. sessions = {Made(m) : m \in stored} /\ \A m : IsRow(Made(m)) /\ Made(m).key = Effective(Configured)
  BY <1>1 DEF IsRow, RowFields
<1> HIDE DEF Made
<1>3. f \in Surjection(stored, sessions)
  BY <1>2 DEF Surjection
<1>4. IsFiniteSet(stored)
  BY SessionsAssumption
<1>5. IsFiniteSet(sessions)
  BY <1>3, <1>4, FS_Surjection
<1>6. /\ \A x \in sessions : IsRow(x) /\ x.key = Effective(Configured)
      /\ \A q \in Procs : ~Busy(q)
  BY <1>2 DEF Init, VaultInit, Busy
<1>7. issued \in Nat /\ raced \in BOOLEAN
  BY DEF Init, VaultInit
<1> QED BY <1>5, <1>6, <1>7 DEF KeyInv, RotationInv, RowsInv

LEMMA KeyKept == AuditInv /\ KeyInv /\ [Next]_vars => KeyInv'
<1> SUFFICES ASSUME AuditInv, KeyInv, [Next]_vars PROVE KeyInv'
  OBVIOUS
<1>1. ASSUME NEW p \in Procs, VaultStep(p)
      PROVE  KeyInv'
  BY <1>1, BeginKeepsKeys, BindKeepsKeys, SaveMappingKeepsKeys, WriteMappingKeepsKeys, TextsPass, RemovesPass,
     StartRotationKeepsKeys, EncryptAnewKeepsKeys, ReplaceKeyFileKeepsKeys, AuditRotationKeepsKeys,
     CrashKeepsKeys DEF VaultStep
<1>2. ASSUME NEW p \in Procs, Step(p)
      PROVE  KeyInv'
  BY <1>1, <1>2, BeginKeepsKeys, OpenKeepsKeys, ProfileKeepsKeys, AsksPass, RecordsPass, TellsPass, RestsPass,
     SavesPass, ApprovesPass, KeyApproves DEF Step, Asks, Tells, Approves
<1>3. ASSUME NEW v, Edit(v)
      PROVE  KeyInv'
  BY <1>3, KeyUnchanged DEF Edit, Tables
<1>4. CASE UNCHANGED vars
  BY <1>4, KeyUnchanged DEF vars, vaultVars
<1> QED BY <1>2, <1>3, <1>4 DEF Next

LEMMA KeysSuffice == KeyInv => MappingsStayReadable
<1> SUFFICES ASSUME KeyInv, Undisturbed
             PROVE  \A x \in sessions : \/ x.key = Effective(Configured)
                                        \/ \E p \in Procs : Rotating(p) /\ me(p).stage \in {"encrypt", "rotated"}
  BY DEF MappingsStayReadable, Undisturbed
<1>1. CASE \A p \in Procs : Busy(p) => ~Encrypting(me(p))
  BY <1>1 DEF KeyInv, RowsInv
<1>2. CASE \E p \in Procs : Busy(p) /\ Encrypting(me(p))
  BY <1>2 DEF KeyInv, RotationInv, Encrypting, Rotation
<1> QED BY <1>1, <1>2

(* As long as no rotation meets another command or dies half way, and no key is set in the  *)
(* environment beside a rotation, the process that reads pii_mappings next has the key of   *)
(* every row: rotate_key re-encrypts them all before it replaces vault.key.                 *)
THEOREM SessionsReadable == Spec => []MappingsStayReadable
<1>1. Init => AuditInv /\ KeyInv
  BY AuditStarts, KeyStarts
<1>2. (AuditInv /\ KeyInv) /\ [Next]_vars => (AuditInv /\ KeyInv)'
  BY AuditKept, KeyKept
<1>3. AuditInv /\ KeyInv => MappingsStayReadable
  BY KeysSuffice
<1> QED BY <1>1, <1>2, <1>3, PTL DEF Spec

----------------------------------------------------------------------------
(* What masking loses is in the mapping. Mappings with the same entries have the same buckets, *)
(* and noting a token keeps what was noted.                                                    *)
IsToken(t) == t = Token(t.kind, t.word) /\ ~IsMask(t)
Holds(b, word) == \E n \in DOMAIN b : b[n] = word
Covers(M, t) == t.kind # Plain => Holds(Bucket(M, t.kind), t.word)
IsEntry(e) == e = [kind |-> e.kind, bucket |-> e.bucket] /\ e.bucket \in Seq(ToSet(e.bucket)) \ {<<>>}
AllEntries(M) == \A i \in DOMAIN M : IsEntry(M[i])
OneKind(M) == \A i, j \in DOMAIN M : M[i].kind = M[j].kind => i = j
LEMMA Entries ==
    ASSUME NEW M, IsMapping(M)
    PROVE  DOMAIN M = 1 .. Len(M) /\ Len(M) \in Nat /\ AllEntries(M) /\ OneKind(M)
<1>1. \A i \in DOMAIN M : M[i] \in ToSet(M)
  BY DEF ToSet
<1>2. AllEntries(M)
  <2>1. \A e \in ToSet(M) : IsEntry(e)
    BY DEF IsMapping, IsEntry
  <2> QED BY <1>1, <2>1 DEF AllEntries
<1>3. OneKind(M)
  BY DEF IsMapping, OneKind
<1>4. DOMAIN M = 1 .. Len(M) /\ Len(M) \in Nat
  <2>1. M \in Seq(ToSet(M))
    BY DEF IsMapping
  <2> QED BY <2>1, LenProperties
<1> QED BY <1>2, <1>3, <1>4
LEMMA OfItsElements ==
    ASSUME NEW S, NEW s \in Seq(S)
    PROVE  s \in Seq(ToSet(s))
<1>1. \A i \in DOMAIN s : s[i] \in ToSet(s)
  BY DEF ToSet
<1>2. DOMAIN s = 1 .. Len(s) /\ Len(s) \in Nat /\ s = [i \in DOMAIN s |-> s[i]]
  OBVIOUS
<1>3. s \in [1 .. Len(s) -> ToSet(s)]
  BY <1>1, <1>2
<1> QED BY <1>2, <1>3
LEMMA MakesMapping ==
    ASSUME NEW S, NEW M \in Seq(S), AllEntries(M), OneKind(M)
    PROVE  IsMapping(M)
<1>1. M \in Seq(ToSet(M))
  BY OfItsElements
<1>2. ASSUME NEW e \in ToSet(M) PROVE IsEntry(e)
  BY DEF ToSet, AllEntries
<1>3. \A e \in ToSet(M) : /\ e = [kind |-> e.kind, bucket |-> e.bucket]
                          /\ e.bucket \in Seq(ToSet(e.bucket)) \ {<<>>}
  BY <1>2 DEF IsEntry
<1> QED BY <1>1, <1>3 DEF IsMapping, OneKind
LEMMA BucketOf ==
    ASSUME NEW M, IsMapping(M), NEW i \in DOMAIN M
    PROVE  Bucket(M, M[i].kind) = M[i].bucket
<1> DEFINE known == {j \in DOMAIN M : M[j].kind = M[i].kind}
<1>1. i \in known /\ \A j \in known : j = i
  BY Entries DEF OneKind
<1>2. (CHOOSE j \in known : TRUE) = i
  BY <1>1
<1> QED BY <1>1, <1>2 DEF Bucket
LEMMA NoBucket == ASSUME NEW M, NEW kind, \A i \in DOMAIN M : M[i].kind # kind PROVE Bucket(M, kind) = <<>>
<1>1. {i \in DOMAIN M : M[i].kind = kind} = {}
  OBVIOUS
<1> QED BY <1>1 DEF Bucket
LEMMA BucketIsSeq ==
    ASSUME NEW M, IsMapping(M), NEW kind
    PROVE  Bucket(M, kind) \in Seq(ToSet(Bucket(M, kind)))
<1>1. CASE \E i \in DOMAIN M : M[i].kind = kind
  <2>1. PICK i \in DOMAIN M : M[i].kind = kind
    BY <1>1
  <2>2. M[i].bucket \in Seq(ToSet(M[i].bucket))
    BY <2>1, Entries DEF AllEntries, IsEntry
  <2> QED BY <2>1, <2>2, BucketOf
<1>2. CASE \A i \in DOMAIN M : M[i].kind # kind
  <2>1. Bucket(M, kind) = <<>>
    BY <1>2, NoBucket
  <2>2. \A S : <<>> \in Seq(S)
    OBVIOUS
  <2> QED BY <2>1, <2>2
<1> QED BY <1>1, <1>2
LEMMA SameBuckets ==
    ASSUME NEW M, NEW N, IsMapping(M), IsMapping(N), SessionId(M) = SessionId(N), NEW kind
    PROVE  Bucket(M, kind) = Bucket(N, kind)
<1>1. /\ \A i \in DOMAIN M : \E j \in DOMAIN N : N[j] = M[i]
      /\ \A j \in DOMAIN N : \E i \in DOMAIN M : N[j] = M[i]
  BY DEF SessionId, ToSet
<1>2. CASE \E i \in DOMAIN M : M[i].kind = kind
  <2>1. PICK i \in DOMAIN M : M[i].kind = kind
    BY <1>2
  <2>2. PICK j \in DOMAIN N : N[j] = M[i]
    BY <1>1
  <2>3. Bucket(M, kind) = M[i].bucket
    BY <2>1, BucketOf
  <2>4. Bucket(N, kind) = N[j].bucket
    BY <2>1, <2>2, BucketOf
  <2> QED BY <2>2, <2>3, <2>4
<1>3. CASE \A i \in DOMAIN M : M[i].kind # kind
  <2>1. \A j \in DOMAIN N : N[j].kind # kind
    BY <1>1, <1>3
  <2> QED BY <1>3, <2>1, NoBucket
<1> QED BY <1>2, <1>3

Grows(M, N) ==
    \A i \in DOMAIN M : /\ i \in DOMAIN N /\ N[i].kind = M[i].kind
                        /\ \A word : Holds(M[i].bucket, word) => Holds(N[i].bucket, word)
LEMMA CoverStays ==
    ASSUME NEW M, NEW N, IsMapping(M), IsMapping(N), Grows(M, N), NEW t, Covers(M, t)
    PROVE  Covers(N, t)
<1> SUFFICES ASSUME t.kind # Plain PROVE Holds(Bucket(N, t.kind), t.word)
  BY DEF Covers
<1>1. Holds(Bucket(M, t.kind), t.word)
  BY DEF Covers
<1>2. PICK i \in DOMAIN M : M[i].kind = t.kind
  <2>1. Bucket(M, t.kind) # <<>>
    BY <1>1 DEF Holds
  <2> QED BY <2>1, NoBucket
<1>3. Bucket(M, t.kind) = M[i].bucket
  BY <1>2, BucketOf
<1>4. i \in DOMAIN N /\ N[i].kind = t.kind /\ Holds(N[i].bucket, t.word)
  BY <1>1, <1>2, <1>3 DEF Grows
<1>5. Bucket(N, t.kind) = N[i].bucket
  BY <1>4, BucketOf
<1> QED BY <1>4, <1>5
LEMMA AppendHolds ==
    ASSUME NEW S, NEW b \in Seq(S), NEW w
    PROVE  /\ Append(b, w) \in Seq(ToSet(Append(b, w))) /\ Append(b, w) # <<>>
           /\ Holds(Append(b, w), w) /\ \A x : Holds(b, x) => Holds(Append(b, w), x)
<1>1. PICK a \in Seq(S \cup {w}) : a = Append(b, w)
  <2>1. \A U : S \subseteq U => b \in Seq(U)
    OBVIOUS
  <2>2. b \in Seq(S \cup {w})
    BY <2>1
  <2>3. Append(b, w) \in Seq(S \cup {w})
    BY <2>2, AppendProperties
  <2> QED BY <2>3
<1>2. /\ DOMAIN a = 1 .. Len(b) + 1 /\ Len(b) \in Nat /\ DOMAIN b = 1 .. Len(b)
      /\ a[Len(b) + 1] = w /\ \A i \in 1 .. Len(b) : a[i] = b[i]
  BY <1>1
<1>3. Len(b) + 1 \in DOMAIN a /\ \A i \in DOMAIN b : i \in DOMAIN a
  BY <1>2
<1>4. a \in Seq(ToSet(a))
  BY <1>1, OfItsElements
<1> QED BY <1>1, <1>2, <1>3, <1>4 DEF Holds

LEMMA NotedNew ==
    ASSUME NEW M, IsMapping(M), NEW t, t.kind # Plain, Bucket(M, t.kind) = <<>>, NEW N,
           N = Append(M, [kind |-> t.kind, bucket |-> <<t.word>>])
    PROVE  IsMapping(N) /\ Grows(M, N) /\ \E i \in DOMAIN N : N[i].kind = t.kind /\ Holds(N[i].bucket, t.word)
<1>1. PICK e : e = [kind |-> t.kind, bucket |-> <<t.word>>]
  OBVIOUS
<1>2. IsEntry(e) /\ e.kind = t.kind /\ Holds(e.bucket, t.word)
  <2>1. e.bucket = <<t.word>> /\ e.kind = t.kind /\ e = [kind |-> e.kind, bucket |-> e.bucket]
    BY <1>1
  <2>2. <<t.word>> = Append(<<>>, t.word) /\ <<>> \in Seq({})
    OBVIOUS
  <2>3. /\ <<t.word>> \in Seq(ToSet(<<t.word>>)) /\ <<t.word>> # <<>> /\ Holds(<<t.word>>, t.word)
    BY <2>2, AppendHolds
  <2> QED BY <2>1, <2>3 DEF IsEntry
<1>3. PICK S : M \in Seq(S)
  BY DEF IsMapping
<1>4. /\ DOMAIN N = 1 .. Len(M) + 1 /\ Len(M) \in Nat /\ DOMAIN M = 1 .. Len(M)
      /\ N[Len(M) + 1] = e /\ \A i \in 1 .. Len(M) : N[i] = M[i]
  BY <1>1, <1>3
<1>5. \E T : N \in Seq(T)
  <2>1. N = Append(M, e)
    BY <1>1
  <2>2. Append(M, e) \in Seq(ToSet(Append(M, e)))
    BY <1>3, AppendHolds
  <2> QED BY <2>1, <2>2
<1>6. \A i \in DOMAIN M : M[i].kind # t.kind
  <2> SUFFICES ASSUME NEW i \in DOMAIN M, M[i].kind = t.kind PROVE FALSE
    OBVIOUS
  <2>1. M[i].bucket # <<>>
    BY Entries DEF AllEntries, IsEntry
  <2> QED BY <2>1, BucketOf
<1>7. \A i \in DOMAIN N : (i \in DOMAIN M /\ N[i] = M[i]) \/ (i = Len(M) + 1 /\ N[i] = e)
  BY <1>4
<1>8. OneKind(N)
  <2>1. OneKind(M)
    BY Entries
  <2> QED BY <1>2, <1>6, <1>7, <2>1 DEF OneKind
<1>9. AllEntries(N)
  BY <1>2, <1>7, Entries DEF AllEntries
<1>10. Grows(M, N)
  BY <1>4 DEF Grows
<1>11. Len(M) + 1 \in DOMAIN N
  BY <1>4
<1> QED BY <1>2, <1>4, <1>5, <1>8, <1>9, <1>10, <1>11, MakesMapping
LEMMA MakesEntry ==
    ASSUME NEW e, e = [kind |-> e.kind, bucket |-> e.bucket], e.bucket \in Seq(ToSet(e.bucket)), e.bucket # <<>>
    PROVE  IsEntry(e)
  BY DEF IsEntry
LEMMA EntryGrows ==
    ASSUME NEW e, IsEntry(e), NEW word, NEW d, d.kind = e.kind, d.bucket = Append(e.bucket, word),
           d = [kind |-> d.kind, bucket |-> d.bucket]
    PROVE  /\ IsEntry(d) /\ Holds(d.bucket, word)
           /\ \A x : Holds(e.bucket, x) => Holds(d.bucket, x)
<1>1. PICK b \in Seq(ToSet(e.bucket)) : b = e.bucket
  BY DEF IsEntry
<1>2. PICK a : a = Append(b, word)
  OBVIOUS
<1>3. a \in Seq(ToSet(a)) /\ a # <<>> /\ Holds(a, word) /\ \A x : Holds(b, x) => Holds(a, x)
  BY <1>2, AppendHolds
<1>4. d.bucket = a
  BY <1>1, <1>2
<1>5. IsEntry(d)
  BY <1>3, <1>4, MakesEntry
<1> QED BY <1>1, <1>3, <1>4, <1>5
LEMMA NotedAgain ==
    ASSUME NEW M, IsMapping(M), NEW t, Bucket(M, t.kind) # <<>>, NEW N,
           N = [i \in DOMAIN M |-> IF M[i].kind = t.kind
                                   THEN [M[i] EXCEPT !.bucket = Append(@, t.word)] ELSE M[i]]
    PROVE  IsMapping(N) /\ Grows(M, N) /\ \E i \in DOMAIN N : N[i].kind = t.kind /\ Holds(N[i].bucket, t.word)
<1>1. DOMAIN N = DOMAIN M /\ DOMAIN M = 1 .. Len(M) /\ Len(M) \in Nat
  BY Entries
<1>2. ASSUME NEW i \in DOMAIN M
      PROVE  /\ IsEntry(N[i]) /\ N[i].kind = M[i].kind
             /\ \A word : Holds(M[i].bucket, word) => Holds(N[i].bucket, word)
             /\ M[i].kind = t.kind => Holds(N[i].bucket, t.word)
  <2>1. PICK e : e = M[i]
    OBVIOUS
  <2>2. IsEntry(e)
    BY <2>1, Entries DEF AllEntries
  <2>3. CASE e.kind = t.kind
    <3>1. N[i] = [e EXCEPT !.bucket = Append(@, t.word)]
      BY <2>1, <2>3
    <3>2. PICK d : d = N[i]
      OBVIOUS
    <3>3. d = [e EXCEPT !.bucket = Append(@, t.word)]
      BY <3>1, <3>2
    <3>4. PICK word : word = t.word
      OBVIOUS
    <3>5. d.kind = e.kind /\ d.bucket = Append(e.bucket, word) /\ d = [kind |-> d.kind, bucket |-> d.bucket]
      BY <2>2, <3>3, <3>4 DEF IsEntry
    <3>6. IsEntry(d) /\ Holds(d.bucket, word) /\ \A x : Holds(e.bucket, x) => Holds(d.bucket, x)
      BY <2>2, <3>5, EntryGrows
    <3> QED BY <2>1, <3>2, <3>4, <3>5, <3>6
  <2>4. CASE e.kind # t.kind
    <3>1. N[i] = e
      BY <2>1, <2>4
    <3> QED BY <2>1, <2>2, <2>4, <3>1
  <2> QED BY <2>3, <2>4
<1>3. \E S : N \in Seq(S)
  <2>1. PICK S : N \in [1 .. Len(M) -> S]
    <3>1. N \in [1 .. Len(M) -> {N[i] : i \in DOMAIN M}]
      BY <1>1
    <3> QED BY <3>1
  <2>2. PICK n \in Nat : n = Len(M)
    BY <1>1
  <2>3. N \in [1 .. n -> S]
    BY <2>1, <2>2
  <2>4. N \in Seq(S)
    BY <2>3, SeqDef
  <2> QED BY <2>4
<1>4. OneKind(N)
  <2>1. OneKind(M)
    BY Entries
  <2> QED BY <1>1, <1>2, <2>1 DEF OneKind
<1>5. AllEntries(N)
  BY <1>1, <1>2 DEF AllEntries
<1>6. Grows(M, N)
  BY <1>1, <1>2 DEF Grows
<1>7. \E i \in DOMAIN M : M[i].kind = t.kind
  BY NoBucket
<1> QED BY <1>1, <1>2, <1>3, <1>4, <1>5, <1>6, <1>7, MakesMapping
LEMMA NotedCovers ==
    ASSUME NEW M, IsMapping(M), NEW t
    PROVE  /\ IsMapping(Noted(M, t)) /\ Covers(Noted(M, t), t)
           /\ \A u : Covers(M, u) => Covers(Noted(M, t), u)
<1>1. PICK N : N = Noted(M, t)
  OBVIOUS
<1>2. CASE t.kind = Plain \/ t.word \in ToSet(Bucket(M, t.kind))
  <2>1. N = M
    <3>1. ~(t.kind # Plain /\ Bucket(M, t.kind) = <<>>)
      <4>1. ToSet(<<>>) = {}
        BY DEF ToSet
      <4> QED BY <1>2, <4>1
    <3> QED BY <1>1, <1>2, <3>1 DEF Noted
  <2>2. Covers(M, t)
    BY <1>2 DEF Covers, Holds, ToSet
  <2> QED BY <1>1, <2>1, <2>2
<1>3. CASE t.kind # Plain /\ t.word \notin ToSet(Bucket(M, t.kind))
  <2>1. IsMapping(N) /\ Grows(M, N) /\ \E i \in DOMAIN N : N[i].kind = t.kind /\ Holds(N[i].bucket, t.word)
    <3>1. CASE Bucket(M, t.kind) = <<>>
      <4>1. N = Append(M, [kind |-> t.kind, bucket |-> <<t.word>>])
        BY <1>1, <1>3, <3>1 DEF Noted
      <4> QED BY <1>3, <3>1, <4>1, NotedNew
    <3>2. CASE Bucket(M, t.kind) # <<>>
      <4>1. N = [i \in DOMAIN M |-> IF M[i].kind = t.kind
                                    THEN [M[i] EXCEPT !.bucket = Append(@, t.word)] ELSE M[i]]
        BY <1>1, <1>3, <3>2 DEF Noted
      <4> QED BY <3>2, <4>1, NotedAgain
    <3> QED BY <3>1, <3>2
  <2>2. PICK i \in DOMAIN N : N[i].kind = t.kind /\ Holds(N[i].bucket, t.word)
    BY <2>1
  <2>3. Bucket(N, t.kind) = N[i].bucket
    BY <2>1, <2>2, BucketOf
  <2>4. Covers(N, t)
    BY <2>2, <2>3 DEF Covers
  <2>5. \A u : Covers(M, u) => Covers(N, u)
    BY <2>1, CoverStays
  <2> QED BY <1>1, <2>1, <2>4, <2>5
<1> QED BY <1>2, <1>3

(* So the mapping of some texts covers all their tokens. *)
Mappings(f, tokens, n) == f = [i \in 0 .. n |-> IF i = 0 THEN <<>> ELSE Noted(f[i - 1], tokens[i])]
LEMMA MappingsExist == ASSUME NEW n \in Nat, NEW tokens PROVE \E f : Mappings(f, tokens, n)
<1> DEFINE P(m) == \E f : Mappings(f, tokens, m - 1)
           G == {m \in 1 .. n + 1 : P(m)}
<1>1. P(1)
  <2> DEFINE g == [i \in 0 .. 0 |-> <<>>]
  <2>1. Mappings(g, tokens, 0)
    <3>1. \A i \in 0 .. 0 : g[i] = IF i = 0 THEN <<>> ELSE Noted(g[i - 1], tokens[i])
      OBVIOUS
    <3> QED BY <3>1 DEF Mappings
  <2> HIDE DEF g
  <2>2. 1 - 1 = 0
    OBVIOUS
  <2> QED BY <2>1, <2>2
<1>2. ASSUME NEW k \in 1 .. n, P(k)
      PROVE  P(k + 1)
  <2>1. PICK f : Mappings(f, tokens, k - 1)
    BY <1>2
  <2> DEFINE g == [i \in 0 .. k |-> IF i = k THEN Noted(f[k - 1], tokens[k]) ELSE f[i]]
  <2>2. ASSUME NEW i \in 0 .. k
        PROVE  g[i] = IF i = 0 THEN <<>> ELSE Noted(g[i - 1], tokens[i])
    <3>1. CASE i = k
      <4>1. g[i - 1] = f[k - 1] /\ i # 0
        BY <3>1
      <4> QED BY <3>1, <4>1
    <3>2. CASE i # k
      <4>1. i \in 0 .. k - 1 /\ (i # 0 => i - 1 \in 0 .. k - 1)
        BY <3>2
      <4>2. f[i] = IF i = 0 THEN <<>> ELSE Noted(f[i - 1], tokens[i])
        BY <2>1, <4>1 DEF Mappings
      <4>3. g[i] = f[i] /\ (i # 0 => g[i - 1] = f[i - 1])
        BY <3>2, <4>1
      <4> QED BY <4>2, <4>3
    <3> QED BY <3>1, <3>2
  <2>3. Mappings(g, tokens, k)
    BY <2>2 DEF Mappings
  <2> HIDE DEF g
  <2>4. (k + 1) - 1 = k
    OBVIOUS
  <2> QED BY <2>3, <2>4
<1> HIDE DEF P
<1>3. 1 \in G
  BY <1>1
<1>4. ASSUME NEW k \in 1 .. (n + 1) - 1, k \in G
      PROVE  k + 1 \in G
  <2>1. k + 1 \in 1 .. n + 1 /\ P(k) /\ k \in 1 .. n
    BY <1>4
  <2> QED BY <1>2, <2>1
<1> HIDE DEF G
<1>5. \A k \in 1 .. n + 1 : k \in G
  <2>1. n + 1 \in Nat
    OBVIOUS
  <2> QED BY <2>1, <1>3, <1>4, UpTo
<1>6. n + 1 \in G
  BY <1>5
<1>7. (n + 1) - 1 = n
  OBVIOUS
<1> QED BY <1>6, <1>7 DEF G, P
LEMMA MappingsCover ==
    ASSUME NEW n \in Nat, NEW tokens, NEW f, Mappings(f, tokens, n)
    PROVE  IsMapping(f[n]) /\ \A h \in 1 .. n : Covers(f[n], tokens[h])
<1> DEFINE P(k) == IsMapping(f[k - 1]) /\ \A h \in 1 .. k - 1 : Covers(f[k - 1], tokens[h])
           G == {k \in 1 .. n + 1 : P(k)}
<1>1. P(1)
  <2>1. f[0] = <<>>
    BY DEF Mappings
  <2>2. IsMapping(<<>>)
    BY DEF IsMapping, ToSet
  <2> QED BY <2>1, <2>2
<1>2. ASSUME NEW k \in 1 .. n, P(k)
      PROVE  P(k + 1)
  <2>1. f[k] = Noted(f[k - 1], tokens[k])
    BY DEF Mappings
  <2>2. PICK M : M = f[k - 1]
    OBVIOUS
  <2>3. IsMapping(M) /\ \A h \in 1 .. k - 1 : Covers(M, tokens[h])
    BY <1>2, <2>2
  <2>4. IsMapping(f[k]) /\ Covers(f[k], tokens[k]) /\ \A u : Covers(M, u) => Covers(f[k], u)
    BY <2>1, <2>2, <2>3, NotedCovers
  <2>5. \A h \in 1 .. k : h = k \/ h \in 1 .. k - 1
    OBVIOUS
  <2>6. \A h \in 1 .. k : Covers(f[k], tokens[h])
    BY <2>3, <2>4, <2>5
  <2>7. (k + 1) - 1 = k
    OBVIOUS
  <2> QED BY <2>4, <2>6, <2>7
<1> HIDE DEF P
<1>3. 1 \in G
  BY <1>1
<1>4. ASSUME NEW k \in 1 .. (n + 1) - 1, k \in G
      PROVE  k + 1 \in G
  <2>1. k + 1 \in 1 .. n + 1 /\ P(k) /\ k \in 1 .. n
    BY <1>4
  <2> QED BY <1>2, <2>1
<1> HIDE DEF G
<1>5. \A k \in 1 .. n + 1 : k \in G
  <2>1. n + 1 \in Nat
    OBVIOUS
  <2> QED BY <2>1, <1>3, <1>4, UpTo
<1>6. n + 1 \in G
  BY <1>5
<1>7. (n + 1) - 1 = n
  OBVIOUS
<1> QED BY <1>6, <1>7 DEF G, P
LEMMA TextsAreCovered ==
    ASSUME NEW T, NEW texts \in Seq(Seq(T))
    PROVE  /\ IsMapping(MappingOf(texts))
           /\ \A j \in DOMAIN texts : \A n \in DOMAIN texts[j] : Covers(MappingOf(texts), texts[j][n])
<1>1. PICK tokens \in Seq(T) : tokens = FlattenSeq(texts)
  BY FlattenIsSeq
<1>2. PICK n \in Nat : n = Len(tokens)
  OBVIOUS
<1> DEFINE c == CHOOSE f : f = [i \in 0 .. n |-> IF i = 0 THEN <<>> ELSE Noted(f[i - 1], tokens[i])]
<1>3. \E f : f = [i \in 0 .. n |-> IF i = 0 THEN <<>> ELSE Noted(f[i - 1], tokens[i])]
  BY MappingsExist DEF Mappings
<1>4. Mappings(c, tokens, n)
  BY <1>3 DEF Mappings
<1>5. MappingOf(texts) = c[n]
  BY <1>1, <1>2 DEF MappingOf
<1> HIDE DEF c
<1>6. IsMapping(c[n]) /\ \A h \in 1 .. n : Covers(c[n], tokens[h])
  BY <1>4, MappingsCover
<1>7. ASSUME NEW j \in DOMAIN texts, NEW k \in DOMAIN texts[j]
      PROVE  Covers(c[n], texts[j][k])
  <2>1. Within(texts[j], tokens)
    BY <1>1, FlattenHolds
  <2>2. PICK h \in DOMAIN tokens : tokens[h] = texts[j][k]
    BY <2>1 DEF Within
  <2>3. h \in 1 .. n
    BY <1>1, <1>2, LenProperties
  <2> QED BY <1>6, <2>2, <2>3
<1> QED BY <1>5, <1>6, <1>7

(* Masking and restoring a token that is covered gives it back. *)
LEMMA MaskIsRestored ==
    ASSUME NEW M, IsMapping(M), NEW text, NEW n \in DOMAIN text, IsToken(text[n]), Covers(M, text[n]),
           IsMask(redact(text, M)[n]), NEW said, NEW m \in DOMAIN said, said[m] = redact(text, M)[n]
    PROVE  restore(said, M)[m] = text[n]
<1>1. PICK t : t = text[n]
  OBVIOUS
<1>2. PICK b : b = Bucket(M, t.kind)
  OBVIOUS
<1>3. t.kind # Plain
  BY <1>1 DEF redact, IsToken
<1>4. PICK k : k = Place(b, t.word)
  OBVIOUS
<1>5. k \in DOMAIN b /\ b[k] = t.word
  <2>1. \E x \in DOMAIN b : b[x] = t.word
    BY <1>1, <1>2, <1>3 DEF Covers, Holds
  <2> QED BY <1>4, <2>1 DEF Place
<1>6. said[m] = MaskOf(t.kind, k - 1)
  BY <1>1, <1>2, <1>3, <1>4 DEF redact
<1>7. said[m].kind = t.kind /\ said[m].index = k - 1 /\ IsMask(said[m])
  BY <1>6 DEF MaskOf, IsMask
<1>8. DOMAIN b = 1 .. Len(b) /\ Len(b) \in Nat
  BY <1>2, BucketIsSeq
<1>9. k - 1 < Len(b) /\ (k - 1) + 1 = k
  BY <1>5, <1>8
<1>10. restore(said, M)[m] = Token(t.kind, b[k])
  BY <1>2, <1>7, <1>9 DEF restore
<1>11. t = Token(t.kind, t.word)
  BY <1>1 DEF IsToken
<1> QED BY <1>1, <1>5, <1>10, <1>11

(* With the empty mapping there is nothing to mask, and what is restored depends on the id alone. *)
LEMMA NothingIsMasked ==
    ASSUME NEW M, SessionId(M) = NoSession, NEW text, NEW n \in DOMAIN text, IsToken(text[n]), Covers(M, text[n])
    PROVE  ~IsMask(redact(text, M)[n])
<1>1. DOMAIN M = {}
  BY DEF SessionId, NoSession, ToSet
<1>2. Bucket(M, text[n].kind) = <<>>
  BY <1>1, NoBucket
<1>3. text[n].kind = Plain
  BY <1>2 DEF Covers, Holds
<1> QED BY <1>3 DEF redact, IsToken
LEMMA SameTexts ==
    ASSUME NEW M, NEW N, IsMapping(M), IsMapping(N), SessionId(M) = SessionId(N)
    PROVE  /\ \A text : restore(text, M) = restore(text, N) /\ redact(text, M) = redact(text, N)
           /\ \A t : Covers(M, t) => Covers(N, t)
<1>1. \A kind : Bucket(M, kind) = Bucket(N, kind)
  BY SameBuckets
<1>2. ASSUME NEW text
      PROVE  restore(text, M) = restore(text, N) /\ redact(text, M) = redact(text, N)
  <2>1. \A i \in DOMAIN text : Bucket(M, text[i].kind) = Bucket(N, text[i].kind)
    BY <1>1
  <2>2. restore(text, M) = restore(text, N)
    BY <2>1 DEF restore
  <2>3. redact(text, M) = redact(text, N)
    BY <2>1 DEF redact
  <2> QED BY <2>2, <2>3
<1>3. \A t : Covers(M, t) => Covers(N, t)
  BY <1>1 DEF Covers
<1> QED BY <1>2, <1>3

(* The first examples of a column, and its most frequent values, are texts of the file. *)
AllTexts == UNION {UNION {Texts(Content[v].cells[c]) : c \in ToSet(Columns(v))} : v \in DOMAIN Content}
AllTokens == UNION {ToSet(x) : x \in AllTexts}
LEMMA TextsAreTokens ==
    ASSUME NEW x \in AllTexts
    PROVE  x \in Seq(AllTokens) /\ \A n \in DOMAIN x : IsToken(x[n])
<1>1. x \in Seq(ToSet(x)) /\ \A t \in ToSet(x) : t = Token(t.kind, t.word) /\ ~IsMask(t)
  BY DEF AllTexts, Texts
<1>2. ToSet(x) \subseteq AllTokens
  BY DEF AllTokens
<1>3. \A n \in DOMAIN x : x[n] \in ToSet(x)
  BY DEF ToSet
<1>4. x \in Seq(AllTokens)
  BY <1>1, <1>2
<1> QED BY <1>1, <1>3, <1>4 DEF IsToken
LEMMA CellsAreTexts ==
    ASSUME NEW v \in DOMAIN Content, NEW c \in ToSet(Columns(v))
    PROVE  Content[v].cells[c] \in Seq(AllTexts)
<1>1. PICK T : T = Texts(Content[v].cells[c])
  OBVIOUS
<1>2. Content[v].cells[c] \in Seq(T)
  BY <1>1, ContentAssumption DEF Columns
<1>3. T \subseteq AllTexts
  BY <1>1 DEF AllTexts
<1> QED BY <1>2, <1>3
Found(f, cells, n) ==
    f = [i \in 0 .. n |->
            IF i = 0 THEN <<>>
            ELSE IF i > 5 \/ cells[i] = Null \/ cells[i] \in ToSet(f[i - 1]) \/ Len(f[i - 1]) = 3
            THEN f[i - 1] ELSE Append(f[i - 1], cells[i])]
More(s, cells, i) ==
    IF i > 5 \/ cells[i] = Null \/ cells[i] \in ToSet(s) \/ Len(s) = 3 THEN s ELSE Append(s, cells[i])
LEMMA FoundByMore ==
    ASSUME NEW n \in Nat, NEW cells, NEW f, f = [i \in 0 .. n |-> f[i]], f[0] = <<>>,
           \A i \in 1 .. n : f[i] = More(f[i - 1], cells, i)
    PROVE  Found(f, cells, n)
<1>1. \A i \in 0 .. n : i # 0 => i \in 1 .. n
  OBVIOUS
<1>2. \A i \in 0 .. n : f[i] = IF i = 0 THEN <<>>
            ELSE IF i > 5 \/ cells[i] = Null \/ cells[i] \in ToSet(f[i - 1]) \/ Len(f[i - 1]) = 3
            THEN f[i - 1] ELSE Append(f[i - 1], cells[i])
  BY <1>1 DEF More
<1> QED BY <1>2 DEF Found
LEMMA FoundExists == ASSUME NEW n \in Nat, NEW cells PROVE \E f : Found(f, cells, n)
<1> DEFINE P(m) == \E f : /\ f = [i \in 0 .. m - 1 |-> f[i]] /\ f[0] = <<>>
                          /\ \A i \in 1 .. m - 1 : f[i] = More(f[i - 1], cells, i)
           G == {m \in 1 .. n + 1 : P(m)}
<1>1. P(1)
  <2>1. PICK g : g = [i \in 0 .. 0 |-> <<>>]
    OBVIOUS
  <2>2. g = [i \in 0 .. 0 |-> g[i]] /\ g[0] = <<>>
    BY <2>1
  <2>3. 1 - 1 = 0 /\ 1 .. 0 = {}
    OBVIOUS
  <2> QED BY <2>2, <2>3
<1>2. ASSUME NEW k \in 1 .. n, P(k)
      PROVE  P(k + 1)
  <2>1. PICK f : /\ f = [i \in 0 .. k - 1 |-> f[i]] /\ f[0] = <<>>
                 /\ \A i \in 1 .. k - 1 : f[i] = More(f[i - 1], cells, i)
    BY <1>2
  <2>2. PICK x : x = More(f[k - 1], cells, k)
    OBVIOUS
  <2>3. PICK g : g = [i \in 0 .. k |-> IF i = k THEN x ELSE f[i]]
    OBVIOUS
  <2>4. \A i \in 1 .. k : g[i] = More(g[i - 1], cells, i)
    <3> SUFFICES ASSUME NEW i \in 1 .. k PROVE g[i] = More(g[i - 1], cells, i)
      OBVIOUS
    <3>1. i - 1 \in 0 .. k /\ i - 1 # k
      OBVIOUS
    <3>2. g[i - 1] = f[i - 1]
      BY <2>3, <3>1
    <3>3. CASE i = k
      BY <2>2, <2>3, <3>2, <3>3
    <3>4. CASE i # k
      <4>1. i \in 1 .. k - 1 /\ i \in 0 .. k
        BY <3>4
      <4>2. f[i] = More(f[i - 1], cells, i)
        BY <2>1, <4>1
      <4>3. g[i] = f[i]
        BY <2>3, <3>4, <4>1
      <4> QED BY <3>2, <4>2, <4>3
    <3> QED BY <3>3, <3>4
  <2>5. g = [i \in 0 .. k |-> g[i]] /\ g[0] = <<>>
    BY <2>1, <2>3
  <2>6. (k + 1) - 1 = k
    OBVIOUS
  <2> QED BY <2>4, <2>5, <2>6
<1> HIDE DEF P
<1>3. 1 \in G
  BY <1>1
<1>4. ASSUME NEW k \in 1 .. (n + 1) - 1, k \in G
      PROVE  k + 1 \in G
  <2>1. k + 1 \in 1 .. n + 1 /\ P(k) /\ k \in 1 .. n
    BY <1>4
  <2> QED BY <1>2, <2>1
<1> HIDE DEF G
<1>5. \A k \in 1 .. n + 1 : k \in G
  <2>1. n + 1 \in Nat
    OBVIOUS
  <2> QED BY <2>1, <1>3, <1>4, UpTo
<1>6. P(n + 1)
  BY <1>5 DEF G
<1>7. (n + 1) - 1 = n
  OBVIOUS
<1>8. \E f : /\ f = [i \in 0 .. n |-> f[i]] /\ f[0] = <<>>
             /\ \A i \in 1 .. n : f[i] = More(f[i - 1], cells, i)
  BY <1>6, <1>7 DEF P
<1> QED BY <1>8, FoundByMore
LEMMA FoundUnfolds ==
    ASSUME NEW n \in Nat, NEW cells, NEW f, Found(f, cells, n)
    PROVE  f[0] = <<>> /\ \A i \in 1 .. n : f[i] = f[i - 1] \/ f[i] = Append(f[i - 1], cells[i])
<1>1. f[0] = <<>>
  BY DEF Found
<1>2. ASSUME NEW i \in 1 .. n PROVE f[i] = f[i - 1] \/ f[i] = Append(f[i - 1], cells[i])
  <2>1. i \in 0 .. n /\ i # 0
    OBVIOUS
  <2>2. f[i] = IF i > 5 \/ cells[i] = Null \/ cells[i] \in ToSet(f[i - 1]) \/ Len(f[i - 1]) = 3
               THEN f[i - 1] ELSE Append(f[i - 1], cells[i])
    BY <2>1 DEF Found
  <2> QED BY <2>2
<1> QED BY <1>1, <1>2
LEMMA FoundAreCells ==
    ASSUME NEW T, NEW cells \in Seq(T), NEW n \in Nat, n = Len(cells), NEW f, Found(f, cells, n)
    PROVE  f[n] \in Seq(T)
<1> DEFINE G == {k \in 1 .. n + 1 : f[k - 1] \in Seq(T)}
<1>1. 1 \in G
  <2>1. 1 - 1 = 0 /\ 1 \in 1 .. n + 1 /\ <<>> \in Seq(T)
    OBVIOUS
  <2>2. f[0] = <<>>
    BY FoundUnfolds
  <2> QED BY <2>1, <2>2
<1>2. ASSUME NEW k \in 1 .. (n + 1) - 1, k \in G
      PROVE  k + 1 \in G
  <2>1. k \in 1 .. n /\ k # 0 /\ (k + 1) - 1 = k /\ k + 1 \in 1 .. n + 1 /\ cells[k] \in T
    OBVIOUS
  <2>2. f[k] = f[k - 1] \/ f[k] = Append(f[k - 1], cells[k])
    BY <2>1, FoundUnfolds
  <2>3. f[k - 1] \in Seq(T)
    BY <1>2
  <2>4. Append(f[k - 1], cells[k]) \in Seq(T)
    BY <2>1, <2>3, AppendProperties
  <2>5. f[k] \in Seq(T)
    BY <2>2, <2>3, <2>4
  <2> QED BY <2>1, <2>5
<1> HIDE DEF G
<1>3. \A k \in 1 .. n + 1 : k \in G
  <2>1. n + 1 \in Nat
    OBVIOUS
  <2> QED BY <2>1, <1>1, <1>2, UpTo
<1>4. n + 1 \in G /\ (n + 1) - 1 = n
  BY <1>3
<1> QED BY <1>4 DEF G
LEMMA ExamplesAreTexts ==
    ASSUME NEW v \in DOMAIN Content, NEW c \in ToSet(Columns(v))
    PROVE  Examples(v, c) \in Seq(AllTexts)
<1>1. PICK cells \in Seq(AllTexts) : cells = Content[v].cells[c]
  BY CellsAreTexts
<1>2. PICK n \in Nat : n = Len(cells)
  OBVIOUS
<1> DEFINE e == CHOOSE f :
          f = [i \in 0 .. n |->
                  IF i = 0 THEN <<>>
                  ELSE IF i > 5 \/ cells[i] = Null \/ cells[i] \in ToSet(f[i - 1]) \/ Len(f[i - 1]) = 3
                  THEN f[i - 1] ELSE Append(f[i - 1], cells[i])]
<1>3. Found(e, cells, n)
  BY FoundExists DEF Found
<1>4. Examples(v, c) = e[n]
  BY <1>1, <1>2 DEF Examples
<1> HIDE DEF e
<1> QED BY <1>2, <1>3, <1>4, FoundAreCells
LEMMA Least ==
    ASSUME NEW a \in Nat, NEW b \in Nat
    PROVE  Min({a, b}) \in {a, b} /\ Min({a, b}) <= a /\ Min({a, b}) <= b
<1> DEFINE P(x) == \A y \in {a, b} : x <= y
<1>1. \E x \in {a, b} : P(x)
  BY DEF P
<1>2. PICK m : m = CHOOSE x \in {a, b} : P(x)
  OBVIOUS
<1>3. m \in {a, b} /\ P(m)
  BY <1>1, <1>2
<1>4. Min({a, b}) = m
  BY <1>2 DEF Min
<1> QED BY <1>3, <1>4
LEMMA FirstOfSeq ==
    ASSUME NEW T, NEW s \in Seq(T), NEW n \in Nat
    PROVE  SubSeq(s, 1, Min({n, Len(s)})) \in Seq(T)
<1>1. PICK m : m = Min({n, Len(s)})
  OBVIOUS
<1>2. m \in Nat /\ m <= Len(s)
  BY <1>1, Least
<1>3. SubSeq(s, 1, m) \in Seq(T)
  <2>1. \A i \in 1 .. m : s[i] \in T
    BY <1>2
  <2> QED BY <1>2, <2>1
<1> QED BY <1>1, <1>3
LEMMA CategoriesAreTexts ==
    ASSUME NEW v \in DOMAIN Content, NEW c \in ToSet(Columns(v)), NEW s \in TopCategories(v, c)
    PROVE  s \in Seq(AllTexts)
<1>1. PICK S : S = ToSet(Content[v].cells[c])
  OBVIOUS
<1>2. Content[v].cells[c] \in Seq(AllTexts)
  BY CellsAreTexts
<1>3. S \subseteq AllTexts
  BY <1>1, <1>2 DEF ToSet
<1>4. Cardinality(S) \in Nat
  <2>1. PICK cells \in Seq(AllTexts) : cells = Content[v].cells[c]
    BY <1>2
  <2>2. PICK n \in Nat : n = Len(cells)
    OBVIOUS
  <2>3. DOMAIN cells = 1 .. n /\ IsFiniteSet(1 .. n)
    BY <2>2, FS_Interval
  <2>4. cells \in Surjection(1 .. n, S)
    <3>1. cells \in [1 .. n -> S] /\ \A x \in S : \E i \in 1 .. n : cells[i] = x
      BY <1>1, <2>1, <2>3 DEF ToSet
    <3> QED BY <3>1 DEF Surjection
  <2>5. IsFiniteSet(S)
    BY <2>3, <2>4, FS_Surjection
  <2> QED BY <2>5, FS_CardinalityType
<1>5. s = <<>> \/ \E q \in SetToSeqs(S) : s = SubSeq(q, 1, Min({10, Len(q)}))
  BY <1>1, ZenonT(60) DEF TopCategories
<1>6. ASSUME NEW q \in SetToSeqs(S)
      PROVE  SubSeq(q, 1, Min({10, Len(q)})) \in Seq(AllTexts)
  <2>1. q \in [1 .. Cardinality(S) -> S]
    BY DEF SetToSeqs
  <2>2. q \in Seq(AllTexts)
    BY <1>3, <1>4, <2>1
  <2> QED BY <2>2, FirstOfSeq
<1>7. <<>> \in Seq(AllTexts)
  OBVIOUS
<1> QED BY <1>5, <1>6, <1>7

(* What Sample masks is covered by the mapping it makes. *)
Topped(tops, columns) == DOMAIN tops = ToSet(columns) /\ \A c \in ToSet(columns) : tops[c] \in Seq(AllTexts)
LEMMA ShownIsSeq ==
    ASSUME NEW v \in DOMAIN Content, NEW tops, Topped(tops, Columns(v))
    PROVE  /\ Shown(v, tops) \in Seq(Seq(AllTexts)) /\ FlattenSeq(Shown(v, tops)) \in Seq(Seq(AllTokens))
           /\ DOMAIN Shown(v, tops) = DOMAIN Columns(v)
           /\ \A h \in DOMAIN Columns(v) :
                 /\ Examples(v, Columns(v)[h]) \in Seq(AllTexts) /\ tops[Columns(v)[h]] \in Seq(AllTexts)
                 /\ Examples(v, Columns(v)[h]) # <<>> =>
                       Shown(v, tops)[h] = Examples(v, Columns(v)[h]) \o tops[Columns(v)[h]]
<1>1. PICK cols \in Seq(ToSet(Columns(v))) : cols = Columns(v)
  BY ContentAssumption DEF Columns
<1>2. \A h \in DOMAIN cols : cols[h] \in ToSet(Columns(v))
  BY <1>1
<1>3. \A h \in DOMAIN cols : Examples(v, cols[h]) \in Seq(AllTexts) /\ tops[cols[h]] \in Seq(AllTexts)
  BY <1>2, ExamplesAreTexts DEF Topped
<1>4. PICK shown : shown = Shown(v, tops)
  OBVIOUS
<1>5. /\ DOMAIN shown = DOMAIN cols /\ shown = [h \in DOMAIN cols |-> shown[h]]
      /\ \A h \in DOMAIN cols : shown[h] = IF Examples(v, cols[h]) = <<>> THEN <<>>
                                          ELSE Examples(v, cols[h]) \o tops[cols[h]]
  BY <1>1, <1>4 DEF Shown
<1>6. ASSUME NEW h \in DOMAIN cols
      PROVE  shown[h] \in Seq(AllTexts)
  <2>1. Examples(v, cols[h]) \o tops[cols[h]] \in Seq(AllTexts)
    BY <1>3, ConcatProperties
  <2>2. <<>> \in Seq(AllTexts)
    OBVIOUS
  <2> QED BY <1>5, <2>1, <2>2
<1>7. shown \in Seq(Seq(AllTexts))
  <2>1. DOMAIN cols = 1 .. Len(cols) /\ Len(cols) \in Nat
    BY <1>1, LenProperties
  <2>2. shown \in [1 .. Len(cols) -> Seq(AllTexts)]
    BY <1>5, <1>6, <2>1
  <2> QED BY <2>1, <2>2
<1>8. PICK texts : texts = FlattenSeq(shown)
  OBVIOUS
<1>9. texts \in Seq(AllTexts)
  BY <1>7, <1>8, FlattenIsSeq
<1>10. texts \in Seq(Seq(AllTokens))
  <2>1. AllTexts \subseteq Seq(AllTokens)
    BY TextsAreTokens
  <2> QED BY <1>9, <2>1
<1> QED BY <1>1, <1>3, <1>4, <1>5, <1>7, <1>8, <1>10
LEMMA ShownIsMapped ==
    ASSUME NEW v \in DOMAIN Content, NEW tops, Topped(tops, Columns(v))
    PROVE  IsMapping(MappingOf(FlattenSeq(Shown(v, tops))))
  BY ShownIsSeq, TextsAreCovered
LEMMA SampleCovers ==
    ASSUME NEW v \in DOMAIN Content, NEW tops, Topped(tops, Columns(v)), NEW k \in DOMAIN Columns(v),
           NEW i \in DOMAIN Examples(v, Columns(v)[k])
    PROVE  LET x == Examples(v, Columns(v)[k])[i]
           IN  x \in AllTexts /\ \A n \in DOMAIN x : Covers(MappingOf(FlattenSeq(Shown(v, tops))), x[n])
<1>1. PICK shown \in Seq(Seq(AllTexts)) : shown = Shown(v, tops)
  BY ShownIsSeq
<1>2. PICK texts \in Seq(Seq(AllTokens)) : texts = FlattenSeq(shown)
  BY <1>1, ShownIsSeq
<1>3. PICK e \in Seq(AllTexts) : e = Examples(v, Columns(v)[k])
  BY ShownIsSeq
<1>4. PICK d \in Seq(AllTexts) : d = tops[Columns(v)[k]]
  BY ShownIsSeq
<1>5. i \in DOMAIN e /\ e # <<>> /\ e[i] \in AllTexts
  BY <1>3
<1>6. k \in DOMAIN shown /\ shown[k] = e \o d
  BY <1>1, <1>3, <1>4, <1>5, ShownIsSeq
<1>7. Within(e, shown[k])
  BY <1>6, JoinHolds
<1>8. Within(shown[k], texts)
  BY <1>2, <1>6, FlattenHolds
<1>9. PICK j \in DOMAIN texts : texts[j] = e[i]
  <2>1. PICK h \in DOMAIN shown[k] : shown[k][h] = e[i]
    BY <1>5, <1>7 DEF Within
  <2> QED BY <1>8, <2>1 DEF Within
<1>10. \A n \in DOMAIN e[i] : Covers(MappingOf(texts), e[i][n])
  BY <1>9, TextsAreCovered
<1> QED BY <1>1, <1>2, <1>3, <1>5, <1>10

----------------------------------------------------------------------------
(* A proposal knows the mapping of its prompt until it is stored; what it has restored so far  *)
(* is restored under that mapping, whoever has written, rotated or purged the row it read.     *)
Prompting == {"session", "save session", "lookup", "ask", "failed", "tell", "record", "remember", "parse",
              "estimate", "item", "save rule"}
Restoring == {"load", "audit", "restored"}
Asked == {"record", "remember", "parse"}
Proposes(c) == c.call \in {"rule", "repair"}
Prompted(session, M, call, examples, prompt) ==
    /\ IsMapping(M) /\ session = SessionId(M) /\ prompt.task = call
    /\ \A k \in DOMAIN examples : \A i \in DOMAIN examples[k] :
         /\ prompt.examples[k][i] = redact(examples[k][i], M)
         /\ \A n \in DOMAIN examples[k][i] : IsToken(examples[k][i][n]) /\ Covers(M, examples[k][i][n])
RuleItems == {item \in UNION {ToSet(reply.items) : reply \in Replies.rule} :
                 item.texts \in Seq(ToSet(item.texts)) \ {<<>>}}
SaidOf(call, w) == IF call = "repair" THEN <<w.reply.rationale>> ELSE Head(w.items).texts
Progress(texts, restored, M, said) ==
    /\ \E S : texts \in Seq(S) \ {<<>>}
    /\ \E S : restored \in Seq(S)
    /\ DOMAIN said = 1 .. Len(said) /\ Len(said) = Len(restored) + Len(texts)
    /\ \A j \in 1 .. Len(texts) : texts[j] = said[Len(restored) + j]
    /\ \A t \in 1 .. Len(restored) : restored[t] = restore(said[t], M)
Restored(texts, M, session, said) == session # NoSession => \A t \in DOMAIN said : texts[t] = restore(said[t], M)
SoundRow(x) ==
    /\ IsRow(x) /\ IsMapping(x.payload) /\ x.id = SessionId(x.payload)
    /\ x.key \in Keys \ {NoKey} /\ x.created <= Today
Encrypts(x, r) ==
    /\ x \in {"encrypt", "rotated"} => r.new \in Keys \ {NoKey}
    /\ x = "encrypt" => \A k \in DOMAIN r.left : SoundRow(r.left[k])
Restores(x, r, w) ==
    /\ x \in {"item", "save rule"} => r.command.call = "rule"
    /\ x = "estimate" => r.command.call = "repair"
    /\ x \in {"item", "save rule"} \/ (x \in Restoring /\ r.command.call = "rule") =>
          w.items \in Seq(RuleItems) /\ (x # "item" => w.items # <<>>)
    /\ x \in {"load", "audit"} /\ Proposes(r.command) =>
          Progress(r.texts, r.restored, r.mapping, SaidOf(r.command.call, w))
    /\ x \in {"restored", "save rule"} /\ Proposes(r.command) =>
          Restored(r.restored, r.mapping, r.session, SaidOf(r.command.call, w))
Due(x, r, w) ==
    /\ r.command \in VaultCommands \cup AssistCommands /\ r.key \in Keys
    /\ Encrypts(x, r) /\ Restores(x, r, w)
    /\ x = "sample" => Topped(w.tops, Columns(w.opened))
    /\ x \in Prompting \/ (x \in Restoring /\ Proposes(r.command)) =>
          Prompted(r.session, r.mapping, r.command.call, w.examples, w.prompt)
    /\ x \in Asked => w.reply \in Replies[r.command.call]
Faithful(r, w) == Due(r.stage, r, w)
Scanned(row) ==
    \A k \in DOMAIN row.examples : \A i \in DOMAIN row.examples[k] : \A n \in DOMAIN row.examples[k][i] :
        LET mask == row.prompt.examples[k][i][n]
        IN  \A t \in DOMAIN row.said : \A m \in DOMAIN row.said[t] :
                IsMask(mask) /\ row.said[t][m] = mask => row.texts[t][m] = row.examples[k][i][n]
RowsSound(S) == (\A x \in S : SoundRow(x)) /\ \A x, y \in S : x.id = y.id => x = y
CacheSound(C) == (\A e \in C : e.reply \in Replies[e.prompt.task]) /\ \A e, f \in C : e.prompt = f.prompt => e = f
CandidatesSound(rs, ps) == \A row \in ToSet(rs) \cup ps : Scanned(row)
KeysSound(e, f, n) == e \in Keys /\ f \in Keys /\ n \in 0 .. Len(RandomKeys)
TextInv ==
    /\ KeysSound(env, keyFile, issued) /\ RowsSound(sessions)
    /\ CacheSound(cache) /\ CandidatesSound(rules, proposals)
    /\ \A p \in Procs : Busy(p) => Faithful(proc[p], work[p])

LEMMA KeysAre ==
    /\ NoKey \in Keys /\ DevKey \in Keys \ {NoKey}
    /\ \A k \in Keys : Effective(k) \in Keys \ {NoKey}
  BY KeysAssumption DEF Keys, Effective
LEMMA CandidateIsScanned ==
    ASSUME NEW session, NEW M, NEW call, NEW examples, NEW prompt, Prompted(session, M, call, examples, prompt),
           NEW said, NEW texts, Restored(texts, M, session, said), NEW row,
           row.prompt = prompt, row.examples = examples, row.said = said, row.texts = texts
    PROVE  Scanned(row)
<1> SUFFICES ASSUME NEW k \in DOMAIN examples, NEW i \in DOMAIN examples[k], NEW n \in DOMAIN examples[k][i],
                    NEW t \in DOMAIN said, NEW m \in DOMAIN said[t],
                    IsMask(prompt.examples[k][i][n]), said[t][m] = prompt.examples[k][i][n]
             PROVE  texts[t][m] = examples[k][i][n]
  BY DEF Scanned
<1>1. PICK x : x = examples[k][i]
  OBVIOUS
<1>2. /\ prompt.examples[k][i] = redact(x, M) /\ n \in DOMAIN x /\ IsToken(x[n]) /\ Covers(M, x[n])
      /\ IsMapping(M) /\ session = SessionId(M)
  BY <1>1 DEF Prompted
<1>3. session # NoSession
  BY <1>2, NothingIsMasked
<1>4. texts[t] = restore(said[t], M)
  BY <1>3 DEF Restored
<1>5. PICK s : s = said[t]
  OBVIOUS
<1>6. restore(s, M)[m] = x[n]
  BY <1>2, <1>5, MaskIsRestored
<1> QED BY <1>1, <1>4, <1>5, <1>6

----------------------------------------------------------------------------
(* The forms of the steps. *)
LEMMA OneText ==
    ASSUME AuditInv, TextInv, NEW p \in Procs, NEW r, NEW w,
           proc' = [proc EXCEPT ![p] = r], work' = [work EXCEPT ![p] = w], r = Idle \/ Faithful(r, w),
           KeysSound(env', keyFile', issued'), RowsSound(sessions'), CacheSound(cache'),
           CandidatesSound(rules', proposals')
    PROVE  TextInv'
<1>1. /\ proc'[p] = r /\ work'[p] = w
      /\ \A q \in Procs \ {p} : proc'[q] = proc[q] /\ work'[q] = work[q]
  BY DEF AuditInv, Shape
<1>2. ASSUME NEW q \in Procs, proc'[q] # Idle
      PROVE  Faithful(proc'[q], work'[q])
  <2>1. CASE q = p
    BY <1>1, <1>2, <2>1
  <2>2. CASE q # p
    BY <1>1, <1>2, <2>2 DEF TextInv, Busy
  <2> QED BY <2>1, <2>2
<1> QED BY <1>2 DEF TextInv, Busy
StoreKept == UNCHANGED <<env, keyFile, issued, sessions, cache, rules, proposals>>
LEMMA StoreStays ==
    ASSUME TextInv, StoreKept
    PROVE  /\ KeysSound(env', keyFile', issued') /\ RowsSound(sessions') /\ CacheSound(cache')
           /\ CandidatesSound(rules', proposals')
  BY DEF TextInv, StoreKept
LEMMA SetTexts ==
    ASSUME AuditInv, TextInv, NEW p \in Procs, NEW r, Set(p, r), work' = work, StoreKept,
           r = Idle \/ Faithful(r, work[p])
    PROVE  TextInv'
<1>1. work' = [work EXCEPT ![p] = work[p]]
  BY DEF AuditInv, Shape
<1> QED BY <1>1, OneText, StoreStays DEF Set
LEMMA MoveTexts ==
    ASSUME AuditInv, TextInv, NEW p \in Procs, NEW r, Move(p, r), Rest, Faithful(r, work[p])
    PROVE  TextInv'
  BY SetTexts DEF Move, KeptByVault, Tables, Rest, assistVars, StoreKept
LEMMA StageFields ==
    ASSUME NEW r, IsProcess(r), NEW x
    PROVE  LET s == [r EXCEPT !.stage = x]
           IN  /\ s.stage = x /\ s.command = r.command /\ s.key = r.key /\ s.new = r.new /\ s.session = r.session
               /\ s.mapping = r.mapping /\ s.left = r.left /\ s.texts = r.texts /\ s.restored = r.restored
  BY DEF IsProcess, Fields
LEMMA DueStage ==
    ASSUME NEW r, IsProcess(r), NEW x, NEW w, Due(x, r, w)
    PROVE  Faithful([r EXCEPT !.stage = x], w)
<1>1. PICK s : s = [r EXCEPT !.stage = x]
  OBVIOUS
<1>2. /\ s.stage = x /\ s.command = r.command /\ s.key = r.key /\ s.new = r.new /\ s.session = r.session
      /\ s.mapping = r.mapping /\ s.left = r.left /\ s.texts = r.texts /\ s.restored = r.restored
  BY <1>1, StageFields
<1>3. Due(x, s, w)
  BY <1>2 DEF Due, Encrypts, Restores
<1> QED BY <1>1, <1>2, <1>3 DEF Faithful
LEMMA StageTexts ==
    ASSUME AuditInv, TextInv, NEW p \in Procs, Busy(p), NEW x, Stage(p, x), Due(x, me(p), work[p])
    PROVE  TextInv'
  BY RecordFields, DueStage, MoveTexts DEF Stage
LEMMA AdvanceTexts ==
    ASSUME AuditInv, TextInv, NEW p \in Procs, Busy(p), NEW x, NEW w, Advance(p, x, w), Due(x, me(p), w)
    PROVE  TextInv'
<1>1. Faithful([me(p) EXCEPT !.stage = x], w)
  BY RecordFields, DueStage
<1>2. /\ proc' = [proc EXCEPT ![p] = [me(p) EXCEPT !.stage = x]] /\ work' = [work EXCEPT ![p] = w] /\ StoreKept
  BY DEF Advance, Move, Set, KeptByVault, Tables, StoreKept
<1> QED BY <1>1, <1>2, OneText, StoreStays
LEMMA EndTexts ==
    ASSUME AuditInv, TextInv, NEW p \in Procs, NEW what, NEW exit, EndWith(p, what, exit), UNCHANGED Tables, Rest
    PROVE  TextInv'
  BY SetTexts DEF EndWith, KeptByVault, Tables, Rest, assistVars, StoreKept
LEMMA RefuseTexts ==
    ASSUME AuditInv, TextInv, NEW p \in Procs, NEW what, Refuse(p, what), Rest
    PROVE  TextInv'
  BY EndTexts DEF Refuse, End
LEMMA AnswerTexts ==
    ASSUME AuditInv, TextInv, NEW p \in Procs, NEW what, Answer(p, what)
    PROVE  TextInv'
  BY EndTexts DEF Answer, Finish
LEMMA IsFaithful == ASSUME TextInv, NEW p \in Procs, Busy(p) PROVE Due(me(p).stage, me(p), work[p])
  BY DEF TextInv, Faithful, me

LEMMA OtherMapping ==
    ASSUME NEW M, NEW N, IsMapping(M), IsMapping(N), SessionId(M) = SessionId(N),
           NEW session, NEW call, NEW examples, NEW prompt, Prompted(session, M, call, examples, prompt),
           NEW texts, NEW restored, NEW said, Progress(texts, restored, M, said)
    PROVE  Prompted(session, N, call, examples, prompt) /\ Progress(texts, restored, N, said)
<1>1. /\ \A text : restore(text, M) = restore(text, N) /\ redact(text, M) = redact(text, N)
      /\ \A t : Covers(M, t) => Covers(N, t)
  BY SameTexts
<1>2. Prompted(session, N, call, examples, prompt)
  BY <1>1 DEF Prompted
<1>3. Progress(texts, restored, N, said)
  BY <1>1 DEF Progress
<1> QED BY <1>2, <1>3
LEMMA Progresses ==
    ASSUME NEW texts, NEW restored, NEW M, NEW said, Progress(texts, restored, M, said), NEW session,
           NEW texts2, texts2 = Tail(texts), NEW restored2, restored2 = Append(restored, restore(Head(texts), M))
    PROVE  /\ Len(texts) > 1 => Progress(texts2, restored2, M, said)
           /\ ~(Len(texts) > 1) => Restored(restored2, M, session, said)
<1>1. PICK S : texts \in Seq(S) /\ texts # <<>>
  BY DEF Progress
<1>2. PICK T : restored \in Seq(T)
  BY DEF Progress
<1>3. PICK x : x = restore(Head(texts), M)
  OBVIOUS
<1>4. PICK U : restored \in Seq(U) /\ x \in U
  <2>1. \A V : T \subseteq V => restored \in Seq(V)
    BY <1>2
  <2>2. restored \in Seq(T \cup {x}) /\ x \in T \cup {x}
    BY <2>1
  <2> QED BY <2>2
<1>5. /\ restored2 \in Seq(U) /\ Len(restored2) = Len(restored) + 1
      /\ restored2[Len(restored) + 1] = x /\ \A i \in 1 .. Len(restored) : restored2[i] = restored[i]
  BY <1>3, <1>4, AppendProperties
<1>6. /\ texts2 \in Seq(S) /\ Len(texts2) = Len(texts) - 1 /\ Head(texts) = texts[1]
      /\ \A i \in 1 .. Len(texts2) : texts2[i] = texts[i + 1]
      /\ Len(texts) \in Nat /\ Len(texts) > 0 /\ Len(restored) \in Nat
  BY <1>1, <1>2
<1>7. /\ DOMAIN said = 1 .. Len(said) /\ Len(said) = Len(restored) + Len(texts)
      /\ \A j \in 1 .. Len(texts) : texts[j] = said[Len(restored) + j]
      /\ \A t \in 1 .. Len(restored) : restored[t] = restore(said[t], M)
  BY DEF Progress
<1>8. x = restore(said[Len(restored) + 1], M)
  <2>1. 1 \in 1 .. Len(texts)
    BY <1>6
  <2>2. texts[1] = said[Len(restored) + 1]
    BY <1>7, <2>1
  <2> QED BY <1>3, <1>6, <2>2
<1>9. \A t \in 1 .. Len(restored2) : restored2[t] = restore(said[t], M)
  <2> SUFFICES ASSUME NEW t \in 1 .. Len(restored2) PROVE restored2[t] = restore(said[t], M)
    OBVIOUS
  <2>1. t \in 1 .. Len(restored) \/ t = Len(restored) + 1
    BY <1>5, <1>6
  <2> QED BY <1>5, <1>7, <1>8, <2>1
<1>10. ASSUME Len(texts) > 1
       PROVE  Progress(texts2, restored2, M, said)
  <2>1. Len(said) = Len(restored2) + Len(texts2)
    BY <1>5, <1>6, <1>7
  <2>2. \A j \in 1 .. Len(texts2) : texts2[j] = said[Len(restored2) + j]
    <3> SUFFICES ASSUME NEW j \in 1 .. Len(texts2) PROVE texts2[j] = said[Len(restored2) + j]
      OBVIOUS
    <3>1. j + 1 \in 1 .. Len(texts) /\ Len(restored) + (j + 1) = Len(restored2) + j
      <4>1. j \in Int /\ Len(restored) \in Nat /\ Len(restored2) = Len(restored) + 1
        BY <1>5, <1>6
      <4>2. Len(restored) + (j + 1) = Len(restored2) + j
        BY <4>1
      <4>3. PICK m : m = Len(texts2)
        OBVIOUS
      <4>4. j \in 1 .. m /\ Len(texts) \in Nat /\ m = Len(texts) - 1
        BY <1>6, <4>3
      <4>5. j + 1 \in 1 .. Len(texts)
        BY <4>4
      <4> QED BY <4>2, <4>5
    <3>2. texts[j + 1] = said[Len(restored) + (j + 1)]
      BY <1>7, <3>1
    <3> QED BY <1>6, <3>1, <3>2
  <2>3. texts2 # <<>>
    BY <1>6, <1>10
  <2> QED BY <1>5, <1>6, <1>7, <1>9, <2>1, <2>2, <2>3 DEF Progress
<1>11. ASSUME ~(Len(texts) > 1)
       PROVE  Restored(restored2, M, session, said)
  <2>1. Len(texts) = 1
    BY <1>6, <1>11
  <2>2. DOMAIN said = 1 .. Len(restored2)
    BY <1>5, <1>6, <1>7, <2>1
  <2> QED BY <1>9, <2>2 DEF Restored
<1> QED BY <1>10, <1>11

----------------------------------------------------------------------------
(* The commands of the vault. *)
LEMMA AtDue ==
    ASSUME AuditInv, TextInv, NEW p \in Procs, NEW x, At(p, x), x # "idle"
    PROVE  /\ Busy(p) /\ IsProcess(me(p)) /\ me(p).stage = x /\ me(p) = proc[p] /\ Due(x, me(p), work[p])
           /\ me(p).command \in VaultCommands \cup AssistCommands /\ me(p).key \in Keys
<1>1. Busy(p) /\ me(p).stage = x
  BY AtIsBusy DEF At, me
<1>2. Due(x, me(p), work[p])
  BY <1>1, IsFaithful
<1> QED BY <1>1, <1>2, RecordFields DEF Due, me
Bound == Prompting \cup Restoring \cup Asked \cup {"encrypt", "rotated", "sample"}
LEMMA FreeDue ==
    ASSUME NEW r, NEW w, NEW x, x \notin Bound,
           r.command \in VaultCommands \cup AssistCommands, r.key \in Keys
    PROVE  Due(x, r, w)
  BY DEF Due, Encrypts, Restores, Bound, Prompting, Restoring, Asked
LEMMA FreeTexts ==
    ASSUME AuditInv, TextInv, NEW p \in Procs, NEW r, Move(p, r), Rest, r.stage \notin Bound,
           r.command \in VaultCommands \cup AssistCommands, r.key \in Keys
    PROVE  TextInv'
  BY FreeDue, MoveTexts DEF Faithful
LEMMA Fewer == ASSUME NEW S, NEW T, RowsSound(S), T \subseteq S PROVE RowsSound(T)
  BY DEF RowsSound
LEMMA PutIsSound ==
    ASSUME RowsSound(sessions), NEW x, SoundRow(x)
    PROVE  RowsSound(Put(x))
<1>1. \A y \in Put(x) : y = x \/ (y \in sessions /\ y.id # x.id)
  BY DEF Put
<1> QED BY <1>1 DEF RowsSound
LEMMA ConfiguredIsKey == ASSUME TextInv PROVE Configured \in Keys
  BY DEF TextInv, KeysSound, Configured

LEMMA BeginTexts ==
    ASSUME AuditInv, TextInv, NEW p \in Procs, NEW c \in VaultCommands \cup AssistCommands, Begin(p, c), Rest
    PROVE  TextInv'
<1>1. PICK r : /\ r = [command |-> c, stage |-> "bind", key |-> NoKey, new |-> NoKey, session |-> NoSession,
                        mapping |-> <<>>, left |-> <<>>, texts |-> <<>>, restored |-> <<>>]
  OBVIOUS
<1>2. r.stage = "bind" /\ r.command = c /\ r.key = NoKey
  BY <1>1
<1>3. Due("bind", r, work[p])
  BY <1>2, KeysAre, FreeDue DEF Bound, Prompting, Restoring, Asked
<1>4. Set(p, r) /\ StoreKept /\ work' = work
  BY <1>1 DEF Begin, KeptByVault, Tables, Rest, assistVars, StoreKept
<1> QED BY <1>2, <1>3, <1>4, SetTexts DEF Faithful
LEMMA BindTexts ==
    ASSUME AuditInv, TextInv, NEW p \in Procs, Bind(p), Rest
    PROVE  TextInv'
<1>1. /\ IsProcess(me(p)) /\ me(p).command \in VaultCommands \cup AssistCommands
      /\ command(p).call \in {"restore", "summary", "delete", "purge", "rotate"} /\ command(p) = me(p).command
  BY AtDue DEF Bind, command, me
<1>2. CASE Refuse(p, "disabled")
  BY <1>2, RefuseTexts
<1> DEFINE r == [me(p) EXCEPT !.key = Configured, !.session = command(p).session, !.texts = command(p).texts,
                    !.stage = IF command(p).call \in {"restore", "summary"} THEN "load" ELSE command(p).call]
<1>3. CASE Move(p, r)
  <2>1. /\ r.command = command(p) /\ r.key = Configured
        /\ r.stage = IF command(p).call \in {"restore", "summary"} THEN "load" ELSE command(p).call
    BY <1>1 DEF IsProcess, Fields
  <2> HIDE DEF r
  <2>2. r.stage \in {"load", "delete", "purge", "rotate"}
    BY <1>1, <2>1
  <2>3. Faithful(r, work[p])
    BY <1>1, <2>1, <2>2, ConfiguredIsKey
       DEF Faithful, Due, Encrypts, Restores, Prompting, Restoring, Asked, Proposes
  <2> QED BY <1>3, <2>3, MoveTexts
<1> QED BY <1>2, <1>3 DEF Bind
LEMMA SaveMappingTexts ==
    ASSUME AuditInv, TextInv, NEW p \in Procs, SaveMapping(p), Rest
    PROVE  TextInv'
<1>1. Busy(p) /\ Due("session", me(p), work[p])
  BY AtDue DEF SaveMapping
<1>2. Due("lookup", me(p), work[p]) /\ Due("save session", me(p), work[p])
  BY <1>1 DEF Due, Encrypts, Restores, Prompting, Restoring, Asked
<1>3. \/ EndWith(p, "conflict", "error") /\ UNCHANGED Tables
      \/ Stage(p, "lookup") \/ Stage(p, "save session")
  BY DEF SaveMapping, Stage
<1> QED BY <1>1, <1>2, <1>3, EndTexts, StageTexts
LEMMA WriteMappingTexts ==
    ASSUME AuditInv, TextInv, NEW p \in Procs, WriteMapping(p), Rest
    PROVE  TextInv'
<1>1. Busy(p) /\ IsProcess(me(p)) /\ Due("save session", me(p), work[p])
  BY AtDue DEF WriteMapping
<1>2. Due("lookup", me(p), work[p])
  BY <1>1 DEF Due, Encrypts, Restores, Prompting, Restoring, Asked
<1>3. Faithful([me(p) EXCEPT !.stage = "lookup"], work[p])
  BY <1>1, <1>2, DueStage
<1>4. IsMapping(me(p).mapping) /\ me(p).session = SessionId(me(p).mapping) /\ me(p).key \in Keys
  BY <1>1 DEF Due, Prompted, Prompting
<1>5. Key(p) \in Keys \ {NoKey}
  BY <1>4, KeysAre DEF Key
<1>6. PICK x : x = Row(p)
  OBVIOUS
<1>7. /\ x = [id |-> me(p).session, payload |-> me(p).mapping, key |-> Key(p), created |-> Today]
  BY <1>6 DEF Row
<1>8. IsRow(x) /\ x.id = me(p).session /\ x.payload = me(p).mapping /\ x.key = Key(p) /\ x.created = Today
  BY <1>7 DEF IsRow, RowFields
<1>9. Today <= Today
  BY BoundsAssumption
<1>10. SoundRow(x)
  BY <1>4, <1>5, <1>8, <1>9 DEF SoundRow
<1>11. RowsSound(sessions')
  BY <1>6, <1>10, PutIsSound DEF WriteMapping, TextInv
<1>12. /\ Set(p, [me(p) EXCEPT !.stage = "lookup"]) /\ work' = work
       /\ UNCHANGED <<env, keyFile, issued, cache, rules, proposals>>
  BY DEF WriteMapping, KeptByVault, Rest, assistVars
<1>13. work' = [work EXCEPT ![p] = work[p]]
  BY <1>12 DEF AuditInv, Shape
<1> QED BY <1>3, <1>11, <1>12, <1>13, OneText DEF Set, TextInv

LEMMA LoadMappingTexts ==
    ASSUME AuditInv, TextInv, NEW p \in Procs, LoadMapping(p), Rest
    PROVE  TextInv'
<1>1. /\ Busy(p) /\ IsProcess(me(p)) /\ Due("load", me(p), work[p])
      /\ me(p).command \in VaultCommands \cup AssistCommands /\ me(p).key \in Keys
  BY AtDue DEF LoadMapping
<1>2. CASE \E what : Refuse(p, what)
  BY <1>2, RefuseTexts
<1>3. CASE \E x \in RowOf(me(p).session) : Move(p, [me(p) EXCEPT !.mapping = x.payload, !.stage = "audit"])
  <2>1. PICK x \in RowOf(me(p).session) : Move(p, [me(p) EXCEPT !.mapping = x.payload, !.stage = "audit"])
    BY <1>3
  <2>2. x \in sessions /\ x.id = me(p).session
    BY DEF RowOf
  <2>3. IsMapping(x.payload) /\ me(p).session = SessionId(x.payload)
    BY <2>2 DEF TextInv, RowsSound, SoundRow
  <2>4. PICK N : N = x.payload
    OBVIOUS
  <2>5. PICK r : r = [me(p) EXCEPT !.mapping = N, !.stage = "audit"]
    OBVIOUS
  <2>6. /\ r.stage = "audit" /\ r.mapping = N /\ r.command = me(p).command /\ r.key = me(p).key
        /\ r.session = me(p).session /\ r.texts = me(p).texts /\ r.restored = me(p).restored
    BY <1>1, <2>5 DEF IsProcess, Fields
  <2>7. ASSUME Proposes(me(p).command)
        PROVE  /\ Prompted(me(p).session, N, me(p).command.call, work[p].examples, work[p].prompt)
               /\ Progress(me(p).texts, me(p).restored, N, SaidOf(me(p).command.call, work[p]))
    <3>1. /\ Prompted(me(p).session, me(p).mapping, me(p).command.call, work[p].examples, work[p].prompt)
          /\ Progress(me(p).texts, me(p).restored, me(p).mapping, SaidOf(me(p).command.call, work[p]))
      BY <1>1, <2>7 DEF Due, Restores, Restoring
    <3>2. IsMapping(me(p).mapping) /\ SessionId(me(p).mapping) = SessionId(N) /\ IsMapping(N)
      BY <2>3, <2>4, <3>1 DEF Prompted
    <3> QED BY <3>1, <3>2, OtherMapping
  <2>8. Faithful(r, work[p])
    BY <1>1, <2>6, <2>7 DEF Faithful, Due, Encrypts, Restores, Prompting, Restoring, Asked
  <2> QED BY <2>1, <2>4, <2>5, <2>8, MoveTexts
<1> QED BY <1>2, <1>3 DEF LoadMapping
LEMMA AuditRestoreTexts ==
    ASSUME AuditInv, TextInv, NEW p \in Procs, AuditRestore(p), Rest
    PROVE  TextInv'
<1>1. /\ Busy(p) /\ IsProcess(me(p)) /\ Due("audit", me(p), work[p])
      /\ me(p).command \in VaultCommands \cup AssistCommands /\ me(p).key \in Keys
  BY AtDue DEF AuditRestore
<1> DEFINE r == [me(p) EXCEPT !.restored = Append(@, restore(Head(me(p).texts), me(p).mapping)),
                              !.texts = Tail(@), !.stage = IF Len(me(p).texts) > 1 THEN "load" ELSE "restored"]
<1>2. /\ r.stage = IF Len(me(p).texts) > 1 THEN "load" ELSE "restored"
      /\ r.mapping = me(p).mapping /\ r.command = me(p).command /\ r.key = me(p).key
      /\ r.session = me(p).session /\ r.texts = Tail(me(p).texts)
      /\ r.restored = Append(me(p).restored, restore(Head(me(p).texts), me(p).mapping))
  BY <1>1 DEF IsProcess, Fields
<1>3. Set(p, r) /\ StoreKept /\ work' = work
  BY DEF AuditRestore, KeptByVault, Rest, assistVars, StoreKept
<1> HIDE DEF r
<1>4. r.stage \in {"load", "restored"}
  BY <1>2
<1>5. PICK said : said = SaidOf(me(p).command.call, work[p])
  OBVIOUS
<1>6. ASSUME Proposes(me(p).command)
      PROVE  /\ r.stage = "load" => Progress(r.texts, r.restored, me(p).mapping, said)
             /\ r.stage = "restored" => Restored(r.restored, me(p).mapping, me(p).session, said)
  <2>1. Progress(me(p).texts, me(p).restored, me(p).mapping, said)
    BY <1>1, <1>5, <1>6 DEF Due, Restores
  <2> QED BY <1>2, <2>1, Progresses
<1>7. Proposes(me(p).command) =>
          Prompted(me(p).session, me(p).mapping, me(p).command.call, work[p].examples, work[p].prompt)
  BY <1>1 DEF Due, Restoring
<1>8. me(p).command.call = "rule" => work[p].items \in Seq(RuleItems) /\ work[p].items # <<>>
  BY <1>1 DEF Due, Restores, Restoring
<1>9. Faithful(r, work[p])
  BY <1>1, <1>2, <1>4, <1>5, <1>6, <1>7, <1>8 DEF Faithful, Due, Encrypts, Restores, Prompting, Restoring, Asked
<1> QED BY <1>3, <1>9, SetTexts
LEMMA RemovesTexts ==
    ASSUME AuditInv, TextInv, NEW p \in Procs, Show(p) \/ Delete(p) \/ ListOld(p) \/ DropOld(p), Rest
    PROVE  TextInv'
<1>1. CASE Show(p)
  BY <1>1, RefuseTexts DEF Show
<1>2. CASE Delete(p)
  <2>1. sessions' \subseteq sessions
    BY <1>2 DEF Delete
  <2>2. Set(p, Idle) /\ work' = work /\ UNCHANGED <<env, keyFile, issued, cache, rules, proposals>>
    BY <1>2 DEF Delete, End, EndWith, KeptByVault, Rest, assistVars
  <2>3. work' = [work EXCEPT ![p] = work[p]]
    BY <2>2 DEF AuditInv, Shape
  <2>4. RowsSound(sessions')
    BY <2>1, Fewer DEF TextInv
  <2> QED BY <2>2, <2>3, <2>4, OneText DEF Set, TextInv
<1>3. CASE ListOld(p)
  <2>1. PICK r : /\ Move(p, r)
                 /\ r = [me(p) EXCEPT !.stage = "drop",
                            !.left = SetToSeq({o.id : o \in {y \in sessions : y.created + command(p).days < Today}})]
    BY <1>3 DEF ListOld
  <2>2. IsProcess(me(p)) /\ me(p).command \in VaultCommands \cup AssistCommands /\ me(p).key \in Keys
    BY <1>3, AtDue DEF ListOld
  <2>3. r.stage = "drop" /\ r.command = me(p).command /\ r.key = me(p).key
    BY <2>1, <2>2 DEF IsProcess, Fields
  <2> QED BY <2>1, <2>2, <2>3, FreeTexts DEF Bound, Prompting, Restoring, Asked
<1>4. CASE DropOld(p)
  <2>1. CASE Refuse(p, "done")
    BY <2>1, RefuseTexts
  <2>2. CASE ~Refuse(p, "done")
    <3>1. /\ sessions' \subseteq sessions /\ Set(p, [me(p) EXCEPT !.left = Tail(@)]) /\ work' = work
          /\ UNCHANGED <<env, keyFile, issued, cache, rules, proposals>>
      BY <1>4, <2>2 DEF DropOld, KeptByVault, Rest, assistVars
    <3>2. PICK r : r = [me(p) EXCEPT !.left = Tail(@)]
      OBVIOUS
    <3>3. IsProcess(me(p)) /\ me(p).command \in VaultCommands \cup AssistCommands /\ me(p).key \in Keys /\ me(p).stage = "drop"
      BY <1>4, AtDue DEF DropOld
    <3>4. r.stage = "drop" /\ r.command = me(p).command /\ r.key = me(p).key
      BY <3>2, <3>3 DEF IsProcess, Fields
    <3>5. Faithful(r, work[p])
      BY <3>3, <3>4, FreeDue DEF Faithful, Bound, Prompting, Restoring, Asked
    <3>6. work' = [work EXCEPT ![p] = work[p]]
      BY <3>1 DEF AuditInv, Shape
    <3>7. RowsSound(sessions')
      BY <3>1, Fewer DEF TextInv
    <3> QED BY <3>1, <3>2, <3>5, <3>6, <3>7, OneText DEF Set, TextInv
  <2> QED BY <2>1, <2>2
<1> QED BY <1>1, <1>2, <1>3, <1>4

(* A rotation gives keys of the model and takes the rows it has read. *)
LEMMA NewKey ==
    ASSUME TextInv, NEW c \in VaultCommands \cup AssistCommands, c.call = "rotate"
    PROVE  /\ c.material = Random /\ issued < Len(RandomKeys) =>
                 RandomKeys[issued + 1] \in Keys \ {NoKey} /\ issued + 1 \in 0 .. Len(RandomKeys)
           /\ c.material # Random => c.material \in Keys \ {NoKey}
<1>1. c \in VaultCommands
  BY CommandsAssumption
<1>2. c.material # NoKey
  BY <1>1, MaterialAssumption
<1>3. c.material # Random => c.material \in Keys \ {NoKey}
  BY <1>1, <1>2 DEF Keys
<1>4. ASSUME issued < Len(RandomKeys)
      PROVE  RandomKeys[issued + 1] \in Keys \ {NoKey} /\ issued + 1 \in 0 .. Len(RandomKeys)
  <2>1. issued \in 0 .. Len(RandomKeys)
    BY DEF TextInv, KeysSound
  <2>2. PICK ks \in Seq(ToSet(RandomKeys) \ {NoKey}) : ks = RandomKeys
    BY MaterialAssumption
  <2>3. PICK n \in Nat : n = Len(ks)
    OBVIOUS
  <2>4. issued + 1 \in 1 .. n
    BY <1>4, <2>1, <2>2, <2>3
  <2>5. ks[issued + 1] \in ToSet(RandomKeys) \ {NoKey}
    BY <2>3, <2>4
  <2>6. RandomKeys[issued + 1] \in Keys \ {NoKey}
    BY <2>2, <2>5, KeysAssumption DEF Keys
  <2> QED BY <2>2, <2>3, <2>4, <2>6
<1> QED BY <1>3, <1>4
LEMMA StartRotationTexts ==
    ASSUME AuditInv, KeyInv, TextInv, NEW p \in Procs, StartRotation(p), Rest
    PROVE  TextInv'
<1>1. /\ Busy(p) /\ IsProcess(me(p)) /\ me(p).stage = "rotate"
      /\ me(p).command \in VaultCommands \cup AssistCommands /\ me(p).key \in Keys
  BY AtDue DEF StartRotation
<1>2. me(p).command.call = "rotate"
  BY <1>1 DEF KeyInv, RotationInv, Rotation, Rotating, command, me
<1>3. PICK new : new = IF command(p).material = Random THEN RandomKeys[issued + 1] ELSE command(p).material
  OBVIOUS
<1>4. PICK r : r = [me(p) EXCEPT !.stage = "encrypt", !.left = SetToSeq(sessions), !.new = new]
  OBVIOUS
<1>5. /\ command(p).material = Random => issued < Len(RandomKeys) /\ issued' = issued + 1
      /\ command(p).material # Random => issued' = issued
      /\ Set(p, r) /\ work' = work /\ UNCHANGED <<env, keyFile, sessions, cache, rules, proposals>>
  BY <1>3, <1>4 DEF StartRotation, KeptByVault, Rest, assistVars
<1>6. command(p) = me(p).command
  BY DEF command, me
<1>7. new \in Keys \ {NoKey} /\ issued' \in 0 .. Len(RandomKeys)
  <2>1. issued \in 0 .. Len(RandomKeys)
    BY DEF TextInv, KeysSound
  <2> QED BY <1>1, <1>2, <1>3, <1>5, <1>6, <2>1, NewKey
<1>8. r.stage = "encrypt" /\ r.left = SetToSeq(sessions) /\ r.new = new /\ r.command = me(p).command /\ r.key = me(p).key
  BY <1>1, <1>4 DEF IsProcess, Fields
<1>9. \A k \in DOMAIN r.left : SoundRow(r.left[k])
  <2>1. IsFiniteSet(sessions)
    BY DEF KeyInv
  <2>2. r.left \in Seq(sessions)
    BY <1>8, <2>1, ListsAll
  <2>3. \A k \in DOMAIN r.left : r.left[k] \in sessions
    BY <2>2
  <2> QED BY <2>3 DEF TextInv, RowsSound
<1>10. Faithful(r, work[p])
  BY <1>1, <1>2, <1>7, <1>8, <1>9 DEF Faithful, Due, Encrypts, Restores, Prompting, Restoring, Asked, Proposes
<1>11. work' = [work EXCEPT ![p] = work[p]]
  BY <1>5 DEF AuditInv, Shape
<1>12. KeysSound(env', keyFile', issued')
  BY <1>5, <1>7 DEF TextInv, KeysSound
<1> QED BY <1>5, <1>10, <1>11, <1>12, OneText DEF Set, TextInv
LEMMA EncryptAnewTexts ==
    ASSUME AuditInv, KeyInv, TextInv, NEW p \in Procs, EncryptAnew(p), Rest
    PROVE  TextInv'
<1>1. /\ Busy(p) /\ IsProcess(me(p)) /\ me(p).stage = "encrypt" /\ Due("encrypt", me(p), work[p])
      /\ me(p).command \in VaultCommands \cup AssistCommands /\ me(p).key \in Keys
  BY AtDue DEF EncryptAnew
<1>2. me(p).command.call = "rotate" /\ Listed(me(p).left) /\ me(p).left # <<>>
  BY <1>1 DEF KeyInv, RotationInv, Rotation, Rotating, command, me, EncryptAnew
<1>3. me(p).new \in Keys \ {NoKey} /\ \A k \in DOMAIN me(p).left : SoundRow(me(p).left[k])
  BY <1>1 DEF Due, Encrypts
<1>4. CASE Refuse(p, "key")
  BY <1>4, RefuseTexts
<1>5. CASE ~Refuse(p, "key")
  <2>1. PICK row : row = Head(me(p).left)
    OBVIOUS
  <2>2. PICK anew : anew = [row EXCEPT !.key = me(p).new, !.created = Today]
    OBVIOUS
  <2>3. PICK r : r = [me(p) EXCEPT !.left = Tail(@)]
    OBVIOUS
  <2>4. /\ sessions' = Put(anew) /\ Set(p, r) /\ work' = work
        /\ UNCHANGED <<env, keyFile, issued, cache, rules, proposals>>
    BY <1>5, <2>1, <2>2, <2>3 DEF EncryptAnew, KeptByVault, Rest, assistVars
  <2>5. /\ row = me(p).left[1] /\ 1 \in DOMAIN me(p).left
        /\ \A j \in DOMAIN Tail(me(p).left) : j + 1 \in DOMAIN me(p).left /\ Tail(me(p).left)[j] = me(p).left[j + 1]
    BY <1>2, <2>1, RestListed
  <2>6. SoundRow(row)
    BY <1>3, <2>5
  <2>7. SoundRow(anew)
    <3>1. IsRow(row)
      BY <2>6 DEF SoundRow
    <3>2. /\ IsRow(anew) /\ anew.id = row.id /\ anew.payload = row.payload
          /\ anew.key = me(p).new /\ anew.created = Today
      BY <2>2, <3>1 DEF IsRow, RowFields
    <3>3. Today <= Today
      BY BoundsAssumption
    <3>4. IsMapping(row.payload) /\ row.id = SessionId(row.payload)
      BY <2>6 DEF SoundRow
    <3> QED BY <1>3, <3>2, <3>3, <3>4 DEF SoundRow
  <2>8. RowsSound(sessions')
    BY <2>4, <2>7, PutIsSound DEF TextInv
  <2>9. /\ r.stage = "encrypt" /\ r.left = Tail(me(p).left) /\ r.new = me(p).new
        /\ r.command = me(p).command /\ r.key = me(p).key
    BY <1>1, <2>3 DEF IsProcess, Fields
  <2>10. \A k \in DOMAIN r.left : SoundRow(r.left[k])
    BY <1>3, <2>5, <2>9
  <2>11. Faithful(r, work[p])
    BY <1>1, <1>2, <1>3, <2>9, <2>10 DEF Faithful, Due, Encrypts, Restores, Prompting, Restoring, Asked, Proposes
  <2>12. work' = [work EXCEPT ![p] = work[p]]
    BY <2>4 DEF AuditInv, Shape
  <2> QED BY <2>4, <2>8, <2>11, <2>12, OneText DEF Set, TextInv
<1> QED BY <1>4, <1>5
LEMMA ReplaceKeyFileTexts ==
    ASSUME AuditInv, KeyInv, TextInv, NEW p \in Procs, ReplaceKeyFile(p), Rest
    PROVE  TextInv'
<1>1. /\ Busy(p) /\ IsProcess(me(p)) /\ me(p).stage = "encrypt" /\ Due("encrypt", me(p), work[p])
      /\ me(p).command \in VaultCommands \cup AssistCommands
  BY AtDue DEF ReplaceKeyFile
<1>2. me(p).command.call = "rotate"
  BY <1>1 DEF KeyInv, RotationInv, Rotation, Rotating, command, me
<1>3. me(p).new \in Keys \ {NoKey}
  BY <1>1 DEF Due, Encrypts
<1>4. PICK r : r = [me(p) EXCEPT !.key = me(p).new, !.stage = "rotated"]
  OBVIOUS
<1>5. /\ keyFile' = me(p).new /\ Set(p, r) /\ work' = work
      /\ UNCHANGED <<env, sessions, issued, cache, rules, proposals>>
  BY <1>4 DEF ReplaceKeyFile, KeptByVault, Rest, assistVars
<1>6. r.stage = "rotated" /\ r.new = me(p).new /\ r.command = me(p).command /\ r.key = me(p).new
  BY <1>1, <1>4 DEF IsProcess, Fields
<1>7. Faithful(r, work[p])
  BY <1>1, <1>2, <1>3, <1>6 DEF Faithful, Due, Encrypts, Restores, Prompting, Restoring, Asked, Proposes
<1>8. work' = [work EXCEPT ![p] = work[p]]
  BY <1>5 DEF AuditInv, Shape
<1>9. KeysSound(env', keyFile', issued')
  BY <1>3, <1>5 DEF TextInv, KeysSound
<1> QED BY <1>5, <1>7, <1>8, <1>9, OneText DEF Set, TextInv
LEMMA StopsTexts ==
    ASSUME AuditInv, TextInv, NEW p \in Procs, AuditRotation(p) \/ Crash(p), Rest
    PROVE  TextInv'
<1>1. Set(p, Idle) /\ StoreKept /\ work' = work
  BY DEF AuditRotation, Crash, End, EndWith, KeptByVault, Tables, Rest, assistVars, StoreKept
<1> QED BY <1>1, SetTexts

LEMMA VaultTexts ==
    ASSUME AuditInv, KeyInv, TextInv, NEW p \in Procs, VaultStep(p), Rest
    PROVE  TextInv'
<1>1. CASE \E c \in VaultCommands : Begin(p, c)
  BY <1>1, BeginTexts
<1>2. CASE Bind(p) \/ SaveMapping(p) \/ WriteMapping(p) \/ LoadMapping(p) \/ AuditRestore(p)
  BY <1>2, BindTexts, SaveMappingTexts, WriteMappingTexts, LoadMappingTexts, AuditRestoreTexts
<1>3. CASE Show(p) \/ Delete(p) \/ ListOld(p) \/ DropOld(p) \/ StartRotation(p) \/ EncryptAnew(p)
              \/ ReplaceKeyFile(p) \/ AuditRotation(p) \/ Crash(p)
  BY <1>3, RemovesTexts, StartRotationTexts, EncryptAnewTexts, ReplaceKeyFileTexts, StopsTexts
<1> QED BY <1>1, <1>2, <1>3 DEF VaultStep

----------------------------------------------------------------------------
(* The proposals. *)
LEMMA WorkFieldsAre ==
    ASSUME AuditInv, NEW p \in Procs
    PROVE  IsWork(work[p]) /\ Doing(p) = work[p]
  BY DEF AuditInv, Shape, Doing
LEMMA OpenTexts ==
    ASSUME AuditInv, TextInv, NEW p \in Procs, Open(p)
    PROVE  TextInv'
<1>1. CASE \E what : Answer(p, what)
  BY <1>1, AnswerTexts
<1>2. CASE ~\E what : Answer(p, what)
  <2>1. PICK r : r = [me(p) EXCEPT !.key = Configured, !.stage = "profile"]
    OBVIOUS
  <2>2. PICK w : w = [NoWork EXCEPT !.opened = file]
    OBVIOUS
  <2>3. Move(p, r) /\ work' = [work EXCEPT ![p] = w] /\ UNCHANGED <<file, provider, cache, rules, proposals>>
    BY <1>2, <2>1, <2>2 DEF Open
  <2>4. IsProcess(me(p)) /\ me(p).command \in VaultCommands \cup AssistCommands
    BY AtDue DEF Open
  <2>5. r.stage = "profile" /\ r.command = me(p).command /\ r.key = Configured
    BY <2>1, <2>4 DEF IsProcess, Fields
  <2>6. Faithful(r, w)
    BY <2>4, <2>5, ConfiguredIsKey, FreeDue DEF Faithful, Bound, Prompting, Restoring, Asked
  <2>7. StoreKept /\ Set(p, r)
    BY <2>3 DEF Move, KeptByVault, Tables, StoreKept
  <2> QED BY <2>3, <2>6, <2>7, OneText, StoreStays DEF Set
<1> QED BY <1>1, <1>2
LEMMA ProfileTexts ==
    ASSUME AuditInv, ApprovalInv, TextInv, NEW p \in Procs, Profile(p)
    PROVE  TextInv'
<1>1. CASE Answer(p, "error")
  BY <1>1, AnswerTexts
<1>2. CASE ~Answer(p, "error")
  <2>1. PICK tops : /\ DOMAIN tops = ToSet(Columns(file)) /\ \A c \in DOMAIN tops : tops[c] \in TopCategories(file, c)
                    /\ Advance(p, "sample", [Doing(p) EXCEPT !.stats = Statistics(file), !.tops = tops])
    BY <1>2 DEF Profile
  <2>2. file \in DOMAIN Content /\ Columns(file) = Columns(work[p].opened)
    BY <1>2 DEF Profile, Readable, ApprovalInv, Doing
  <2>3. Busy(p) /\ me(p).command \in VaultCommands \cup AssistCommands /\ me(p).key \in Keys
    BY AtDue DEF Profile
  <2>4. PICK w : w = [Doing(p) EXCEPT !.stats = Statistics(file), !.tops = tops]
    OBVIOUS
  <2>5. w.tops = tops /\ w.opened = work[p].opened
    BY <2>4, WorkFieldsAre DEF IsWork, WorkFields
  <2>6. Topped(w.tops, Columns(w.opened))
    <3>1. \A c \in ToSet(Columns(file)) : tops[c] \in Seq(AllTexts)
      BY <2>1, <2>2, CategoriesAreTexts
    <3> QED BY <2>1, <2>2, <2>5, <3>1 DEF Topped
  <2>7. Due("sample", me(p), w)
    BY <2>3, <2>6 DEF Due, Encrypts, Restores, Prompting, Restoring, Asked
  <2> QED BY <2>1, <2>3, <2>4, <2>7, AdvanceTexts
<1> QED BY <1>1, <1>2
SampleOf(f) == [k \in DOMAIN Columns(f) |-> Examples(f, Columns(f)[k])]
LEMMA SampleIsPrompted ==
    ASSUME NEW v \in DOMAIN Content, NEW tops, Topped(tops, Columns(v)), NEW c, NEW stats,
           NEW M, M = MappingOf(FlattenSeq(Shown(v, tops))), NEW examples, examples = SampleOf(v),
           NEW prompt, prompt = Prompt(c, stats, examples, M)
    PROVE  Prompted(SessionId(M), M, c.call, examples, prompt)
<1>1. IsMapping(M)
  BY ShownIsMapped
<1>2. DOMAIN examples = DOMAIN Columns(v) /\ \A k \in DOMAIN Columns(v) : examples[k] = Examples(v, Columns(v)[k])
  BY DEF SampleOf
<1>3. /\ prompt.task = c.call
      /\ prompt.examples = [k \in DOMAIN examples |-> [i \in DOMAIN examples[k] |-> redact(examples[k][i], M)]]
  BY DEF Prompt
<1>4. ASSUME NEW k \in DOMAIN examples, NEW i \in DOMAIN examples[k]
      PROVE  /\ prompt.examples[k][i] = redact(examples[k][i], M)
             /\ \A n \in DOMAIN examples[k][i] : IsToken(examples[k][i][n]) /\ Covers(M, examples[k][i][n])
  <2>1. prompt.examples[k][i] = redact(examples[k][i], M)
    BY <1>3
  <2>2. PICK x : x = examples[k][i]
    OBVIOUS
  <2>3. k \in DOMAIN Columns(v) /\ i \in DOMAIN Examples(v, Columns(v)[k]) /\ x = Examples(v, Columns(v)[k])[i]
    BY <1>2, <2>2
  <2>4. x \in AllTexts /\ \A n \in DOMAIN x : Covers(M, x[n])
    BY <2>3, SampleCovers
  <2>5. \A n \in DOMAIN x : IsToken(x[n])
    BY <2>4, TextsAreTokens
  <2> QED BY <2>1, <2>2, <2>4, <2>5
<1> QED BY <1>1, <1>3, <1>4 DEF Prompted
LEMMA SampleTexts ==
    ASSUME AuditInv, ApprovalInv, TextInv, NEW p \in Procs, Sample(p)
    PROVE  TextInv'
<1>1. CASE Answer(p, "error")
  BY <1>1, AnswerTexts
<1>2. CASE ~Answer(p, "error")
  <2>1. PICK examples : examples = SampleOf(file)
    OBVIOUS
  <2>2. PICK M : M = MappingOf(FlattenSeq(Shown(file, Doing(p).tops)))
    OBVIOUS
  <2>3. PICK prompt : prompt = Prompt(command(p), Doing(p).stats, examples, M)
    OBVIOUS
  <2>4. PICK r : r = [me(p) EXCEPT !.mapping = M, !.session = SessionId(M),
                                   !.stage = IF M = <<>> THEN "lookup" ELSE "session"]
    OBVIOUS
  <2>5. PICK w : w = [work[p] EXCEPT !.examples = examples, !.prompt = prompt]
    OBVIOUS
  <2>6. Move(p, r) /\ UNCHANGED <<file, provider, cache, rules, proposals>>
    BY <1>2, <2>1, <2>2, <2>4 DEF Sample
  <2>7. work' = [work EXCEPT ![p].examples = examples, ![p].prompt = prompt]
    BY <1>2, <2>1, <2>2, <2>3 DEF Sample, SampleOf
  <2>8. work' = [work EXCEPT ![p] = w]
    BY <2>5, <2>7 DEF AuditInv, Shape
  <2>9. /\ Busy(p) /\ IsProcess(me(p)) /\ me(p).command \in VaultCommands \cup AssistCommands /\ me(p).key \in Keys
        /\ Due("sample", me(p), work[p])
    BY AtDue DEF Sample
  <2>10. file \in DOMAIN Content /\ Columns(file) = Columns(work[p].opened)
    BY <1>2 DEF Sample, Readable, ApprovalInv, Doing
  <2>11. Topped(Doing(p).tops, Columns(file))
    BY <2>9, <2>10 DEF Due, Doing
  <2>12. Prompted(SessionId(M), M, command(p).call, examples, prompt)
    BY <2>1, <2>2, <2>3, <2>10, <2>11, SampleIsPrompted
  <2>13. w.examples = examples /\ w.prompt = prompt
    BY <2>5, WorkFieldsAre DEF IsWork, WorkFields
  <2>14. /\ r.stage \in {"lookup", "session"} /\ r.mapping = M /\ r.session = SessionId(M)
         /\ r.command = me(p).command /\ r.key = me(p).key
    BY <2>4, <2>9 DEF IsProcess, Fields
  <2>15. Prompted(r.session, r.mapping, r.command.call, w.examples, w.prompt)
    BY <2>12, <2>13, <2>14 DEF command, me
  <2>16. Faithful(r, w)
    BY <2>9, <2>14, <2>15 DEF Faithful, Due, Encrypts, Restores, Prompting, Restoring, Asked
  <2>17. StoreKept /\ Set(p, r)
    BY <2>6 DEF Move, KeptByVault, Tables, StoreKept
  <2> QED BY <2>8, <2>16, <2>17, OneText, StoreStays DEF Set
<1> QED BY <1>1, <1>2

(* A prompt stays what it is while the model is asked. *)
LEMMA PromptDue ==
    ASSUME NEW r, NEW w, NEW x \in Prompting, Due(x, r, w)
    PROVE  /\ Prompted(r.session, r.mapping, r.command.call, w.examples, w.prompt)
           /\ r.command \in VaultCommands \cup AssistCommands /\ r.key \in Keys
  BY DEF Due
Asking == {"session", "save session", "lookup", "ask", "failed", "tell", "record", "remember", "parse"}
LEMMA AskingDue ==
    ASSUME NEW r, NEW w, NEW x \in Asking, r.command \in VaultCommands \cup AssistCommands, r.key \in Keys,
           Prompted(r.session, r.mapping, r.command.call, w.examples, w.prompt),
           x \in Asked => w.reply \in Replies[r.command.call]
    PROVE  Due(x, r, w)
  BY DEF Due, Encrypts, Restores, Prompting, Restoring, Asked, Asking
LEMMA AsksTexts ==
    ASSUME AuditInv, TextInv, NEW p \in Procs, Lookup(p) \/ TimesOut(p) \/ Breaks(p) \/ Answers(p)
    PROVE  TextInv'
<1>1. PICK x \in {"lookup", "ask"} : At(p, x)
  BY DEF Lookup, TimesOut, Breaks, Answers
<1>2. Busy(p) /\ Due(x, me(p), work[p])
  BY <1>1, AtDue
<1>3. /\ Prompted(me(p).session, me(p).mapping, me(p).command.call, work[p].examples, work[p].prompt)
      /\ me(p).command \in VaultCommands \cup AssistCommands /\ me(p).key \in Keys
  BY <1>1, <1>2, PromptDue DEF Prompting
<1>4. CASE \E y \in {"ask", "failed"} : Stage(p, y)
  BY <1>2, <1>3, <1>4, AskingDue, StageTexts DEF Asking, Asked
<1>5. CASE Advance(p, "ask", [Doing(p) EXCEPT !.attempts = @ + 1])
  <2>1. PICK w : w = [Doing(p) EXCEPT !.attempts = @ + 1]
    OBVIOUS
  <2>2. w.examples = work[p].examples /\ w.prompt = work[p].prompt
    BY <2>1, WorkFieldsAre DEF IsWork, WorkFields
  <2>3. Due("ask", me(p), w)
    BY <1>3, <2>2, AskingDue DEF Asking, Asked
  <2> QED BY <1>2, <1>5, <2>1, <2>3, AdvanceTexts
<1>6. CASE \E reply \in Replies[me(p).command.call] : \E y \in {"parse", "record"} :
              Advance(p, y, [Doing(p) EXCEPT !.reply = reply])
  <2>1. PICK reply \in Replies[me(p).command.call], y \in {"parse", "record"} :
              Advance(p, y, [Doing(p) EXCEPT !.reply = reply])
    BY <1>6
  <2>2. PICK w : w = [Doing(p) EXCEPT !.reply = reply]
    OBVIOUS
  <2>3. w.examples = work[p].examples /\ w.prompt = work[p].prompt /\ w.reply = reply
    BY <2>2, WorkFieldsAre DEF IsWork, WorkFields
  <2>4. Due(y, me(p), w)
    BY <1>3, <2>3, AskingDue DEF Asking
  <2> QED BY <1>2, <2>1, <2>2, <2>4, AdvanceTexts
<1>7. ASSUME Lookup(p)
      PROVE  Stage(p, "ask") \/ \E reply \in Replies[me(p).command.call] : Advance(p, "parse", [Doing(p) EXCEPT !.reply = reply])
  <2>1. Stage(p, "ask") \/ \E e \in cache : e.prompt = work[p].prompt /\ Advance(p, "parse", [Doing(p) EXCEPT !.reply = e.reply])
    BY <1>7 DEF Lookup, Doing
  <2>2. \A e \in cache : e.prompt = work[p].prompt => e.reply \in Replies[me(p).command.call]
    BY <1>3 DEF TextInv, CacheSound, Prompted
  <2> QED BY <2>1, <2>2
<1>8. ASSUME Answers(p)
      PROVE  \E reply \in Replies[me(p).command.call] : Advance(p, "record", [Doing(p) EXCEPT !.reply = reply])
  BY <1>8 DEF Answers, command, me
<1> QED BY <1>4, <1>5, <1>6, <1>7, <1>8 DEF TimesOut, Breaks
LEMMA RecordsTexts ==
    ASSUME AuditInv, TextInv, NEW p \in Procs, RecordFailure(p) \/ RecordCall(p)
    PROVE  TextInv'
<1>1. PICK x \in {"failed", "record"} : At(p, x)
  BY DEF RecordFailure, RecordCall
<1>2. Busy(p) /\ IsProcess(me(p)) /\ Due(x, me(p), work[p])
  BY <1>1, AtDue
<1>3. /\ Prompted(me(p).session, me(p).mapping, me(p).command.call, work[p].examples, work[p].prompt)
      /\ me(p).command \in VaultCommands \cup AssistCommands /\ me(p).key \in Keys
      /\ x = "record" => work[p].reply \in Replies[me(p).command.call]
  BY <1>1, <1>2, PromptDue DEF Prompting, Due, Asked
<1>4. PICK y \in {"tell", "remember"} : Set(p, [me(p) EXCEPT !.stage = y]) /\ (y = "remember" => At(p, "record"))
  BY DEF RecordFailure, RecordCall, Record
<1>5. StoreKept /\ work' = work
  BY DEF RecordFailure, RecordCall, Record, KeptByVault, Rest, assistVars, StoreKept
<1>6. y = "remember" => x = "record"
  BY <1>1, <1>4 DEF At
<1>7. Due(y, me(p), work[p])
  BY <1>3, <1>4, <1>6, AskingDue DEF Asking, Asked
<1>8. Faithful([me(p) EXCEPT !.stage = y], work[p])
  BY <1>2, <1>7, DueStage
<1> QED BY <1>4, <1>5, <1>8, SetTexts
LEMMA RememberTexts ==
    ASSUME AuditInv, TextInv, NEW p \in Procs, Remember(p)
    PROVE  TextInv'
<1>1. CASE Answer(p, "error")
  BY <1>1, AnswerTexts
<1>2. CASE ~Answer(p, "error")
  <2>1. Busy(p) /\ IsProcess(me(p)) /\ Due("remember", me(p), work[p])
    BY AtDue DEF Remember
  <2>2. /\ Prompted(me(p).session, me(p).mapping, me(p).command.call, work[p].examples, work[p].prompt)
        /\ me(p).command \in VaultCommands \cup AssistCommands /\ me(p).key \in Keys
        /\ work[p].reply \in Replies[me(p).command.call]
    BY <2>1, PromptDue DEF Prompting, Due, Asked
  <2>3. Faithful([me(p) EXCEPT !.stage = "parse"], work[p])
    BY <2>1, <2>2, AskingDue, DueStage DEF Asking
  <2>4. PICK e : e = [prompt |-> work[p].prompt, reply |-> work[p].reply]
    OBVIOUS
  <2>5. e.prompt = work[p].prompt /\ e.reply = work[p].reply
    BY <2>4
  <2>6. /\ cache' = {o \in cache : o.prompt # work[p].prompt} \cup {e}
        /\ Move(p, [me(p) EXCEPT !.stage = "parse"]) /\ UNCHANGED <<rules, proposals, work>>
    BY <1>2, <2>4 DEF Remember, Doing
  <2>7. \A o \in cache' : o = e \/ (o \in cache /\ o.prompt # e.prompt)
    BY <2>5, <2>6
  <2>8. e.reply \in Replies[e.prompt.task]
    BY <2>2, <2>5 DEF Prompted
  <2>9. CacheSound(cache')
    BY <2>7, <2>8 DEF CacheSound, TextInv
  <2>10. work' = [work EXCEPT ![p] = work[p]]
    BY <2>6 DEF AuditInv, Shape
  <2>11. Set(p, [me(p) EXCEPT !.stage = "parse"]) /\ UNCHANGED <<env, keyFile, issued, sessions>>
    BY <2>6 DEF Move, KeptByVault, Tables
  <2> QED BY <2>3, <2>6, <2>9, <2>10, <2>11, OneText DEF Set, TextInv
<1> QED BY <1>1, <1>2

----------------------------------------------------------------------------
(* What the model proposed. *)
LEMMA RuleItemsAre ==
    ASSUME NEW reply \in Replies["rule"], reply.shape = "ok"
    PROVE  SubSeq(reply.items, 1, Min({5, Len(reply.items)})) \in Seq(RuleItems)
<1>1. Replies["rule"] = Replies.rule
  OBVIOUS
<1>2. PICK T : T = ToSet(reply.items)
  OBVIOUS
<1>3. reply.items \in Seq(T) /\ \A item \in T : item.texts \in Seq(ToSet(item.texts)) \ {<<>>}
  BY <1>1, <1>2, RepliesAssumption
<1>4. T \subseteq RuleItems
  BY <1>1, <1>2, <1>3 DEF RuleItems
<1>5. reply.items \in Seq(RuleItems)
  BY <1>3, <1>4
<1> QED BY <1>5, FirstOfSeq
LEMMA ParsesTexts ==
    ASSUME AuditInv, TextInv, NEW p \in Procs, ParseRepair(p) \/ ParseRules(p)
    PROVE  TextInv'
<1>1. Busy(p) /\ Due("parse", me(p), work[p])
  BY AtDue DEF ParseRepair, ParseRules
<1>2. /\ Prompted(me(p).session, me(p).mapping, me(p).command.call, work[p].examples, work[p].prompt)
      /\ me(p).command \in VaultCommands \cup AssistCommands /\ me(p).key \in Keys
      /\ work[p].reply \in Replies[me(p).command.call]
  BY <1>1, PromptDue DEF Prompting, Due, Asked
<1>3. CASE \E what : Answer(p, what)
  BY <1>3, AnswerTexts
<1>4. CASE ParseRepair(p) /\ ~\E what : Answer(p, what)
  <2>1. Stage(p, "estimate") /\ me(p).command.call = "repair"
    BY <1>4 DEF ParseRepair, command, me
  <2>2. Due("estimate", me(p), work[p])
    BY <1>2, <2>1 DEF Due, Encrypts, Restores, Prompting, Restoring, Asked
  <2> QED BY <1>1, <2>1, <2>2, StageTexts
<1>5. CASE ParseRules(p) /\ ~\E what : Answer(p, what)
  <2>1. PICK items : items = SubSeq(work[p].reply.items, 1, Min({5, Len(work[p].reply.items)}))
    OBVIOUS
  <2>2. PICK w : w = [Doing(p) EXCEPT !.items = items]
    OBVIOUS
  <2>3. Advance(p, "item", w) /\ me(p).command.call = "rule" /\ work[p].reply.shape = "ok"
    BY <1>5, <2>1, <2>2 DEF ParseRules, command, me, Doing
  <2>4. items \in Seq(RuleItems)
    BY <1>2, <2>1, <2>3, RuleItemsAre
  <2>5. w.examples = work[p].examples /\ w.prompt = work[p].prompt /\ w.items = items
    BY <2>2, WorkFieldsAre DEF IsWork, WorkFields
  <2>6. Due("item", me(p), w)
    BY <1>2, <2>3, <2>4, <2>5 DEF Due, Encrypts, Restores, Prompting, Restoring, Asked
  <2> QED BY <1>1, <2>3, <2>6, AdvanceTexts
<1> QED BY <1>3, <1>4, <1>5

(* The texts of a proposal are restored from the beginning. *)
LEMMA NothingRestored ==
    ASSUME NEW S, NEW texts \in Seq(S), texts # <<>>, NEW M
    PROVE  Progress(texts, <<>>, M, texts)
<1>1. DOMAIN texts = 1 .. Len(texts) /\ Len(texts) \in Nat /\ Len(<<>>) = 0 /\ <<>> \in Seq({})
  OBVIOUS
<1>2. PICK e : e = <<>>
  OBVIOUS
<1>3. Len(e) = 0 /\ \E T : e \in Seq(T)
  BY <1>1, <1>2
<1>4. \A j \in 1 .. Len(texts) : texts[j] = texts[Len(e) + j]
  BY <1>1, <1>3
<1>5. Progress(texts, e, M, texts)
  BY <1>1, <1>3, <1>4 DEF Progress
<1> QED BY <1>2, <1>5
LEMMA RestoreTextsDue ==
    ASSUME AuditInv, TextInv, NEW p \in Procs, Busy(p), NEW S, NEW texts \in Seq(S), texts # <<>>,
           texts = SaidOf(me(p).command.call, work[p]), Move(p, RestoreTexts(p, texts)), Rest,
           me(p).command \in VaultCommands \cup AssistCommands, me(p).key \in Keys,
           Prompted(me(p).session, me(p).mapping, me(p).command.call, work[p].examples, work[p].prompt),
           me(p).command.call = "rule" => work[p].items \in Seq(RuleItems) /\ work[p].items # <<>>
    PROVE  TextInv'
<1>1. PICK r : r = RestoreTexts(p, texts)
  OBVIOUS
<1>2. IsProcess(me(p))
  BY RecordFields
<1>3. /\ r.mapping = me(p).mapping /\ r.command = me(p).command /\ r.key = me(p).key /\ r.session = me(p).session
      /\ me(p).session = NoSession => r.stage = "restored"
      /\ me(p).session # NoSession => r.stage = "load" /\ r.texts = texts /\ r.restored = <<>>
  BY <1>1, <1>2 DEF RestoreTexts, IsProcess, Fields
<1>4. Progress(texts, <<>>, me(p).mapping, texts)
  BY NothingRestored
<1>5. CASE me(p).session = NoSession
  <2>1. Restored(r.restored, r.mapping, r.session, SaidOf(r.command.call, work[p]))
    BY <1>3, <1>5 DEF Restored
  <2>2. Faithful(r, work[p])
    BY <1>3, <1>5, <2>1 DEF Faithful, Due, Encrypts, Restores, Prompting, Restoring, Asked
  <2> QED BY <1>1, <2>2, MoveTexts
<1>6. CASE me(p).session # NoSession
  <2>1. Progress(r.texts, r.restored, r.mapping, SaidOf(r.command.call, work[p]))
    BY <1>3, <1>4, <1>6
  <2>2. Faithful(r, work[p])
    BY <1>3, <1>6, <2>1 DEF Faithful, Due, Encrypts, Restores, Prompting, Restoring, Asked
  <2> QED BY <1>1, <2>2, MoveTexts
<1> QED BY <1>5, <1>6
LEMMA EstimateTexts ==
    ASSUME AuditInv, TextInv, NEW p \in Procs, Estimate(p)
    PROVE  TextInv'
<1>1. Busy(p) /\ Due("estimate", me(p), work[p])
  BY AtDue DEF Estimate
<1>2. /\ Prompted(me(p).session, me(p).mapping, me(p).command.call, work[p].examples, work[p].prompt)
      /\ me(p).command \in VaultCommands \cup AssistCommands /\ me(p).key \in Keys
      /\ me(p).command.call = "repair"
  BY <1>1, PromptDue DEF Prompting, Due, Restores
<1>3. CASE Answer(p, "rejected")
  BY <1>3, AnswerTexts
<1>4. CASE Move(p, RestoreTexts(p, <<work[p].reply.rationale>>)) /\ Rest
  <2>1. PICK texts : texts = <<work[p].reply.rationale>>
    OBVIOUS
  <2>2. texts \in Seq({work[p].reply.rationale}) /\ texts # <<>>
    BY <2>1
  <2>3. texts = SaidOf(me(p).command.call, work[p])
    BY <1>2, <2>1 DEF SaidOf
  <2> QED BY <1>1, <1>2, <1>4, <2>1, <2>2, <2>3, RestoreTextsDue
<1> QED BY <1>3, <1>4 DEF Estimate, Doing
LEMMA FirstItem ==
    ASSUME NEW items \in Seq(RuleItems), items # <<>>
    PROVE  /\ Tail(items) \in Seq(RuleItems)
           /\ \E S : Head(items).texts \in Seq(S) \ {<<>>}
<1>1. Head(items) \in RuleItems /\ Tail(items) \in Seq(RuleItems)
  OBVIOUS
<1> QED BY <1>1 DEF RuleItems
LEMMA NextItemTexts ==
    ASSUME AuditInv, TextInv, NEW p \in Procs, NextItem(p)
    PROVE  TextInv'
<1>1. Busy(p) /\ Due("item", me(p), work[p])
  BY AtDue DEF NextItem
<1>2. /\ Prompted(me(p).session, me(p).mapping, me(p).command.call, work[p].examples, work[p].prompt)
      /\ me(p).command \in VaultCommands \cup AssistCommands /\ me(p).key \in Keys
      /\ me(p).command.call = "rule" /\ work[p].items \in Seq(RuleItems)
  BY <1>1, PromptDue DEF Prompting, Due, Restores
<1>3. CASE Answer(p, "done")
  BY <1>3, AnswerTexts
<1>4. CASE work[p].items # <<>> /\ Move(p, RestoreTexts(p, Head(work[p].items).texts)) /\ Rest
  <2>1. PICK S : Head(work[p].items).texts \in Seq(S) \ {<<>>}
    BY <1>2, <1>4, FirstItem
  <2>2. PICK texts : texts = Head(work[p].items).texts
    OBVIOUS
  <2>3. texts = SaidOf(me(p).command.call, work[p])
    BY <1>2, <2>2 DEF SaidOf
  <2> QED BY <1>1, <1>2, <1>4, <2>1, <2>2, <2>3, RestoreTextsDue
<1> QED BY <1>3, <1>4 DEF NextItem, Doing, Item

(* At "restored" and "save rule" everything that was said is restored. *)
LEMMA RestoredIs ==
    ASSUME AuditInv, TextInv, NEW p \in Procs, NEW x \in {"restored", "save rule"}, At(p, x), Proposes(me(p).command)
    PROVE  /\ Busy(p) /\ IsProcess(me(p)) /\ me(p).command \in VaultCommands \cup AssistCommands /\ me(p).key \in Keys
           /\ Prompted(me(p).session, me(p).mapping, me(p).command.call, work[p].examples, work[p].prompt)
           /\ Restored(me(p).restored, me(p).mapping, me(p).session, SaidOf(me(p).command.call, work[p]))
           /\ me(p).command.call = "rule" => work[p].items \in Seq(RuleItems) /\ work[p].items # <<>>
<1>1. Busy(p) /\ Due(x, me(p), work[p]) /\ IsProcess(me(p))
  BY AtDue
<1> QED BY <1>1 DEF Due, Restores, Prompting, Restoring
LEMMA ProposedIsScanned ==
    ASSUME NEW p, NEW texts, texts = SaidOf(me(p).command.call, work[p]), NEW name,
           Prompted(me(p).session, me(p).mapping, me(p).command.call, work[p].examples, work[p].prompt),
           Restored(me(p).restored, me(p).mapping, me(p).session, texts)
    PROVE  Scanned(Candidate(p, texts, name))
<1>1. PICK row : row = Candidate(p, texts, name)
  OBVIOUS
<1>2. row.prompt = work[p].prompt /\ row.examples = work[p].examples /\ row.said = texts /\ row.texts = me(p).restored
  BY <1>1 DEF Candidate, Doing
<1>3. Scanned(row)
  BY <1>2, CandidateIsScanned
<1> QED BY <1>1, <1>3
LEMMA SaveProposalTexts ==
    ASSUME AuditInv, TextInv, NEW p \in Procs, SaveProposal(p)
    PROVE  TextInv'
<1>1. At(p, "restored") /\ me(p).command.call = "repair" /\ Proposes(me(p).command)
  BY DEF SaveProposal, Proposes, command, me
<1>2. PICK row : row = Candidate(p, <<work[p].reply.rationale>>, work[p].reply.operation)
  OBVIOUS
<1>3. Scanned(row)
  <2>1. PICK texts : texts = <<work[p].reply.rationale>>
    OBVIOUS
  <2>2. texts = SaidOf(me(p).command.call, work[p])
    BY <1>1, <2>1 DEF SaidOf
  <2> QED BY <1>1, <1>2, <2>1, <2>2, RestoredIs, ProposedIsScanned
<1>4. /\ proposals' = proposals \cup {row} /\ Set(p, Idle) /\ UNCHANGED <<env, keyFile, issued, sessions, cache, rules, work>>
  BY <1>2 DEF SaveProposal, Finish, EndWith, KeptByVault, Tables, Doing
<1>5. CandidatesSound(rules', proposals')
  BY <1>3, <1>4 DEF TextInv, CandidatesSound
<1>6. work' = [work EXCEPT ![p] = work[p]]
  BY <1>4 DEF AuditInv, Shape
<1> QED BY <1>4, <1>5, <1>6, OneText DEF Set, TextInv
LEMMA PreflightTexts ==
    ASSUME AuditInv, TextInv, NEW p \in Procs, Preflight(p)
    PROVE  TextInv'
<1>1. At(p, "restored") /\ me(p).command.call = "rule" /\ Proposes(me(p).command)
  BY DEF Preflight, Proposes, command, me
<1>2. /\ Busy(p) /\ me(p).command \in VaultCommands \cup AssistCommands /\ me(p).key \in Keys
      /\ Prompted(me(p).session, me(p).mapping, me(p).command.call, work[p].examples, work[p].prompt)
      /\ Restored(me(p).restored, me(p).mapping, me(p).session, SaidOf(me(p).command.call, work[p]))
      /\ work[p].items \in Seq(RuleItems) /\ work[p].items # <<>>
  BY <1>1, RestoredIs
<1>3. CASE Stage(p, "save rule")
  <2>1. Due("save rule", me(p), work[p])
    BY <1>1, <1>2 DEF Due, Encrypts, Restores, Prompting, Restoring, Asked
  <2> QED BY <1>2, <1>3, <2>1, StageTexts
<1>4. CASE DropItem(p)
  <2>1. PICK w : w = [Doing(p) EXCEPT !.items = Tail(@)]
    OBVIOUS
  <2>2. w.examples = work[p].examples /\ w.prompt = work[p].prompt /\ w.items = Tail(work[p].items)
    BY <2>1, WorkFieldsAre DEF IsWork, WorkFields
  <2>3. w.items \in Seq(RuleItems)
    BY <1>2, <2>2, FirstItem
  <2>4. Due("item", me(p), w)
    BY <1>1, <1>2, <2>2, <2>3 DEF Due, Encrypts, Restores, Prompting, Restoring, Asked
  <2> QED BY <1>2, <1>4, <2>1, <2>4, AdvanceTexts DEF DropItem
<1> QED BY <1>3, <1>4 DEF Preflight
LEMMA SaveRuleTexts ==
    ASSUME AuditInv, ApprovalInv, TextInv, NEW p \in Procs, SaveRule(p)
    PROVE  TextInv'
<1>1. At(p, "save rule") /\ me(p).command.call = "rule" /\ Proposes(me(p).command)
  <2>1. At(p, "save rule") /\ Due("save rule", me(p), work[p])
    BY AtDue DEF SaveRule
  <2> QED BY <2>1 DEF Due, Restores, Proposes
<1>2. /\ Busy(p) /\ IsProcess(me(p)) /\ me(p).command \in VaultCommands \cup AssistCommands /\ me(p).key \in Keys
      /\ Prompted(me(p).session, me(p).mapping, me(p).command.call, work[p].examples, work[p].prompt)
      /\ Restored(me(p).restored, me(p).mapping, me(p).session, SaidOf(me(p).command.call, work[p]))
      /\ work[p].items \in Seq(RuleItems) /\ work[p].items # <<>>
  BY <1>1, RestoredIs
<1>3. PICK row : row = Candidate(p, Item(p).texts, Item(p).name)
  OBVIOUS
<1>4. Scanned(row)
  <2>1. PICK texts : texts = Item(p).texts
    OBVIOUS
  <2>2. texts = SaidOf(me(p).command.call, work[p])
    BY <1>1, <2>1 DEF SaidOf, Item, Doing
  <2> QED BY <1>2, <1>3, <2>1, <2>2, ProposedIsScanned
<1>5. PICK r : r = [me(p) EXCEPT !.stage = "item"]
  OBVIOUS
<1>6. PICK w : w = [work[p] EXCEPT !.items = Tail(@)]
  OBVIOUS
<1>7. /\ rules' = Append(rules, row) /\ Set(p, r) /\ work' = [work EXCEPT ![p].items = Tail(@)]
      /\ UNCHANGED <<env, keyFile, issued, sessions, cache, proposals>>
  BY <1>3, <1>5 DEF SaveRule, Move, KeptByVault, Tables
<1>8. work' = [work EXCEPT ![p] = w]
  BY <1>6, <1>7 DEF AuditInv, Shape
<1>9. w.examples = work[p].examples /\ w.prompt = work[p].prompt /\ w.items = Tail(work[p].items)
  BY <1>6, WorkFieldsAre DEF IsWork, WorkFields
<1>10. w.items \in Seq(RuleItems)
  BY <1>2, <1>9, FirstItem
<1>11. Due("item", me(p), w)
  BY <1>1, <1>2, <1>9, <1>10 DEF Due, Encrypts, Restores, Prompting, Restoring, Asked
<1>12. Faithful(r, w)
  BY <1>2, <1>5, <1>11, DueStage
<1>13. CandidatesSound(rules', proposals')
  <2>1. PICK S : rules \in Seq(S)
    BY DEF ApprovalInv
  <2>2. \A k \in DOMAIN rules' : rules'[k] = row \/ (k \in DOMAIN rules /\ rules'[k] = rules[k])
    BY <1>7, <2>1, Appended
  <2>3. \A x \in ToSet(rules') : x = row \/ x \in ToSet(rules)
    BY <2>2 DEF ToSet
  <2> QED BY <1>4, <1>7, <2>3 DEF TextInv, CandidatesSound
<1> QED BY <1>7, <1>8, <1>12, <1>13, OneText DEF Set, TextInv

(* An approval has nothing to restore, and enabling a rule leaves its texts as they are. *)
LEMMA ApprovesTexts ==
    ASSUME AuditInv, TextInv, NEW p \in Procs, Approve(p) \/ CountRows(p) \/ CountFailures(p) \/ ReadExamples(p)
    PROVE  TextInv'
<1>1. Busy(p) /\ me(p).command \in VaultCommands \cup AssistCommands /\ me(p).key \in Keys
  BY AtDue DEF Approve, CountRows, CountFailures, ReadExamples
<1>2. \A x \in {"activate", "count", "failures", "examples"} : \A w : Due(x, me(p), w)
  BY <1>1, FreeDue DEF Bound, Prompting, Restoring, Asked
<1>3. \/ \E what : Answer(p, what)
      \/ Stage(p, "activate")
      \/ \E x \in {"activate", "count", "failures", "examples"} : \E w : Advance(p, x, w)
  BY DEF Approve, CountRows, CountFailures, ReadExamples
<1> QED BY <1>1, <1>2, <1>3, AnswerTexts, StageTexts, AdvanceTexts
LEMMA ActivateTexts ==
    ASSUME AuditInv, ApprovalInv, TextInv, NEW p \in Procs, Activate(p)
    PROVE  TextInv'
<1>1. PICK n : n = me(p).command.request
  OBVIOUS
<1>2. PICK basis : rules' = [rules EXCEPT ![n].enabled = TRUE, ![n].basis = basis]
  BY <1>1 DEF Activate, command, me
<1>3. DOMAIN rules' = DOMAIN rules
  BY <1>2
<1>4. ASSUME NEW k \in DOMAIN rules
      PROVE  Scanned(rules'[k])
  <2>1. PICK c : c = rules[k]
    OBVIOUS
  <2>2. IsCandidate(c) /\ Scanned(c)
    BY <2>1 DEF ApprovalInv, RuleSound, TextInv, CandidatesSound, ToSet
  <2>3. rules'[k] = c \/ rules'[k] = [c EXCEPT !.enabled = TRUE, !.basis = basis]
    BY <1>2, <2>1
  <2>4. PICK d : d = rules'[k]
    OBVIOUS
  <2>5. d.prompt = c.prompt /\ d.examples = c.examples /\ d.said = c.said /\ d.texts = c.texts
    BY <2>2, <2>3, <2>4 DEF IsCandidate, CandidateFields
  <2> QED BY <2>2, <2>4, <2>5 DEF Scanned
<1>5. Set(p, Idle) /\ UNCHANGED <<env, keyFile, issued, sessions, cache, proposals, work>>
  BY DEF Activate, Finish, EndWith, KeptByVault, Tables
<1>6. CandidatesSound(rules', proposals')
  <2>1. \A x \in ToSet(rules') : Scanned(x)
    BY <1>3, <1>4 DEF ToSet
  <2> QED BY <1>5, <2>1 DEF TextInv, CandidatesSound
<1>7. work' = [work EXCEPT ![p] = work[p]]
  BY <1>5 DEF AuditInv, Shape
<1> QED BY <1>5, <1>6, <1>7, OneText DEF Set, TextInv

----------------------------------------------------------------------------
LEMMA TextUnchanged ==
    ASSUME TextInv, StoreKept, UNCHANGED <<proc, work>>
    PROVE  TextInv'
  BY StoreStays DEF TextInv, Busy
LEMMA TextStarts == Init => TextInv
<1> SUFFICES ASSUME Init PROVE TextInv
  OBVIOUS
<1>1. PICK stored \in InitialSessions :
        sessions = {[id |-> SessionId(m.mapping), payload |-> m.mapping, created |-> m.day,
                     key |-> Effective(Configured)] : m \in stored}
  BY DEF Init, VaultInit
<1>2. KeysSound(env, keyFile, issued)
  <2>1. env \in Keys /\ keyFile \in Keys
    BY KeysAssumption DEF Init, VaultInit, Keys
  <2>2. issued = 0
    BY DEF Init, VaultInit
  <2>3. Len(RandomKeys) \in Nat
    BY MaterialAssumption
  <2> QED BY <2>1, <2>2, <2>3 DEF KeysSound
<1>3. Configured \in Keys
  BY <1>2 DEF KeysSound, Configured
<1>4. Effective(Configured) \in Keys \ {NoKey}
  BY <1>3, KeysAre
<1>5. ASSUME NEW m \in stored, NEW x, x = [id |-> SessionId(m.mapping), payload |-> m.mapping, created |-> m.day,
                                           key |-> Effective(Configured)]
      PROVE  SoundRow(x) /\ x.id = SessionId(m.mapping)
  <2>1. IsRow(x) /\ x.id = SessionId(m.mapping) /\ x.payload = m.mapping /\ x.created = m.day /\ x.key = Effective(Configured)
    BY <1>5 DEF IsRow, RowFields
  <2>2. IsMapping(m.mapping) /\ m.day \in 0 .. Today
    BY SessionsAssumption
  <2>3. m.day <= Today
    BY <2>2, BoundsAssumption
  <2> QED BY <1>4, <2>1, <2>2, <2>3 DEF SoundRow
<1>6. \A x \in sessions : SoundRow(x)
  BY <1>1, <1>5
<1>7. ASSUME NEW x \in sessions, NEW y \in sessions, x.id = y.id PROVE x = y
  <2>1. PICK m \in stored : x = [id |-> SessionId(m.mapping), payload |-> m.mapping, created |-> m.day,
                                 key |-> Effective(Configured)]
    BY <1>1
  <2>2. PICK n \in stored : y = [id |-> SessionId(n.mapping), payload |-> n.mapping, created |-> n.day,
                                 key |-> Effective(Configured)]
    BY <1>1
  <2>3. SessionId(m.mapping) = SessionId(n.mapping)
    BY <1>5, <1>7, <2>1, <2>2
  <2>4. m = n
    BY <2>3, SessionsAssumption
  <2> QED BY <2>1, <2>2, <2>4
<1>8. cache = {} /\ rules = <<>> /\ proposals = {} /\ \A p \in Procs : ~Busy(p)
  BY DEF Init, VaultInit, Busy
<1>9. ToSet(<<>>) = {}
  BY DEF ToSet
<1>10. CacheSound(cache) /\ CandidatesSound(rules, proposals)
  BY <1>8, <1>9 DEF CacheSound, CandidatesSound
<1> QED BY <1>2, <1>6, <1>7, <1>8, <1>10 DEF TextInv, RowsSound
LEMMA TextKept == AuditInv /\ ApprovalInv /\ KeyInv /\ TextInv /\ [Next]_vars => TextInv'
<1> SUFFICES ASSUME AuditInv, ApprovalInv, KeyInv, TextInv, [Next]_vars PROVE TextInv'
  OBVIOUS
<1>1. ASSUME NEW p \in Procs, Step(p)
      PROVE  TextInv'
  <2>1. CASE VaultStep(p) /\ Rest
    BY <2>1, VaultTexts
  <2>2. CASE (\E c \in AssistCommands : Begin(p, c)) /\ Rest
    BY <2>2, BeginTexts
  <2>3. CASE Open(p) \/ Profile(p) \/ Sample(p) \/ Lookup(p) \/ TimesOut(p) \/ Breaks(p) \/ Answers(p)
    BY <2>3, OpenTexts, ProfileTexts, SampleTexts, AsksTexts
  <2>4. CASE RecordFailure(p) \/ Tell(p) \/ RecordCall(p) \/ Remember(p)
    BY <2>4, RecordsTexts, RememberTexts, AnswerTexts DEF Tell
  <2>5. CASE ParseRepair(p) \/ Estimate(p) \/ SaveProposal(p) \/ ParseRules(p) \/ NextItem(p) \/ Preflight(p) \/ SaveRule(p)
    BY <2>5, ParsesTexts, EstimateTexts, SaveProposalTexts, NextItemTexts, PreflightTexts, SaveRuleTexts
  <2>6. CASE Approve(p) \/ CountRows(p) \/ CountFailures(p) \/ ReadExamples(p) \/ Activate(p)
    BY <2>6, ApprovesTexts, ActivateTexts
  <2> QED BY <1>1, <2>1, <2>2, <2>3, <2>4, <2>5, <2>6 DEF Step
<1>2. ASSUME NEW v, Edit(v)
      PROVE  TextInv'
  BY <1>2, TextUnchanged DEF Edit, Tables, StoreKept
<1>3. CASE UNCHANGED vars
  BY <1>3, TextUnchanged DEF vars, vaultVars, assistVars, StoreKept
<1> QED BY <1>1, <1>2, <1>3 DEF Next

LEMMA TextsSuffice == TextInv => RestoredAsScanned
<1> SUFFICES ASSUME TextInv, NEW row \in ToSet(rules) \cup proposals PROVE Scanned(row)
  BY DEF RestoredAsScanned, Scanned
<1> QED BY DEF TextInv, CandidatesSound

(* Wherever a stored candidate speaks of a mask that its prompt showed, it holds the value of  *)
(* the file the prompt was made of: redact() and restore() undo each other under the mapping   *)
(* of that prompt, the table keeps a mapping under an id that determines it, and neither a     *)
(* rotation, a purge, another process nor a reply cached for another file changes what an id   *)
(* stands for.                                                                                 *)
THEOREM TextsRestored == Spec => []RestoredAsScanned
<1>1. Init => AuditInv /\ ApprovalInv /\ KeyInv /\ TextInv
  BY AuditStarts, ApprovalStarts, KeyStarts, TextStarts
<1>2. (AuditInv /\ ApprovalInv /\ KeyInv /\ TextInv) /\ [Next]_vars => (AuditInv /\ ApprovalInv /\ KeyInv /\ TextInv)'
  BY AuditKept, ApprovalKept, KeyKept, TextKept
<1>3. AuditInv /\ ApprovalInv /\ KeyInv /\ TextInv => RestoredAsScanned
  BY TextsSuffice
<1> QED BY <1>1, <1>2, <1>3, PTL DEF Spec

----------------------------------------------------------------------------
(* The bounds: a command that has begun has a place among the answers. *)
BoundsInv == Len(answers) + Cardinality(Active) <= MaxCommands /\ changes <= MaxChanges
Working(p) ==
    /\ Busy(p) /\ UNCHANGED <<answers, changes>>
    /\ \E r : "command" \in DOMAIN r /\ Set(p, r)
Ended(p) ==
    /\ Busy(p) /\ Set(p, Idle) /\ \E a : answers' = Append(answers, a)
    /\ changes' = changes \/ (changes' = changes + 1 /\ changes < MaxChanges)
LEMMA ActiveIsFinite == IsFiniteSet(Active) /\ Cardinality(Active) \in Nat
  BY FS_Subset, FS_CardinalityType, BoundsAssumption DEF Active
LEMMA WorkingKeeps ==
    ASSUME AuditInv, BoundsInv, NEW p \in Procs, Working(p)
    PROVE  BoundsInv'
<1>1. PICK r : "command" \in DOMAIN r /\ Set(p, r)
  BY DEF Working
<1>2. r # Idle
  BY <1>1 DEF Idle
<1>3. proc'[p] = r /\ \A q \in Procs \ {p} : proc'[q] = proc[q]
  BY <1>1, OthersStay
<1>4. Active' = Active
  BY <1>2, <1>3 DEF Active, Working, Busy
<1> QED BY <1>4 DEF BoundsInv, Working
LEMMA EndedKeeps ==
    ASSUME AuditInv, ApprovalInv, BoundsInv, NEW p \in Procs, Ended(p)
    PROVE  BoundsInv'
<1>1. proc'[p] = Idle /\ \A q \in Procs \ {p} : proc'[q] = proc[q]
  BY OthersStay DEF Ended
<1>2. Active' = Active \ {p} /\ p \in Active
  BY <1>1 DEF Active, Ended, Busy
<1>3. Cardinality(Active') = Cardinality(Active) - 1
  BY <1>2, ActiveIsFinite, FS_RemoveElement
<1>4. PICK S : answers \in Seq(S)
  BY DEF AuditInv, Shape
<1>5. PICK a : answers' = Append(answers, a)
  BY DEF Ended
<1>6. Len(answers) \in Nat /\ Len(answers') = Len(answers) + 1
  BY <1>4, <1>5
<1>7. changes' <= MaxChanges
  BY BoundsAssumption DEF Ended, BoundsInv, ApprovalInv
<1>8. Len(answers') + Cardinality(Active') = Len(answers) + Cardinality(Active)
  BY <1>3, <1>6, ActiveIsFinite
<1> QED BY <1>7, <1>8 DEF BoundsInv
LEMMA BeginKeepsBounds ==
    ASSUME AuditInv, BoundsInv, NEW p \in Procs, NEW c, Begin(p, c)
    PROVE  BoundsInv'
<1>1. PICK r : r = [command |-> c, stage |-> "bind", key |-> NoKey, new |-> NoKey, session |-> NoSession,
                    mapping |-> <<>>, left |-> <<>>, texts |-> <<>>, restored |-> <<>>]
  OBVIOUS
<1>2. Set(p, r) /\ "command" \in DOMAIN r /\ ~Busy(p) /\ UNCHANGED <<answers, changes>>
      /\ Len(answers) + Cardinality(Active) < MaxCommands
  BY <1>1 DEF Begin, KeptByVault, Busy, me
<1>3. proc'[p] = r /\ \A q \in Procs \ {p} : proc'[q] = proc[q]
  BY <1>2, OthersStay
<1>4. r # Idle
  BY <1>2 DEF Idle
<1>5. Active' = Active \cup {p} /\ p \notin Active
  BY <1>2, <1>3, <1>4 DEF Active, Busy
<1>6. Cardinality(Active') = Cardinality(Active) + 1
  BY <1>5, ActiveIsFinite, FS_AddElement
<1>7. Len(answers) \in Nat
  BY DEF AuditInv, Shape
<1>8. Len(answers') + Cardinality(Active') <= MaxCommands
  BY <1>2, <1>6, <1>7, ActiveIsFinite, BoundsAssumption
<1> QED BY <1>2, <1>8 DEF BoundsInv
LEMMA MoveWorks ==
    ASSUME NEW p \in Procs, Busy(p), NEW r, "command" \in DOMAIN r, Move(p, r)
    PROVE  Working(p)
  BY DEF Move, KeptByVault, Working
LEMMA StageWorks ==
    ASSUME AuditInv, NEW p \in Procs, Busy(p), NEW x, Stage(p, x)
    PROVE  Working(p)
<1>1. "command" \in DOMAIN [me(p) EXCEPT !.stage = x]
  BY RecordFields DEF IsProcess, Fields
<1> QED BY <1>1, MoveWorks DEF Stage
LEMMA AdvanceWorks ==
    ASSUME AuditInv, NEW p \in Procs, Busy(p), NEW x, NEW w, Advance(p, x, w)
    PROVE  Working(p)
<1>1. "command" \in DOMAIN [me(p) EXCEPT !.stage = x]
  BY RecordFields DEF IsProcess, Fields
<1> QED BY <1>1, MoveWorks DEF Advance
LEMMA EndEnds == ASSUME NEW p \in Procs, Busy(p), NEW what, NEW exit, EndWith(p, what, exit) PROVE Ended(p)
  BY DEF EndWith, KeptByVault, Ended
LEMMA RefuseEnds == ASSUME NEW p \in Procs, Busy(p), NEW what, Refuse(p, what) PROVE Ended(p)
  BY EndEnds DEF Refuse, End
LEMMA AnswerEnds == ASSUME NEW p \in Procs, Busy(p), NEW what, Answer(p, what) PROVE Ended(p)
  BY EndEnds DEF Answer, Finish
Going(p) == Working(p) \/ Ended(p)
LEMMA VaultGoes ==
    ASSUME AuditInv, NEW p \in Procs, VaultStep(p)
    PROVE  (\E c \in VaultCommands : Begin(p, c)) \/ Going(p)
<1>1. ASSUME NEW x, At(p, x), x # "idle"
      PROVE  Busy(p) /\ "command" \in DOMAIN me(p)
  BY <1>1, AtIsBusy, RecordFields DEF IsProcess, Fields
<1>2. ASSUME Bind(p) \/ SaveMapping(p) \/ LoadMapping(p) \/ Show(p) \/ ListOld(p)
      PROVE  Going(p)
  <2>1. Busy(p) /\ "command" \in DOMAIN me(p)
    BY <1>1, <1>2 DEF Bind, SaveMapping, LoadMapping, Show, ListOld
  <2>2. (\E what : Refuse(p, what)) \/ (\E what, exit : EndWith(p, what, exit)) \/ (\E r : DOMAIN r = DOMAIN me(p) /\ Move(p, r))
    <3>1. CASE Bind(p)
      BY <3>1 DEF Bind
    <3>2. CASE SaveMapping(p)
      BY <3>2 DEF SaveMapping
    <3>3. CASE LoadMapping(p)
      BY <3>3 DEF LoadMapping
    <3>4. CASE Show(p)
      BY <3>4 DEF Show
    <3>5. CASE ListOld(p)
      BY <3>5 DEF ListOld
    <3> QED BY <1>2, <3>1, <3>2, <3>3, <3>4, <3>5
  <2> QED BY <2>1, <2>2, RefuseEnds, EndEnds, MoveWorks DEF Going
<1>3. ASSUME WriteMapping(p) \/ AuditRestore(p) \/ StartRotation(p) \/ ReplaceKeyFile(p)
      PROVE  Going(p)
  <2>1. Busy(p) /\ "command" \in DOMAIN me(p)
    BY <1>1, <1>3 DEF WriteMapping, AuditRestore, StartRotation, ReplaceKeyFile
  <2>2. UNCHANGED <<answers, changes>> /\ \E r : DOMAIN r = DOMAIN me(p) /\ Set(p, r)
    BY <1>3 DEF WriteMapping, AuditRestore, StartRotation, ReplaceKeyFile, KeptByVault
  <2> QED BY <2>1, <2>2 DEF Going, Working
<1>4. ASSUME Delete(p) \/ AuditRotation(p)
      PROVE  Going(p)
  <2>1. Busy(p) /\ \E what, exit : EndWith(p, what, exit)
    BY <1>1, <1>4 DEF Delete, AuditRotation, End
  <2> QED BY <2>1, EndEnds DEF Going
<1>5. ASSUME DropOld(p) \/ EncryptAnew(p)
      PROVE  Going(p)
  <2>1. Busy(p) /\ "command" \in DOMAIN me(p)
    BY <1>1, <1>5 DEF DropOld, EncryptAnew
  <2>2. (\E what : Refuse(p, what)) \/ (UNCHANGED <<answers, changes>> /\ \E r : DOMAIN r = DOMAIN me(p) /\ Set(p, r))
    BY <1>5 DEF DropOld, EncryptAnew, KeptByVault
  <2> QED BY <2>1, <2>2, RefuseEnds DEF Going, Working
<1>6. ASSUME Crash(p)
      PROVE  Going(p)
  BY <1>6 DEF Crash, Going, Ended, Busy, me
<1> QED BY <1>2, <1>3, <1>4, <1>5, <1>6 DEF VaultStep
LEMMA ProposalGoes ==
    ASSUME AuditInv, NEW p \in Procs,
           \/ Open(p) \/ Profile(p) \/ Sample(p) \/ Lookup(p) \/ TimesOut(p) \/ Breaks(p) \/ Answers(p)
           \/ RecordFailure(p) \/ Tell(p) \/ RecordCall(p) \/ Remember(p)
           \/ ParseRepair(p) \/ Estimate(p) \/ SaveProposal(p)
           \/ ParseRules(p) \/ NextItem(p) \/ Preflight(p) \/ SaveRule(p)
           \/ Approve(p) \/ CountRows(p) \/ CountFailures(p) \/ ReadExamples(p) \/ Activate(p)
    PROVE  Going(p)
<1>1. Busy(p)
  <2>1. Open(p) \/ Approve(p) => At(p, "bind")
    BY DEF Open, Approve
  <2>2. (Profile(p) => At(p, "profile")) /\ (Sample(p) => At(p, "sample")) /\ (Lookup(p) => At(p, "lookup"))
    BY DEF Profile, Sample, Lookup
  <2>3. TimesOut(p) \/ Breaks(p) \/ Answers(p) => At(p, "ask")
    BY DEF TimesOut, Breaks, Answers
  <2>4. /\ (RecordFailure(p) => At(p, "failed")) /\ (Tell(p) => At(p, "tell"))
        /\ (RecordCall(p) => At(p, "record")) /\ (Remember(p) => At(p, "remember"))
    BY DEF RecordFailure, Tell, RecordCall, Remember
  <2>5. (ParseRepair(p) \/ ParseRules(p) => At(p, "parse")) /\ (Estimate(p) => At(p, "estimate"))
    BY DEF ParseRepair, ParseRules, Estimate
  <2>6. /\ (SaveProposal(p) \/ Preflight(p) => At(p, "restored"))
        /\ (NextItem(p) => At(p, "item")) /\ (SaveRule(p) => Busy(p))
    BY AtIsBusy DEF SaveProposal, Preflight, NextItem, SaveRule
  <2>7. /\ (CountRows(p) => At(p, "count")) /\ (CountFailures(p) => At(p, "failures"))
        /\ (ReadExamples(p) => At(p, "examples")) /\ (Activate(p) => At(p, "activate"))
    BY DEF CountRows, CountFailures, ReadExamples, Activate
  <2>8. \/ At(p, "bind") \/ At(p, "profile") \/ At(p, "sample") \/ At(p, "lookup") \/ At(p, "ask") \/ At(p, "failed")
        \/ At(p, "tell") \/ At(p, "record") \/ At(p, "remember") \/ At(p, "parse") \/ At(p, "estimate") \/ At(p, "restored")
        \/ At(p, "item") \/ Busy(p) \/ At(p, "count") \/ At(p, "failures") \/ At(p, "examples") \/ At(p, "activate")
    BY <2>1, <2>2, <2>3, <2>4, <2>5, <2>6, <2>7
  <2>9. CASE At(p, "bind") \/ At(p, "profile") \/ At(p, "sample")
    BY <2>9 DEF At, Busy, Idle
  <2>10. CASE At(p, "lookup") \/ At(p, "ask") \/ At(p, "failed")
    BY <2>10 DEF At, Busy, Idle
  <2>11. CASE At(p, "tell") \/ At(p, "record") \/ At(p, "remember")
    BY <2>11 DEF At, Busy, Idle
  <2>12. CASE At(p, "parse") \/ At(p, "estimate") \/ At(p, "restored")
    BY <2>12 DEF At, Busy, Idle
  <2>13. CASE At(p, "item") \/ At(p, "count")
    BY <2>13 DEF At, Busy, Idle
  <2>14. CASE At(p, "failures") \/ At(p, "examples") \/ At(p, "activate")
    BY <2>14 DEF At, Busy, Idle
  <2> QED BY <2>8, <2>9, <2>10, <2>11, <2>12, <2>13, <2>14
<1>2. Busy(p) /\ "command" \in DOMAIN me(p)
  BY <1>1, RecordFields DEF IsProcess, Fields
<1>3. ASSUME NEW r, DOMAIN r = DOMAIN me(p), Move(p, r)
      PROVE  Going(p)
  BY <1>2, <1>3, MoveWorks DEF Going
<1>4. CASE \E what : Answer(p, what)
  BY <1>2, <1>4, AnswerEnds DEF Going
<1>5. CASE \E y : Stage(p, y)
  BY <1>2, <1>5, StageWorks DEF Going
<1>6. CASE \E y, w : Advance(p, y, w)
  BY <1>2, <1>6, AdvanceWorks DEF Going
<1>7. CASE Open(p)
  BY <1>3, <1>4, <1>7 DEF Open
<1>8. CASE Sample(p)
  BY <1>3, <1>4, <1>8 DEF Sample
<1>9. CASE Remember(p)
  BY <1>3, <1>4, <1>9 DEF Remember
<1>10. CASE Profile(p) \/ Lookup(p) \/ TimesOut(p) \/ Breaks(p) \/ Answers(p) \/ Tell(p)
  BY <1>4, <1>5, <1>6, <1>10 DEF Profile, Lookup, TimesOut, Breaks, Answers, Tell
<1>11. CASE ParseRepair(p) \/ ParseRules(p) \/ Preflight(p)
  BY <1>4, <1>5, <1>6, <1>11 DEF ParseRepair, ParseRules, Preflight, DropItem
<1>12. CASE Estimate(p) \/ NextItem(p)
  <2>1. (\E what : Answer(p, what)) \/ (\E texts : Move(p, RestoreTexts(p, texts)))
    BY <1>12 DEF Estimate, NextItem
  <2>2. \A texts : DOMAIN RestoreTexts(p, texts) = DOMAIN me(p)
    BY DEF RestoreTexts
  <2> QED BY <1>3, <1>4, <2>1, <2>2
<1>13. CASE RecordFailure(p) \/ RecordCall(p)
  <2>1. UNCHANGED <<answers, changes>> /\ \E y : Set(p, [me(p) EXCEPT !.stage = y])
    BY <1>13 DEF RecordFailure, RecordCall, Record, KeptByVault
  <2> QED BY <1>2, <2>1 DEF Going, Working
<1>14. CASE SaveRule(p)
  <2>1. Move(p, [me(p) EXCEPT !.stage = "item"])
    BY <1>14 DEF SaveRule
  <2> QED BY <1>3, <2>1
<1>15. CASE SaveProposal(p) \/ Activate(p)
  <2>1. \E what, exit : EndWith(p, what, exit)
    BY <1>15 DEF SaveProposal, Activate, Finish
  <2> QED BY <1>2, <2>1, EndEnds DEF Going
<1>16. CASE Approve(p) \/ CountRows(p) \/ CountFailures(p) \/ ReadExamples(p)
  BY <1>4, <1>5, <1>6, <1>16 DEF Approve, CountRows, CountFailures, ReadExamples
<1> QED BY <1>7, <1>8, <1>9, <1>10, <1>11, <1>12, <1>13, <1>14, <1>15, <1>16
LEMMA BoundsKept == AuditInv /\ ApprovalInv /\ BoundsInv /\ [Next]_vars => BoundsInv'
<1> SUFFICES ASSUME AuditInv, ApprovalInv, BoundsInv, [Next]_vars PROVE BoundsInv'
  OBVIOUS
<1>1. ASSUME NEW p \in Procs, Step(p)
      PROVE  BoundsInv'
  <2>1. Going(p) \/ \E c : Begin(p, c)
    BY <1>1, VaultGoes, ProposalGoes DEF Step
  <2> QED BY <2>1, WorkingKeeps, EndedKeeps, BeginKeepsBounds DEF Going
<1>2. ASSUME NEW v, Edit(v)
      PROVE  BoundsInv'
  <2>1. UNCHANGED <<proc, answers>> /\ changes' = changes + 1 /\ changes < MaxChanges
    BY <1>2 DEF Edit
  <2>2. changes' <= MaxChanges
    BY <2>1, BoundsAssumption DEF ApprovalInv
  <2> QED BY <2>1, <2>2 DEF BoundsInv, Active
<1>3. CASE UNCHANGED vars
  BY <1>3 DEF vars, vaultVars, BoundsInv, Active
<1> QED BY <1>1, <1>2, <1>3 DEF Next
LEMMA BoundsStart == Init => BoundsInv
<1> SUFFICES ASSUME Init PROVE BoundsInv
  OBVIOUS
<1>1. Active = {} /\ Len(answers) = 0 /\ changes = 0
  BY DEF Init, VaultInit, Active
<1> QED BY <1>1, FS_EmptySet, BoundsAssumption DEF BoundsInv
LEMMA TypesSuffice == AuditInv /\ ApprovalInv /\ TextInv /\ BoundsInv => TypeOK
<1> SUFFICES ASSUME AuditInv, ApprovalInv, TextInv, BoundsInv PROVE TypeOK
  OBVIOUS
<1>1. /\ \A r, s \in sessions : r.id = s.id => r = s
      /\ \A r \in sessions : r.id = SessionId(r.payload) /\ r.key \in Keys \ {NoKey} /\ r.created <= Today
  BY DEF TextInv, RowsSound, SoundRow
<1>2. keyFile \in Keys /\ issued <= Len(RandomKeys)
  <2>1. issued \in 0 .. Len(RandomKeys) /\ Len(RandomKeys) \in Nat
    BY MaterialAssumption DEF TextInv, KeysSound
  <2> QED BY <2>1 DEF TextInv, KeysSound
<1>3. \A e, f \in cache : e.prompt = f.prompt => e = f
  BY DEF TextInv, CacheSound
<1>4. file \in DOMAIN Content \cup {Gone} /\ changes <= MaxChanges
  BY DEF ApprovalInv, BoundsInv
<1>5. Len(answers) <= MaxCommands
  <2>1. Len(answers) \in Nat
    BY DEF AuditInv, Shape
  <2> QED BY <2>1, ActiveIsFinite, BoundsAssumption DEF BoundsInv
<1> QED BY <1>1, <1>2, <1>3, <1>4, <1>5 DEF TypeOK

(* The type invariant: one row for a session, stored under the id of its own mapping and under *)
(* a key that somebody has, one reply for a prompt, and the bounds of the model.               *)
THEOREM VaultTypes == Spec => []TypeOK
<1>1. Init => AuditInv /\ ApprovalInv /\ KeyInv /\ TextInv /\ BoundsInv
  BY AuditStarts, ApprovalStarts, KeyStarts, TextStarts, BoundsStart
<1>2. /\ AuditInv /\ ApprovalInv /\ KeyInv /\ TextInv /\ BoundsInv /\ [Next]_vars
      => (AuditInv /\ ApprovalInv /\ KeyInv /\ TextInv /\ BoundsInv)'
  BY AuditKept, ApprovalKept, KeyKept, TextKept, BoundsKept
<1>3. AuditInv /\ ApprovalInv /\ KeyInv /\ TextInv /\ BoundsInv => TypeOK
  BY TypesSuffice
<1> QED BY <1>1, <1>2, <1>3, PTL DEF Spec
=============================================================================
