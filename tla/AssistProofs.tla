---------------------------- MODULE AssistProofs ----------------------------
(***************************************************************************)
(* Nothing that a language model answered or the vault restored is used    *)
(* without a trace in llm_invocations: AuditIsComplete, for any processes, *)
(* commands, keys, sessions, files and replies. And no rule that the file  *)
(* breaks more often than not is enabled without force.                    *)
(***************************************************************************)
EXTENDS Assist, TLAPS

(* Processes and what they work on are records; which values their fields hold is not needed. *)
Fields == {"command", "stage", "key", "new", "session", "mapping", "left", "texts", "restored"}
WorkFields == {"opened", "stats", "tops", "examples", "prompt", "attempts", "reply", "items",
               "since", "rows", "failures"}
IsProcess(r) == r = [f \in Fields |-> r[f]]
IsWork(w) == w = [f \in WorkFields |-> w[f]]
Busy(p) == proc[p] # Idle
Shape ==
    /\ proc = [p \in Procs |-> proc[p]] /\ work = [p \in Procs |-> work[p]]
    /\ \A p \in Procs : IsWork(work[p]) /\ (Busy(p) => IsProcess(proc[p]))
    /\ \E S : answers \in Seq(S)

CallAudited(prompt, told) == \E n \in told : n.prompt = prompt /\ n.status = "ok"
RestoreAudited(session, told) == \E n \in told : n.task = "pii_restore" /\ n.session = session

(* Before its session is fixed a process has restored nothing; afterwards what it holds is  *)
(* audited. A reply is about to be cached only when the call has been recorded.             *)
Early == {"bind", "profile", "sample"}
Honest(r, w, told) ==
    /\ IsProcess(r)
    /\ r.stage \in Early => r.restored = <<>>
    /\ r.restored # <<>> /\ r.session # NoSession => RestoreAudited(r.session, told)
    /\ r.stage = "remember" => CallAudited(w.prompt, told)
AnswerAudited(a, told) ==
    a.restored # <<>> /\ a.session # NoSession => RestoreAudited(a.session, told)
AuditInv ==
    /\ Shape
    /\ \A p \in Procs : Busy(p) => Honest(proc[p], work[p], invocations)
    /\ \A e \in cache : CallAudited(e.prompt, invocations)
    /\ \A k \in DOMAIN answers : AnswerAudited(answers[k], invocations)

----------------------------------------------------------------------------
(* Records *)
LEMMA ProcessExcept == \A r, x : \A f \in Fields : IsProcess(r) => IsProcess([r EXCEPT ![f] = x])
  BY DEF IsProcess
LEMMA WorkExcept == \A w, x : \A f \in WorkFields : IsWork(w) => IsWork([w EXCEPT ![f] = x])
  BY DEF IsWork
LEMMA NewWork == IsWork(NoWork)
  BY DEF IsWork, NoWork, WorkFields
LEMMA Appended ==
    ASSUME NEW S, NEW s \in Seq(S), NEW e
    PROVE  /\ \E T : Append(s, e) \in Seq(T)
           /\ \A k \in DOMAIN Append(s, e) :
                 Append(s, e)[k] = e \/ (k \in DOMAIN s /\ Append(s, e)[k] = s[k])
<1>1. s \in Seq(S \cup {e})
  OBVIOUS
<1>2. Append(s, e) \in Seq(S \cup {e})
  BY <1>1
<1> QED BY <1>1, <1>2

(* A change of the stage alone keeps a process honest. *)
LEMMA StageIsHonest ==
    ASSUME NEW r, NEW w, NEW told, Honest(r, w, told), NEW x, x # "remember", x \in Early => r.stage \in Early
    PROVE  \A v : Honest([r EXCEPT !.stage = x], v, told)
<1>1. /\ [r EXCEPT !.stage = x].stage = x
      /\ [r EXCEPT !.stage = x].restored = r.restored
      /\ [r EXCEPT !.stage = x].session = r.session
  BY DEF Honest, IsProcess, Fields
<1>2. IsProcess([r EXCEPT !.stage = x])
  BY ProcessExcept DEF Honest, Fields
<1> QED BY <1>1, <1>2 DEF Honest
(* So does a change of what the audit does not look at. *)
LEMMA SameAudit ==
    ASSUME NEW r, NEW w, NEW told, Honest(r, w, told),
           NEW f \in {"key", "new", "mapping", "left", "texts"}, NEW x
    PROVE  Honest([r EXCEPT ![f] = x], w, told)
<1>1. /\ [r EXCEPT ![f] = x].stage = r.stage
      /\ [r EXCEPT ![f] = x].restored = r.restored
      /\ [r EXCEPT ![f] = x].session = r.session
  BY DEF Honest, IsProcess, Fields
<1>2. IsProcess([r EXCEPT ![f] = x])
  BY ProcessExcept DEF Honest, Fields
<1> QED BY <1>1, <1>2 DEF Honest

(* Invocations are never removed, so what was audited stays audited. *)
LEMMA AuditsStay ==
    ASSUME NEW I, NEW J, I \subseteq J
    PROVE  /\ \A x : CallAudited(x, I) => CallAudited(x, J)
           /\ \A x : RestoreAudited(x, I) => RestoreAudited(x, J)
           /\ \A r, w : Honest(r, w, I) => Honest(r, w, J)
           /\ \A a : AnswerAudited(a, I) => AnswerAudited(a, J)
<1>1. /\ \A x : CallAudited(x, I) => CallAudited(x, J)
      /\ \A x : RestoreAudited(x, I) => RestoreAudited(x, J)
  BY DEF CallAudited, RestoreAudited
<1> QED BY <1>1 DEF Honest, AnswerAudited

(* What one process does keeps the invariant when it stays honest and tells the audited. *)
LEMMA OneProcess ==
    ASSUME AuditInv, invocations \subseteq invocations', NEW p \in Procs, NEW r, NEW w,
           proc' = [proc EXCEPT ![p] = r], work' = [work EXCEPT ![p] = w],
           IsWork(w), r = Idle \/ Honest(r, w, invocations'),
           \A e \in cache' : e \in cache \/ CallAudited(e.prompt, invocations'),
           answers' = answers \/ \E a : answers' = Append(answers, a) /\ AnswerAudited(a, invocations')
    PROVE  AuditInv'
<1>1. /\ proc'[p] = r /\ work'[p] = w
      /\ \A q \in Procs \ {p} : proc'[q] = proc[q] /\ work'[q] = work[q]
      /\ proc' = [q \in Procs |-> proc'[q]] /\ work' = [q \in Procs |-> work'[q]]
  BY DEF AuditInv, Shape
<1>2. ASSUME NEW q \in Procs
      PROVE  IsWork(work'[q]) /\ (proc'[q] = Idle \/ Honest(proc'[q], work'[q], invocations'))
  <2>1. CASE q = p
    BY <2>1, <1>1
  <2>2. CASE q # p
    <3>1. proc'[q] = proc[q] /\ work'[q] = work[q] /\ IsWork(work[q])
      BY <2>2, <1>1 DEF AuditInv, Shape
    <3>2. proc[q] = Idle \/ Honest(proc[q], work[q], invocations)
      BY DEF AuditInv, Busy
    <3> QED BY <3>1, <3>2, AuditsStay
  <2> QED BY <2>1, <2>2
<1>3. \A e \in cache' : CallAudited(e.prompt, invocations')
  BY AuditsStay DEF AuditInv
<1>4. /\ \E S : answers' \in Seq(S)
      /\ \A k \in DOMAIN answers' : AnswerAudited(answers'[k], invocations')
  <2>1. PICK S : answers \in Seq(S)
    BY DEF AuditInv, Shape
  <2>2. \A k \in DOMAIN answers : AnswerAudited(answers[k], invocations')
    BY AuditsStay DEF AuditInv
  <2>3. CASE answers' = answers
    BY <2>1, <2>2, <2>3
  <2>4. ASSUME NEW a, answers' = Append(answers, a), AnswerAudited(a, invocations')
        PROVE  /\ \E T : answers' \in Seq(T)
              /\ \A k \in DOMAIN answers' : AnswerAudited(answers'[k], invocations')
    BY <2>1, <2>2, <2>4, Appended
  <2> QED BY <2>3, <2>4
<1>5. \A q \in Procs : proc'[q] # Idle => IsProcess(proc'[q])
  BY <1>2 DEF Honest
<1> QED BY <1>1, <1>2, <1>3, <1>4, <1>5 DEF AuditInv, Shape, Busy

----------------------------------------------------------------------------
(* The forms that the actions have. *)
LEMMA SetKeeps ==
    ASSUME AuditInv, NEW p \in Procs, NEW r, Set(p, r), Honest(r, work[p], invocations'),
           invocations \subseteq invocations', UNCHANGED <<work, cache, answers>>
    PROVE  AuditInv'
<1>1. work' = [work EXCEPT ![p] = work[p]] /\ IsWork(work[p])
  BY DEF AuditInv, Shape
<1> QED BY <1>1, OneProcess DEF Set

LEMMA MoveKeeps ==
    ASSUME AuditInv, NEW p \in Procs, NEW r, Move(p, r), Rest, Honest(r, work[p], invocations)
    PROVE  AuditInv'
  BY SetKeeps DEF Move, Rest, Tables, assistVars

LEMMA StageKeeps ==
    ASSUME AuditInv, NEW p \in Procs, Busy(p), NEW x, Stage(p, x), x \notin Early \cup {"remember"}
    PROVE  AuditInv'
<1>1. Honest([proc[p] EXCEPT !.stage = x], work[p], invocations)
  BY StageIsHonest DEF AuditInv
<1> QED BY <1>1, MoveKeeps DEF Stage, me

LEMMA AdvanceKeeps ==
    ASSUME AuditInv, NEW p \in Procs, Busy(p), NEW x, NEW w, Advance(p, x, w), IsWork(w),
           x # "remember", x \in Early => proc[p].stage \in Early
    PROVE  AuditInv'
<1>1. Honest([proc[p] EXCEPT !.stage = x], w, invocations)
  BY StageIsHonest DEF AuditInv
<1>2. /\ proc' = [proc EXCEPT ![p] = [proc[p] EXCEPT !.stage = x]] /\ work' = [work EXCEPT ![p] = w]
      /\ UNCHANGED <<invocations, cache, answers>>
  BY DEF Advance, Move, Set, Tables, me
<1> QED BY <1>1, <1>2, OneProcess

LEMMA EndKeeps ==
    ASSUME AuditInv, NEW p \in Procs, Busy(p), NEW what, NEW exit, EndWith(p, what, exit),
           invocations \subseteq invocations', UNCHANGED <<work, cache>>
    PROVE  AuditInv'
<1> DEFINE a == [command |-> command(p), what |-> what, exit |-> exit,
                 session |-> proc[p].session, restored |-> proc[p].restored]
<1>1. AnswerAudited(a, invocations')
  BY AuditsStay DEF AuditInv, Honest, AnswerAudited
<1>2. /\ answers' = Append(answers, a) /\ proc' = [proc EXCEPT ![p] = Idle]
  BY DEF EndWith, Set, me
<1>3. work' = [work EXCEPT ![p] = work[p]] /\ IsWork(work[p])
  BY DEF AuditInv, Shape
<1> HIDE DEF a
<1> QED BY <1>1, <1>2, <1>3, OneProcess

LEMMA RefuseKeeps ==
    ASSUME AuditInv, NEW p \in Procs, Busy(p), NEW what, Refuse(p, what), Rest
    PROVE  AuditInv'
  BY EndKeeps DEF Refuse, End, Rest, Tables, assistVars
LEMMA AnswerKeeps ==
    ASSUME AuditInv, NEW p \in Procs, Busy(p), NEW what, Answer(p, what)
    PROVE  AuditInv'
  BY EndKeeps DEF Answer, Finish, Rest, Tables, assistVars

----------------------------------------------------------------------------
(* The actions of the vault. *)
LEMMA AtIsBusy == \A p \in Procs : \A x : At(p, x) /\ x # "idle" => Busy(p)
  BY DEF At, Busy, Idle

LEMMA BeginKeeps ==
    ASSUME AuditInv, NEW p \in Procs, NEW c, Begin(p, c), Rest
    PROVE  AuditInv'
<1> DEFINE r == [command |-> c, stage |-> "bind", key |-> NoKey, new |-> NoKey, session |-> NoSession,
                 mapping |-> <<>>, left |-> <<>>, texts |-> <<>>, restored |-> <<>>]
<1>1. Honest(r, work[p], invocations')
  BY DEF Honest, IsProcess, Fields
<1>2. Set(p, r)
  BY DEF Begin
<1>3. UNCHANGED <<work, cache, answers, invocations>>
  BY DEF Begin, Rest, assistVars, Tables
<1> HIDE DEF r
<1> QED BY <1>1, <1>2, <1>3, SetKeeps

LEMMA BindKeeps ==
    ASSUME AuditInv, NEW p \in Procs, Bind(p), Rest
    PROVE  AuditInv'
<1> DEFINE x == IF command(p).call \in {"restore", "summary"} THEN "load" ELSE command(p).call
           r == [me(p) EXCEPT !.key = Configured, !.session = command(p).session,
                              !.texts = command(p).texts, !.stage = x]
<1>1. Busy(p) /\ At(p, "bind")
  BY AtIsBusy DEF Bind
<1>2. CASE Refuse(p, "disabled")
  BY <1>1, <1>2, RefuseKeeps
<1>3. CASE Move(p, r)
  <2>1. x \in {"load", "delete", "purge", "rotate"}
    BY DEF Bind
  <2>2. IsProcess(me(p)) /\ me(p).restored = <<>>
    BY <1>1 DEF AuditInv, Honest, At, Early, me
  <2>3. r.restored = <<>> /\ r.stage = x /\ IsProcess(r)
    BY <2>2 DEF IsProcess, Fields
  <2>4. Honest(r, work[p], invocations)
    BY <2>1, <2>3 DEF Honest, Early
  <2> HIDE DEF r, x
  <2> QED BY <1>3, <2>4, MoveKeeps
<1> QED BY <1>2, <1>3 DEF Bind

LEMMA SaveMappingKeeps ==
    ASSUME AuditInv, NEW p \in Procs, SaveMapping(p), Rest
    PROVE  AuditInv'
<1>1. Busy(p)
  BY AtIsBusy DEF SaveMapping
<1>2. CASE EndWith(p, "conflict", "error") /\ UNCHANGED Tables
  BY <1>1, <1>2, EndKeeps DEF Tables, Rest, assistVars
<1>3. CASE \E x \in {"lookup", "save session"} : Stage(p, x)
  BY <1>1, <1>3, StageKeeps DEF Early
<1> QED BY <1>2, <1>3 DEF SaveMapping, Stage

LEMMA WriteMappingKeeps ==
    ASSUME AuditInv, NEW p \in Procs, WriteMapping(p), Rest
    PROVE  AuditInv'
<1>1. Busy(p)
  BY AtIsBusy DEF WriteMapping
<1>2. Honest([me(p) EXCEPT !.stage = "lookup"], work[p], invocations)
  BY <1>1, StageIsHonest DEF AuditInv, Early, me
<1> QED BY <1>2, SetKeeps DEF WriteMapping, Rest, assistVars

LEMMA LoadMappingKeeps ==
    ASSUME AuditInv, NEW p \in Procs, LoadMapping(p), Rest
    PROVE  AuditInv'
<1>1. Busy(p)
  BY AtIsBusy DEF LoadMapping
<1>2. CASE \E what \in {"missing", "key", "done"} : Refuse(p, what)
  BY <1>1, <1>2, RefuseKeeps
<1>3. ASSUME NEW m, Move(p, [me(p) EXCEPT !.mapping = m, !.stage = "audit"])
      PROVE  AuditInv'
  <2>1. Honest([me(p) EXCEPT !.mapping = m], work[p], invocations)
    BY <1>1, SameAudit DEF AuditInv, me
  <2>2. Honest([[me(p) EXCEPT !.mapping = m] EXCEPT !.stage = "audit"], work[p], invocations)
    BY <2>1, StageIsHonest DEF Early
  <2>3. [[me(p) EXCEPT !.mapping = m] EXCEPT !.stage = "audit"]
            = [me(p) EXCEPT !.mapping = m, !.stage = "audit"]
    OBVIOUS
  <2> QED BY <1>3, <2>2, <2>3, MoveKeeps
<1> QED BY <1>2, <1>3 DEF LoadMapping

(* The text is restored in the step that records it. *)
LEMMA AuditRestoreKeeps ==
    ASSUME AuditInv, NEW p \in Procs, AuditRestore(p), Rest
    PROVE  AuditInv'
<1> DEFINE x == IF Len(me(p).texts) > 1 THEN "load" ELSE "restored"
           r == [me(p) EXCEPT !.restored = Append(@, restore(Head(me(p).texts), me(p).mapping)),
                              !.texts = Tail(@), !.stage = x]
<1>1. Busy(p)
  BY AtIsBusy DEF AuditRestore
<1>2. IsProcess(r) /\ r.stage \in {"load", "restored"} /\ r.session = me(p).session
  BY <1>1 DEF AuditInv, Honest, IsProcess, Fields, me
<1>3. RestoreAudited(me(p).session, invocations')
  <2> DEFINE n == Invocation("pii_restore", "ok", me(p).session, NoPrompt)
  <2>1. n \in invocations'
    BY DEF AuditRestore
  <2>2. n.task = "pii_restore" /\ n.session = me(p).session
    BY DEF Invocation
  <2> HIDE DEF n
  <2> QED BY <2>1, <2>2 DEF RestoreAudited
<1>4. Honest(r, work[p], invocations')
  BY <1>2, <1>3 DEF Honest, Early
<1>5. Set(p, r) /\ UNCHANGED <<work, cache, answers>> /\ invocations \subseteq invocations'
  BY DEF AuditRestore, Rest, assistVars
<1> HIDE DEF r, x
<1> QED BY <1>4, <1>5, SetKeeps

LEMMA ShowKeeps ==
    ASSUME AuditInv, NEW p \in Procs, Show(p), Rest
    PROVE  AuditInv'
  BY AtIsBusy, RefuseKeeps DEF Show

LEMMA DeleteKeeps ==
    ASSUME AuditInv, NEW p \in Procs, Delete(p), Rest
    PROVE  AuditInv'
<1>1. \E what, exit : EndWith(p, what, exit)
  BY DEF Delete, End
<1>2. Busy(p) /\ invocations' = invocations /\ UNCHANGED <<work, cache>>
  BY AtIsBusy DEF Delete, Rest, assistVars
<1> QED BY <1>1, <1>2, EndKeeps

LEMMA ListOldKeeps ==
    ASSUME AuditInv, NEW p \in Procs, ListOld(p), Rest
    PROVE  AuditInv'
<1>1. Busy(p)
  BY AtIsBusy DEF ListOld
<1>2. PICK ids : Move(p, [me(p) EXCEPT !.stage = "drop", !.left = ids])
  BY DEF ListOld
<1>3. Honest([me(p) EXCEPT !.stage = "drop"], work[p], invocations)
  BY <1>1, StageIsHonest DEF AuditInv, Early, me
<1>4. Honest([[me(p) EXCEPT !.stage = "drop"] EXCEPT !.left = ids], work[p], invocations)
  BY <1>3, SameAudit
<1>5. [[me(p) EXCEPT !.stage = "drop"] EXCEPT !.left = ids] = [me(p) EXCEPT !.stage = "drop", !.left = ids]
  OBVIOUS
<1> QED BY <1>2, <1>4, <1>5, MoveKeeps

LEMMA LeftKeeps ==
    ASSUME AuditInv, NEW p \in Procs, Busy(p), Set(p, [me(p) EXCEPT !.left = Tail(@)]),
           UNCHANGED <<invocations, work, cache, answers>>
    PROVE  AuditInv'
<1> DEFINE r == [me(p) EXCEPT !.left = Tail(@)]
<1>1. Honest(r, work[p], invocations)
  BY SameAudit DEF AuditInv, me
<1>2. Set(p, r) /\ invocations' = invocations
  OBVIOUS
<1> HIDE DEF r
<1> QED BY <1>1, <1>2, SetKeeps

LEMMA DropOldKeeps ==
    ASSUME AuditInv, NEW p \in Procs, DropOld(p), Rest
    PROVE  AuditInv'
<1>1. Busy(p)
  BY AtIsBusy DEF DropOld
<1>2. CASE Refuse(p, "done")
  BY <1>1, <1>2, RefuseKeeps
<1>3. CASE Set(p, [me(p) EXCEPT !.left = Tail(@)]) /\ UNCHANGED <<invocations, answers>>
  BY <1>1, <1>3, LeftKeeps DEF Rest, assistVars
<1> QED BY <1>2, <1>3 DEF DropOld

LEMMA StartRotationKeeps ==
    ASSUME AuditInv, NEW p \in Procs, StartRotation(p), Rest
    PROVE  AuditInv'
<1>1. Busy(p)
  BY AtIsBusy DEF StartRotation
<1>2. PICK rows, key : Set(p, [me(p) EXCEPT !.stage = "encrypt", !.left = rows, !.new = key])
  BY DEF StartRotation
<1> DEFINE r1 == [me(p) EXCEPT !.stage = "encrypt"]
           r2 == [r1 EXCEPT !.left = rows]
           r3 == [r2 EXCEPT !.new = key]
<1>3. Honest(r1, work[p], invocations)
  BY <1>1, StageIsHonest DEF AuditInv, Early, me
<1>4. Honest(r3, work[p], invocations)
  <2> HIDE DEF r1
  <2>1. Honest(r2, work[p], invocations)
    BY <1>3, SameAudit
  <2> HIDE DEF r2
  <2> QED BY <2>1, SameAudit
<1>5. r3 = [me(p) EXCEPT !.stage = "encrypt", !.left = rows, !.new = key]
  OBVIOUS
<1>6. UNCHANGED <<invocations, work, cache, answers>>
  BY DEF StartRotation, Rest, assistVars
<1> HIDE DEF r1, r2, r3
<1> QED BY <1>2, <1>4, <1>5, <1>6, SetKeeps

LEMMA EncryptAnewKeeps ==
    ASSUME AuditInv, NEW p \in Procs, EncryptAnew(p), Rest
    PROVE  AuditInv'
<1>1. Busy(p)
  BY AtIsBusy DEF EncryptAnew
<1>2. CASE Refuse(p, "key")
  BY <1>1, <1>2, RefuseKeeps
<1>3. CASE Set(p, [me(p) EXCEPT !.left = Tail(@)]) /\ UNCHANGED <<invocations, answers>>
  BY <1>1, <1>3, LeftKeeps DEF Rest, assistVars
<1> QED BY <1>2, <1>3 DEF EncryptAnew

LEMMA ReplaceKeyFileKeeps ==
    ASSUME AuditInv, NEW p \in Procs, ReplaceKeyFile(p), Rest
    PROVE  AuditInv'
<1> DEFINE r1 == [me(p) EXCEPT !.key = me(p).new]
           r2 == [r1 EXCEPT !.stage = "rotated"]
<1>1. Busy(p)
  BY AtIsBusy DEF ReplaceKeyFile
<1>2. Honest(r1, work[p], invocations)
  BY <1>1, SameAudit DEF AuditInv, me
<1>3. Honest(r2, work[p], invocations)
  <2> HIDE DEF r1
  <2> QED BY <1>2, StageIsHonest DEF Early
<1>4. Set(p, r2) /\ UNCHANGED <<invocations, work, cache, answers>>
  BY DEF ReplaceKeyFile, Rest, assistVars
<1> HIDE DEF r1, r2
<1> QED BY <1>3, <1>4, SetKeeps

LEMMA AuditRotationKeeps ==
    ASSUME AuditInv, NEW p \in Procs, AuditRotation(p), Rest
    PROVE  AuditInv'
<1>1. \E what, exit : EndWith(p, what, exit)
  BY DEF AuditRotation, End
<1>2. Busy(p) /\ invocations \subseteq invocations' /\ UNCHANGED <<work, cache>>
  BY AtIsBusy DEF AuditRotation, Rest, assistVars
<1> QED BY <1>1, <1>2, EndKeeps

LEMMA CrashKeeps ==
    ASSUME AuditInv, NEW p \in Procs, Crash(p), Rest
    PROVE  AuditInv'
<1> DEFINE a == [command |-> command(p), what |-> "killed", exit |-> "killed",
                 session |-> me(p).session, restored |-> <<>>]
<1>1. AnswerAudited(a, invocations')
  BY DEF AnswerAudited
<1>2. /\ answers' = Append(answers, a) /\ proc' = [proc EXCEPT ![p] = Idle]
      /\ UNCHANGED <<invocations, cache>>
  BY DEF Crash, Set, Tables, Rest, assistVars
<1>3. work' = [work EXCEPT ![p] = work[p]] /\ IsWork(work[p])
  BY DEF AuditInv, Shape, Rest, assistVars
<1> HIDE DEF a
<1> QED BY <1>1, <1>2, <1>3, OneProcess

LEMMA VaultKeeps ==
    ASSUME AuditInv, NEW p \in Procs, VaultStep(p), Rest
    PROVE  AuditInv'
  BY BeginKeeps, BindKeeps, SaveMappingKeeps, WriteMappingKeeps, LoadMappingKeeps, AuditRestoreKeeps,
     ShowKeeps, DeleteKeeps, ListOldKeeps, DropOldKeeps, StartRotationKeeps, EncryptAnewKeeps,
     ReplaceKeyFileKeeps, AuditRotationKeeps, CrashKeeps DEF VaultStep

----------------------------------------------------------------------------
(* The actions of a proposal. *)
LEMMA OpenKeeps ==
    ASSUME AuditInv, NEW p \in Procs, Open(p)
    PROVE  AuditInv'
<1> DEFINE r == [me(p) EXCEPT !.key = Configured, !.stage = "profile"]
           w == [NoWork EXCEPT !.opened = file]
<1>1. Busy(p) /\ At(p, "bind")
  BY AtIsBusy DEF Open
<1>2. CASE \E what : Answer(p, what)
  BY <1>1, <1>2, AnswerKeeps
<1>3. CASE Move(p, r) /\ work' = [work EXCEPT ![p] = w] /\ cache' = cache
  <2>1. IsProcess(me(p)) /\ me(p).restored = <<>>
    BY <1>1 DEF AuditInv, Honest, At, Early, me
  <2>2. r.restored = <<>> /\ r.stage = "profile" /\ IsProcess(r)
    BY <2>1 DEF IsProcess, Fields
  <2>3. Honest(r, w, invocations')
    BY <2>2 DEF Honest, Early
  <2>4. IsWork(w)
    BY NewWork, WorkExcept DEF WorkFields
  <2> HIDE DEF r, w
  <2>5. proc' = [proc EXCEPT ![p] = r] /\ UNCHANGED <<invocations, answers>>
    BY <1>3 DEF Move, Set, Tables
  <2> QED BY <1>3, <2>3, <2>4, <2>5, OneProcess
<1> QED BY <1>2, <1>3 DEF Open

LEMMA ProfileKeeps ==
    ASSUME AuditInv, NEW p \in Procs, Profile(p)
    PROVE  AuditInv'
<1>1. Busy(p) /\ At(p, "profile")
  BY AtIsBusy DEF Profile
<1>2. CASE Answer(p, "error")
  BY <1>1, <1>2, AnswerKeeps
<1>3. ASSUME NEW s, NEW t, Advance(p, "sample", [Doing(p) EXCEPT !.stats = s, !.tops = t])
      PROVE  AuditInv'
  <2>1. IsWork([Doing(p) EXCEPT !.stats = s, !.tops = t])
    BY DEF AuditInv, Shape, Doing, IsWork, WorkFields
  <2>2. proc[p].stage \in Early
    BY <1>1 DEF At, Early
  <2> QED BY <1>1, <1>3, <2>1, <2>2, AdvanceKeeps
<1> QED BY <1>2, <1>3 DEF Profile

(* The session is fixed before anything is restored. *)
LEMMA SampleKeeps ==
    ASSUME AuditInv, NEW p \in Procs, Sample(p)
    PROVE  AuditInv'
<1>1. Busy(p) /\ At(p, "sample")
  BY AtIsBusy DEF Sample
<1>2. CASE Answer(p, "error")
  BY <1>1, <1>2, AnswerKeeps
<1>3. ASSUME NEW m, NEW s, NEW x \in {"lookup", "session"}, NEW e, NEW t,
             Move(p, [me(p) EXCEPT !.mapping = m, !.session = s, !.stage = x]),
             work' = [work EXCEPT ![p].examples = e, ![p].prompt = t],
             cache' = cache
      PROVE  AuditInv'
  <2> DEFINE r == [me(p) EXCEPT !.mapping = m, !.session = s, !.stage = x]
             w == [work[p] EXCEPT !.examples = e, !.prompt = t]
  <2>1. IsProcess(me(p)) /\ me(p).restored = <<>>
    BY <1>1 DEF AuditInv, Honest, At, Early, me
  <2>2. r.restored = <<>> /\ r.stage = x /\ IsProcess(r)
    BY <2>1 DEF IsProcess, Fields
  <2>3. Honest(r, w, invocations')
    BY <2>2 DEF Honest, Early
  <2>4. IsWork(w)
    BY DEF AuditInv, Shape, IsWork, WorkFields
  <2>5. work' = [work EXCEPT ![p] = w]
    BY <1>3 DEF AuditInv, Shape
  <2> HIDE DEF r, w
  <2>6. proc' = [proc EXCEPT ![p] = r] /\ UNCHANGED <<invocations, answers>>
    BY <1>3 DEF Move, Set, Tables, r
  <2> QED BY <1>3, <2>3, <2>4, <2>5, <2>6, OneProcess
<1> QED BY <1>2, <1>3 DEF Sample

LEMMA LookupKeeps ==
    ASSUME AuditInv, NEW p \in Procs, Lookup(p)
    PROVE  AuditInv'
<1>1. Busy(p)
  BY AtIsBusy DEF Lookup
<1>2. CASE Stage(p, "ask")
  BY <1>1, <1>2, StageKeeps DEF Early
<1>3. ASSUME NEW reply, Advance(p, "parse", [Doing(p) EXCEPT !.reply = reply])
      PROVE  AuditInv'
  <2>1. IsWork([Doing(p) EXCEPT !.reply = reply])
    BY WorkExcept DEF AuditInv, Shape, Doing, WorkFields
  <2> QED BY <1>1, <1>3, <2>1, AdvanceKeeps DEF Early
<1> QED BY <1>2, <1>3 DEF Lookup

LEMMA AskKeeps ==
    ASSUME AuditInv, NEW p \in Procs, TimesOut(p) \/ Breaks(p) \/ Answers(p)
    PROVE  AuditInv'
<1>1. Busy(p)
  BY AtIsBusy DEF TimesOut, Breaks, Answers
<1>2. CASE Stage(p, "failed")
  BY <1>1, <1>2, StageKeeps DEF Early
<1>3. ASSUME NEW n, Advance(p, "ask", [Doing(p) EXCEPT !.attempts = n])
      PROVE  AuditInv'
  <2>1. IsWork([Doing(p) EXCEPT !.attempts = n])
    BY WorkExcept DEF AuditInv, Shape, Doing, WorkFields
  <2> QED BY <1>1, <1>3, <2>1, AdvanceKeeps DEF Early
<1>4. ASSUME NEW reply, Advance(p, "record", [Doing(p) EXCEPT !.reply = reply])
      PROVE  AuditInv'
  <2>1. IsWork([Doing(p) EXCEPT !.reply = reply])
    BY WorkExcept DEF AuditInv, Shape, Doing, WorkFields
  <2> QED BY <1>1, <1>4, <2>1, AdvanceKeeps DEF Early
<1> QED BY <1>2, <1>3, <1>4 DEF TimesOut, Breaks, Answers

(* The call is recorded before its reply may be cached. *)
LEMMA RecordKeeps ==
    ASSUME AuditInv, NEW p \in Procs, RecordFailure(p) \/ RecordCall(p)
    PROVE  AuditInv'
<1>1. Busy(p)
  BY AtIsBusy DEF RecordFailure, RecordCall
<1>2. /\ UNCHANGED <<work, cache, answers>> /\ invocations \subseteq invocations'
  BY DEF RecordFailure, RecordCall, Record, Rest, assistVars
<1>3. Honest(me(p), work[p], invocations')
  BY <1>1, <1>2, AuditsStay DEF AuditInv, me
<1>4. CASE RecordFailure(p)
  <2>1. Honest([me(p) EXCEPT !.stage = "tell"], work[p], invocations')
    BY <1>3, StageIsHonest DEF Early
  <2> QED BY <1>2, <1>4, <2>1, SetKeeps DEF RecordFailure, Record
<1>5. CASE RecordCall(p)
  <2> DEFINE r == [me(p) EXCEPT !.stage = "remember"]
             n == Invocation(command(p).call, "ok", me(p).session, work[p].prompt)
  <2>1. n \in invocations'
    BY <1>5 DEF RecordCall, Record, Doing
  <2>2. n.prompt = work[p].prompt /\ n.status = "ok"
    BY DEF Invocation
  <2>3. IsProcess(r) /\ r.stage = "remember" /\ r.restored = me(p).restored /\ r.session = me(p).session
    BY <1>3 DEF Honest, IsProcess, Fields
  <2> HIDE DEF n, r
  <2>4. Honest(r, work[p], invocations')
    BY <1>3, <2>1, <2>2, <2>3 DEF Honest, CallAudited, Early
  <2>5. Set(p, r)
    BY <1>5 DEF RecordCall, Record, r
  <2> QED BY <1>2, <2>4, <2>5, SetKeeps
<1> QED BY <1>4, <1>5

LEMMA TellKeeps ==
    ASSUME AuditInv, NEW p \in Procs, Tell(p)
    PROVE  AuditInv'
  BY AtIsBusy, AnswerKeeps DEF Tell

LEMMA RememberKeeps ==
    ASSUME AuditInv, NEW p \in Procs, Remember(p)
    PROVE  AuditInv'
<1>1. Busy(p) /\ At(p, "remember")
  BY AtIsBusy DEF Remember
<1>2. CASE Answer(p, "error")
  BY <1>1, <1>2, AnswerKeeps
<1> DEFINE e == [prompt |-> work[p].prompt, reply |-> work[p].reply]
           r == [me(p) EXCEPT !.stage = "parse"]
<1>3. CASE /\ cache' = {o \in cache : o.prompt # work[p].prompt} \cup {e}
           /\ Move(p, r) /\ UNCHANGED work
  <2>1. CallAudited(work[p].prompt, invocations)
    BY <1>1 DEF AuditInv, Honest, At
  <2>2. invocations' = invocations /\ answers' = answers /\ proc' = [proc EXCEPT ![p] = r]
    BY <1>3 DEF Move, Set, Tables
  <2>3. e.prompt = work[p].prompt
    OBVIOUS
  <2>4. Honest(r, work[p], invocations)
    BY <1>1, StageIsHonest DEF AuditInv, Early, me
  <2>5. work' = [work EXCEPT ![p] = work[p]] /\ IsWork(work[p])
    BY <1>3 DEF AuditInv, Shape
  <2> HIDE DEF e, r
  <2>6. \A o \in cache' : o \in cache \/ CallAudited(o.prompt, invocations')
    BY <1>3, <2>1, <2>2, <2>3
  <2> QED BY <2>2, <2>4, <2>5, <2>6, OneProcess
<1> QED BY <1>2, <1>3 DEF Remember, Doing

LEMMA ParseRepairKeeps ==
    ASSUME AuditInv, NEW p \in Procs, ParseRepair(p)
    PROVE  AuditInv'
<1>1. Busy(p)
  BY AtIsBusy DEF ParseRepair
<1>2. CASE Stage(p, "estimate")
  BY <1>1, <1>2, StageKeeps DEF Early
<1>3. CASE Answer(p, "rejected")
  BY <1>1, <1>3, AnswerKeeps
<1> QED BY <1>2, <1>3 DEF ParseRepair

(* Texts without a mapping are taken as they are; others are restored anew. *)
LEMMA RestoreKeeps ==
    ASSUME AuditInv, NEW p \in Procs, Busy(p), NEW texts, Move(p, RestoreTexts(p, texts)), Rest
    PROVE  AuditInv'
<1>1. IsProcess(me(p))
  BY DEF AuditInv, Honest, me
<1>2. CASE me(p).session = NoSession
  <2> DEFINE r == [me(p) EXCEPT !.restored = texts, !.stage = "restored"]
  <2>1. IsProcess(r) /\ r.stage = "restored" /\ r.session = NoSession
    BY <1>1, <1>2 DEF IsProcess, Fields
  <2>2. Honest(r, work[p], invocations)
    BY <2>1 DEF Honest, Early
  <2>3. Move(p, r)
    BY <1>2 DEF RestoreTexts
  <2> HIDE DEF r
  <2> QED BY <2>2, <2>3, MoveKeeps
<1>3. CASE me(p).session # NoSession
  <2> DEFINE r == [me(p) EXCEPT !.restored = <<>>, !.texts = texts, !.stage = "load"]
  <2>1. IsProcess(r) /\ r.stage = "load" /\ r.restored = <<>>
    BY <1>1 DEF IsProcess, Fields
  <2>2. Honest(r, work[p], invocations)
    BY <2>1 DEF Honest, Early
  <2>3. Move(p, r)
    BY <1>3 DEF RestoreTexts
  <2> HIDE DEF r
  <2> QED BY <2>2, <2>3, MoveKeeps
<1> QED BY <1>2, <1>3

LEMMA EstimateKeeps ==
    ASSUME AuditInv, NEW p \in Procs, Estimate(p)
    PROVE  AuditInv'
<1>1. Busy(p)
  BY AtIsBusy DEF Estimate
<1>2. CASE \E texts : Move(p, RestoreTexts(p, texts)) /\ Rest
  BY <1>1, <1>2, RestoreKeeps
<1>3. CASE Answer(p, "rejected")
  BY <1>1, <1>3, AnswerKeeps
<1> QED BY <1>2, <1>3 DEF Estimate

LEMMA SaveProposalKeeps ==
    ASSUME AuditInv, NEW p \in Procs, SaveProposal(p)
    PROVE  AuditInv'
<1>1. \E what, exit : EndWith(p, what, exit)
  BY DEF SaveProposal, Finish
<1>2. Busy(p) /\ invocations' = invocations /\ UNCHANGED <<work, cache>>
  BY AtIsBusy DEF SaveProposal, Finish, Tables
<1> QED BY <1>1, <1>2, EndKeeps

LEMMA ParseRulesKeeps ==
    ASSUME AuditInv, NEW p \in Procs, ParseRules(p)
    PROVE  AuditInv'
<1>1. Busy(p)
  BY AtIsBusy DEF ParseRules
<1>2. CASE Answer(p, "rejected")
  BY <1>1, <1>2, AnswerKeeps
<1>3. ASSUME NEW list, Advance(p, "item", [Doing(p) EXCEPT !.items = list])
      PROVE  AuditInv'
  <2>1. IsWork([Doing(p) EXCEPT !.items = list])
    BY WorkExcept DEF AuditInv, Shape, Doing, WorkFields
  <2> QED BY <1>1, <1>3, <2>1, AdvanceKeeps DEF Early
<1> QED BY <1>2, <1>3 DEF ParseRules

LEMMA NextItemKeeps ==
    ASSUME AuditInv, NEW p \in Procs, NextItem(p)
    PROVE  AuditInv'
<1>1. Busy(p)
  BY AtIsBusy DEF NextItem
<1>2. CASE Answer(p, "done")
  BY <1>1, <1>2, AnswerKeeps
<1>3. CASE \E texts : Move(p, RestoreTexts(p, texts)) /\ Rest
  BY <1>1, <1>3, RestoreKeeps
<1> QED BY <1>2, <1>3 DEF NextItem

LEMMA PreflightKeeps ==
    ASSUME AuditInv, NEW p \in Procs, Preflight(p)
    PROVE  AuditInv'
<1>1. Busy(p)
  BY AtIsBusy DEF Preflight
<1>2. CASE Stage(p, "save rule")
  BY <1>1, <1>2, StageKeeps DEF Early
<1>3. ASSUME NEW list, Advance(p, "item", [Doing(p) EXCEPT !.items = list])
      PROVE  AuditInv'
  <2>1. IsWork([Doing(p) EXCEPT !.items = list])
    BY WorkExcept DEF AuditInv, Shape, Doing, WorkFields
  <2> QED BY <1>1, <1>3, <2>1, AdvanceKeeps DEF Early
<1> QED BY <1>2, <1>3 DEF Preflight, DropItem

LEMMA SaveRuleKeeps ==
    ASSUME AuditInv, NEW p \in Procs, SaveRule(p)
    PROVE  AuditInv'
<1> DEFINE r == [me(p) EXCEPT !.stage = "item"]
           w == [work[p] EXCEPT !.items = Tail(work[p].items)]
<1>1. Busy(p)
  BY AtIsBusy DEF SaveRule
<1>2. Honest(r, w, invocations)
  BY <1>1, StageIsHonest DEF AuditInv, Early, me
<1>3. IsWork(w)
  BY WorkExcept DEF AuditInv, Shape, WorkFields
<1>4. work' = [work EXCEPT ![p] = w]
  BY DEF SaveRule, AuditInv, Shape
<1>5. proc' = [proc EXCEPT ![p] = r] /\ UNCHANGED <<invocations, cache, answers>>
  BY DEF SaveRule, Move, Set, Tables
<1> HIDE DEF r, w
<1> QED BY <1>2, <1>3, <1>4, <1>5, OneProcess

----------------------------------------------------------------------------
(* The actions of an approval. *)
LEMMA ApproveKeeps ==
    ASSUME AuditInv, NEW p \in Procs, Approve(p)
    PROVE  AuditInv'
<1>1. Busy(p)
  BY AtIsBusy DEF Approve
<1>2. CASE \E what : Answer(p, what)
  BY <1>1, <1>2, AnswerKeeps
<1>3. CASE Stage(p, "activate")
  BY <1>1, <1>3, StageKeeps DEF Early
<1>4. CASE Advance(p, "count", [NoWork EXCEPT !.opened = file, !.since = changes])
  <2>1. IsWork([NoWork EXCEPT !.opened = file, !.since = changes])
    BY NewWork DEF IsWork, WorkFields
  <2> QED BY <1>1, <1>4, <2>1, AdvanceKeeps DEF Early
<1> QED BY <1>2, <1>3, <1>4 DEF Approve

LEMMA CountRowsKeeps ==
    ASSUME AuditInv, NEW p \in Procs, CountRows(p)
    PROVE  AuditInv'
<1>1. Busy(p)
  BY AtIsBusy DEF CountRows
<1>2. CASE Stage(p, "activate")
  BY <1>1, <1>2, StageKeeps DEF Early
<1>3. CASE Answer(p, "error")
  BY <1>1, <1>3, AnswerKeeps
<1>4. ASSUME NEW n, Advance(p, "failures", [Doing(p) EXCEPT !.rows = n])
      PROVE  AuditInv'
  <2>1. IsWork([Doing(p) EXCEPT !.rows = n])
    BY WorkExcept DEF AuditInv, Shape, Doing, WorkFields
  <2> QED BY <1>1, <1>4, <2>1, AdvanceKeeps DEF Early
<1> QED BY <1>2, <1>3, <1>4 DEF CountRows

LEMMA CountFailuresKeeps ==
    ASSUME AuditInv, NEW p \in Procs, CountFailures(p)
    PROVE  AuditInv'
<1>1. Busy(p)
  BY AtIsBusy DEF CountFailures
<1>2. CASE Answer(p, "error")
  BY <1>1, <1>2, AnswerKeeps
<1>3. ASSUME NEW x \in {"activate", "examples"}, NEW n, Advance(p, x, [Doing(p) EXCEPT !.failures = n])
      PROVE  AuditInv'
  <2>1. IsWork([Doing(p) EXCEPT !.failures = n])
    BY WorkExcept DEF AuditInv, Shape, Doing, WorkFields
  <2> QED BY <1>1, <1>3, <2>1, AdvanceKeeps DEF Early
<1> QED BY <1>2, <1>3 DEF CountFailures

LEMMA ReadExamplesKeeps ==
    ASSUME AuditInv, NEW p \in Procs, ReadExamples(p)
    PROVE  AuditInv'
<1>1. Busy(p)
  BY AtIsBusy DEF ReadExamples
<1>2. CASE \E what : Answer(p, what)
  BY <1>1, <1>2, AnswerKeeps
<1>3. CASE Stage(p, "activate")
  BY <1>1, <1>3, StageKeeps DEF Early
<1> QED BY <1>2, <1>3 DEF ReadExamples

LEMMA ActivateKeeps ==
    ASSUME AuditInv, NEW p \in Procs, Activate(p)
    PROVE  AuditInv'
<1>1. \E what, exit : EndWith(p, what, exit)
  BY DEF Activate, Finish
<1>2. Busy(p) /\ invocations' = invocations /\ UNCHANGED <<work, cache>>
  BY AtIsBusy DEF Activate, Finish, Tables
<1> QED BY <1>1, <1>2, EndKeeps

LEMMA Unchanged ==
    ASSUME AuditInv, UNCHANGED <<proc, work, cache, answers, invocations>>
    PROVE  AuditInv'
  BY DEF AuditInv, Shape, Busy

LEMMA AuditHolds == AuditInv => AuditIsComplete
  BY DEF AuditInv, CallAudited, AnswerAudited, RestoreAudited, AuditIsComplete

LEMMA AuditStarts == Init => AuditInv
  BY NewWork DEF Init, VaultInit, AuditInv, Shape, Busy

LEMMA AuditKept == AuditInv /\ [Next]_vars => AuditInv'
<1> SUFFICES ASSUME AuditInv, [Next]_vars PROVE AuditInv'
  OBVIOUS
<1>1. ASSUME NEW p \in Procs, Step(p)
      PROVE  AuditInv'
  BY <1>1, VaultKeeps, BeginKeeps, OpenKeeps, ProfileKeeps, SampleKeeps, LookupKeeps, AskKeeps,
     RecordKeeps, TellKeeps, RememberKeeps, ParseRepairKeeps, EstimateKeeps, SaveProposalKeeps,
     ParseRulesKeeps, NextItemKeeps, PreflightKeeps, SaveRuleKeeps, ApproveKeeps, CountRowsKeeps,
     CountFailuresKeeps, ReadExamplesKeeps, ActivateKeeps DEF Step
<1>2. ASSUME NEW v, Edit(v)
      PROVE  AuditInv'
  BY <1>2, Unchanged DEF Edit, Tables
<1>3. CASE UNCHANGED vars
  BY <1>3, Unchanged DEF vars, vaultVars, assistVars
<1> QED BY <1>1, <1>2, <1>3 DEF Next

(* Every reply in the cache comes from a call that was recorded, and every text that was given *)
(* back from the vault has its audit row: LLMService records a call before it stores its reply *)
(* and PIIVault.restore_text adds the invocation before it returns.                            *)
THEOREM AuditComplete == Spec => []AuditIsComplete
<1>1. Init => AuditInv
  BY AuditStarts
<1>2. AuditInv /\ [Next]_vars => AuditInv'
  BY AuditKept
<1>3. AuditInv => AuditIsComplete
  BY AuditHolds
<1> QED BY <1>1, <1>2, <1>3, PTL DEF Spec

----------------------------------------------------------------------------
(* Approvals. What one of them has counted is of the version it opened as long as nothing has  *)
(* changed since; a rule keeps its name, and is appended without being enabled.                *)
CandidateFields == {"prompt", "examples", "said", "texts", "name", "enabled", "basis"}
IsCandidate(c) == c = [f \in CandidateFields |-> c[f]]
Approving == {"count", "failures", "examples", "activate"}
Tolerable(name, v) == name \in DOMAIN Content[v].failing => 2 * Content[v].failing[name] <= RowCount(v)
Counted(r, w, f, name) ==
    /\ w.opened = f
    /\ r.stage \in {"failures", "examples"} => name \in DOMAIN Content[f].failing /\ w.rows = RowCount(f)
    /\ r.stage = "examples" => w.failures = Content[f].failing[name] /\ w.failures # 0
    /\ r.stage = "activate" => r.command.force \/ Tolerable(name, f)
Weighed(r, w, f, c, rs) ==
    r.stage \in Approving =>
        /\ r.command.call = "approve" /\ r.command.request \in DOMAIN rs
        /\ r.command.path # "none" =>
              /\ w.since \in Nat /\ w.since <= c
              /\ c = w.since => f \in DOMAIN Content /\ Counted(r, w, f, rs[r.command.request].name)
Approval(a, n) == a.command.call = "approve" /\ a.command.request = n /\ a.exit = "ok"
Approved(n, ans) == \E k \in DOMAIN ans : Approval(ans[k], n)
RuleSound(rs, n, ans) ==
    /\ IsCandidate(rs[n])
    /\ rs[n].enabled => Approved(n, ans)
    /\ rs[n].basis \notin {"none", "word"} => Tolerable(rs[n].name, rs[n].basis)
ApprovalInv ==
    /\ file \in DOMAIN Content \cup {Gone} /\ changes \in Nat
    /\ \A p \in Procs : Busy(p) => Weighed(proc[p], work[p], file, changes, rules)
    /\ \E S : rules \in Seq(S)
    /\ \A n \in DOMAIN rules : RuleSound(rules, n, answers)

LEMMA CountsAreNatural ==
    ASSUME NEW v \in DOMAIN Content
    PROVE  RowCount(v) \in Nat /\ \A name \in DOMAIN Content[v].failing : Content[v].failing[name] \in Nat
<1>1. Content[v].columns \in Seq(ToSet(Content[v].columns)) /\ Content[v].columns # <<>>
  BY ContentAssumption
<1>2. 1 \in DOMAIN Content[v].columns
  BY <1>1
<1>3. Columns(v)[1] \in ToSet(Content[v].columns)
  BY <1>2 DEF ToSet, Columns
<1>4. Content[v].cells[Columns(v)[1]] \in Seq(Texts(Content[v].cells[Columns(v)[1]]))
  BY <1>3, ContentAssumption
<1>5. RowCount(v) \in Nat
  BY <1>4 DEF RowCount
<1> QED BY <1>5, ContentAssumption

(* The rules of before are there with their names, and nobody has undone a change of the file. *)
Kept(rs, rs2) == \A n \in DOMAIN rs : n \in DOMAIN rs2 /\ rs2[n].name = rs[n].name
Aged(f, c, f2, c2) == c2 \in Nat /\ ((f2 = f /\ c2 = c) \/ c2 > c)
LEMMA WeighedStays ==
    ASSUME NEW r, NEW w, NEW f, NEW c \in Nat, NEW rs, NEW f2, NEW c2, NEW rs2,
           Weighed(r, w, f, c, rs), Aged(f, c, f2, c2), Kept(rs, rs2)
    PROVE  Weighed(r, w, f2, c2, rs2)
<1> SUFFICES ASSUME r.stage \in Approving
             PROVE  /\ r.command.call = "approve" /\ r.command.request \in DOMAIN rs2
                    /\ r.command.path # "none" =>
                          /\ w.since \in Nat /\ w.since <= c2
                          /\ c2 = w.since => f2 \in DOMAIN Content /\ Counted(r, w, f2, rs2[r.command.request].name)
  BY DEF Weighed
<1>1. r.command.call = "approve" /\ r.command.request \in DOMAIN rs
  BY DEF Weighed
<1>2. r.command.request \in DOMAIN rs2 /\ rs2[r.command.request].name = rs[r.command.request].name
  BY <1>1 DEF Kept
<1>3. ASSUME r.command.path # "none"
      PROVE  /\ w.since \in Nat /\ w.since <= c2
             /\ c2 = w.since => f2 \in DOMAIN Content /\ Counted(r, w, f2, rs2[r.command.request].name)
  <2>1. /\ w.since \in Nat /\ w.since <= c
        /\ c = w.since => f \in DOMAIN Content /\ Counted(r, w, f, rs[r.command.request].name)
    BY <1>3 DEF Weighed
  <2>2. w.since <= c2 /\ (c2 = w.since => c2 = c /\ f2 = f)
    BY <2>1 DEF Aged
  <2> QED BY <1>2, <2>1, <2>2
<1> QED BY <1>1, <1>2, <1>3

(* The step of one process, whatever it does to the rules and answers. *)
LEMMA OneApproval ==
    ASSUME AuditInv, ApprovalInv, NEW p \in Procs, NEW r, NEW w,
           proc' = [proc EXCEPT ![p] = r], work' = [work EXCEPT ![p] = w],
           r = Idle \/ Weighed(r, w, file', changes', rules'),
           file' = file, Aged(file, changes, file', changes'), Kept(rules, rules'),
           \E S : rules' \in Seq(S),
           \A n \in DOMAIN rules' : RuleSound(rules', n, answers')
    PROVE  ApprovalInv'
<1>1. /\ proc'[p] = r /\ work'[p] = w
      /\ \A q \in Procs \ {p} : proc'[q] = proc[q] /\ work'[q] = work[q]
  BY DEF AuditInv, Shape
<1>2. ASSUME NEW q \in Procs, proc'[q] # Idle
      PROVE  Weighed(proc'[q], work'[q], file', changes', rules')
  <2>1. CASE q = p
    BY <1>1, <1>2, <2>1
  <2>2. CASE q # p
    <3>1. proc'[q] = proc[q] /\ work'[q] = work[q] /\ Weighed(proc[q], work[q], file, changes, rules)
      BY <1>1, <1>2, <2>2 DEF ApprovalInv, Busy
    <3> QED BY <3>1, WeighedStays DEF ApprovalInv
  <2> QED BY <2>1, <2>2
<1>3. changes' \in Nat
  BY DEF Aged
<1> QED BY <1>2, <1>3 DEF ApprovalInv, Busy

(* What is told grows, so a rule that is left alone stays sound. *)
LEMMA ToldStays ==
    ASSUME AuditInv, ApprovalInv, answers' = answers \/ \E a : answers' = Append(answers, a),
           NEW n \in DOMAIN rules
    PROVE  RuleSound(rules, n, answers')
<1>1. PICK S : answers \in Seq(S)
  BY DEF AuditInv, Shape
<1>2. RuleSound(rules, n, answers)
  BY DEF ApprovalInv
<1>3. \A k \in DOMAIN answers : k \in DOMAIN answers' /\ answers'[k] = answers[k]
  <2>1. CASE answers' = answers
    BY <2>1
  <2>2. ASSUME NEW a, answers' = Append(answers, a)
        PROVE  \A k \in DOMAIN answers : k \in DOMAIN answers' /\ answers'[k] = answers[k]
    <3>1. answers \in Seq(S \cup {a})
      BY <1>1
    <3> QED BY <2>2, <3>1
  <2> QED BY <2>1, <2>2
<1>4. Approved(n, answers) => Approved(n, answers')
  BY <1>3 DEF Approved
<1> QED BY <1>2, <1>4 DEF RuleSound

(* A step that has nothing to do with approvals. *)
Fresh(c) == IsCandidate(c) /\ ~c.enabled /\ c.basis = "none"
Added == rules' = rules \/ \E c : Fresh(c) /\ rules' = Append(rules, c)
Elsewhere(p) ==
    /\ \E r, w : Set(p, r) /\ work' = [work EXCEPT ![p] = w] /\ (r = Idle \/ r.stage \notin Approving)
    /\ file' = file /\ Aged(file, changes, file', changes')
    /\ Added /\ (answers' = answers \/ \E a : answers' = Append(answers, a))
LEMMA AddedIsSound ==
    ASSUME AuditInv, ApprovalInv, Added, answers' = answers \/ \E a : answers' = Append(answers, a)
    PROVE  /\ \E S : rules' \in Seq(S)
           /\ Kept(rules, rules')
           /\ \A n \in DOMAIN rules' : RuleSound(rules', n, answers')
<1>1. PICK S : rules \in Seq(S)
  BY DEF ApprovalInv
<1>2. \A n \in DOMAIN rules : RuleSound(rules, n, answers')
  BY ToldStays
<1>3. CASE rules' = rules
  BY <1>1, <1>2, <1>3 DEF Kept
<1>4. ASSUME NEW c, Fresh(c), rules' = Append(rules, c)
      PROVE  /\ \E T : rules' \in Seq(T)
             /\ Kept(rules, rules')
             /\ \A n \in DOMAIN rules' : RuleSound(rules', n, answers')
  <2>1. rules \in Seq(S \cup {c})
    BY <1>1
  <2>2. /\ rules' \in Seq(S \cup {c})
        /\ \A n \in DOMAIN rules : n \in DOMAIN rules' /\ rules'[n] = rules[n]
        /\ \A n \in DOMAIN rules' : rules'[n] = c \/ (n \in DOMAIN rules /\ rules'[n] = rules[n])
    BY <1>4, <2>1
  <2>3. \A n \in DOMAIN rules' : RuleSound(rules', n, answers')
    BY <1>2, <1>4, <2>2 DEF RuleSound, Fresh
  <2> QED BY <2>2, <2>3 DEF Kept
<1> QED BY <1>3, <1>4 DEF Added
LEMMA ElsewhereKeeps ==
    ASSUME AuditInv, ApprovalInv, NEW p \in Procs, Elsewhere(p)
    PROVE  ApprovalInv'
<1>1. PICK r, w : Set(p, r) /\ work' = [work EXCEPT ![p] = w] /\ (r = Idle \/ r.stage \notin Approving)
  BY DEF Elsewhere
<1>2. r = Idle \/ Weighed(r, w, file', changes', rules')
  BY <1>1 DEF Weighed
<1>3. /\ \E S : rules' \in Seq(S)
      /\ Kept(rules, rules')
      /\ \A n \in DOMAIN rules' : RuleSound(rules', n, answers')
  BY AddedIsSound DEF Elsewhere
<1> QED BY <1>1, <1>2, <1>3, OneApproval DEF Elsewhere, Set

LEMMA SetElsewhere ==
    ASSUME AuditInv, ApprovalInv, NEW p \in Procs, NEW r, Set(p, r), r = Idle \/ r.stage \notin Approving,
           Rest, changes' = changes \/ changes' = changes + 1,
           answers' = answers \/ \E a : answers' = Append(answers, a)
    PROVE  Elsewhere(p)
<1>1. work' = [work EXCEPT ![p] = work[p]] /\ rules' = rules /\ file' = file
  BY DEF Rest, assistVars, AuditInv, Shape
<1>2. Aged(file, changes, file', changes')
  BY <1>1 DEF Aged, ApprovalInv
<1> QED BY <1>1, <1>2 DEF Elsewhere, Added
LEMMA MoveElsewhere ==
    ASSUME AuditInv, ApprovalInv, NEW p \in Procs, NEW r, Move(p, r), Rest, r = Idle \/ r.stage \notin Approving
    PROVE  Elsewhere(p)
  BY SetElsewhere DEF Move, KeptByVault
LEMMA StageElsewhere ==
    ASSUME AuditInv, ApprovalInv, NEW p \in Procs, Busy(p), NEW x, Stage(p, x), x \notin Approving
    PROVE  Elsewhere(p)
<1> DEFINE r == [me(p) EXCEPT !.stage = x]
<1>1. r.stage = x
  BY DEF AuditInv, Honest, IsProcess, Fields, me
<1> HIDE DEF r
<1> QED BY <1>1, MoveElsewhere DEF Stage, r
LEMMA AdvanceElsewhere ==
    ASSUME AuditInv, ApprovalInv, NEW p \in Procs, Busy(p), NEW x, NEW w, Advance(p, x, w), x \notin Approving
    PROVE  Elsewhere(p)
<1> DEFINE r == [me(p) EXCEPT !.stage = x]
<1>1. r.stage = x
  BY DEF AuditInv, Honest, IsProcess, Fields, me
<1>2. Set(p, r) /\ work' = [work EXCEPT ![p] = w]
      /\ file' = file /\ changes' = changes /\ rules' = rules /\ answers' = answers
  BY DEF Advance, Move, KeptByVault
<1> HIDE DEF r
<1> QED BY <1>1, <1>2 DEF Elsewhere, Added, Aged, ApprovalInv
LEMMA EndElsewhere ==
    ASSUME AuditInv, ApprovalInv, NEW p \in Procs, NEW what, NEW exit, EndWith(p, what, exit),
           UNCHANGED <<work, file, rules>>
    PROVE  Elsewhere(p)
<1>1. Set(p, Idle) /\ (\E a : answers' = Append(answers, a)) /\ changes' = changes
  BY DEF EndWith, KeptByVault
<1>2. work' = [work EXCEPT ![p] = work[p]]
  BY DEF AuditInv, Shape
<1> QED BY <1>1, <1>2 DEF Elsewhere, Added, Aged, ApprovalInv
LEMMA RefuseElsewhere ==
    ASSUME AuditInv, ApprovalInv, NEW p \in Procs, NEW what, Refuse(p, what), Rest
    PROVE  Elsewhere(p)
  BY EndElsewhere DEF Refuse, End, Rest, assistVars
LEMMA AnswerElsewhere ==
    ASSUME AuditInv, ApprovalInv, NEW p \in Procs, NEW what, Answer(p, what)
    PROVE  Elsewhere(p)
  BY EndElsewhere DEF Answer, Finish, Rest, assistVars
LEMMA RestoreElsewhere ==
    ASSUME AuditInv, ApprovalInv, NEW p \in Procs, Busy(p), NEW texts, Move(p, RestoreTexts(p, texts)), Rest
    PROVE  Elsewhere(p)
<1>1. RestoreTexts(p, texts).stage \in {"load", "restored"}
  BY DEF RestoreTexts, AuditInv, Honest, IsProcess, Fields, me
<1> QED BY <1>1, MoveElsewhere DEF Approving

(* Every step of the vault, and every one of a proposal. *)
LEMMA VaultElsewhere ==
    ASSUME AuditInv, ApprovalInv, NEW p \in Procs, VaultStep(p), Rest
    PROVE  Elsewhere(p)
<1>1. \A c : [command |-> c, stage |-> "bind", key |-> NoKey, new |-> NoKey, session |-> NoSession,
             mapping |-> <<>>, left |-> <<>>, texts |-> <<>>, restored |-> <<>>].stage = "bind"
  OBVIOUS
<1>2. CASE \E c \in VaultCommands : Begin(p, c)
  BY <1>1, <1>2, SetElsewhere DEF Begin, KeptByVault, Approving
<1>3. CASE Bind(p)
  <2> DEFINE x == IF command(p).call \in {"restore", "summary"} THEN "load" ELSE command(p).call
             r == [me(p) EXCEPT !.key = Configured, !.session = command(p).session,
                                !.texts = command(p).texts, !.stage = x]
  <2>1. CASE Refuse(p, "disabled")
    BY <2>1, RefuseElsewhere
  <2>2. CASE Move(p, r)
    <3>1. IsProcess(me(p))
      BY <1>3, AtIsBusy DEF Bind, AuditInv, Honest, me
    <3>2. r.stage = x /\ x \in {"load", "delete", "purge", "rotate"}
      BY <1>3, <3>1 DEF IsProcess, Fields, Bind
    <3> HIDE DEF r, x
    <3> QED BY <2>2, <3>2, MoveElsewhere DEF Approving
  <2> QED BY <1>3, <2>1, <2>2 DEF Bind
<1>4. CASE SaveMapping(p)
  <2>1. Busy(p)
    BY <1>4, AtIsBusy DEF SaveMapping
  <2>2. CASE EndWith(p, "conflict", "error")
    BY <2>2, EndElsewhere DEF Rest, assistVars
  <2>3. CASE \E x \in {"lookup", "save session"} : Stage(p, x)
    BY <2>1, <2>3, StageElsewhere DEF Approving
  <2> QED BY <1>4, <2>2, <2>3 DEF SaveMapping, Stage
<1>5. ASSUME NEW r, Set(p, r), r.stage \notin Approving, changes' = changes, answers' = answers
      PROVE  Elsewhere(p)
  BY <1>5, SetElsewhere
<1>6. CASE WriteMapping(p)
  <2> DEFINE r == [me(p) EXCEPT !.stage = "lookup"]
  <2>1. r.stage = "lookup" /\ Set(p, r) /\ changes' = changes /\ answers' = answers
    BY <1>6, AtIsBusy DEF WriteMapping, AuditInv, Honest, IsProcess, Fields, me, KeptByVault
  <2> HIDE DEF r
  <2> QED BY <1>5, <2>1 DEF Approving
<1>7. CASE LoadMapping(p)
  <2>1. CASE \E what : Refuse(p, what)
    BY <2>1, RefuseElsewhere
  <2>2. ASSUME NEW m, Move(p, [me(p) EXCEPT !.mapping = m, !.stage = "audit"])
        PROVE  Elsewhere(p)
    <3> DEFINE r == [me(p) EXCEPT !.mapping = m, !.stage = "audit"]
    <3>1. r.stage = "audit" /\ Move(p, r)
      BY <1>7, <2>2, AtIsBusy DEF LoadMapping, AuditInv, Honest, IsProcess, Fields, me
    <3> HIDE DEF r
    <3> QED BY <3>1, MoveElsewhere DEF Approving
  <2> QED BY <1>7, <2>1, <2>2 DEF LoadMapping
<1>8. CASE AuditRestore(p)
  <2> DEFINE x == IF Len(me(p).texts) > 1 THEN "load" ELSE "restored"
             r == [me(p) EXCEPT !.restored = Append(@, restore(Head(me(p).texts), me(p).mapping)),
                                !.texts = Tail(@), !.stage = x]
  <2>1. r.stage = x /\ x \in {"load", "restored"} /\ Set(p, r) /\ changes' = changes /\ answers' = answers
    BY <1>8, AtIsBusy DEF AuditRestore, AuditInv, Honest, IsProcess, Fields, me, KeptByVault
  <2> HIDE DEF r, x
  <2> QED BY <1>5, <2>1 DEF Approving
<1>9. CASE Show(p)
  BY <1>9, RefuseElsewhere DEF Show
<1>10. CASE Delete(p) \/ AuditRotation(p)
  BY <1>10, EndElsewhere DEF Delete, AuditRotation, End, Rest, assistVars
<1>11. CASE ListOld(p)
  <2>1. PICK ids : Move(p, [me(p) EXCEPT !.stage = "drop", !.left = ids])
    BY <1>11 DEF ListOld
  <2> DEFINE r == [me(p) EXCEPT !.stage = "drop", !.left = ids]
  <2>2. r.stage = "drop" /\ Move(p, r)
    BY <1>11, <2>1, AtIsBusy DEF ListOld, AuditInv, Honest, IsProcess, Fields, me
  <2> HIDE DEF r
  <2> QED BY <2>2, MoveElsewhere DEF Approving
<1>12. CASE Set(p, [me(p) EXCEPT !.left = Tail(@)]) /\ Busy(p) /\ me(p).stage \notin Approving
            /\ changes' = changes /\ answers' = answers
  <2> DEFINE r == [me(p) EXCEPT !.left = Tail(@)]
  <2>1. r.stage = me(p).stage
    BY <1>12 DEF AuditInv, Honest, IsProcess, Fields, me
  <2> HIDE DEF r
  <2> QED BY <1>5, <1>12, <2>1 DEF r
<1>13. CASE DropOld(p)
  <2>1. CASE Refuse(p, "done")
    BY <2>1, RefuseElsewhere
  <2> QED BY <1>12, <1>13, <2>1, AtIsBusy DEF DropOld, At, me, Approving, KeptByVault
<1>14. CASE StartRotation(p)
  <2>1. PICK n, m, s : Set(p, [me(p) EXCEPT !.stage = "encrypt", !.left = s, !.new = n])
    BY <1>14 DEF StartRotation
  <2> DEFINE r == [me(p) EXCEPT !.stage = "encrypt", !.left = s, !.new = n]
  <2>2. r.stage = "encrypt" /\ Set(p, r) /\ changes' = changes /\ answers' = answers
    BY <1>14, <2>1, AtIsBusy DEF StartRotation, AuditInv, Honest, IsProcess, Fields, me, KeptByVault
  <2> HIDE DEF r
  <2> QED BY <1>5, <2>2 DEF Approving
<1>15. CASE EncryptAnew(p)
  <2>1. CASE Refuse(p, "key")
    BY <2>1, RefuseElsewhere
  <2> QED BY <1>12, <1>15, <2>1, AtIsBusy DEF EncryptAnew, At, me, Approving, KeptByVault
<1>16. CASE ReplaceKeyFile(p)
  <2> DEFINE r == [me(p) EXCEPT !.key = me(p).new, !.stage = "rotated"]
  <2>1. r.stage = "rotated" /\ Set(p, r) /\ changes' = changes /\ answers' = answers
    BY <1>16, AtIsBusy DEF ReplaceKeyFile, AuditInv, Honest, IsProcess, Fields, me, KeptByVault
  <2> HIDE DEF r
  <2> QED BY <1>5, <2>1 DEF Approving
<1>17. CASE Crash(p)
  BY <1>17, SetElsewhere DEF Crash
<1> QED BY <1>2, <1>3, <1>4, <1>6, <1>7, <1>8, <1>9, <1>10, <1>11, <1>13, <1>14, <1>15, <1>16, <1>17 DEF VaultStep

Asks(p) == Lookup(p) \/ TimesOut(p) \/ Breaks(p) \/ Answers(p)
Judges(p) == Tell(p) \/ ParseRepair(p) \/ Estimate(p) \/ ParseRules(p) \/ NextItem(p) \/ Preflight(p)

LEMMA ProposalElsewhere ==
    ASSUME AuditInv, ApprovalInv, NEW p \in Procs,
           \/ Open(p) \/ Profile(p) \/ Sample(p) \/ Asks(p) \/ RecordFailure(p) \/ RecordCall(p) \/ Remember(p)
           \/ Judges(p) \/ SaveProposal(p) \/ SaveRule(p)
    PROVE  Elsewhere(p)
<1>1. CASE \E what : Answer(p, what)
  BY <1>1, AnswerElsewhere
<1>2. Busy(p) /\ IsProcess(me(p))
  BY AtIsBusy DEF Open, Profile, Sample, Asks, Lookup, TimesOut, Breaks, Answers, RecordFailure, RecordCall,
     Remember, Judges, Tell, ParseRepair, ParseRules, Estimate, NextItem, Preflight, SaveProposal, SaveRule,
     AuditInv, Honest, me
(* The file, the rules and the answers stay while the work goes on. *)
<1>3. ASSUME NEW r, Set(p, r), r.stage \notin Approving, NEW w, work' = [work EXCEPT ![p] = w],
             UNCHANGED <<file, rules, changes, answers>>
      PROVE  Elsewhere(p)
  BY <1>3 DEF Elsewhere, Added, Aged, ApprovalInv
<1>4. CASE Open(p)
  <2>1. CASE /\ Move(p, [me(p) EXCEPT !.key = Configured, !.stage = "profile"])
             /\ work' = [work EXCEPT ![p] = [NoWork EXCEPT !.opened = file]]
             /\ UNCHANGED <<file, provider, cache, rules, proposals>>
    <3> DEFINE r == [me(p) EXCEPT !.key = Configured, !.stage = "profile"]
    <3>1. r.stage = "profile" /\ Set(p, r) /\ UNCHANGED <<changes, answers>>
      BY <1>2, <2>1 DEF IsProcess, Fields, Move, KeptByVault
    <3> HIDE DEF r
    <3> QED BY <1>3, <2>1, <3>1 DEF Approving
  <2> QED BY <1>1, <1>4, <2>1 DEF Open
<1>5. CASE Profile(p)
  <2>1. CASE \E w : Advance(p, "sample", w)
    BY <1>2, <2>1, AdvanceElsewhere DEF Approving
  <2> QED BY <1>1, <1>5, <2>1 DEF Profile
<1>6. CASE Sample(p)
  <2>1. ASSUME NEW m, NEW s, NEW x \in {"lookup", "session"}, NEW e, NEW t,
               Move(p, [me(p) EXCEPT !.mapping = m, !.session = s, !.stage = x]),
               work' = [work EXCEPT ![p].examples = e, ![p].prompt = t],
               UNCHANGED <<file, rules>>
        PROVE  Elsewhere(p)
    <3> DEFINE r == [me(p) EXCEPT !.mapping = m, !.session = s, !.stage = x]
               w == [work[p] EXCEPT !.examples = e, !.prompt = t]
    <3>1. r.stage = x /\ Set(p, r) /\ UNCHANGED <<changes, answers>>
      BY <1>2, <2>1 DEF IsProcess, Fields, Move, KeptByVault
    <3>2. work' = [work EXCEPT ![p] = w]
      BY <2>1 DEF AuditInv, Shape
    <3> HIDE DEF r, w
    <3> QED BY <1>3, <2>1, <3>1, <3>2 DEF Approving
  <2> QED BY <1>1, <1>6, <2>1 DEF Sample
<1>7. CASE Asks(p)
  <2>1. \/ \E x \in {"ask", "failed"} : Stage(p, x)
        \/ \E x \in {"parse", "ask", "record"} : \E w : Advance(p, x, w)
    BY <1>7 DEF Asks, Lookup, TimesOut, Breaks, Answers
  <2> QED BY <1>2, <2>1, StageElsewhere, AdvanceElsewhere DEF Approving
<1>8. ASSUME NEW x \in {"tell", "remember", "parse"}, Set(p, [me(p) EXCEPT !.stage = x]),
             UNCHANGED <<file, rules, work, changes, answers>>
      PROVE  Elsewhere(p)
  <2> DEFINE r == [me(p) EXCEPT !.stage = x]
  <2>1. r.stage = x
    BY <1>2 DEF IsProcess, Fields
  <2>2. work' = [work EXCEPT ![p] = work[p]]
    BY <1>8 DEF AuditInv, Shape
  <2> HIDE DEF r
  <2> QED BY <1>3, <1>8, <2>1, <2>2 DEF Approving, r
<1>9. CASE RecordFailure(p) \/ RecordCall(p)
  <2>1. /\ \E x \in {"tell", "remember"} : Set(p, [me(p) EXCEPT !.stage = x])
        /\ UNCHANGED <<file, rules, work, changes, answers>>
    BY <1>9 DEF RecordFailure, RecordCall, Record, Rest, assistVars, KeptByVault
  <2> QED BY <1>8, <2>1
<1>10. CASE Remember(p)
  <2>1. CASE Move(p, [me(p) EXCEPT !.stage = "parse"]) /\ UNCHANGED <<file, provider, rules, proposals, work>>
    BY <1>8, <2>1 DEF Move, KeptByVault
  <2> QED BY <1>1, <1>10, <2>1 DEF Remember
<1>11. CASE Judges(p)
  <2>1. \/ \E what : Answer(p, what)
        \/ \E x \in {"estimate", "save rule"} : Stage(p, x)
        \/ \E w : Advance(p, "item", w)
        \/ \E texts : Move(p, RestoreTexts(p, texts)) /\ Rest
    BY <1>11 DEF Judges, Tell, ParseRepair, ParseRules, Estimate, NextItem, Preflight, DropItem
  <2> QED BY <1>1, <1>2, <2>1, StageElsewhere, AdvanceElsewhere, RestoreElsewhere DEF Approving
<1>12. CASE SaveProposal(p)
  <2>1. \E what, exit : EndWith(p, what, exit)
    BY <1>12 DEF SaveProposal, Finish
  <2>2. UNCHANGED <<work, file, rules>>
    BY <1>12 DEF SaveProposal
  <2> QED BY <2>1, <2>2, EndElsewhere
<1>13. CASE SaveRule(p)
  <2> DEFINE r == [me(p) EXCEPT !.stage = "item"]
             w == [work[p] EXCEPT !.items = Tail(work[p].items)]
             c == Candidate(p, Item(p).texts, Item(p).name)
  <2>1. r.stage = "item" /\ Set(p, r) /\ UNCHANGED <<changes, answers>>
    BY <1>2, <1>13 DEF IsProcess, Fields, SaveRule, Move, KeptByVault
  <2>2. work' = [work EXCEPT ![p] = w] /\ file' = file /\ rules' = Append(rules, c)
    BY <1>13 DEF SaveRule, AuditInv, Shape
  <2>3. Fresh(c)
    BY DEF Fresh, Candidate, IsCandidate, CandidateFields
  <2> HIDE DEF r, w, c
  <2> QED BY <2>1, <2>2, <2>3 DEF Elsewhere, Added, Aged, ApprovalInv, Approving
<1> QED BY <1>4, <1>5, <1>6, <1>7, <1>9, <1>10, <1>11, <1>12, <1>13

(* From one stage of an approval to the next: what it opened and when stay, and what it has *)
(* counted is of that version if it is still the one in place.                              *)
LEMMA ApprovalAdvances ==
    ASSUME AuditInv, ApprovalInv, NEW p \in Procs, Busy(p), me(p).stage \in Approving,
           NEW x \in Approving, NEW w,
           w.since = work[p].since, w.opened = work[p].opened,
           Set(p, [me(p) EXCEPT !.stage = x]), work' = [work EXCEPT ![p] = w],
           UNCHANGED <<file, rules, changes, answers>>,
           NEW r, r = [me(p) EXCEPT !.stage = x],
           command(p).path # "none" /\ file \in DOMAIN Content /\ Counted(me(p), work[p], file, Rule(p).name) =>
              Counted(r, w, file, Rule(p).name)
    PROVE  ApprovalInv'
<1>1. r.command = command(p) /\ r.stage = x
  BY DEF AuditInv, Honest, IsProcess, Fields, me, command
<1>2. Weighed(me(p), work[p], file, changes, rules)
  BY DEF ApprovalInv, me
<1>3. Weighed(r, w, file, changes, rules)
  BY <1>1, <1>2 DEF Weighed, Rule, command, me
<1>4. Aged(file, changes, file', changes') /\ Kept(rules, rules')
  BY DEF Aged, Kept, ApprovalInv
<1>5. (\E S : rules' \in Seq(S)) /\ \A n \in DOMAIN rules' : RuleSound(rules', n, answers')
  BY DEF ApprovalInv
<1>6. Weighed(r, w, file', changes', rules')
  BY <1>3
<1> QED BY <1>4, <1>5, <1>6, OneApproval DEF Set
LEMMA ApprovalStage ==
    ASSUME AuditInv, ApprovalInv, NEW p \in Procs, Busy(p), me(p).stage \in Approving, NEW x \in Approving,
           Stage(p, x), NEW r, r = [me(p) EXCEPT !.stage = x],
           command(p).path # "none" /\ file \in DOMAIN Content /\ Counted(me(p), work[p], file, Rule(p).name) =>
              Counted(r, work[p], file, Rule(p).name)
    PROVE  ApprovalInv'
<1>1. work' = [work EXCEPT ![p] = work[p]] /\ UNCHANGED <<file, rules, changes, answers>>
  BY DEF Stage, Move, Rest, assistVars, KeptByVault, AuditInv, Shape
<1> QED BY <1>1, ApprovalAdvances DEF Stage, Move

LEMMA ApproveKeepsWeights ==
    ASSUME AuditInv, ApprovalInv, NEW p \in Procs, Approve(p)
    PROVE  ApprovalInv'
<1>1. Busy(p) /\ IsProcess(me(p)) /\ command(p).call = "approve"
  BY AtIsBusy DEF Approve, AuditInv, Honest, me
<1>2. CASE \E what : Answer(p, what)
  BY <1>2, AnswerElsewhere, ElsewhereKeeps
<1>3. ASSUME NEW r, Set(p, r), NEW w, work' = [work EXCEPT ![p] = w], Weighed(r, w, file, changes, rules),
             UNCHANGED <<file, rules, changes, answers>>
      PROVE  ApprovalInv'
  <2>1. Aged(file, changes, file', changes') /\ Kept(rules, rules')
    BY <1>3 DEF Aged, Kept, ApprovalInv
  <2>2. (\E S : rules' \in Seq(S)) /\ \A n \in DOMAIN rules' : RuleSound(rules', n, answers')
    BY <1>3 DEF ApprovalInv
  <2>3. Weighed(r, w, file', changes', rules')
    BY <1>3
  <2> QED BY <1>3, <2>1, <2>2, <2>3, OneApproval DEF Set
<1>4. CASE command(p).request \in DOMAIN rules /\ command(p).path = "none" /\ Stage(p, "activate")
  <2> DEFINE r == [me(p) EXCEPT !.stage = "activate"]
  <2>1. r.command = command(p) /\ r.stage = "activate"
    BY <1>1 DEF IsProcess, Fields, command, me
  <2>2. Weighed(r, work[p], file, changes, rules)
    BY <1>1, <1>4, <2>1 DEF Weighed
  <2>3. work' = [work EXCEPT ![p] = work[p]] /\ Set(p, r) /\ UNCHANGED <<file, rules, changes, answers>>
    BY <1>4 DEF Stage, Move, Rest, assistVars, KeptByVault, AuditInv, Shape
  <2> HIDE DEF r
  <2> QED BY <1>3, <2>2, <2>3
<1>5. CASE /\ command(p).request \in DOMAIN rules /\ file # Gone
           /\ Advance(p, "count", [NoWork EXCEPT !.opened = file, !.since = changes])
  <2> DEFINE r == [me(p) EXCEPT !.stage = "count"]
             w == [NoWork EXCEPT !.opened = file, !.since = changes]
  <2>1. r.command = command(p) /\ r.stage = "count"
    BY <1>1 DEF IsProcess, Fields, command, me
  <2>2. w.opened = file /\ w.since = changes
    BY NewWork DEF IsWork, WorkFields
  <2>3. work' = [work EXCEPT ![p] = w] /\ Set(p, r) /\ UNCHANGED <<file, rules, changes, answers>>
    BY <1>5 DEF Advance, Move, KeptByVault
  <2> HIDE DEF r, w
  <2>4. file \in DOMAIN Content /\ changes \in Nat /\ Counted(r, w, file, rules[r.command.request].name)
    BY <1>5, <2>1, <2>2 DEF ApprovalInv, Counted
  <2>5. Weighed(r, w, file, changes, rules)
    BY <1>1, <1>5, <2>1, <2>2, <2>4 DEF Weighed
  <2> QED BY <1>3, <2>3, <2>5
<1> QED BY <1>2, <1>4, <1>5 DEF Approve

LEMMA CountRowsKeepsWeights ==
    ASSUME AuditInv, ApprovalInv, NEW p \in Procs, CountRows(p)
    PROVE  ApprovalInv'
<1>1. Busy(p) /\ IsProcess(me(p)) /\ IsWork(work[p]) /\ me(p).stage = "count" /\ me(p).stage \in Approving
  BY AtIsBusy DEF CountRows, At, AuditInv, Shape, Honest, me, Approving
<1>2. CASE Answer(p, "error")
  BY <1>2, AnswerElsewhere, ElsewhereKeeps
<1>3. CASE ~Testable(Rule(p), work[p].opened) /\ Stage(p, "activate")
  <2> DEFINE r == [me(p) EXCEPT !.stage = "activate"]
  <2>1. r.stage = "activate"
    BY <1>1 DEF IsProcess, Fields
  <2> HIDE DEF r
  <2>2. Counted(me(p), work[p], file, Rule(p).name) => Counted(r, work[p], file, Rule(p).name)
    BY <1>3, <2>1 DEF Counted, Tolerable, Testable
  <2> QED BY <1>1, <1>3, <2>2, ApprovalStage DEF r, Approving
<1>4. CASE /\ Testable(Rule(p), work[p].opened)
           /\ Advance(p, "failures", [Doing(p) EXCEPT !.rows = RowCount(file)])
  <2> DEFINE r == [me(p) EXCEPT !.stage = "failures"]
             w == [work[p] EXCEPT !.rows = RowCount(file)]
  <2>1. r.stage = "failures"
    BY <1>1 DEF IsProcess, Fields
  <2>2. w.opened = work[p].opened /\ w.since = work[p].since /\ w.rows = RowCount(file)
    BY <1>1 DEF IsWork, WorkFields
  <2>3. Set(p, r) /\ work' = [work EXCEPT ![p] = w] /\ UNCHANGED <<file, rules, changes, answers>>
    BY <1>4 DEF Advance, Move, KeptByVault, Doing
  <2> HIDE DEF r, w
  <2>4. Counted(me(p), work[p], file, Rule(p).name) => Counted(r, w, file, Rule(p).name)
    BY <1>4, <2>1, <2>2 DEF Counted, Testable
  <2> QED BY <1>1, <2>2, <2>3, <2>4, ApprovalAdvances DEF r, Approving
<1> QED BY <1>2, <1>3, <1>4 DEF CountRows, Doing

LEMMA CountFailuresKeepsWeights ==
    ASSUME AuditInv, ApprovalInv, NEW p \in Procs, CountFailures(p)
    PROVE  ApprovalInv'
<1>1. Busy(p) /\ IsProcess(me(p)) /\ IsWork(work[p]) /\ me(p).stage = "failures" /\ me(p).stage \in Approving
  BY AtIsBusy DEF CountFailures, At, AuditInv, Shape, Honest, me, Approving
<1>2. CASE Answer(p, "error")
  BY <1>2, AnswerElsewhere, ElsewhereKeeps
<1> DEFINE n == Content[file].failing[Rule(p).name]
           x == IF n = 0 THEN "activate" ELSE "examples"
           r == [me(p) EXCEPT !.stage = x]
           w == [work[p] EXCEPT !.failures = n]
<1>3. CASE Advance(p, x, w)
  <2>1. r.stage = x
    BY <1>1 DEF IsProcess, Fields
  <2>2. w.opened = work[p].opened /\ w.since = work[p].since /\ w.failures = n /\ w.rows = work[p].rows
    BY <1>1 DEF IsWork, WorkFields
  <2>3. Set(p, r) /\ work' = [work EXCEPT ![p] = w] /\ UNCHANGED <<file, rules, changes, answers>>
    BY <1>3 DEF Advance, Move, KeptByVault
  <2> HIDE DEF r, w
  <2>4. ASSUME file \in DOMAIN Content, Counted(me(p), work[p], file, Rule(p).name)
        PROVE  Counted(r, w, file, Rule(p).name)
    <3>1. /\ work[p].opened = file /\ Rule(p).name \in DOMAIN Content[file].failing
          /\ work[p].rows = RowCount(file)
      BY <1>1, <2>4 DEF Counted
    <3>2. RowCount(file) \in Nat
      BY <2>4, CountsAreNatural
    <3>3. n = 0 => Tolerable(Rule(p).name, file)
      BY <3>2 DEF Tolerable
    <3> QED BY <2>1, <2>2, <3>1, <3>3 DEF Counted
  <2>5. x \in Approving
    BY DEF Approving
  <2> HIDE DEF n, x
  <2> QED BY <1>1, <2>2, <2>3, <2>4, <2>5, ApprovalAdvances DEF r
<1> QED BY <1>2, <1>3 DEF CountFailures, Doing

LEMMA ReadExamplesKeepsWeights ==
    ASSUME AuditInv, ApprovalInv, NEW p \in Procs, ReadExamples(p)
    PROVE  ApprovalInv'
<1>1. Busy(p) /\ IsProcess(me(p)) /\ IsWork(work[p]) /\ me(p).stage = "examples" /\ me(p).stage \in Approving
  BY AtIsBusy DEF ReadExamples, At, AuditInv, Shape, Honest, me, Approving
<1>2. CASE \E what : Answer(p, what)
  BY <1>2, AnswerElsewhere, ElsewhereKeeps
<1>3. CASE (command(p).force \/ ~Dangerous(work[p].failures, work[p].rows)) /\ Stage(p, "activate")
  <2> DEFINE r == [me(p) EXCEPT !.stage = "activate"]
  <2>1. r.stage = "activate" /\ r.command = command(p)
    BY <1>1 DEF IsProcess, Fields, command, me
  <2> HIDE DEF r
  <2>2. ASSUME file \in DOMAIN Content, Counted(me(p), work[p], file, Rule(p).name)
        PROVE  Counted(r, work[p], file, Rule(p).name)
    <3> DEFINE n == Content[file].failing[Rule(p).name]
    <3>1. /\ work[p].opened = file /\ Rule(p).name \in DOMAIN Content[file].failing
          /\ work[p].rows = RowCount(file) /\ work[p].failures = n /\ n # 0
      BY <1>1, <2>2 DEF Counted
    <3>2. RowCount(file) \in Nat /\ n \in Nat
      BY <2>2, <3>1, CountsAreNatural
    <3>3. ~Dangerous(n, RowCount(file)) => 2 * n <= RowCount(file)
      <4> DEFINE size == RowCount(file)
      <4>1. size \in Nat /\ n \in Nat /\ n # 0
        BY <3>1, <3>2
      <4> HIDE DEF n, size
      <4>2. ~Dangerous(n, size) => 2 * n <= size
        BY <4>1 DEF Dangerous
      <4> QED BY <4>2 DEF n, size
    <3> QED BY <1>3, <2>1, <3>1, <3>3 DEF Counted, Tolerable
  <2> QED BY <1>1, <1>3, <2>2, ApprovalStage DEF r, Approving
<1> QED BY <1>2, <1>3 DEF ReadExamples, Doing

(* The rule is enabled, by an approval that is told of; the version it rests on is the one that *)
(* was counted, if the approval was given a path, not forced and not overtaken by a change.      *)
LEMMA ActivateKeepsWeights ==
    ASSUME AuditInv, ApprovalInv, NEW p \in Procs, Activate(p)
    PROVE  ApprovalInv'
<1> DEFINE m == command(p).request
           basis == IF command(p).path = "none" \/ command(p).force \/ changes > Doing(p).since
                    THEN "word" ELSE Doing(p).opened
           c == [rules[m] EXCEPT !.enabled = TRUE, !.basis = basis]
           a == [command |-> command(p), what |-> "done", exit |-> ExitAssist(command(p), "done"),
                 session |-> me(p).session, restored |-> me(p).restored]
<1>1. Busy(p) /\ me(p).stage = "activate" /\ Weighed(me(p), work[p], file, changes, rules)
  BY AtIsBusy DEF Activate, At, ApprovalInv, me
<1>2. /\ command(p).call = "approve" /\ m \in DOMAIN rules
      /\ command(p).path # "none" =>
            /\ work[p].since \in Nat /\ work[p].since <= changes
            /\ changes = work[p].since => file \in DOMAIN Content /\ Counted(me(p), work[p], file, rules[m].name)
  BY <1>1 DEF Weighed, command, me, Approving
<1>3. PICK S : rules \in Seq(S)
  BY DEF ApprovalInv
<1>4. IsCandidate(rules[m])
  BY <1>2 DEF ApprovalInv, RuleSound
<1>5. IsCandidate(c) /\ c.name = rules[m].name /\ c.basis = basis
  BY <1>4 DEF IsCandidate, CandidateFields
<1>6. rules' = [rules EXCEPT ![m] = c]
  <2>1. rules' = [rules EXCEPT ![m].enabled = TRUE, ![m].basis = basis]
    BY DEF Activate
  <2> QED BY <1>2, <1>3, <2>1
<1>7. Approval(a, m)
  BY <1>2 DEF Approval, ExitAssist
<1>8. answers' = Append(answers, a) /\ Set(p, Idle) /\ UNCHANGED <<file, work, changes>>
  BY DEF Activate, Finish, EndWith, KeptByVault
<1>9. basis \notin {"none", "word"} => Tolerable(rules[m].name, basis)
  <2>1. CASE command(p).path = "none" \/ command(p).force \/ changes > work[p].since
    BY <2>1 DEF Doing
  <2>2. CASE ~(command(p).path = "none" \/ command(p).force \/ changes > work[p].since)
    <3>1. changes = work[p].since
      BY <1>2, <2>2 DEF ApprovalInv
    <3>2. work[p].opened = file /\ Tolerable(rules[m].name, file)
      BY <1>1, <1>2, <2>2, <3>1 DEF Counted, command, me
    <3> QED BY <2>2, <3>2 DEF Doing
  <2> QED BY <2>1, <2>2
<1>10. Approved(m, answers')
  <2>1. PICK T : answers \in Seq(T)
    BY DEF AuditInv, Shape
  <2> HIDE DEF a, m
  <2>2. answers \in Seq(T \cup {a})
    BY <2>1
  <2>3. Len(answers) + 1 \in DOMAIN answers' /\ answers'[Len(answers) + 1] = a
    BY <1>8, <2>2
  <2> QED BY <1>7, <2>3 DEF Approved
<1> HIDE DEF c, a, m, basis
<1>11. rules' \in Seq(S \cup {c}) /\ DOMAIN rules' = DOMAIN rules /\ rules'[m] = c
       /\ \A n \in DOMAIN rules : n # m => rules'[n] = rules[n]
  <2>1. rules \in Seq(S \cup {c})
    BY <1>3
  <2> QED BY <1>2, <1>6, <2>1
<1>12. Kept(rules, rules')
  BY <1>5, <1>11 DEF Kept
<1>13. \A n \in DOMAIN rules' : RuleSound(rules', n, answers')
  <2> SUFFICES ASSUME NEW n \in DOMAIN rules' PROVE RuleSound(rules', n, answers')
    OBVIOUS
  <2>1. CASE n = m
    BY <1>5, <1>9, <1>10, <1>11, <2>1 DEF RuleSound
  <2>2. CASE n # m
    <3>1. RuleSound(rules, n, answers') /\ rules'[n] = rules[n]
      BY <1>8, <1>11, <2>2, ToldStays
    <3> QED BY <3>1 DEF RuleSound
  <2> QED BY <2>1, <2>2
<1>14. Aged(file, changes, file', changes') /\ proc' = [proc EXCEPT ![p] = Idle]
       /\ work' = [work EXCEPT ![p] = work[p]] /\ file' = file
  BY <1>8 DEF Aged, ApprovalInv, Set, AuditInv, Shape
<1> QED BY <1>11, <1>12, <1>13, <1>14, OneApproval

LEMMA ApprovalStarts == Init => ApprovalInv
<1> SUFFICES ASSUME Init PROVE ApprovalInv
  OBVIOUS
<1>1. file \in DOMAIN Content \cup {Gone} /\ changes \in Nat /\ rules = <<>> /\ \A p \in Procs : ~Busy(p)
  BY ContentAssumption DEF Init, VaultInit, Busy
<1> QED BY <1>1 DEF ApprovalInv
LEMMA ApprovalKept == AuditInv /\ ApprovalInv /\ [Next]_vars => ApprovalInv'
<1> SUFFICES ASSUME AuditInv, ApprovalInv, [Next]_vars PROVE ApprovalInv'
  OBVIOUS
<1>1. ASSUME NEW p \in Procs, \E c \in AssistCommands : Begin(p, c), Rest
      PROVE  ApprovalInv'
  <2>1. PICK r : Set(p, r) /\ r.stage = "bind" /\ UNCHANGED <<changes, answers>>
    <3>1. PICK c \in AssistCommands : Begin(p, c)
      BY <1>1
    <3> DEFINE r == [command |-> c, stage |-> "bind", key |-> NoKey, new |-> NoKey, session |-> NoSession,
                     mapping |-> <<>>, left |-> <<>>, texts |-> <<>>, restored |-> <<>>]
    <3>2. Set(p, r) /\ r.stage = "bind" /\ UNCHANGED <<changes, answers>>
      BY <3>1 DEF Begin, KeptByVault
    <3> HIDE DEF r
    <3> QED BY <3>2
  <2> QED BY <1>1, <2>1, SetElsewhere, ElsewhereKeeps DEF Approving
<1>2. ASSUME NEW p \in Procs, Step(p)
      PROVE  ApprovalInv'
  BY <1>1, <1>2, VaultElsewhere, ProposalElsewhere, ElsewhereKeeps, ApproveKeepsWeights, CountRowsKeepsWeights,
     CountFailuresKeepsWeights, ReadExamplesKeepsWeights, ActivateKeepsWeights DEF Step, Asks, Judges
<1>3. ASSUME NEW v \in Later, Edit(v)
      PROVE  ApprovalInv'
  <2>1. UNCHANGED <<proc, work, rules, answers>> /\ file' = v /\ changes' = changes + 1
    BY <1>3 DEF Edit
  <2>2. Aged(file, changes, file', changes') /\ Kept(rules, rules')
    BY <2>1 DEF Aged, Kept, ApprovalInv
  <2>3. \A p \in Procs : Busy(p) => Weighed(proc[p], work[p], file', changes', rules')
    BY <2>2, WeighedStays DEF ApprovalInv
  <2>4. file' \in DOMAIN Content \cup {Gone} /\ changes' \in Nat
    BY <2>1, ContentAssumption DEF ApprovalInv
  <2> QED BY <2>1, <2>3, <2>4 DEF ApprovalInv, Busy
<1>4. CASE UNCHANGED vars
  BY <1>4 DEF vars, vaultVars, assistVars, ApprovalInv, Busy
<1> QED BY <1>2, <1>3, <1>4 DEF Next

(* RuleApprovalService.approve: only an approval enables a rule, and one that was given the    *)
(* data, was not forced and met no change of them has enabled a rule that at most half of the  *)
(* rows break, whatever other proposals, approvals and vault commands do in between.           *)
THEOREM DangerousNeedForce == Spec => []DangerousRulesNeedForce
<1>1. Init => AuditInv /\ ApprovalInv
  BY AuditStarts, ApprovalStarts
<1>2. (AuditInv /\ ApprovalInv) /\ [Next]_vars => (AuditInv /\ ApprovalInv)'
  BY AuditKept, ApprovalKept
<1>3. AuditInv /\ ApprovalInv => DangerousRulesNeedForce
  BY DEF ApprovalInv, RuleSound, Approved, Approval, Tolerable, Testable, DangerousRulesNeedForce
<1> QED BY <1>1, <1>2, <1>3, PTL DEF Spec
=============================================================================
