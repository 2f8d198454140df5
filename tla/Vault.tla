------------------------------- MODULE Vault -------------------------------
(***************************************************************************)
(* The PII vault: the mappings that redaction produces, stored encrypted   *)
(* under the key a process finds when it binds its vault, and the commands *)
(* of the CLI, the API, the web page and the MCP server that restore a     *)
(* text, show, delete or purge sessions and rotate the key. Every          *)
(* transaction of the store and the replacement of the key file is a step. *)
(*                                                                         *)
(* A text is a sequence of tokens: a word, which is plain or has the kind  *)
(* of one of the patterns, or a mask. Encryption is abstracted to the key: *)
(* whoever has the row's key reads its payload, nobody else does.          *)
(***************************************************************************)
EXTENDS SequencesExt

CONSTANTS
    Procs,           \* processes that run commands
    NoKey, DevKey,   \* no key is configured; the built-in key then in use
    EnvKeys,         \* what DATASENTRY_ENCRYPTION_KEY may be, NoKey if unset
    RandomKeys,      \* the materials token_urlsafe gives, in order
    KeyFiles,        \* what the key file may hold in the beginning
    InitialSessions, \* and what pii_mappings may: sets of mappings with their day
    VaultCommands,   \* see Bind
    Today,           \* the day on which the commands run
    MaxCommands, MaxChanges    \* bounds of the model

ASSUME BoundsAssumption ==
    IsFiniteSet(Procs) /\ Today \in Nat /\ MaxCommands \in Nat /\ MaxChanges \in Nat
(* A new key is never "no key". *)
ASSUME MaterialAssumption ==
    /\ RandomKeys \in Seq(ToSet(RandomKeys) \ {NoKey})
    /\ \A c \in VaultCommands : c.call = "rotate" => c.material # NoKey

VARIABLES
    sessions,    \* table pii_mappings
    env,         \* the key in the environment of all processes
    keyFile,     \* vault.key
    issued,      \* how many of RandomKeys have been given out
    invocations, \* table llm_invocations, what its rows say
    proc,        \* process |-> the command it runs, or Idle
    answers,     \* the commands that ended
    changes,     \* crashes and edits so far
    raced        \* a rotation has met another command or a crash
vaultVars == <<sessions, env, keyFile, issued, invocations, proc, answers, changes, raced>>

Idle == [stage |-> "idle"]
NoSession == {}
NoPrompt == [task |-> "none"]

----------------------------------------------------------------------------
(* Redaction. A mapping lists its kinds in the order in which they were met; a *)
(* bucket lists the originals, and a mask is a kind and a place in its bucket. *)
Plain == "plain"
Token(kind, word) == [kind |-> kind, word |-> word, index |-> 0]
MaskOf(kind, index) == [kind |-> kind, word |-> "masked", index |-> index]
IsMask(token) == token.word = "masked"
Bucket(mapping, kind) ==
    LET known == {i \in DOMAIN mapping : mapping[i].kind = kind}
    IN  IF known = {} THEN <<>> ELSE mapping[CHOOSE i \in known : TRUE].bucket
Noted(mapping, token) ==
    LET bucket == Bucket(mapping, token.kind)
    IN  CASE token.kind = Plain \/ token.word \in ToSet(bucket) -> mapping
          [] token.kind # Plain /\ bucket = <<>> ->
                 Append(mapping, [kind |-> token.kind, bucket |-> <<token.word>>])
          [] OTHER -> [i \in DOMAIN mapping |->
                          IF mapping[i].kind = token.kind
                          THEN [mapping[i] EXCEPT !.bucket = Append(@, token.word)] ELSE mapping[i]]
MappingOf(texts) ==
    LET tokens == FlattenSeq(texts)
        upTo[n \in 0 .. Len(tokens)] == IF n = 0 THEN <<>> ELSE Noted(upTo[n - 1], tokens[n])
    IN  upTo[Len(tokens)]
(* What a mapping looks like: one bucket for a kind, and none is empty. *)
IsMapping(mapping) ==
    /\ mapping \in Seq(ToSet(mapping))
    /\ \A e \in ToSet(mapping) : /\ e = [kind |-> e.kind, bucket |-> e.bucket]
                                 /\ e.bucket \in Seq(ToSet(e.bucket)) \ {<<>>}
    /\ \A i, j \in DOMAIN mapping : mapping[i].kind = mapping[j].kind => i = j
Place(bucket, word) == CHOOSE n \in DOMAIN bucket : bucket[n] = word
redact_OneBased(text, mapping) ==
    [i \in DOMAIN text |->
        IF text[i].kind = Plain THEN text[i]
        ELSE MaskOf(text[i].kind, Place(Bucket(mapping, text[i].kind), text[i].word))]
(* Buckets only grow, so the mask a value gets is its place in the final mapping. *)
redact(text, mapping) ==
    [i \in DOMAIN text |->
        IF text[i].kind = Plain THEN text[i]
        ELSE MaskOf(text[i].kind, Place(Bucket(mapping, text[i].kind), text[i].word) - 1)]
restore(text, mapping) ==
    [i \in DOMAIN text |->
        IF IsMask(text[i]) /\ text[i].index < Len(Bucket(mapping, text[i].kind))
        THEN Token(text[i].kind, Bucket(mapping, text[i].kind)[text[i].index + 1]) ELSE text[i]]
(* The id is derived from the mapping with its keys sorted, the payload keeps their order. *)
SessionId(mapping) == ToSet(mapping)
(* The table has a mapping for each id. *)
ASSUME SessionsAssumption ==
    \A stored \in InitialSessions :
        /\ IsFiniteSet(stored)
        /\ \A m \in stored : IsMapping(m.mapping) /\ m.day \in 0 .. Today
        /\ \A m, n \in stored : SessionId(m.mapping) = SessionId(n.mapping) => m = n

----------------------------------------------------------------------------
(* A process reads the keys when it binds its vault and keeps them for the command. *)
me(p) == proc[p]
command(p) == proc[p].command
At(p, stage) == proc[p].stage = stage
Set(p, record) == proc' = [proc EXCEPT ![p] = record]
Configured == IF env # NoKey THEN env ELSE keyFile
Effective(key) == IF key = NoKey THEN DevKey ELSE key
Key(p) == Effective(me(p).key)
RowOf(id) == {r \in sessions : r.id = id}
Put(row) == {r \in sessions : r.id # row.id} \cup {row}
Invocation(task, status, session, prompt) ==
    [task |-> task, status |-> status, session |-> session, prompt |-> prompt]

KeptByVault == UNCHANGED <<env, changes>>
Tables == <<sessions, keyFile, issued, invocations>>
Move(p, record) == Set(p, record) /\ KeptByVault /\ UNCHANGED <<Tables, answers, raced>>
Rotating(p) == proc[p] # Idle /\ proc[p].command.call = "rotate"
Active == {p \in Procs : proc[p] # Idle}
Begin(p, c) ==
    /\ me(p) = Idle /\ Len(answers) + Cardinality(Active) < MaxCommands
    /\ Set(p, [command |-> c, stage |-> "bind", key |-> NoKey, new |-> NoKey, session |-> NoSession, mapping |-> <<>>,
                left |-> <<>>, texts |-> <<>>, restored |-> <<>>])
    /\ raced' = (raced \/ (\E q \in Active : Rotating(q)) \/ (c.call = "rotate" /\ Active # {}))
    /\ KeptByVault /\ UNCHANGED <<Tables, answers>>

(* What the caller is told. The web page always shows a page, MCP answers ok or not. *)
ExitVault(c, what) ==
    CASE c.face = "ui" -> "page"
      [] c.face = "mcp" -> IF what = "done" THEN "ok" ELSE "not ok"
      [] c.face = "api" -> (CASE what = "done" -> IF c.call = "delete" THEN "204" ELSE "200"
                              [] what = "missing" -> "404" [] OTHER -> "503")
      [] OTHER -> IF what = "done" \/ (what = "missing" /\ c.call = "delete") THEN "ok"
                  ELSE IF what = "missing" THEN "error" ELSE "config"
EndWith(p, what, exit) ==
    /\ answers' = Append(answers, [command |-> command(p), what |-> what, exit |-> exit,
                                   session |-> me(p).session, restored |-> me(p).restored])
    /\ Set(p, Idle) /\ KeptByVault /\ UNCHANGED raced
End(p, what) == EndWith(p, what, ExitVault(command(p), what))
Refuse(p, what) == End(p, what) /\ UNCHANGED Tables

(* delete and purge need no key; the other commands of a server refuse without one. *)
Bind(p) ==
    /\ At(p, "bind") /\ command(p).call \in {"restore", "summary", "delete", "purge", "rotate"}
    /\ IF Configured = NoKey /\ command(p).face # "cli" /\ command(p).call \notin {"delete", "purge"}
       THEN Refuse(p, "disabled")
       ELSE Move(p, [me(p) EXCEPT !.key = Configured, !.session = command(p).session, !.texts = command(p).texts,
              !.stage = IF command(p).call \in {"restore", "summary"} THEN "load" ELSE command(p).call])

(* save_mapping: an equal mapping is kept, an unreadable one is written anew. *)
SaveMapping(p) ==
    /\ At(p, "session")
    /\ LET readable == {r \in RowOf(me(p).session) : r.key = Key(p)}
       IN  \/ \E r \in readable : r.payload # me(p).mapping /\ EndWith(p, "conflict", "error") /\ UNCHANGED Tables
           \/ \E r \in readable : r.payload = me(p).mapping /\ Move(p, [me(p) EXCEPT !.stage = "lookup"])
           \/ readable = {} /\ Move(p, [me(p) EXCEPT !.stage = "save session"])
Row(p) == [id |-> me(p).session, payload |-> me(p).mapping, key |-> Key(p), created |-> Today]
WriteMapping_Inserts(p) ==
    /\ At(p, "save session")
    /\ sessions' = sessions \cup {Row(p)}
    /\ Set(p, [me(p) EXCEPT !.stage = "lookup"])
    /\ KeptByVault /\ UNCHANGED <<keyFile, issued, invocations, answers, raced>>
WriteMapping(p) ==
    /\ At(p, "save session")
    /\ sessions' = Put(Row(p))
    /\ Set(p, [me(p) EXCEPT !.stage = "lookup"])
    /\ KeptByVault /\ UNCHANGED <<keyFile, issued, invocations, answers, raced>>

(* restore_text, a text at a time: load_mapping, then the audit of what was restored. *)
LoadMapping(p) ==
    /\ At(p, "load")
    /\ LET row == RowOf(me(p).session)
           readable == {r \in row : r.key = Key(p)}
       IN  \/ row = {} /\ Refuse(p, "missing")
           \/ row # {} /\ readable = {} /\ Refuse(p, "key")
           \/ readable # {} /\ command(p).call = "summary" /\ Refuse(p, "done")
           \/ /\ command(p).call # "summary"
              /\ \E r \in readable : Move(p, [me(p) EXCEPT !.mapping = r.payload, !.stage = "audit"])
AuditRestore(p) ==
    /\ At(p, "audit")
    /\ invocations' = invocations \cup {Invocation("pii_restore", "ok", me(p).session, NoPrompt)}
    /\ Set(p, [me(p) EXCEPT !.restored = Append(@, restore(Head(me(p).texts), me(p).mapping)),
                            !.texts = Tail(@), !.stage = IF Len(me(p).texts) > 1 THEN "load" ELSE "restored"])
    /\ KeptByVault /\ UNCHANGED <<sessions, keyFile, issued, answers, raced>>
Show(p) == At(p, "restored") /\ command(p).call = "restore" /\ Refuse(p, "done")

Delete(p) ==
    /\ At(p, "delete")
    /\ sessions' = sessions \ RowOf(me(p).session)
    /\ End(p, IF RowOf(me(p).session) = {} THEN "missing" ELSE "done")
    /\ UNCHANGED <<keyFile, issued, invocations>>
(* The list of old sessions, then one DELETE for each of them. *)
ListOld(p) ==
    /\ At(p, "purge")
    /\ Move(p, [me(p) EXCEPT !.stage = "drop",
                    !.left = SetToSeq({r.id : r \in {o \in sessions : o.created + command(p).days < Today}})])
DropOld(p) ==
    /\ At(p, "drop")
    /\ IF me(p).left = <<>> THEN Refuse(p, "done")
       ELSE /\ sessions' = sessions \ RowOf(Head(me(p).left))
            /\ Set(p, [me(p) EXCEPT !.left = Tail(@)])
            /\ KeptByVault /\ UNCHANGED <<keyFile, issued, invocations, answers, raced>>

(* rotate_key: the rows as they are now, one REPLACE each, the key file, the audit. *)
Random == "random"
ASSUME KeysAssumption ==
    DevKey # NoKey /\ Random \notin EnvKeys \cup KeyFiles \cup ToSet(RandomKeys) \cup {NoKey, DevKey}
StartRotation_FirstRow(p) ==
    /\ At(p, "rotate")
    /\ LET random == command(p).material = Random
       IN  /\ random => issued < Len(RandomKeys)
           /\ issued' = IF random THEN issued + 1 ELSE issued
           /\ Set(p, [me(p) EXCEPT !.stage = "encrypt",
                          !.left = SubSeq(SetToSeq(sessions), 1, IF sessions = {} THEN 0 ELSE 1),
                          !.new = IF random THEN RandomKeys[issued + 1] ELSE command(p).material])
    /\ KeptByVault /\ UNCHANGED <<sessions, keyFile, invocations, answers, raced>>
StartRotation(p) ==
    /\ At(p, "rotate")
    /\ LET random == command(p).material = Random
       IN  /\ random => issued < Len(RandomKeys)
           /\ issued' = IF random THEN issued + 1 ELSE issued
           /\ Set(p, [me(p) EXCEPT !.stage = "encrypt", !.left = SetToSeq(sessions),
                          !.new = IF random THEN RandomKeys[issued + 1] ELSE command(p).material])
    /\ KeptByVault /\ UNCHANGED <<sessions, keyFile, invocations, answers, raced>>
EncryptAnew(p) ==
    /\ At(p, "encrypt") /\ me(p).left # <<>>
    /\ LET row == Head(me(p).left)
       IN  \/ row.key # Key(p) /\ Refuse(p, "key")
           \/ /\ row.key = Key(p)
              /\ sessions' = Put([row EXCEPT !.key = me(p).new, !.created = Today])
              /\ Set(p, [me(p) EXCEPT !.left = Tail(@)])
              /\ KeptByVault /\ UNCHANGED <<keyFile, issued, invocations, answers, raced>>
ReplaceKeyFile(p) ==
    /\ At(p, "encrypt") /\ me(p).left = <<>>
    /\ keyFile' = me(p).new
    /\ Set(p, [me(p) EXCEPT !.key = me(p).new, !.stage = "rotated"])
    /\ KeptByVault /\ UNCHANGED <<sessions, issued, invocations, answers, raced>>
AuditRotation(p) ==
    /\ At(p, "rotated")
    /\ invocations' = invocations \cup {Invocation("pii_key_rotate", "ok", NoSession, NoPrompt)}
    /\ End(p, "done")
    /\ UNCHANGED <<sessions, keyFile, issued>>

Crash(p) ==
    /\ changes < MaxChanges /\ me(p) # Idle
    /\ answers' = Append(answers, [command |-> command(p), what |-> "killed", exit |-> "killed",
                                   session |-> me(p).session, restored |-> <<>>])
    /\ Set(p, Idle) /\ changes' = changes + 1 /\ raced' = (raced \/ Rotating(p))
    /\ UNCHANGED <<Tables, env>>

VaultInit ==
    /\ env \in EnvKeys /\ keyFile \in KeyFiles /\ issued = 0
    /\ \E stored \in InitialSessions :
          sessions = {[id |-> SessionId(m.mapping), payload |-> m.mapping, created |-> m.day,
                       key |-> Effective(Configured)] : m \in stored}
    /\ invocations = {} /\ answers = <<>> /\ changes = 0 /\ raced = FALSE
    /\ proc = [p \in Procs |-> Idle]
VaultStep(p) ==
    \/ \E c \in VaultCommands : Begin(p, c)
    \/ Bind(p) \/ SaveMapping(p) \/ WriteMapping(p) \/ LoadMapping(p) \/ AuditRestore(p) \/ Show(p)
    \/ Delete(p) \/ ListOld(p) \/ DropOld(p)
    \/ StartRotation(p) \/ EncryptAnew(p) \/ ReplaceKeyFile(p) \/ AuditRotation(p)
    \/ Crash(p)
=============================================================================
