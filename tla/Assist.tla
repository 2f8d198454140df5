------------------------------- MODULE Assist -------------------------------
(***************************************************************************)
(* Rules and repairs proposed by a language model: profile and sample the  *)
(* file, redact, save the mapping in the vault, ask the model or the cache *)
(* of its replies, check the reply, restore its texts and store the        *)
(* candidates; and the approval of a rule. Vault commands of other         *)
(* processes and edits of the file come in between any two steps.          *)
(*                                                                         *)
(* A version of the file gives its columns, the number of rows each repair *)
(* operation would change and the number of rows that break each           *)
(* condition. A reply is what the model may answer.                        *)
(***************************************************************************)
EXTENDS Vault

CONSTANTS
    Gone, Content,     \* version |-> what the file holds
    InitialFile, Later,
    Issues,            \* the issues of the store that repairs are asked for
    Providers,         \* what DATASENTRY_LLM_PROVIDER may be
    MaxRetries,        \* of a provider that times out
    Replies,           \* task |-> the replies a model may give
    AssistCommands

Texts(cells) ==
    {text \in ToSet(cells) : /\ text \in Seq(ToSet(text))
                             /\ \A t \in ToSet(text) : t = Token(t.kind, t.word) /\ ~IsMask(t)}
ASSUME CommandsAssumption == \A c \in AssistCommands : c.call \in {"rule", "repair", "approve"}
(* A version has columns, each a list of cells without anything that looks like a mask, and *)
(* counts of the rows that break a condition. What a model says of a rule is a list of texts. *)
ASSUME ContentAssumption ==
    /\ InitialFile \cup Later \subseteq DOMAIN Content \cup {Gone}
    /\ \A v \in DOMAIN Content :
          /\ Content[v].columns \in Seq(ToSet(Content[v].columns)) \ {<<>>}
          /\ \A c \in ToSet(Content[v].columns) : Content[v].cells[c] \in Seq(Texts(Content[v].cells[c]))
          /\ Content[v].failing \in [DOMAIN Content[v].failing -> Nat]
ASSUME RepliesAssumption ==
    \A reply \in Replies.rule : reply.shape = "ok" =>
        /\ reply.items \in Seq(ToSet(reply.items))
        /\ \A item \in ToSet(reply.items) : item.texts \in Seq(ToSet(item.texts)) \ {<<>>}

VARIABLES
    file,       \* version or Gone
    provider,   \* "null", "openai" or "ollama"
    cache,      \* table llm_cache
    rules,      \* table rules: the candidates in rowid order
    proposals,  \* table repair_proposals
    work        \* process |-> what its proposal or approval has come to
assistVars == <<file, provider, cache, rules, proposals, work>>
vars == <<vaultVars, assistVars>>

Nothing == [shape |-> "nothing"]
NoWork == [opened |-> Gone, stats |-> <<>>, tops |-> <<>>, examples |-> <<>>, prompt |-> NoPrompt,
           attempts |-> 0, reply |-> Nothing, items |-> <<>>,
           since |-> 0, rows |-> 0, failures |-> 0]

----------------------------------------------------------------------------
(* The profile and the prompt. *)
Columns(v) == Content[v].columns
Null == <<>>
Values(v, c) == ToSet(Content[v].cells[c]) \ {Null}
Count(v, c, text) == Cardinality({k \in DOMAIN Content[v].cells[c] : Content[v].cells[c][k] = text})
RowCount(v) == Len(Content[v].cells[Columns(v)[1]])
(* Ties among the most frequent values come in any order. *)
TopCategories(v, c) ==
    IF Cardinality(Values(v, c)) \notin 2 .. 1000 THEN {<<>>}
    ELSE {SubSeq(s, 1, Min({10, Len(s)})) :
            s \in {q \in SetToSeqs(ToSet(Content[v].cells[c])) :
                      \A i, j \in DOMAIN q : i < j => Count(v, c, q[i]) >= Count(v, c, q[j])}}
Statistics(v) ==
    [c \in ToSet(Columns(v)) |-> <<Count(v, c, Null), Cardinality(Values(v, c)), RowCount(v)>>]
(* _fill_examples: the first three different values of the first five rows. *)
Examples(v, c) ==
    LET cells == Content[v].cells[c]
        found[n \in 0 .. Len(cells)] ==
            IF n = 0 THEN <<>>
            ELSE IF n > 5 \/ cells[n] = Null \/ cells[n] \in ToSet(found[n - 1]) \/ Len(found[n - 1]) = 3
            THEN found[n - 1] ELSE Append(found[n - 1], cells[n])
    IN  found[Len(cells)]
(* mask_profile goes through a column's examples and then its categories. *)
Shown(v, tops) ==
    [k \in DOMAIN Columns(v) |->
        LET examples == Examples(v, Columns(v)[k])
        IN  IF examples = <<>> THEN <<>> ELSE examples \o tops[Columns(v)[k]]]
Prompt(c, stats, examples, mapping) ==
    [task |-> c.call, request |-> c.request, stats |-> stats,
     examples |-> [k \in DOMAIN examples |-> [i \in DOMAIN examples[k] |-> redact(examples[k][i], mapping)]]]

(* The operations a detector's issues may be repaired with. *)
ContextOps == [leading_or_trailing_whitespace |-> "trim_whitespace", inconsistent_case |-> "normalize_case",
               suspicious_missing_token |-> "replace_missing_token",
               invalid_date |-> "set_null", impossible_date |-> "set_null",
               iqr_outlier |-> "clip_value", percentile_outlier |-> "clip_value", modified_zscore |-> "clip_value"]
AllowedOperations(issue) == {ContextOps[d] : d \in issue.detectors \cap DOMAIN ContextOps}
ValidParameters(reply) ==
    IF reply.operation = "clip_value" THEN reply.parameters = "bounds" ELSE reply.parameters = "none"

----------------------------------------------------------------------------
Proposing(p) == command(p).call \in {"rule", "repair"}
Doing(p) == work[p]
Rest == UNCHANGED assistVars
Advance(p, stage, done) ==
    /\ Move(p, [me(p) EXCEPT !.stage = stage])
    /\ work' = [work EXCEPT ![p] = done]
    /\ UNCHANGED <<file, provider, cache, rules, proposals>>
Stage(p, stage) == Move(p, [me(p) EXCEPT !.stage = stage]) /\ Rest

(* A proposal that is refused or rejected is no error, except to main() and repair propose. *)
ExitAssist(c, what) ==
    IF what \in {"done", "rejected", "no operation"} THEN "ok"
    ELSE CASE c.call = "rule" -> "error"
           [] c.call = "repair" -> IF what \in {"not configured", "llm", "missing"} THEN "config" ELSE "error"
           [] c.call = "approve" -> IF what = "missing" THEN "source" ELSE "error"
Finish(p, what) == EndWith(p, what, ExitAssist(command(p), what)) /\ UNCHANGED Tables
Answer(p, what) == Finish(p, what) /\ Rest

(* The service binds its vault before anything else; the issue is looked up, the file opened. *)
Open(p) ==
    /\ At(p, "bind") /\ Proposing(p)
    /\ LET issue == {i \in Issues : i.id = command(p).request}
       IN  CASE provider = "null" -> Answer(p, "not configured")
             [] provider # "null" /\ command(p).call = "repair" /\ issue = {} -> Answer(p, "missing")
             [] provider # "null" /\ command(p).call = "repair" /\ issue # {}
                  /\ (\A i \in issue : AllowedOperations(i) = {}) -> Answer(p, "no operation")
             [] OTHER -> IF file = Gone THEN Answer(p, "error")
                         ELSE /\ Move(p, [me(p) EXCEPT !.key = Configured, !.stage = "profile"])
                              /\ work' = [work EXCEPT ![p] = [NoWork EXCEPT !.opened = file]]
                              /\ UNCHANGED <<file, provider, cache, rules, proposals>>
Readable(p) == file # Gone /\ Columns(file) = Columns(Doing(p).opened)
Profile(p) ==
    /\ At(p, "profile")
    /\ IF ~Readable(p) THEN Answer(p, "error")
       ELSE \E tops \in [ToSet(Columns(file)) -> UNION {TopCategories(file, c) : c \in ToSet(Columns(file))}] :
              /\ \A c \in DOMAIN tops : tops[c] \in TopCategories(file, c)
              /\ Advance(p, "sample", [Doing(p) EXCEPT !.stats = Statistics(file), !.tops = tops])
(* The examples come from another read of the file than the profile. *)
Sample(p) ==
    /\ At(p, "sample")
    /\ IF ~Readable(p) THEN Answer(p, "error")
       ELSE LET examples == [k \in DOMAIN Columns(file) |-> Examples(file, Columns(file)[k])]
                mapping  == MappingOf(FlattenSeq(Shown(file, Doing(p).tops)))
            IN  /\ Move(p, [me(p) EXCEPT !.mapping = mapping, !.session = SessionId(mapping),
                              !.stage = IF mapping = <<>> THEN "lookup" ELSE "session"])
                /\ work' = [work EXCEPT ![p].examples = examples,
                       ![p].prompt = Prompt(command(p), Doing(p).stats, examples, mapping)]
                /\ UNCHANGED <<file, provider, cache, rules, proposals>>

----------------------------------------------------------------------------
(* The cache is asked first; what is cached is used without an invocation. *)
Lookup(p) ==
    /\ At(p, "lookup")
    /\ LET cached == {e \in cache : e.prompt = Doing(p).prompt}
       IN  IF cached = {} THEN Stage(p, "ask")
           ELSE \E e \in cached : Advance(p, "parse", [Doing(p) EXCEPT !.reply = e.reply])
(* _post_with_retry: only timeouts are tried again. Any LLMError leaves a failed invocation. *)
TimesOut(p) ==
    /\ At(p, "ask")
    /\ IF Doing(p).attempts < MaxRetries
       THEN Advance(p, "ask", [Doing(p) EXCEPT !.attempts = @ + 1]) ELSE Stage(p, "failed")
Breaks(p) == At(p, "ask") /\ Stage(p, "failed")
Answers_OnlyFailuresAudited(p) ==
    /\ At(p, "ask")
    /\ \E reply \in Replies[command(p).call] :
          /\ reply = Nothing => provider = "openai"
          /\ Advance(p, "remember", [Doing(p) EXCEPT !.reply = reply])
Answers(p) ==
    /\ At(p, "ask")
    /\ \E reply \in Replies[command(p).call] :
          /\ reply = Nothing => provider = "openai"
          /\ Advance(p, "record", [Doing(p) EXCEPT !.reply = reply])
Record(p, status, stage) ==
    /\ invocations' = invocations \cup {Invocation(command(p).call, status, me(p).session, Doing(p).prompt)}
    /\ Set(p, [me(p) EXCEPT !.stage = stage])
    /\ KeptByVault /\ UNCHANGED <<sessions, keyFile, issued, answers, raced>> /\ Rest
RecordFailure(p) == At(p, "failed") /\ Record(p, "failed", "tell")
Tell(p) == At(p, "tell") /\ Answer(p, "llm")
RecordCall(p) == At(p, "record") /\ Record(p, "ok", "remember")
(* A reply is cached for ever, whether or not it will be accepted; one without a text cannot be. *)
Remember(p) ==
    /\ At(p, "remember")
    /\ IF Doing(p).reply = Nothing THEN Answer(p, "error")
       ELSE /\ cache' = {e \in cache : e.prompt # Doing(p).prompt}
                         \cup {[prompt |-> Doing(p).prompt, reply |-> Doing(p).reply]}
            /\ Move(p, [me(p) EXCEPT !.stage = "parse"])
            /\ UNCHANGED <<file, provider, rules, proposals, work>>

----------------------------------------------------------------------------
(* A repair: the operation and its parameters, the rows it would change, the rationale. *)
RestoreTexts(p, texts) ==
    IF me(p).session = NoSession THEN [me(p) EXCEPT !.restored = texts, !.stage = "restored"]
    ELSE [me(p) EXCEPT !.restored = <<>>, !.texts = texts, !.stage = "load"]
ParseRepair(p) ==
    /\ At(p, "parse") /\ command(p).call = "repair"
    /\ LET reply == Doing(p).reply
           issue == CHOOSE i \in Issues : i.id = command(p).request
       IN  IF /\ reply.shape = "ok" /\ reply.operation \in AllowedOperations(issue)
              /\ reply.rationale # <<>> /\ issue.columns # {} /\ ValidParameters(reply)
           THEN Stage(p, "estimate") ELSE Answer(p, "rejected")
Estimate(p) ==
    /\ At(p, "estimate")
    /\ IF file # Gone /\ Content[file].affected[Doing(p).reply.operation] > 0
       THEN Move(p, RestoreTexts(p, <<Doing(p).reply.rationale>>)) /\ Rest ELSE Answer(p, "rejected")
Candidate(p, texts, name) ==
    [prompt |-> Doing(p).prompt, examples |-> Doing(p).examples, said |-> texts, texts |-> me(p).restored,
     name |-> name, enabled |-> FALSE, basis |-> "none"]
SaveProposal(p) ==
    /\ At(p, "restored") /\ command(p).call = "repair"
    /\ proposals' = proposals \cup {Candidate(p, <<Doing(p).reply.rationale>>, Doing(p).reply.operation)}
    /\ Finish(p, "done") /\ UNCHANGED <<file, provider, cache, rules, work>>

(* Rules: the first five of the reply, each restored, checked, run on the file and saved. *)
ParseRules(p) ==
    /\ At(p, "parse") /\ command(p).call = "rule"
    /\ LET reply == Doing(p).reply
       IN  IF reply.shape # "ok" THEN Answer(p, "rejected")
           ELSE Advance(p, "item", [Doing(p) EXCEPT !.items = SubSeq(reply.items, 1, Min({5, Len(reply.items)}))])
Item(p) == Head(Doing(p).items)
NextItem(p) ==
    /\ At(p, "item")
    /\ IF Doing(p).items = <<>> THEN Answer(p, "done")
       ELSE Move(p, RestoreTexts(p, Item(p).texts)) /\ Rest
DropItem(p) == Advance(p, "item", [Doing(p) EXCEPT !.items = Tail(@)])
(* The report of this preflight is shown to the user and decides nothing. *)
Preflight(p) ==
    /\ At(p, "restored") /\ command(p).call = "rule"
    /\ IF Item(p).valid /\ file # Gone THEN Stage(p, "save rule") ELSE DropItem(p)
SaveRule(p) ==
    /\ At(p, "save rule")
    /\ rules' = Append(rules, Candidate(p, Item(p).texts, Item(p).name))
    /\ Move(p, [me(p) EXCEPT !.stage = "item"])
    /\ work' = [work EXCEPT ![p].items = Tail(@)]
    /\ UNCHANGED <<file, provider, cache, proposals>>

----------------------------------------------------------------------------
(* approve: the rule, then with a path its preflight on the file, then UPDATE enabled = 1. *)
Rule(p) == rules[command(p).request]
Approve(p) ==
    /\ At(p, "bind") /\ command(p).call = "approve"
    /\ IF command(p).request \notin DOMAIN rules THEN Answer(p, "missing")
       ELSE \/ command(p).path = "none" /\ Stage(p, "activate")
            \/ command(p).path = "other" /\ Answer(p, "blocked")
            \/ command(p).path = "data" /\ file = Gone /\ Answer(p, "error")
            \/ /\ command(p).path = "data" /\ file # Gone
               /\ Advance(p, "count", [NoWork EXCEPT !.opened = file, !.since = changes])
(* A rule whose column is not there has an invalid preflight, which is not dangerous. *)
Testable(rule, v) == rule.name \in DOMAIN Content[v].failing
CountRows(p) ==
    /\ At(p, "count")
    /\ CASE ~Testable(Rule(p), Doing(p).opened) -> Stage(p, "activate")
         [] Testable(Rule(p), Doing(p).opened) /\ ~Readable(p) -> Answer(p, "error")
         [] OTHER -> Advance(p, "failures", [Doing(p) EXCEPT !.rows = RowCount(file)])
Dangerous_Total(failures, size) == failures > 0 /\ failures = size
Dangerous(failures, size) == failures > 0 /\ 2 * failures > size
CountFailures(p) ==
    /\ At(p, "failures")
    /\ IF ~Readable(p) THEN Answer(p, "error")
       ELSE LET failures == Content[file].failing[Rule(p).name]
            IN  Advance(p, IF failures = 0 THEN "activate" ELSE "examples", [Doing(p) EXCEPT !.failures = failures])
ReadExamples(p) ==
    /\ At(p, "examples")
    /\ CASE ~Readable(p) -> Answer(p, "error")
         [] Readable(p) /\ Dangerous(Doing(p).failures, Doing(p).rows) /\ ~command(p).force -> Answer(p, "blocked")
         [] OTHER -> Stage(p, "activate")
Activate(p) ==
    /\ At(p, "activate")
    /\ rules' = [rules EXCEPT ![command(p).request].enabled = TRUE, ![command(p).request].basis =
           IF command(p).path = "none" \/ command(p).force \/ changes > Doing(p).since THEN "word" ELSE Doing(p).opened]
    /\ Finish(p, "done") /\ UNCHANGED <<file, provider, cache, proposals, work>>

----------------------------------------------------------------------------
Edit(v) ==
    /\ changes < MaxChanges /\ file # v
    /\ file' = v /\ changes' = changes + 1
    /\ UNCHANGED <<Tables, env, proc, answers, raced, provider, cache, rules, proposals, work>>
Init ==
    /\ VaultInit
    /\ file \in InitialFile /\ provider \in Providers
    /\ cache = {} /\ rules = <<>> /\ proposals = {} /\ work = [p \in Procs |-> NoWork]
Step(p) ==
    \/ VaultStep(p) /\ Rest
    \/ (\E c \in AssistCommands : Begin(p, c)) /\ Rest
    \/ Open(p) \/ Profile(p) \/ Sample(p) \/ Lookup(p) \/ TimesOut(p) \/ Breaks(p) \/ Answers(p)
    \/ RecordFailure(p) \/ Tell(p) \/ RecordCall(p) \/ Remember(p)
    \/ ParseRepair(p) \/ Estimate(p) \/ SaveProposal(p)
    \/ ParseRules(p) \/ NextItem(p) \/ Preflight(p) \/ SaveRule(p)
    \/ Approve(p) \/ CountRows(p) \/ CountFailures(p) \/ ReadExamples(p) \/ Activate(p)
Next == (\E p \in Procs : Step(p)) \/ (\E v \in Later : Edit(v))
Spec == Init /\ [][Next]_vars

----------------------------------------------------------------------------
Keys == (EnvKeys \cup KeyFiles \cup ToSet(RandomKeys) \cup {c.material : c \in VaultCommands} \cup {NoKey, DevKey}) \ {Random}

(* A session has one row, whose id is its payload's; a prompt has one reply in the cache. *)
TypeOK ==
    /\ \A r, s \in sessions : r.id = s.id => r = s
    /\ \A r \in sessions : r.id = SessionId(r.payload) /\ r.key \in Keys \ {NoKey} /\ r.created <= Today
    /\ keyFile \in Keys /\ issued <= Len(RandomKeys)
    /\ \A e, f \in cache : e.prompt = f.prompt => e = f
    /\ file \in DOMAIN Content \cup {Gone} /\ changes <= MaxChanges /\ Len(answers) <= MaxCommands

(* Redaction loses nothing and mixes nothing: wherever a stored candidate speaks of a mask   *)
(* its prompt showed, it holds the value of the file the prompt was made of, also when the    *)
(* reply was cached for another file, the session was rotated, purged or written by others.   *)
RestoredAsScanned ==
    \A row \in ToSet(rules) \cup proposals :
        \A k \in DOMAIN row.examples : \A i \in DOMAIN row.examples[k] : \A n \in DOMAIN row.examples[k][i] :
            LET mask == row.prompt.examples[k][i][n]
            IN  \A t \in DOMAIN row.said : \A m \in DOMAIN row.said[t] :
                    IsMask(mask) /\ row.said[t][m] = mask => row.texts[t][m] = row.examples[k][i][n]

(* As long as no rotation meets another command or dies, and the environment does not hold a *)
(* key that a rotation cannot replace, the next process can read every session.               *)
MappingsStayReadable ==
    ~raced /\ (env = NoKey \/ \A n \in invocations : n.task # "pii_key_rotate") =>
        \A r \in sessions :
            \/ r.key = Effective(Configured)
            \/ \E p \in Procs : Rotating(p) /\ me(p).stage \in {"encrypt", "rotated"}

(* Nothing is used without a trace: a reply is in the cache only if an invocation of its     *)
(* prompt succeeded, and whatever was restored, for a caller or into a candidate, is audited. *)
AuditIsComplete ==
    /\ \A e \in cache : \E n \in invocations :
          n.prompt = e.prompt /\ n.status = "ok"
    /\ \A k \in DOMAIN answers : answers[k].restored # <<>> /\ answers[k].session # NoSession =>
          \E n \in invocations :
              n.task = "pii_restore" /\ n.session = answers[k].session

(* A rule is enabled only by an approval. One that was given the data and not forced, while   *)
(* nobody changed them, has enabled a rule that at most half of the rows break.                *)
DangerousRulesNeedForce ==
    \A n \in DOMAIN rules :
        /\ rules[n].enabled => \E k \in DOMAIN answers :
              answers[k].command.call = "approve" /\ answers[k].command.request = n /\ answers[k].exit = "ok"
        /\ rules[n].basis \notin {"none", "word"} /\ Testable(rules[n], rules[n].basis) =>
              2 * Content[rules[n].basis].failing[rules[n].name] <= RowCount(rules[n].basis)
=============================================================================
