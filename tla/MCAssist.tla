------------------------------ MODULE MCAssist ------------------------------
(***************************************************************************)
(* Four versions of a file: three mails, one of them only among the        *)
(* categories, and a phone; the same with its columns in the other order;  *)
(* other people with the same statistics; and a file without anything to   *)
(* redact. Two processes run two commands.                                 *)
(***************************************************************************)
EXTENDS Assist

a == Token("email", "a")
b == Token("email", "b")
c == Token("email", "c")
u == Token("cn_phone", "u")
v == Token("cn_phone", "v")
word == Token(Plain, "word")
other == Token(Plain, "other")

Mails(first, second) == <<<<first>>, <<second, word>>, <<first>>, <<first>>, <<first>>, <<c>>, <<c>>>>
Phones(phone) == <<<<phone>>, Null, Null, Null, Null, Null, Null>>
MCContent ==
    [people   |-> [columns |-> <<"mail", "phone">>,
                   cells |-> [mail |-> Mails(a, b), phone |-> Phones(u)],
                   affected |-> [trim_whitespace |-> 1, clip_value |-> 0], failing |-> [r1 |-> 4]],
     reversed |-> [columns |-> <<"phone", "mail">>,
                   cells |-> [mail |-> Mails(a, b), phone |-> Phones(u)],
                   affected |-> [trim_whitespace |-> 1, clip_value |-> 0], failing |-> [r1 |-> 3]],
     others   |-> [columns |-> <<"mail", "phone">>,
                   cells |-> [mail |-> Mails(b, a), phone |-> Phones(v)],
                   affected |-> [trim_whitespace |-> 0, clip_value |-> 1], failing |-> [r1 |-> 7]],
     words    |-> [columns |-> <<"name">>, cells |-> [name |-> <<<<word>>, <<other>>>>],
                   affected |-> [trim_whitespace |-> 0, clip_value |-> 0], failing |-> [r2 |-> 0]]]

MCIssues == {[id |-> 1, detectors |-> {"leading_or_trailing_whitespace", "iqr_outlier"}, columns |-> {"mail"}],
             [id |-> 2, detectors |-> {"exact_duplicate"}, columns |-> {}]}
Says(name, valid, text) == [name |-> name, valid |-> valid, texts |-> <<text, text, <<word>>>>]
Speaks(operation, parameters, text) ==
    [shape |-> "ok", operation |-> operation, parameters |-> parameters, rationale |-> text]
MCReplies ==
    [rule |-> {Nothing, [shape |-> "bad"],
               [shape |-> "ok", items |-> <<Says("r3", FALSE, <<word>>),
                                            Says("r1", TRUE, <<MaskOf("email", 1), MaskOf("email", 7)>>)>>]},
     repair |-> {Nothing, Speaks("trim_whitespace", "none", <<MaskOf("email", 0)>>),
                 Speaks("clip_value", "bounds", <<MaskOf("cn_phone", 0), MaskOf("email", 1)>>)}]

Known == MappingOf(<<<<a>>, <<b>>, <<c>>, <<u>>>>)
MCInitialSessions == {{[mapping |-> Known, day |-> 0], [mapping |-> MappingOf(<<<<v>>>>), day |-> 2]}}
Ask(call, request, path, force) ==
    [face |-> "cli", call |-> call, request |-> request, path |-> path, force |-> force]
MCAssistCommands ==
    {Ask("rule", 1, "data", FALSE), Ask("repair", 1, "data", FALSE), Ask("repair", 2, "data", FALSE),
     Ask("repair", 9, "data", FALSE), Ask("approve", 1, "none", FALSE), Ask("approve", 1, "data", FALSE),
     Ask("approve", 1, "data", TRUE), Ask("approve", 1, "other", FALSE)}
Order(face, call, texts, days, material) ==
    [face |-> face, call |-> call, session |-> SessionId(Known), texts |-> texts, days |-> days, material |-> material]
MCVaultCommands ==
    {Order("cli", "restore", <<<<MaskOf("email", 1), word>>>>, 0, NoKey), Order("mcp", "summary", <<>>, 0, NoKey),
     Order("api", "delete", <<>>, 0, NoKey), Order("cli", "purge", <<>>, 1, NoKey),
     Order("ui", "rotate", <<>>, 0, Random), Order("cli", "rotate", <<>>, 0, "given")}

MCEnvKeys == {NoKey, "env"}
MCKeyFiles == {NoKey}
MCRandomKeys == <<"k1", "k2">>
MCInitialFile == {"people"}
MCLater == {"reversed", "others", "words", Gone}
MCProviders == {"null", "openai"}
ProcSymmetry == Permutations(Procs)
=============================================================================
