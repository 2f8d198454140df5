------------------------------ MODULE MCScan ------------------------------
(* Small instances of scanning: two files, the commands named in Used. *)
EXTENDS Scan, MCTables

CONSTANT Used

(* A sample of half of the entries. *)
HalfOf(t) == [t EXCEPT !.rows = SubSeq(@, 1, (Len(@) + 1) \div 2)]

Strict == [fail_on |-> {"high", "critical"}, ratio |-> 10, limits |-> [low |-> 2], repair |-> FALSE]
Lenient == [fail_on |-> {"high"}, ratio |-> 500, limits |-> <<>>, repair |-> TRUE]
Rule(id, column, operator, value) ==
    [id |-> id, column |-> column, operator |-> operator, value |-> value, severity |-> "high"]
AmountRules ==
    {Rule("gt", "amount", "gt", Number(0)), Rule("gte", "amount", "gte", Number(16)),
     Rule("lt", "amount", "lt", Number(16)), Rule("lte", "amount", "lte", Number(8)),
     Rule("present", "amount", "not_null", <<>>), Rule("absent", "amount", "is_null", <<>>),
     Rule("between", "amount", "between", <<Number(0), Number(8)>>),
     Rule("outside", "amount", "not_between", <<Number(0), Number(8)>>),
     Rule("in", "amount", "in", <<Number(8), Number(16)>>), Rule("not_in", "amount", "not_in", <<Number(8)>>),
     Rule("equals", "amount", "equals", Number(8)), Rule("differs", "amount", "not_equals", Number(8)),
     Rule("email", "note", "matches", "email")}
BadRules == {Rule("empty", "amount", "in", <<>>), Rule("other", "missing", "not_null", <<>>)}

Reference(format) == [format |-> format, table |-> TRUE, keys |-> [note |-> {W("plain")}]]
Several == {"excessive_null_rate", "leading_or_trailing_whitespace", "fuzzy_duplicate", "correlated_missingness"}
Command(face, paths, detectors) ==
    [face |-> face, paths |-> paths, detectors |-> detectors, sampled |-> FALSE, incremental |-> FALSE,
     rules |-> {}, references |-> <<>>, gate |-> NoGate, disturbed |-> FALSE]
AllCommands ==
    [full     |-> [Command("cli", <<"a">>, Members(Registry)) EXCEPT !.references = <<Reference("csv")>>],
     strict   |-> [Command("cli", <<"a">>, Several) EXCEPT !.gate = Strict, !.disturbed = TRUE],
     batch    |-> [Command("cli", <<"a", "b">>, {"uniqueness_violation", "excessive_null_rate"})
                     EXCEPT !.gate = Lenient, !.disturbed = TRUE],
     ui       |-> [Command("ui", <<"a", "b">>, {"excessive_null_rate"}) EXCEPT !.disturbed = TRUE],
     sampled  |-> [Command("mcp", <<"a">>, {"fuzzy_duplicate", "model_outlier", "iqr_outlier"})
                     EXCEPT !.sampled = TRUE, !.disturbed = TRUE],
     sdk      |-> [Command("sdk", <<"a">>, Several) EXCEPT !.incremental = TRUE, !.disturbed = TRUE],
     twice    |-> [Command("cli", <<"a", "a">>, {"excessive_null_rate"}) EXCEPT !.disturbed = TRUE],
     narrow   |-> Command("api", <<"a">>, {"model_outlier"}),
     ruled    |-> [Command("cli", <<"a">>, {"excessive_null_rate"})
                     EXCEPT !.rules = AmountRules, !.disturbed = TRUE],
     invalid  |-> [Command("cli", <<"a", "b">>, {"uniqueness_violation"}) EXCEPT !.rules = BadRules],
     attached |-> [Command("cli", <<"a">>, {"foreign_key_violation"})
                     EXCEPT !.references = <<Reference("duckdb"), Reference("xlsx"), Reference("duckdb")>>]]
(* "twice": its two paths name one file, as a.csv and ./a.csv. *)
UsedCommands == {AllCommands[n] : n \in Used}
Initially == {[p \in Paths |-> IF p = "a" THEN v ELSE "clean"] : v \in Versions}
                \cup {[p \in Paths |-> Gone]}
UsedTables == [v \in Versions |-> AllTables[v]]
============================================================================
