------------------------------ MODULE MCRepair ------------------------------
(* Small instances of repairing: four files of different formats, the commands in Used. *)
EXTENDS Repair, MCTables

CONSTANT Used

Odd == Table(<<"note", "amount">>,
    << <<1, <<Text("plain", {"padded"}), Number(8)>> >>, <<1, <<Text("other", {"upper"}), Number(16)>> >>,
       <<1, <<W("other"), Number(8)>> >>, <<1, <<Text("tbd", {"padded"}), Number(8)>> >>,
       <<1, <<W("tbd"), Number(8)>> >>,
       <<4, <<W("plain"), Number(16)>> >>, <<1, <<Text("ab", {"padded"}), Number(160)>> >>, <<1, <<W("ab"), Number(NotFinite)>> >> >>)
Odd2 == [Odd EXCEPT !.rows = SubSeq(@, 1, 5)]
Days == Table(<<"written", "amount">>,
    << <<1, <<W("d1"), Number(8)>> >>, <<1, <<W("feb30"), Number(8)>> >>, <<1, <<W("s1"), Number(8)>> >> >>)
RepairTables == [odd |-> Odd, odd2 |-> Odd2, days |-> Days, clean |-> Clean]
UsedVersions == {"odd", "odd2", "days", "clean"}
UsedTables == [v \in UsedVersions |-> RepairTables[v]]

(* Numbers without a point, and a note that is a number. *)
Spelt == [v \in UsedVersions |-> IF v = "odd" THEN {<<1, "amount">>, <<3, "amount">>, <<11, "note">>} ELSE {}]

PathFormat == [a |-> "csv", b |-> "xlsx", c |-> "parquet", d |-> "jsonl", e |-> "database"]
Start == {[p \in Paths |-> IF p = "c" THEN "days" ELSE "odd"]}

Id(origin, column, family) == [origin |-> origin, columns |-> {column}, family |-> family]
Spaces == Id("odd", "note", "string_format")
Case   == Id("odd", "note", "categorical_anomaly")
Token  == Id("odd", "note", "missingness")
Outlier == Id("odd", "amount", "numeric_outlier")
Written == Id("days", "written", "datetime_anomaly")
Hopeless == Id("odd", "note", "uniqueness")
Unknown == Id("odd", "price", "uniqueness")

(* Nothing repaired yet, or the spaces of file a repaired earlier. *)
Trimming == CHOOSE x \in {ProposalOf(i) : i \in {j \in IssuesOf("odd") : j.id = Spaces}} : TRUE
Both == [carried |-> "odd", projected |-> "odd"]
Repaired ==
    [disk |-> <<[before |-> "odd", copy |-> Both, restored |-> Gone]>>,
     runs |-> <<[id |-> 1, status |-> "applied", path |-> "a", proposal |-> Trimming, origin |-> "odd",
                 fingerprint_before |-> "odd", fingerprint_after |-> Both, operations |-> "odd", quiet |-> TRUE]>>]
Stores == {[disk |-> <<>>, runs |-> <<>>], Repaired}

Command(face, calls, items, path) ==
    [face |-> face, batch |-> FALSE, clean |-> FALSE, calls |-> calls, items |-> items, path |-> path]
Single(face, call, issue, path) == Command(face, <<call>>, <<issue>>, path)
AllCommands ==
    [lower    |-> Single("cli", "apply", Case, "b"),
     dates    |-> Single("api", "apply", Written, "c"),
     json     |-> Single("api", "apply", Spaces, "d"),
     database |-> Single("api", "preview", Spaces, "e"),
     unknown  |-> Command("api", <<"apply">>, <<Unknown>>, "a"),
     preview  |-> Command("ui", <<"propose", "preview">>, <<Token>>, "a"),
     done     |-> Command("ui", <<"apply", "diff">>, <<Spaces>>, "a"),
     batch    |-> [Command("cli", <<"propose", "apply">>,
                           <<Outlier, Hopeless>>, "a") EXCEPT !.batch = TRUE],
     rollback |-> Command("cli", <<"rollback">>, <<1>>, "a"),
     several  |-> [Command("cli", <<"rollback">>, <<1, 2>>, "a") EXCEPT !.batch = TRUE],
     web      |-> Command("ui", <<"rollback">>, <<1>>, "a"),
     undo     |-> Command("tui", <<"rollback">>, <<UnknownRun>>, "a"),
     verify   |-> Command("cli", <<"verify">>, <<1>>, "a"),
     strict   |-> [Command("cli", <<"verify">>, <<1>>, "a") EXCEPT !.clean = TRUE],
     diff     |-> Command("api", <<"diff">>, <<1>>, "a")]
UsedCommands == {AllCommands[n] : n \in Used}
Perms == Permutations(Procs)
=============================================================================
