------------------------------ MODULE MCTables ------------------------------
(* Columns, words and file versions for the runs over tables. *)
EXTENDS Detectors, TLC

ColumnKind ==
    [email |-> "text", phone |-> "text", url |-> "text", ip |-> "text", note |-> "text",
     price |-> "text", written |-> "text", group |-> "text",
     amount |-> "number", low |-> "number", high |-> "number", day |-> "date"]
ColumnHints ==
    [c \in DOMAIN ColumnKind |->
        CASE c = "price" -> {"amount"} [] c = "written" -> {"date"}
          [] c \in {"email", "phone", "url", "ip"} -> {c} [] OTHER -> {}]
RangePairs == {<<"low", "high">>}

Formats == <<"iso", "slash", "dot", "compact">>
WordTraits ==
    [plain |-> {}, other |-> {}, odd |-> {"two blanks", "control", "long", "formula"},
     wide |-> {"fullwidth", "mojibake", "no ascii"}, tbd |-> {"placeholder", "missing"},
     ab |-> {}, a_b |-> {}, cd |-> {}, c_d |-> {}, mail |-> {"email"}, one |-> {"digits"},
     tel |-> {"7 to 15 digits"}, link |-> {"url"}, host |-> {"ipv4"}]
  @@ [feb30 |-> {"iso"}, d1 |-> {"iso", "calendar"}, d2 |-> {"iso", "calendar"},
      d3 |-> {"iso", "calendar"}, d4 |-> {"iso", "calendar"}, d5 |-> {"iso", "calendar"},
      s1 |-> {"slash"}, s2 |-> {"slash"}, s3 |-> {"slash"}, s4 |-> {"slash"}]
WordStem ==
    [w \in DOMAIN WordTraits |-> CASE w = "a_b" -> "ab" [] w = "c_d" -> "cd" [] OTHER -> w]
Isolates(n) == IF n >= 100 THEN 3 ELSE 0

----------------------------------------------------------------------------
W(w) == Text(w, {})
Table(cols, rows) ==
    [cols |-> cols,
     rows |-> [i \in DOMAIN rows |->
        [times |-> rows[i][1],
         cells |-> [c \in {cols[k] : k \in DOMAIN cols} |->
                       rows[i][2][CHOOSE k \in DOMAIN cols : cols[k] = c]]]]]

Words == Table(<<"email", "phone", "url", "ip", "note", "price">>,
    << <<2, <<W("mail"), W("tel"), W("link"), W("host"), W("ab"), W("one")>> >>,
       <<2, <<W("plain"), W("plain"), W("plain"), W("plain"), W("a_b"), W("plain")>> >>,
       <<1, <<Text("mail", {"upper"}), W("tel"), W("link"), W("host"), W("cd"), W("one")>> >>,
       <<1, <<W("mail"), W("tel"), W("link"), W("host"), W("c_d"), W("one")>> >>,
       <<1, <<W("mail"), W("tel"), W("link"), W("host"), Text("odd", {"padded"}), W("one")>> >>,
       <<1, <<W("mail"), W("tel"), W("link"), W("host"), W("odd"), W("one")>> >>,
       <<1, <<W("tbd"), W("tel"), W("link"), W("host"), W("wide"), Null>> >> >>)
(* the same columns, other findings *)
Words2 == [Words EXCEPT !.rows = [i \in 1 .. 3 |-> [@[i + 1] EXCEPT !.times = 1]]]

Dates == Table(<<"written", "day">>,
    [i \in 1 .. 12 |->
        <<3, <<W(<<"d1", "d2", "d3", "d4", "d5", "feb30", "s1", "s2", "s3", "s4", "plain", "d1">>[i]),
               IF i = 12 THEN Date(1002) ELSE Date(30 * (i + 1) + 500)>> >>])

(* 12 nulls of amount fall on group b and on one day *)
Gaps == Table(<<"group", "day", "amount", "low", "high">>,
    << <<20, <<W("plain"), Date(999), Number(8), Number(0), Number(8)>> >>,
       <<20, <<W("plain"), Date(998), Number(16), Number(0), Number(8)>> >>,
       <<20, <<W("plain"), Date(997), Number(24), Number(8), Number(0)>> >>,
       <<12, <<W("other"), Date(996), Null, Number(0), Null>> >>,
       <<1, <<W("other"), Date(995), Number(8), Null, Number(8)>> >> >>)
Numbers == Table(<<"amount">>,
    << <<100000, <<Number(8)>> >>, <<100000, <<Number(16)>> >>, <<40000, <<Number(24)>> >>,
       <<1, <<Number(800)>> >>, <<1, <<Number(-8)>> >>, <<2, <<Number(NotFinite)>> >> >>)

Clean == Table(<<"note", "amount">>,
    << <<6, <<W("plain"), Number(8)>> >>, <<6, <<W("other"), Number(16)>> >> >>)
Padded == Table(<<"note", "amount">>,
    << <<6, <<Text("plain", {"padded"}), Number(8)>> >>, <<6, <<W("other"), Null>> >> >>)
Wider == Table(<<"note", "amount", "low">>,
    << <<4, <<W("other"), Number(8), Number(0)>> >>, <<4, <<W("other"), Null, Number(0)>> >> >>)

AllTables == [words |-> Words, words2 |-> Words2, dates |-> Dates, gaps |-> Gaps,
              numbers |-> Numbers, clean |-> Clean, padded |-> Padded, wider |-> Wider]
============================================================================
