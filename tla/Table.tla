------------------------------- MODULE Table -------------------------------
(***************************************************************************)
(* A table the way the SQL of detectors and repairs sees it: the columns   *)
(* with a type, and the rows in file order, equal neighbours as one entry  *)
(* with a count. Of a column's name only what the detectors look for in it *)
(* remains (Hints).                                                        *)
(*                                                                         *)
(* A text cell is a word with marks. Marks are what trimming and lowering  *)
(* remove; Traits tell which patterns the trimmed word matches in any case *)
(* and Stem is what remains of it without case, blanks and punctuation.    *)
(***************************************************************************)
EXTENDS Integers, Sequences, FiniteSets, FiniteSetsExt

CONSTANTS
    Kind,      \* column |-> "text", "number", "date" or "other"
    Hints,     \* column |-> what its name suggests, a set of strings
    Traits,    \* word |-> the patterns it matches, a set of strings
    Stem       \* word |-> its letters and digits, lowered

Null == [kind |-> "null"]
Text(word, marks) == [kind |-> "text", word |-> word, marks |-> marks]
Number(n) == [kind |-> "number", value |-> n]
Date(day) == [kind |-> "date", value |-> day]

(* NaN: greater than every number, as DuckDB orders it. *)
NotFinite == 1000000
Finite(v) == v.value # NotFinite

Trimmed(v) == IF v = Null THEN v ELSE [v EXCEPT !.marks = @ \ {"padded"}]
Lowered(v) == IF v = Null THEN v ELSE [v EXCEPT !.marks = @ \ {"upper"}]
Matches(v, trait) == trait \in Traits[v.word]

Members(s) == {s[i] : i \in DOMAIN s}
(* A table is [cols |-> the columns in order, rows |-> entries [cells, times]]. *)
Cell(t, i, c) == t.rows[i].cells[c]
(* how many rows are in the entries hits *)
RowsIn(t, hits) == SumFunction([i \in hits |-> t.rows[i].times])
Counted(t, Test(_)) == RowsIn(t, {i \in DOMAIN t.rows : Test(t.rows[i].cells)})
Size(t) == Counted(t, LAMBDA r : TRUE)
NullsOf(t, c) == Counted(t, LAMBDA r : r[c] = Null)
CountWhere(t, c, Test(_)) == Counted(t, LAMBDA r : r[c] # Null /\ Test(r[c]))
ValuesOf(t, c) == {Cell(t, i, c) : i \in DOMAIN t.rows} \ {Null}
Times(t, c, v) == Counted(t, LAMBDA r : r[c] = v)
ColumnsOf(t) == {t.cols[i] : i \in DOMAIN t.cols}
(* A row of a table has a cell for each of its columns, and an entry has rows. *)
Rectangular(t) ==
    /\ t = [cols |-> t.cols, rows |-> t.rows]
    /\ t.cols \in Seq(ColumnsOf(t)) /\ t.rows \in Seq(Members(t.rows))
    /\ \A e \in Members(t.rows) : /\ e = [cells |-> e.cells, times |-> e.times] /\ e.times \in Nat \ {0}
                                  /\ e.cells = [c \in ColumnsOf(t) |-> e.cells[c]]
Before(t, a, b) == \E i, j \in DOMAIN t.cols : i < j /\ t.cols[i] = a /\ t.cols[j] = b

(* A column rewritten cell by cell, as a projection does it. *)
Mapped(t, columns, f(_)) ==
    [t EXCEPT !.rows = [i \in DOMAIN t.rows |->
        [t.rows[i] EXCEPT !.cells =
            [c \in DOMAIN @ |-> IF c \in columns THEN f(@[c]) ELSE @[c]]]]]

----------------------------------------------------------------------------
(* quantile_cont over the finite values of a column, a bag of integers. *)
FiniteValues(t, c) == {v.value : v \in {w \in ValuesOf(t, c) : Finite(w)}}
Weight(t, c) == [n \in FiniteValues(t, c) |-> Times(t, c, Number(n))]

BagTotal(b) == SumFunction(b)
Kth(b, k) ==
    Min({n \in DOMAIN b :
           SumFunction([m \in DOMAIN b |-> IF m <= n THEN b[m] ELSE 0]) >= k})
(* den times the num/den quantile: linear between the two order statistics around it *)
Quantile(b, num, den) ==
    LET at   == (BagTotal(b) - 1) * num
        low  == Kth(b, at \div den + 1)
        high == IF at % den = 0 THEN low ELSE Kth(b, at \div den + 2)
    IN  den * low + (at % den) * (high - low)
============================================================================
