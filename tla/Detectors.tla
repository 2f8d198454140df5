----------------------------- MODULE Detectors -----------------------------
(***************************************************************************)
(* The detectors of datasentry_core.detectors as functions of a table: one *)
(* definition per detector class, the set of issue candidates it reports.  *)
(* Evidence text and examples are left out, and so are the caps on groups, *)
(* columns and pairs (LIMIT 20, 15 columns, 50 pairs, 500 values), which a *)
(* bounded table does not reach. Ratios are compared as integer products.  *)
(***************************************************************************)
EXTENDS Table

CONSTANTS
    Today,     \* the day the SQL's current_date stands for
    Isolated(_),  \* how many of so many values the isolation forest answers -1 for
    Ranges     \* column pairs whose names say start_x/end_x or min_x/max_x
ASSUME RangesAssumption == \A p \in Ranges : p = <<p[1], p[2]>>

(* confidence in percent; group tells apart the findings of a grouping detector *)
Finding(detector, columns, affected, severity, confidence) ==
    [detector |-> detector, columns |-> columns, affected |-> affected,
     severity |-> severity, confidence |-> confidence, group |-> {}]
(* a candidate for each column whose count, affected[c], is not zero *)
PerColumn(detector, affected, severity, confidence) ==
    {Finding(detector, <<c>>, affected[c], severity, confidence) :
        c \in {d \in DOMAIN affected : affected[d] > 0}}

OfKind(t, kind) == {c \in ColumnsOf(t) : Kind[c] = kind}
StringColumns(t) == OfKind(t, "text")
NumericColumns(t) == OfKind(t, "number")
DatetimeColumns(t) == OfKind(t, "date")
Hinted(t, hint) == {c \in StringColumns(t) : hint \in Hints[c]}

(* values not matching the pattern of a hinted text column; trim() first *)
Unlike(t, hint, trait, detector, severity, confidence) ==
    PerColumn(detector, [c \in Hinted(t, hint) |-> CountWhere(t, c, LAMBDA v : ~Matches(v, trait))],
              severity, confidence)
(* values of any text column that match a pattern *)
Like(t, trait, detector, severity, confidence) ==
    PerColumn(detector, [c \in StringColumns(t) |-> CountWhere(t, c, LAMBDA v : Matches(v, trait))],
              severity, confidence)

----------------------------------------------------------------------------
(* Text patterns *)
LeadingTrailingWhitespace(t) ==
    PerColumn("leading_or_trailing_whitespace",
              [c \in StringColumns(t) |-> CountWhere(t, c, LAMBDA v : v # Trimmed(v))], "low", 98)
RepeatedWhitespace(t) == Like(t, "two blanks", "repeated_whitespace", "low", 95)
HiddenControlCharacter(t) == Like(t, "control", "hidden_control_character", "medium", 98)
UnusualLength(t) == Like(t, "long", "unusual_length", "low", 90)
FormulaInjection(t) ==
    PerColumn("suspicious_formula_injection",
              [c \in StringColumns(t) |->
                  CountWhere(t, c, LAMBDA v : Matches(v, "formula") /\ "padded" \notin v.marks)], "low", 95)
InvalidEmail(t) == Unlike(t, "email", "email", "invalid_email", "low", 85)
InvalidPhone(t) == Unlike(t, "phone", "7 to 15 digits", "invalid_phone", "low", 90)
InvalidUrl(t) == Unlike(t, "url", "url", "invalid_url", "low", 90)
InvalidIp(t) == Unlike(t, "ip", "ipv4", "invalid_ip", "low", 95)
FullwidthCharacter(t) == Like(t, "fullwidth", "fullwidth_character", "low", 90)
MojibakeCharacter(t) == Like(t, "mojibake", "mojibake_character", "low", 95)
InvalidNumeric(t) ==
    LET Wrong(c) == CountWhere(t, c, LAMBDA v : ~Matches(v, "digits"))
        columns == {c \in Hinted(t, "amount") : /\ "date" \notin Hints[c]
                                                /\ Wrong(c) >= 2
                                                /\ Wrong(c) * 100 >= Size(t)}
    IN  PerColumn("invalid_numeric", [c \in columns |-> Wrong(c)], "medium", 85)
SuspiciousPlaceholder(t) == Like(t, "placeholder", "suspicious_placeholder", "low", 95)
SuspiciousMissingToken(t) ==
    {f \in Like(t, "missing", "suspicious_missing_token", "low", 90) :
        f.affected * 200 > Size(t)}

----------------------------------------------------------------------------
(* Groups of equal or similar values *)
Groups(t, c, key(_)) == {{v \in ValuesOf(t, c) : key(v) = k} : k \in {key(v) : v \in ValuesOf(t, c)}}
InGroup(t, c, g) == CountWhere(t, c, LAMBDA v : v \in g)
Redundant(t, c, groups) == SumFunction([g \in groups |-> InGroup(t, c, g) - 1])
Together(t, c, groups) == SumFunction([g \in groups |-> InGroup(t, c, g)])

UniquenessViolation(t) ==
    PerColumn("uniqueness_violation",
              [c \in ColumnsOf(t) |-> SumFunction([v \in ValuesOf(t, c) |-> Times(t, c, v) - 1])],
              "medium", 98)
FuzzyDuplicate(t) ==
    LET Alike(c) == {g \in Groups(t, c, LAMBDA v : Stem[v.word]) :
                       Cardinality(g) >= 2 /\ ~\E v \in g : Matches(v, "short")}
    IN  PerColumn("fuzzy_duplicate", [c \in StringColumns(t) |-> Redundant(t, c, Alike(c))], "medium", 90)
SpellingVariant(t) ==
    LET Variants(c) == {g \in Groups(t, c, LAMBDA v : Stem[v.word]) :
                          Cardinality(g) >= 2 /\ ~\E v \in g : Matches(v, "no ascii")}
        Frequent(c) == {g \in Variants(c) : InGroup(t, c, g) * 1000 >= Size(t)}
        columns == {c \in StringColumns(t) : Cardinality(Variants(c)) >= 2}
    IN  PerColumn("spelling_variant", [c \in columns |-> Together(t, c, Frequent(c))], "low", 80)
InconsistentCase(t) ==
    LET Forms(g) == {Trimmed(v) : v \in g}
        Mixed(c) == {g \in Groups(t, c, LAMBDA v : Lowered(Trimmed(v))) : Cardinality(Forms(g)) >= 2}
    IN  PerColumn("inconsistent_case", [c \in StringColumns(t) |-> Together(t, c, Mixed(c))], "low", 90)
NonNull(t, c) == Size(t) - NullsOf(t, c)
RareCategory(t) ==
    LET Distinct(c) == Cardinality(ValuesOf(t, c))
        Rare(c) == {v \in ValuesOf(t, c) : /\ Times(t, c, v) < 5
                                           /\ Times(t, c, v) * 1000 < Size(t)}
        columns == {c \in ColumnsOf(t) : /\ Distinct(c) \in 2 .. 1000
                                         /\ Distinct(c) * 10 <= NonNull(t, c) * 9}
    IN  PerColumn("rare_category", [c \in columns |-> SumFunction([v \in Rare(c) |-> Times(t, c, v)])], "low", 85)
CategoryExplosion(t) ==
    LET columns == {c \in ColumnsOf(t) : /\ "identifier" \notin Hints[c]
                                         /\ Cardinality(ValuesOf(t, c)) * 10 > NonNull(t, c) * 9}
    IN  PerColumn("category_explosion", [c \in columns |-> Cardinality(ValuesOf(t, c))], "low", 80)

----------------------------------------------------------------------------
(* Numbers. The aggregates skip NaN and infinities, the row predicates do not. *)
Measured(t) == {c \in NumericColumns(t) : FiniteValues(t, c) # {}}
Fences(t, c) ==     \* the IQR fences, times 8
    LET Around(q25, q75) == [lower |-> q25 - 3 * ((q75 - q25) \div 2), upper |-> q75 + 3 * (q75 - q25),
                             iqr |-> q75 - q25]
    IN  Around(2 * Quantile(Weight(t, c), 1, 4), 2 * Quantile(Weight(t, c), 3, 4))
Outside(v, lower, upper, unit) == unit * v.value < lower \/ unit * v.value > upper
IqrOutlier(t) ==
    LET Beyond(c, f) == CountWhere(t, c, LAMBDA v : Outside(v, f.lower, f.upper, 8))
        columns == {c \in Measured(t) : Fences(t, c).iqr > 0}
    IN  PerColumn("iqr_outlier", [c \in columns |-> Beyond(c, Fences(t, c))], "medium", 90)
PercentileOutlier(t) ==
    LET Beyond(c, low, high) == CountWhere(t, c, LAMBDA v : Outside(v, low, high, 1000))
    IN  PerColumn("percentile_outlier",
                  [c \in Measured(t) |-> Beyond(c, Quantile(Weight(t, c), 1, 1000),
                                                   Quantile(Weight(t, c), 999, 1000))], "medium", 90)
Abs(n) == IF n < 0 THEN -n ELSE n
FarFromMedian(t, c) ==
    LET b == Weight(t, c)
        median2 == Quantile(b, 1, 2)
        Deviation2(n) == Abs(2 * n - median2)
        deviations == [d \in {Deviation2(n) : n \in DOMAIN b} |->
                         SumFunction([n \in DOMAIN b |-> IF Deviation2(n) = d THEN b[n] ELSE 0])]
        mad4 == Quantile(deviations, 1, 2)
        Far(v) == ~Finite(v) \/ 8000 * Deviation2(v.value) > 9443 * mad4      \* 3.5 * 0.6745
    IN  IF mad4 = 0 THEN 0 ELSE CountWhere(t, c, Far)
ModifiedZScore(t) ==
    PerColumn("modified_zscore", [c \in Measured(t) |-> FarFromMedian(t, c)], "medium", 80)
TailProbability(t) ==
    PerColumn("tail_probability",
              [c \in NumericColumns(t) |-> CountWhere(t, c, LAMBDA v : v.value < 0)], "medium", 95)
RareBins(t, c) ==
    LET low  == Min(FiniteValues(t, c))
        high == Max(FiniteValues(t, c))
        Bin(v) == IF Finite(v) THEN ((v.value - low) * 20) \div (high - low) ELSE -1
    IN  {g \in Groups(t, c, Bin) : InGroup(t, c, g) < Max({1, NonNull(t, c) \div 100000})}
HistogramRarity(t) ==
    LET columns == {c \in Measured(t) : Max(FiniteValues(t, c)) > Min(FiniteValues(t, c))}
    IN  PerColumn("histogram_rarity", [c \in columns |-> Together(t, c, RareBins(t, c))], "medium", 85)

(* The model itself is scikit-learn's; around it, the guards on its answer. *)
ModelOutlier(t) ==
    LET Values(c) == BagTotal(Weight(t, c))
        Anomalies(c) == IF Values(c) < 8 THEN 0 ELSE Isolated(Values(c))
        columns == {c \in Measured(t) : Anomalies(c) >= 3 /\ Anomalies(c) * 20 <= Values(c)}
    IN  PerColumn("model_outlier", [c \in columns |-> Anomalies(c)], "low", 70)

----------------------------------------------------------------------------
(* Dates *)
InvalidDate(t) == Unlike(t, "date", "iso", "invalid_date", "medium", 90)
ImpossibleDate(t) ==
    PerColumn("impossible_date",
              [c \in Hinted(t, "date") |->
                  CountWhere(t, c, LAMBDA v : Matches(v, "iso") /\ ~Matches(v, "calendar"))], "high", 95)
FutureDate(t) ==
    PerColumn("future_date",
              [c \in DatetimeColumns(t) |-> CountWhere(t, c, LAMBDA v : v.value > Today + 1)], "low", 90)
StaleDate(t) ==
    LET columns == {c \in DatetimeColumns(t) : "historical" \notin Hints[c]}
    IN  PerColumn("stale_date", [c \in columns |-> CountWhere(t, c, LAMBDA v : v.value < Today - 365)],
                  "low", 85)
DateFormats == {"iso", "slash", "dot", "compact"}
WrittenAs(t, c, f) == CountWhere(t, c, LAMBDA v : Matches(v, f))
Major(t, c) == {f \in DateFormats : WrittenAs(t, c, f) * 50 > NonNull(t, c)}
Secondary(t, c) ==
    LET FirstRow(f) == Min({i \in DOMAIN t.rows : Cell(t, i, c) # Null /\ Matches(Cell(t, i, c), f)})
        first == CHOOSE f \in Major(t, c) : \A g \in Major(t, c) : FirstRow(f) <= FirstRow(g)
    IN  SumFunction([f \in DateFormats \ {first} |-> WrittenAs(t, c, f)])
MixedDateFormat(t) ==
    LET columns == {c \in Hinted(t, "date") : /\ Cardinality(ValuesOf(t, c)) >= 10
                                              /\ Cardinality(Major(t, c)) >= 2}
    IN  PerColumn("mixed_date_format", [c \in columns |-> Secondary(t, c)], "low", 85)
DuplicateTimestamp(t) ==
    LET Often(c) == {v \in ValuesOf(t, c) : Times(t, c, v) > 2}
    IN  PerColumn("duplicate_timestamp",
                  [c \in DatetimeColumns(t) |-> SumFunction([v \in Often(c) |-> Times(t, c, v) - 1])],
                  "medium", 90)

----------------------------------------------------------------------------
(* Missing values *)
Share(detector, c, nulls, total) ==
    Finding(detector, <<c>>, nulls,
            IF nulls * 10 > total * 3 THEN "high" ELSE IF nulls * 10 > total THEN "medium" ELSE "low", 95)
ExcessiveNullRate(t) ==
    {Share("excessive_null_rate", c, NullsOf(t, c), Size(t)) :
        c \in {d \in ColumnsOf(t) : NullsOf(t, d) * 20 > Size(t)}}

Sparse(t) == {c \in ColumnsOf(t) : Size(t) > 0 /\ NullsOf(t, c) * 50 >= Size(t)}
(* pairs of sparse columns, the one with more nulls first *)
ColumnPairs(t) ==
    {p \in Sparse(t) \X Sparse(t) :
        \/ NullsOf(t, p[1]) > NullsOf(t, p[2])
        \/ NullsOf(t, p[1]) = NullsOf(t, p[2]) /\ Before(t, p[1], p[2])}
BothNull(t, p) == Counted(t, LAMBDA r : r[p[1]] = Null /\ r[p[2]] = Null)
CorrelatedMissingness(t) ==
    {Finding("correlated_missingness", p, BothNull(t, p), "low", 85) :
        p \in {q \in ColumnPairs(t) : /\ BothNull(t, q) >= 5
                                      /\ BothNull(t, q) * 2 >= NullsOf(t, q[2])}}
ConditionalMissingness(t) ==
    {Finding("conditional_missingness", p, BothNull(t, p), "medium", 85) :
        p \in {q \in ColumnPairs(t) : /\ NullsOf(t, q[1]) >= 10
                                      /\ BothNull(t, q) * 5 >= NullsOf(t, q[1]) * 4}}

(* at least a fifth, and a fifth more than the whole column *)
Anomalous(t, target, nulls, n) ==
    n >= 10 /\ nulls * 5 * Size(t) >= n * (5 * NullsOf(t, target) + Size(t))
NullsIn(t, target, In(_)) == Counted(t, LAMBDA r : In(r) /\ r[target] = Null)
GroupMissingness(t) ==
    LET targets == {c \in ColumnsOf(t) : NullsOf(t, c) > 0}
        groups  == {c \in StringColumns(t) \ targets : Cardinality(ValuesOf(t, c)) \in 2 .. 50}
        Lacking(g, c) == {v \in ValuesOf(t, g) :
                            Anomalous(t, c, NullsIn(t, c, LAMBDA r : r[g] = v), Times(t, g, v))}
    IN  UNION {{[Finding("group_missingness", <<c>>, NullsIn(t, c, LAMBDA r : r[g] = v), "medium", 85)
                   EXCEPT !.group = {<<g, v>>}] : v \in Lacking(g, c)} : g \in groups, c \in targets}
(* days first, then months of 30 days, then years, until there are five buckets *)
SuddenMissingness(t) ==
    LET targets == {c \in ColumnsOf(t) : NullsOf(t, c) * 100 >= Size(t) /\ Size(t) > 0}
        Bucket(v, days) == v.value \div days
        Buckets(d, days) == {Bucket(v, days) : v \in ValuesOf(t, d)}
        Width(d) == IF Cardinality(Buckets(d, 1)) >= 5 THEN 1
                    ELSE IF Cardinality(Buckets(d, 30)) >= 5 THEN 30 ELSE 360
        In(d, b, r) == r[d] # Null /\ Bucket(r[d], Width(d)) = b
        Lacking(d, c) == {b \in Buckets(d, Width(d)) :
                            Anomalous(t, c, NullsIn(t, c, LAMBDA r : In(d, b, r)),
                                      Counted(t, LAMBDA r : In(d, b, r)))}
    IN  UNION {{[Finding("sudden_missingness", <<c>>, NullsIn(t, c, LAMBDA r : In(d, b, r)), "medium", 90)
                   EXCEPT !.group = {<<d, Date(b)>>}] : b \in Lacking(d, c)} :
               d \in DatetimeColumns(t), c \in targets}

----------------------------------------------------------------------------
(* Several columns, several tables *)
CrossFieldRule(t) ==
    LET rules == {p \in Ranges : /\ {p[1], p[2]} \subseteq ColumnsOf(t)
                                 /\ Kind[p[1]] = Kind[p[2]] /\ Kind[p[1]] \in {"number", "date"}}
        Above(l, r) == l # Null /\ r # Null /\ (l.value > r.value \/ ~Finite(l) \/ ~Finite(r))
        Broken(p) == Counted(t, LAMBDA r : Above(r[p[1]], r[p[2]]))
    IN  {Finding("cross_field_rule", p, Broken(p), "medium", 95) : p \in {q \in rules : Broken(q) > 0}}

(* References are compared one after the other; a view is named after the number of *)
(* candidates so far, and attaching a second database under a used name raises.     *)
Usable(ref) == ref.format \in {"csv", "parquet", "jsonl"} \/ (ref.format = "duckdb" /\ ref.table)
Orphans(t, ref, c) == CountWhere(t, c, LAMBDA v : v \notin ref.keys[c])
ForeignKeyFindings(t, ref) ==
    {Finding("foreign_key_violation", <<c>>, Orphans(t, ref, c), "high", 95) :
        c \in {k \in DOMAIN ref.keys \cap ColumnsOf(t) : Orphans(t, ref, k) > 0}}
NothingCompared == [found |-> {}, count |-> 0, attached |-> {}, raised |-> FALSE]
Compared(t, s, ref) ==
    IF s.raised \/ ~Usable(ref) THEN s
    ELSE IF ref.format = "duckdb" /\ s.count \in s.attached
    THEN [s EXCEPT !.raised = TRUE, !.found = {}]
    ELSE [s EXCEPT !.attached = @ \cup (IF ref.format = "duckdb" THEN {s.count} ELSE {}),
                   !.count = @ + Cardinality(ForeignKeyFindings(t, ref)),
                   !.found = @ \cup ForeignKeyFindings(t, ref)]
ForeignKeyViolation(t, format, references) ==
    LET done[i \in 0 .. Len(references)] ==
            IF i = 0 THEN NothingCompared ELSE Compared(t, done[i - 1], references[i])
    IN  IF format \in {"csv", "parquet", "duckdb"} /\ \E i \in DOMAIN references : Usable(references[i])
        THEN done[Len(references)]
        ELSE NothingCompared

----------------------------------------------------------------------------
(* The registry, in its order, with each detector's quality dimension. What a *)
(* detector reports depends on the table, except for foreign keys.            *)
Completeness == <<"excessive_null_rate", "suspicious_missing_token", "sudden_missingness",
                  "group_missingness", "conditional_missingness", "correlated_missingness">>
Uniqueness == <<"uniqueness_violation", "fuzzy_duplicate">>
Validity == <<"suspicious_placeholder", "rare_category", "category_explosion", "inconsistent_case",
              "leading_or_trailing_whitespace", "repeated_whitespace", "hidden_control_character",
              "unusual_length", "invalid_email", "invalid_phone", "invalid_url", "invalid_ip",
              "iqr_outlier", "percentile_outlier", "modified_zscore", "tail_probability",
              "histogram_rarity", "suspicious_formula_injection", "cross_field_rule",
              "invalid_date", "impossible_date", "future_date", "stale_date",
              "mixed_date_format", "duplicate_timestamp", "spelling_variant",
              "fullwidth_character", "mojibake_character", "invalid_numeric">>
Registry == Completeness \o Uniqueness \o Validity \o <<"foreign_key_violation", "model_outlier">>
DetectorIds == Members(Registry)

Detect(detector, t) ==
    CASE detector = "excessive_null_rate" -> ExcessiveNullRate(t)
      [] detector = "suspicious_missing_token" -> SuspiciousMissingToken(t)
      [] detector = "sudden_missingness" -> SuddenMissingness(t)
      [] detector = "group_missingness" -> GroupMissingness(t)
      [] detector = "conditional_missingness" -> ConditionalMissingness(t)
      [] detector = "correlated_missingness" -> CorrelatedMissingness(t)
      [] detector = "uniqueness_violation" -> UniquenessViolation(t)
      [] detector = "fuzzy_duplicate" -> FuzzyDuplicate(t)
      [] detector = "suspicious_placeholder" -> SuspiciousPlaceholder(t)
      [] detector = "rare_category" -> RareCategory(t)
      [] detector = "category_explosion" -> CategoryExplosion(t)
      [] detector = "inconsistent_case" -> InconsistentCase(t)
      [] detector = "leading_or_trailing_whitespace" -> LeadingTrailingWhitespace(t)
      [] detector = "repeated_whitespace" -> RepeatedWhitespace(t)
      [] detector = "hidden_control_character" -> HiddenControlCharacter(t)
      [] detector = "unusual_length" -> UnusualLength(t)
      [] detector = "invalid_email" -> InvalidEmail(t)
      [] detector = "invalid_phone" -> InvalidPhone(t)
      [] detector = "invalid_url" -> InvalidUrl(t)
      [] detector = "invalid_ip" -> InvalidIp(t)
      [] detector = "iqr_outlier" -> IqrOutlier(t)
      [] detector = "percentile_outlier" -> PercentileOutlier(t)
      [] detector = "modified_zscore" -> ModifiedZScore(t)
      [] detector = "tail_probability" -> TailProbability(t)
      [] detector = "histogram_rarity" -> HistogramRarity(t)
      [] detector = "suspicious_formula_injection" -> FormulaInjection(t)
      [] detector = "cross_field_rule" -> CrossFieldRule(t)
      [] detector = "invalid_date" -> InvalidDate(t)
      [] detector = "impossible_date" -> ImpossibleDate(t)
      [] detector = "future_date" -> FutureDate(t)
      [] detector = "stale_date" -> StaleDate(t)
      [] detector = "mixed_date_format" -> MixedDateFormat(t)
      [] detector = "duplicate_timestamp" -> DuplicateTimestamp(t)
      [] detector = "spelling_variant" -> SpellingVariant(t)
      [] detector = "fullwidth_character" -> FullwidthCharacter(t)
      [] detector = "mojibake_character" -> MojibakeCharacter(t)
      [] detector = "invalid_numeric" -> InvalidNumeric(t)
      [] detector = "model_outlier" -> ModelOutlier(t)
(* supports(): what a detector needs in the table before it runs at all *)
Supports(detector, t) ==
    CASE detector \in {"sudden_missingness"} -> DatetimeColumns(t) # {}
      [] detector \in {"group_missingness", "conditional_missingness", "correlated_missingness"} ->
             Cardinality(ColumnsOf(t)) >= 2
      [] detector \in {"suspicious_missing_token", "suspicious_placeholder", "fuzzy_duplicate",
                       "spelling_variant", "fullwidth_character", "mojibake_character"} ->
             StringColumns(t) # {}
      [] detector = "invalid_email" -> \E c \in ColumnsOf(t) : "email" \in Hints[c]
      [] detector = "invalid_phone" -> \E c \in ColumnsOf(t) : "phone" \in Hints[c]
      [] detector = "invalid_url" -> \E c \in ColumnsOf(t) : "url" \in Hints[c]
      [] detector = "invalid_ip" -> \E c \in ColumnsOf(t) : "ip" \in Hints[c]
      [] detector = "invalid_numeric" -> Hinted(t, "amount") # {}
      [] detector \in {"invalid_date", "impossible_date", "mixed_date_format"} -> Hinted(t, "date") # {}
      [] detector = "cross_field_rule" -> \E p \in Ranges : {p[1], p[2]} \subseteq ColumnsOf(t)
      [] detector = "model_outlier" -> NumericColumns(t) # {}
      [] OTHER -> ColumnsOf(t) # {}
============================================================================
