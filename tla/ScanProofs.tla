----------------------------- MODULE ScanProofs -----------------------------
(***************************************************************************)
(* Theorems of the scan commands for any files, versions, commands and     *)
(* numbers of edits: what a stored scan says of the file it read, what an  *)
(* "ok" of the CLI and a cached answer promise, what profiles and trends   *)
(* report.  They rest on what every detector reports of any table (a       *)
(* finite set of findings of its own name), on what fusion makes of any    *)
(* finite set of findings (an issue for each), and on one inductive        *)
(* invariant, IInv, of the running scan, the rows and the answers.         *)
(***************************************************************************)
EXTENDS Scan, SequenceLemmas, FiniteSetTheorems, TLAPS

(* Detectors. Each reports finitely many findings of its own name, with counts *)
(* that are numbers, a severity of the scale and a confidence in percent.      *)
IsFinding(f, d) ==
    /\ f = [x \in {"detector", "columns", "affected", "severity", "confidence", "group"} |-> f[x]]
    /\ f.detector = d /\ f.affected \in Int /\ f.severity \in Members(Severities) /\ f.confidence \in 0 .. 100
Reports(found, d) == IsFiniteSet(found) /\ \A f \in found : IsFinding(f, d)
IsTable(t) == Rectangular(t) /\ \A c \in Measured(t) : Isolated(BagTotal(Weight(t, c))) \in Int

\* The five severities of the scale.
LEMMA SeveritiesAre == Members(Severities) = {"info", "low", "medium", "high", "critical"}
<1>1. DOMAIN Severities = 1 .. 5
  BY DEF Severities
<1>2. /\ Severities[1] = "info" /\ Severities[2] = "low" /\ Severities[3] = "medium"
      /\ Severities[4] = "high" /\ Severities[5] = "critical"
  BY DEF Severities
<1>3. \A i \in 1 .. 5 : i \in {1, 2, 3, 4, 5}
  OBVIOUS
<1> QED BY <1>1, <1>2, <1>3 DEF Members

\* A finding with a count that is a number is well formed.
LEMMA AFinding ==
    ASSUME NEW d, NEW columns, NEW n \in Int, NEW severity \in Members(Severities), NEW k \in 0 .. 100
    PROVE  IsFinding(Finding(d, columns, n, severity, k), d)
  BY DEF IsFinding, Finding

\* A rectangular table has finitely many entries and columns; each entry stands for a number of rows.
LEMMA EntriesAreFinite ==
    ASSUME NEW t, Rectangular(t)
    PROVE  /\ IsFiniteSet(DOMAIN t.rows) /\ IsFiniteSet(ColumnsOf(t))
           /\ \A i \in DOMAIN t.rows : t.rows[i].times \in Nat
<1>1. PICK n \in Nat : DOMAIN t.rows = 1 .. n
  <2>1. Len(t.rows) \in Nat /\ DOMAIN t.rows = 1 .. Len(t.rows)
    BY DEF Rectangular
  <2> QED BY <2>1
<1>2. PICK m \in Nat : DOMAIN t.cols = 1 .. m
  <2>1. Len(t.cols) \in Nat /\ DOMAIN t.cols = 1 .. Len(t.cols)
    BY DEF Rectangular
  <2> QED BY <2>1
<1>3. IsFiniteSet(1 .. n) /\ IsFiniteSet(1 .. m)
  BY FS_Interval
<1>4. PICK s : s = t.cols
  OBVIOUS
<1>5. IsFiniteSet({s[i] : i \in DOMAIN s})
  BY <1>2, <1>3, <1>4, FiniteImage
<1>6. ASSUME NEW i \in DOMAIN t.rows PROVE t.rows[i].times \in Nat
  <2>1. t.rows[i] \in Members(t.rows)
    BY DEF Members
  <2> QED BY <2>1 DEF Rectangular
<1> QED BY <1>1, <1>3, <1>4, <1>5, <1>6 DEF ColumnsOf

\* The rows behind any set of entries are a number.
LEMMA RowsAreNumbers ==
    ASSUME NEW t, Rectangular(t), NEW hits \in SUBSET DOMAIN t.rows
    PROVE  RowsIn(t, hits) \in Nat
<1>1. PICK f : f = [i \in hits |-> t.rows[i].times]
  OBVIOUS
<1>2. f \in [hits -> Nat] /\ IsFiniteSet(hits)
  BY <1>1, EntriesAreFinite, FS_Subset
<1>3. SumFunction(f) \in Nat
  BY <1>2, SumIsNat
<1> QED BY <1>1, <1>3 DEF RowsIn

\* A column has finitely many values.
LEMMA ValuesAreFinite ==
    ASSUME NEW t, Rectangular(t), NEW c
    PROVE  IsFiniteSet(ValuesOf(t, c)) /\ Cardinality(ValuesOf(t, c)) \in Nat
<1>1. PICK f : f = [i \in DOMAIN t.rows |-> Cell(t, i, c)]
  OBVIOUS
<1>2. IsFiniteSet({f[i] : i \in DOMAIN t.rows})
  BY EntriesAreFinite, FiniteImage
<1>3. {f[i] : i \in DOMAIN t.rows} = {Cell(t, i, c) : i \in DOMAIN t.rows}
  BY <1>1
<1>4. IsFiniteSet(ValuesOf(t, c))
  BY <1>2, <1>3, FS_Difference DEF ValuesOf
<1> QED BY <1>4, FS_CardinalityType

\* A count for each of finitely many columns gives finitely many findings.
LEMMA PerColumnReports ==
    ASSUME NEW d, NEW D, IsFiniteSet(D), NEW a \in [D -> Int], NEW severity \in Members(Severities),
           NEW k \in 0 .. 100
    PROVE  Reports(PerColumn(d, a, severity, k), d)
<1>1. PICK C : C = {c \in DOMAIN a : a[c] > 0}
  OBVIOUS
<1>2. IsFiniteSet(C) /\ C \subseteq D
  BY <1>1, FS_Subset
<1>3. PICK f : f = [c \in C |-> Finding(d, <<c>>, a[c], severity, k)]
  OBVIOUS
<1>4. {f[c] : c \in C} = PerColumn(d, a, severity, k)
  BY <1>1, <1>3 DEF PerColumn
<1>5. IsFiniteSet({f[c] : c \in C})
  BY <1>2, FiniteImage
<1>6. ASSUME NEW c \in C PROVE IsFinding(f[c], d)
  BY <1>2, <1>3, AFinding
<1> QED BY <1>4, <1>5, <1>6 DEF Reports

\* The same for columns of a rectangular table.
LEMMA ColumnsReport ==
    ASSUME NEW t, Rectangular(t), NEW d, NEW D \in SUBSET ColumnsOf(t), NEW a \in [D -> Int],
           NEW severity \in Members(Severities), NEW k \in 0 .. 100
    PROVE  Reports(PerColumn(d, a, severity, k), d)
<1>1. IsFiniteSet(D)
  BY EntriesAreFinite, FS_Subset
<1> QED BY <1>1, PerColumnReports

\* The columns of each kind and hint are columns of the table.
LEMMA ColumnKinds ==
    ASSUME NEW t
    PROVE  /\ StringColumns(t) \subseteq ColumnsOf(t) /\ NumericColumns(t) \subseteq ColumnsOf(t)
           /\ DatetimeColumns(t) \subseteq ColumnsOf(t) /\ Measured(t) \subseteq ColumnsOf(t)
           /\ \A hint : Hinted(t, hint) \subseteq ColumnsOf(t)
  BY DEF StringColumns, NumericColumns, DatetimeColumns, Measured, Hinted, OfKind

\* The detectors of values without the pattern their column is named for.
LEMMA UnlikeReports ==
    ASSUME NEW t, Rectangular(t), NEW hint, NEW trait, NEW d, NEW severity \in Members(Severities),
           NEW k \in 0 .. 100
    PROVE  Reports(Unlike(t, hint, trait, d, severity, k), d)
<1>1. PICK a : a = [c \in Hinted(t, hint) |-> CountWhere(t, c, LAMBDA v : ~Matches(v, trait))]
  OBVIOUS
<1>2. ASSUME NEW c PROVE CountWhere(t, c, LAMBDA v : ~Matches(v, trait)) \in Int
  BY RowsAreNumbers DEF CountWhere, Counted
<1>3. a \in [Hinted(t, hint) -> Int]
  BY <1>1, <1>2
<1>4. Reports(PerColumn(d, a, severity, k), d)
  BY <1>3, ColumnKinds, ColumnsReport
<1> QED BY <1>1, <1>4 DEF Unlike

\* The detectors of values with a pattern.
LEMMA LikeReports ==
    ASSUME NEW t, Rectangular(t), NEW trait, NEW d, NEW severity \in Members(Severities), NEW k \in 0 .. 100
    PROVE  Reports(Like(t, trait, d, severity, k), d)
<1>1. PICK a : a = [c \in StringColumns(t) |-> CountWhere(t, c, LAMBDA v : Matches(v, trait))]
  OBVIOUS
<1>2. ASSUME NEW c PROVE CountWhere(t, c, LAMBDA v : Matches(v, trait)) \in Int
  BY RowsAreNumbers DEF CountWhere, Counted
<1>3. a \in [StringColumns(t) -> Int]
  BY <1>1, <1>2
<1>4. Reports(PerColumn(d, a, severity, k), d)
  BY <1>3, ColumnKinds, ColumnsReport
<1> QED BY <1>1, <1>4 DEF Like

\* The detectors that are no more than a pattern.
LEMMA PatternsReport ==
    ASSUME NEW t, Rectangular(t)
    PROVE  /\ Reports(RepeatedWhitespace(t), "repeated_whitespace")
           /\ Reports(HiddenControlCharacter(t), "hidden_control_character")
           /\ Reports(UnusualLength(t), "unusual_length")
           /\ Reports(FullwidthCharacter(t), "fullwidth_character")
           /\ Reports(MojibakeCharacter(t), "mojibake_character")
           /\ Reports(SuspiciousPlaceholder(t), "suspicious_placeholder")
           /\ Reports(InvalidEmail(t), "invalid_email")
           /\ Reports(InvalidPhone(t), "invalid_phone")
           /\ Reports(InvalidUrl(t), "invalid_url")
           /\ Reports(InvalidIp(t), "invalid_ip")
           /\ Reports(InvalidDate(t), "invalid_date")
<1>1. \A k \in {85, 90, 95, 98} : k \in 0 .. 100
  OBVIOUS
<1>2. \A s \in {"low", "medium"} : s \in Members(Severities)
  BY SeveritiesAre
<1>3. /\ Reports(RepeatedWhitespace(t), "repeated_whitespace")
      /\ Reports(HiddenControlCharacter(t), "hidden_control_character")
  BY <1>1, <1>2, LikeReports DEF RepeatedWhitespace, HiddenControlCharacter
<1>4. /\ Reports(UnusualLength(t), "unusual_length")
      /\ Reports(FullwidthCharacter(t), "fullwidth_character")
  BY <1>1, <1>2, LikeReports DEF UnusualLength, FullwidthCharacter
<1>5. /\ Reports(MojibakeCharacter(t), "mojibake_character")
      /\ Reports(SuspiciousPlaceholder(t), "suspicious_placeholder")
  BY <1>1, <1>2, LikeReports DEF MojibakeCharacter, SuspiciousPlaceholder
<1>6. Reports(InvalidEmail(t), "invalid_email") /\ Reports(InvalidPhone(t), "invalid_phone")
  BY <1>1, <1>2, UnlikeReports DEF InvalidEmail, InvalidPhone
<1>7. Reports(InvalidUrl(t), "invalid_url") /\ Reports(InvalidIp(t), "invalid_ip")
  BY <1>1, <1>2, UnlikeReports DEF InvalidUrl, InvalidIp
<1>8. Reports(InvalidDate(t), "invalid_date")
  BY <1>1, <1>2, UnlikeReports DEF InvalidDate
<1> QED BY <1>3, <1>4, <1>5, <1>6, <1>7, <1>8

\* The detectors of one column at a time, one by one.
LEMMA SuspiciousMissingTokenReports ==
    ASSUME NEW t, Rectangular(t)
    PROVE  Reports(SuspiciousMissingToken(t), "suspicious_missing_token")
<1>1. PICK found : found = Like(t, "missing", "suspicious_missing_token", "low", 90)
  OBVIOUS
<1>2. Reports(found, "suspicious_missing_token")
  BY <1>1, LikeReports, SeveritiesAre
<1>3. SuspiciousMissingToken(t) \in SUBSET found
  BY <1>1 DEF SuspiciousMissingToken
<1> QED BY <1>2, <1>3, FS_Subset DEF Reports

\* Padded values.
LEMMA LeadingTrailingWhitespaceReports ==
    ASSUME NEW t, Rectangular(t)
    PROVE  Reports(LeadingTrailingWhitespace(t), "leading_or_trailing_whitespace")
<1>1. PICK a : a = [c \in StringColumns(t) |-> CountWhere(t, c, LAMBDA v : v # Trimmed(v))]
  OBVIOUS
<1>2. ASSUME NEW c \in StringColumns(t) PROVE a[c] \in Int
  BY <1>1, RowsAreNumbers DEF CountWhere, Counted
<1>3. a \in [StringColumns(t) -> Int]
  BY <1>1, <1>2
<1>4. Reports(PerColumn("leading_or_trailing_whitespace", a, "low", 98), "leading_or_trailing_whitespace")
  BY <1>3, ColumnKinds, ColumnsReport, SeveritiesAre
<1> QED BY <1>1, <1>4 DEF LeadingTrailingWhitespace

\* Values that begin like a formula.
LEMMA FormulaInjectionReports ==
    ASSUME NEW t, Rectangular(t)
    PROVE  Reports(FormulaInjection(t), "suspicious_formula_injection")
<1>1. PICK a : a = [c \in StringColumns(t) |->
          CountWhere(t, c, LAMBDA v : Matches(v, "formula") /\ "padded" \notin v.marks)]
  OBVIOUS
<1>2. ASSUME NEW c \in StringColumns(t) PROVE a[c] \in Int
  BY <1>1, RowsAreNumbers DEF CountWhere, Counted
<1>3. a \in [StringColumns(t) -> Int]
  BY <1>1, <1>2
<1>4. Reports(PerColumn("suspicious_formula_injection", a, "low", 95), "suspicious_formula_injection")
  BY <1>3, ColumnKinds, ColumnsReport, SeveritiesAre
<1> QED BY <1>1, <1>4 DEF FormulaInjection

\* Values below zero.
LEMMA TailProbabilityReports ==
    ASSUME NEW t, Rectangular(t)
    PROVE  Reports(TailProbability(t), "tail_probability")
<1>1. PICK a : a = [c \in NumericColumns(t) |-> CountWhere(t, c, LAMBDA v : v.value < 0)]
  OBVIOUS
<1>2. ASSUME NEW c \in NumericColumns(t) PROVE a[c] \in Int
  BY <1>1, RowsAreNumbers DEF CountWhere, Counted
<1>3. a \in [NumericColumns(t) -> Int]
  BY <1>1, <1>2
<1>4. Reports(PerColumn("tail_probability", a, "medium", 95), "tail_probability")
  BY <1>3, ColumnKinds, ColumnsReport, SeveritiesAre
<1> QED BY <1>1, <1>4 DEF TailProbability

\* Dates no calendar has.
LEMMA ImpossibleDateReports ==
    ASSUME NEW t, Rectangular(t)
    PROVE  Reports(ImpossibleDate(t), "impossible_date")
<1>1. PICK a : a = [c \in Hinted(t, "date") |->
          CountWhere(t, c, LAMBDA v : Matches(v, "iso") /\ ~Matches(v, "calendar"))]
  OBVIOUS
<1>2. ASSUME NEW c \in Hinted(t, "date") PROVE a[c] \in Int
  BY <1>1, RowsAreNumbers DEF CountWhere, Counted
<1>3. a \in [Hinted(t, "date") -> Int]
  BY <1>1, <1>2
<1>4. Reports(PerColumn("impossible_date", a, "high", 95), "impossible_date")
  BY <1>3, ColumnKinds, ColumnsReport, SeveritiesAre
<1> QED BY <1>1, <1>4 DEF ImpossibleDate

\* Dates after today.
LEMMA FutureDateReports == ASSUME NEW t, Rectangular(t) PROVE Reports(FutureDate(t), "future_date")
<1>1. PICK a : a = [c \in DatetimeColumns(t) |-> CountWhere(t, c, LAMBDA v : v.value > Today + 1)]
  OBVIOUS
<1>2. ASSUME NEW c \in DatetimeColumns(t) PROVE a[c] \in Int
  BY <1>1, RowsAreNumbers DEF CountWhere, Counted
<1>3. a \in [DatetimeColumns(t) -> Int]
  BY <1>1, <1>2
<1>4. Reports(PerColumn("future_date", a, "low", 90), "future_date")
  BY <1>3, ColumnKinds, ColumnsReport, SeveritiesAre
<1> QED BY <1>1, <1>4 DEF FutureDate

\* Columns whose last date is long past.
LEMMA StaleDateReports == ASSUME NEW t, Rectangular(t) PROVE Reports(StaleDate(t), "stale_date")
<1>1. PICK D : D = {c \in DatetimeColumns(t) : "historical" \notin Hints[c]}
  OBVIOUS
<1>2. D \subseteq ColumnsOf(t)
  BY <1>1, ColumnKinds
<1>3. PICK a : a = [c \in D |-> CountWhere(t, c, LAMBDA v : v.value < Today - 365)]
  OBVIOUS
<1>4. ASSUME NEW c \in D PROVE a[c] \in Int
  BY <1>3, RowsAreNumbers DEF CountWhere, Counted
<1>5. a \in [D -> Int]
  BY <1>3, <1>4
<1>6. "low" \in Members(Severities) /\ 85 \in 0 .. 100
  BY SeveritiesAre
<1>7. Reports(PerColumn("stale_date", a, "low", 85), "stale_date")
  BY <1>2, <1>5, <1>6, ColumnsReport
<1> QED BY <1>1, <1>3, <1>7 DEF StaleDate

\* Columns with nearly as many values as rows.
LEMMA CategoryExplosionReports ==
    ASSUME NEW t, Rectangular(t)
    PROVE  Reports(CategoryExplosion(t), "category_explosion")
<1>1. PICK D : D = {c \in ColumnsOf(t) : /\ "identifier" \notin Hints[c]
                                         /\ Cardinality(ValuesOf(t, c)) * 10 > NonNull(t, c) * 9}
  OBVIOUS
<1>2. D \subseteq ColumnsOf(t)
  BY <1>1, ColumnKinds
<1>3. PICK a : a = [c \in D |-> Cardinality(ValuesOf(t, c))]
  OBVIOUS
<1>4. ASSUME NEW c \in D PROVE a[c] \in Int
  BY <1>3, ValuesAreFinite
<1>5. a \in [D -> Int]
  BY <1>3, <1>4
<1>6. "low" \in Members(Severities) /\ 80 \in 0 .. 100
  BY SeveritiesAre
<1>7. Reports(PerColumn("category_explosion", a, "low", 80), "category_explosion")
  BY <1>2, <1>5, <1>6, ColumnsReport
<1> QED BY <1>1, <1>3, <1>7 DEF CategoryExplosion

\* Values outside the fences.
LEMMA IqrOutlierReports == ASSUME NEW t, Rectangular(t) PROVE Reports(IqrOutlier(t), "iqr_outlier")
<1>1. PICK D : D = {c \in Measured(t) : Fences(t, c).iqr > 0}
  OBVIOUS
<1>2. D \subseteq ColumnsOf(t)
  BY <1>1, ColumnKinds
<1>3. PICK a : a = [c \in D |-> CountWhere(t, c, LAMBDA v : Outside(v, Fences(t, c).lower, Fences(t, c).upper, 8))]
  OBVIOUS
<1>4. ASSUME NEW c \in D PROVE a[c] \in Int
  BY <1>3, RowsAreNumbers DEF CountWhere, Counted
<1>5. a \in [D -> Int]
  BY <1>3, <1>4
<1>6. "medium" \in Members(Severities) /\ 90 \in 0 .. 100
  BY SeveritiesAre
<1>7. Reports(PerColumn("iqr_outlier", a, "medium", 90), "iqr_outlier")
  BY <1>2, <1>5, <1>6, ColumnsReport
<1> QED BY <1>1, <1>3, <1>7 DEF IqrOutlier

\* Amounts that are no numbers.
LEMMA InvalidNumericReports ==
    ASSUME NEW t, Rectangular(t)
    PROVE  Reports(InvalidNumeric(t), "invalid_numeric")
<1>1. PICK D : D = {c \in Hinted(t, "amount") :
          /\ "date" \notin Hints[c]
          /\ CountWhere(t, c, LAMBDA v : ~Matches(v, "digits")) >= 2
          /\ CountWhere(t, c, LAMBDA v : ~Matches(v, "digits")) * 100 >= Size(t)}
  OBVIOUS
<1>2. D \subseteq ColumnsOf(t)
  BY <1>1, ColumnKinds
<1>3. PICK a : a = [c \in D |-> CountWhere(t, c, LAMBDA v : ~Matches(v, "digits"))]
  OBVIOUS
<1>4. ASSUME NEW c \in D PROVE a[c] \in Int
  BY <1>3, RowsAreNumbers DEF CountWhere, Counted
<1>5. a \in [D -> Int]
  BY <1>3, <1>4
<1>6. "medium" \in Members(Severities) /\ 85 \in 0 .. 100
  BY SeveritiesAre
<1>7. Reports(PerColumn("invalid_numeric", a, "medium", 85), "invalid_numeric")
  BY <1>2, <1>5, <1>6, ColumnsReport
<1> QED BY <1>1, <1>3, <1>7 DEF InvalidNumeric

\* Values outside the outer percentiles.
LEMMA PercentileOutlierReports ==
    ASSUME NEW t, Rectangular(t)
    PROVE  Reports(PercentileOutlier(t), "percentile_outlier")
<1>1. PICK a : a = [c \in Measured(t) |->
          CountWhere(t, c, LAMBDA v :
              Outside(v, Quantile(Weight(t, c), 1, 1000), Quantile(Weight(t, c), 999, 1000), 1000))]
  OBVIOUS
<1>2. ASSUME NEW c \in Measured(t) PROVE a[c] \in Int
  BY <1>1, RowsAreNumbers DEF CountWhere, Counted
<1>3. a \in [Measured(t) -> Int]
  BY <1>1, <1>2
<1>4. Reports(PerColumn("percentile_outlier", a, "medium", 90), "percentile_outlier")
  BY <1>3, ColumnKinds, ColumnsReport, SeveritiesAre
<1> QED BY <1>1, <1>4 DEF PercentileOutlier

\* How often a value or a group of values occurs is a number.
LEMMA TimesAreNumbers ==
    ASSUME NEW t, Rectangular(t), NEW c
    PROVE  /\ \A v : Times(t, c, v) \in Int
           /\ \A g : InGroup(t, c, g) \in Int
<1>1. ASSUME NEW v PROVE Times(t, c, v) \in Int
  BY RowsAreNumbers DEF Times, Counted
<1>2. ASSUME NEW g PROVE InGroup(t, c, g) \in Int
  BY RowsAreNumbers DEF InGroup, CountWhere, Counted
<1> QED BY <1>1, <1>2

\* So are the sums over values,
LEMMA TimesAddUp ==
    ASSUME NEW t, Rectangular(t), NEW c, NEW V \in SUBSET ValuesOf(t, c)
    PROVE  /\ SumFunction([v \in V |-> Times(t, c, v)]) \in Int
           /\ SumFunction([v \in V |-> Times(t, c, v) - 1]) \in Int
<1>1. IsFiniteSet(V)
  BY ValuesAreFinite, FS_Subset
<1>2. PICK f : f = [v \in V |-> Times(t, c, v)]
  OBVIOUS
<1>3. PICK h : h = [v \in V |-> Times(t, c, v) - 1]
  OBVIOUS
<1>4. f \in [V -> Int] /\ h \in [V -> Int]
  BY <1>2, <1>3, TimesAreNumbers
<1>5. SumFunction(f) \in Int /\ SumFunction(h) \in Int
  BY <1>1, <1>4, SumIsInt
<1> QED BY <1>2, <1>3, <1>5

\* and over groups of values.
LEMMA GroupsAddUp ==
    ASSUME NEW t, Rectangular(t), NEW c, NEW groups \in SUBSET SUBSET ValuesOf(t, c)
    PROVE  Redundant(t, c, groups) \in Int /\ Together(t, c, groups) \in Int
<1>1. IsFiniteSet(groups)
  BY ValuesAreFinite, FS_SUBSET, FS_Subset
<1>2. PICK f : f = [g \in groups |-> InGroup(t, c, g)]
  OBVIOUS
<1>3. PICK h : h = [g \in groups |-> InGroup(t, c, g) - 1]
  OBVIOUS
<1>4. f \in [groups -> Int] /\ h \in [groups -> Int]
  BY <1>2, <1>3, TimesAreNumbers
<1>5. SumFunction(f) \in Int /\ SumFunction(h) \in Int
  BY <1>1, <1>4, SumIsInt
<1> QED BY <1>2, <1>3, <1>5 DEF Redundant, Together

\* The detectors of groups of values, of rare values and of shapes of a column.
LEMMA UniquenessViolationReports ==
    ASSUME NEW t, Rectangular(t)
    PROVE  Reports(UniquenessViolation(t), "uniqueness_violation")
<1>1. PICK D : D = ColumnsOf(t)
  OBVIOUS
<1>2. D \subseteq ColumnsOf(t)
  BY <1>1, ColumnKinds
<1>3. PICK a : a = [c \in D |-> SumFunction([v \in ValuesOf(t, c) |-> Times(t, c, v) - 1])]
  OBVIOUS
<1>4. ASSUME NEW c \in D PROVE a[c] \in Int
  BY <1>3, TimesAddUp
<1>5. a \in [D -> Int]
  BY <1>3, <1>4
<1>6. "medium" \in Members(Severities) /\ 98 \in 0 .. 100
  BY SeveritiesAre
<1>7. Reports(PerColumn("uniqueness_violation", a, "medium", 98), "uniqueness_violation")
  BY <1>2, <1>5, <1>6, ColumnsReport
<1> QED BY <1>1, <1>3, <1>7 DEF UniquenessViolation

\* Values of one stem.
LEMMA FuzzyDuplicateReports ==
    ASSUME NEW t, Rectangular(t)
    PROVE  Reports(FuzzyDuplicate(t), "fuzzy_duplicate")
<1>1. PICK D : D = StringColumns(t)
  OBVIOUS
<1>2. D \subseteq ColumnsOf(t)
  BY <1>1, ColumnKinds
<1>3. PICK a : a = [c \in D |-> Redundant(t, c, {g \in Groups(t, c, LAMBDA v : Stem[v.word]) :
                               Cardinality(g) >= 2 /\ ~\E v \in g : Matches(v, "short")})]
  OBVIOUS
<1>4. ASSUME NEW c \in D PROVE a[c] \in Int
  <2>1. PICK groups : groups = {g \in Groups(t, c, LAMBDA v : Stem[v.word]) :
                               Cardinality(g) >= 2 /\ ~\E v \in g : Matches(v, "short")}
    OBVIOUS
  <2>2. ASSUME NEW g \in groups PROVE g \subseteq ValuesOf(t, c)
    BY <2>1 DEF Groups
  <2>3. Redundant(t, c, groups) \in Int
    BY <2>2, GroupsAddUp
  <2> QED BY <1>3, <2>1, <2>3
<1>5. a \in [D -> Int]
  BY <1>3, <1>4
<1>6. "medium" \in Members(Severities) /\ 90 \in 0 .. 100
  BY SeveritiesAre
<1>7. Reports(PerColumn("fuzzy_duplicate", a, "medium", 90), "fuzzy_duplicate")
  BY <1>2, <1>5, <1>6, ColumnsReport
<1> QED BY <1>1, <1>3, <1>7 DEF FuzzyDuplicate

\* Columns with several groups of values of one stem.
LEMMA SpellingVariantReports ==
    ASSUME NEW t, Rectangular(t)
    PROVE  Reports(SpellingVariant(t), "spelling_variant")
<1>1. PICK D : D = {c \in StringColumns(t) : Cardinality({g \in Groups(t, c, LAMBDA v : Stem[v.word]) :
                               Cardinality(g) >= 2 /\ ~\E v \in g : Matches(v, "no ascii")}) >= 2}
  OBVIOUS
<1>2. D \subseteq ColumnsOf(t)
  BY <1>1, ColumnKinds
<1>3. PICK a : a = [c \in D |-> Together(t, c, {g \in {g \in Groups(t, c, LAMBDA v : Stem[v.word]) :
                               Cardinality(g) >= 2 /\ ~\E v \in g : Matches(v, "no ascii")} :
                              InGroup(t, c, g) * 1000 >= Size(t)})]
  OBVIOUS
<1>4. ASSUME NEW c \in D PROVE a[c] \in Int
  <2>1. PICK groups : groups = {g \in {g \in Groups(t, c, LAMBDA v : Stem[v.word]) :
                               Cardinality(g) >= 2 /\ ~\E v \in g : Matches(v, "no ascii")} :
                             InGroup(t, c, g) * 1000 >= Size(t)}
    OBVIOUS
  <2>2. ASSUME NEW g \in groups PROVE g \subseteq ValuesOf(t, c)
    BY <2>1, ZenonT(30) DEF Groups
  <2>3. Together(t, c, groups) \in Int
    BY <2>2, GroupsAddUp
  <2> QED BY <1>3, <2>1, <2>3
<1>5. a \in [D -> Int]
  BY <1>3, <1>4
<1>6. "low" \in Members(Severities) /\ 80 \in 0 .. 100
  BY SeveritiesAre
<1>7. Reports(PerColumn("spelling_variant", a, "low", 80), "spelling_variant")
  BY <1>2, <1>5, <1>6, ColumnsReport
<1> QED BY <1>1, <1>3, <1>7 DEF SpellingVariant

\* Values alike but for case.
LEMMA InconsistentCaseReports ==
    ASSUME NEW t, Rectangular(t)
    PROVE  Reports(InconsistentCase(t), "inconsistent_case")
<1>1. PICK D : D = StringColumns(t)
  OBVIOUS
<1>2. D \subseteq ColumnsOf(t)
  BY <1>1, ColumnKinds
<1>3. PICK a : a = [c \in D |->
          Together(t, c, {g \in Groups(t, c, LAMBDA v : Lowered(Trimmed(v))) :
                              Cardinality({Trimmed(v) : v \in g}) >= 2})]
  OBVIOUS
<1>4. ASSUME NEW c \in D PROVE a[c] \in Int
  <2>1. PICK groups : groups = {g \in Groups(t, c, LAMBDA v : Lowered(Trimmed(v))) :
                                      Cardinality({Trimmed(v) : v \in g}) >= 2}
    OBVIOUS
  <2>2. ASSUME NEW g \in groups PROVE g \subseteq ValuesOf(t, c)
    BY <2>1 DEF Groups
  <2>3. Together(t, c, groups) \in Int
    BY <2>2, GroupsAddUp
  <2> QED BY <1>3, <2>1, <2>3
<1>5. a \in [D -> Int]
  BY <1>3, <1>4
<1>6. "low" \in Members(Severities) /\ 90 \in 0 .. 100
  BY SeveritiesAre
<1>7. Reports(PerColumn("inconsistent_case", a, "low", 90), "inconsistent_case")
  BY <1>2, <1>5, <1>6, ColumnsReport
<1> QED BY <1>1, <1>3, <1>7 DEF InconsistentCase

\* Values that occur a few times.
LEMMA RareCategoryReports ==
    ASSUME NEW t, Rectangular(t)
    PROVE  Reports(RareCategory(t), "rare_category")
<1>1. PICK D : D = {c \in ColumnsOf(t) : /\ Cardinality(ValuesOf(t, c)) \in 2 .. 1000
                                         /\ Cardinality(ValuesOf(t, c)) * 10 <= NonNull(t, c) * 9}
  OBVIOUS
<1>2. D \subseteq ColumnsOf(t)
  BY <1>1, ColumnKinds
<1>3. PICK a : a = [c \in D |->
          SumFunction([v \in {v \in ValuesOf(t, c) : Times(t, c, v) < 5 /\ Times(t, c, v) * 1000 < Size(t)} |->
                           Times(t, c, v)])]
  OBVIOUS
<1>4. ASSUME NEW c \in D PROVE a[c] \in Int
  <2>1. PICK V : V = {v \in ValuesOf(t, c) : Times(t, c, v) < 5 /\ Times(t, c, v) * 1000 < Size(t)}
    OBVIOUS
  <2>2. V \in SUBSET ValuesOf(t, c)
    BY <2>1
  <2>3. a[c] = SumFunction([v \in V |-> Times(t, c, v)])
    BY <1>3, <2>1
  <2> QED BY <2>2, <2>3, TimesAddUp
<1>5. a \in [D -> Int]
  BY <1>3, <1>4
<1>6. "low" \in Members(Severities) /\ 85 \in 0 .. 100
  BY SeveritiesAre
<1>7. Reports(PerColumn("rare_category", a, "low", 85), "rare_category")
  BY <1>2, <1>5, <1>6, ColumnsReport
<1> QED BY <1>1, <1>3, <1>7 DEF RareCategory

\* Times that occur more than twice.
LEMMA DuplicateTimestampReports ==
    ASSUME NEW t, Rectangular(t)
    PROVE  Reports(DuplicateTimestamp(t), "duplicate_timestamp")
<1>1. PICK D : D = DatetimeColumns(t)
  OBVIOUS
<1>2. D \subseteq ColumnsOf(t)
  BY <1>1, ColumnKinds
<1>3. PICK a : a = [c \in D |-> SumFunction([v \in {w \in ValuesOf(t, c) : Times(t, c, w) > 2} |-> Times(t, c, v) - 1])]
  OBVIOUS
<1>4. ASSUME NEW c \in D PROVE a[c] \in Int
  BY <1>3, TimesAddUp
<1>5. a \in [D -> Int]
  BY <1>3, <1>4
<1>6. "medium" \in Members(Severities) /\ 90 \in 0 .. 100
  BY SeveritiesAre
<1>7. Reports(PerColumn("duplicate_timestamp", a, "medium", 90), "duplicate_timestamp")
  BY <1>2, <1>5, <1>6, ColumnsReport
<1> QED BY <1>1, <1>3, <1>7 DEF DuplicateTimestamp

\* The values far from the median are counted.
LEMMA FarFromMedianIsCounted ==
    ASSUME NEW t, Rectangular(t), NEW c
    PROVE  FarFromMedian(t, c) \in Int
  BY RowsAreNumbers DEF FarFromMedian, CountWhere, Counted

\* The dates not written in the most frequent format are counted.
LEMMA SecondaryIsCounted ==
    ASSUME NEW t, Rectangular(t), NEW c
    PROVE  Secondary(t, c) \in Int
<1>1. PICK first : Secondary(t, c) = SumFunction([f \in DateFormats \ {first} |-> WrittenAs(t, c, f)])
  BY DEF Secondary
<1>2. PICK S : S = DateFormats \ {first}
  OBVIOUS
<1>3. IsFiniteSet(DateFormats)
  <2>1. DateFormats = (({} \cup {"iso"}) \cup {"slash"}) \cup {"dot"} \cup {"compact"}
    BY DEF DateFormats
  <2> QED BY <2>1, FS_EmptySet, FS_AddElement
<1>4. IsFiniteSet(S)
  BY <1>2, <1>3, FS_Difference
<1>5. PICK a : a = [f \in S |-> WrittenAs(t, c, f)]
  OBVIOUS
<1>6. ASSUME NEW f \in S PROVE WrittenAs(t, c, f) \in Int
  BY RowsAreNumbers DEF WrittenAs, CountWhere, Counted
<1>7. SumFunction(a) \in Int
  BY <1>4, <1>5, <1>6, SumIsInt
<1> QED BY <1>1, <1>2, <1>5, <1>7

\* Values far from the median.
LEMMA ModifiedZScoreReports ==
    ASSUME NEW t, Rectangular(t)
    PROVE  Reports(ModifiedZScore(t), "modified_zscore")
<1>1. PICK D : D = Measured(t)
  OBVIOUS
<1>2. D \subseteq ColumnsOf(t)
  BY <1>1, ColumnKinds
<1>3. PICK a : a = [c \in D |-> FarFromMedian(t, c)]
  OBVIOUS
<1>4. ASSUME NEW c \in D PROVE a[c] \in Int
  BY <1>3, FarFromMedianIsCounted
<1>5. a \in [D -> Int]
  BY <1>3, <1>4
<1>6. "medium" \in Members(Severities) /\ 80 \in 0 .. 100
  BY SeveritiesAre
<1>7. Reports(PerColumn("modified_zscore", a, "medium", 80), "modified_zscore")
  BY <1>2, <1>5, <1>6, ColumnsReport
<1> QED BY <1>1, <1>3, <1>7 DEF ModifiedZScore

\* Values in bins that are nearly empty.
LEMMA HistogramRarityReports ==
    ASSUME NEW t, Rectangular(t)
    PROVE  Reports(HistogramRarity(t), "histogram_rarity")
<1>1. PICK D : D = {c \in Measured(t) : Max(FiniteValues(t, c)) > Min(FiniteValues(t, c))}
  OBVIOUS
<1>2. D \subseteq ColumnsOf(t)
  BY <1>1, ColumnKinds
<1>3. PICK a : a = [c \in D |-> Together(t, c, RareBins(t, c))]
  OBVIOUS
<1>4. ASSUME NEW c \in D PROVE a[c] \in Int
  <2>1. ASSUME NEW g \in RareBins(t, c) PROVE g \subseteq ValuesOf(t, c)
    BY DEF RareBins, Groups
  <2> QED BY <1>3, <2>1, GroupsAddUp
<1>5. a \in [D -> Int]
  BY <1>3, <1>4
<1>6. "medium" \in Members(Severities) /\ 85 \in 0 .. 100
  BY SeveritiesAre
<1>7. Reports(PerColumn("histogram_rarity", a, "medium", 85), "histogram_rarity")
  BY <1>2, <1>5, <1>6, ColumnsReport
<1> QED BY <1>1, <1>3, <1>7 DEF HistogramRarity

\* Dates in a second format.
LEMMA MixedDateFormatReports ==
    ASSUME NEW t, Rectangular(t)
    PROVE  Reports(MixedDateFormat(t), "mixed_date_format")
<1>1. PICK D : D = {c \in Hinted(t, "date") : /\ Cardinality(ValuesOf(t, c)) >= 10
                                              /\ Cardinality(Major(t, c)) >= 2}
  OBVIOUS
<1>2. D \subseteq ColumnsOf(t)
  BY <1>1, ColumnKinds
<1>3. PICK a : a = [c \in D |-> Secondary(t, c)]
  OBVIOUS
<1>4. ASSUME NEW c \in D PROVE a[c] \in Int
  BY <1>3, SecondaryIsCounted
<1>5. a \in [D -> Int]
  BY <1>3, <1>4
<1>6. "low" \in Members(Severities) /\ 85 \in 0 .. 100
  BY SeveritiesAre
<1>7. Reports(PerColumn("mixed_date_format", a, "low", 85), "mixed_date_format")
  BY <1>2, <1>5, <1>6, ColumnsReport
<1> QED BY <1>1, <1>3, <1>7 DEF MixedDateFormat

\* Rows the isolation model keeps apart.
LEMMA ModelOutlierReports ==
    ASSUME NEW t, IsTable(t)
    PROVE  Reports(ModelOutlier(t), "model_outlier")
<1>1. PICK D : D = {c \in Measured(t) : /\ (IF BagTotal(Weight(t, c)) < 8 THEN 0 ELSE Isolated(BagTotal(Weight(t, c)))) >= 3
                             /\ (IF BagTotal(Weight(t, c)) < 8 THEN 0
                                 ELSE Isolated(BagTotal(Weight(t, c)))) * 20 <= BagTotal(Weight(t, c))}
  OBVIOUS
<1>2. D \subseteq ColumnsOf(t)
  BY <1>1, ColumnKinds
<1>3. PICK a : a = [c \in D |-> IF BagTotal(Weight(t, c)) < 8 THEN 0 ELSE Isolated(BagTotal(Weight(t, c)))]
  OBVIOUS
<1>4. ASSUME NEW c \in D PROVE a[c] \in Int
  BY <1>1, <1>3 DEF IsTable
<1>5. a \in [D -> Int]
  BY <1>3, <1>4
<1>6. "low" \in Members(Severities) /\ 70 \in 0 .. 100
  BY SeveritiesAre
<1>7. Reports(PerColumn("model_outlier", a, "low", 70), "model_outlier")
  BY <1>2, <1>5, <1>6, ColumnsReport DEF IsTable
<1> QED BY <1>1, <1>3, <1>7 DEF ModelOutlier

\* Findings made one by one from a finite set.
LEMMA ImagesReport ==
    ASSUME NEW C, IsFiniteSet(C), NEW f, NEW d, \A c \in C : IsFinding(f[c], d)
    PROVE  Reports({f[c] : c \in C}, d)
<1>1. IsFiniteSet({f[c] : c \in C})
  BY FiniteImage
<1> QED BY <1>1 DEF Reports

\* Some of the findings of a detector are findings of that detector.
LEMMA FewerReport ==
    ASSUME NEW found, NEW some \in SUBSET found, NEW d, Reports(found, d)
    PROVE  Reports(some, d)
  BY FS_Subset DEF Reports

\* Findings gathered over a finite set.
LEMMA UnionsReport ==
    ASSUME NEW C, IsFiniteSet(C), NEW f, NEW d, \A c \in C : Reports(f[c], d)
    PROVE  Reports(UNION {f[c] : c \in C}, d)
<1>1. PICK S : S = {f[c] : c \in C}
  OBVIOUS
<1>2. IsFiniteSet(S)
  BY <1>1, FiniteImage
<1>3. \A s \in S : Reports(s, d)
  BY <1>1
<1>4. \A s \in S : IsFiniteSet(s)
  BY <1>3 DEF Reports
<1>5. IsFiniteSet(UNION S)
  BY <1>2, <1>4, FS_UNION
<1>6. \A g \in UNION S : IsFinding(g, d)
  BY <1>3 DEF Reports
<1> QED BY <1>1, <1>5, <1>6 DEF Reports

\* Rows and nulls are counted.
LEMMA CountsAreNumbers ==
    ASSUME NEW t, Rectangular(t)
    PROVE  /\ Size(t) \in Nat /\ \A c : NullsOf(t, c) \in Nat
           /\ \A p : BothNull(t, p) \in Nat
<1>1. Size(t) \in Nat
  BY RowsAreNumbers DEF Size, Counted
<1>2. ASSUME NEW c PROVE NullsOf(t, c) \in Nat
  BY RowsAreNumbers DEF NullsOf, Counted
<1>3. ASSUME NEW p PROVE BothNull(t, p) \in Nat
  BY RowsAreNumbers DEF BothNull, Counted
<1> QED BY <1>1, <1>2, <1>3

\* The detectors of nulls, alone, in pairs, by groups and by days.
LEMMA ExcessiveNullRateReports ==
    ASSUME NEW t, Rectangular(t)
    PROVE  Reports(ExcessiveNullRate(t), "excessive_null_rate")
<1>1. PICK C : C = {d \in ColumnsOf(t) : NullsOf(t, d) * 20 > Size(t)}
  OBVIOUS
<1>2. IsFiniteSet(C)
  BY <1>1, EntriesAreFinite, FS_Subset
<1>3. PICK f : f = [c \in C |-> Share("excessive_null_rate", c, NullsOf(t, c), Size(t))]
  OBVIOUS
<1>4. "high" \in Members(Severities) /\ "medium" \in Members(Severities) /\ "low" \in Members(Severities)
      /\ 95 \in 0 .. 100
  BY SeveritiesAre
<1>5. ASSUME NEW c \in C PROVE IsFinding(f[c], "excessive_null_rate")
  <2>1. PICK n \in Nat : n = NullsOf(t, c)
    BY CountsAreNumbers
  <2>2. PICK severity \in Members(Severities) :
            f[c] = Finding("excessive_null_rate", <<c>>, n, severity, 95)
    BY <1>3, <1>4, <2>1 DEF Share
  <2> QED BY <1>4, <2>2, AFinding
<1>6. Reports({f[c] : c \in C}, "excessive_null_rate")
  BY <1>2, <1>5, ImagesReport
<1> QED BY <1>1, <1>3, <1>6 DEF ExcessiveNullRate

PairFindings(t, P, d, severity, k) == {Finding(d, p, BothNull(t, p), severity, k) : p \in P}

\* The detectors of pairs of columns.
LEMMA PairsReport ==
    ASSUME NEW t, Rectangular(t), NEW P, P \subseteq ColumnPairs(t), NEW d,
           NEW severity \in Members(Severities), NEW k \in 0 .. 100
    PROVE  Reports(PairFindings(t, P, d, severity, k), d)
<1>1. PICK S : S = Sparse(t)
  OBVIOUS
<1>2. IsFiniteSet(S)
  BY <1>1, EntriesAreFinite, FS_Subset DEF Sparse
<1>3. IsFiniteSet(S \X S)
  BY <1>2, FS_Product
<1>4. IsFiniteSet(P)
  BY <1>1, <1>3, FS_Subset DEF ColumnPairs
<1>5. PICK f : f = [p \in P |-> Finding(d, p, BothNull(t, p), severity, k)]
  OBVIOUS
<1>6. ASSUME NEW p \in P PROVE IsFinding(f[p], d)
  BY <1>5, CountsAreNumbers, AFinding
<1>7. Reports({f[p] : p \in P}, d)
  BY <1>4, <1>6, ImagesReport
<1> QED BY <1>5, <1>7 DEF PairFindings

\* Columns null together.
LEMMA CorrelatedMissingnessReports ==
    ASSUME NEW t, Rectangular(t)
    PROVE  Reports(CorrelatedMissingness(t), "correlated_missingness")
<1>1. PICK P : P = {q \in ColumnPairs(t) : /\ BothNull(t, q) >= 5
                                           /\ BothNull(t, q) * 2 >= NullsOf(t, q[2])}
  OBVIOUS
<1>2. P \subseteq ColumnPairs(t)
  BY <1>1
<1>3. "low" \in Members(Severities) /\ 85 \in 0 .. 100
  BY SeveritiesAre
<1>4. Reports(PairFindings(t, P, "correlated_missingness", "low", 85), "correlated_missingness")
  BY <1>2, <1>3, PairsReport
<1> QED BY <1>1, <1>4 DEF CorrelatedMissingness, PairFindings

\* Columns null when another is.
LEMMA ConditionalMissingnessReports ==
    ASSUME NEW t, Rectangular(t)
    PROVE  Reports(ConditionalMissingness(t), "conditional_missingness")
<1>1. PICK P : P = {q \in ColumnPairs(t) : /\ NullsOf(t, q[1]) >= 10
                                           /\ BothNull(t, q) * 5 >= NullsOf(t, q[1]) * 4}
  OBVIOUS
<1>2. P \subseteq ColumnPairs(t)
  BY <1>1
<1>3. "medium" \in Members(Severities) /\ 85 \in 0 .. 100
  BY SeveritiesAre
<1>4. Reports(PairFindings(t, P, "conditional_missingness", "medium", 85), "conditional_missingness")
  BY <1>2, <1>3, PairsReport
<1> QED BY <1>1, <1>4 DEF ConditionalMissingness, PairFindings

\* Groups that lack a column.
LEMMA GroupMissingnessReports ==
    ASSUME NEW t, Rectangular(t)
    PROVE  Reports(GroupMissingness(t), "group_missingness")
<1> DEFINE targets == {c \in ColumnsOf(t) : NullsOf(t, c) > 0}
           groups  == {c \in StringColumns(t) \ targets : Cardinality(ValuesOf(t, c)) \in 2 .. 50}
           Lacking(g, c) == {v \in ValuesOf(t, g) :
                            Anomalous(t, c, NullsIn(t, c, LAMBDA r : r[g] = v), Times(t, g, v))}
           F(g, c, v) == [Finding("group_missingness", <<c>>, NullsIn(t, c, LAMBDA r : r[g] = v), "medium", 85)
                   EXCEPT !.group = {<<g, v>>}]
           R(g, c) == {F(g, c, v) : v \in Lacking(g, c)}
<1>1. "medium" \in Members(Severities) /\ 85 \in 0 .. 100
  BY SeveritiesAre
<1>2. IsFiniteSet(targets) /\ IsFiniteSet(groups)
  BY EntriesAreFinite, ColumnKinds, FS_Subset
<1>3. PICK C : C = groups \X targets
  OBVIOUS
<1>4. IsFiniteSet(C)
  BY <1>2, <1>3, FS_Product
<1>5. PICK u : u = [p \in C |-> {F(p[1], p[2], v) : v \in Lacking(p[1], p[2])}]
  OBVIOUS
<1>6. ASSUME NEW p \in C PROVE Reports(u[p], "group_missingness")
  <2>1. PICK g : g = p[1]
    OBVIOUS
  <2>2. PICK c : c = p[2]
    OBVIOUS
  <2>3. PICK V : V = Lacking(g, c)
    OBVIOUS
  <2>4. IsFiniteSet(V)
    BY <2>3, ValuesAreFinite, FS_Subset
  <2>5. PICK f : f = [v \in V |-> F(g, c, v)]
    OBVIOUS
  <2>6. ASSUME NEW v \in V PROVE IsFinding(f[v], "group_missingness")
    <3>1. PICK n : n = NullsIn(t, c, LAMBDA r : r[g] = v)
      OBVIOUS
    <3>2. n \in Int
      BY <3>1, RowsAreNumbers DEF NullsIn, Counted
    <3>3. f[v] = [Finding("group_missingness", <<c>>, n, "medium", 85) EXCEPT !.group = {<<g, v>>}]
      BY <2>5, <3>1
    <3> QED BY <1>1, <3>2, <3>3 DEF IsFinding, Finding
  <2>7. Reports({f[v] : v \in V}, "group_missingness")
    BY <2>4, <2>6, ImagesReport
  <2>8. {f[v] : v \in V} = u[p]
    BY <1>5, <2>1, <2>2, <2>3, <2>5
  <2> QED BY <2>7, <2>8
<1>7. Reports(UNION {u[p] : p \in C}, "group_missingness")
  BY <1>4, <1>6, UnionsReport
<1> DEFINE all == {R(g, c) : g \in groups, c \in targets}
<1>8. GroupMissingness(t) = UNION all
  BY DEF GroupMissingness
<1>9. \A p \in C : u[p] = R(p[1], p[2])
  BY <1>5
<1> HIDE DEF targets, groups, Lacking, F, R
<1>10. {u[p] : p \in C} = all
  <2>1. ASSUME NEW g \in groups, NEW c \in targets PROVE R(g, c) \in {u[p] : p \in C}
    <3>1. <<g, c>> \in C /\ u[<<g, c>>] = R(g, c)
      BY <1>3, <1>9
    <3> QED BY <3>1
  <2>2. ASSUME NEW p \in C PROVE u[p] \in all
    BY <1>3, <1>9
  <2> QED BY <2>1, <2>2
<1> HIDE DEF all
<1> QED BY <1>7, <1>8, <1>10

\* Days that lack a column.
LEMMA SuddenMissingnessReports ==
    ASSUME NEW t, Rectangular(t)
    PROVE  Reports(SuddenMissingness(t), "sudden_missingness")
<1> DEFINE targets == {c \in ColumnsOf(t) : NullsOf(t, c) * 100 >= Size(t) /\ Size(t) > 0}
           Bucket(v, days) == v.value \div days
           Buckets(d, days) == {Bucket(v, days) : v \in ValuesOf(t, d)}
           Width(d) == IF Cardinality(Buckets(d, 1)) >= 5 THEN 1
                       ELSE IF Cardinality(Buckets(d, 30)) >= 5 THEN 30 ELSE 360
           In(d, b, r) == r[d] # Null /\ Bucket(r[d], Width(d)) = b
           Lacking(d, c) == {b \in Buckets(d, Width(d)) :
                               Anomalous(t, c, NullsIn(t, c, LAMBDA r : In(d, b, r)),
                                         Counted(t, LAMBDA r : In(d, b, r)))}
           F(d, c, b) == [Finding("sudden_missingness", <<c>>, NullsIn(t, c, LAMBDA r : In(d, b, r)), "medium", 90)
                             EXCEPT !.group = {<<d, Date(b)>>}]
           R(d, c) == {F(d, c, b) : b \in Lacking(d, c)}
           all == {R(d, c) : d \in DatetimeColumns(t), c \in targets}
<1>1. "medium" \in Members(Severities) /\ 90 \in 0 .. 100
  BY SeveritiesAre
<1>2. IsFiniteSet(targets) /\ IsFiniteSet(DatetimeColumns(t))
  BY EntriesAreFinite, ColumnKinds, FS_Subset
<1>3. PICK C : C = DatetimeColumns(t) \X targets
  OBVIOUS
<1>4. IsFiniteSet(C)
  BY <1>2, <1>3, FS_Product
<1>5. PICK u : u = [p \in C |-> R(p[1], p[2])]
  OBVIOUS
<1>6. ASSUME NEW p \in C PROVE Reports(u[p], "sudden_missingness")
  <2>1. PICK d : d = p[1]
    OBVIOUS
  <2>2. PICK c : c = p[2]
    OBVIOUS
  <2>3. PICK V : V = Lacking(d, c)
    OBVIOUS
  <2>4. IsFiniteSet(V)
    <3>1. PICK days : days = Width(d)
      OBVIOUS
    <3>2. PICK W : W = ValuesOf(t, d)
      OBVIOUS
    <3>3. PICK g : g = [v \in W |-> Bucket(v, days)]
      OBVIOUS
    <3>4. IsFiniteSet({g[v] : v \in W})
      BY <3>2, ValuesAreFinite, FiniteImage
    <3>5. {g[v] : v \in W} = {Bucket(v, days) : v \in W}
      <4> HIDE DEF Bucket
      <4> QED BY <3>3
    <3>6. V \subseteq {Bucket(v, days) : v \in W}
      <4>1. V \subseteq Buckets(d, days)
        <5> HIDE DEF Buckets, Width, In
        <5> QED BY <2>3, <3>1
      <4> QED BY <4>1, <3>2
    <3> HIDE DEF Bucket
    <3> QED BY <3>4, <3>5, <3>6, FS_Subset
  <2>5. PICK f : f = [b \in V |-> F(d, c, b)]
    OBVIOUS
  <2>6. ASSUME NEW b \in V PROVE IsFinding(f[b], "sudden_missingness")
    <3>1. PICK n : n = NullsIn(t, c, LAMBDA r : In(d, b, r))
      OBVIOUS
    <3>2. n \in Int
      <4> HIDE DEF In
      <4> QED BY <3>1, RowsAreNumbers DEF NullsIn, Counted
    <3>3. f[b] = [Finding("sudden_missingness", <<c>>, n, "medium", 90) EXCEPT !.group = {<<d, Date(b)>>}]
      <4> HIDE DEF In
      <4> QED BY <2>5, <3>1
    <3> QED BY <1>1, <3>2, <3>3 DEF IsFinding, Finding
  <2>7. Reports({f[b] : b \in V}, "sudden_missingness")
    BY <2>4, <2>6, ImagesReport
  <2>8. {f[b] : b \in V} = u[p]
    <3>1. u[p] = {F(d, c, b) : b \in Lacking(d, c)}
      <4>1. u[p] = R(d, c)
        <5> HIDE DEF R
        <5> QED BY <1>5, <2>1, <2>2
      <4> QED BY <4>1
    <3> HIDE DEF F, Lacking
    <3> QED BY <3>1, <2>3, <2>5
  <2> QED BY <2>7, <2>8
<1>7. Reports(UNION {u[p] : p \in C}, "sudden_missingness")
  BY <1>4, <1>6, UnionsReport
<1>8. SuddenMissingness(t) = UNION all
  BY DEF SuddenMissingness
<1> HIDE DEF targets, Bucket, Buckets, Width, In, Lacking, F, R
<1>9. \A p \in C : u[p] = R(p[1], p[2])
  BY <1>5
<1>10. {u[p] : p \in C} = all
  <2>1. ASSUME NEW d \in DatetimeColumns(t), NEW c \in targets PROVE R(d, c) \in {u[p] : p \in C}
    <3>1. <<d, c>> \in C /\ u[<<d, c>>] = R(d, c)
      BY <1>3, <1>9
    <3> QED BY <3>1
  <2>2. ASSUME NEW p \in C PROVE u[p] \in all
    BY <1>3, <1>9
  <2> QED BY <2>1, <2>2
<1> HIDE DEF all
<1> QED BY <1>7, <1>8, <1>10

\* The detector of ranges across two columns.
LEMMA CrossFieldRuleReports ==
    ASSUME NEW t, Rectangular(t)
    PROVE  Reports(CrossFieldRule(t), "cross_field_rule")
<1> DEFINE rules == {p \in Ranges : /\ {p[1], p[2]} \subseteq ColumnsOf(t)
                                 /\ Kind[p[1]] = Kind[p[2]] /\ Kind[p[1]] \in {"number", "date"}}
           Above(l, r) == l # Null /\ r # Null /\ (l.value > r.value \/ ~Finite(l) \/ ~Finite(r))
           Fails(p) == Counted(t, LAMBDA r : Above(r[p[1]], r[p[2]]))
           P == {q \in rules : Fails(q) > 0}
<1>1. PICK S : S = ColumnsOf(t)
  OBVIOUS
<1>2. IsFiniteSet(S \X S)
  BY <1>1, EntriesAreFinite, FS_Product
<1>3. P \subseteq S \X S
  <2> SUFFICES ASSUME NEW p \in P PROVE p \in S \X S
    OBVIOUS
  <2>1. p = <<p[1], p[2]>>
    BY RangesAssumption
  <2>2. p[1] \in S /\ p[2] \in S
    BY <1>1
  <2> QED BY <2>1, <2>2
<1>4. PICK C : C = P
  OBVIOUS
<1>5. IsFiniteSet(C)
  <2> HIDE DEF P
  <2> QED BY <1>2, <1>3, <1>4, FS_Subset
<1>6. "medium" \in Members(Severities) /\ 95 \in 0 .. 100
  BY SeveritiesAre
<1>7. ASSUME NEW p PROVE Fails(p) \in Int
  <2> HIDE DEF Above
  <2> QED BY RowsAreNumbers DEF Counted
<1>8. PICK f : f = [p \in C |-> Finding("cross_field_rule", p, Fails(p), "medium", 95)]
  OBVIOUS
<1>9. CrossFieldRule(t) = {Finding("cross_field_rule", p, Fails(p), "medium", 95) : p \in P}
  BY DEF CrossFieldRule
<1> HIDE DEF rules, Above, Fails, P
<1>10. ASSUME NEW p \in C PROVE IsFinding(f[p], "cross_field_rule")
  BY <1>6, <1>7, <1>8, AFinding
<1>11. Reports({f[p] : p \in C}, "cross_field_rule")
  BY <1>5, <1>10, ImagesReport
<1> QED BY <1>4, <1>8, <1>9, <1>11

(* f[i] is what is known after the first i references. *)
Comparison(f, t, refs, n) ==
    f = [i \in 0 .. n |-> IF i = 0 THEN NothingCompared ELSE Compared(t, f[i - 1], refs[i])]

\* The comparison with the references, step by step, exists for any number of them.
LEMMA ComparisonExists ==
    ASSUME NEW n \in Nat, NEW t, NEW refs
    PROVE  \E f : Comparison(f, t, refs, n)
<1> DEFINE P(m) == \E f : Comparison(f, t, refs, m - 1)
           G == {m \in 1 .. n + 1 : P(m)}
<1>1. P(1)
  <2> DEFINE g == [i \in 0 .. 0 |-> NothingCompared]
  <2>1. Comparison(g, t, refs, 0)
    <3>1. \A i \in 0 .. 0 : g[i] = IF i = 0 THEN NothingCompared ELSE Compared(t, g[i - 1], refs[i])
      OBVIOUS
    <3> QED BY <3>1 DEF Comparison
  <2> HIDE DEF g
  <2>2. 1 - 1 = 0
    OBVIOUS
  <2> QED BY <2>1, <2>2
<1>2. ASSUME NEW k \in 1 .. n, P(k)
      PROVE  P(k + 1)
  <2>1. PICK f : Comparison(f, t, refs, k - 1)
    BY <1>2
  <2> DEFINE g == [i \in 0 .. k |-> IF i = k THEN Compared(t, f[k - 1], refs[k]) ELSE f[i]]
  <2>2. ASSUME NEW i \in 0 .. k
        PROVE  g[i] = IF i = 0 THEN NothingCompared ELSE Compared(t, g[i - 1], refs[i])
    <3>1. CASE i = k
      <4>1. g[i - 1] = f[k - 1] /\ i # 0
        BY <3>1
      <4> QED BY <3>1, <4>1
    <3>2. CASE i # k
      <4>1. i \in 0 .. k - 1 /\ (i # 0 => i - 1 \in 0 .. k - 1)
        BY <3>2
      <4>2. f[i] = IF i = 0 THEN NothingCompared ELSE Compared(t, f[i - 1], refs[i])
        BY <2>1, <4>1 DEF Comparison
      <4>3. g[i] = f[i] /\ (i # 0 => g[i - 1] = f[i - 1])
        BY <3>2, <4>1
      <4> QED BY <4>2, <4>3
    <3> QED BY <3>1, <3>2
  <2>3. Comparison(g, t, refs, k)
    BY <2>2 DEF Comparison
  <2> HIDE DEF g
  <2>4. (k + 1) - 1 = k
    OBVIOUS
  <2> QED BY <2>3, <2>4
<1> HIDE DEF P
<1>3. 1 \in G
  BY <1>1
<1>4. ASSUME NEW k \in 1 .. (n + 1) - 1, k \in G
      PROVE  k + 1 \in G
  <2>1. k + 1 \in 1 .. n + 1 /\ P(k) /\ k \in 1 .. n
    BY <1>4
  <2> QED BY <1>2, <2>1
<1> HIDE DEF G
<1>5. \A k \in 1 .. n + 1 : k \in G
  <2>1. n + 1 \in Nat
    OBVIOUS
  <2> QED BY <2>1, <1>3, <1>4, UpTo
<1>6. n + 1 \in G
  BY <1>5
<1>7. (n + 1) - 1 = n
  OBVIOUS
<1> QED BY <1>6, <1>7 DEF G, P

\* What the foreign keys of one reference table find.
LEMMA ReferenceReports ==
    ASSUME NEW t, Rectangular(t), NEW ref
    PROVE  Reports(ForeignKeyFindings(t, ref), "foreign_key_violation")
<1>1. PICK C : C = {k \in DOMAIN ref.keys \cap ColumnsOf(t) : Orphans(t, ref, k) > 0}
  OBVIOUS
<1>2. IsFiniteSet(C)
  BY <1>1, EntriesAreFinite, FS_Subset
<1>3. PICK f : f = [c \in C |-> Finding("foreign_key_violation", <<c>>, Orphans(t, ref, c), "high", 95)]
  OBVIOUS
<1>4. "high" \in Members(Severities) /\ 95 \in 0 .. 100
  BY SeveritiesAre
<1>5. ASSUME NEW c \in C PROVE IsFinding(f[c], "foreign_key_violation")
  <2>1. PICK n : n = Orphans(t, ref, c)
    OBVIOUS
  <2>2. n \in Int
    BY <2>1, RowsAreNumbers DEF Orphans, CountWhere, Counted
  <2> QED BY <1>3, <1>4, <2>1, <2>2, AFinding
<1>6. Reports({f[c] : c \in C}, "foreign_key_violation")
  BY <1>2, <1>5, ImagesReport
<1> QED BY <1>1, <1>3, <1>6 DEF ForeignKeyFindings

\* One reference more leaves findings of the foreign-key detector only.
LEMMA ComparedReports ==
    ASSUME NEW t, Rectangular(t), NEW ref, NEW s,
           s = [x \in {"found", "count", "attached", "raised"} |-> s[x]],
           Reports(s.found, "foreign_key_violation")
    PROVE  LET r == Compared(t, s, ref)
           IN  /\ r = [x \in {"found", "count", "attached", "raised"} |-> r[x]]
               /\ Reports(r.found, "foreign_key_violation")
<1>1. CASE s.raised \/ ~Usable(ref)
  BY <1>1 DEF Compared
<1>2. CASE ~(s.raised \/ ~Usable(ref)) /\ ref.format = "duckdb" /\ s.count \in s.attached
  <2>1. Compared(t, s, ref) = [s EXCEPT !.raised = TRUE, !.found = {}]
    BY <1>2 DEF Compared
  <2>2. Reports({}, "foreign_key_violation")
    BY FS_EmptySet DEF Reports
  <2> QED BY <2>1, <2>2
<1>3. CASE ~(s.raised \/ ~Usable(ref)) /\ ~(ref.format = "duckdb" /\ s.count \in s.attached)
  <2>1. Compared(t, s, ref) =
            [s EXCEPT !.attached = @ \cup (IF ref.format = "duckdb" THEN {s.count} ELSE {}),
                      !.count = @ + Cardinality(ForeignKeyFindings(t, ref)),
                      !.found = @ \cup ForeignKeyFindings(t, ref)]
    BY <1>3 DEF Compared
  <2>2. Reports(s.found \cup ForeignKeyFindings(t, ref), "foreign_key_violation")
    BY ReferenceReports, FS_Union DEF Reports
  <2> QED BY <2>1, <2>2
<1> QED BY <1>1, <1>2, <1>3

\* The foreign-key detector, whatever the references and however they end.
LEMMA ForeignKeyReports ==
    ASSUME NEW t, Rectangular(t), NEW format, NEW refs, Len(refs) \in Nat
    PROVE  Reports(ForeignKeyViolation(t, format, refs).found, "foreign_key_violation")
<1>1. PICK n \in Nat : n = Len(refs)
  OBVIOUS
<1> DEFINE Run(f) == f = [i \in 0 .. Len(refs) |-> IF i = 0 THEN NothingCompared ELSE Compared(t, f[i - 1], refs[i])]
           done == CHOOSE f : Run(f)
<1>2. \E f : Run(f)
  <2>1. PICK f : Comparison(f, t, refs, n)
    BY ComparisonExists
  <2>2. Run(f)
    BY <1>1, <2>1 DEF Comparison
  <2> HIDE DEF Run
  <2> QED BY <2>2
<1>3. PICK f : f = done
  OBVIOUS
<1>4. Run(f)
  <2> HIDE DEF Run
  <2> QED BY <1>2, <1>3
<1>5. ForeignKeyViolation(t, format, refs) \in {f[n], NothingCompared}
  BY <1>1, <1>3 DEF ForeignKeyViolation
<1>6. \A i \in 0 .. n : f[i] = IF i = 0 THEN NothingCompared ELSE Compared(t, f[i - 1], refs[i])
  BY <1>1, <1>4
<1> DEFINE Fine(s) == /\ s = [x \in {"found", "count", "attached", "raised"} |-> s[x]]
                      /\ Reports(s.found, "foreign_key_violation")
           G == {m \in 1 .. n + 1 : Fine(f[m - 1])}
<1>7. Fine(NothingCompared)
  BY FS_EmptySet DEF NothingCompared, Reports
<1>8. \A s, ref : Fine(s) => Fine(Compared(t, s, ref))
  BY ComparedReports
<1> HIDE DEF Fine, Run, done
<1>9. 1 \in G
  BY <1>6, <1>7
<1>10. ASSUME NEW k \in 1 .. (n + 1) - 1, k \in G
       PROVE  k + 1 \in G
  <2>1. k + 1 \in 1 .. n + 1 /\ k \in 1 .. n /\ (k + 1) - 1 = k /\ k \in 0 .. n /\ k # 0
    OBVIOUS
  <2>2. Fine(f[k - 1])
    BY <1>10
  <2>3. f[k] = Compared(t, f[k - 1], refs[k])
    BY <1>6, <2>1
  <2> QED BY <1>8, <2>1, <2>2, <2>3
<1> HIDE DEF G
<1>11. \A k \in 1 .. n + 1 : k \in G
  <2>1. n + 1 \in Nat /\ n + 1 > 0
    OBVIOUS
  <2> QED BY <2>1, <1>9, <1>10, UpTo
<1>12. n + 1 \in G /\ (n + 1) - 1 = n
  BY <1>11
<1>13. Fine(f[n])
  BY <1>12 DEF G
<1> QED BY <1>5, <1>7, <1>13 DEF Fine

\* A concatenation has the members of its parts.
LEMMA MembersJoin ==
    ASSUME NEW S, NEW s \in Seq(S), NEW r \in Seq(S)
    PROVE  Members(s \o r) = Members(s) \cup Members(r)
<1>1. PICK m \in Nat : DOMAIN s = 1 .. m /\ Len(s) = m
  OBVIOUS
<1>2. PICK n \in Nat : DOMAIN r = 1 .. n /\ Len(r) = n
  OBVIOUS
<1>3. DOMAIN (s \o r) = 1 .. m + n
  BY <1>1, <1>2
<1>4. \A i \in 1 .. m : (s \o r)[i] = s[i]
  BY <1>1, <1>2
<1>5. \A i \in 1 .. n : m + i \in 1 .. m + n /\ (s \o r)[m + i] = r[i]
  BY <1>1, <1>2
<1>6. ASSUME NEW i \in 1 .. m + n PROVE (s \o r)[i] \in Members(s) \cup Members(r)
  <2>1. CASE i \in 1 .. m
    BY <1>1, <1>4, <2>1 DEF Members
  <2>2. CASE i - m \in 1 .. n
    <3>1. m + (i - m) = i
      BY <2>2
    <3>2. (s \o r)[i] = r[i - m]
      BY <1>5, <2>2, <3>1
    <3> QED BY <1>2, <2>2, <3>2 DEF Members
  <2>3. i \in 1 .. m \/ i - m \in 1 .. n
    OBVIOUS
  <2> QED BY <2>1, <2>2, <2>3
<1>7. Members(s \o r) \subseteq Members(s) \cup Members(r)
  BY <1>3, <1>6 DEF Members
<1>8. Members(s) \subseteq Members(s \o r)
  <2>1. \A i \in 1 .. m : i \in 1 .. m + n
    OBVIOUS
  <2> QED BY <1>1, <1>3, <1>4, <2>1 DEF Members
<1>9. Members(r) \subseteq Members(s \o r)
  BY <1>2, <1>3, <1>5 DEF Members
<1> QED BY <1>7, <1>8, <1>9

(* The names of the detectors that report on a table alone. *)
TableDetectors ==
    {"excessive_null_rate", "suspicious_missing_token", "sudden_missingness",
     "group_missingness", "conditional_missingness", "correlated_missingness",
     "uniqueness_violation", "fuzzy_duplicate", "suspicious_placeholder", "rare_category",
     "category_explosion", "inconsistent_case", "leading_or_trailing_whitespace",
     "repeated_whitespace", "hidden_control_character", "unusual_length", "invalid_email",
     "invalid_phone", "invalid_url", "invalid_ip", "iqr_outlier", "percentile_outlier",
     "modified_zscore", "tail_probability", "histogram_rarity",
     "suspicious_formula_injection", "cross_field_rule", "invalid_date", "impossible_date",
     "future_date", "stale_date", "mixed_date_format", "duplicate_timestamp",
     "spelling_variant", "fullwidth_character", "mojibake_character", "invalid_numeric",
     "model_outlier"}

\* The registry holds the detectors of a table and the foreign-key detector, by family.
LEMMA RegistryIs ==
    /\ Members(Registry) = TableDetectors \cup {ForeignKey}
    /\ Registry \in Seq(Members(Registry))
    /\ Members(Completeness) =
         {"excessive_null_rate", "suspicious_missing_token", "sudden_missingness",
          "group_missingness", "conditional_missingness", "correlated_missingness"}
    /\ Members(Uniqueness) =
         {"uniqueness_violation", "fuzzy_duplicate"}
    /\ Members(Validity) =
         {"suspicious_placeholder", "rare_category", "category_explosion", "inconsistent_case",
          "leading_or_trailing_whitespace", "repeated_whitespace", "hidden_control_character",
          "unusual_length", "invalid_email", "invalid_phone", "invalid_url", "invalid_ip",
          "iqr_outlier", "percentile_outlier", "modified_zscore", "tail_probability",
          "histogram_rarity", "suspicious_formula_injection", "cross_field_rule", "invalid_date",
          "impossible_date", "future_date", "stale_date", "mixed_date_format",
          "duplicate_timestamp", "spelling_variant", "fullwidth_character", "mojibake_character",
          "invalid_numeric"}
<1> DEFINE Names == TableDetectors \cup {ForeignKey}
           last == <<"foreign_key_violation", "model_outlier">>
<1>1. DOMAIN Completeness = 1 .. 6 /\ Completeness \in Seq(Names) /\ Members(Completeness) =
        {"excessive_null_rate", "suspicious_missing_token", "sudden_missingness",
         "group_missingness", "conditional_missingness", "correlated_missingness"}
  <2>1. \A i \in 1 .. 6 : Completeness[i] \in
          {"excessive_null_rate", "suspicious_missing_token", "sudden_missingness",
           "group_missingness", "conditional_missingness", "correlated_missingness"}
    BY DEF Completeness
  <2>2. DOMAIN Completeness = 1 .. 6
    BY DEF Completeness
  <2>3. /\ Completeness[1] = "excessive_null_rate" /\ 1 \in 1 .. 6
        /\ Completeness[2] = "suspicious_missing_token" /\ 2 \in 1 .. 6
        /\ Completeness[3] = "sudden_missingness" /\ 3 \in 1 .. 6
        /\ Completeness[4] = "group_missingness" /\ 4 \in 1 .. 6
        /\ Completeness[5] = "conditional_missingness" /\ 5 \in 1 .. 6
        /\ Completeness[6] = "correlated_missingness" /\ 6 \in 1 .. 6
    BY DEF Completeness
  <2>4. \A i \in 1 .. 6 : Completeness[i] \in Names
    BY <2>1 DEF TableDetectors
  <2>5. Members(Completeness) =
          {"excessive_null_rate", "suspicious_missing_token", "sudden_missingness",
           "group_missingness", "conditional_missingness", "correlated_missingness"}
    BY <2>1, <2>2, <2>3 DEF Members
  <2>6. Completeness \in Seq(Names)
    <3> HIDE DEF Names
    <3>1. Completeness = [i \in 1 .. 6 |-> Completeness[i]]
      BY DEF Completeness
    <3> QED BY <2>4, <3>1, SeqDef
  <2> QED BY <2>2, <2>5, <2>6
<1>2. DOMAIN Uniqueness = 1 .. 2 /\ Uniqueness \in Seq(Names) /\ Members(Uniqueness) =
        {"uniqueness_violation", "fuzzy_duplicate"}
  <2>1. \A i \in 1 .. 2 : Uniqueness[i] \in
          {"uniqueness_violation", "fuzzy_duplicate"}
    BY DEF Uniqueness
  <2>2. DOMAIN Uniqueness = 1 .. 2
    BY DEF Uniqueness
  <2>3. /\ Uniqueness[1] = "uniqueness_violation" /\ 1 \in 1 .. 2
        /\ Uniqueness[2] = "fuzzy_duplicate" /\ 2 \in 1 .. 2
    BY DEF Uniqueness
  <2>4. \A i \in 1 .. 2 : Uniqueness[i] \in Names
    BY <2>1 DEF TableDetectors
  <2>5. Members(Uniqueness) =
          {"uniqueness_violation", "fuzzy_duplicate"}
    BY <2>1, <2>2, <2>3 DEF Members
  <2>6. Uniqueness \in Seq(Names)
    <3> HIDE DEF Names
    <3>1. Uniqueness = [i \in 1 .. 2 |-> Uniqueness[i]]
      BY DEF Uniqueness
    <3> QED BY <2>4, <3>1, SeqDef
  <2> QED BY <2>2, <2>5, <2>6
<1>3. DOMAIN Validity = 1 .. 29 /\ Validity \in Seq(Names) /\ Members(Validity) =
        {"suspicious_placeholder", "rare_category", "category_explosion", "inconsistent_case",
         "leading_or_trailing_whitespace", "repeated_whitespace", "hidden_control_character",
         "unusual_length", "invalid_email", "invalid_phone", "invalid_url", "invalid_ip",
         "iqr_outlier", "percentile_outlier", "modified_zscore", "tail_probability",
         "histogram_rarity", "suspicious_formula_injection", "cross_field_rule", "invalid_date",
         "impossible_date", "future_date", "stale_date", "mixed_date_format",
         "duplicate_timestamp", "spelling_variant", "fullwidth_character", "mojibake_character",
         "invalid_numeric"}
  <2>1. \A i \in 1 .. 29 : Validity[i] \in
          {"suspicious_placeholder", "rare_category", "category_explosion", "inconsistent_case",
           "leading_or_trailing_whitespace", "repeated_whitespace", "hidden_control_character",
           "unusual_length", "invalid_email", "invalid_phone", "invalid_url", "invalid_ip",
           "iqr_outlier", "percentile_outlier", "modified_zscore", "tail_probability",
           "histogram_rarity", "suspicious_formula_injection", "cross_field_rule", "invalid_date",
           "impossible_date", "future_date", "stale_date", "mixed_date_format",
           "duplicate_timestamp", "spelling_variant", "fullwidth_character", "mojibake_character",
           "invalid_numeric"}
    BY DEF Validity
  <2>2. DOMAIN Validity = 1 .. 29
    BY DEF Validity
  <2>3. /\ Validity[1] = "suspicious_placeholder" /\ 1 \in 1 .. 29
        /\ Validity[2] = "rare_category" /\ 2 \in 1 .. 29
        /\ Validity[3] = "category_explosion" /\ 3 \in 1 .. 29
        /\ Validity[4] = "inconsistent_case" /\ 4 \in 1 .. 29
        /\ Validity[5] = "leading_or_trailing_whitespace" /\ 5 \in 1 .. 29
        /\ Validity[6] = "repeated_whitespace" /\ 6 \in 1 .. 29
        /\ Validity[7] = "hidden_control_character" /\ 7 \in 1 .. 29
        /\ Validity[8] = "unusual_length" /\ 8 \in 1 .. 29
        /\ Validity[9] = "invalid_email" /\ 9 \in 1 .. 29
        /\ Validity[10] = "invalid_phone" /\ 10 \in 1 .. 29
        /\ Validity[11] = "invalid_url" /\ 11 \in 1 .. 29
        /\ Validity[12] = "invalid_ip" /\ 12 \in 1 .. 29
        /\ Validity[13] = "iqr_outlier" /\ 13 \in 1 .. 29
        /\ Validity[14] = "percentile_outlier" /\ 14 \in 1 .. 29
        /\ Validity[15] = "modified_zscore" /\ 15 \in 1 .. 29
        /\ Validity[16] = "tail_probability" /\ 16 \in 1 .. 29
        /\ Validity[17] = "histogram_rarity" /\ 17 \in 1 .. 29
        /\ Validity[18] = "suspicious_formula_injection" /\ 18 \in 1 .. 29
        /\ Validity[19] = "cross_field_rule" /\ 19 \in 1 .. 29
        /\ Validity[20] = "invalid_date" /\ 20 \in 1 .. 29
        /\ Validity[21] = "impossible_date" /\ 21 \in 1 .. 29
        /\ Validity[22] = "future_date" /\ 22 \in 1 .. 29
        /\ Validity[23] = "stale_date" /\ 23 \in 1 .. 29
        /\ Validity[24] = "mixed_date_format" /\ 24 \in 1 .. 29
        /\ Validity[25] = "duplicate_timestamp" /\ 25 \in 1 .. 29
        /\ Validity[26] = "spelling_variant" /\ 26 \in 1 .. 29
        /\ Validity[27] = "fullwidth_character" /\ 27 \in 1 .. 29
        /\ Validity[28] = "mojibake_character" /\ 28 \in 1 .. 29
        /\ Validity[29] = "invalid_numeric" /\ 29 \in 1 .. 29
    BY DEF Validity
  <2>4. \A i \in 1 .. 29 : Validity[i] \in Names
    BY <2>1 DEF TableDetectors
  <2>5. Members(Validity) =
          {"suspicious_placeholder", "rare_category", "category_explosion", "inconsistent_case",
           "leading_or_trailing_whitespace", "repeated_whitespace", "hidden_control_character",
           "unusual_length", "invalid_email", "invalid_phone", "invalid_url", "invalid_ip",
           "iqr_outlier", "percentile_outlier", "modified_zscore", "tail_probability",
           "histogram_rarity", "suspicious_formula_injection", "cross_field_rule", "invalid_date",
           "impossible_date", "future_date", "stale_date", "mixed_date_format",
           "duplicate_timestamp", "spelling_variant", "fullwidth_character", "mojibake_character",
           "invalid_numeric"}
    BY <2>1, <2>2, <2>3 DEF Members
  <2>6. Validity \in Seq(Names)
    <3> HIDE DEF Names
    <3>1. Validity = [i \in 1 .. 29 |-> Validity[i]]
      BY DEF Validity
    <3> QED BY <2>4, <3>1, SeqDef
  <2> QED BY <2>2, <2>5, <2>6
<1>4. last \in Seq(Names) /\ Members(last) = {"foreign_key_violation", "model_outlier"}
  <2>1. DOMAIN last = 1 .. 2 /\ last[1] = "foreign_key_violation" /\ last[2] = "model_outlier"
    OBVIOUS
  <2>2. last[1] \in Names /\ last[2] \in Names
    BY <2>1 DEF TableDetectors, ForeignKey
  <2>3. Members(last) = {"foreign_key_violation", "model_outlier"}
    <3>1. \A i \in 1 .. 2 : i = 1 \/ i = 2
      OBVIOUS
    <3> QED BY <2>1, <3>1 DEF Members
  <2>4. last \in Seq(Names)
    <3> HIDE DEF Names
    <3> QED BY <2>1, <2>2
  <2> QED BY <2>3, <2>4
<1> HIDE DEF last, Names
<1>5. Completeness \o Uniqueness \in Seq(Names)
  BY <1>1, <1>2
<1>6. (Completeness \o Uniqueness) \o Validity \in Seq(Names)
  BY <1>3, <1>5
<1>7. Registry = ((Completeness \o Uniqueness) \o Validity) \o last
  BY DEF Registry, last
<1>8. Members(Registry) = ((Members(Completeness) \cup Members(Uniqueness)) \cup Members(Validity)) \cup Members(last)
  <2>1. Members(Completeness \o Uniqueness) = Members(Completeness) \cup Members(Uniqueness)
    BY <1>1, <1>2, MembersJoin
  <2>2. Members((Completeness \o Uniqueness) \o Validity) = Members(Completeness \o Uniqueness) \cup Members(Validity)
    <3>1. PICK s : s = Completeness \o Uniqueness
      OBVIOUS
    <3>2. s \in Seq(Names)
      BY <1>5, <3>1
    <3>3. PICK r : r = Validity
      OBVIOUS
    <3>4. r \in Seq(Names)
      BY <1>3, <3>3
    <3>5. Members(s \o r) = Members(s) \cup Members(r)
      BY <3>2, <3>4, MembersJoin
    <3> QED BY <3>1, <3>3, <3>5
  <2>3. Members(Registry) = Members((Completeness \o Uniqueness) \o Validity) \cup Members(last)
    <3>1. PICK s : s = (Completeness \o Uniqueness) \o Validity
      OBVIOUS
    <3>2. s \in Seq(Names)
      BY <1>6, <3>1
    <3>3. Members(s \o last) = Members(s) \cup Members(last)
      BY <1>4, <3>2, MembersJoin
    <3> QED BY <1>7, <3>1, <3>3
  <2> QED BY <2>1, <2>2, <2>3
<1>9. Registry \in Seq(Names)
  BY <1>4, <1>6, <1>7
<1>10. Members(Registry) = Names
  BY <1>1, <1>2, <1>3, <1>4, <1>8 DEF Names, TableDetectors, ForeignKey
<1> QED BY <1>1, <1>2, <1>3, <1>9, <1>10 DEF Names

\* Every detector of a table reports finitely many findings of its own name.
LEMMA DetectReports ==
    ASSUME NEW t, IsTable(t), NEW d \in TableDetectors
    PROVE  Reports(Detect(d, t), d)
<1>1. Rectangular(t)
  BY DEF IsTable
<1>2. /\ Reports(Detect("excessive_null_rate", t), "excessive_null_rate")
      /\ Reports(Detect("suspicious_missing_token", t), "suspicious_missing_token")
      /\ Reports(Detect("sudden_missingness", t), "sudden_missingness")
      /\ Reports(Detect("group_missingness", t), "group_missingness")
      /\ Reports(Detect("conditional_missingness", t), "conditional_missingness")
  BY <1>1, ExcessiveNullRateReports, SuspiciousMissingTokenReports, SuddenMissingnessReports,
     GroupMissingnessReports, ConditionalMissingnessReports DEF Detect
<1>3. /\ Reports(Detect("correlated_missingness", t), "correlated_missingness")
      /\ Reports(Detect("uniqueness_violation", t), "uniqueness_violation")
      /\ Reports(Detect("fuzzy_duplicate", t), "fuzzy_duplicate")
      /\ Reports(Detect("suspicious_placeholder", t), "suspicious_placeholder")
      /\ Reports(Detect("rare_category", t), "rare_category")
  BY <1>1, CorrelatedMissingnessReports, UniquenessViolationReports, FuzzyDuplicateReports,
     RareCategoryReports, PatternsReport DEF Detect
<1>4. /\ Reports(Detect("category_explosion", t), "category_explosion")
      /\ Reports(Detect("inconsistent_case", t), "inconsistent_case")
      /\ Reports(Detect("leading_or_trailing_whitespace", t), "leading_or_trailing_whitespace")
      /\ Reports(Detect("repeated_whitespace", t), "repeated_whitespace")
      /\ Reports(Detect("hidden_control_character", t), "hidden_control_character")
  BY <1>1, CategoryExplosionReports, InconsistentCaseReports, LeadingTrailingWhitespaceReports, PatternsReport
     DEF Detect
<1>5. /\ Reports(Detect("unusual_length", t), "unusual_length")
      /\ Reports(Detect("invalid_email", t), "invalid_email")
      /\ Reports(Detect("invalid_phone", t), "invalid_phone")
      /\ Reports(Detect("invalid_url", t), "invalid_url")
      /\ Reports(Detect("invalid_ip", t), "invalid_ip")
  BY <1>1, PatternsReport DEF Detect
<1>6. /\ Reports(Detect("iqr_outlier", t), "iqr_outlier")
      /\ Reports(Detect("percentile_outlier", t), "percentile_outlier")
      /\ Reports(Detect("modified_zscore", t), "modified_zscore")
      /\ Reports(Detect("tail_probability", t), "tail_probability")
      /\ Reports(Detect("histogram_rarity", t), "histogram_rarity")
  BY <1>1, IqrOutlierReports, PercentileOutlierReports, ModifiedZScoreReports,
     TailProbabilityReports, HistogramRarityReports DEF Detect
<1>7. /\ Reports(Detect("suspicious_formula_injection", t), "suspicious_formula_injection")
      /\ Reports(Detect("cross_field_rule", t), "cross_field_rule")
      /\ Reports(Detect("invalid_date", t), "invalid_date")
      /\ Reports(Detect("impossible_date", t), "impossible_date")
      /\ Reports(Detect("future_date", t), "future_date")
  BY <1>1, FormulaInjectionReports, CrossFieldRuleReports, ImpossibleDateReports,
     FutureDateReports, PatternsReport DEF Detect
<1>8. /\ Reports(Detect("stale_date", t), "stale_date")
      /\ Reports(Detect("mixed_date_format", t), "mixed_date_format")
      /\ Reports(Detect("duplicate_timestamp", t), "duplicate_timestamp")
      /\ Reports(Detect("spelling_variant", t), "spelling_variant")
      /\ Reports(Detect("fullwidth_character", t), "fullwidth_character")
  BY <1>1, StaleDateReports, MixedDateFormatReports, DuplicateTimestampReports,
     SpellingVariantReports, PatternsReport DEF Detect
<1>9. /\ Reports(Detect("mojibake_character", t), "mojibake_character")
      /\ Reports(Detect("invalid_numeric", t), "invalid_numeric")
      /\ Reports(Detect("model_outlier", t), "model_outlier")
  BY <1>1, InvalidNumericReports, ModelOutlierReports, PatternsReport DEF Detect
<1> QED BY <1>2, <1>3, <1>4, <1>5, <1>6, <1>7, <1>8, <1>9 DEF TableDetectors

-----------------------------------------------------------------------------
(* Fusion of finitely many findings. *)
AllFindings(cs) == IsFiniteSet(cs) /\ \A f \in cs : IsFinding(f, f.detector)

\* A finite set of integers that is not empty has a largest member.
LEMMA LargestOf ==
    ASSUME NEW S, IsFiniteSet(S), S # {}, S \subseteq Int
    PROVE  Max(S) \in S /\ \A y \in S : Max(S) >= y
<1> DEFINE P(s) == s # {} => \E x \in s : \A y \in s : x >= y
           G == {s \in SUBSET S : P(s)}
<1>1. ASSUME NEW s \in SUBSET S, \A r \in SUBSET s : r # s => r \in G, s # {}
      PROVE  \E x \in s : \A y \in s : x >= y
  <2>1. PICK x \in s : TRUE
    BY <1>1
  <2>2. s \ {x} \in G
    BY <1>1, <2>1
  <2>3. CASE s \ {x} = {}
    <3>1. s = {x} /\ x \in Int
      BY <2>1, <2>3
    <3> QED BY <3>1
  <2>4. CASE s \ {x} # {}
    <3>1. PICK z \in s \ {x} : \A y \in s \ {x} : z >= y
      BY <2>2, <2>4
    <3>2. x \in Int /\ z \in Int /\ \A y \in s : y \in Int
      BY <2>1, <3>1
    <3>3. CASE x >= z
      <4>1. \A y \in s : x >= y
        BY <3>1, <3>2, <3>3
      <4> QED BY <2>1, <4>1
    <3>4. CASE ~(x >= z)
      <4>1. \A y \in s : z >= y
        BY <3>1, <3>2, <3>4
      <4> QED BY <3>1, <4>1
    <3> QED BY <3>3, <3>4
  <2> QED BY <2>3, <2>4
<1>2. \A s \in SUBSET S : (\A r \in SUBSET s : r # s => r \in G) => s \in G
  BY <1>1
<1> HIDE DEF G
<1>3. \A s \in SUBSET S : s \in G
  BY <1>2, BySubsets
<1>4. \E x \in S : \A y \in S : x >= y
  BY <1>3 DEF G
<1> QED BY <1>4 DEF Max

\* The lesser of two integers.
LEMMA LeastOfTwo == ASSUME NEW a \in Int, NEW b \in Int
    PROVE  Min({a, b}) \in {a, b} /\ Min({a, b}) <= a /\ Min({a, b}) <= b
<1>1. \E x \in {a, b} : \A y \in {a, b} : x <= y
  <2>1. CASE a <= b
    BY <2>1
  <2>2. CASE b <= a
    BY <2>2
  <2> QED BY <2>1, <2>2
<1> QED BY <1>1 DEF Min

\* The larger of two integers.
LEMMA LargestOfTwo == ASSUME NEW a \in Int, NEW b \in Int
    PROVE  Max({a, b}) \in {a, b} /\ Max({a, b}) >= a /\ Max({a, b}) >= b
<1>1. \E x \in {a, b} : \A y \in {a, b} : x >= y
  <2>1. CASE a <= b
    BY <2>1
  <2>2. CASE b <= a
    BY <2>2
  <2> QED BY <2>1, <2>2
<1> QED BY <1>1 DEF Max

\* The rank and the weight of each severity.
LEMMA Ranks ==
    \A s \in Members(Severities) :
        /\ Rank(s) \in 1 .. 5 /\ Severities[Rank(s)] = s
        /\ SeverityWeight(s) \in 0 .. 1000
<1> SUFFICES ASSUME NEW s \in Members(Severities)
             PROVE  Rank(s) \in 1 .. 5 /\ Severities[Rank(s)] = s /\ SeverityWeight(s) \in 0 .. 1000
  OBVIOUS
<1>1. DOMAIN Severities = 1 .. 5
  BY DEF Severities
<1>2. \E i \in DOMAIN Severities : Severities[i] = s
  BY DEF Members
<1>3. Rank(s) \in 1 .. 5 /\ Severities[Rank(s)] = s
  BY <1>1, <1>2 DEF Rank
<1>4. \A i \in 1 .. 5 : <<100, 250, 500, 750, 1000>>[i] \in 0 .. 1000
  OBVIOUS
<1> QED BY <1>3, <1>4 DEF SeverityWeight

\* The worst severity of some findings is one of theirs and at least as severe as each.
LEMMA WorstIs ==
    ASSUME NEW cs, cs # {}, \A c \in cs : c.severity \in Members(Severities)
    PROVE  /\ WorstOf(cs) \in {c.severity : c \in cs} /\ WorstOf(cs) \in Members(Severities)
           /\ \A c \in cs : AtLeast(WorstOf(cs), c.severity)
<1>1. PICK T : T = {5 - Rank(c.severity) : c \in cs}
  OBVIOUS
<1>2. T \in SUBSET Nat /\ T # {}
  BY <1>1, Ranks
<1>3. PICK k \in T : \A x \in T : k <= x
  BY <1>2, LeastOf
<1>4. PICK w \in cs : k = 5 - Rank(w.severity)
  BY <1>1, <1>3
<1>5. ASSUME NEW c \in cs PROVE AtLeast(w.severity, c.severity)
  <2>1. Rank(c.severity) \in 1 .. 5 /\ Rank(w.severity) \in 1 .. 5
    BY Ranks
  <2>2. k <= 5 - Rank(c.severity)
    BY <1>1, <1>3
  <2> QED BY <1>4, <2>1, <2>2 DEF AtLeast
<1>6. \E s \in {c.severity : c \in cs} : \A c \in cs : AtLeast(s, c.severity)
  BY <1>5
<1>7. WorstOf(cs) \in {c.severity : c \in cs} /\ \A c \in cs : AtLeast(WorstOf(cs), c.severity)
  BY <1>6 DEF WorstOf
<1> QED BY <1>7

\* The fused confidence is a number.
LEMMA ConfidenceIsInt ==
    ASSUME NEW cs, AllFindings(cs)
    PROVE  FusedConfidence(cs) \in Int
<1>1. IsFiniteSet(cs) /\ \A f \in cs : f.confidence \in Int
  BY DEF AllFindings, IsFinding
<1>2. PICK V : V = Int
  OBVIOUS
<1>3. PICK z \in V : z = Certain
  BY <1>2, SMT DEF Certain
<1>4. PICK step : step = [p \in cs \X V |-> (p[2] * (100 - p[1].confidence)) \div 100]
  OBVIOUS
<1>5. ASSUME NEW c \in cs, NEW rest \in Int PROVE (rest * (100 - c.confidence)) \div 100 \in Int
  <2>1. PICK n \in Int : n = 100 - c.confidence
    BY <1>1
  <2>2. PICK m \in Int : m = rest * n
    OBVIOUS
  <2>3. m \div 100 \in Int
    OBVIOUS
  <2> QED BY <2>1, <2>2, <2>3
<1>6. step \in [cs \X V -> V]
  <2>1. ASSUME NEW p \in cs \X V PROVE step[p] \in V
    <3>1. p[1] \in cs /\ p[2] \in Int
      BY <1>2
    <3>2. (p[2] * (100 - p[1].confidence)) \div 100 \in Int
      BY <1>5, <3>1
    <3> QED BY <1>2, <1>4, <3>2
  <2> QED BY <1>4, <2>1
<1>7. HasFold(step, z, cs, V)
  BY <1>1, <1>6, FoldExists
<1>8. PICK g \in [SUBSET cs -> V] : Folding(g, step, z, SUBSET cs)
  BY <1>7 DEF HasFold
<1>9. ASSUME NEW s \in SUBSET cs
      PROVE  g[s] = IF s = {} THEN Certain
                    ELSE (g[s \ {CHOOSE x \in s : TRUE}] * (100 - (CHOOSE x \in s : TRUE).confidence)) \div 100
  <2>1. CASE s = {}
    BY <1>3, <1>8, <2>1 DEF Folding
  <2>2. CASE s # {}
    <3>1. PICK x : x = CHOOSE y \in s : TRUE
      OBVIOUS
    <3>2. x \in s /\ s \ {x} \in SUBSET cs
      BY <2>2, <3>1
    <3>3. g[s] = step[<<x, g[s \ {x}]>>]
      BY <1>8, <2>2, <3>1 DEF Folding, OneOf
    <3>4. <<x, g[s \ {x}]>> \in cs \X V
      BY <1>8, <3>2
    <3>5. g[s] = (g[s \ {x}] * (100 - x.confidence)) \div 100
      BY <1>4, <3>3, <3>4
    <3> QED BY <2>2, <3>1, <3>5
  <2> QED BY <2>1, <2>2
<1> DEFINE Runs(h) == h = [s \in SUBSET cs |->
                  IF s = {} THEN Certain
                  ELSE (h[s \ {CHOOSE x \in s : TRUE}] * (100 - (CHOOSE x \in s : TRUE).confidence)) \div 100]
           it == CHOOSE h : Runs(h)
<1>10. FusedConfidence(cs) = Certain - it[cs]
  BY DEF FusedConfidence, FoldSet, MapThenFoldSet
<1>11. Runs(g)
  BY <1>8, <1>9
<1>12. PICK c : c = it
  OBVIOUS
<1>13. Runs(c)
  <2> HIDE DEF Runs
  <2> QED BY <1>11, <1>12
<1> HIDE DEF it
<1> DEFINE G == {s \in SUBSET cs : c[s] \in Int}
<1>14. ASSUME NEW s \in SUBSET cs, \A r \in SUBSET s : r # s => r \in G PROVE c[s] \in Int
  <2>1. CASE s = {}
    BY <1>2, <1>3, <1>13, <2>1
  <2>2. CASE s # {}
    <3>1. PICK x : x = CHOOSE y \in s : TRUE
      OBVIOUS
    <3>2. x \in s /\ s \ {x} \in SUBSET s /\ s \ {x} # s
      BY <2>2, <3>1
    <3>3. c[s \ {x}] \in Int
      BY <1>14, <3>2
    <3>4. c[s] = (c[s \ {x}] * (100 - x.confidence)) \div 100
      BY <1>13, <2>2, <3>1
    <3> QED BY <1>5, <3>2, <3>3, <3>4
  <2> QED BY <2>1, <2>2
<1>15. \A s \in SUBSET cs : (\A r \in SUBSET s : r # s => r \in G) => s \in G
  BY <1>14
<1> HIDE DEF G
<1>16. \A s \in SUBSET cs : s \in G
  BY <1>1, <1>15, BySubsets
<1>17. c[cs] \in Int
  BY <1>16 DEF G
<1>18. Certain \in Int
  BY <1>2, <1>3
<1> QED BY <1>10, <1>12, <1>17, <1>18

\* The share of the rows is a number.
LEMMA RatioIsInt ==
    ASSUME NEW n \in Int, NEW rows \in Int
    PROVE  Ratio(n, rows) \in Int
<1>1. CASE rows <= 0
  BY <1>1 DEF Ratio
<1>2. CASE rows > 0
  <2>1. PICK m \in Int : m = n * 1000
    OBVIOUS
  <2>2. m \div rows \in Int
    BY <1>2
  <2>3. Min({1000, m \div rows}) \in Int
    <3>1. PICK q \in Int : q = m \div rows
      BY <2>2
    <3>2. PICK k \in Int : k = 1000
      OBVIOUS
    <3>3. Min({k, q}) \in {k, q}
      BY LeastOfTwo
    <3> QED BY <3>1, <3>2, <3>3
  <2> QED BY <1>2, <2>1, <2>3 DEF Ratio
<1> QED BY <1>1, <1>2

\* The fused count is a number, and no less than that of any finding that lists no rows.
LEMMA AffectedIs ==
    ASSUME NEW cs, AllFindings(cs), cs # {}
    PROVE  /\ AffectedCount(cs) \in Int
           /\ ListedRows(cs) = {} => \A c \in cs : AffectedCount(cs) >= c.affected
           /\ \A c \in cs : c.detector = "cross_field_rule" => AffectedCount(cs) >= Min({20, c.affected})
<1>1. IsFiniteSet(cs) /\ \A c \in cs : c.affected \in Int
  BY DEF AllFindings, IsFinding
<1>2. PICK C : C = {d \in cs : d.detector = "cross_field_rule"}
  OBVIOUS
<1>3. PICK f : f = [c \in C |-> Min({20, c.affected})]
  OBVIOUS
<1>4. PICK L : L = {f[c] : c \in C}
  OBVIOUS
<1>5. L = ListedRows(cs)
  BY <1>2, <1>3, <1>4 DEF ListedRows
<1>6. \A c \in C : f[c] \in Int
  <2> SUFFICES ASSUME NEW c \in C PROVE f[c] \in Int
    OBVIOUS
  <2>1. PICK n \in Int : n = c.affected
    BY <1>1, <1>2
  <2>2. PICK k \in Int : k = 20
    OBVIOUS
  <2>3. Min({k, n}) \in {k, n}
    BY LeastOfTwo
  <2> QED BY <1>3, <2>1, <2>2, <2>3
<1>7. IsFiniteSet(C)
  BY <1>1, <1>2, FS_Subset
<1>8. IsFiniteSet(L) /\ L \subseteq Int
  BY <1>4, <1>6, <1>7, FiniteImage
<1>9. PICK g : g = [c \in cs |-> c.affected]
  OBVIOUS
<1>10. PICK A : A = {g[c] : c \in cs}
  OBVIOUS
<1>11. A = {c.affected : c \in cs}
  BY <1>9, <1>10
<1>12. IsFiniteSet(A) /\ A \subseteq Int /\ A # {}
  BY <1>1, <1>9, <1>10, FiniteImage
<1>13. CASE L # {}
  <2>1. AffectedCount(cs) = Max(L)
    BY <1>5, <1>13 DEF AffectedCount
  <2>2. Max(L) \in L /\ \A y \in L : Max(L) >= y
    BY <1>8, <1>13, LargestOf
  <2>3. \A c \in cs : c.detector = "cross_field_rule" => Min({20, c.affected}) \in L
    BY <1>2, <1>3, <1>4
  <2> QED BY <1>5, <1>8, <1>13, <2>1, <2>2, <2>3
<1>14. CASE L = {}
  <2>1. AffectedCount(cs) = Max(A)
    BY <1>5, <1>11, <1>14 DEF AffectedCount
  <2>2. Max(A) \in A /\ \A y \in A : Max(A) >= y
    BY <1>12, LargestOf
  <2>3. \A c \in cs : c.affected \in A
    BY <1>11
  <2>4. \A c \in cs : c.detector # "cross_field_rule"
    BY <1>2, <1>4, <1>14
  <2> QED BY <1>12, <2>1, <2>2, <2>3, <2>4
<1> QED BY <1>13, <1>14

(* An issue has the columns and the family of its candidates, names their detectors *)
(* and has numbers where a number is due.                                           *)
IsIssue(i) ==
    /\ i = [x \in {"columns", "family", "severity", "confidence", "affected", "ratio",
                   "detectors", "agreeing", "priority"} |-> i[x]]
    /\ i.severity \in Members(Severities)
    /\ i.confidence \in Int /\ i.affected \in Int /\ i.ratio \in Int /\ i.agreeing \in Int

\* The cluster of a finding holds it.
LEMMA ClusterFinds ==
    ASSUME NEW cs, AllFindings(cs), NEW c \in cs
    PROVE  LET own == Cluster(cs, Key(c))
           IN  AllFindings(own) /\ own # {} /\ c \in own /\ own \subseteq cs
<1>1. PICK own : own = Cluster(cs, Key(c))
  OBVIOUS
<1>2. own \subseteq cs /\ c \in own
  BY <1>1 DEF Cluster
<1>3. AllFindings(own)
  BY <1>2, FS_Subset DEF AllFindings
<1> QED BY <1>1, <1>2, <1>3

\* Fusion makes an issue of each cluster.
LEMMA FusedIssue ==
    ASSUME NEW cs, AllFindings(cs), NEW c \in cs, NEW rows \in Int
    PROVE  IsIssue(IssueOf(Cluster(cs, Key(c)), Key(c), rows))
<1>1. PICK own : own = Cluster(cs, Key(c))
  OBVIOUS
<1>2. AllFindings(own) /\ own # {}
  BY <1>1, ClusterFinds
<1>3. WorstOf(own) \in Members(Severities)
  BY <1>2, WorstIs DEF AllFindings, IsFinding
<1>4. FusedConfidence(own) \in Int
  BY <1>2, ConfidenceIsInt
<1>5. AffectedCount(own) \in Int
  BY <1>2, AffectedIs
<1>6. Ratio(AffectedCount(own), rows) \in Int
  BY <1>5, RatioIsInt
<1>7. Cardinality(own) \in Int
  BY <1>2, FS_CardinalityType DEF AllFindings
<1> QED BY <1>1, <1>3, <1>4, <1>5, <1>6, <1>7 DEF IsIssue, IssueOf

\* The range of a priority, as its two bounds.
LEMMA PriorityRange == \A m \in Int : m >= 0 /\ m <= 10000 => m \in Priorities
<1>1. \A k, m \in Int : m >= 0 /\ m <= k => m \in 0 .. k
  OBVIOUS
<1>2. PICK z \in Int : z = 10000
  OBVIOUS
<1>3. Priorities = 0 .. z
  BY <1>2 DEF Priorities
<1>4. ASSUME NEW m \in Int, m >= 0, m <= 10000 PROVE m \in Priorities
  <2>1. m <= z
    BY <1>2, <1>4
  <2>2. m \in 0 .. z
    BY <1>1, <1>4, <2>1
  <2> QED BY <1>3, <2>2
<1> QED BY <1>4

\* A priority lies in its range.
LEMMA PriorityIs ==
    ASSUME NEW i, IsIssue(i)
    PROVE  Priority(i) \in Priorities
<1>1. PICK w \in Int : w = SeverityWeight(i.severity)
  BY Ranks DEF IsIssue
<1>2. PICK r \in Int : r = i.ratio * 20
  BY DEF IsIssue
<1>3. PICK scope \in Int : scope = Min({1000, r})
  <2>1. PICK k \in Int : k = 1000
    OBVIOUS
  <2>2. Min({k, r}) \in {k, r}
    BY LeastOfTwo
  <2> QED BY <2>1, <2>2
<1>4. PICK n \in Int : n = i.agreeing
  BY DEF IsIssue
<1>5. PICK agreement \in Int : agreement = Min({3, n})
  <2>1. PICK k \in Int : k = 3
    OBVIOUS
  <2>2. Min({k, n}) \in {k, n}
    BY LeastOfTwo
  <2> QED BY <2>1, <2>2
<1>6. PICK k \in Int : k = i.confidence
  BY DEF IsIssue
<1>7. PICK total \in Int : total = w + (25 * k) \div 10000 + (15 * scope) \div 10 + 500 * agreement + 2400
  OBVIOUS
<1>8. PICK capped \in Int : capped = Min({10000, total}) /\ capped <= 10000
  <2>1. PICK z \in Int : z = 10000
    OBVIOUS
  <2>2. Min({z, total}) \in {z, total} /\ Min({z, total}) <= z
    BY LeastOfTwo
  <2> QED BY <2>1, <2>2
<1>9. Max({0, capped}) \in Priorities
  <2>1. PICK z \in Int : z = 0
    OBVIOUS
  <2>2. Max({z, capped}) \in {z, capped} /\ Max({z, capped}) >= z
    BY LargestOfTwo
  <2>3. PICK m \in Int : m = Max({z, capped})
    BY <2>2
  <2>4. m >= 0 /\ m <= 10000
    <3>1. m \in {z, capped} /\ m >= z
      BY <2>2, <2>3
    <3> QED BY <1>8, <2>1, <3>1
  <2>5. m \in Priorities
    BY <2>4, PriorityRange
  <2> QED BY <2>1, <2>3, <2>5
<1>10. Priority(i) = Max({0, Min({10000, w + (25 * k) \div 10000 + (15 * scope) \div 10 + 500 * agreement + 2400})})
  BY <1>1, <1>2, <1>3, <1>4, <1>5, <1>6 DEF Priority
<1>11. Priority(i) = Max({0, Min({10000, total})})
  BY <1>7, <1>10
<1> QED BY <1>8, <1>9, <1>11

\* What fusion and scoring return are issues, and each detector named by one had a finding on its columns.
LEMMA ScoredIssue ==
    ASSUME NEW cs, AllFindings(cs), NEW rows \in Int, NEW i \in Scored(fuse(cs, rows))
    PROVE  /\ IsIssue(i) /\ i.priority \in Priorities
           /\ \A d \in i.detectors : \E f \in cs : f.detector = d /\ Members(f.columns) = i.columns
<1>1. PICK c \in cs : \E u : /\ u = IssueOf(Cluster(cs, Key(c)), Key(c), rows)
                            /\ i = [u EXCEPT !.priority = Priority(u)]
  BY DEF Scored, fuse
<1>2. PICK u : u = IssueOf(Cluster(cs, Key(c)), Key(c), rows) /\ i = [u EXCEPT !.priority = Priority(u)]
  BY <1>1
<1>3. IsIssue(u)
  BY <1>2, FusedIssue
<1>4. Priority(u) \in Priorities
  BY <1>3, PriorityIs
<1>5. PICK n : n = Priority(u)
  OBVIOUS
<1>6. IsIssue(i) /\ i.priority = n /\ i.columns = u.columns /\ i.detectors = u.detectors
  BY <1>2, <1>3, <1>5 DEF IsIssue
<1>7. u.columns = Key(c)[1] /\ u.detectors = {f.detector : f \in Cluster(cs, Key(c))}
  BY <1>2 DEF IssueOf
<1>8. ASSUME NEW d \in i.detectors PROVE \E f \in cs : f.detector = d /\ Members(f.columns) = i.columns
  <2>1. PICK f \in Cluster(cs, Key(c)) : f.detector = d
    BY <1>6, <1>7
  <2>2. f \in cs /\ Key(f) = Key(c)
    BY DEF Cluster
  <2>3. Members(f.columns) = i.columns
    BY <1>6, <1>7, <2>2 DEF Key
  <2> QED BY <2>1, <2>2, <2>3
<1> QED BY <1>4, <1>5, <1>6, <1>8

\* Only one detector has the family whose rows are listed.
LEMMA CrossFieldFamily ==
    \A d \in Members(Registry) : issue_family(d) = "cross_field_constraint" => d = "cross_field_rule"
  BY RegistryIs DEF issue_family, TableDetectors, ForeignKey, Numeric, Categorical, Temporal

\* Every finding lies in an issue that covers it.
LEMMA FusionCovers ==
    ASSUME NEW cs, AllFindings(cs), NEW rows \in Int, NEW f \in cs, f.detector \in Members(Registry)
    PROVE  \E i \in Scored(fuse(cs, rows)) : Covers(i, f)
<1>1. PICK own : own = Cluster(cs, Key(f))
  OBVIOUS
<1>2. AllFindings(own) /\ own # {} /\ f \in own
  BY <1>1, ClusterFinds
<1>3. PICK u : u = IssueOf(own, Key(f), rows)
  OBVIOUS
<1>4. IsIssue(u)
  BY <1>1, <1>3, FusedIssue
<1>5. PICK i : i = [u EXCEPT !.priority = Priority(u)]
  OBVIOUS
<1>6. i \in Scored(fuse(cs, rows))
  BY <1>1, <1>3, <1>5 DEF Scored, fuse
<1>7. /\ i.columns = Members(f.columns) /\ i.family = issue_family(f.detector)
      /\ i.severity = WorstOf(own) /\ i.affected = AffectedCount(own)
      /\ i.detectors = {c.detector : c \in own}
  BY <1>3, <1>4, <1>5 DEF IsIssue, IssueOf, Key
<1>8. AtLeast(i.severity, f.severity)
  BY <1>2, <1>7, WorstIs DEF AllFindings, IsFinding
<1>9. f.detector \in i.detectors
  BY <1>2, <1>7
<1>10. CASE f.detector = "cross_field_rule"
  <2>1. i.affected >= Min({20, f.affected})
    BY <1>2, <1>7, <1>10, AffectedIs
  <2> QED BY <1>6, <1>7, <1>8, <1>9, <1>10, <2>1 DEF Covers
<1>11. CASE f.detector # "cross_field_rule"
  <2>1. ASSUME NEW c \in own PROVE c.detector # "cross_field_rule"
    <3>1. issue_family(c.detector) = issue_family(f.detector)
      BY <1>1 DEF Cluster, Key
    <3>2. issue_family("cross_field_rule") = "cross_field_constraint"
      <4>1. "cross_field_rule" \notin Members(Completeness) /\ "cross_field_rule" \notin Members(Uniqueness)
        BY RegistryIs
      <4> QED BY <4>1 DEF issue_family, Numeric, Categorical, Temporal
    <3> QED BY <1>11, <3>1, <3>2, CrossFieldFamily
  <2>2. ListedRows(own) = {}
    BY <2>1 DEF ListedRows
  <2>3. i.affected >= f.affected
    BY <1>2, <1>7, <2>2, AffectedIs
  <2> QED BY <1>6, <1>7, <1>8, <1>9, <1>11, <2>3 DEF Covers
<1> QED BY <1>10, <1>11

\* A filtered sequence holds what the filter keeps.
LEMMA ThoseAre ==
    ASSUME NEW T, NEW s \in Seq(T), NEW K, K \subseteq DOMAIN s,
           NEW u, u = [i \in DOMAIN s |-> IF i \in K THEN <<s[i]>> ELSE <<>>]
    PROVE  /\ FlattenSeq(u) \in Seq({s[i] : i \in K})
           /\ \A i \in K : s[i] \in Members(FlattenSeq(u))
<1>1. PICK S : S = {s[i] : i \in K}
  OBVIOUS
<1>2. PICK n \in Nat : DOMAIN s = 1 .. n
  OBVIOUS
<1>3. u \in Seq(Seq(S))
  <2>1. ASSUME NEW i \in 1 .. n PROVE u[i] \in Seq(S)
    <3>1. CASE i \in K
      <4>1. PICK x \in S : x = s[i]
        BY <1>1, <3>1
      <4>2. <<x>> \in Seq(S)
        OBVIOUS
      <4>3. u[i] = <<x>>
        BY <1>2, <3>1, <4>1
      <4> QED BY <4>2, <4>3
    <3>2. CASE i \notin K
      <4>1. u[i] = <<>>
        BY <1>2, <3>2
      <4>2. <<>> \in Seq(S)
        OBVIOUS
      <4> QED BY <4>1, <4>2
    <3> QED BY <3>1, <3>2
  <2>2. u = [i \in 1 .. n |-> u[i]]
    BY <1>2
  <2>3. PICK Q : Q = Seq(S)
    OBVIOUS
  <2>4. u \in [1 .. n -> Q]
    BY <2>1, <2>2, <2>3
  <2>5. u \in Seq(Q)
    BY <2>4, SeqDef
  <2> QED BY <2>3, <2>5
<1>4. PICK w : w = FlattenSeq(u)
  OBVIOUS
<1>5. w \in Seq(S)
  BY <1>3, <1>4, FlattenIsSeq
<1>6. ASSUME NEW i \in K PROVE s[i] \in Members(w)
  <2>1. i \in DOMAIN u /\ u[i] = <<s[i]>>
    OBVIOUS
  <2>2. Within(u[i], w)
    BY <1>3, <1>4, <2>1, FlattenHolds
  <2>3. 1 \in DOMAIN u[i] /\ u[i][1] = s[i]
    BY <2>1
  <2> QED BY <2>2, <2>3 DEF Within, Members
<1> QED BY <1>1, <1>4, <1>5, <1>6

-----------------------------------------------------------------------------
(* What a scan can see. *)
LEMMA TablesAre ==
    ASSUME NEW v \in Versions
    PROVE  IsTable(Tables[v]) /\ IsTable(Sample(Tables[v])) /\ Rectangular(Tables[v])
  BY TablesAssumption DEF IsTable

\* Every detector but the foreign-key detector reads one table.
LEMMA TableDetectorsAre ==
    Members(Registry) \ {ForeignKey} = TableDetectors /\ Sampling \subseteq TableDetectors
  BY RegistryIs DEF TableDetectors, ForeignKey, Sampling

\* What a detector reports of a version,
LEMMA ReportedIs ==
    ASSUME NEW v \in Versions, NEW d \in Members(Registry) \ {ForeignKey}
    PROVE  Reported[v][d] = Detect(d, Tables[v]) /\ Reports(Reported[v][d], d)
<1>1. Reported[v][d] = Detect(d, Tables[v])
  BY DEF Reported
<1>2. Reports(Detect(d, Tables[v]), d)
  BY TablesAre, TableDetectorsAre, DetectReports
<1> QED BY <1>1, <1>2

\* and of its sample.
LEMMA SampleReportedIs ==
    ASSUME NEW v \in Versions, NEW d \in Sampling
    PROVE  Reports(SampleReported[v][d], d)
<1>1. SampleReported[v][d] = Detect(d, Sample(Tables[v]))
  BY DEF SampleReported
<1>2. PICK t : t = Sample(Tables[v])
  OBVIOUS
<1>3. Reports(Detect(d, t), d)
  BY <1>2, TablesAre, TableDetectorsAre, DetectReports
<1> QED BY <1>1, <1>2, <1>3

\* What contract rules find, under their own names.
LEMMA RulesFind ==
    ASSUME NEW t, Rectangular(t), NEW rules, IsFiniteSet(rules),
           \A r \in rules : r.severity \in Members(Severities)
    PROVE  /\ AllFindings(RuleFindings(rules, t))
           /\ \A f \in RuleFindings(rules, t) : \E r \in rules : f.detector = r.id
<1>1. PICK C : C = {r \in rules : ValidRule(r, t) /\ Failures(r, t) > 0}
  OBVIOUS
<1>2. C \subseteq rules /\ IsFiniteSet(C)
  BY <1>1, FS_Subset
<1>3. PICK f : f = [r \in C |-> Finding(r.id, <<r.column>>, Failures(r, t), r.severity, 95)]
  OBVIOUS
<1>4. ASSUME NEW r PROVE Failures(r, t) \in Int
  BY RowsAreNumbers DEF Failures, Counted
<1>5. ASSUME NEW r \in C PROVE f[r].detector = r.id /\ IsFinding(f[r], f[r].detector)
  <2>1. PICK n \in Int : n = Failures(r, t)
    BY <1>4
  <2>2. 95 \in 0 .. 100 /\ r.severity \in Members(Severities)
    BY <1>2
  <2>3. f[r] = Finding(r.id, <<r.column>>, n, r.severity, 95)
    BY <1>3, <2>1
  <2>4. IsFinding(f[r], r.id)
    BY <2>2, <2>3, AFinding
  <2> QED BY <2>4 DEF IsFinding
<1>6. IsFiniteSet({f[r] : r \in C})
  BY <1>2, FiniteImage
<1>7. RuleFindings(rules, t) = {f[r] : r \in C}
  BY <1>1, <1>3 DEF RuleFindings
<1> QED BY <1>2, <1>5, <1>6, <1>7 DEF AllFindings

\* What is assumed of a command.
LEMMA CommandsAre ==
    ASSUME NEW c \in Commands
    PROVE  /\ c.paths \in Seq(Paths) /\ c.paths # <<>> /\ c.detectors \subseteq Members(Registry)
           /\ Len(c.references) \in Nat /\ IsFiniteSet(c.rules)
           /\ \A r \in c.rules : r.id \notin Members(Registry) /\ r.severity \in Members(Severities)
  BY ScanAssumption

\* A command runs the detectors it selects and no other.
LEMMA SelectedAre ==
    ASSUME NEW c \in Commands
    PROVE  /\ Selected(c) \in Seq(c.detectors)
           /\ c.detectors \subseteq Members(Selected(c))
<1>1. PICK s : s = Registry
  OBVIOUS
<1>2. PICK T : T = Members(Registry)
  OBVIOUS
<1>3. s \in Seq(T)
  BY <1>1, <1>2, RegistryIs
<1>4. PICK K : K = {i \in DOMAIN s : s[i] \in c.detectors}
  OBVIOUS
<1>5. PICK u : u = [i \in DOMAIN s |-> IF i \in K THEN <<s[i]>> ELSE <<>>]
  OBVIOUS
<1>6. u = [i \in DOMAIN s |-> IF s[i] \in c.detectors THEN <<s[i]>> ELSE <<>>]
  BY <1>4, <1>5
<1>7. Selected(c) = FlattenSeq(u)
  BY <1>1, <1>6 DEF Selected, Those
<1>8. K \subseteq DOMAIN s
  BY <1>4
<1>9. FlattenSeq(u) \in Seq({s[i] : i \in K}) /\ \A i \in K : s[i] \in Members(FlattenSeq(u))
  BY <1>3, <1>5, <1>8, ThoseAre
<1>10. {s[i] : i \in K} = c.detectors
  <2>1. c.detectors \subseteq Members(s)
    BY <1>1, CommandsAre
  <2> QED BY <1>4, <2>1 DEF Members
<1>11. \A d \in c.detectors : \E i \in K : s[i] = d
  BY <1>10
<1> QED BY <1>7, <1>9, <1>10, <1>11

(* The inductive invariant: of the running scan, of the rows and of the answers. *)
ScanFields == {"stage", "opened", "full", "sample", "detectors", "completed", "failed", "candidates",
               "looked", "since"}
RowFields == {"path", "detectors", "sampled", "rules", "references", "status", "digest", "cols", "rows",
              "issues", "score", "profile", "looked", "quiet"}
ActiveIn(c, v, d) == IF d = ForeignKey THEN c.references # <<>> ELSE Supports(d, Tables[v])

(* What a scan knows is of the files it has looked into, and no detector is forgotten. *)
Knows(c, s) ==
    /\ s = [x \in ScanFields |-> s[x]]
    /\ s.opened \in Versions /\ s.full \in Int /\ s.since \in Nat /\ s.looked \subseteq Versions
    /\ s.sample = NoSample \/ s.sample \in Versions
    /\ s.detectors \in Seq(c.detectors)
    /\ \A d \in s.completed : d \in c.detectors /\ ActiveIn(c, s.opened, d)
    /\ \A d \in c.detectors : ActiveIn(c, s.opened, d) =>
           d \in s.completed \/ d \in s.failed \/ d \in Members(s.detectors)
    /\ AllFindings(s.candidates)
    /\ \A f \in s.candidates : \E v \in s.looked : f \in Saw(c, v, f.detector)
StageFits(s) ==
    /\ s.stage \in {"count", "first", "second", "rules", "save", "profile"}
    /\ s.stage \in {"first", "second"} => s.detectors # <<>>
    /\ s.stage \in {"rules", "save", "profile"} => s.detectors = <<>>
    /\ s.stage = "second" => Head(s.detectors) \in s.completed
(* A scan nobody has disturbed has looked into one version only, now as when it opened it, *)
(* and its candidates are what the detectors that are done report of that version.         *)
ReadBy(s) == IF s.stage = "second" THEN s.completed \ {Head(s.detectors)} ELSE s.completed
Undisturbed(c, s, v) ==
    /\ s.opened = v /\ s.looked = {v} /\ (s.sample = NoSample \/ s.sample = v)
    /\ s.stage # "count" => s.full = Size(Tables[v])
    /\ ~c.sampled =>
         /\ \A d \in ReadBy(s) \ {ForeignKey} : Reported[v][d] \subseteq s.candidates
         /\ c.rules = {} /\ c.references = <<>> =>
              \A f \in s.candidates : \E d \in s.completed \ {ForeignKey} : f \in Reported[v][d]
IsProcess(p, n) ==
    /\ p = [x \in {"command", "paths", "results", "scan"} |-> p[x]] /\ p.command \in Commands
    /\ p.paths \in Seq(Paths) /\ p.paths # <<>>
    /\ p.results \in Seq(Int) /\ Members(p.results) \subseteq {Missing, Broken} \cup 1 .. n
    /\ Len(p.results) + Len(p.paths) = Len(p.command.paths)
    /\ p.scan = NoScan \/ (Knows(p.command, p.scan) /\ StageFits(p.scan))
(* The row a scan has saved is the last one while it measures its profile. *)
Saved(s, r, p, ch) ==
    r.path = p /\ (s.since = ch => r.quiet /\ r.looked = {s.opened})
ScanInv ==
    proc # Idle /\ scan # NoScan =>
        /\ scan.since <= changes /\ (scan.since = changes => Undisturbed(command, scan, now))
        /\ scan.stage = "profile" => scans # <<>> /\ Saved(scan, scans[Len(scans)], path, changes)
ProcInv == proc # Idle => IsProcess(proc, Len(scans)) /\ Len(answers) < MaxCommands

IsRow(r) ==
    /\ r = [x \in RowFields |-> r[x]]
    /\ r.path \in Paths /\ r.digest \in Versions \cup {Gone} /\ r.looked \subseteq Versions
    /\ r.cols \in Seq(Members(r.cols)) /\ r.score \in Int
    /\ r.status = "completed" \/ r.status = "failed"
    /\ \A i \in r.issues : i.priority \in Priorities
    /\ \A i \in r.issues : \A d \in i.detectors :
          \E v \in r.looked : \E f \in Saw(r, v, d) : f.detector = d /\ Members(f.columns) = i.columns
IsComplete(r) ==
    r.quiet /\ ~r.sampled /\ r.status = "completed" =>
        \A d \in r.detectors \ {ForeignKey} :
            Supports(d, Tables[r.digest]) =>
                \A f \in Reported[r.digest][d] : \E i \in r.issues : Covers(i, f)
IsExpected(r) ==
    r.quiet /\ r.digest # Gone /\ r.status = "completed" /\ r.rules = {} /\ r.references = <<>> =>
        r.issues = Expected(r, r.digest)
IsSeq(q) == \E S : q \in Seq(S)

(* profiles that are measured anew, as a relation of the rows *)
Earlier(rows, n) == {m \in 1 .. n - 1 : rows[m].path = rows[n].path /\ rows[m].status = "completed"}
MeasuredAnew(rows, n) ==
    /\ rows[n].quiet /\ rows[n].profile # NoProfile /\ Earlier(rows, n) # {}
    /\ DOMAIN rows[Max(Earlier(rows, n))].profile = DOMAIN rows[n].profile
    => \A c \in DOMAIN rows[n].profile : {rows[n].profile[c]} = rows[n].looked
RowsInv ==
    /\ IsSeq(scans)
    /\ \A n \in DOMAIN scans :
          IsRow(scans[n]) /\ IsComplete(scans[n]) /\ IsExpected(scans[n]) /\ MeasuredAnew(scans, n)
CleanAnswer(a, rows) ==
    a.command.face = "cli" /\ a.exit = "ok" =>
        /\ Len(a.results) = Len(a.command.paths)
        /\ \A n \in Members(a.results) :
              /\ n \in DOMAIN rows /\ rows[n].status = "completed"
              /\ ~(a.command.gate.repair /\ Repaired) =>
                    ~\E i \in rows[n].issues :
                        i.severity \in a.command.gate.fail_on /\ i.ratio > a.command.gate.ratio
SoundCache(a, rows) ==
    a.cached =>
        LET r == rows[Last(a.results)]
        IN  /\ Last(a.results) \in DOMAIN rows /\ r.status = "completed"
            /\ r.quiet /\ r.rules = {} /\ r.references = <<>> => r.issues = Expected(r, a.now)
AnswersInv ==
    /\ IsSeq(answers) /\ Len(answers) <= MaxCommands
    /\ \A k \in DOMAIN answers : CleanAnswer(answers[k], scans) /\ SoundCache(answers[k], scans)
IInv ==
    /\ file \in [Paths -> Versions \cup {Gone}] /\ changes \in Nat /\ changes <= MaxChanges
    /\ ProcInv /\ ScanInv /\ RowsInv /\ AnswersInv

-----------------------------------------------------------------------------
(* What a detector finds at a step is seen in the version it reads. *)
LEMMA FindingsAre ==
    ASSUME command \in Commands, now \in Versions \cup {Gone},
           scan.sample = NoSample \/ scan.sample \in Versions,
           NEW d \in command.detectors, Answers(d)
    PROVE  /\ Source(d) \in Versions /\ Reports(Findings(d), d)
           /\ \A f \in Findings(d) : f \in Saw(command, Source(d), d)
           /\ ~command.sampled /\ d # ForeignKey => Findings(d) = Reported[now][d]
           /\ Source(d) = now \/ (OnSample(d) /\ Source(d) = scan.sample)
<1>0. d \in Members(Registry)
  BY CommandsAre
<1>1. Readable => now \in Versions
  BY DEF Readable
<1>2. CASE d = ForeignKey
  <2>1. ~OnSample(d) /\ d \notin TableDetectors
    BY <1>2, TableDetectorsAre DEF OnSample
  <2>2. Source(d) = now /\ now \in Versions /\ Findings(d) = ForeignKeys(now).found
    BY <1>1, <1>2, <2>1 DEF Answers, Source, Findings
  <2>3. PICK refs : refs = command.references
    OBVIOUS
  <2>4. Len(refs) \in Nat
    BY <2>3, CommandsAre
  <2>5. PICK v \in Versions : v = now
    BY <2>2
  <2>6. Reports(ForeignKeyViolation(Tables[v], "csv", refs).found, "foreign_key_violation")
    BY <2>4, TablesAre, ForeignKeyReports
  <2>7. Findings(d) = ForeignKeyViolation(Tables[v], "csv", refs).found
    BY <2>2, <2>3, <2>5 DEF ForeignKeys
  <2>8. Saw(command, v, d) = ForeignKeyViolation(Tables[v], "csv", refs).found
    BY <1>2, <2>3 DEF Saw, DetectorIds
  <2> QED BY <1>2, <2>1, <2>2, <2>5, <2>6, <2>7, <2>8 DEF ForeignKey
<1>3. CASE OnSample(d)
  <2>1. d # ForeignKey /\ d \in Sampling /\ command.sampled
    BY <1>3, TableDetectorsAre DEF OnSample
  <2>2. PICK v \in Versions : v = Source(d)
    BY <1>1, <1>3 DEF Answers, Source
  <2>3. Findings(d) = SampleReported[v][d]
    BY <1>3, <2>1, <2>2 DEF Findings
  <2>4. Reports(SampleReported[v][d], d)
    BY <2>1, SampleReportedIs
  <2>5. Saw(command, v, d) = Reported[v][d] \cup SampleReported[v][d]
    BY <1>0, <2>1 DEF Saw, DetectorIds
  <2>6. Source(d) = now \/ Source(d) = scan.sample
    BY DEF Source
  <2> QED BY <1>3, <2>1, <2>2, <2>3, <2>4, <2>5, <2>6
<1>4. CASE d # ForeignKey /\ ~OnSample(d)
  <2>1. PICK v \in Versions : v = now
    BY <1>1, <1>4 DEF Answers
  <2>2. Source(d) = v /\ Findings(d) = Reported[v][d]
    BY <1>4, <2>1 DEF Source, Findings
  <2>3. Reports(Reported[v][d], d)
    BY <1>0, <1>4, ReportedIs
  <2>4. \A f \in Reported[v][d] : f \in Saw(command, v, d)
    BY <1>0, <1>4 DEF Saw, DetectorIds
  <2> QED BY <1>4, <2>1, <2>2, <2>3, <2>4
<1> QED BY <1>2, <1>3, <1>4

\* What the rules find is seen in the version they read.
LEMMA RulesAreSeen ==
    ASSUME command \in Commands, scan.opened \in Versions, NEW v \in Versions,
           Tables[v].cols = Tables[scan.opened].cols,
           NEW valid, valid = {r \in command.rules : ValidRule(r, Tables[scan.opened])}
    PROVE  /\ AllFindings(RuleFindings(valid, Tables[v]))
           /\ \A f \in RuleFindings(valid, Tables[v]) : f \in Saw(command, v, f.detector)
<1>1. valid \subseteq command.rules /\ IsFiniteSet(valid)
  BY CommandsAre, FS_Subset
<1>2. PICK t : t = Tables[v]
  OBVIOUS
<1>3. Rectangular(t)
  BY <1>2, TablesAre
<1>4. \A r \in valid : r.severity \in Members(Severities) /\ r.id \notin Members(Registry)
  BY <1>1, CommandsAre
<1>5. /\ AllFindings(RuleFindings(valid, t))
      /\ \A f \in RuleFindings(valid, t) : \E r \in valid : f.detector = r.id
  <2>1. \A r \in valid : r.severity \in Members(Severities)
    BY <1>4
  <2> QED BY <1>1, <1>3, <2>1, RulesFind
<1>6. valid = {r \in command.rules : ValidRule(r, Tables[v])}
  BY DEF ValidRule, ColumnsOf
<1>7. ASSUME NEW f \in RuleFindings(valid, t) PROVE f \in Saw(command, v, f.detector)
  <2>1. PICK d : d = f.detector
    OBVIOUS
  <2>2. d \notin Members(Registry)
    BY <1>4, <1>5, <2>1
  <2>3. d # ForeignKey
    BY <2>2, RegistryIs
  <2>4. PICK r \in valid : /\ ValidRule(r, t) /\ Failures(r, t) > 0
                           /\ f = Finding(r.id, <<r.column>>, Failures(r, t), r.severity, 95)
    BY DEF RuleFindings
  <2>5. r.id = d
    BY <2>1, <2>4 DEF Finding
  <2>6. r \in {q \in command.rules : q.id = d /\ ValidRule(q, Tables[v])}
    BY <1>6, <2>5
  <2>7. f \in RuleFindings({q \in command.rules : q.id = d /\ ValidRule(q, Tables[v])}, t)
    BY <2>4, <2>6 DEF RuleFindings
  <2> QED BY <1>2, <2>1, <2>2, <2>3, <2>7 DEF Saw, DetectorIds
<1> QED BY <1>2, <1>5, <1>7

(* Where a scan goes after a detector changes its stage only. *)
Settled(c, s, v) ==
    /\ s.opened = v /\ s.looked = {v} /\ (s.sample = NoSample \/ s.sample = v)
    /\ s.full = Size(Tables[v])
    /\ ~c.sampled =>
         /\ \A d \in s.completed \ {ForeignKey} : Reported[v][d] \subseteq s.candidates
         /\ c.rules = {} /\ c.references = <<>> =>
              \A f \in s.candidates : \E d \in s.completed \ {ForeignKey} : f \in Reported[v][d]

LEMMA StageOnly ==
    ASSUME NEW c, NEW s, Knows(c, s), NEW stage, NEW q, q = [s EXCEPT !.stage = stage]
    PROVE  /\ Knows(c, q) /\ q.stage = stage
           /\ \A x \in ScanFields \ {"stage"} : q[x] = s[x]
<1>1. s = [x \in ScanFields |-> s[x]]
  BY DEF Knows
<1>2. /\ q = [x \in ScanFields |-> q[x]] /\ q.stage = stage
      /\ \A x \in ScanFields \ {"stage"} : q[x] = s[x]
  BY <1>1 DEF ScanFields
<1>3. /\ q.opened = s.opened /\ q.full = s.full /\ q.sample = s.sample /\ q.detectors = s.detectors
      /\ q.completed = s.completed /\ q.failed = s.failed /\ q.candidates = s.candidates
      /\ q.looked = s.looked /\ q.since = s.since
  BY <1>2 DEF ScanFields
<1>4. Knows(c, q)
  BY <1>2, <1>3 DEF Knows
<1> QED BY <1>2, <1>4

\* The stage a scan goes to fits what is left to do.
LEMMA AfterFits ==
    ASSUME NEW s, Knows(command, s)
    PROVE  /\ Knows(command, After(s)) /\ StageFits(After(s)) /\ After(s).since = s.since
           /\ After(s).stage # "profile"
           /\ \A v : Settled(command, s, v) => Undisturbed(command, After(s), v)
<1>1. PICK stage \in {"first", "rules", "save"} :
          /\ After(s) = [s EXCEPT !.stage = stage]
          /\ stage = "first" <=> s.detectors # <<>>
  BY DEF After
<1>2. PICK q : q = [s EXCEPT !.stage = stage]
  OBVIOUS
<1>3. Knows(command, q) /\ q.stage = stage /\ \A x \in ScanFields \ {"stage"} : q[x] = s[x]
  BY <1>2, StageOnly
<1>4. /\ q.opened = s.opened /\ q.full = s.full /\ q.sample = s.sample /\ q.detectors = s.detectors
      /\ q.completed = s.completed /\ q.candidates = s.candidates
      /\ q.looked = s.looked /\ q.since = s.since
  BY <1>3 DEF ScanFields
<1>5. StageFits(q)
  BY <1>1, <1>3, <1>4 DEF StageFits
<1>6. ASSUME NEW v, Settled(command, s, v) PROVE Undisturbed(command, q, v)
  <2>1. ReadBy(q) = s.completed
    BY <1>3, <1>4 DEF ReadBy
  <2> QED BY <1>4, <1>6, <2>1 DEF Settled, Undisturbed
<1> QED BY <1>1, <1>2, <1>3, <1>4, <1>5, <1>6

\* Head and tail of a sequence that is not empty.
LEMMA SeqHead ==
    ASSUME NEW T, NEW s \in Seq(T), s # <<>>
    PROVE  /\ Head(s) \in T /\ Tail(s) \in Seq(T) /\ Len(Tail(s)) = Len(s) - 1 /\ Len(s) \in Nat
           /\ \A x \in Members(s) : x = Head(s) \/ x \in Members(Tail(s))
<1>1. PICK n \in Nat : n = Len(s) /\ DOMAIN s = 1 .. n /\ n > 0
  OBVIOUS
<1>2. Head(s) = s[1] /\ Head(s) \in T /\ Tail(s) \in Seq(T) /\ Len(Tail(s)) = n - 1
  BY <1>1
<1>3. DOMAIN Tail(s) = 1 .. n - 1 /\ \A i \in 1 .. n - 1 : Tail(s)[i] = s[i + 1]
  BY <1>1
<1>4. ASSUME NEW i \in 1 .. n PROVE s[i] = Head(s) \/ s[i] \in Members(Tail(s))
  <2>1. CASE i = 1
    BY <1>2, <2>1
  <2>2. CASE i # 1
    <3>1. i - 1 \in 1 .. n - 1 /\ (i - 1) + 1 = i
      BY <2>2
    <3>2. Tail(s)[i - 1] = s[i]
      BY <1>3, <3>1
    <3> QED BY <1>3, <3>1, <3>2 DEF Members
  <2> QED BY <2>1, <2>2
<1> QED BY <1>1, <1>2, <1>4 DEF Members

-----------------------------------------------------------------------------
(* What a step of the scan has to leave, and that this keeps the process's part. *)
MovesTo(s) ==
    /\ Knows(command, s) /\ StageFits(s)
    /\ s.since <= changes' /\ (s.since = changes' => Undisturbed(command, s, now))

\* A step of the scan that leaves what it must keeps the part of the process.
LEMMA ScanMoves ==
    ASSUME ProcInv, proc # Idle, NEW s, MovesTo(s), proc' = [proc EXCEPT !.scan = s],
           file' = file, answers' = answers,
           Len(scans) \in Nat, Len(scans') \in Nat, Len(scans) <= Len(scans'),
           s.stage = "profile" => scans' # <<>> /\ Saved(s, scans'[Len(scans')], path, changes')
    PROVE  ProcInv' /\ ScanInv'
<1>1. PICK p, q : p = proc /\ q = proc'
  OBVIOUS
<1>2. PICK m \in Nat, n \in Nat : m = Len(scans) /\ n = Len(scans') /\ m <= n
  OBVIOUS
<1>3. IsProcess(p, m) /\ Len(answers) < MaxCommands
  BY <1>1, <1>2 DEF ProcInv
<1>4. /\ q = [x \in {"command", "paths", "results", "scan"} |-> q[x]]
      /\ q.command = p.command /\ q.paths = p.paths /\ q.results = p.results /\ q.scan = s
  BY <1>1, <1>3 DEF IsProcess
<1>5. p.command = command
  BY <1>1 DEF command
<1>6. IsProcess(q, n)
  <2>1. {Missing, Broken} \cup 1 .. m \subseteq {Missing, Broken} \cup 1 .. n
    BY <1>2
  <2>2. Knows(q.command, q.scan) /\ StageFits(q.scan)
    BY <1>4, <1>5 DEF MovesTo
  <2> QED BY <1>3, <1>4, <2>1, <2>2 DEF IsProcess
<1>7. ProcInv'
  BY <1>1, <1>2, <1>3, <1>6 DEF ProcInv
<1>8. command' = command /\ scan' = s /\ path' = path
  BY <1>1, <1>4 DEF command, scan, path
<1>9. now' = now
  BY <1>8 DEF now
<1>10. ScanInv'
  BY <1>8, <1>9 DEF ScanInv, MovesTo
<1> QED BY <1>7, <1>10

(* The rows and the answers depend on what is stored only. *)
LEMMA StoreStands ==
    ASSUME RowsInv, AnswersInv, scans' = scans, answers' = answers
    PROVE  RowsInv' /\ AnswersInv'
  BY DEF RowsInv, AnswersInv

\* The length and the domain of a sequence.
LEMMA LengthIs == ASSUME NEW q, IsSeq(q) PROVE Len(q) \in Nat /\ DOMAIN q = 1 .. Len(q)
  BY DEF IsSeq

\* A step that touches the scan only keeps the invariant.
LEMMA StepKeeps ==
    ASSUME IInv, proc # Idle, NEW s, MovesTo(s), s.stage # "profile", proc' = [proc EXCEPT !.scan = s],
           file' = file, scans' = scans, answers' = answers, changes' \in Nat, changes' <= MaxChanges
    PROVE  IInv'
<1>1. Len(scans) \in Nat
  BY LengthIs DEF IInv, RowsInv
<1>2. ProcInv' /\ ScanInv'
  BY <1>1, ScanMoves DEF IInv
<1>3. RowsInv' /\ AnswersInv'
  BY StoreStands DEF IInv
<1> QED BY <1>2, <1>3 DEF IInv

\* What the invariant says of a scan under way.
LEMMA Running ==
    ASSUME IInv, proc # Idle, scan # NoScan
    PROVE  /\ command \in Commands /\ Knows(command, scan) /\ StageFits(scan)
           /\ path \in Paths /\ now \in Versions \cup {Gone} /\ changes \in Nat /\ changes <= MaxChanges
           /\ scan.since \in Nat /\ scan.since <= changes
           /\ scan.since = changes => Undisturbed(command, scan, now)
<1>1. PICK p : p = proc
  OBVIOUS
<1>2. PICK n : IsProcess(p, n)
  BY <1>1 DEF IInv, ProcInv
<1>3. p.command \in Commands /\ p.paths \in Seq(Paths) /\ p.paths # <<>>
  BY <1>2 DEF IsProcess
<1>4. command \in Commands
  BY <1>1, <1>3 DEF command
<1>5. Knows(command, scan) /\ StageFits(scan)
  BY <1>1, <1>2 DEF IsProcess, command, scan
<1>6. path \in Paths
  BY <1>1, <1>3 DEF path
<1>7. now \in Versions \cup {Gone}
  BY <1>6 DEF now, IInv
<1> QED BY <1>4, <1>5, <1>6, <1>7 DEF IInv, ScanInv, Knows

\* The size of a version is a number.
LEMMA SizeIsInt == ASSUME NEW v \in Versions PROVE Size(Tables[v]) \in Int
<1>1. PICK t : t = Tables[v] /\ Rectangular(t)
  BY TablesAre
<1>2. Size(t) \in Int
  BY <1>1, RowsAreNumbers DEF Size, Counted
<1> QED BY <1>1, <1>2

\* A file that can be read is a version.
LEMMA ReadableIs ==
    ASSUME now \in Versions \cup {Gone}, Readable
    PROVE  now \in Versions /\ Tables[now].cols = Tables[scan.opened].cols
  BY DEF Readable
(* Each step of a scan that goes on keeps what the scan knows. *)
LEMMA CountMoves ==
    ASSUME IInv, proc # Idle, scan.stage = "count", Readable, changes' = changes,
           NEW s0, s0 = [scan EXCEPT !.full = Size(Tables[now])], NEW s, s = After(s0)
    PROVE  MovesTo(s) /\ s.stage # "profile"
<1>0. scan # NoScan
  BY DEF NoScan
<1>1. PICK c, v : c = scan /\ v = now
  OBVIOUS
<1>2. command \in Commands /\ Knows(command, c) /\ v \in Versions /\ changes \in Nat /\ c.stage = "count"
  BY <1>0, <1>1, Running, ReadableIs
<1>3. PICK n \in Int : n = Size(Tables[v])
  BY <1>2, SizeIsInt
<1>4. c = [x \in ScanFields |-> c[x]] /\ s0 = [c EXCEPT !.full = n]
  BY <1>1, <1>2, <1>3 DEF Knows
<1>5. /\ s0 = [x \in ScanFields |-> s0[x]] /\ s0.full = n
      /\ s0.opened = c.opened /\ s0.sample = c.sample /\ s0.detectors = c.detectors
      /\ s0.completed = c.completed /\ s0.failed = c.failed /\ s0.candidates = c.candidates
      /\ s0.looked = c.looked /\ s0.since = c.since
  BY <1>4 DEF ScanFields
<1>6. Knows(command, s0)
  BY <1>2, <1>5 DEF Knows
<1>7. c.since <= changes /\ (c.since = changes => Undisturbed(command, c, v))
  BY <1>0, <1>1, Running
<1>8. c.since = changes => Settled(command, s0, v)
  BY <1>2, <1>3, <1>5, <1>7 DEF Undisturbed, Settled, ReadBy
<1>9. /\ Knows(command, s) /\ StageFits(s) /\ s.since = s0.since /\ s.stage # "profile"
      /\ Settled(command, s0, v) => Undisturbed(command, s, v)
  BY <1>6, AfterFits
<1> QED BY <1>1, <1>5, <1>7, <1>8, <1>9 DEF MovesTo

\* A detector that does not apply is skipped.
LEMMA SkipMoves ==
    ASSUME IInv, proc # Idle, scan.stage = "first", ~Active(Head(scan.detectors)), changes' = changes,
           NEW s0, s0 = Dropped, NEW s, s = After(s0)
    PROVE  MovesTo(s) /\ s.stage # "profile"
<1>0. scan # NoScan
  BY DEF NoScan
<1>1. PICK c, v : c = scan /\ v = now
  OBVIOUS
<1>2. /\ command \in Commands /\ Knows(command, c) /\ changes \in Nat /\ c.stage = "first"
      /\ c.detectors # <<>>
  BY <1>0, <1>1, Running DEF StageFits
<1>3. PICK d, rest : d = Head(c.detectors) /\ rest = Tail(c.detectors)
  OBVIOUS
<1>4. c = [x \in ScanFields |-> c[x]] /\ s0 = [c EXCEPT !.detectors = rest] /\ ~ActiveIn(command, c.opened, d)
  BY <1>1, <1>2, <1>3 DEF Knows, Dropped, Active, ActiveIn
<1>5. /\ s0 = [x \in ScanFields |-> s0[x]] /\ s0.detectors = rest
      /\ s0.opened = c.opened /\ s0.sample = c.sample /\ s0.full = c.full
      /\ s0.completed = c.completed /\ s0.failed = c.failed /\ s0.candidates = c.candidates
      /\ s0.looked = c.looked /\ s0.since = c.since
  BY <1>4 DEF ScanFields
<1>6. Knows(command, s0)
  <2>1. rest \in Seq(command.detectors) /\ \A x \in Members(c.detectors) : x = d \/ x \in Members(rest)
    BY <1>2, <1>3, SeqHead DEF Knows
  <2> QED BY <1>2, <1>4, <1>5, <2>1 DEF Knows
<1>7. c.since <= changes /\ (c.since = changes => Undisturbed(command, c, v))
  BY <1>0, <1>1, Running
<1>8. c.since = changes => Settled(command, s0, v)
  BY <1>2, <1>5, <1>7 DEF Undisturbed, Settled, ReadBy
<1>9. /\ Knows(command, s) /\ StageFits(s) /\ s.since = s0.since /\ s.stage # "profile"
      /\ Settled(command, s0, v) => Undisturbed(command, s, v)
  BY <1>6, AfterFits
<1> QED BY <1>1, <1>5, <1>7, <1>8, <1>9 DEF MovesTo

\* A detector that cannot answer fails.
LEMMA FailMoves ==
    ASSUME IInv, proc # Idle, scan.stage = "first", changes' = changes \/ changes' = changes + 1,
           NEW s0, s0 = [Dropped EXCEPT !.failed = @ \cup {Head(scan.detectors)}], NEW s, s = After(s0)
    PROVE  MovesTo(s) /\ s.stage # "profile"
<1>0. scan # NoScan
  BY DEF NoScan
<1>1. PICK c, v : c = scan /\ v = now
  OBVIOUS
<1>2. /\ command \in Commands /\ Knows(command, c) /\ changes \in Nat /\ c.stage = "first"
      /\ c.detectors # <<>> /\ c.since \in Nat
  BY <1>0, <1>1, Running DEF StageFits
<1>3. PICK d, rest : d = Head(c.detectors) /\ rest = Tail(c.detectors)
  OBVIOUS
<1>4. /\ c = [x \in ScanFields |-> c[x]]
      /\ s0 = [c EXCEPT !.detectors = rest, !.failed = c.failed \cup {d}]
  BY <1>1, <1>2, <1>3 DEF Knows, Dropped, ScanFields
<1>5. /\ s0 = [x \in ScanFields |-> s0[x]] /\ s0.detectors = rest /\ s0.failed = c.failed \cup {d}
      /\ s0.opened = c.opened /\ s0.sample = c.sample /\ s0.full = c.full
      /\ s0.completed = c.completed /\ s0.candidates = c.candidates
      /\ s0.looked = c.looked /\ s0.since = c.since
  BY <1>4 DEF ScanFields
<1>6. Knows(command, s0)
  <2>1. rest \in Seq(command.detectors) /\ \A x \in Members(c.detectors) : x = d \/ x \in Members(rest)
    BY <1>2, <1>3, SeqHead DEF Knows
  <2> QED BY <1>2, <1>5, <2>1 DEF Knows
<1>7. c.since <= changes /\ (c.since = changes => Undisturbed(command, c, v))
  BY <1>0, <1>1, Running
<1>8. c.since = changes => Settled(command, s0, v)
  BY <1>2, <1>5, <1>7 DEF Undisturbed, Settled, ReadBy
<1>9. /\ Knows(command, s) /\ StageFits(s) /\ s.since = s0.since /\ s.stage # "profile"
      /\ Settled(command, s0, v) => Undisturbed(command, s, v)
  BY <1>6, AfterFits
<1>10. c.since <= changes' /\ (c.since = changes' => c.since = changes)
  BY <1>2, <1>7
<1> QED BY <1>1, <1>5, <1>7, <1>8, <1>9, <1>10 DEF MovesTo

\* A detector that answers is done.
LEMMA DetectMoves ==
    ASSUME IInv, proc # Idle, scan.stage = "first", changes' = changes,
           NEW d, d = Head(scan.detectors), Active(d), Answers(d),
           NEW s, s = [scan EXCEPT !.stage = "second", !.completed = @ \cup {d}, !.sample = Drawn(d),
                                   !.looked = @ \cup {Source(d)}]
    PROVE  MovesTo(s) /\ s.stage = "second"
<1>0. scan # NoScan
  BY DEF NoScan
<1>1. PICK c, v : c = scan /\ v = now
  OBVIOUS
<1>2. /\ command \in Commands /\ Knows(command, c) /\ changes \in Nat /\ c.stage = "first"
      /\ c.detectors # <<>> /\ (c.sample = NoSample \/ c.sample \in Versions)
  BY <1>0, <1>1, Running DEF StageFits, Knows
<1>3. d \in command.detectors
  BY <1>1, <1>2, SeqHead DEF Knows
<1>4. Source(d) \in Versions
  BY <1>0, <1>1, <1>2, <1>3, Running, FindingsAre
<1>5. PICK w \in Versions : w = Source(d)
  BY <1>4
<1>6. PICK z : z = Drawn(d)
  OBVIOUS
<1>7. (z = w \/ z = c.sample) /\ (w = v \/ (w = c.sample /\ c.sample # NoSample))
  BY <1>1, <1>5, <1>6 DEF Drawn, Source
<1>8. /\ c = [x \in ScanFields |-> c[x]] /\ ActiveIn(command, c.opened, d)
      /\ s = [c EXCEPT !.stage = "second", !.completed = c.completed \cup {d}, !.sample = z,
                       !.looked = c.looked \cup {w}]
  BY <1>1, <1>2, <1>5, <1>6 DEF Knows, Active, ActiveIn
<1>9. /\ s = [x \in ScanFields |-> s[x]] /\ s.stage = "second" /\ s.completed = c.completed \cup {d}
      /\ s.sample = z /\ s.looked = c.looked \cup {w} /\ s.detectors = c.detectors
      /\ s.opened = c.opened /\ s.full = c.full /\ s.failed = c.failed /\ s.candidates = c.candidates
      /\ s.since = c.since
  BY <1>8 DEF ScanFields
<1>10. Knows(command, s)
  <2>1. /\ s.sample = NoSample \/ s.sample \in Versions
        /\ s.looked \subseteq Versions /\ c.looked \subseteq s.looked
    BY <1>2, <1>5, <1>7, <1>9 DEF Knows
  <2>2. \A e \in s.completed : e \in command.detectors /\ ActiveIn(command, s.opened, e)
    BY <1>2, <1>3, <1>8, <1>9 DEF Knows
  <2>3. \A e \in command.detectors : ActiveIn(command, s.opened, e) =>
            e \in s.completed \/ e \in s.failed \/ e \in Members(s.detectors)
    BY <1>2, <1>9 DEF Knows
  <2>4. \A f \in s.candidates : \E w2 \in s.looked : f \in Saw(command, w2, f.detector)
    BY <1>2, <1>9, <2>1 DEF Knows
  <2> QED BY <1>2, <1>9, <2>1, <2>2, <2>3, <2>4 DEF Knows
<1>11. StageFits(s)
  BY <1>1, <1>2, <1>9 DEF StageFits
<1>12. c.since <= changes /\ (c.since = changes => Undisturbed(command, c, v))
  BY <1>0, <1>1, Running
<1>13. ASSUME Undisturbed(command, c, v) PROVE Undisturbed(command, s, v)
  <2>1. ReadBy(c) = c.completed /\ ReadBy(s) \subseteq c.completed
    BY <1>1, <1>2, <1>9 DEF ReadBy
  <2>2. w = v /\ (z = v \/ z = NoSample)
    BY <1>7, <1>13 DEF Undisturbed
  <2>3. c.opened = v /\ c.looked = {v} /\ c.full = Size(Tables[v])
    BY <1>2, <1>13 DEF Undisturbed
  <2>4. ASSUME ~command.sampled
        PROVE  /\ \A e \in ReadBy(s) \ {ForeignKey} : Reported[v][e] \subseteq s.candidates
               /\ command.rules = {} /\ command.references = <<>> =>
                    \A f \in s.candidates : \E e \in s.completed \ {ForeignKey} : f \in Reported[v][e]
    BY <1>9, <1>13, <2>1, <2>4 DEF Undisturbed
  <2> QED BY <1>9, <2>2, <2>3, <2>4 DEF Undisturbed
<1> QED BY <1>1, <1>9, <1>10, <1>11, <1>12, <1>13 DEF MovesTo

\* Its findings join the candidates.
LEMMA CandidatesMove ==
    ASSUME IInv, proc # Idle, scan.stage = "second", changes' = changes,
           NEW d, d = Head(scan.detectors), Answers(d),
           NEW s0, s0 = [Dropped EXCEPT !.candidates = @ \cup Findings(d), !.looked = @ \cup {Source(d)}],
           NEW s, s = After(s0)
    PROVE  MovesTo(s) /\ s.stage # "profile"
<1>0. scan # NoScan
  BY DEF NoScan
<1>1. PICK c, v : c = scan /\ v = now
  OBVIOUS
<1>2. /\ command \in Commands /\ Knows(command, c) /\ changes \in Nat /\ c.stage = "second"
      /\ c.detectors # <<>> /\ (c.sample = NoSample \/ c.sample \in Versions) /\ d \in c.completed
  BY <1>0, <1>1, Running DEF StageFits, Knows
<1>3. d \in command.detectors
  BY <1>1, <1>2, SeqHead DEF Knows
<1>4. /\ Source(d) \in Versions /\ Reports(Findings(d), d)
      /\ \A f \in Findings(d) : f \in Saw(command, Source(d), d)
      /\ ~command.sampled /\ d # ForeignKey => Findings(d) = Reported[now][d]
  BY <1>0, <1>1, <1>2, <1>3, Running, FindingsAre
<1>5. PICK w \in Versions : w = Source(d)
  BY <1>4
<1>6. PICK new, rest : new = Findings(d) /\ rest = Tail(c.detectors)
  OBVIOUS
<1>7. w = v \/ (w = c.sample /\ c.sample # NoSample)
  BY <1>1, <1>5, <1>6 DEF Source
<1>8. /\ c = [x \in ScanFields |-> c[x]]
      /\ s0 = [c EXCEPT !.detectors = rest, !.candidates = c.candidates \cup new, !.looked = c.looked \cup {w}]
  BY <1>1, <1>2, <1>5, <1>6 DEF Knows, Dropped, ScanFields
<1>9. /\ s0 = [x \in ScanFields |-> s0[x]] /\ s0.detectors = rest
      /\ s0.candidates = c.candidates \cup new /\ s0.looked = c.looked \cup {w}
      /\ s0.completed = c.completed /\ s0.sample = c.sample
      /\ s0.opened = c.opened /\ s0.full = c.full /\ s0.failed = c.failed
      /\ s0.since = c.since
  BY <1>8 DEF ScanFields
<1>10. Knows(command, s0)
  <2>1. rest \in Seq(command.detectors) /\ \A x \in Members(c.detectors) : x = d \/ x \in Members(rest)
    BY <1>1, <1>2, <1>5, <1>6, SeqHead DEF Knows
  <2>2. \A x \in command.detectors : ActiveIn(command, c.opened, x) =>
            x \in s0.completed \/ x \in s0.failed \/ x \in Members(rest)
    BY <1>2, <1>9, <2>1 DEF Knows
  <2>3. AllFindings(s0.candidates)
    <3>1. IsFiniteSet(new) /\ \A f \in new : IsFinding(f, d)
      BY <1>4, <1>5, <1>6 DEF Reports
    <3>2. \A f \in new : IsFinding(f, f.detector)
      BY <3>1 DEF IsFinding
    <3>3. IsFiniteSet(c.candidates) /\ \A f \in c.candidates : IsFinding(f, f.detector)
      BY <1>2 DEF Knows, AllFindings
    <3>4. IsFiniteSet(c.candidates \cup new)
      BY <3>1, <3>3, FS_Union
    <3> QED BY <1>9, <3>2, <3>3, <3>4 DEF AllFindings
  <2>4. \A f \in s0.candidates : \E x \in s0.looked : f \in Saw(command, x, f.detector)
    <3>1. \A f \in new : f \in Saw(command, w, f.detector)
      BY <1>4, <1>5, <1>6 DEF Reports, IsFinding
    <3>2. \A f \in c.candidates : \E x \in c.looked : f \in Saw(command, x, f.detector)
      BY <1>2 DEF Knows
    <3> QED BY <1>9, <3>1, <3>2
  <2>5. s0.looked \subseteq Versions
    BY <1>2, <1>9 DEF Knows
  <2> QED BY <1>2, <1>9, <2>1, <2>2, <2>3, <2>4, <2>5 DEF Knows
<1>11. c.since <= changes /\ (c.since = changes => Undisturbed(command, c, v))
  BY <1>0, <1>1, Running
<1>12. ASSUME Undisturbed(command, c, v) PROVE Settled(command, s0, v)
  <2>1. ReadBy(c) = c.completed \ {d}
    BY <1>1, <1>2 DEF ReadBy
  <2>2. w = v
    BY <1>7, <1>12 DEF Undisturbed
  <2>3. c.opened = v /\ c.looked = {v} /\ (c.sample = NoSample \/ c.sample = v) /\ c.full = Size(Tables[v])
    BY <1>2, <1>12 DEF Undisturbed
  <2>4. ASSUME ~command.sampled, NEW e \in c.completed \ {ForeignKey} PROVE Reported[v][e] \subseteq s0.candidates
    <3>1. CASE e = d
      BY <1>1, <1>4, <1>5, <1>6, <1>9, <2>4, <3>1
    <3>2. CASE e # d
      BY <1>9, <1>12, <2>1, <2>4, <3>2 DEF Undisturbed
    <3> QED BY <3>1, <3>2
  <2>5. ASSUME ~command.sampled, command.rules = {}, command.references = <<>>, NEW f \in s0.candidates
        PROVE  \E e \in c.completed \ {ForeignKey} : f \in Reported[v][e]
    <3>1. d # ForeignKey
      BY <1>2, <2>5 DEF Knows, ActiveIn
    <3>2. CASE f \in new
      BY <1>1, <1>2, <1>4, <1>5, <1>6, <2>5, <3>1, <3>2
    <3>3. CASE f \in c.candidates
      BY <1>12, <2>5, <3>3 DEF Undisturbed
    <3> QED BY <1>9, <3>2, <3>3
  <2> QED BY <1>9, <2>2, <2>3, <2>4, <2>5 DEF Settled
<1>13. /\ Knows(command, s) /\ StageFits(s) /\ s.since = s0.since /\ s.stage # "profile"
       /\ Settled(command, s0, v) => Undisturbed(command, s, v)
  BY <1>10, AfterFits
<1> QED BY <1>1, <1>9, <1>11, <1>12, <1>13 DEF MovesTo

\* So do the findings of the rules.
LEMMA RulesMove ==
    ASSUME IInv, proc # Idle, scan.stage = "rules", changes' = changes,
           NEW valid, valid = {r \in command.rules : ValidRule(r, Tables[scan.opened])},
           Readable \/ valid = {},
           NEW s, s = [scan EXCEPT
               !.stage = "save",
               !.looked = IF valid = {} THEN @ ELSE @ \cup {now},
               !.candidates = IF valid = {} THEN @ ELSE @ \cup RuleFindings(valid, Tables[now]),
               !.failed = IF command.rules \ valid = {} THEN @ ELSE @ \cup {"contract_rule"}]
    PROVE  MovesTo(s) /\ s.stage # "profile"
<1>0. scan # NoScan
  BY DEF NoScan
<1>1. PICK c, v, looked, candidates, failed :
          /\ c = scan /\ v = now
          /\ looked = IF valid = {} THEN c.looked ELSE c.looked \cup {v}
          /\ candidates = IF valid = {} THEN c.candidates ELSE c.candidates \cup RuleFindings(valid, Tables[v])
          /\ failed = IF command.rules \ valid = {} THEN c.failed ELSE c.failed \cup {"contract_rule"}
  OBVIOUS
<1>2. /\ command \in Commands /\ Knows(command, c) /\ changes \in Nat /\ c.stage = "rules"
      /\ c.detectors = <<>> /\ c.opened \in Versions
  BY <1>0, <1>1, Running DEF StageFits, Knows
<1>3. /\ c = [x \in ScanFields |-> c[x]]
      /\ s = [c EXCEPT !.stage = "save", !.looked = looked, !.candidates = candidates, !.failed = failed]
  BY <1>1, <1>2 DEF Knows
<1>4. /\ s = [x \in ScanFields |-> s[x]] /\ s.stage = "save" /\ s.detectors = c.detectors
      /\ s.candidates = candidates /\ s.looked = looked /\ s.completed = c.completed
      /\ s.sample = c.sample /\ s.opened = c.opened /\ s.full = c.full /\ s.failed = failed
      /\ s.since = c.since
  BY <1>3 DEF ScanFields
<1>5. \A x \in c.failed : x \in failed
  BY <1>1
<1>6. /\ AllFindings(candidates) /\ looked \subseteq Versions
      /\ \A f \in candidates : \E x \in looked : f \in Saw(command, x, f.detector)
  <2>1. CASE valid = {}
    BY <1>1, <1>2, <2>1 DEF Knows
  <2>2. CASE valid # {}
    <3>1. v \in Versions /\ Tables[v].cols = Tables[scan.opened].cols
      BY <1>0, <1>1, <2>2, Running, ReadableIs
    <3>2. PICK new : new = RuleFindings(valid, Tables[v])
      OBVIOUS
    <3>3. AllFindings(new) /\ \A f \in new : f \in Saw(command, v, f.detector)
      BY <1>1, <1>2, <3>1, <3>2, RulesAreSeen
    <3>4. candidates = c.candidates \cup new /\ looked = c.looked \cup {v}
      BY <1>1, <2>2, <3>2
    <3>5. AllFindings(c.candidates) /\ c.looked \subseteq Versions
      BY <1>2 DEF Knows
    <3>6. AllFindings(candidates)
      BY <3>3, <3>4, <3>5, FS_Union DEF AllFindings
    <3>7. \A f \in c.candidates : \E x \in c.looked : f \in Saw(command, x, f.detector)
      BY <1>2 DEF Knows
    <3> QED BY <3>1, <3>3, <3>4, <3>5, <3>6, <3>7
  <2> QED BY <2>1, <2>2
<1>7. Knows(command, s)
  <2>1. \A d \in command.detectors : ActiveIn(command, c.opened, d) =>
            d \in c.completed \/ d \in failed \/ d \in Members(c.detectors)
    BY <1>2, <1>5 DEF Knows
  <2> QED BY <1>2, <1>4, <1>6, <2>1 DEF Knows
<1>8. StageFits(s)
  BY <1>2, <1>4 DEF StageFits
<1>9. c.since <= changes /\ (c.since = changes => Undisturbed(command, c, v))
  BY <1>0, <1>1, Running
<1>10. ASSUME Undisturbed(command, c, v) PROVE Undisturbed(command, s, v)
  <2>1. ReadBy(c) = c.completed /\ ReadBy(s) = c.completed
    BY <1>2, <1>4 DEF ReadBy
  <2>2. looked = {v} /\ c.candidates \subseteq candidates
    BY <1>1, <1>10 DEF Undisturbed
  <2>3. command.rules = {} => candidates = c.candidates
    BY <1>1
  <2>4. c.opened = v /\ (c.sample = NoSample \/ c.sample = v) /\ c.full = Size(Tables[v])
    BY <1>2, <1>10 DEF Undisturbed
  <2>5. ASSUME ~command.sampled
        PROVE  /\ \A e \in c.completed \ {ForeignKey} : Reported[v][e] \subseteq candidates
               /\ command.rules = {} /\ command.references = <<>> =>
                    \A f \in candidates : \E e \in c.completed \ {ForeignKey} : f \in Reported[v][e]
    BY <1>10, <2>1, <2>2, <2>3, <2>5 DEF Undisturbed
  <2> QED BY <1>4, <2>1, <2>2, <2>4, <2>5 DEF Undisturbed
<1> QED BY <1>1, <1>4, <1>7, <1>8, <1>9, <1>10 DEF MovesTo

-----------------------------------------------------------------------------
(* The quality score is a number. *)
LEMMA ImpactIsInt == ASSUME NEW i, IsIssue(i) PROVE Impact(i) \in Int
<1>1. PICK w \in Int : w = SeverityWeight(i.severity)
  BY Ranks DEF IsIssue
<1>2. PICK k \in Int : k = i.confidence \div 1000
  BY DEF IsIssue
<1>3. PICK m \in Int : m = k * w
  OBVIOUS
<1>4. PICK q \in Int : q = m \div 1000
  OBVIOUS
<1>5. Impact(i) = q * i.ratio
  BY <1>1, <1>2, <1>3, <1>4 DEF Impact
<1>6. i.ratio \in Int
  BY DEF IsIssue
<1> QED BY <1>5, <1>6

\* The score of a dimension is a number,
LEMMA DimensionIsInt ==
    ASSUME NEW issues, IsFiniteSet(issues), \A i \in issues : IsIssue(i), NEW d
    PROVE  DimensionScore(issues, d) \in Int
<1>1. PICK own : own = {i \in issues : Canonical(FamilyDimension(i.family)) = d}
  OBVIOUS
<1>2. IsFiniteSet(own) /\ own \subseteq issues
  BY <1>1, FS_Subset
<1>3. PICK f : f = [i \in own |-> Impact(i)]
  OBVIOUS
<1>4. f \in [own -> Int]
  BY <1>2, <1>3, ImpactIsInt
<1>5. PICK sum \in Int : sum = SumFunction(f)
  BY <1>2, <1>4, SumIsInt
<1>6. CASE own = {}
  BY <1>1, <1>6 DEF DimensionScore
<1>7. CASE own # {}
  <2>1. PICK n \in Nat : n = Cardinality(own) /\ n > 0
    BY <1>2, <1>7, FS_CardinalityType, FS_EmptySet
  <2>2. PICK m \in Int : m = 1600 * n /\ m > 0
    BY <2>1
  <2>3. PICK q \in Int : q = 1000 - sum \div m
    BY <2>2
  <2>4. PICK z \in Int : z = 0
    OBVIOUS
  <2>5. Max({z, q}) \in {z, q}
    BY LargestOfTwo
  <2>6. DimensionScore(issues, d) = Max({z, q})
    BY <1>1, <1>3, <1>5, <1>7, <2>1, <2>2, <2>3, <2>4 DEF DimensionScore
  <2> QED BY <2>5, <2>6
<1> QED BY <1>6, <1>7

\* and so is their weighted mean.
LEMMA ScoreIsInt ==
    ASSUME NEW issues, IsFiniteSet(issues), \A i \in issues : IsIssue(i), NEW ran
    PROVE  QualityScore(issues, ran) \in Int
<1>1. PICK D : D = ran \cap Dimensions
  OBVIOUS
<1>2. IsFiniteSet(D)
  <2>1. IsFiniteSet(Dimensions)
    <3>1. PICK s : s = [i \in 1 .. 6 |-> IF i = 1 THEN "completeness" ELSE IF i = 2 THEN "validity"
                                        ELSE IF i = 3 THEN "uniqueness" ELSE IF i = 4 THEN "consistency"
                                        ELSE IF i = 5 THEN "integrity" ELSE "timeliness"]
      OBVIOUS
    <3>2. Dimensions = {s[i] : i \in 1 .. 6}
      BY <3>1 DEF Dimensions
    <3>3. IsFiniteSet({s[i] : i \in 1 .. 6})
      <4>1. \A n \in Int : IsFiniteSet(1 .. n)
        BY FS_Interval
      <4>2. PICK I : I = 1 .. 6 /\ IsFiniteSet(I)
        BY <4>1
      <4>3. IsFiniteSet({s[i] : i \in I})
        BY <4>2, FiniteImage
      <4> QED BY <4>2, <4>3
    <3> QED BY <3>2, <3>3
  <2> QED BY <1>1, <2>1, FS_Subset
<1>3. PICK f, g : /\ f = [d \in D |-> DimensionWeight(d)]
                  /\ g = [d \in D |-> DimensionWeight(d) * DimensionScore(issues, d)]
  OBVIOUS
<1>4. \A d : DimensionWeight(d) \in Nat /\ DimensionWeight(d) > 0
  BY DEF DimensionWeight
<1>5. f \in [D -> Nat] /\ f \in [D -> Int]
  BY <1>3, <1>4
<1>6. g \in [D -> Int]
  <2>1. ASSUME NEW d \in D PROVE g[d] \in Int
    <3>1. PICK w \in Int, x \in Int : w = DimensionWeight(d) /\ x = DimensionScore(issues, d)
      BY <1>4, DimensionIsInt
    <3> QED BY <1>3, <3>1
  <2> QED BY <1>3, <2>1
<1>7. SumFunction(f) \in Int /\ SumFunction(g) \in Int
  BY <1>2, <1>5, <1>6, SumIsInt
<1>8. CASE D = {}
  BY <1>1, <1>8 DEF QualityScore, NoScore
<1>9. CASE D # {}
  <2>1. PICK d \in D : TRUE
    BY <1>9
  <2>2. PICK h : h = Without(f, d)
    OBVIOUS
  <2>3. SumFunction(f) = f[d] + SumFunction(h)
    BY <1>2, <1>5, <2>2, SumTakesOne
  <2>4. SumFunction(h) \in Nat
    <3>1. PICK R : R = D \ {d}
      OBVIOUS
    <3>2. IsFiniteSet(R) /\ h \in [R -> Nat]
      BY <1>2, <1>5, <2>2, <3>1, FS_Subset DEF Without
    <3> QED BY <3>2, SumIsNat
  <2>5. f[d] \in Nat /\ f[d] > 0
    BY <1>3, <1>4
  <2>6. PICK m \in Int, n \in Int : m = SumFunction(f) /\ n = SumFunction(g) /\ m > 0
    BY <1>7, <2>3, <2>4, <2>5
  <2>7. QualityScore(issues, ran) = n \div m
    BY <1>1, <1>3, <1>9, <2>6 DEF QualityScore
  <2> QED BY <2>6, <2>7
<1> QED BY <1>8, <1>9

\* Finitely many findings give finitely many issues.
LEMMA FusedAreFinite ==
    ASSUME NEW cs, IsFiniteSet(cs), NEW rows
    PROVE  IsFiniteSet(Scored(fuse(cs, rows)))
<1>1. PICK f : f = [c \in cs |-> LET u == IssueOf(Cluster(cs, Key(c)), Key(c), rows)
                                 IN  [u EXCEPT !.priority = Priority(u)]]
  OBVIOUS
<1>2. Scored(fuse(cs, rows)) = {f[c] : c \in cs}
  BY <1>1 DEF Scored, fuse
<1>3. IsFiniteSet({f[c] : c \in cs})
  BY FiniteImage
<1> QED BY <1>2, <1>3

\* What can be seen depends on the options of the scan only.
LEMMA SawAlike ==
    ASSUME NEW a, NEW b, a.references = b.references, a.sampled = b.sampled, a.rules = b.rules
    PROVE  \A v, d : Saw(a, v, d) = Saw(b, v, d)
  BY DEF Saw
(* The row a scan saves. *)
LEMMA UndisturbedMeans ==
    ASSUME IInv, proc # Idle, scan.stage = "save", scan.since = changes, ~command.sampled, Readable
    PROVE  /\ scan.opened = now /\ scan.full = Size(Tables[now])
           /\ scan.failed = {} =>
                \A d \in command.detectors \ {ForeignKey} :
                    Supports(d, Tables[now]) => d \in scan.completed /\ Reported[now][d] \subseteq scan.candidates
           /\ command.rules = {} /\ command.references = <<>> =>
                \A f \in scan.candidates : \E d \in command.detectors \ {ForeignKey} :
                    Supports(d, Tables[now]) /\ f \in Reported[now][d]
<1>0. scan # NoScan
  BY DEF NoScan
<1>1. PICK c, v : c = scan /\ v = now
  OBVIOUS
<1>2. Knows(command, c) /\ StageFits(c) /\ Undisturbed(command, c, v) /\ c.stage = "save"
  BY <1>0, <1>1, Running
<1>3. c.detectors = <<>> /\ Members(c.detectors) = {} /\ ReadBy(c) = c.completed
  BY <1>2 DEF StageFits, ReadBy, Members
<1>4. c.opened = v /\ c.full = Size(Tables[v])
  BY <1>2 DEF Undisturbed
<1>5. ASSUME c.failed = {}, NEW d \in command.detectors \ {ForeignKey}, Supports(d, Tables[v])
      PROVE  d \in c.completed /\ Reported[v][d] \subseteq c.candidates
  <2>1. ActiveIn(command, c.opened, d)
    BY <1>4, <1>5 DEF ActiveIn
  <2>2. d \in c.completed
    BY <1>2, <1>3, <1>5, <2>1 DEF Knows
  <2> QED BY <1>2, <1>3, <1>5, <2>2 DEF Undisturbed
<1>6. ASSUME command.rules = {}, command.references = <<>>, NEW f \in c.candidates
      PROVE  \E d \in command.detectors \ {ForeignKey} : Supports(d, Tables[v]) /\ f \in Reported[v][d]
  <2>1. PICK d \in c.completed \ {ForeignKey} : f \in Reported[v][d]
    BY <1>2, <1>6 DEF Undisturbed
  <2>2. d \in command.detectors /\ ActiveIn(command, c.opened, d)
    BY <1>2, <2>1 DEF Knows
  <2> QED BY <1>4, <2>1, <2>2 DEF ActiveIn
<1> QED BY <1>1, <1>4, <1>5, <1>6

RowOf(issues) ==
    [path |-> path, detectors |-> command.detectors, sampled |-> command.sampled,
     rules |-> command.rules, references |-> command.references,
     status |-> IF scan.failed = {} THEN "completed" ELSE "failed",
     digest |-> Digest,
     cols |-> Tables[scan.opened].cols, rows |-> Size(Tables[now]),
     issues |-> issues, score |-> QualityScore(issues, Dimensioned),
     profile |-> NoProfile,
     looked |-> scan.looked \cup {now}, quiet |-> scan.since = changes]

\* The row a scan saves: seen, complete and as expected.
LEMMA RowFits ==
    ASSUME IInv, proc # Idle, scan.stage = "save", Readable,
           NEW issues, issues = Scored(fuse(scan.candidates, scan.full)), NEW r, r = RowOf(issues)
    PROVE  IsRow(r) /\ IsComplete(r) /\ IsExpected(r) /\ Saved(scan, r, path, changes) /\ r.profile = NoProfile
<1>0. scan # NoScan
  BY DEF NoScan
<1>1. PICK c, v : c = scan /\ v = now
  OBVIOUS
<1>2. /\ command \in Commands /\ Knows(command, c) /\ path \in Paths /\ v \in Versions
      /\ c.opened \in Versions /\ c.looked \subseteq Versions /\ c.full \in Int
      /\ AllFindings(c.candidates)
  BY <1>0, <1>1, Running, ReadableIs DEF Knows
<1>3. issues = Scored(fuse(c.candidates, c.full))
  BY <1>1
<1>4. /\ r = [x \in RowFields |-> r[x]] /\ r.path = path /\ r.detectors = command.detectors
      /\ r.sampled = command.sampled /\ r.rules = command.rules /\ r.references = command.references
      /\ r.status = (IF c.failed = {} THEN "completed" ELSE "failed")
      /\ r.digest = (IF command.sampled THEN Gone ELSE v) /\ r.cols = Tables[c.opened].cols
      /\ r.issues = issues /\ r.score = QualityScore(issues, Dimensioned)
      /\ r.profile = NoProfile /\ r.looked = c.looked \cup {v}
  BY <1>1 DEF RowOf, RowFields, Digest
<1>5. r.quiet <=> c.since = changes
  BY <1>1 DEF RowOf
<1>6. ASSUME NEW i \in issues
      PROVE  /\ IsIssue(i) /\ i.priority \in Priorities
             /\ \A d \in i.detectors : \E f \in c.candidates :
                    f.detector = d /\ Members(f.columns) = i.columns
  <2>1. PICK cs : cs = c.candidates
    OBVIOUS
  <2>2. PICK rows \in Int : rows = c.full
    BY <1>2
  <2>3. AllFindings(cs) /\ i \in Scored(fuse(cs, rows))
    BY <1>2, <1>3, <2>1, <2>2
  <2>4. IsIssue(i)
    BY <2>2, <2>3, ScoredIssue
  <2>5. i.priority \in Priorities
    BY <2>2, <2>3, ScoredIssue
  <2>6. \A d \in i.detectors : \E f \in cs : f.detector = d /\ Members(f.columns) = i.columns
    BY <2>2, <2>3, ScoredIssue
  <2> QED BY <1>1, <2>1, <2>4, <2>5, <2>6
<1>7. IsRow(r)
  <2>1. r.cols \in Seq(Members(r.cols))
    <3>1. PICK t : t = Tables[c.opened] /\ Rectangular(t)
      BY <1>2, TablesAre
    <3>2. t.cols \in Seq(Members(t.cols))
      BY <3>1 DEF Rectangular, ColumnsOf, Members
    <3> QED BY <1>4, <3>1, <3>2
  <2>2. r.score \in Int
    <3>1. IsFiniteSet(issues)
      BY <1>2, <1>3, FusedAreFinite DEF AllFindings
    <3> QED BY <1>4, <1>6, <3>1, ScoreIsInt
  <2>3. ASSUME NEW i \in issues, NEW d \in i.detectors
        PROVE  \E w \in r.looked : \E f \in Saw(r, w, d) : f.detector = d /\ Members(f.columns) = i.columns
    <3>1. PICK f \in c.candidates : f.detector = d /\ Members(f.columns) = i.columns
      BY <1>6, <2>3
    <3>2. PICK w \in c.looked : f \in Saw(command, w, d)
      BY <1>2, <3>1 DEF Knows
    <3>3. Saw(r, w, d) = Saw(command, w, d)
      BY <1>4, SawAlike
    <3> QED BY <1>4, <3>1, <3>2, <3>3
  <2>4. r.digest \in Versions \cup {Gone} /\ r.looked \subseteq Versions
    BY <1>2, <1>4
  <2>5. r.path \in Paths /\ (r.status = "completed" \/ r.status = "failed")
    BY <1>2, <1>4
  <2>6. \A i \in r.issues : i.priority \in Priorities
    BY <1>4, <1>6
  <2>7. \A i \in r.issues : \A d \in i.detectors :
            \E w \in r.looked : \E f \in Saw(r, w, d) : f.detector = d /\ Members(f.columns) = i.columns
    BY <1>4, <2>3
  <2> QED BY <1>4, <2>1, <2>2, <2>4, <2>5, <2>6, <2>7 DEF IsRow
<1>8. IsComplete(r)
  <2> SUFFICES ASSUME r.quiet, ~r.sampled, r.status = "completed",
                      NEW d \in r.detectors \ {ForeignKey}, Supports(d, Tables[r.digest]),
                      NEW f \in Reported[r.digest][d]
               PROVE  \E i \in issues : Covers(i, f)
    BY <1>4 DEF IsComplete
  <2>1. r.digest = v /\ c.failed = {} /\ c.since = changes /\ ~command.sampled /\ d \in command.detectors
    BY <1>4, <1>5
  <2>2. f \in c.candidates
    BY <1>1, <2>1, UndisturbedMeans
  <2>3. d \in Members(Registry) \ {ForeignKey}
    BY <1>2, <2>1, CommandsAre
  <2>4. f.detector = d
    BY <1>2, <2>1, <2>3, ReportedIs DEF Reports, IsFinding
  <2> QED BY <1>2, <1>3, <2>2, <2>3, <2>4, FusionCovers
<1>9. IsExpected(r)
  <2> SUFFICES ASSUME r.quiet, r.digest # Gone, r.status = "completed", r.rules = {}, r.references = <<>>
               PROVE  issues = Expected(r, r.digest)
    BY <1>4 DEF IsExpected
  <2>1. r.digest = v /\ c.failed = {} /\ c.since = changes /\ ~command.sampled
        /\ command.rules = {} /\ command.references = <<>>
    BY <1>4, <1>5
  <2>2. PICK E : E = {e \in command.detectors \ {ForeignKey} : Supports(e, Tables[v])}
    OBVIOUS
  <2>3. c.full = Size(Tables[v]) /\ \A d \in E : Reported[v][d] \subseteq c.candidates
    BY <1>1, <2>1, <2>2, UndisturbedMeans
  <2>4. \A f \in c.candidates : \E d \in E : f \in Reported[v][d]
    BY <1>1, <2>1, <2>2, UndisturbedMeans
  <2>5. PICK h : h = Reported[v]
    OBVIOUS
  <2>6. c.candidates = UNION {h[d] : d \in E}
    BY <2>3, <2>4, <2>5
  <2>7. Expected(r, v) = Scored(fuse(UNION {h[d] : d \in E}, Size(Tables[v])))
    <3>1. {e \in r.detectors \ {ForeignKey} : Supports(e, Tables[v])} = E
      BY <1>4, <2>2
    <3>2. {Reported[v][d] : d \in E} = {h[d] : d \in E}
      BY <2>5
    <3> QED BY <3>1, <3>2 DEF Expected
  <2> QED BY <1>3, <2>1, <2>3, <2>6, <2>7
<1>10. Saved(scan, r, path, changes)
  <2>1. c.since = changes => Undisturbed(command, c, v)
    BY <1>0, <1>1, Running
  <2> QED BY <1>1, <1>4, <1>5, <2>1 DEF Saved, Undisturbed
<1> QED BY <1>4, <1>7, <1>8, <1>9, <1>10

-----------------------------------------------------------------------------
(* The stored rows: one is added, and the last one gets its profile. *)
LEMMA AppendIs ==
    ASSUME NEW q, IsSeq(q), NEW x
    PROVE  /\ IsSeq(Append(q, x)) /\ Len(Append(q, x)) = Len(q) + 1
           /\ DOMAIN Append(q, x) = 1 .. Len(q) + 1
           /\ \A n \in 1 .. Len(q) : Append(q, x)[n] = q[n]
           /\ Append(q, x)[Len(q) + 1] = x
<1>1. PICK S : q \in Seq(S)
  BY DEF IsSeq
<1>2. PICK T : T = S \cup {x}
  OBVIOUS
<1>3. q \in Seq(T) /\ x \in T
  BY <1>1, <1>2
<1>4. Append(q, x) \in Seq(T)
  BY <1>3
<1> QED BY <1>3, <1>4 DEF IsSeq

Replaces(r, q, n, x) == r = [m \in DOMAIN q |-> IF m = n THEN x ELSE q[m]]

\* One member of a sequence is replaced.
LEMMA ReplaceIs ==
    ASSUME NEW q, IsSeq(q), NEW n \in DOMAIN q, NEW x, NEW r, Replaces(r, q, n, x)
    PROVE  /\ IsSeq(r) /\ Len(r) = Len(q) /\ r[n] = x
           /\ \A m \in 1 .. Len(q) : m # n => r[m] = q[m]
<1>1. PICK S : q \in Seq(S)
  BY DEF IsSeq
<1>2. PICK T : T = S \cup {x}
  OBVIOUS
<1>3. q \in Seq(T) /\ x \in T
  BY <1>1, <1>2
<1>4. DOMAIN q = 1 .. Len(q) /\ Len(q) \in Nat /\ \A m \in DOMAIN q : q[m] \in T
  BY <1>3
<1>5. r \in [1 .. Len(q) -> T]
  BY <1>3, <1>4 DEF Replaces
<1>6. r \in Seq(T)
  BY <1>4, <1>5, SeqDef
<1>7. Len(r) = Len(q) /\ r[n] = x /\ \A m \in 1 .. Len(q) : m # n => r[m] = q[m]
  BY <1>4 DEF Replaces
<1> QED BY <1>6, <1>7 DEF IsSeq

\* The last of the earlier completed rows.
LEMMA LatestIs ==
    ASSUME NEW rows, NEW n \in Nat, Earlier(rows, n) # {}
    PROVE  Max(Earlier(rows, n)) \in Earlier(rows, n)
<1>1. PICK P : P = Earlier(rows, n)
  OBVIOUS
<1>2. P \subseteq 1 .. n - 1 /\ P \subseteq Int
  BY <1>1 DEF Earlier
<1>3. IsFiniteSet(P)
  <2>1. n - 1 \in Int /\ \A m \in Int : IsFiniteSet(1 .. m)
    BY FS_Interval
  <2>2. IsFiniteSet(1 .. n - 1)
    BY <2>1
  <2> QED BY <1>2, <2>2, FS_Subset
<1>4. Max(P) \in P
  BY <1>1, <1>2, <1>3, LargestOf
<1> QED BY <1>1, <1>4

(* What the profiles before a row were stays when none of them changes. *)
Alike(x, y) ==
    x.path = y.path /\ x.status = y.status /\ x.profile = y.profile /\ x.looked = y.looked

LEMMA AnewStays ==
    ASSUME NEW a, NEW b, NEW n \in Nat \ {0}, MeasuredAnew(a, n),
           \A m \in 1 .. n : Alike(a[m], b[m]), b[n].quiet => a[n].quiet
    PROVE  MeasuredAnew(b, n)
<1>1. Earlier(b, n) = Earlier(a, n)
  <2>1. \A m \in 1 .. n - 1 : m \in 1 .. n
    OBVIOUS
  <2>2. n \in 1 .. n
    OBVIOUS
  <2> QED BY <2>1, <2>2 DEF Earlier, Alike
<1> SUFFICES ASSUME b[n].quiet, b[n].profile # NoProfile, Earlier(b, n) # {},
                    DOMAIN b[Max(Earlier(b, n))].profile = DOMAIN b[n].profile
             PROVE  \A c \in DOMAIN b[n].profile : {b[n].profile[c]} = b[n].looked
  BY DEF MeasuredAnew
<1>2. PICK m : m = Max(Earlier(b, n))
  OBVIOUS
<1>3. m \in 1 .. n /\ m = Max(Earlier(a, n))
  <2>1. m \in Earlier(b, n)
    BY <1>2, LatestIs
  <2>2. m \in 1 .. n - 1
    BY <2>1 DEF Earlier
  <2> QED BY <1>1, <1>2, <2>2
<1>4. Alike(a[m], b[m]) /\ Alike(a[n], b[n])
  BY <1>3
<1> QED BY <1>1, <1>2, <1>3, <1>4 DEF MeasuredAnew, Alike

(* Rows that keep their outcome keep what the answers say of them. *)
Unturned(x, y) ==
    /\ x.status = y.status /\ x.issues = y.issues /\ x.rules = y.rules
    /\ x.references = y.references /\ x.detectors = y.detectors /\ (y.quiet => x.quiet)
Grown(a, b) == DOMAIN a \subseteq DOMAIN b /\ \A n \in DOMAIN a : Unturned(a[n], b[n])

LEMMA AnswersStay ==
    ASSUME NEW a, NEW b, Grown(a, b), NEW x
    PROVE  (CleanAnswer(x, a) => CleanAnswer(x, b)) /\ (SoundCache(x, a) => SoundCache(x, b))
<1>1. ASSUME CleanAnswer(x, a) PROVE CleanAnswer(x, b)
  <2> SUFFICES ASSUME x.command.face = "cli", x.exit = "ok", NEW n \in Members(x.results)
               PROVE  /\ Len(x.results) = Len(x.command.paths)
                      /\ n \in DOMAIN b /\ b[n].status = "completed"
                      /\ ~(x.command.gate.repair /\ Repaired) =>
                           ~\E i \in b[n].issues :
                               i.severity \in x.command.gate.fail_on /\ i.ratio > x.command.gate.ratio
    BY <1>1 DEF CleanAnswer
  <2>1. n \in DOMAIN a
    BY <1>1 DEF CleanAnswer
  <2>2. n \in DOMAIN b /\ b[n].status = a[n].status /\ b[n].issues = a[n].issues
    BY <2>1 DEF Grown, Unturned
  <2> QED BY <1>1, <2>2 DEF CleanAnswer
<1>2. ASSUME SoundCache(x, a) PROVE SoundCache(x, b)
  <2> SUFFICES ASSUME x.cached
               PROVE  LET r == b[Last(x.results)]
                      IN  /\ Last(x.results) \in DOMAIN b /\ r.status = "completed"
                          /\ r.quiet /\ r.rules = {} /\ r.references = <<>> => r.issues = Expected(r, x.now)
    BY DEF SoundCache
  <2>1. PICK n : n = Last(x.results)
    OBVIOUS
  <2>2. /\ n \in DOMAIN a /\ a[n].status = "completed"
        /\ a[n].quiet /\ a[n].rules = {} /\ a[n].references = <<>> => a[n].issues = Expected(a[n], x.now)
    BY <1>2, <2>1 DEF SoundCache
  <2>3. n \in DOMAIN b /\ Unturned(a[n], b[n])
    BY <2>2 DEF Grown
  <2>4. Expected(a[n], x.now) = Expected(b[n], x.now)
    BY <2>3 DEF Unturned, Expected
  <2> QED BY <2>1, <2>2, <2>3, <2>4 DEF Unturned
<1> QED BY <1>1, <1>2

\* More rows keep the outcomes of those there were.
LEMMA SameRowsGrown ==
    ASSUME NEW a, NEW b, IsSeq(a), IsSeq(b), Len(a) <= Len(b), \A n \in 1 .. Len(a) : b[n] = a[n]
    PROVE  Grown(a, b)
<1>1. Len(a) \in Nat /\ Len(b) \in Nat /\ DOMAIN a = 1 .. Len(a) /\ DOMAIN b = 1 .. Len(b)
  BY LengthIs
<1> QED BY <1>1 DEF Grown, Unturned

-----------------------------------------------------------------------------
(* How a path and a command end. *)
LEMMA GatePasses ==
    ASSUME NEW issues, NEW gate, evaluate(issues, gate, Repaired), ~(gate.repair /\ Repaired)
    PROVE  ~\E i \in issues : i.severity \in gate.fail_on /\ i.ratio > gate.ratio
<1>1. BlockedBySeverity(issues, gate) = {}
  BY DEF evaluate
<1> SUFFICES ASSUME NEW i \in issues, i.severity \in gate.fail_on, i.ratio > gate.ratio PROVE FALSE
  OBVIOUS
<1>2. PICK severe : severe = {j \in issues : j.severity \in gate.fail_on}
  OBVIOUS
<1>3. i \in severe
  BY <1>2
<1>4. BlockedBySeverity(issues, gate) = severe
  BY <1>2, <1>3 DEF BlockedBySeverity
<1> QED BY <1>1, <1>3, <1>4

Outcomes(n) == {Missing, Broken} \cup 1 .. n

(* The exit "ok" of the CLI leaves no path out, no failed scan and no gate that fails. *)
LEMMA OkMeans ==
    ASSUME NEW c, c = command, c.face = "cli", NEW results \in Seq(Int), NEW n \in Nat,
           Members(results) \subseteq Outcomes(n), results # <<>>,
           Len(results) = Len(c.paths) \/ (Len(c.paths) # 1 /\ Last(results) = Broken),
           \A k \in 1 .. n : scans'[k].status = "completed" \/ scans'[k].status = "failed",
           Exit(results) = "ok"
    PROVE  /\ Len(results) = Len(c.paths)
           /\ \A k \in Members(results) : k \in 1 .. n /\ scans'[k].status = "completed" /\ ~GateFails(k)
<1>1. PICK m \in Nat : m = Len(results) /\ DOMAIN results = 1 .. m /\ m > 0
  OBVIOUS
<1>2. CASE Len(c.paths) = 1
  <2>1. ExitOne(results[1]) = "ok"
    BY <1>2 DEF Exit
  <2>2. m = 1
    BY <1>1, <1>2
  <2>3. Members(results) = {results[1]}
    BY <1>1, <2>2 DEF Members
  <2>4. PICK k : k = results[1]
    OBVIOUS
  <2>5. k # Missing /\ k # Broken /\ ~Failed(k) /\ ~GateFails(k)
    BY <2>1, <2>4 DEF ExitOne
  <2>6. k \in 1 .. n
    BY <2>3, <2>4, <2>5 DEF Outcomes
  <2> QED BY <1>1, <1>2, <2>2, <2>3, <2>4, <2>5, <2>6 DEF Failed
<1>3. CASE Len(c.paths) # 1
  <2>1. Last(results) # Broken /\ ExitMany(results) = "ok"
    BY <1>3 DEF Exit
  <2>2. PICK scanned : scanned = {k \in Members(results) : k > 0}
    OBVIOUS
  <2>3. (\A k \in scanned : ~GateFails(k)) /\ Members(results) = {k \in scanned : ~Failed(k)}
    BY <2>1, <2>2 DEF ExitMany
  <2>4. ASSUME NEW k \in Members(results)
        PROVE  k \in 1 .. n /\ scans'[k].status = "completed" /\ ~GateFails(k)
    <3>1. k \in scanned /\ ~Failed(k) /\ ~GateFails(k)
      BY <2>3
    <3>2. k > 0 /\ k \in Outcomes(n)
      BY <2>2, <3>1
    <3>3. k \in 1 .. n
      BY <3>2 DEF Outcomes, Missing, Broken
    <3> QED BY <3>1, <3>3 DEF Failed
  <2> QED BY <1>3, <2>1, <2>4
<1> QED BY <1>2, <1>3

\* Arithmetic of the results and the paths left.
LEMMA Lengths ==
    \A x, y \in Nat : (x > 0 /\ x # 1 => y + x # 1) /\ (y + 1) + (x - 1) = y + x
  OBVIOUS

\* The end of a path keeps the parts of the process and the answers.
LEMMA PathEnds ==
    ASSUME ProcInv, AnswersInv, proc # Idle, NEW result \in Outcomes(Len(scans')), NEW cached \in BOOLEAN,
           EndPath(result, cached), IsSeq(scans), IsSeq(scans'), Grown(scans, scans'),
           \A k \in DOMAIN scans' : scans'[k].status = "completed" \/ scans'[k].status = "failed",
           cached => LET r == scans'[result]
                     IN  /\ result \in DOMAIN scans' /\ r.status = "completed"
                         /\ r.quiet /\ r.rules = {} /\ r.references = <<>> => r.issues = Expected(r, now)
    PROVE  ProcInv' /\ ScanInv' /\ AnswersInv'
<1>1. PICK p : p = proc /\ p.command = command
  BY DEF command
<1>2. PICK m \in Nat, n \in Nat :
          /\ m = Len(scans) /\ n = Len(scans') /\ m <= n
          /\ DOMAIN scans' = 1 .. n
  <2>1. /\ Len(scans) \in Nat /\ DOMAIN scans = 1 .. Len(scans)
        /\ Len(scans') \in Nat /\ DOMAIN scans' = 1 .. Len(scans')
    BY LengthIs
  <2>2. Len(scans) <= Len(scans')
    <3>1. Len(scans) # 0 => Len(scans) \in 1 .. Len(scans')
      BY <2>1 DEF Grown
    <3> QED BY <2>1, <3>1
  <2> QED BY <2>1, <2>2
<1>3. IsProcess(p, m) /\ Len(answers) < MaxCommands
  BY <1>1, <1>2 DEF ProcInv
<1>4. PICK results : results = Append(p.results, result)
  OBVIOUS
<1>5. /\ p.results \in Seq(Int) /\ Members(p.results) \subseteq Outcomes(m)
      /\ Len(p.results) + Len(p.paths) = Len(p.command.paths)
      /\ p.paths \in Seq(Paths) /\ p.paths # <<>> /\ p.command \in Commands
      /\ p = [x \in {"command", "paths", "results", "scan"} |-> p[x]]
  BY <1>3 DEF IsProcess, Outcomes
<1>6. result \in Outcomes(n) /\ result \in Int
  BY <1>2 DEF Outcomes, Missing, Broken
<1>7. /\ results \in Seq(Int) /\ Len(results) = Len(p.results) + 1 /\ results # <<>>
      /\ Last(results) = result /\ Members(results) \subseteq Outcomes(n)
  <2>1. results \in Seq(Int) /\ Len(results) = Len(p.results) + 1 /\ Len(p.results) \in Nat
    BY <1>4, <1>5, <1>6
  <2>2. /\ \A k \in 1 .. Len(p.results) : results[k] = p.results[k]
        /\ results[Len(p.results) + 1] = result
    BY <1>4, <1>5, <1>6
  <2>3. Outcomes(m) \subseteq Outcomes(n)
    BY <1>2 DEF Outcomes
  <2>4. ASSUME NEW k \in DOMAIN results PROVE results[k] \in Outcomes(n)
    <3>1. k \in 1 .. Len(p.results) \/ k = Len(p.results) + 1
      BY <2>1
    <3>2. CASE k \in 1 .. Len(p.results)
      <4>1. k \in DOMAIN p.results
        BY <1>5, <3>2
      <4>2. p.results[k] \in Outcomes(m)
        BY <1>5, <4>1 DEF Members
      <4> QED BY <2>2, <2>3, <3>2, <4>2
    <3> QED BY <1>6, <2>2, <3>1, <3>2
  <2>5. Last(results) = result
    BY <2>1, <2>2 DEF Last
  <2>6. results # <<>>
    BY <2>1
  <2> QED BY <2>1, <2>4, <2>5, <2>6 DEF Members
<1>8. PICK tail : tail = Tail(p.paths)
  OBVIOUS
<1>9. PICK over \in BOOLEAN : over <=> (Len(p.paths) = 1 \/ (result = Broken /\ p.command.face = "cli"))
  <2> DEFINE o == Len(p.paths) = 1 \/ (result = Broken /\ p.command.face = "cli")
  <2>1. o \in BOOLEAN
    OBVIOUS
  <2> QED BY <2>1
<1>10. PICK a : a = [command |-> p.command, results |-> results, exit |-> Exit(results),
                     cached |-> cached, now |-> now]
  OBVIOUS
<1>11. CASE over
  <2>1. answers' = Append(answers, a) /\ proc' = Idle
    BY <1>1, <1>4, <1>9, <1>10, <1>11 DEF EndPath
  <2>2. ProcInv' /\ ScanInv'
    BY <2>1 DEF ProcInv, ScanInv
  <2>3. CleanAnswer(a, scans')
    <3> SUFFICES ASSUME p.command.face = "cli", Exit(results) = "ok"
                 PROVE  /\ Len(results) = Len(p.command.paths)
                        /\ \A k \in Members(results) :
                              /\ k \in DOMAIN scans' /\ scans'[k].status = "completed"
                              /\ ~(p.command.gate.repair /\ Repaired) =>
                                   ~\E i \in scans'[k].issues :
                                       i.severity \in p.command.gate.fail_on /\ i.ratio > p.command.gate.ratio
      BY <1>10 DEF CleanAnswer
    <3>1. Len(results) = Len(p.command.paths) \/ (Len(p.command.paths) # 1 /\ Last(results) = Broken)
      <4>1. PICK i \in Nat, j \in Nat : i = Len(p.paths) /\ j = Len(p.results) /\ i > 0
        BY <1>5, SMTT(30)
      <4>2. Len(p.command.paths) = j + i /\ Len(results) = j + 1
        BY <1>5, <1>7, <4>1
      <4>3. CASE i = 1
        BY <4>2, <4>3
      <4>4. CASE i # 1
        <5>1. j + i # 1
          BY <4>1, <4>4, Lengths
        <5>2. result = Broken
          BY <1>9, <1>11, <4>1, <4>4
        <5> QED BY <1>7, <4>2, <5>1, <5>2
      <4> QED BY <4>3, <4>4
    <3>2. \A k \in 1 .. n : scans'[k].status = "completed" \/ scans'[k].status = "failed"
      BY <1>2
    <3>3. PICK c : c = p.command
      OBVIOUS
    <3>4. /\ Len(results) = Len(c.paths)
          /\ \A k \in Members(results) : k \in 1 .. n /\ scans'[k].status = "completed" /\ ~GateFails(k)
      BY <1>1, <1>7, <3>1, <3>2, <3>3, OkMeans
    <3>5. ASSUME NEW k \in Members(results), ~(c.gate.repair /\ Repaired)
          PROVE  ~\E i \in scans'[k].issues : i.severity \in c.gate.fail_on /\ i.ratio > c.gate.ratio
      <4>1. PICK issues, gate : issues = scans'[k].issues /\ gate = c.gate
        OBVIOUS
      <4>2. evaluate(issues, gate, Repaired)
        BY <1>1, <3>3, <3>4, <4>1 DEF GateFails
      <4> QED BY <3>5, <4>1, <4>2, GatePasses
    <3> QED BY <1>2, <3>3, <3>4, <3>5
  <2>4. SoundCache(a, scans')
    BY <1>7, <1>10 DEF SoundCache
  <2>5. /\ IsSeq(answers') /\ Len(answers') = Len(answers) + 1 /\ DOMAIN answers' = 1 .. Len(answers) + 1
        /\ \A k \in 1 .. Len(answers) : answers'[k] = answers[k]
        /\ answers'[Len(answers) + 1] = a
    BY <2>1, AppendIs DEF AnswersInv
  <2>6. Len(answers) \in Nat /\ DOMAIN answers = 1 .. Len(answers)
    BY LengthIs DEF AnswersInv
  <2>7. ASSUME NEW k \in DOMAIN answers' PROVE CleanAnswer(answers'[k], scans') /\ SoundCache(answers'[k], scans')
    <3>1. k \in 1 .. Len(answers) \/ k = Len(answers) + 1
      BY <2>5, <2>6
    <3>2. CASE k \in 1 .. Len(answers)
      <4>1. PICK x : x = answers[k]
        OBVIOUS
      <4>2. CleanAnswer(x, scans) /\ SoundCache(x, scans)
        BY <2>6, <3>2, <4>1 DEF AnswersInv
      <4> QED BY <2>5, <3>2, <4>1, <4>2, AnswersStay
    <3> QED BY <2>3, <2>4, <2>5, <3>1, <3>2
  <2>8. Len(answers') <= MaxCommands
    BY <1>3, <2>5, <2>6, ScanAssumption
  <2> QED BY <2>2, <2>5, <2>7, <2>8 DEF AnswersInv
<1>12. CASE ~over
  <2>1. /\ answers' = answers
        /\ proc' = [p EXCEPT !.paths = tail, !.results = results, !.scan = NoScan]
    BY <1>1, <1>4, <1>8, <1>9, <1>12 DEF EndPath
  <2>2. PICK q : q = proc'
    OBVIOUS
  <2>3. /\ q = [x \in {"command", "paths", "results", "scan"} |-> q[x]]
        /\ q.command = p.command /\ q.paths = tail /\ q.results = results /\ q.scan = NoScan
    BY <1>5, <2>1, <2>2
  <2>4. PICK i \in Nat, j \in Nat : i = Len(p.paths) /\ j = Len(p.results) /\ i > 0
    BY <1>5
  <2>5. i # 1 /\ tail \in Seq(Paths) /\ Len(tail) = i - 1
    BY <1>5, <1>8, <1>9, <1>12, <2>4
  <2>6. tail # <<>>
    <3>1. Len(tail) # 0
      BY <2>4, <2>5
    <3> QED BY <3>1
  <2>7. Len(results) + Len(tail) = Len(p.command.paths)
    <3>1. Len(results) = j + 1 /\ Len(p.command.paths) = j + i
      BY <1>5, <1>7, <2>4
    <3>2. (j + 1) + (i - 1) = j + i
      BY <2>4, Lengths
    <3> QED BY <2>5, <3>1, <3>2
  <2>8. IsProcess(q, n)
    BY <1>5, <1>7, <2>3, <2>5, <2>6, <2>7 DEF IsProcess, Outcomes
  <2>9. ProcInv'
    BY <1>2, <1>3, <2>1, <2>2, <2>8 DEF ProcInv
  <2>10. scan' = NoScan
    BY <2>2, <2>3 DEF scan
  <2>11. ScanInv'
    BY <2>10 DEF ScanInv
  <2>12. AnswersInv'
    <3>1. ASSUME NEW k \in DOMAIN answers PROVE CleanAnswer(answers[k], scans') /\ SoundCache(answers[k], scans')
      <4>1. PICK x : x = answers[k]
        OBVIOUS
      <4>2. CleanAnswer(x, scans) /\ SoundCache(x, scans)
        BY <4>1 DEF AnswersInv
      <4> QED BY <4>1, <4>2, AnswersStay
    <3>2. IsSeq(answers) /\ Len(answers) <= MaxCommands
      BY DEF AnswersInv
    <3> QED BY <2>1, <3>1, <3>2 DEF AnswersInv
  <2> QED BY <2>9, <2>11, <2>12
<1> QED BY <1>11, <1>12

-----------------------------------------------------------------------------
(* Every action keeps the invariant. *)
LEMMA EndKeeps ==
    ASSUME IInv, proc # Idle, NEW result \in Outcomes(Len(scans)), NEW cached \in BOOLEAN,
           EndPath(result, cached), scans' = scans, file' = file,
           changes' \in Nat, changes' <= MaxChanges,
           cached => LET r == scans[result]
                     IN  /\ result \in DOMAIN scans /\ r.status = "completed"
                         /\ r.quiet /\ r.rules = {} /\ r.references = <<>> => r.issues = Expected(r, now)
    PROVE  IInv'
<1>1. ProcInv /\ AnswersInv /\ RowsInv /\ IsSeq(scans) /\ IsSeq(scans')
  BY DEF IInv, RowsInv
<1>2. Grown(scans, scans')
  BY DEF Grown, Unturned
<1>3. \A k \in DOMAIN scans' : scans'[k].status = "completed" \/ scans'[k].status = "failed"
  BY <1>1 DEF RowsInv, IsRow
<1>4. result \in Outcomes(Len(scans'))
  OBVIOUS
<1>5. cached => LET r == scans'[result]
                IN  /\ result \in DOMAIN scans' /\ r.status = "completed"
                    /\ r.quiet /\ r.rules = {} /\ r.references = <<>> => r.issues = Expected(r, now)
  OBVIOUS
<1>6. ProcInv' /\ ScanInv' /\ AnswersInv'
  BY <1>1, <1>2, <1>3, <1>4, <1>5, PathEnds
<1>7. RowsInv'
  BY <1>1 DEF RowsInv
<1> QED BY <1>6, <1>7 DEF IInv

\* A source that cannot be read ends the path.
LEMMA AbortKeeps ==
    ASSUME IInv, proc # Idle, Abort, changes' \in Nat, changes' <= MaxChanges
    PROVE  IInv'
<1>1. PICK result : result = Broken
  OBVIOUS
<1>0. PICK cached \in BOOLEAN : cached = FALSE
  OBVIOUS
<1>2. EndPath(result, cached) /\ scans' = scans /\ file' = file
  BY <1>0, <1>1 DEF Abort
<1>3. result \in Outcomes(Len(scans))
  BY <1>1 DEF Outcomes
<1> QED BY <1>0, <1>1, <1>2, <1>3, EndKeeps

\* The bound on edits and crashes.
LEMMA ChangesFit ==
    ASSUME IInv
    PROVE  /\ changes' = changes => changes' \in Nat /\ changes' <= MaxChanges
           /\ changes < MaxChanges /\ changes' = changes + 1 => changes' \in Nat /\ changes' <= MaxChanges
  BY ScanAssumption DEF IInv

\* A command begins.
LEMMA BeginKeeps == ASSUME IInv, NEW c \in Commands, Begin(c) PROVE IInv'
<1>1. PICK q : q = proc' /\ q = [command |-> c, paths |-> c.paths, results |-> <<>>, scan |-> NoScan]
  BY DEF Begin
<1>2. PICK results : results = q.results
  OBVIOUS
<1>3. results \in Seq(Int) /\ Members(results) = {} /\ Len(results) = 0
  BY <1>1, <1>2 DEF Members
<1>4. c.paths \in Seq(Paths) /\ c.paths # <<>>
  BY CommandsAre
<1>5. Len(results) + Len(c.paths) = Len(c.paths)
  BY <1>3, <1>4
<1>6. PICK n : n = Len(scans)
  OBVIOUS
<1>7. IsProcess(q, n)
  BY <1>1, <1>2, <1>3, <1>4, <1>5 DEF IsProcess
<1>8. scans' = scans /\ answers' = answers /\ file' = file /\ changes' = changes /\ Len(answers) < MaxCommands
  BY DEF Begin
<1>9. ProcInv'
  BY <1>1, <1>6, <1>7, <1>8 DEF ProcInv
<1>10. scan' = NoScan
  BY <1>1 DEF scan
<1>11. ScanInv'
  BY <1>10 DEF ScanInv
<1>12. RowsInv' /\ AnswersInv'
  BY <1>8, StoreStands DEF IInv
<1> QED BY <1>8, <1>9, <1>11, <1>12 DEF IInv

\* The baseline of an incremental scan is a row.
LEMMA BaselineIs ==
    ASSUME RowsInv, Baselines # {}
    PROVE  Max(Baselines) \in Baselines /\ Max(Baselines) \in 1 .. Len(scans)
<1>1. PICK B : B = Baselines
  OBVIOUS
<1>2. PICK n \in Nat : n = Len(scans) /\ DOMAIN scans = 1 .. n
  BY LengthIs DEF RowsInv
<1>3. B \subseteq 1 .. n /\ B \subseteq Int
  BY <1>1, <1>2 DEF Baselines
<1>4. IsFiniteSet(B)
  <2>1. n \in Int /\ \A m \in Int : IsFiniteSet(1 .. m)
    BY FS_Interval
  <2> QED BY <1>3, <2>1, FS_Subset
<1>5. Max(B) \in B
  BY <1>1, <1>3, <1>4, LargestOf
<1> QED BY <1>1, <1>2, <1>3, <1>5

\* A path is opened: it is missing, answered from the store, or a scan starts.
LEMMA OpenKeeps == ASSUME IInv, OpenSource PROVE IInv'
<1>1. proc # Idle /\ scan = NoScan /\ file' = file /\ scans' = scans /\ changes' = changes
  BY DEF OpenSource
<1>2. changes' \in Nat /\ changes' <= MaxChanges /\ RowsInv
  BY <1>1, ChangesFit DEF IInv
<1>3. CASE now = Gone /\ EndPath(Missing, FALSE)
  <2>0. PICK cached \in BOOLEAN : cached = FALSE
    OBVIOUS
  <2>1. PICK result : result = Missing
    OBVIOUS
  <2>2. EndPath(result, cached)
    BY <1>3, <2>0, <2>1
  <2>3. result \in Outcomes(Len(scans))
    BY <2>1 DEF Outcomes
  <2> QED BY <1>1, <1>2, <2>0, <2>1, <2>2, <2>3, EndKeeps
<1>4. CASE now # Gone /\ IncrementalCached /\ EndPath(Max(Baselines), TRUE)
  <2>0. PICK cached \in BOOLEAN : cached = TRUE
    OBVIOUS
  <2>1. PICK result : result = Max(Baselines)
    OBVIOUS
  <2>2. EndPath(result, cached)
    BY <1>4, <2>0, <2>1
  <2>3. result \in Baselines /\ result \in 1 .. Len(scans)
    BY <1>2, <1>4, <2>1, BaselineIs DEF IncrementalCached
  <2>4. result \in Outcomes(Len(scans))
    BY <2>3 DEF Outcomes
  <2>5. result \in DOMAIN scans /\ scans[result].status = "completed" /\ scans[result].digest # Gone
    BY <2>3 DEF Baselines
  <2>6. scans[result].digest = now
    BY <1>4, <2>1 DEF IncrementalCached
  <2>7. IsExpected(scans[result])
    BY <1>2, <2>5 DEF RowsInv
  <2>8. scans[result].quiet /\ scans[result].rules = {} /\ scans[result].references = <<>> =>
            scans[result].issues = Expected(scans[result], now)
    BY <2>5, <2>6, <2>7 DEF IsExpected
  <2> QED BY <1>1, <1>2, <2>2, <2>4, <2>5, <2>8, EndKeeps
<1>5. CASE /\ now # Gone
           /\ proc' = [proc EXCEPT !.scan =
                [stage |-> "count", opened |-> now, full |-> 0, sample |-> NoSample,
                 detectors |-> Selected(command), completed |-> {}, failed |-> {},
                 candidates |-> {}, looked |-> {now}, since |-> changes]]
           /\ answers' = answers
  <2>1. PICK s, v :
          /\ v = now
          /\ s = [stage |-> "count", opened |-> v, full |-> 0, sample |-> NoSample,
                  detectors |-> Selected(command), completed |-> {}, failed |-> {},
                  candidates |-> {}, looked |-> {v}, since |-> changes]
    OBVIOUS
  <2>2. /\ s.stage = "count" /\ s.opened = v /\ s.full = 0 /\ s.sample = NoSample
        /\ s.detectors = Selected(command) /\ s.completed = {} /\ s.failed = {}
        /\ s.candidates = {} /\ s.looked = {v} /\ s.since = changes
        /\ s = [x \in ScanFields |-> s[x]]
    BY <2>1 DEF ScanFields
  <2>3. proc' = [proc EXCEPT !.scan = s]
    BY <1>5, <2>1
  <2>4. command \in Commands /\ path \in Paths
    <3>1. PICK p : p = proc
      OBVIOUS
    <3>2. PICK n : IsProcess(p, n)
      BY <1>1, <3>1 DEF IInv, ProcInv
    <3> QED BY <3>1, <3>2 DEF IsProcess, command, path
  <2>5. v \in Versions
    BY <1>5, <2>1, <2>4 DEF IInv, now
  <2>6. Selected(command) \in Seq(command.detectors) /\ command.detectors \subseteq Members(Selected(command))
    BY <2>4, SelectedAre
  <2>7. AllFindings(s.candidates)
    BY <2>2, FS_EmptySet DEF AllFindings
  <2>8. Knows(command, s)
    BY <1>1, <1>2, <2>2, <2>5, <2>6, <2>7 DEF Knows
  <2>9. StageFits(s)
    BY <2>2 DEF StageFits
  <2>10. Undisturbed(command, s, v)
    BY <2>2 DEF Undisturbed, ReadBy
  <2>11. s.since <= changes'
    BY <1>1, <1>2, <2>2
  <2>12. MovesTo(s)
    BY <2>1, <2>8, <2>9, <2>10, <2>11 DEF MovesTo
  <2> QED BY <1>1, <1>2, <1>5, <2>2, <2>3, <2>12, StepKeeps
<1> QED BY <1>1, <1>3, <1>4, <1>5 DEF OpenSource

\* The rows are counted.
LEMMA CountKeeps == ASSUME IInv, CountRows PROVE IInv'
<1>1. proc # Idle /\ scan.stage = "count" /\ changes' = changes
  BY DEF CountRows
<1>2. changes' \in Nat /\ changes' <= MaxChanges
  BY <1>1, ChangesFit
<1>3. CASE Abort
  BY <1>1, <1>2, <1>3, AbortKeeps
<1>4. CASE ~Abort
  <2>1. PICK s0 : s0 = [scan EXCEPT !.full = Size(Tables[now])]
    OBVIOUS
  <2>2. PICK s : s = After(s0)
    OBVIOUS
  <2>3. Readable /\ proc' = [proc EXCEPT !.scan = s] /\ file' = file /\ scans' = scans /\ answers' = answers
    BY <1>4, <2>1, <2>2 DEF CountRows
  <2>4. MovesTo(s) /\ s.stage # "profile"
    BY <1>1, <2>1, <2>2, <2>3, CountMoves
  <2> QED BY <1>1, <1>2, <2>3, <2>4, StepKeeps
<1> QED BY <1>3, <1>4

-----------------------------------------------------------------------------
(* Every action keeps the invariant (continued): detectors, rules, edits, crashes.  *)
LEMMA ProcessIs ==
    ASSUME IInv, proc # Idle
    PROVE  proc = [x \in {"command", "paths", "results", "scan"} |-> proc[x]]
<1>1. PICK p : p = proc
  OBVIOUS
<1>2. PICK n : IsProcess(p, n)
  BY <1>1 DEF IInv, ProcInv
<1> QED BY <1>1, <1>2 DEF IsProcess

\* A detector draws its sample and runs.
LEMMA FirstKeeps == ASSUME IInv, FirstDetect PROVE IInv'
<1>1. /\ proc # Idle /\ scan.stage = "first" /\ file' = file /\ scans' = scans /\ answers' = answers
      /\ IInv
  BY DEF FirstDetect
<1>2. PICK d : d = Head(scan.detectors)
  OBVIOUS
<1>3. \/ ~Active(d) /\ proc' = [proc EXCEPT !.scan = After(Dropped)] /\ changes' = changes
      \/ /\ Active(d) /\ Answers(d) /\ changes' = changes
         /\ proc' = [proc EXCEPT !.scan.stage = "second", !.scan.completed = @ \cup {d},
                                 !.scan.sample = Drawn(d), !.scan.looked = @ \cup {Source(d)}]
      \/ /\ changes' = changes \/ (changes < MaxChanges /\ changes' = changes + 1)
         /\ proc' = [proc EXCEPT !.scan = After([Dropped EXCEPT !.failed = @ \cup {d}])]
  BY <1>2 DEF FirstDetect
<1>4. changes' \in Nat /\ changes' <= MaxChanges
  BY <1>3, ChangesFit
<1>5. CASE ~Active(d) /\ proc' = [proc EXCEPT !.scan = After(Dropped)] /\ changes' = changes
  <2>1. PICK s0 : s0 = Dropped
    OBVIOUS
  <2>2. PICK s : s = After(s0)
    OBVIOUS
  <2>3. MovesTo(s) /\ s.stage # "profile"
    BY <1>1, <1>2, <1>5, <2>1, <2>2, SkipMoves
  <2>4. proc' = [proc EXCEPT !.scan = s]
    BY <1>5, <2>1, <2>2
  <2> QED BY <1>1, <1>4, <2>3, <2>4, StepKeeps
<1>6. CASE /\ Active(d) /\ Answers(d) /\ changes' = changes
           /\ proc' = [proc EXCEPT !.scan.stage = "second", !.scan.completed = @ \cup {d},
                                   !.scan.sample = Drawn(d), !.scan.looked = @ \cup {Source(d)}]
  <2>1. PICK s : s = [scan EXCEPT !.stage = "second", !.completed = @ \cup {d}, !.sample = Drawn(d),
                                  !.looked = @ \cup {Source(d)}]
    OBVIOUS
  <2>2. MovesTo(s) /\ s.stage = "second"
    BY <1>1, <1>2, <1>6, <2>1, DetectMoves
  <2>3. proc' = [proc EXCEPT !.scan = s]
    BY <1>1, <1>6, <2>1, ProcessIs DEF scan
  <2> QED BY <1>1, <1>4, <2>2, <2>3, StepKeeps
<1>7. CASE /\ changes' = changes \/ (changes < MaxChanges /\ changes' = changes + 1)
           /\ proc' = [proc EXCEPT !.scan = After([Dropped EXCEPT !.failed = @ \cup {d}])]
  <2>1. PICK s0 : s0 = [Dropped EXCEPT !.failed = @ \cup {d}]
    OBVIOUS
  <2>2. PICK s : s = After(s0)
    OBVIOUS
  <2>3. changes' = changes \/ changes' = changes + 1
    BY <1>7
  <2>4. MovesTo(s) /\ s.stage # "profile"
    BY <1>1, <1>2, <2>1, <2>2, <2>3, FailMoves
  <2>5. proc' = [proc EXCEPT !.scan = s]
    BY <1>7, <2>1, <2>2
  <2> QED BY <1>1, <1>4, <2>4, <2>5, StepKeeps
<1> QED BY <1>3, <1>5, <1>6, <1>7

\* Its findings are gathered.
LEMMA SecondKeeps == ASSUME IInv, SecondDetect PROVE IInv'
<1>1. proc # Idle /\ scan.stage = "second" /\ IInv
  BY DEF SecondDetect
<1>2. PICK d : d = Head(scan.detectors)
  OBVIOUS
<1>3. \/ /\ Answers(d)
         /\ proc' = [proc EXCEPT !.scan =
                      After([Dropped EXCEPT !.candidates = @ \cup Findings(d), !.looked = @ \cup {Source(d)}])]
         /\ file' = file /\ scans' = scans /\ answers' = answers /\ changes' = changes
      \/ /\ Abort
         /\ changes' = changes \/ (changes < MaxChanges /\ changes' = changes + 1)
  BY <1>2 DEF SecondDetect
<1>4. changes' \in Nat /\ changes' <= MaxChanges
  BY <1>3, ChangesFit
<1>5. CASE Abort
  BY <1>1, <1>4, <1>5, AbortKeeps
<1>6. CASE /\ Answers(d)
           /\ proc' = [proc EXCEPT !.scan =
                      After([Dropped EXCEPT !.candidates = @ \cup Findings(d), !.looked = @ \cup {Source(d)}])]
           /\ file' = file /\ scans' = scans /\ answers' = answers /\ changes' = changes
  <2>1. PICK s0 : s0 = [Dropped EXCEPT !.candidates = @ \cup Findings(d), !.looked = @ \cup {Source(d)}]
    OBVIOUS
  <2>2. PICK s : s = After(s0)
    OBVIOUS
  <2>3. Answers(d) /\ changes' = changes
    BY <1>6
  <2>4. MovesTo(s) /\ s.stage # "profile"
    BY <1>1, <1>2, <2>1, <2>2, <2>3, CandidatesMove
  <2>5. proc' = [proc EXCEPT !.scan = s]
    BY <1>6, <2>1, <2>2
  <2> QED BY <1>1, <1>4, <1>6, <2>4, <2>5, StepKeeps
<1> QED BY <1>3, <1>5, <1>6

\* The contract rules are evaluated.
LEMMA RulesKeep == ASSUME IInv, RunContractRules PROVE IInv'
<1>1. proc # Idle /\ scan.stage = "rules" /\ changes' = changes /\ IInv
  BY DEF RunContractRules
<1>2. changes' \in Nat /\ changes' <= MaxChanges
  BY <1>1, ChangesFit
<1>3. PICK valid : valid = {r \in command.rules : ValidRule(r, Tables[scan.opened])}
  OBVIOUS
<1>4. CASE Abort
  BY <1>1, <1>2, <1>4, AbortKeeps
<1>5. CASE ~Abort
  <2>1. /\ Readable \/ valid = {}
        /\ proc' = [proc EXCEPT
              !.scan.stage = "save",
              !.scan.looked = IF valid = {} THEN @ ELSE @ \cup {now},
              !.scan.candidates = IF valid = {} THEN @ ELSE @ \cup RuleFindings(valid, Tables[now]),
              !.scan.failed = IF command.rules \ valid = {} THEN @ ELSE @ \cup {"contract_rule"}]
        /\ file' = file /\ scans' = scans /\ answers' = answers
    BY <1>3, <1>5 DEF RunContractRules
  <2>2. PICK s : s = [scan EXCEPT
               !.stage = "save",
               !.looked = IF valid = {} THEN @ ELSE @ \cup {now},
               !.candidates = IF valid = {} THEN @ ELSE @ \cup RuleFindings(valid, Tables[now]),
               !.failed = IF command.rules \ valid = {} THEN @ ELSE @ \cup {"contract_rule"}]
    OBVIOUS
  <2>3. MovesTo(s) /\ s.stage # "profile"
    BY <1>1, <1>3, <2>1, <2>2, RulesMove
  <2>4. proc' = [proc EXCEPT !.scan = s]
    BY <1>1, <2>1, <2>2, ProcessIs DEF scan
  <2> QED BY <1>1, <1>2, <2>1, <2>3, <2>4, StepKeeps
<1> QED BY <1>4, <1>5

\* A file changes or is gone.
LEMMA EditKeeps == ASSUME IInv, NEW p \in Paths, NEW v \in Later, Edit(p, v) PROVE IInv'
<1>1. /\ file' = [file EXCEPT ![p] = v] /\ changes' = changes + 1 /\ changes < MaxChanges
      /\ proc' = proc /\ scans' = scans /\ answers' = answers
  BY DEF Edit
<1>2. changes' \in Nat /\ changes' <= MaxChanges /\ changes \in Nat
  BY <1>1, ChangesFit DEF IInv
<1>3. file' \in [Paths -> Versions \cup {Gone}]
  BY <1>1, ScanAssumption DEF IInv
<1>4. ProcInv'
  BY <1>1 DEF IInv, ProcInv
<1>5. command' = command /\ scan' = scan /\ path' = path
  BY <1>1 DEF command, scan, path
<1>6. ScanInv'
  <2> SUFFICES ASSUME proc # Idle, scan # NoScan
               PROVE  /\ scan.since <= changes' /\ scan.since # changes'
                      /\ scan.stage = "profile" => scans # <<>> /\ Saved(scan, scans[Len(scans)], path, changes')
    BY <1>1, <1>5 DEF ScanInv
  <2>1. scan.since \in Nat /\ scan.since <= changes
    BY Running
  <2>2. scan.since <= changes' /\ scan.since # changes'
    BY <1>1, <1>2, <2>1
  <2>3. scan.stage = "profile" => scans # <<>> /\ Saved(scan, scans[Len(scans)], path, changes)
    BY DEF IInv, ScanInv
  <2> QED BY <2>2, <2>3 DEF Saved
<1>7. RowsInv' /\ AnswersInv'
  BY <1>1, StoreStands DEF IInv
<1> QED BY <1>2, <1>3, <1>4, <1>6, <1>7 DEF IInv

\* The process is killed.
LEMMA CrashKeeps == ASSUME IInv, Crash PROVE IInv'
<1>1. PICK a : a = [command |-> command, results |-> proc.results, exit |-> "killed", cached |-> FALSE, now |-> now]
  OBVIOUS
<1>2. /\ proc # Idle /\ proc' = Idle /\ answers' = Append(answers, a) /\ changes' = changes + 1
      /\ changes < MaxChanges /\ file' = file /\ scans' = scans
  BY <1>1 DEF Crash
<1>3. changes' \in Nat /\ changes' <= MaxChanges
  BY <1>2, ChangesFit
<1>4. ProcInv' /\ ScanInv'
  BY <1>2 DEF ProcInv, ScanInv
<1>5. RowsInv'
  BY <1>2 DEF IInv, RowsInv
<1>6. CleanAnswer(a, scans) /\ SoundCache(a, scans)
  BY <1>1 DEF CleanAnswer, SoundCache
<1>7. IsSeq(answers) /\ Len(answers) < MaxCommands
  BY <1>2 DEF IInv, AnswersInv, ProcInv
<1>8. /\ IsSeq(answers') /\ Len(answers') = Len(answers) + 1 /\ DOMAIN answers' = 1 .. Len(answers) + 1
      /\ \A k \in 1 .. Len(answers) : answers'[k] = answers[k]
      /\ answers'[Len(answers) + 1] = a /\ Len(answers) \in Nat /\ DOMAIN answers = 1 .. Len(answers)
  BY <1>2, <1>7, AppendIs, LengthIs
<1>9. ASSUME NEW k \in DOMAIN answers' PROVE CleanAnswer(answers'[k], scans') /\ SoundCache(answers'[k], scans')
  <2>1. k \in 1 .. Len(answers) \/ k = Len(answers) + 1
    BY <1>8
  <2>2. k \in 1 .. Len(answers) => CleanAnswer(answers[k], scans) /\ SoundCache(answers[k], scans)
    BY <1>8 DEF IInv, AnswersInv
  <2> QED BY <1>2, <1>6, <1>8, <2>1, <2>2
<1>10. Len(answers') <= MaxCommands
  BY <1>7, <1>8, ScanAssumption
<1>11. AnswersInv'
  BY <1>8, <1>9, <1>10 DEF AnswersInv
<1> QED BY <1>2, <1>3, <1>4, <1>5, <1>11 DEF IInv

-----------------------------------------------------------------------------
(* Every action keeps the invariant (continued): the row and its profile.         *)
LEMMA SaveKeeps == ASSUME IInv, SaveScan PROVE IInv'
<1>1. proc # Idle /\ scan.stage = "save" /\ changes' = changes /\ IInv
  BY DEF SaveScan
<1>2. changes' \in Nat /\ changes' <= MaxChanges
  BY <1>1, ChangesFit
<1>3. CASE Abort
  BY <1>1, <1>2, <1>3, AbortKeeps
<1>4. CASE ~Abort
  <2>1. PICK issues : issues = Scored(fuse(scan.candidates, scan.full))
    OBVIOUS
  <2>2. PICK r : r = RowOf(issues)
    OBVIOUS
  <2>3. /\ Readable /\ scans' = Append(scans, r) /\ file' = file /\ answers' = answers
        /\ proc' = [proc EXCEPT !.scan.stage = "profile"]
    BY <1>4, <2>1, <2>2 DEF SaveScan, RowOf
  <2>4. IsRow(r) /\ IsComplete(r) /\ IsExpected(r) /\ Saved(scan, r, path, changes) /\ r.profile = NoProfile
    BY <1>1, <2>1, <2>2, <2>3, RowFits
  <2>5. PICK a, b, n : a = scans /\ b = scans' /\ n = Len(scans)
    OBVIOUS
  <2>6. /\ IsSeq(a) /\ n \in Nat /\ Len(a) = n /\ DOMAIN a = 1 .. n
        /\ \A m \in 1 .. n : IsRow(a[m]) /\ IsComplete(a[m]) /\ IsExpected(a[m]) /\ MeasuredAnew(a, m)
    BY <2>5, LengthIs DEF IInv, RowsInv
  <2>7. /\ IsSeq(b) /\ Len(b) = n + 1 /\ DOMAIN b = 1 .. n + 1
        /\ (\A m \in 1 .. n : b[m] = a[m]) /\ b[n + 1] = r
    BY <2>3, <2>5, <2>6, AppendIs
  <2>8. ASSUME NEW m \in 1 .. n + 1
        PROVE  IsRow(b[m]) /\ IsComplete(b[m]) /\ IsExpected(b[m]) /\ MeasuredAnew(b, m)
    <3>1. CASE m = n + 1
      <4>1. MeasuredAnew(b, m)
        BY <2>4, <2>7, <3>1 DEF MeasuredAnew
      <4> QED BY <2>4, <2>7, <3>1, <4>1
    <3>2. CASE m # n + 1
      <4>1. m \in 1 .. n /\ m \in Nat \ {0} /\ \A k \in 1 .. m : k \in 1 .. n
        BY <2>6, <3>2
      <4>2. \A k \in 1 .. m : Alike(a[k], b[k])
        BY <2>7, <4>1 DEF Alike
      <4>3. MeasuredAnew(b, m)
        BY <2>6, <2>7, <4>1, <4>2, AnewStays
      <4> QED BY <2>6, <2>7, <4>1, <4>3
    <3> QED BY <3>1, <3>2
  <2>9. RowsInv'
    BY <2>5, <2>7, <2>8 DEF RowsInv
  <2>10. Grown(a, b)
    <3>1. Len(a) <= Len(b)
      BY <2>6, <2>7
    <3> QED BY <2>6, <2>7, <3>1, SameRowsGrown
  <2>11. ASSUME NEW k \in DOMAIN answers PROVE CleanAnswer(answers[k], b) /\ SoundCache(answers[k], b)
    <3>1. PICK x : x = answers[k]
      OBVIOUS
    <3>2. CleanAnswer(x, a) /\ SoundCache(x, a)
      BY <2>5, <3>1 DEF IInv, AnswersInv
    <3> QED BY <2>10, <3>1, <3>2, AnswersStay
  <2>12. AnswersInv'
    BY <2>3, <2>5, <2>11 DEF IInv, AnswersInv
  <2>13. PICK s : s = [scan EXCEPT !.stage = "profile"]
    OBVIOUS
  <2>14. scan # NoScan
    BY <1>1 DEF NoScan
  <2>15. Knows(command, scan) /\ StageFits(scan)
    BY <1>1, <2>14, Running
  <2>16. PICK c : c = scan
    OBVIOUS
  <2>17. Knows(command, s) /\ s.stage = "profile" /\ \A x \in ScanFields \ {"stage"} : s[x] = c[x]
    <3>1. Knows(command, c) /\ s = [c EXCEPT !.stage = "profile"]
      BY <2>13, <2>15, <2>16
    <3> QED BY <3>1, StageOnly
  <2>18. /\ s.opened = c.opened /\ s.full = c.full /\ s.sample = c.sample /\ s.detectors = c.detectors
         /\ s.completed = c.completed /\ s.candidates = c.candidates
         /\ s.looked = c.looked /\ s.since = c.since
    BY <2>17 DEF ScanFields
  <2>19. StageFits(s)
    BY <1>1, <2>15, <2>16, <2>17, <2>18 DEF StageFits
  <2>20. s.since <= changes' /\ (s.since = changes' => Undisturbed(command, s, now))
    <3>1. c.since <= changes /\ (c.since = changes => Undisturbed(command, c, now))
      BY <1>1, <2>14, <2>16, Running
    <3>2. ASSUME NEW v, Undisturbed(command, c, v) PROVE Undisturbed(command, s, v)
      <4>1. ReadBy(s) = ReadBy(c) /\ c.stage = "save"
        BY <1>1, <2>16, <2>17, <2>18 DEF ReadBy
      <4> QED BY <2>17, <2>18, <3>2, <4>1 DEF Undisturbed
    <3>3. PICK v : v = now
      OBVIOUS
    <3> QED BY <1>1, <2>18, <3>1, <3>2, <3>3
  <2>21. MovesTo(s)
    BY <2>17, <2>19, <2>20 DEF MovesTo
  <2>22. proc' = [proc EXCEPT !.scan = s]
    BY <1>1, <2>3, <2>13, ProcessIs DEF scan
  <2>23. scans' # <<>> /\ Saved(s, scans'[Len(scans')], path, changes')
    <3>1. scans'[Len(scans')] = r /\ Len(scans') # 0
      BY <2>5, <2>6, <2>7
    <3>2. scans' # <<>>
      BY <3>1
    <3> QED BY <1>1, <2>4, <2>16, <2>18, <3>1, <3>2 DEF Saved
  <2>24. Len(scans) \in Nat /\ Len(scans') \in Nat /\ Len(scans) <= Len(scans')
    BY <2>5, <2>6, <2>7
  <2>25. ProcInv' /\ ScanInv'
    BY <1>1, <2>3, <2>21, <2>22, <2>23, <2>24, ScanMoves DEF IInv
  <2> QED BY <1>2, <2>3, <2>9, <2>12, <2>25 DEF IInv
<1> QED BY <1>3, <1>4

(* The profile of a quiet scan is measured anew unless the columns differ. *)
LEMMA ProfileIsAnew ==
    ASSUME NEW n \in Nat, Len(scans) = n, scans[n].path = path, n \in DOMAIN scans, DOMAIN scans = 1 .. n,
           Earlier(scans, n) # {},
           DOMAIN scans[Max(Earlier(scans, n))].profile = ColumnsOf(Tables[scan.opened])
    PROVE  DOMAIN ReuseCandidates = {}
<1>1. Completed \ {n} = Earlier(scans, n)
  BY DEF Completed, Earlier
<1>2. ReuseCandidates = NoProfile
  BY <1>1 DEF ReuseCandidates
<1> QED BY <1>2 DEF NoProfile

\* The profile is measured or reused, and the path ends.
LEMMA ProfileKeeps == ASSUME IInv, SaveProfile PROVE IInv'
<1>1. proc # Idle /\ scan.stage = "profile" /\ changes' = changes /\ IInv
  BY DEF SaveProfile
<1>2. changes' \in Nat /\ changes' <= MaxChanges
  BY <1>1, ChangesFit
<1>3. CASE Abort
  BY <1>1, <1>2, <1>3, AbortKeeps
<1>4. CASE ~Abort
  <2>1. scan # NoScan
    BY <1>1 DEF NoScan
  <2>2. PICK a, n : a = scans /\ n = Len(scans)
    OBVIOUS
  <2>3. PICK profile : profile = [c \in ColumnsOf(Tables[scan.opened]) |->
                                     IF c \in DOMAIN ReuseCandidates THEN ReuseCandidates[c] ELSE now]
    OBVIOUS
  <2>4. PICK quiet \in BOOLEAN : quiet <=> scan.since = changes
    <3>1. (scan.since = changes) \in BOOLEAN
      OBVIOUS
    <3> QED BY <3>1
  <2>5. PICK old, r : old = a[n] /\ r = [old EXCEPT !.quiet = quiet, !.profile = profile]
    OBVIOUS
  <2>6. /\ IsSeq(a) /\ n \in Nat /\ Len(a) = n /\ DOMAIN a = 1 .. n
        /\ \A m \in 1 .. n : IsRow(a[m]) /\ IsComplete(a[m]) /\ IsExpected(a[m]) /\ MeasuredAnew(a, m)
    BY <2>2, LengthIs DEF IInv, RowsInv
  <2>7. n \in 1 .. n /\ Saved(scan, old, path, changes)
    <3>1. scans # <<>> /\ Saved(scan, scans[Len(scans)], path, changes)
      BY <1>1, <2>1 DEF IInv, ScanInv
    <3>2. n # 0
      BY <2>2, <2>6, <3>1 DEF IsSeq
    <3> QED BY <2>2, <2>5, <2>6, <3>1, <3>2
  <2>8. IsRow(old) /\ IsComplete(old) /\ IsExpected(old)
    BY <2>5, <2>6, <2>7
  <2>9. /\ r = [x \in RowFields |-> r[x]] /\ r.quiet = quiet /\ r.profile = profile
        /\ \A x \in RowFields \ {"quiet", "profile"} : r[x] = old[x]
    BY <2>5, <2>8 DEF IsRow, RowFields
  <2>10. /\ r.path = old.path /\ r.detectors = old.detectors /\ r.sampled = old.sampled
         /\ r.rules = old.rules /\ r.references = old.references /\ r.status = old.status
         /\ r.digest = old.digest /\ r.cols = old.cols /\ r.issues = old.issues /\ r.score = old.score
         /\ r.looked = old.looked
    BY <2>9 DEF RowFields
  <2>11. r.quiet => old.quiet /\ r.looked = {scan.opened}
    BY <2>4, <2>7, <2>9, <2>10 DEF Saved
  <2>12. Readable /\ EndPath(n, FALSE) /\ file' = file /\ scans' = [a EXCEPT ![n] = r]
    <3>1. /\ Readable /\ EndPath(n, FALSE) /\ file' = file
          /\ scans' = [scans EXCEPT
                ![Len(scans)].quiet = scan.since = changes,
                ![Len(scans)].profile =
                    [c \in ColumnsOf(Tables[scan.opened]) |->
                        IF c \in DOMAIN ReuseCandidates THEN ReuseCandidates[c] ELSE now]]
      BY <1>4, <2>2 DEF SaveProfile
    <3>2. scans' = [a EXCEPT ![n].quiet = (scan.since = changes), ![n].profile = profile]
      BY <2>2, <2>3, <3>1
    <3>3. quiet = (scan.since = changes)
      BY <2>4
    <3>4. scans' = [a EXCEPT ![n].quiet = quiet, ![n].profile = profile]
      BY <3>2, <3>3
    <3> QED BY <2>5, <2>6, <2>7, <3>1, <3>4
  <2>13. PICK b : b = scans'
    OBVIOUS
  <2>14. /\ IsSeq(b) /\ Len(b) = n /\ b[n] = r /\ DOMAIN b = 1 .. n
         /\ \A m \in 1 .. n : m # n => b[m] = a[m]
    <3>1. Replaces(b, a, n, r) /\ n \in DOMAIN a /\ IsSeq(a)
      BY <2>6, <2>7, <2>12, <2>13 DEF Replaces
    <3>2. IsSeq(b) /\ Len(b) = Len(a) /\ b[n] = r /\ \A m \in 1 .. Len(a) : m # n => b[m] = a[m]
      BY <3>1, ReplaceIs
    <3>3. DOMAIN b = 1 .. Len(b)
      BY <3>2, LengthIs
    <3> QED BY <2>6, <3>2, <3>3
  <2>15. IsRow(r)
    <3>1. \A v, d : Saw(r, v, d) = Saw(old, v, d)
      BY <2>10, SawAlike
    <3>2. ASSUME NEW i \in r.issues, NEW d \in i.detectors
          PROVE  \E v \in r.looked : \E f \in Saw(r, v, d) : f.detector = d /\ Members(f.columns) = i.columns
      <4>1. PICK v \in old.looked : \E f \in Saw(old, v, d) : f.detector = d /\ Members(f.columns) = i.columns
        BY <2>8, <2>10, <3>2 DEF IsRow
      <4> QED BY <2>10, <3>1, <4>1
    <3>3. r.path \in Paths /\ r.digest \in Versions \cup {Gone} /\ r.looked \subseteq Versions
      BY <2>8, <2>10 DEF IsRow
    <3>4. r.cols \in Seq(Members(r.cols)) /\ r.score \in Int
      BY <2>8, <2>10 DEF IsRow
    <3>5. r.status = "completed" \/ r.status = "failed"
      BY <2>8, <2>10 DEF IsRow
    <3>6. \A i \in r.issues : i.priority \in Priorities
      BY <2>8, <2>10 DEF IsRow
    <3> QED BY <2>9, <3>2, <3>3, <3>4, <3>5, <3>6 DEF IsRow
  <2>16. IsComplete(r)
    BY <2>8, <2>10, <2>11 DEF IsComplete
  <2>17. IsExpected(r)
    <3>1. Expected(r, r.digest) = Expected(old, old.digest)
      BY <2>10 DEF Expected
    <3> QED BY <2>8, <2>10, <2>11, <3>1 DEF IsExpected
  <2>18. MeasuredAnew(b, n)
    <3> SUFFICES ASSUME r.quiet, Earlier(b, n) # {},
                        DOMAIN b[Max(Earlier(b, n))].profile = DOMAIN profile, NEW c \in DOMAIN profile
                 PROVE  {profile[c]} = r.looked
      BY <2>9, <2>14 DEF MeasuredAnew
    <3>1. Earlier(b, n) = Earlier(a, n)
      BY <2>6, <2>10, <2>5, <2>14 DEF Earlier
    <3>2. PICK m : m = Max(Earlier(a, n))
      OBVIOUS
    <3>3. m \in 1 .. n /\ m # n
      <4>1. m \in Earlier(a, n)
        BY <2>6, <3>1, <3>2, LatestIs
      <4> QED BY <2>6, <4>1 DEF Earlier
    <3>4. DOMAIN a[m].profile = ColumnsOf(Tables[scan.opened])
      BY <2>3, <2>14, <3>1, <3>2, <3>3
    <3>5. scans[n].path = path
      BY <2>2, <2>5, <2>7 DEF Saved
    <3>6. DOMAIN ReuseCandidates = {}
      BY <2>2, <2>6, <2>7, <3>1, <3>2, <3>4, <3>5, ProfileIsAnew
    <3>7. profile[c] = now
      BY <2>3, <3>6
    <3>8. scan.opened = now
      BY <1>1, <2>1, <2>4, <2>9, Running DEF Undisturbed
    <3> QED BY <2>11, <3>7, <3>8
  <2>19. ASSUME NEW m \in 1 .. n
         PROVE  IsRow(b[m]) /\ IsComplete(b[m]) /\ IsExpected(b[m]) /\ MeasuredAnew(b, m)
    <3>1. CASE m = n
      BY <2>14, <2>15, <2>16, <2>17, <2>18, <3>1
    <3>2. CASE m # n
      <4>1. m \in Nat \ {0} /\ \A k \in 1 .. m : k \in 1 .. n /\ k # n
        BY <2>6, <3>2
      <4>2. \A k \in 1 .. m : Alike(a[k], b[k])
        BY <2>14, <4>1 DEF Alike
      <4>3. b[m] = a[m]
        BY <2>14, <3>2
      <4>4. MeasuredAnew(b, m)
        BY <2>6, <4>1, <4>2, <4>3, AnewStays
      <4> QED BY <2>6, <4>3, <4>4
    <3> QED BY <3>1, <3>2
  <2>20. RowsInv'
    BY <2>13, <2>14, <2>19 DEF RowsInv
  <2>21. Grown(a, b)
    <3>1. \A m \in 1 .. n : Unturned(a[m], b[m])
      BY <2>5, <2>10, <2>11, <2>14, ZenonT(30) DEF Unturned
    <3> QED BY <2>6, <2>14, <3>1 DEF Grown
  <2>22. \A k \in DOMAIN scans' : scans'[k].status = "completed" \/ scans'[k].status = "failed"
    BY <2>13, <2>14, <2>19 DEF IsRow
  <2>23. PICK cached \in BOOLEAN : cached = FALSE
    OBVIOUS
  <2>24. EndPath(n, cached)
    BY <2>12, <2>23
  <2>25. n \in Outcomes(Len(scans'))
    BY <2>7, <2>13, <2>14 DEF Outcomes
  <2>26. IsSeq(scans) /\ IsSeq(scans') /\ Grown(scans, scans') /\ ProcInv /\ AnswersInv
    BY <2>2, <2>6, <2>13, <2>14, <2>21 DEF IInv
  <2>27. ProcInv' /\ ScanInv' /\ AnswersInv'
    BY <1>1, <2>22, <2>23, <2>24, <2>25, <2>26, PathEnds
  <2> QED BY <1>2, <2>12, <2>20, <2>27 DEF IInv
<1> QED BY <1>3, <1>4

-----------------------------------------------------------------------------
(* Trends and drift. *)
LEMMA DoneAre ==
    ASSUME RowsInv, NEW p, NEW done, done = CompletedRuns(p)
    PROVE  /\ \E S : done \in Seq(S) /\ \A r \in S : r.score \in Int /\ r.cols \in Seq(Members(r.cols))
           /\ (\A k \in DOMAIN done : done[k].score # NoScore) => build_trends(History(p)) = done
<1>1. PICK s : s = scans
  OBVIOUS
<1>2. PICK T : T = {s[n] : n \in DOMAIN s}
  OBVIOUS
<1>3. s \in Seq(T)
  <2>1. PICK S : s \in Seq(S)
    BY <1>1 DEF RowsInv, IsSeq
  <2>2. PICK n \in Nat : n = Len(s) /\ DOMAIN s = 1 .. n
    BY <2>1
  <2>3. s = [i \in 1 .. n |-> s[i]]
    BY <2>1, <2>2
  <2>4. s \in [1 .. n -> T]
    BY <1>2, <2>2, <2>3
  <2> QED BY <2>4, SeqDef
<1>4. \A r \in T : r.score \in Int /\ r.cols \in Seq(Members(r.cols))
  <2>1. \A n \in DOMAIN s : IsRow(s[n])
    BY <1>1 DEF RowsInv
  <2> QED BY <1>2, <2>1 DEF IsRow
<1>5. PICK K : K = {i \in DOMAIN s : s[i].path = p}
  OBVIOUS
<1>6. PICK u : u = [i \in DOMAIN s |-> IF i \in K THEN <<s[i]>> ELSE <<>>]
  OBVIOUS
<1>7. PICK h : h = FlattenSeq(u)
  OBVIOUS
<1>8. History(p) = h
  <2>1. u = [i \in DOMAIN s |-> IF s[i].path = p THEN <<s[i]>> ELSE <<>>]
    BY <1>5, <1>6
  <2> QED BY <1>1, <1>7, <2>1 DEF History, Those
<1>9. h \in Seq({s[i] : i \in K})
  BY <1>3, <1>5, <1>6, <1>7, ThoseAre
<1>10. PICK U : U = {s[i] : i \in K} /\ U \subseteq T
  BY <1>2, <1>5
<1>11. PICK L : L = {i \in DOMAIN h : h[i].status = "completed"}
  OBVIOUS
<1>12. PICK w : w = [i \in DOMAIN h |-> IF i \in L THEN <<h[i]>> ELSE <<>>]
  OBVIOUS
<1>13. done = FlattenSeq(w)
  <2>1. w = [i \in DOMAIN h |-> IF h[i].status = "completed" THEN <<h[i]>> ELSE <<>>]
    BY <1>11, <1>12
  <2> QED BY <1>8, <2>1 DEF CompletedRuns, Those
<1>14. h \in Seq(U)
  BY <1>9, <1>10
<1>15. done \in Seq({h[i] : i \in L}) /\ \A i \in L : h[i] \in Members(done)
  BY <1>11, <1>12, <1>13, <1>14, ThoseAre
<1>16. \A r \in {h[i] : i \in L} : r.score \in Int /\ r.cols \in Seq(Members(r.cols))
  <2>1. \A i \in L : h[i] \in U
    BY <1>11, <1>14
  <2> QED BY <1>4, <1>10, <2>1
<1>17. ASSUME \A k \in DOMAIN done : done[k].score # NoScore
       PROVE  build_trends(History(p)) = done
  <2>1. \A i \in L : h[i].score # NoScore
    BY <1>15, <1>17 DEF Members
  <2>2. w = [i \in DOMAIN h |-> IF h[i].status = "completed" /\ h[i].score # NoScore THEN <<h[i]>> ELSE <<>>]
    BY <1>11, <1>12, <2>1
  <2> QED BY <1>8, <1>13, <2>2 DEF build_trends, Those
<1> QED BY <1>15, <1>16, <1>17

\* The steps of a comparison add up to the difference of its ends.
LEMMA StepsAddUp ==
    ASSUME NEW n \in Nat, n >= 2, NEW x \in [1 .. n -> Int], NEW steps, steps = [i \in 2 .. n |-> x[i] - x[i - 1]]
    PROVE  SumFunction(steps) = x[n] - x[1]
<1>1. PICK D : D = 1 .. n /\ IsFiniteSet(D)
  <2>1. \A m \in Int : IsFiniteSet(1 .. m)
    BY FS_Interval
  <2> QED BY <2>1
<1>2. PICK h : h = [i \in D |-> IF i = 1 THEN 0 ELSE x[i] - x[i - 1]]
  OBVIOUS
<1>3. h \in [D -> Int]
  <2>1. ASSUME NEW i \in D PROVE (IF i = 1 THEN 0 ELSE x[i] - x[i - 1]) \in Int
    <3>1. CASE i = 1
      BY <3>1
    <3>2. CASE i # 1
      <4>1. i \in 1 .. n /\ i - 1 \in 1 .. n
        BY <1>1, <3>2
      <4>2. x[i] \in Int /\ x[i - 1] \in Int
        BY <4>1
      <4> QED BY <3>2, <4>2
    <3> QED BY <3>1, <3>2
  <2> QED BY <1>2, <2>1
<1>4. PICK c : c = [i \in 0 .. n |-> IF i = 0 THEN 0 ELSE x[i] - x[1]]
  OBVIOUS
<1>5. ASSUME NEW i \in 1 .. n PROVE c[i] = c[i - 1] + h[i]
  <2>1. PICK a \in Int, b \in Int : a = x[i] /\ b = x[1]
    <3>1. 1 \in 1 .. n
      OBVIOUS
    <3> QED BY <3>1
  <2>2. c[i] = a - b
    BY <1>4, <2>1
  <2>3. CASE i = 1
    <3>1. c[i - 1] = 0 /\ h[i] = 0 /\ a = b
      BY <1>1, <1>2, <1>4, <2>1, <2>3
    <3> QED BY <2>1, <2>2, <3>1
  <2>4. CASE i # 1
    <3>1. i - 1 \in 1 .. n /\ i \in D
      BY <1>1, <2>4
    <3>2. PICK e \in Int : e = x[i - 1]
      BY <3>1
    <3>3. c[i - 1] = e - b /\ h[i] = a - e
      BY <1>2, <1>4, <2>1, <2>4, <3>1, <3>2
    <3>4. \A r, s, t \in Int : r - s = (t - s) + (r - t)
      OBVIOUS
    <3>5. a - b = (e - b) + (a - e)
      BY <3>4
    <3> QED BY <2>2, <3>3, <3>5
  <2> QED BY <2>3, <2>4
<1>6. SumFunction(h) = c[n]
  <2>1. c[0] = 0
    BY <1>4
  <2>2. h \in [1 .. n -> Int]
    BY <1>1, <1>3
  <2> QED BY <1>5, <2>1, <2>2, SumRuns
<1>7. PICK k \in D : k = 1
  BY <1>1
<1>8. Without(h, k) = steps
  <2>1. DOMAIN h \ {k} = 2 .. n
    BY <1>1, <1>2, <1>7
  <2>2. \A i \in 2 .. n : h[i] = x[i] - x[i - 1]
    BY <1>1, <1>2
  <2> QED BY <2>1, <2>2 DEF Without
<1>9. SumFunction(h) = h[k] + SumFunction(Without(h, k))
  BY <1>1, <1>3, SumTakesOne
<1>10. h[k] = 0
  BY <1>2, <1>7
<1>11. SumFunction(steps) \in Int
  <2>1. PICK R : R = 2 .. n /\ R \subseteq D
    BY <1>1
  <2>2. IsFiniteSet(R)
    BY <1>1, <2>1, FS_Subset
  <2>3. steps \in [R -> Int]
    <3>1. \A i \in 2 .. n : h[i] = x[i] - x[i - 1] /\ h[i] \in Int
      BY <1>1, <1>2, <1>3
    <3> QED BY <2>1, <3>1
  <2> QED BY <2>2, <2>3, SumIsInt
<1>12. c[n] = x[n] - x[1]
  BY <1>4
<1>13. PICK z \in Int : z = SumFunction(steps)
  BY <1>11
<1>14. SumFunction(h) = 0 + z
  BY <1>8, <1>9, <1>10, <1>13
<1> QED BY <1>6, <1>12, <1>13, <1>14

\* Without schema changes the columns are the same, in the same order.
LEMMA SchemasAgree ==
    ASSUME NEW a, NEW b, a.cols \in Seq(Members(a.cols)), b.cols \in Seq(Members(b.cols)),
           SchemaChanges(a, b) = {}
    PROVE  a.cols = b.cols
<1>1. PICK x, y : x = a.cols /\ y = b.cols
  OBVIOUS
<1>2. PICK added, removed, moved :
          /\ added = Members(y) \ Members(x) /\ removed = Members(x) \ Members(y)
          /\ moved = {<<"added", c>> : c \in added} \cup {<<"removed", c>> : c \in removed}
  OBVIOUS
<1>3. moved = {} /\ (x = <<>> \/ x = y)
  BY <1>1, <1>2 DEF SchemaChanges
<1>4. added = {}
  BY <1>2, <1>3
<1>5. CASE x = <<>>
  <2>1. Members(x) = {}
    BY <1>5 DEF Members
  <2>2. Members(y) = {} /\ y \in Seq(Members(y))
    BY <1>1, <1>2, <1>4, <2>1
  <2>3. Len(y) = 0
    BY <2>2 DEF Members
  <2>4. y = <<>>
    BY <2>2, <2>3
  <2> QED BY <1>1, <1>5, <2>4
<1> QED BY <1>1, <1>3, <1>5

\* The rows alone make the trend agree with the drift.
LEMMA TrendsFollow == ASSUME RowsInv PROVE TrendAgreesWithDrift
<1> SUFFICES ASSUME NEW p \in Paths, Len(CompletedRuns(p)) >= 2,
                    \A k \in DOMAIN CompletedRuns(p) : CompletedRuns(p)[k].score # NoScore
             PROVE  /\ (Direction(History(p)) # "flat") <=>
                           DriftLatest(p, 5).score
                    /\ TrendDelta(History(p)) = SumFunction(build_comparison(History(p)))
                    /\ DriftLatest(p, 5).schema = {} => CompletedRuns(p)[1].cols = Last(CompletedRuns(p)).cols
  BY DEF TrendAgreesWithDrift
<1>1. PICK done : done = CompletedRuns(p)
  OBVIOUS
<1>2. PICK S : done \in Seq(S) /\ \A r \in S : r.score \in Int /\ r.cols \in Seq(Members(r.cols))
  BY <1>1, DoneAre
<1>3. build_trends(History(p)) = done
  BY <1>1, DoneAre
<1>4. PICK n \in Nat : n = Len(done) /\ DOMAIN done = 1 .. n /\ n >= 2
  BY <1>1, <1>2
<1>5. PICK a \in S, b \in S : a = done[1] /\ b = done[n]
  <2>1. 1 \in 1 .. n /\ n \in 1 .. n
    BY <1>4
  <2>2. \A i \in 1 .. n : done[i] \in S
    BY <1>2, <1>4
  <2> QED BY <2>1, <2>2
<1>6. Last(done) = b
  BY <1>4, <1>5 DEF Last
<1>7. PICK x : x = [i \in 1 .. n |-> done[i].score]
  OBVIOUS
<1>8. x \in [1 .. n -> Int]
  BY <1>2, <1>4, <1>7
<1>9. PICK i \in Int, j \in Int : i = a.score /\ j = b.score /\ i # NoScore /\ j # NoScore
  <2>1. a.score # NoScore /\ b.score # NoScore
    BY <1>1, <1>4, <1>5
  <2> QED BY <1>2, <2>1
<1>10. TrendDelta(History(p)) = j - i
  <2>1. ~(n < 2)
    BY <1>4
  <2> QED BY <1>3, <1>4, <1>5, <1>9, <2>1 DEF TrendDelta
<1>11. (Direction(History(p)) # "flat") <=> ScoreDrift(a, b, 5)
  <2>1. PICK t \in Int : t = j - i
    OBVIOUS
  <2>2. (Direction(History(p)) # "flat") <=> (t >= 5 \/ t <= -5)
    BY <1>10, <2>1 DEF Direction
  <2>3. ScoreDrift(a, b, 5) <=> Abs(t) >= 5
    BY <1>9, <2>1 DEF ScoreDrift
  <2> QED BY <2>2, <2>3 DEF Abs
<1>12. TrendDelta(History(p)) = SumFunction(build_comparison(History(p)))
  <2>1. PICK steps : steps = [k \in 2 .. n |-> x[k] - x[k - 1]]
    OBVIOUS
  <2>2. SumFunction(steps) = x[n] - x[1]
    BY <1>4, <1>8, <2>1, StepsAddUp
  <2>3. build_comparison(History(p)) = steps
    <3>1. \A k \in 2 .. n : k \in 1 .. n /\ k - 1 \in 1 .. n
      BY <1>4
    <3>2. steps = [k \in 2 .. n |-> done[k].score - done[k - 1].score]
      BY <1>7, <2>1, <3>1
    <3>3. ~(n < 2)
      BY <1>4
    <3> QED BY <1>3, <1>4, <3>2, <3>3 DEF build_comparison
  <2>4. x[n] = j /\ x[1] = i
    BY <1>4, <1>5, <1>7, <1>9
  <2> QED BY <1>10, <2>2, <2>3, <2>4
<1>13. DriftLatest(p, 5).schema = SchemaChanges(a, b) /\ (DriftLatest(p, 5).score <=> ScoreDrift(a, b, 5))
  BY <1>1, <1>5, <1>6 DEF DriftLatest, compare_scans
<1>14. SchemaChanges(a, b) = {} => a.cols = b.cols
  BY <1>2, SchemasAgree
<1> QED BY <1>1, <1>5, <1>6, <1>11, <1>12, <1>13, <1>14

-----------------------------------------------------------------------------
(* The invariant holds in every state, and the properties follow from it.         *)
LEMMA InitFits == ASSUME Init PROVE IInv
<1>1. proc = Idle /\ scans = <<>> /\ answers = <<>> /\ changes = 0 /\ file \in InitialFiles
  BY DEF Init
<1>2. IsSeq(scans) /\ DOMAIN scans = {} /\ IsSeq(answers) /\ DOMAIN answers = {} /\ Len(answers) = 0
  <2>1. <<>> \in Seq({}) /\ DOMAIN <<>> = {}
    OBVIOUS
  <2> QED BY <1>1, <2>1 DEF IsSeq
<1>3. ProcInv /\ ScanInv
  BY <1>1 DEF ProcInv, ScanInv
<1>4. RowsInv
  BY <1>2 DEF RowsInv
<1>5. AnswersInv
  BY <1>2, ScanAssumption DEF AnswersInv
<1> QED BY <1>1, <1>3, <1>4, <1>5, ScanAssumption DEF IInv

\* Every step keeps the invariant.
LEMMA NextKeeps == ASSUME IInv, [Next]_vars PROVE IInv'
<1>1. CASE UNCHANGED vars
  <2>1. file' = file /\ proc' = proc /\ scans' = scans /\ answers' = answers /\ changes' = changes
    BY <1>1 DEF vars
  <2>2. RowsInv' /\ AnswersInv'
    BY <2>1, StoreStands DEF IInv
  <2>3. ProcInv'
    BY <2>1 DEF IInv, ProcInv
  <2>4. command' = command /\ scan' = scan /\ path' = path /\ now' = now
    BY <2>1 DEF command, scan, path, now
  <2>5. ScanInv'
    BY <2>1, <2>4 DEF IInv, ScanInv
  <2> QED BY <2>1, <2>2, <2>3, <2>5 DEF IInv
<1>2. CASE \E c \in Commands : Begin(c)
  BY <1>2, BeginKeeps
<1>3. CASE OpenSource
  BY <1>3, OpenKeeps
<1>4. CASE CountRows
  BY <1>4, CountKeeps
<1>5. CASE FirstDetect
  BY <1>5, FirstKeeps
<1>6. CASE SecondDetect
  BY <1>6, SecondKeeps
<1>7. CASE RunContractRules
  BY <1>7, RulesKeep
<1>8. CASE SaveScan
  BY <1>8, SaveKeeps
<1>9. CASE SaveProfile
  BY <1>9, ProfileKeeps
<1>10. CASE \E p \in Paths, v \in Later : Edit(p, v)
  BY <1>10, EditKeeps
<1>11. CASE Crash
  BY <1>11, CrashKeeps
<1> QED BY <1>1, <1>2, <1>3, <1>4, <1>5, <1>6, <1>7, <1>8, <1>9, <1>10, <1>11 DEF Next

\* The invariant holds in every reachable state.
THEOREM InvariantHolds == Spec => []IInv
<1>1. Init => IInv
  BY InitFits
<1>2. IInv /\ [Next]_vars => IInv'
  BY NextKeeps
<1> QED BY <1>1, <1>2, PTL DEF Spec

\* The types follow from the invariant.
LEMMA TypesFollow == ASSUME IInv PROVE TypeOK
<1>1. ASSUME proc # Idle
      PROVE  /\ command \in Commands /\ scan.stage \in Stages
             /\ proc.results \o proc.paths # <<>>
             /\ Len(proc.results) + Len(proc.paths) = Len(command.paths)
  <2>1. PICK p : p = proc
    OBVIOUS
  <2>2. PICK n : IsProcess(p, n)
    BY <1>1, <2>1 DEF IInv, ProcInv
  <2>3. /\ p.command \in Commands /\ p.paths \in Seq(Paths) /\ p.paths # <<>> /\ p.results \in Seq(Int)
        /\ Len(p.results) + Len(p.paths) = Len(p.command.paths)
        /\ p.scan = NoScan \/ (Knows(p.command, p.scan) /\ StageFits(p.scan))
    BY <2>2 DEF IsProcess
  <2>4. p.scan.stage \in Stages
    BY <2>3 DEF NoScan, StageFits, Stages
  <2>5. p.results \o p.paths # <<>>
    <3>1. PICK T : T = Int \cup Paths
      OBVIOUS
    <3>2. p.results \in Seq(T) /\ p.paths \in Seq(T)
      BY <2>3, <3>1
    <3>3. PICK i \in Nat, j \in Nat : i = Len(p.results) /\ j = Len(p.paths) /\ j > 0
      BY <2>3
    <3>4. \A x, y \in Nat : y > 0 => x + y # 0
      OBVIOUS
    <3>5. Len(p.results \o p.paths) = Len(p.results) + Len(p.paths)
      BY <3>2, ConcatProperties
    <3>6. Len(p.results \o p.paths) # 0
      BY <3>3, <3>4, <3>5
    <3>7. Len(<<>>) = 0
      OBVIOUS
    <3> QED BY <3>6, <3>7
  <2> QED BY <2>1, <2>3, <2>4, <2>5 DEF command, scan
<1>2. ASSUME NEW n \in DOMAIN scans
      PROVE  /\ scans[n].path \in Paths /\ scans[n].digest \in Versions \cup {Gone}
             /\ scans[n].looked \subseteq Versions
             /\ \A i \in scans[n].issues : i.priority \in Priorities
  <2>1. IsRow(scans[n])
    BY DEF IInv, RowsInv
  <2> QED BY <2>1 DEF IsRow
<1>3. file \in [Paths -> Versions \cup {Gone}] /\ Len(answers) <= MaxCommands /\ changes <= MaxChanges
  BY DEF IInv, AnswersInv
<1> QED BY <1>1, <1>2, <1>3 DEF TypeOK

\* Types: a stage of a scan, results for the paths done, rows of known paths and versions
\* with priorities in their range (the state of scan, ScanRecord and the command loop).
THEOREM TypesHold == Spec => []TypeOK
<1>1. IInv => TypeOK
  BY TypesFollow
<1> QED BY <1>1, InvariantHolds, PTL

\* A completed scan nobody disturbed misses nothing: each finding of each detector it
\* selected lies in an issue that names it and is at least as severe (runner and fuse).
THEOREM QuietScansMissNothing == Spec => []QuietScanIsComplete
<1>1. IInv => QuietScanIsComplete
  BY DEF IInv, RowsInv, IsComplete, QuietScanIsComplete
<1> QED BY <1>1, InvariantHolds, PTL

\* Even when files change during the scan, every detector an issue names saw a finding on
\* the columns of the issue in a version the scan read (runner, rules and fuse).
THEOREM IssuesWereSeenAlways == Spec => []IssuesWereSeen
<1>1. IInv => IssuesWereSeen
  BY DEF IInv, RowsInv, IsRow, IssuesWereSeen
<1> QED BY <1>1, InvariantHolds, PTL

\* An exit "ok" of the CLI means that every path was scanned, that each scan completed and
\* that no issue of one fails the gate (the exit code of scan).
THEOREM OkMeansClean == Spec => []ExitOkMeansClean
<1>1. IInv => ExitOkMeansClean
  BY DEF IInv, AnswersInv, CleanAnswer, ExitOkMeansClean
<1> QED BY <1>1, InvariantHolds, PTL

\* An answer from the store is a completed scan that holds what its detectors find in the
\* file as it is (the incremental scan).
THEOREM CachedAnswersAreSound == Spec => []CachedAnswerIsSound
<1>1. IInv => CachedAnswerIsSound
  BY DEF IInv, AnswersInv, SoundCache, CachedAnswerIsSound
<1> QED BY <1>1, InvariantHolds, PTL

\* A quiet scan with the columns of the last completed profile measures each column in the
\* file it scanned (reuse of profiles).
THEOREM ProfilesAreMeasuredAnew == Spec => []SameColumnsMeasuredAnew
<1>1. IInv => SameColumnsMeasuredAnew
  BY DEF IInv, RowsInv, MeasuredAnew, Earlier, Profiled, SameColumnsMeasuredAnew
<1> QED BY <1>1, InvariantHolds, PTL

\* Trend, comparison and drift of a path span the same completed scans, the oldest to the
\* newest, however many there are (trends and drift_latest).
THEOREM TrendsAgreeWithDrift == Spec => []TrendAgreesWithDrift
<1>1. IInv => TrendAgreesWithDrift
  BY TrendsFollow DEF IInv
<1> QED BY <1>1, InvariantHolds, PTL
=============================================================================
