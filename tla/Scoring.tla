------------------------------ MODULE Scoring ------------------------------
(***************************************************************************)
(* What happens to the candidates of a scan: fusion into issues, priority  *)
(* score, quality score, quality gate, drift between two scans and trends. *)
(* Fractions are integers: confidence in millionths, ratios and weights in *)
(* thousandths, priorities in hundredths and quality scores in tenths.     *)
(***************************************************************************)
EXTENDS Detectors, SequencesExt

(* the elements of a sequence that pass a test, in its order *)
Those(s, Test(_)) == FlattenSeq([i \in DOMAIN s |-> IF Test(s[i]) THEN <<s[i]>> ELSE <<>>])

Severities == <<"info", "low", "medium", "high", "critical">>
Rank(severity) == CHOOSE i \in DOMAIN Severities : Severities[i] = severity
SeverityWeight(severity) == <<100, 250, 500, 750, 1000>>[Rank(severity)]
AtLeast(severity, floor) == Rank(severity) >= Rank(floor)

Dimensions == {"completeness", "validity", "uniqueness", "consistency", "integrity", "timeliness"}
DimensionWeight(d) ==
    CASE d \in {"completeness", "validity", "consistency"} -> 20
      [] d \in {"uniqueness", "integrity"} -> 15
      [] OTHER -> 10

Numeric == {"iqr_outlier", "modified_zscore", "tail_probability", "percentile_outlier", "histogram_rarity"}
Categorical == {"suspicious_placeholder", "rare_category", "category_explosion", "inconsistent_case"}
Temporal == {"invalid_date", "impossible_date", "future_date", "stale_date",
             "mixed_date_format", "duplicate_timestamp"}
issue_family(detector) ==
    IF detector \in Members(Completeness) THEN "missingness"
    ELSE IF detector \in Members(Uniqueness) THEN "uniqueness"
    ELSE IF detector \in Numeric THEN "numeric_outlier"
    ELSE IF detector \in Categorical THEN "categorical_anomaly"
    ELSE IF detector \in Temporal THEN "datetime_anomaly"
    ELSE IF detector = "cross_field_rule" THEN "cross_field_constraint"
    ELSE IF detector = "foreign_key_violation" THEN "integrity_constraint"
    ELSE IF detector = "model_outlier" THEN "distribution_anomaly"
    ELSE IF detector \in Members(Validity) THEN "string_format"
    ELSE detector                               \* a contract rule is its own family
FamilyDimension(family) ==
    CASE family = "missingness" -> "completeness"
      [] family = "uniqueness" -> "uniqueness"
      [] family = "integrity_constraint" -> "integrity"
      [] family = "distribution_anomaly" -> "distribution_stability"
      [] OTHER -> "validity"
DetectorDimension(detector) ==
    IF detector \in DetectorIds THEN FamilyDimension(issue_family(detector)) ELSE "none"
Canonical(d) == IF d = "distribution_stability" THEN "integrity" ELSE d

----------------------------------------------------------------------------
(* Fusion: candidates on the same columns and of one family become an issue. *)
Key_FirstColumn(c) == <<{c.columns[1]}, issue_family(c.detector)>>
Key(c) == <<Members(c.columns), issue_family(c.detector)>>
WorstOf(cluster) == CHOOSE s \in {c.severity : c \in cluster} :
                        \A c \in cluster : AtLeast(s, c.severity)
Certain == 1000000      \* a confidence of 1
FusedConfidence(cluster) ==
    Certain - FoldSet(LAMBDA c, rest : (rest * (100 - c.confidence)) \div 100, Certain, cluster)
(* Only cross-field candidates list their rows, and at most 20 of them. *)
ListedRows(cluster) == {Min({20, c.affected}) : c \in {d \in cluster : d.detector = "cross_field_rule"}}
AffectedCount(cluster) ==
    Max(IF ListedRows(cluster) # {} THEN ListedRows(cluster) ELSE {c.affected : c \in cluster})
Ratio(affected, rows) == IF rows <= 0 THEN 0 ELSE Min({1000, (affected * 1000) \div rows})

Cluster(candidates, k) == {c \in candidates : Key(c) = k}
IssueOf(cluster, k, rows) ==
    [columns    |-> k[1], family |-> k[2],
     severity   |-> WorstOf(cluster),
     confidence |-> FusedConfidence(cluster),
     affected   |-> AffectedCount(cluster),
     ratio      |-> Ratio(AffectedCount(cluster), rows),
     detectors  |-> {c.detector : c \in cluster},
     agreeing   |-> Cardinality(cluster),        \* detector_ids names one detector per candidate
     priority   |-> 0]                           \* filled in by the scoring engine
fuse_FirstSeverity(candidates, rows) ==
    {[IssueOf(Cluster(candidates, k), k, rows)
        EXCEPT !.severity = (CHOOSE c \in Cluster(candidates, k) : TRUE).severity] :
     k \in {Key(c) : c \in candidates}}
fuse(candidates, rows) ==
    {IssueOf(Cluster(candidates, k), k, rows) : k \in {Key(c) : c \in candidates}}

(* 10 severity + 25 confidence + 15 scope + 15 agreement, and the constant terms: *)
(* criticality NORMAL 4, reproducibility 5, novelty 10, half of repairability 10. *)
Priorities == 0 .. 10000
Priority(issue) ==
    LET scope     == Min({1000, issue.ratio * 20})
        agreement == Min({3, issue.agreeing})
        total     == SeverityWeight(issue.severity) + (25 * issue.confidence) \div 10000
                       + (15 * scope) \div 10 + 500 * agreement + 2400
    IN  Max({0, Min({10000, total})})

(* Quality: a dimension loses the mean impact of its issues over the worst one, 1.6. *)
Impact(issue) == (((issue.confidence \div 1000) * SeverityWeight(issue.severity)) \div 1000) * issue.ratio
DimensionScore(issues, d) ==
    LET own == {i \in issues : Canonical(FamilyDimension(i.family)) = d}
    IN  IF own = {} THEN 1000
        ELSE Max({0, 1000 - SumFunction([i \in own |-> Impact(i)]) \div (1600 * Cardinality(own))})
(* no score when no detector of a scored dimension completed *)
NoScore == -1
QualityScore(issues, ran) ==
    LET scored == ran \cap Dimensions
        weight == SumFunction([d \in scored |-> DimensionWeight(d)])
    IN  IF scored = {} THEN NoScore
        ELSE SumFunction([d \in scored |-> DimensionWeight(d) * DimensionScore(issues, d)]) \div weight

----------------------------------------------------------------------------
(* The gate: [fail_on, ratio, limits, repair]; limits maps severities to counts. *)
BlockedBySeverity(issues, gate) ==
    LET severe == {i \in issues : i.severity \in gate.fail_on}
    IN  IF \E i \in severe : i.ratio > gate.ratio THEN severe ELSE {}
BlockedByCount(issues, gate) ==
    UNION {LET own == {i \in issues : i.severity = s}
           IN  IF Cardinality(own) > gate.limits[s] THEN own ELSE {} : s \in DOMAIN gate.limits}
evaluate(issues, gate, repair_validated) ==
    \/ BlockedBySeverity(issues, gate) \cup BlockedByCount(issues, gate) = {}
    \/ gate.repair /\ repair_validated

----------------------------------------------------------------------------
(* Drift between two scans; a scan carries its columns, rows, score and issues. A score has *)
(* moved when it differs by so many tenths, 50 unless the caller says otherwise.            *)
SchemaChanges(ref, cur) ==
    LET added   == Members(cur.cols) \ Members(ref.cols)
        removed == Members(ref.cols) \ Members(cur.cols)
        changes == {<<"added", c>> : c \in added} \cup {<<"removed", c>> : c \in removed}
    IN  IF changes = {} /\ ref.cols # <<>> /\ ref.cols # cur.cols
        THEN {<<"order_changed", ref.cols[1]>>} ELSE changes
RowDrift(ref, cur, percent) ==
    ref.rows > 0 /\ Abs(cur.rows - ref.rows) * 100 >= percent * ref.rows
ScoreDrift(ref, cur, tenths) ==
    NoScore \notin {ref.score, cur.score} /\ Abs(cur.score - ref.score) >= tenths
CountOf(scan, family) == Cardinality({i \in scan.issues : i.family = family})
IssueDrifts(ref, cur) ==
    LET Moved(f) == CountOf(ref, f) # CountOf(cur, f)
        Direction(before, after) ==
            IF before = 0 THEN "new_category" ELSE IF after = 0 THEN "gone_category"
            ELSE IF after > before THEN "increase" ELSE "decrease"
    IN  {<<f, Direction(CountOf(ref, f), CountOf(cur, f))>> :
           f \in {g \in {i.family : i \in ref.issues \cup cur.issues} : Moved(g)}}
compare_scans(ref, cur, tenths) ==
    [schema |-> SchemaChanges(ref, cur), rows |-> RowDrift(ref, cur, 20),
     score |-> ScoreDrift(ref, cur, tenths), issues |-> IssueDrifts(ref, cur)]

(* The scans a trend or a comparison shows, oldest first. *)
build_trends(scans) == Those(scans, LAMBDA s : s.status = "completed" /\ s.score # NoScore)
TrendDelta(scans) ==
    LET points == build_trends(scans)
    IN  IF Len(points) < 2 THEN 0 ELSE points[Len(points)].score - points[1].score
Direction(scans) ==
    IF TrendDelta(scans) >= 5 THEN "up" ELSE IF TrendDelta(scans) <= -5 THEN "down" ELSE "flat"
build_comparison(scans) ==
    LET rows == build_trends(scans)
    IN  IF Len(rows) < 2 THEN <<>>
        ELSE [i \in 2 .. Len(rows) |-> rows[i].score - rows[i - 1].score]
============================================================================
