----------------------------- MODULE RiskScoring -----------------------------
(***************************************************************************)
(* Scoring of one transaction: the features of                             *)
(* backend/ml/anomaly_detector.py that the scorer reads, the cluster and   *)
(* the flag of backend/services/ml_service.py, and the scorer of           *)
(* backend/ml/risk_scorer.py.  The program's numbers are fractions: here   *)
(* ratios and the two model outputs are in hundredths, components in       *)
(* 1/1000 and scores in 1/100000, so that every product is exact.          *)
(***************************************************************************)
EXTENDS Integers, FiniteSets

CONSTANTS
    Inputs,          \* the transactions and account histories to be scored
    Probas,          \* what the LightGBM model may predict, in hundredths
    Scorers,         \* which scorer load_model may have come up with
    MediumThreshold, \* settings.RISK_MEDIUM_THRESHOLD, in 1/100000
    FlagThreshold,   \* settings.ANOMALY_THRESHOLD
    HighThreshold    \* settings.RISK_HIGH_THRESHOLD

Ratio == 0 .. 100

\* amount, avg and std are in currency units; anomaly is what the isolation forest
\* said; highRisk is 1 when the target country is on the FATF list.
InputType ==
    [amount : Nat, avg : Nat, std : Nat, anomaly : Ratio, highRisk : {0, 1},
     crossBorder : Ratio, count24h : Nat, concentration : Ratio, newBeneficiaries : Nat,
     sameRatio : Ratio, sameCount : Nat, countries : Nat]

ASSUME ScoringAssumption ==
    /\ Inputs \subseteq InputType
    /\ Probas \subseteq Ratio
    /\ Scorers \subseteq {"heuristic_v1", "mlflow_prod"}
    /\ MediumThreshold \in Nat /\ FlagThreshold \in Nat /\ HighThreshold \in Nat
    /\ MediumThreshold <= FlagThreshold /\ FlagThreshold <= HighThreshold
    /\ HighThreshold <= 95000

VARIABLES
    scorer,  \* _model_version of the scorer
    input,   \* the transaction and history that were scored last
    proba,   \* the prediction of the LightGBM model for it
    result   \* the ScoringResult

scoringVars == <<scorer, input, proba, result>>

Levels == {"LOW", "MEDIUM", "HIGH", "CRITICAL"}
Typologies == {"STRUCTURING", "SMURFING", "LAYERING", "ROUND_TRIPPING", "UNKNOWN"}
NoTypology == "none"

Results ==
    [score : Nat, level : Levels, confidence : Ratio,
     typology : Typologies \cup {NoTypology}, flagged : BOOLEAN, explained : BOOLEAN]

ScoringTypeOK ==
    /\ scorer \in Scorers
    /\ input \in Inputs
    /\ proba \in Probas
    /\ result \in Results
    /\ result.score <= 100000

-----------------------------------------------------------------------------
(* Features *)

Clip(v) == IF v > 1000 THEN 1000 ELSE v

Distance(a, b) == IF a > b THEN a - b ELSE b - a

\* The z-score's divisor, max(std_30d, 1).
Deviation(x) == IF x.std > 1 THEN x.std ELSE 1

\* The seventh feature; extract_features tests amount >= STRUCTURING_THRESHOLD_EUR and
\* FEATURE_NAMES calls it near_threshold.
NearThreshold(x) == x.amount >= 10000

\* _get_cluster_assignment: |z| > 3, |z| > 1.5, or less.
ClusterRisk(x) ==
    LET gap == Distance(x.amount, x.avg)
    IN  IF gap > 3 * Deviation(x) THEN 850
        ELSE IF 2 * gap > 3 * Deviation(x) THEN 550
        ELSE 150

-----------------------------------------------------------------------------
(* The scorer *)

JurisdictionRisk(x) == Clip(900 * x.highRisk + x.crossBorder)

\* Mutant: a count beyond the scale is taken for bad data.
VelocityOutOfRange(x) == IF 50 * x.count24h > 1000 THEN 0 ELSE 50 * x.count24h

VelocityRisk(x) == Clip(50 * x.count24h)

\* The scorer reads amount_vs_30d_avg_zscore, which no feature is called.
AmountRisk(x) == 0

CounterpartyRisk(x) == Clip(6 * x.concentration + 40 * x.newBeneficiaries)

\* _heuristic_score
HeuristicScore(x) ==
    35 * (10 * x.anomaly) + 20 * ClusterRisk(x) + 15 * JurisdictionRisk(x)
    + 12 * VelocityRisk(x) + 10 * AmountRisk(x) + 8 * CounterpartyRisk(x)

\* _model_score: 1 - |2p - 1|
ModelConfidence(p) == 100 - Distance(2 * p, 100)

\* _compute_risk_level
RiskLevel(s) ==
    CASE s >= 95000 -> "CRITICAL"
      [] s >= HighThreshold /\ s < 95000 -> "HIGH"
      [] s >= MediumThreshold /\ s < HighThreshold -> "MEDIUM"
      [] OTHER -> "LOW"

\* TYPOLOGY_RULES: which rule fires.
Rule(x, t) ==
    CASE t = "STRUCTURING" -> NearThreshold(x) /\ x.count24h > 3
      [] t = "SMURFING" -> x.sameRatio > 70 /\ x.sameCount > 3
      [] t = "LAYERING" -> x.countries > 5 /\ x.crossBorder > 60
      [] t = "ROUND_TRIPPING" -> x.newBeneficiaries > 3 /\ x.concentration > 80

\* Mutant: no catch-all for high scores.
TypologyUnnamed(x, s) ==
    IF s >= MediumThreshold /\ Rule(x, "STRUCTURING") THEN "STRUCTURING" ELSE NoTypology

\* _detect_typology: the first rule in the order of the dict, else a catch-all.
Typology(x, s) ==
    IF s < MediumThreshold THEN NoTypology
    ELSE IF Rule(x, "STRUCTURING") THEN "STRUCTURING"
    ELSE IF Rule(x, "SMURFING") THEN "SMURFING"
    ELSE IF Rule(x, "LAYERING") THEN "LAYERING"
    ELSE IF Rule(x, "ROUND_TRIPPING") THEN "ROUND_TRIPPING"
    ELSE IF s >= HighThreshold THEN "UNKNOWN" ELSE NoTypology

Score(m, x, p) == IF m = "mlflow_prod" THEN 1000 * p ELSE HeuristicScore(x)

Confidence(m, p) == IF m = "mlflow_prod" THEN ModelConfidence(p) ELSE 75

\* score_transaction
ScoreTransaction(m, x, p) ==
    LET s == Score(m, x, p)
    IN  [score |-> s, level |-> RiskLevel(s), confidence |-> Confidence(m, p),
         typology |-> Typology(x, s), flagged |-> s >= FlagThreshold,
         explained |-> s >= MediumThreshold]

-----------------------------------------------------------------------------
ScoringInit ==
    /\ scorer \in Scorers
    /\ input \in Inputs
    /\ proba \in Probas
    /\ result = ScoreTransaction(scorer, input, proba)

\* The next transaction is scored.
ScoringNext ==
    /\ input' \in Inputs
    /\ proba' \in Probas
    /\ result' = ScoreTransaction(scorer, input', proba')
    /\ UNCHANGED scorer

ScoringSpec == ScoringInit /\ [][ScoringNext]_scoringVars

-----------------------------------------------------------------------------
(* Properties *)

\* y differs from x by a higher anomaly score, jurisdiction risk or velocity only.
RiskierInput(x, y) ==
    /\ x.anomaly <= y.anomaly /\ x.highRisk <= y.highRisk /\ x.count24h <= y.count24h
    /\ y = [x EXCEPT !.anomaly = y.anomaly, !.highRisk = y.highRisk, !.count24h = y.count24h]

\* "Higher anomaly score -> higher risk score (non-decreasing)", and the same for
\* jurisdiction risk and velocity (RiskScorer): the heuristic scorer, clipping and
\* clusters included, never scores a riskier transaction lower.
Monotone ==
    [][scorer = "heuristic_v1" /\ RiskierInput(input, input') => result.score <= result'.score]_scoringVars

\* What an analyst is shown hangs together, although four thresholds decide it in three
\* places: a flagged transaction is explained and not LOW, a HIGH or CRITICAL one is
\* flagged and has a typology.
AlertIsComplete ==
    /\ result.flagged => result.explained /\ result.level # "LOW"
    /\ result.level \in {"HIGH", "CRITICAL"} => result.flagged /\ result.typology # NoTypology
=============================================================================
