------------------------------ MODULE Explanation ------------------------------
(***************************************************************************)
(* The text that SHAPExplainer.explain of backend/ml/explainer.py puts     *)
(* beside the result of a transaction that RiskScoring has scored: its     *)
(* level and the sentence on its typology, in each language.  The features *)
(* and the three reasons are left out: they are those with the greatest    *)
(* impact among 47, most of which RiskScoring does not have.               *)
(***************************************************************************)
EXTENDS RiskScoring

CONSTANT Languages  \* the languages an explanation is built in

-----------------------------------------------------------------------------
\* Mutant: a score at the bound has the level below.
LabelAbove(s) ==
    CASE s > 95000 -> "CRITICAL"
      [] s > 80000 /\ s <= 95000 -> "HIGH"
      [] s > 50000 /\ s <= 80000 -> "MEDIUM"
      [] OTHER -> "LOW"

\* The thresholds are written into _build_explanation; those of the risk level are
\* settings.
Label(s) ==
    CASE s >= 95000 -> "CRITICAL"
      [] s >= 80000 /\ s < 95000 -> "HIGH"
      [] s >= 50000 /\ s < 80000 -> "MEDIUM"
      [] OTHER -> "LOW"

\* TYPOLOGY_TEMPLATES
Templates == {"STRUCTURING", "LAYERING", "SMURFING", "ROUND_TRIPPING", "UNKNOWN"}

\* _build_explanation: the level and a sentence on the typology.
BuildExplanation(s, typology, lang) ==
    [lang |-> lang, level |-> Label(s),
     note |-> IF typology \in Templates THEN typology ELSE NoTypology]

\* explain: a text for each language.
Explain(s, typology) == {BuildExplanation(s, typology, lang) : lang \in Languages}

Shown == Explain(result.score, result.typology)

-----------------------------------------------------------------------------
(* Properties *)

\* "Every flagged transaction receives a human-readable explanation in DE/EN"
\* (architecture.md): in each language it names the level and the typology of the result,
\* although the thresholds of its level are not those of the settings.
ExplanationAgrees ==
    result.explained =>
        \A text \in Shown : text.level = result.level /\ text.note = result.typology

\* Score and explanation: the result is well formed, and the text shown with it tells of
\* that result.
ExplanationInvariant == ScoringTypeOK /\ ExplanationAgrees
===============================================================================
