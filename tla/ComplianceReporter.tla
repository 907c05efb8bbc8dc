-------------------------- MODULE ComplianceReporter --------------------------
(***************************************************************************)
(* The two report generators of backend/utils/compliance_reporter.py as     *)
(* operators from a request body to a report.  Texts are represented by     *)
(* what they stand for: an indicator by its category, the hash by the       *)
(* content it was computed from.                                            *)
(***************************************************************************)
EXTENDS Naturals, Sequences, FiniteSets, FiniteSetsExt

CONSTANTS
    None,   \* Python's None, and a key that is absent from a dictionary
    NaN,    \* an amount float() accepts and JSON cannot carry: nan, inf
    Huge,   \* an amount so large that a sum with another such may be inf
    Text,   \* an amount float() refuses with ValueError
    Null    \* an amount float() refuses with TypeError

ReportType == {"FINMA_STR", "BAFIN_SAR", "FATF_STR"}

SuspicionCategory == {"STRUCTURING", "LAYERING", "INTEGRATION", "TERRORIST_FINANCE",
    "SANCTIONS_EVASION", "PEP_EXPOSURE", "UNUSUAL_VELOCITY", "CASH_INTENSIVE",
    "SMURFING", "TRADE_BASED", "CYBER_CRIME", "OTHER"}

-----------------------------------------------------------------------------
(* Reading the transactions *)

\* float() raises at the first transaction it cannot convert.
ConversionError(txns) ==
    LET bad == {i \in DOMAIN txns : txns[i].amount \in {Text, Null}}
    IN  CASE bad = {} -> "none"
          [] bad # {} /\ txns[Min(bad)].amount = Text -> "ValueError"
          [] OTHER -> "TypeError"

\* A transaction without an amount counts as 0, one without a currency as domestic.
Summaries(txns, domestic) ==
    [i \in DOMAIN txns |->
        [amount   |-> IF txns[i].amount = None THEN 0 ELSE txns[i].amount,
         currency |-> IF txns[i].currency = None THEN domestic ELSE txns[i].currency]]

\* No category, or an empty list of them, means OTHER.
CategoriesOf(body) ==
    IF body.categories \in {None, <<>>} THEN <<"OTHER">> ELSE body.categories

-----------------------------------------------------------------------------
(* Indicators *)

\* The categories the FINMA tables have a text for; others are passed over.
FinmaTexts == {"STRUCTURING", "UNUSUAL_VELOCITY", "CASH_INTENSIVE", "SANCTIONS_EVASION",
    "LAYERING", "PEP_EXPOSURE", "TERRORIST_FINANCE", "OTHER"}

\* In hundredths; a body without scores has anomaly score None, read as 0.
HighAnomaly(score) == score # None /\ score > 70

FinmaIndicators(categories, score) ==
    SelectSeq(categories, LAMBDA c : c \in FinmaTexts)
        \o (IF HighAnomaly(score) THEN <<"ML_SCORE">> ELSE <<>>)

\* The BaFin tables; a category they lack is named in a generic sentence.
BaFinTexts == FinmaTexts \ {"TERRORIST_FINANCE"}

BaFinIndicators(categories) ==
    [i \in DOMAIN categories |->
        IF categories[i] \in BaFinTexts THEN categories[i] ELSE "GENERIC"]

-----------------------------------------------------------------------------
(* Reports *)

\* SHA-256 is taken to have no collisions: a hash is what was hashed.
ComputeHash(report) == [sha256_of |-> report]

\* Signature first, then the hash, over a report whose own hash is still None.
Seal(report, user, now) ==
    LET signed == [report EXCEPT !.signed_by = user, !.signature_ts = now]
    IN  [signed EXCEPT !.report_hash = ComputeHash(signed)]

Unsigned(id, now, body, type, country, transactions, indicators) ==
    [report_id |-> id, created_at |-> now, status |-> "DRAFT", alert_id |-> body.alert_id,
     report_type |-> type, country |-> country, transactions |-> transactions,
     categories |-> CategoriesOf(body), indicators |-> indicators,
     report_hash |-> None, signed_by |-> None, signature_ts |-> None]

FinmaContent(id, now, body) ==
    Unsigned(id, now, body, "FINMA_STR", "CH", Summaries(body.transactions, "CHF"),
             FinmaIndicators(CategoriesOf(body), body.anomaly_score))

\* Mutant: the report keeps the type that was asked for.
FinmaStrOfAskedType(id, now, body, user) ==
    Seal([FinmaContent(id, now, body) EXCEPT !.report_type = body.report_type], user, now)

FinmaStr(id, now, body, user) == Seal(FinmaContent(id, now, body), user, now)

BaFinContent(id, now, body) ==
    Unsigned(id, now, body, "BAFIN_SAR", "DE", Summaries(body.transactions, "EUR"),
             BaFinIndicators(CategoriesOf(body)))

BaFinSar(id, now, body, user) == Seal(BaFinContent(id, now, body), user, now)
===============================================================================
