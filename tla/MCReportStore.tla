----------------------------- MODULE MCReportStore -----------------------------
(* Two workers, an officer and an analyst; bodies for each kind of report, a
   category without a text, amounts that are huge, not finite or none
   at all. *)
EXTENDS ReportStore, TLC

CONSTANTS w1, w2, officer, analyst

Roles == officer :> {"compliance_officer"} @@ analyst :> {"aml_analyst"}

Body(type, txns, categories, score) ==
    [alert_id |-> "alert", report_type |-> type, transactions |-> txns,
     categories |-> categories, anomaly_score |-> score]
Txn(amount, currency) == [amount |-> amount, currency |-> currency]

SomeBodies == {
    Body("FINMA_STR", <<Txn(Huge, None)>>, <<"LAYERING", "SMURFING">>, 71),
    Body("BAFIN_SAR", <<Txn(Huge, "CHF"), Txn(None, None), Txn(Huge, "EUR")>>, <<"TERRORIST_FINANCE", "OTHER">>, None),
    Body("FATF_STR", <<Txn(NaN, None)>>, <<>>, 70),
    Body("BAFIN_SAR", <<Txn(1, None), Txn(Text, None)>>, None, None),
    Body("FINMA_STR", <<Txn(Null, None), Txn(Text, None)>>, None, None) }

\* The workers are alike.
WorkerSymmetry == Permutations({w1, w2})
=============================================================================
