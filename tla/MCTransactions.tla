---------------------------- MODULE MCTransactions ----------------------------
(* What happens to a transaction inside the API, a part at a time, as the parts   *)
(* share no state: the handlers of a post and a batch of two on two workers; the  *)
(* scorers and the explanation, with amounts around the thresholds and far above  *)
(* them, each monotone factor low, high or beyond its scale, for accounts of five *)
(* kinds; the calendar that the holiday feature and the settlement dates rest on; *)
(* the validation of a typed IBAN.                                                *)
EXTENDS Ingest, Explanation, Holidays, Iban

CONSTANTS p1, b1, w1, w2

VARIABLE part   \* the part that moves

Parts == {"handlers", "scoring", "calendar", "typing"}

Account(avg, std, cross, countries, conc, fresh, ratio, count) ==
    [avg |-> avg, std |-> std, crossBorder |-> cross, countries |-> countries,
     concentration |-> conc, newBeneficiaries |-> fresh, sameRatio |-> ratio,
     sameCount |-> count]

\* Unremarkable, one per typology rule, and one that has always moved the same amount.
MCAccounts ==
    {Account(9000, 3000, 0, 2, 30, 0, 0, 0), Account(1000, 0, 10, 2, 30, 0, 0, 0),
     Account(9000, 3000, 70, 6, 30, 0, 0, 0), Account(9000, 3000, 0, 2, 90, 4, 0, 0),
     Account(9000, 3000, 0, 2, 30, 0, 80, 4)}

MCInputs ==
    {[amount |-> amount, anomaly |-> anomaly, highRisk |-> highRisk, count24h |-> count,
      avg |-> a.avg, std |-> a.std, crossBorder |-> a.crossBorder, countries |-> a.countries,
      concentration |-> a.concentration, newBeneficiaries |-> a.newBeneficiaries,
      sameRatio |-> a.sameRatio, sameCount |-> a.sameCount] :
        amount \in {2500, 9850, 75000}, anomaly \in {0, 40, 100}, highRisk \in {0, 1},
        count \in {1, 5, 25}, a \in MCAccounts}

SomePlaces ==
    { [country |-> "CH", canton |-> "ZH"], [country |-> "CH", canton |-> "LU"],
      [country |-> "DE", canton |-> "ZH"],
      [country |-> "AT", canton |-> "ZH"] }

SomeYears == 1900 .. 2299

SomeAccounts ==
    { <<"CH", <<0, 0, 7, 6, 2, 0, 1, 1, 6, 2, 3, 8, 5, 2, 9, 5, 7>> >>,
      <<"LI", <<0, 8, 8, 1, 0, 0, 0, 0, 2, 3, 2, 4, 0, 1, 3, 10, 10>> >>,
      <<"GB", <<32, 14, 28, 29, 1, 2, 3, 4, 5, 6, 9, 8, 7, 6, 5, 4, 3, 2>> >>,
      <<"DE", <<3, 7, 0, 4, 0, 0, 4, 4, 0, 5, 3, 2, 0, 1, 3, 0, 0, 0>> >> }

-----------------------------------------------------------------------------
\* The parts that do not move are in one of their initial states.
TransactionsInit ==
    /\ part \in Parts
    /\ part # "handlers" => worker = [r \in Requests |-> w1]
    /\ Init
    /\ part # "scoring" => /\ scorer = "heuristic_v1" /\ proba = 10
                           /\ input = CHOOSE x \in Inputs : x.amount = 2500
    /\ ScoringInit
    /\ part # "calendar" => today = Date(2024, 1, 1)
    /\ CalendarInit
    /\ part # "typing" => iban = Issue("DE", <<3, 7, 0, 4, 0, 0, 4, 4, 0, 5, 3, 2, 0, 1, 3, 0, 0, 0>>)
    /\ IbanInit

TransactionsNext ==
    /\ \/ part = "handlers" /\ Next /\ UNCHANGED <<scoringVars, calendar, typing>>
       \/ part = "scoring" /\ ScoringNext /\ UNCHANGED <<vars, calendar, typing>>
       \/ part = "calendar" /\ Midnight /\ UNCHANGED <<vars, scoringVars, typing>>
       \/ part = "typing" /\ Slip /\ UNCHANGED <<vars, scoringVars, calendar>>
    /\ UNCHANGED part

allVars == <<vars, scoringVars, calendar, typing, part>>

\* No part that stands still has a step that it is owed.
TransactionsSpec == TransactionsInit /\ [][TransactionsNext]_allVars /\ Fairness
=============================================================================
