--------------------------------- MODULE Drift ---------------------------------
(***************************************************************************)
(* databricks/notebooks/07_model_evaluation.py beside the executions of the *)
(* training notebook: it measures drift and false positives, decides       *)
(* whether to retrain, runs notebooks 03 and 05 and waits for them, and    *)
(* only then writes its rows to the drift table.                           *)
(***************************************************************************)
EXTENDS ModelTraining

CONSTANTS
    Triggered,     \* the execution of notebook 03 that this evaluation may run
    Readings,      \* what the tables may say: drift_metrics, as PSI in hundredths by
                   \* score column, with total_alerts and false_positives
    PsiThreshold,  \* PSI_THRESHOLD, in hundredths
    NoRows         \* nothing was written to the drift table

ScoreColumns == {"anomaly_score", "risk_score", "confidence"}

ASSUME DriftAssumption ==
    /\ Triggered \in Trainings
    /\ \A r \in Readings :
           /\ \A c \in DOMAIN r.psi : c \in ScoreColumns /\ r.psi[c] \in Nat
           /\ r.alerts \in Nat /\ r.false \in 0 .. r.alerts
    /\ PsiThreshold \in Nat

VARIABLES
    evaluation,  \* where the notebook stands
    metrics,     \* drift_metrics
    retrain,     \* should_retrain
    rows         \* what was written to the drift table, by score column

dvars == <<evaluation, metrics, retrain, rows>>
driftVars == <<tvars, dvars>>

DriftSteps == {"idle", "decided", "retraining", "scoring", "writing", "done", "failed"}
DriftLevels == {"STABLE", "CRITICAL"}

DriftTypeOK ==
    /\ TypeOK
    /\ evaluation \in DriftSteps
    /\ metrics \in {r.psi : r \in Readings} \cup {<<>>}
    /\ retrain \in BOOLEAN
    /\ rows = NoRows \/ \A c \in DOMAIN rows : rows[c].level \in DriftLevels

DriftInit ==
    /\ TInit
    /\ evaluation = "idle"
    /\ metrics = <<>>
    /\ retrain = FALSE
    /\ rows = NoRows

-----------------------------------------------------------------------------
(* Measuring and deciding *)

MaxPsi(m) == Max({0} \cup {m[c] : c \in DOMAIN m})

\* A column beyond the threshold, or more than 15 % false positives in 30 days.
ShouldRetrain(r) ==
    \/ MaxPsi(r.psi) > PsiThreshold
    \/ 100 * r.false > 15 * r.alerts

\* Over no alerts at all, SUM is NULL and the division raises a TypeError, whatever
\* the drift is.
Evaluate(r) ==
    /\ evaluation = "idle"
    /\ IF r.alerts = 0
       THEN evaluation' = "failed" /\ UNCHANGED <<metrics, retrain>>
       ELSE /\ metrics' = r.psi
            /\ retrain' = ShouldRetrain(r)
            /\ evaluation' = IF retrain' THEN "decided" ELSE "writing"
    /\ UNCHANGED <<tvars, rows>>

-----------------------------------------------------------------------------
(* Retraining *)

\* dbutils.notebook.run("03_anomaly_detection")
RunTraining ==
    /\ evaluation = "decided"
    /\ Start(Triggered)
    /\ evaluation' = "retraining"
    /\ UNCHANGED <<metrics, retrain, rows>>

\* Mutant: a failed notebook is taken for a finished one.
TrainingEndedAnyhow ==
    /\ evaluation = "retraining"
    /\ step[Triggered] \in {"done", "dead"}
    /\ evaluation' = "scoring"
    /\ UNCHANGED <<tvars, metrics, retrain, rows>>

\* Mutant: only a finished notebook is noticed.
TrainingFinished ==
    /\ evaluation = "retraining"
    /\ step[Triggered] = "done"
    /\ evaluation' = "scoring"
    /\ UNCHANGED <<tvars, metrics, retrain, rows>>

\* It returns when the notebook ends, with a blocked comparison too, and raises when it
\* fails or has not ended after an hour.
TrainingEnded ==
    /\ evaluation = "retraining"
    /\ step[Triggered] \in {"done", "dead"}
    /\ evaluation' = IF step[Triggered] = "done" THEN "scoring" ELSE "failed"
    /\ UNCHANGED <<tvars, metrics, retrain, rows>>

\* dbutils.notebook.run("05_risk_scoring"): the notebook is not in the repository.
RunScoring ==
    /\ evaluation = "scoring"
    /\ evaluation' \in {"writing", "failed"}
    /\ UNCHANGED <<tvars, metrics, retrain, rows>>

Level(psi) == IF psi >= PsiThreshold THEN "CRITICAL" ELSE "STABLE"

\* Nothing is written when no column had enough scores.
WriteRows ==
    /\ evaluation = "writing"
    /\ rows' = IF metrics = <<>> THEN NoRows
               ELSE [c \in DOMAIN metrics |->
                        [level |-> Level(metrics[c]), retrain_triggered |-> retrain]]
    /\ evaluation' = "done"
    /\ UNCHANGED <<tvars, metrics, retrain>>

Drifting == RunTraining \/ TrainingEnded \/ RunScoring \/ WriteRows

\* The triggered execution is started by the evaluation alone.
Training(t) == (t = Triggered => step[t] # "idle") /\ Train(t) /\ UNCHANGED dvars

DriftNext ==
    \/ \E r \in Readings : Evaluate(r)
    \/ Drifting
    \/ \E t \in Trainings : Training(t)

DriftSpec == DriftInit /\ [][DriftNext]_driftVars

\* The notebook goes on, and the one it waits for does so or is cut short after an hour.
DriftFairSpec ==
    /\ DriftSpec
    /\ WF_driftVars(Drifting)
    /\ WF_driftVars(Training(Triggered))

-----------------------------------------------------------------------------
(* Properties *)

\* The drift table never announces a retraining that did not happen: a row that says
\* retrain_triggered stands for an execution that went through and promoted.
AnnouncedIsRetrained ==
    rows # NoRows => \A c \in DOMAIN rows : rows[c].retrain_triggered =>
        /\ step[Triggered] = "done"
        /\ \E v \in Of(Triggered) : registry[v].stage \in {"Production", "Archived"}

\* No column is reported as critical by an evaluation that did not retrain, except at
\* exactly the threshold: the decision compares with >, the level with >=.
CriticalIsRetrained ==
    rows # NoRows => \A c \in DOMAIN rows :
        rows[c].level = "CRITICAL" /\ metrics[c] # PsiThreshold => rows[c].retrain_triggered

\* The rows of the drift table tell the truth about the executions that ran beside them.
DriftInvariant == DriftTypeOK /\ AnnouncedIsRetrained /\ CriticalIsRetrained

\* An evaluation that has begun to retrain ends, with its rows or without.
EvaluationEnds == evaluation = "decided" ~> evaluation \in {"done", "failed"}
===============================================================================
