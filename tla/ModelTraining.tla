----------------------------- MODULE ModelTraining -----------------------------
(***************************************************************************)
(* The registry of the Isolation Forest and the notebook that fills it     *)
(* (databricks/notebooks/03_anomaly_detection.py).  An execution of the    *)
(* notebook registers one version per entry of its grid, logs the scaler   *)
(* that goes with it, promotes the best version to Production, and only    *)
(* then compares it with the one it has replaced.  The registry is MLflow, *)
(* used through create (log_model), transition_model_version_stage and     *)
(* get_latest_versions.                                                    *)
(***************************************************************************)
EXTENDS Naturals, Sequences, FiniteSetsExt

CONSTANTS
    Trainings,  \* executions of the notebook
    GridSize,   \* entries of HYPERPARAMETERS
    F1Values,   \* values of f1_score, in hundredths
    Tolerance,  \* how much worse a model may be than the one it replaces, in hundredths
    Overlap,    \* TRUE: executions may overlap
    Dies        \* TRUE: an execution may be cut short

ASSUME TrainingAssumption ==
    /\ GridSize \in Nat \ {0}
    /\ F1Values \subseteq 0 .. 100
    /\ Tolerance \in Nat
    /\ Overlap \in BOOLEAN /\ Dies \in BOOLEAN

VARIABLES
    registry,   \* registry[v]: version v of the model
    step,       \* step[t]: where execution t stands
    best,       \* best[t]: best_run_id, as the version it registered; 0: None
    verdict     \* verdict[t]: the outcome of the comparison after the promotion

notebook == <<step, best, verdict>>
tvars == <<registry, notebook>>

Stages == {"None", "Production", "Archived"}
Steps == {"idle", "fit", "logged", "promote", "compare", "done", "dead"}
Verdicts == {"none", "kept", "blocked"}
Version == [by: Trainings, f1: F1Values, scaler: BOOLEAN, stage: Stages]

Versions == 1 .. Len(registry)
Of(t) == {v \in Versions : registry[v].by = t}
InStage(s) == {v \in Versions : registry[v].stage = s}

TypeOK ==
    /\ registry \in Seq(Version)
    /\ step \in [Trainings -> Steps]
    /\ best \in [Trainings -> {0} \cup Versions]
    /\ verdict \in [Trainings -> Verdicts]

TInit ==
    /\ registry = << >>
    /\ step = [t \in Trainings |-> "idle"]
    /\ best = [t \in Trainings |-> 0]
    /\ verdict = [t \in Trainings |-> "none"]

-----------------------------------------------------------------------------
Start(t) ==
    /\ step[t] = "idle"
    /\ Overlap \/ \A u \in Trainings : step[u] \in {"idle", "done", "dead"}
    /\ step' = [step EXCEPT ![t] = "fit"]
    /\ UNCHANGED <<registry, best, verdict>>

\* log_model(model, registered_model_name = MODEL_NAME): the next version number.
LogModel(t) ==
    /\ step[t] = "fit"
    /\ \E f \in F1Values :
        registry' = Append(registry, [by |-> t, f1 |-> f, scaler |-> FALSE, stage |-> "None"])
    /\ step' = [step EXCEPT ![t] = "logged"]
    /\ UNCHANGED <<best, verdict>>

\* Mutant: best_f1 is never assigned, so every f1 beats it.
LastWins(t, v) == v

\* The run kept after version v: f1 > best_f1, which starts at -1.
Better(t, v) ==
    IF best[t] = 0 \/ registry[v].f1 > registry[best[t]].f1 THEN v ELSE best[t]

\* log_model(scaler), and the end of the loop body.
LogScaler(t) ==
    /\ step[t] = "logged"
    /\ LET v == Max(Of(t))
       IN  /\ registry' = [registry EXCEPT ![v].scaler = TRUE]
           /\ best' = [best EXCEPT ![t] = Better(t, v)]
    /\ step' = [step EXCEPT ![t] = IF Cardinality(Of(t)) = GridSize THEN "promote" ELSE "fit"]
    /\ UNCHANGED verdict

\* Mutant: the newest version of the model, whoever registered it.
NewestVersion(t) == Max(Versions)

\* search_model_versions(run_id = best_run_id)[0]
Candidate(t) == best[t]

\* Mutant: archive_existing_versions is left out.
Transitioned(v) == [registry EXCEPT ![v].stage = "Production"]

\* transition_model_version_stage(v, "Production", archive_existing_versions = True)
Transition(v) ==
    [w \in Versions |->
        IF w = v THEN [registry[w] EXCEPT !.stage = "Production"]
        ELSE IF registry[w].stage = "Production" THEN [registry[w] EXCEPT !.stage = "Archived"]
        ELSE registry[w]]

Promote(t) ==
    /\ step[t] = "promote"
    /\ registry' = Transition(Candidate(t))
    /\ step' = [step EXCEPT ![t] = "compare"]
    /\ UNCHANGED <<best, verdict>>

\* Compared with get_latest_versions(stages = ["Archived"])[0], if there is one.
Compare(t) ==
    /\ step[t] = "compare"
    /\ step' = [step EXCEPT ![t] = "done"]
    /\ IF InStage("Archived") = {}
       THEN UNCHANGED verdict
       ELSE \E prevF1 \in F1Values :      \* of that version, on today's test set
                verdict' = [verdict EXCEPT ![t] =
                    IF registry[best[t]].f1 + Tolerance < prevF1 THEN "blocked" ELSE "kept"]
    /\ UNCHANGED <<registry, best>>

\* Any exception of the comparison, its own ValueError included, is printed.
CompareRaises(t) ==
    /\ step[t] = "compare"
    /\ step' = [step EXCEPT ![t] = "done"]
    /\ UNCHANGED <<registry, best, verdict>>

\* The cluster goes away, MLflow refuses a call, or a timeout ends the notebook.
Die(t) ==
    /\ Dies
    /\ step[t] \in {"fit", "logged", "promote", "compare"}
    /\ step' = [step EXCEPT ![t] = "dead"]
    /\ UNCHANGED <<registry, best, verdict>>

Train(t) ==
    \/ Start(t) \/ LogModel(t) \/ LogScaler(t)
    \/ Promote(t) \/ Compare(t) \/ CompareRaises(t) \/ Die(t)

TNext == \E t \in Trainings : Train(t)

TrainingSpec == TInit /\ [][TNext]_tvars

-----------------------------------------------------------------------------
(* Properties *)

\* archive_existing_versions: readers that ask for the Production version have one answer,
\* however many executions of the notebook run, overlap or die.
OneProduction == \A v, w \in InStage("Production") : v = w

\* A version in Production has the scaler artifact that load_model will ask for next, and
\* comes from an execution that went through its whole grid.
ProductionIsComplete ==
    \A v \in InStage("Production") :
        registry[v].scaler /\ Cardinality(Of(registry[v].by)) = GridSize

\* An execution that ends without being blocked has promoted the best of all it trained,
\* which is in Production unless a later promotion has archived it.
BestIsPromoted ==
    \A t \in Trainings : step[t] = "done" /\ verdict[t] # "blocked" =>
        /\ registry[best[t]].stage \in {"Production", "Archived"}
        /\ \A v \in Of(t) : registry[v].f1 <= registry[best[t]].f1

\* "Blocking promotion": a model that the comparison finds worse than the one before it by
\* more than the tolerance does not get to Production.  The code compares after it has
\* promoted, and catches the ValueError that should block.
BlockedIsNotPromoted ==
    \A t \in Trainings :
        verdict[t] = "blocked" => registry[best[t]].stage # "Production"

=============================================================================
