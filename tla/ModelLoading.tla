------------------------------ MODULE ModelLoading ------------------------------
(***************************************************************************)
(* The workers of the backend, each loading its models when it starts      *)
(* (main.py lifespan, MLService.load_models, AnomalyDetector.load_model,   *)
(* RiskScorer.load_model), beside the training of ModelTraining.           *)
(* load_model makes three calls to MLflow: the model of the Production     *)
(* stage, the run id of the Production stage, the scaler of that run.  The *)
(* calls block the worker, but nothing keeps a promotion from coming in    *)
(* between.  A worker keeps what it has loaded until it restarts.          *)
(***************************************************************************)
EXTENDS ModelTraining

CONSTANTS
    Workers,     \* uvicorn workers
    MlflowFails, \* TRUE: a call to MLflow may raise
    Restarts     \* TRUE: workers may be restarted

ASSUME LoadingAssumption == MlflowFails \in BOOLEAN /\ Restarts \in BOOLEAN

VARIABLES
    load,      \* load[w]: where load_models stands in worker w
    model,     \* model[w]: the version _model comes from; 0: the baseline
    run,       \* run[w]: the version run_id stands for, and so _model_version
    scaler,    \* scaler[w]: the version _scaler comes from; 0: the baseline
    risk,      \* risk[w]: _model_version of the risk scorer
    \* what the properties remember of a load
    seen,      \* seen[w]: the version in Production when it began; 0: none
    moved,     \* moved[w]: a promotion happened before it ended
    failed     \* failed[w]: a call to MLflow failed

memory == <<model, run, scaler, risk>>
history == <<seen, moved, failed>>
lvars == <<load, memory, history>>
vars == <<tvars, lvars>>

LoadStates == {"down", "model", "run", "scaler", "risk", "ready"}
RiskStates == {"not_loaded", "mlflow_prod", "heuristic_v1"}
Production == IF InStage("Production") = {} THEN 0 ELSE Max(InStage("Production"))

LoadTypeOK ==
    /\ TypeOK
    /\ load \in [Workers -> LoadStates]
    /\ \A f \in {model, run, scaler, seen} : f \in [Workers -> {0} \cup Versions]
    /\ risk \in [Workers -> RiskStates]
    /\ moved \in [Workers -> BOOLEAN] /\ failed \in [Workers -> BOOLEAN]

Init ==
    /\ TInit
    /\ load = [w \in Workers |-> "down"]
    /\ model = [w \in Workers |-> 0]
    /\ run = [w \in Workers |-> 0]
    /\ scaler = [w \in Workers |-> 0]
    /\ risk = [w \in Workers |-> "not_loaded"]
    /\ seen = [w \in Workers |-> 0]
    /\ moved = [w \in Workers |-> FALSE]
    /\ failed = [w \in Workers |-> FALSE]

-----------------------------------------------------------------------------
(* AnomalyDetector.load_model *)

\* lifespan of a fresh process: nothing is loaded.
Boot(w) ==
    /\ load[w] = "down"
    /\ load' = [load EXCEPT ![w] = "model"]
    /\ model' = [model EXCEPT ![w] = 0]
    /\ run' = [run EXCEPT ![w] = 0]
    /\ scaler' = [scaler EXCEPT ![w] = 0]
    /\ risk' = [risk EXCEPT ![w] = "not_loaded"]
    /\ seen' = [seen EXCEPT ![w] = Production]
    /\ moved' = [moved EXCEPT ![w] = FALSE]
    /\ failed' = [failed EXCEPT ![w] = FALSE]
    /\ UNCHANGED tvars

\* load_model("models:/<name>/Production")
LoadModel(w) ==
    /\ load[w] = "model" /\ Production # 0
    /\ model' = [model EXCEPT ![w] = Production]
    /\ load' = [load EXCEPT ![w] = "run"]
    /\ UNCHANGED <<tvars, run, scaler, risk, history>>

\* What get_latest_versions(stages = ["Production"])[0] finds.
LatestVersion == Production

ReadRun(w) ==
    /\ load[w] = "run" /\ LatestVersion # 0
    /\ run' = [run EXCEPT ![w] = LatestVersion]
    /\ load' = [load EXCEPT ![w] = "scaler"]
    /\ UNCHANGED <<tvars, model, scaler, risk, history>>

\* load_model("runs:/<run_id>/scaler")
LoadScaler(w) ==
    /\ load[w] = "scaler" /\ registry[run[w]].scaler
    /\ scaler' = [scaler EXCEPT ![w] = run[w]]
    /\ load' = [load EXCEPT ![w] = "risk"]
    /\ UNCHANGED <<tvars, model, run, risk, history>>

\* What the next call asks for does not exist.
Missing(w) ==
    \/ load[w] = "model" /\ Production = 0
    \/ load[w] = "run" /\ LatestVersion = 0
    \/ load[w] = "scaler" /\ ~registry[run[w]].scaler

\* Mutant: only what is not there yet is initialised.
ScalerOnly(w) ==
    /\ model' = model
    /\ scaler' = [scaler EXCEPT ![w] = 0]
    /\ run' = [run EXCEPT ![w] = 0]

\* _initialize_baseline_model: model, scaler and version are all replaced.
Baseline(w) ==
    /\ model' = [model EXCEPT ![w] = 0]
    /\ scaler' = [scaler EXCEPT ![w] = 0]
    /\ run' = [run EXCEPT ![w] = 0]

\* Mutant: the call is repeated until it succeeds.
RetryForEver(w) ==
    /\ load[w] \in {"model", "run", "scaler"}
    /\ Missing(w) \/ MlflowFails
    /\ Baseline(w)
    /\ load' = [load EXCEPT ![w] = "model"]
    /\ failed' = [failed EXCEPT ![w] = ~Missing(w)]
    /\ UNCHANGED <<tvars, risk, seen, moved>>

LoadRaises(w) ==
    /\ load[w] \in {"model", "run", "scaler"}
    /\ Missing(w) \/ MlflowFails
    /\ Baseline(w)
    /\ load' = [load EXCEPT ![w] = "risk"]
    /\ failed' = [failed EXCEPT ![w] = ~Missing(w)]
    /\ UNCHANGED <<tvars, risk, seen, moved>>

\* RiskScorer.load_model: the model of its own registry, or the heuristic.
LoadRisk(w) ==
    /\ load[w] = "risk"
    /\ \E r \in {"mlflow_prod", "heuristic_v1"} : risk' = [risk EXCEPT ![w] = r]
    /\ load' = [load EXCEPT ![w] = "ready"]
    /\ UNCHANGED <<tvars, model, run, scaler, history>>

\* The process ends, whatever it was doing.
Restart(w) ==
    /\ Restarts
    /\ load[w] # "down"
    /\ load' = [load EXCEPT ![w] = "down"]
    /\ UNCHANGED <<tvars, memory, history>>

-----------------------------------------------------------------------------
LoadStep(w) ==
    \/ Boot(w) \/ LoadModel(w) \/ ReadRun(w) \/ LoadScaler(w) \/ LoadRaises(w) \/ LoadRisk(w)

\* A step of the notebook; loads under way remember that Production has changed.
TrainStep(t) ==
    /\ Train(t)
    /\ moved' = [w \in Workers |->
            moved[w] \/ (load[w] \in {"model", "run", "scaler"} /\ InStage("Production")' # InStage("Production"))]
    /\ UNCHANGED <<load, memory, seen, failed>>

Next ==
    \/ \E t \in Trainings : TrainStep(t)
    \/ \E w \in Workers : LoadStep(w) \/ Restart(w)

Spec == Init /\ [][Next]_vars

\* A worker that is not restarted gets through load_models.
FairSpec == Spec /\ \A w \in Workers : WF_vars(LoadStep(w))

-----------------------------------------------------------------------------
(* Properties *)

Ready(w) == load[w] = "ready"

\* load_model fails after its first or second call as well: a worker never serves a model
\* of the registry with the scaler of the baseline, or the other way round.
NeverHalfBaseline == \A w \in Workers : Ready(w) => (model[w] = 0 <=> scaler[w] = 0)

\* Unless a promotion comes in between, the model, the scaler and the version that every
\* score and alert carries belong to one run.
OneRunUnlessPromoted ==
    \A w \in Workers : Ready(w) /\ ~moved[w] => model[w] = scaler[w] /\ run[w] = model[w]

\* Training and loading together: with a version in Production when the worker began and no
\* call that failed, the worker does not fall back to the baseline, whatever the
\* notebook does meanwhile.
ProductionIsServed ==
    \A w \in Workers : Ready(w) /\ seen[w] # 0 /\ ~failed[w] => model[w] # 0

\* What a ready worker has in memory, whatever failed or was promoted while it loaded.
LoadInvariant == LoadTypeOK /\ NeverHalfBaseline /\ OneRunUnlessPromoted /\ ProductionIsServed

\* A worker that starts serves in the end, MLflow reachable or not, unless its process ends.
EveryWorkerServes == \A w \in Workers : load[w] = "model" ~> Ready(w) \/ load[w] = "down"
===============================================================================
