\* MLflow fails, notebooks die, the worker restarts and the broker fails at any point; three
\* files in batches of one or two; three messages between two accounts. The notebooks run
\* once, and the simulator ends when it is interrupted.
SPECIFICATION PipelinesSpec
CHECK_DEADLOCK FALSE
CONSTANTS
    t1 = t1
    t2 = t2
    w1 = w1
    Trainings = {t1, t2}
    GridSize = 2
    F1Values = {64, 70}
    Tolerance = 5
    Overlap = TRUE
    Dies = TRUE
    Workers = {w1}
    MlflowFails = TRUE
    Restarts = TRUE
    Triggered = t2
    Readings <- SomeReadings
    PsiThreshold = 25
    NoRows = NoRows
    None = None
    x1 = x1
    x2 = x2
    Ids = {x1, x2}
    Contents <- SomeContents
    MaxFiles = 3
    FilesPerBatch = 2
    Recognised = {TRUE, FALSE}
    a1 = a1
    a2 = a2
    Accounts = {a1, a2}
    Counts <- SomeCounts
    Normal = Normal
    NoSequence = NoSequence
    MaxMessages = 3
    KnowsRetries = TRUE
INVARIANTS
    OneProduction
    ProductionIsComplete
    BestIsPromoted
    LoadInvariant
    DriftInvariant
    BronzeInvariant
    LogsInvariant
PROPERTIES
    EveryWorkerServes
    EvaluationEnds
    CheckpointFollowsTable
    LandedIsIngested
    DeliveryPromiseKept
    SequencesAreWhole
    TakenSettles
