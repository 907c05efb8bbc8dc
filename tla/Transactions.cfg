\* A post and a batch with every failure; both scorers with the shipped thresholds; four
\* centuries of Easter and three years from day to day, with a leap year among them and one
\* that is none; four IBANs with every slip.  All but the scorer stop at their end.
SPECIFICATION TransactionsSpec
CHECK_DEADLOCK FALSE
CONSTANTS
    p1 = p1
    b1 = b1
    w1 = w1
    w2 = w2
    Posts = {p1}
    Batches = {b1}
    BatchSize = 2
    Workers = {w1, w2}
    AlertFails = TRUE
    StoreFails = TRUE
    WorkersDie = TRUE
    Inputs <- MCInputs
    Probas = {10, 60, 80, 96}
    Scorers = {"heuristic_v1", "mlflow_prod"}
    MediumThreshold = 50000
    FlagThreshold = 65000
    HighThreshold = 80000
    Languages = {"de", "en"}
    Years <- SomeYears
    Walked = {2024, 2025, 2100}
    Places <- SomePlaces
    NoDay = NoDay
    Issued <- SomeAccounts
INVARIANTS
    AuditFollowsAlert
    FailedLeavesNoAlert
    AlertIsComplete
    ExplanationInvariant
    CalendarInvariant
    OneSlipIsCaught
PROPERTIES
    FlaggedGetsAlert
    BatchCompletes
    Monotone
