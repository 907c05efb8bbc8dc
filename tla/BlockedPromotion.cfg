\* The shipped tolerance: a run with f1 = 0.64 is blocked against one with 0.70. Neither MLflow
\* nor the notebook fails, and the executions follow each other.
SPECIFICATION Spec
CHECK_DEADLOCK FALSE
CONSTANTS
    t1 = t1
    t2 = t2
    w1 = w1
    Trainings = {t1, t2}
    GridSize = 1
    F1Values = {64, 70}
    Tolerance = 5
    Overlap = FALSE
    Dies = FALSE
    Workers = {w1}
    MlflowFails = FALSE
    Restarts = FALSE
INVARIANTS
    BlockedIsNotPromoted
