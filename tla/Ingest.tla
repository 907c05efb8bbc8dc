-------------------------------- MODULE Ingest --------------------------------
(***************************************************************************)
(* POST /transactions and /transactions/bulk (backend/api/v1/              *)
(* transactions.py) with what they set in motion in MLService,             *)
(* AlertService and AuditService.  A handler scores, answers, and FastAPI  *)
(* then runs its background tasks one after the other: a task that raises  *)
(* takes those behind it with it, and all of them live in the worker's     *)
(* memory.  Rows of scores are written by a task of their own that nobody  *)
(* waits for.  A retry of a client is another post.                        *)
(***************************************************************************)
EXTENDS Naturals, Sequences

CONSTANTS
    Posts,      \* single-transaction requests
    Batches,    \* bulk requests
    BatchSize,  \* transactions in each of them
    Workers,    \* uvicorn workers
    AlertFails, \* TRUE: saving an alert or sending its notification may raise
    StoreFails, \* TRUE: persisting a score or an audit entry may raise
    WorkersDie  \* TRUE: a worker may be killed

ASSUME IngestAssumption ==
    /\ BatchSize \in Nat \ {0}
    /\ AlertFails \in BOOLEAN /\ StoreFails \in BOOLEAN /\ WorkersDie \in BOOLEAN

VARIABLES
    post,       \* post[p]: where ingest_transaction stands, or its status code
    level,      \* level[p]: what score_transaction said
    queue,      \* queue[p]: background tasks still to run after the response
    batch,      \* batch[b]: "idle", or "202" once it was accepted
    next,       \* next[b]: the transaction score_batch_async scores next
    worker,     \* worker[r]: the worker that handles request r
    persisting, \* scored transactions whose _persist_scoring_result is in flight
    scores,     \* scored transactions whose row exists
    alerts,     \* posts whose alert row exists
    notified,   \* posts whose alert was announced
    audit,      \* posts with an audit entry
    raised,     \* posts whose alert could not be saved
    killed      \* requests that lost work when their worker died

handling == <<post, level, queue, worker>>
bulk == <<batch, next>>
rows == <<scores, alerts, notified, audit>>
fate == <<raised, killed>>
vars == <<handling, bulk, persisting, rows, fate>>

Requests == Posts \cup Batches
Units == Posts \cup (Batches \X (1 .. BatchSize))
PostStates == {"idle", "scoring", "202", "500"}
LevelValues == {"clear", "flagged", "critical"}   \* below ANOMALY_THRESHOLD; above; CRITICAL
TaskNames == {"alert", "notify", "audit"}

TypeOK ==
    /\ post \in [Posts -> PostStates]
    /\ level \in [Posts -> LevelValues]
    /\ queue \in [Posts -> Seq(TaskNames)] /\ \A p \in Posts : Len(queue[p]) <= 2
    /\ batch \in [Batches -> {"idle", "202"}]
    /\ next \in [Batches -> 1 .. BatchSize + 1]
    /\ worker \in [Requests -> Workers]
    /\ persisting \subseteq Units /\ scores \subseteq Units
    /\ alerts \subseteq Posts /\ notified \subseteq Posts /\ audit \subseteq Posts
    /\ raised \subseteq Posts /\ killed \subseteq Requests

Init ==
    /\ post = [p \in Posts |-> "idle"]
    /\ level = [p \in Posts |-> "clear"]
    /\ queue = [p \in Posts |-> << >>]
    /\ batch = [b \in Batches |-> "idle"]
    /\ next = [b \in Batches |-> 1]
    /\ worker \in [Requests -> Workers]
    /\ persisting = {} /\ scores = {} /\ alerts = {} /\ notified = {} /\ audit = {}
    /\ raised = {} /\ killed = {}

-----------------------------------------------------------------------------
(* ingest_transaction *)

Receive(p) ==
    /\ post[p] = "idle"
    /\ post' = [post EXCEPT ![p] = "scoring"]
    /\ UNCHANGED <<level, queue, worker, bulk, persisting, rows, fate>>

\* Mutant: the audit entry is queued before the alert.
AuditFirst(l) == IF l = "clear" THEN <<"audit">> ELSE <<"audit", "alert">>

\* Mutant: only a CRITICAL transaction gets an alert.
CriticalOnly(l) == IF l = "critical" THEN <<"alert", "audit">> ELSE <<"audit">>

\* add_task, twice: the alert if the transaction is flagged, then the audit entry.
Tasks(l) == IF l = "clear" THEN <<"audit">> ELSE <<"alert", "audit">>

\* score_transaction has come back from Redis; create_task starts the insert.
Scored(p, l) ==
    /\ post[p] = "scoring"
    /\ level' = [level EXCEPT ![p] = l]
    /\ persisting' = persisting \cup {p}
    /\ UNCHANGED <<worker, bulk, rows, fate>>

Answer(p) ==
    \E l \in LevelValues :
        /\ Scored(p, l)
        /\ queue' = [queue EXCEPT ![p] = Tasks(l)]
        /\ post' = [post EXCEPT ![p] = "202"]

\* Mutant: the tasks run although the handler raised.
TasksKept(p) ==
    \E l \in LevelValues :
        /\ Scored(p, l)
        /\ queue' = [queue EXCEPT ![p] = Tasks(l)]
        /\ post' = [post EXCEPT ![p] = "500"]

\* Building the response raises: 500, and the queued tasks are dropped.
ResponseRaises(p) ==
    \E l \in LevelValues :
        /\ Scored(p, l)
        /\ post' = [post EXCEPT ![p] = "500"]
        /\ UNCHANGED queue

\* Scoring raises, on a history from the cache that it cannot read.
ScoreRaises(p) ==
    /\ post[p] = "scoring"
    /\ post' = [post EXCEPT ![p] = "500"]
    /\ UNCHANGED <<level, queue, worker, bulk, persisting, rows, fate>>

\* _persist_scoring_result
PersistScore(u) ==
    /\ u \in persisting
    /\ persisting' = persisting \ {u}
    /\ \/ scores' = scores \cup {u}
       \/ StoreFails /\ UNCHANGED scores
    /\ UNCHANGED <<handling, bulk, alerts, notified, audit, fate>>

-----------------------------------------------------------------------------
(* Background tasks of ingest_transaction *)

\* Task t of p runs up to its next await; rest is what p then has to run.
StartTask(p, t, rest) ==
    /\ queue[p] # << >> /\ Head(queue[p]) = t
    /\ queue' = [queue EXCEPT ![p] = rest]
    /\ UNCHANGED <<post, level, worker, bulk, persisting, scores, fate>>

\* create_alert_from_scoring up to _save_alert.
SaveAlert(p) ==
    /\ StartTask(p, "alert", IF level[p] = "critical" THEN [queue[p] EXCEPT ![1] = "notify"]
                                                      ELSE Tail(queue[p]))
    /\ alerts' = alerts \cup {p}
    /\ UNCHANGED <<notified, audit>>

\* _send_critical_alert_notification
Notify(p) ==
    /\ StartTask(p, "notify", Tail(queue[p]))
    /\ notified' = notified \cup {p}
    /\ UNCHANGED <<alerts, audit>>

\* AuditService.log
LogIngested(p) ==
    /\ StartTask(p, "audit", Tail(queue[p]))
    /\ audit' = audit \cup {p}
    /\ UNCHANGED <<alerts, notified>>

\* The exception leaves BackgroundTasks: no later task runs.
TaskRaises(p) ==
    /\ queue[p] # << >>
    /\ IF Head(queue[p]) = "audit" THEN StoreFails ELSE AlertFails
    /\ queue' = [queue EXCEPT ![p] = << >>]
    /\ raised' = IF Head(queue[p]) = "alert" THEN raised \cup {p} ELSE raised
    /\ UNCHANGED <<post, level, worker, bulk, persisting, rows, killed>>

-----------------------------------------------------------------------------
(* bulk_ingest: one background task scores the whole batch *)

ReceiveBatch(b) ==
    /\ batch[b] = "idle"
    /\ batch' = [batch EXCEPT ![b] = "202"]
    /\ UNCHANGED <<handling, next, persisting, rows, fate>>

\* The transaction is scored and its row is on its way; no alert, no audit entry.
ScoreNext(b) ==
    /\ batch[b] = "202" /\ b \notin killed
    /\ next[b] <= BatchSize
    /\ next' = [next EXCEPT ![b] = @ + 1]
    /\ persisting' = persisting \cup {<<b, next[b]>>}
    /\ UNCHANGED <<handling, batch, rows, fate>>

\* Mutant: the exception is not caught and ends the loop.
SkipAborts(b) ==
    /\ batch[b] = "202" /\ b \notin killed
    /\ next[b] <= BatchSize
    /\ batch' = [batch EXCEPT ![b] = "500"]
    /\ UNCHANGED <<handling, next, persisting, rows, fate>>

\* Scoring raises: logged, and the loop goes on.
SkipNext(b) ==
    /\ batch[b] = "202" /\ b \notin killed
    /\ next[b] <= BatchSize
    /\ next' = [next EXCEPT ![b] = @ + 1]
    /\ UNCHANGED <<handling, batch, persisting, rows, fate>>

-----------------------------------------------------------------------------
\* What the worker holds in memory for a request.
Pending(r) ==
    \/ r \in Posts /\ (post[r] = "scoring" \/ queue[r] # << >> \/ r \in persisting)
    \/ r \in Batches /\ batch[r] = "202"
                     /\ (next[r] <= BatchSize \/ \E i \in 1 .. BatchSize : <<r, i>> \in persisting)

WorkerDies(w) ==
    LET lost == {r \in Requests : worker[r] = w /\ Pending(r)}
    IN  /\ WorkersDie
        /\ lost # {}
        /\ killed' = killed \cup lost
        /\ post' = [p \in Posts |-> IF p \in lost /\ post[p] = "scoring" THEN "500" ELSE post[p]]
        /\ queue' = [p \in Posts |-> IF p \in lost THEN << >> ELSE queue[p]]
        /\ persisting' = {u \in persisting :
                            /\ u \in Posts => worker[u] # w
                            /\ u \notin Posts => worker[u[1]] # w}
        /\ UNCHANGED <<level, worker, bulk, rows, raised>>

-----------------------------------------------------------------------------
Handle(p) == Answer(p) \/ ResponseRaises(p) \/ ScoreRaises(p)
RunTask(p) == SaveAlert(p) \/ Notify(p) \/ LogIngested(p) \/ TaskRaises(p)
BatchStep(b) == ScoreNext(b) \/ SkipNext(b)

Next ==
    \/ \E p \in Posts : Receive(p) \/ Handle(p) \/ RunTask(p)
    \/ \E b \in Batches : ReceiveBatch(b) \/ BatchStep(b)
    \/ \E u \in Units : PersistScore(u)
    \/ \E w \in Workers : WorkerDies(w)

Spec == Init /\ [][Next]_vars

\* The event loop of a living worker lets every coroutine run on.
Fairness ==
    /\ \A p \in Posts : WF_vars(Handle(p)) /\ WF_vars(RunTask(p))
    /\ \A b \in Batches : WF_vars(BatchStep(b))
    /\ \A u \in Units : WF_vars(PersistScore(u))

FairSpec == Spec /\ Fairness

-----------------------------------------------------------------------------
(* Properties *)

\* The audit entry of a flagged transaction says is_flagged: whatever fails and whichever
\* worker dies, it is never there without the alert it speaks of, nor, for a CRITICAL one,
\* without the notification.
AuditFollowsAlert ==
    \A p \in audit : /\ level[p] # "clear" => p \in alerts
                     /\ level[p] = "critical" => p \in notified

\* A client that was told 500 and sends the transaction again finds neither an alert nor
\* an audit entry of its first attempt.
FailedLeavesNoAlert == \A p \in Posts : post[p] = "500" => p \notin alerts \cup audit

\* "Creates alert if risk_score >= threshold" (ingest_transaction): a flagged transaction
\* that was answered 202 gets its alert unless saving it raises or the worker dies.
FlaggedGetsAlert ==
    \A p \in Posts :
        post[p] = "202" /\ level[p] # "clear" ~> p \in alerts \cup raised \cup killed

\* score_batch_async gets to the end of every batch whose worker lives, whichever of its
\* transactions cannot be scored.
BatchCompletes ==
    \A b \in Batches : batch[b] = "202" ~> next[b] > BatchSize \/ b \in killed

=============================================================================
