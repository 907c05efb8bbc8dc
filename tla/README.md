# AML Transaction Monitoring: a verification project in TLA+

This directory keeps a formal model of the AML Transaction Monitoring System beside its
code: TLA+ modules translated from the Python sources, TLC configurations that check them on
small instances, and theorems, checked by TLAPS, about all instances. References such as
`gdpr_service.py:125` are to files under `src/`; `PROJECT.json` maps every definition to the
lines it stands for.

Contents: 1 the system, 2 the modules, 3 the runs, 4 fairness, 5 the proofs, 6 what was
found, 7 assumptions and what is left out, 8 the plan.

## 1. The system

A FastAPI backend runs as several uvicorn workers (four in the shipped image). Each worker
is one event loop in which coroutines interleave at every `await`. The workers share
PostgreSQL, Redis and an MLflow registry; Databricks notebooks fill the registry and the
Delta tables, and a simulator feeds Kafka. Background tasks live only in the memory of the
worker that queued them.

| Part | State it keeps | Operations | What makes it correct |
|---|---|---|---|
| GDPR erasure (`services/gdpr_service.py`) | rows of deletion requests, legal holds, the account's personal data | schedule, execute (hours later), cancel | retention periods honoured, COMPLETED means erased, nothing erased without a hold check |
| GDPR routes (`api/v1/gdpr.py`) | the audit trail, the response | request_deletion, cancel_deletion | no erasure without an audit entry, none for a request that was refused; what is accepted comes to an end |
| Rate limiter (`middleware/logging_middleware.py`) | one Redis counter per client address | dispatch: INCR, EXPIRE, pass or 429 | a bound on what passes, no counter that lives for ever |
| Middleware stack and logging (`main.py`, `middleware/`, `config/logging_config.py`) | the logging context of a request | CORS, logging, limit, security headers, exception handlers, log processors | a browser can read every answer but a 500; one line closes each request; client addresses are cut to two octets |
| Authentication (`core/auth.py`, `core/security.py`, `api/v1/router.py`) | `token:blacklist:<jti>` in Redis | login, logout, check on every request | a revoked token is refused while Redis keeps its key |
| Alert routes (`api/v1/alerts.py`, `core/rbac.py`) | the alert's status, the audit trail | list, history, assign, note, resolve, mark as false positive, file a SAR | who has logged out changes nothing; the trail agrees with the changes |
| Scoring (`ml/risk_scorer.py`, `ml/anomaly_detector.py`, `ml/explainer.py`, `services/ml_service.py`) | the loaded models | score_transaction, explain | riskier input never scores lower; flag, level, typology and explanation agree |
| Ingestion routes (`api/v1/transactions.py` with `ml_service`, `alert_service`, `audit_service`) | background task queues, score, alert and audit rows | POST single, POST bulk | alert before audit, no alert or audit entry left by a failed request, a transaction posted singly and flagged gets its alert (the bulk route scores and creates none) |
| Compliance reports (`api/v1/compliance.py`, `utils/compliance_reporter.py`) | a dictionary of reports per worker | generate, get by id, list, statistics | what is answered 201 is served by the worker that answered, each report has one endpoint, no page hides a report |
| Training notebook (`databricks/notebooks/03_anomaly_detection.py`) | the MLflow registry | train, register, promote, compare | one complete Production version, the best of its execution |
| Model loading (`main.py` lifespan, `load_model` of detector and scorer) | per-worker model, scaler, version | load, fall back, restart | never half a registry model and half a baseline |
| Producer and simulator (`streaming/`) | the sequence in progress; topic and dead-letter queue | start, generate, send, dead-letter, stop | no message is lost without a word, logs in order, sequences come out whole |
| Ingestion notebook (`01_data_ingestion.py`) | checkpoint, bronze table, MLflow runs | plan a batch, process_batch, commit, replay | one row per transaction, a batch is in the table when the checkpoint moves past it |
| Evaluation notebook (`07_model_evaluation.py`) | the drift table | measure, decide, run notebooks 03 and 05, write | the table announces only what happened |
| Holidays, IBAN (`utils/`) | none | Easter, holidays, business days; structure and checksum | right dates in every year; one slip never passes |

How they interact. A request passes the middleware stack from the outside in (CORS, logging,
rate limiter, security headers), then `get_current_user`, then its handler. An ingestion
handler calls the scorer, which uses what model loading left in the worker's memory, answers
202, and leaves tasks that call the alert and audit services. A deletion handler calls the
GDPR service and the audit service and leaves the executor as a background task. An alert
handler changes the row and leaves a recomputation and an audit entry as tasks. Model
loading reads what the training notebook writes, and the evaluation notebook runs the
training notebook besides the latter's own schedule; nothing coordinates them. The simulator
writes to Kafka; notebook 01 reads files that land in a directory.

Hard behaviours, all at awaits or between processes: state read before a sleep and used
after it (the executor); two Redis commands that should be one (the limiter); a token
decoded before and checked after an await (auth); an answer that does not pass the layers
one expects (the stack); consecutive background tasks of which the first may raise
(ingestion, alerts); tasks lost with their worker (ingestion, GDPR, alerts); state of one
worker that another is asked for (reports); two reads of a registry stage that may change in
between (loading); notebook executions that overlap and die (training, evaluation); an
acknowledgement lost after the message was stored, and a cancellation in the middle of a
send (streaming); a micro-batch replayed after any of its steps (ingestion notebook).
`PROJECT.json` "hazards" lists them line by line, with the properties that watch each, or a
note where none does.

Known and not listed there: the scorer reads features by names that other files assign by
position, and two of the names have gone wrong already (section 6); `revoke_token` swallows
a Redis error and logout answers as if the token were revoked (`auth.py:97`); a token's
roles are those of its issue (`rbac.py:149`); the row of a score is written by a task nobody
awaits (`ml_service.py:155`); a client that repeats a POST after a lost answer gets a second
score (`transactions.py:86`); a worker keeps the models it started with after a promotion
(`anomaly_detector.py:322`); the executor's session step swallows a Redis error.

## 2. The modules

| Module | Models | Extends / composes |
|---|---|---|
| `ErasurePromise` | abstract: what erasure promises about data, without requests, executors or time | |
| `GDPRService` | the three coroutines of the erasure service, cut at their awaits | implements `ErasurePromise` |
| `GDPRApi` | the two routes around them, the audit entry, the background task | extends `GDPRService` |
| `RateLimit` | `RateLimitMiddleware.dispatch` against Redis, for one address | |
| `HttpStack` | the four layers, the exception handlers, the lines of a request | extends `RateLimit` |
| `TokenRevocation` | `get_current_user` and `logout` for one token | |
| `AlertApi` | the alert routes and the permissions, for one alert and one token | extends `TokenRevocation` |
| `RiskScoring` | the arithmetic and rules of one scoring | |
| `Explanation` | the text `SHAPExplainer.explain` builds, without the ranking of features | extends `RiskScoring` |
| `Ingest` | both ingestion routes and their tasks on several workers | |
| `ComplianceReporter` | the two report generators, as operators from body to report | |
| `ReportStore` | the compliance routes on several workers, a client that pages | extends `ComplianceReporter` |
| `ModelTraining` | the registry and the training notebook | |
| `ModelLoading` | workers loading models while notebooks promote | extends `ModelTraining` |
| `Drift` | the evaluation notebook, beside executions of notebook 03 | extends `ModelTraining` |
| `DeliveryPromise` | abstract: what a producer promises about each message | |
| `Streaming` | the simulator's loop and the producer against a failing broker | implements `DeliveryPromise` |
| `Bronze` | files, checkpoint, `process_batch`, failures and replays | |
| `Holidays` | Easter, the tables, business days, walked day by day | |
| `Iban` | structure and checksum, an IBAN typed with one slip | |
| `*Proofs` | the theorems; section 5 says which module is proved where | |
| `MC*` | model values for TLC; `MCTransactions` and `MCPipelines` also put several modules side by side | |

Each module starts with its constants, its variables with a comment on each, the type
invariant, one action per step of the code, and its properties. Where a run checks several
invariants that belong together, they are conjuncts of one named `...Invariant`
(`HttpInvariant`, `AlertInvariant` and so on), the type invariant first. Definitions
commented "Mutant" are plausible mistakes in the definition that follows them, and no
specification uses them: they document, property by property, which slip in the code each
would catch (`PROJECT.json` "mutants" pairs them).

**GDPRService and GDPRApi.** `call[r]`, `task[r]` and `cancel[r]` are the program counters
of `schedule_deletion`, `execute_scheduled_deletion` and `cancel_deletion` for request `r`;
every `await` ends an action. `ExecuteLookup` reads the request once, as line 111 does, and
the rest of the executor works from that. `Erase` is shared by the awaited deletions;
`DeleteSessionData` may lose Redis errors, as its except clause does; `StepRaises` is an
exception inside the `try`, `LoseTask` a dead worker or an exception outside it. A
cancellation may be repeated once the one before it has been answered, also after a 500
(`CancelRoute`). One tick is
one hour, so `MaxSleep = 1` stands for the 3600 seconds of line 125. In `GDPRApi`, `http[r]`
is the route; `BackgroundTask` runs the executor only after a 202, because FastAPI drops the
queued tasks of a handler that raised.

**RateLimit and HttpStack.** INCR and EXPIRE are separate actions, so that other handlers,
evictions and expiry come in between, and a reply is an action of its own (`Decide`): a
handler may learn its count when the window it was counted in is over. `granted[i]` is how
many requests Redis has counted within the limit in the current tick and the `i` before it;
when those requests then pass is not bounded by anything. Requests the except
clause waves through are not counted there: failing open is the documented choice. `seen`
records which kinds of faults have occurred, so that a property can say exactly which of
them it survives. In `HttpStack`, `Outward` is the order of the layers from the routes
outwards, the reverse of the reading order of `main.py`, since `add_middleware` wraps what
is there; `Sent` adds to an answer what the layers outside its origin add, and an exception
passes them all. A line of the log says of each field what it shows, after the
processors in their order: something that one of the masking patterns matches, something
none of them matches, a replacement, or the two octets of `_safe_ip`. Masking replaces only
what matches, so that, for instance, a query string may go through as it is.

**TokenRevocation and AlertApi.** Time may pass between the decode of a token and the answer
of Redis, at most `MaxAwait`, for logouts and for requests; `late[r]` says that the request
arrived after a confirmed revocation. `Evict` takes the key away: `docker-compose.yml:110`
runs Redis with `allkeys-lru` and without an append-only file, and `lost` remembers it.
`AlertApi` continues an accepted request through its permission, its own guards, the update
and the tasks behind the answer; `done` and `trail` hold the operations that changed the
alert and those with an entry. The table of permissions is the part of `ROLE_PERMISSIONS`
the alert routes ask for.

**RiskScoring and Explanation.** One step scores one transaction. The program's fractions
become integers (hundredths for ratios, thousandths for components, 1/100000 for scores), so
products are exact; floating-point rounding is abstracted. `AmountRisk` is 0 because
`_heuristic_score` asks for a feature name that does not exist, and `NearThreshold` is the
seventh feature as `extract_features` computes it. `Explanation` has the label, the sentence
on the typology and the languages of the text. The ranking of the features is left out: it
goes over 47 features, most of which the model does not have, and one of those (the z-score
of the amount, for instance) may outrank those it has.

**Ingest.** `queue[p]` holds the background tasks of a response, run one after the other;
`TaskRaises` empties it, as Starlette does. `persisting` holds the score rows being written
by tasks nobody awaits. `WorkerDies` drops what a worker holds in memory.

**ComplianceReporter and ReportStore.** A report is a record built from a body in the order
of the code: conversion of the amounts, which may raise, categories, indicators, signature,
hash. A hash is the content it was computed from. A handler has no `await` between reading
and changing the dictionary, so each route is one action of one worker. `GenerateSar` stores
the report, and is then answered 201 or raises while it logs and renders: `answered` has the
201s only. A sum over several `Huge` amounts may or may not be finite (`SumMayRender`), and
one that is not cannot be rendered as JSON. The reader is a
client of `GET /reports` with an offset, a limit and a filter. The list is defined by the
place of each report in it: one more than the reports that come before it, which are those
with a later stamp and, of the same stamp, those filed earlier.

**ModelTraining, ModelLoading and Drift.** A version has the execution that registered it,
an f1 value, a flag for its scaler artifact, and a stage. `LogModel`, `LogScaler`, `Promote`
and `Compare` follow the cells of notebook 03 in order. A worker loads the Production model,
then reads the run id of Production, then loads that run's scaler: three calls, three
actions. `seen`, `moved` and `failed` only record what happened during a load. In `Drift`
the evaluation is the one that starts the execution `Triggered`; others run on their own
schedule.

**Streaming.** The process sends one message at a time. As shipped it sends none: `start`
passes `retries=5` to `AIOKafkaProducer`, which has no such parameter and raises
(`StartRaises`). `KnowsRetries = TRUE` is the code without that argument; the safety
theorems hold for both values, and say little for the other. `SendRaises` leaves the message
in the topic or not, as a broker may; then it goes to the dead-letter queue, which is on the
same broker and may fail the same way, and at last to stderr, where only the error is
printed: the log tells that a message was lost, not which. `Interrupt` cancels the await the
process stands at; what the producer has already buffered is flushed when it stops, or not.

**Bronze.** `planned` and `committed` are the checkpoint; `process_batch` is `WriteBronze`,
`LogMetrics`, and `CommitBatch` is the stream's own. A failure returns to the batch that was
planned, with the same files. `dropDuplicates` keeps any record of an id. `Recognised` is
what `isDeltaTable`, which takes a path, may answer for the name it is given: FALSE always
as shipped; both answers are allowed in the run `pipelines` and in the theorems.

**Holidays and Iban.** The calendar is walked from day to day with a weekday of its own, so
Easter, the feasts and `next_business_day` are compared with what the walk has met and with
a definition that shares no formula with the code (`EasterIsRight` takes the first Sunday
after the full moon of the tables of the reform). An IBAN is issued by the rule of ISO 13616
and typed with one character replaced, two neighbours exchanged, one left out or one typed
twice. `Running` reads the characters from the left as `int(numeric) % 97` does, a letter as
two digits; check digits are issued from `Totals`, where each character counts by its
`Weights`. `OneSlipIsCaught` leaves out the slips that put a letter for a digit or a digit
for a letter (`MixesKinds`), because some of them pass (section 6).

## 3. The runs

| Run | Module, cfg | Shows |
|---|---|---|
| `gdpr` | `MCGDPRApi`, `GDPRApi.cfg` | `RetentionHonoured`, `CompletedMeansErased`, the refinement `ErasurePromiseKept`, `ApiInvariant` (`ErasureIsAudited`, `UnansweredErasesNothing`), and liveness `AcceptedSettles` |
| `rate_limit` | `MCHttpStack`, `HttpStack.cfg` | `BurstBound`, `KeyIsTimed`, liveness `WholePairsRecover`; `HttpInvariant` (`RefusalsAreReadable`, `AnswersAreTraced`) and `AddressesStayMasked` |
| `token_revocation` | `MCAlertApi`, `AlertApi.cfg` | `RevokedIsRefused`, `AlertInvariant` (`LoggedOutChangesNothing`), `TrailAgrees` (`ChangesAreAudited`, `EntriesAreTrue`) |
| `transactions` | `MCTransactions`, `Transactions.cfg` | handlers: `AuditFollowsAlert`, `FailedLeavesNoAlert`, and liveness `FlaggedGetsAlert`, `BatchCompletes`; scoring: `AlertIsComplete`, `Monotone` over all pairs of inputs, `ExplanationInvariant` (`ExplanationAgrees`); calendar: `CalendarInvariant` (`EasterIsRight`, `FeastsFallRight`, `NextIsNext`, `FeatureCovers`); typing: `OneSlipIsCaught` |
| `compliance` | `MCReportStore`, `ReportStore.cfg` | `ReportInvariant` (`AcceptedIsServed`, `EveryReportHasEndpoint`, `CountsAddUp`, `HashCoversReport`), `PagingMissesNothing` |
| `pipelines` | `MCPipelines`, `Pipelines.cfg` | loading: `OneProduction`, `ProductionIsComplete`, `BestIsPromoted`, `LoadInvariant` (`NeverHalfBaseline`, `OneRunUnlessPromoted`, `ProductionIsServed`), and liveness `EveryWorkerServes`; drift: `DriftInvariant` (`AnnouncedIsRetrained`, `CriticalIsRetrained`), liveness `EvaluationEnds`; bronze: `BronzeInvariant` (`OneRowPerTransaction`, `NothingInvented`, `RawIdentifiersDropped`), `CheckpointFollowsTable`, liveness `LandedIsIngested`; streaming: the refinement `DeliveryPromiseKept`, `LogsInvariant` (`LogsInOrder`, `TwiceOnlyByLostAck`, `SequencesConsistent`), `SequencesAreWhole`, liveness `TakenSettles` |

Six runs end in a counterexample, each to something the repository says of itself
(section 6):

| Run | Module, cfg | Violated |
|---|---|---|
| `gdpr_cancel` | `MCGDPRService`, `GDPRServiceCancel.cfg` | `CancellationReverses` |
| `gdpr_cooling_off` | `MCGDPRService`, `GDPRServiceCoolingOff.cfg` | `CoolingOff` |
| `security_headers` | `MCHttpStack`, `HttpHeaders.cfg` | `AllAnswersSecured` |
| `revocation_lost` | `MCAlertApi`, `RevocationLost.cfg` | `RevokedStaysRefused` |
| `blocked_promotion` | `MCModelLoading`, `BlockedPromotion.cfg` | `BlockedIsNotPromoted` |
| `bronze_overwrite` | `MCBronze`, `BronzeOverwrite.cfg` | `RowsRemain` |

`transactions` and `pipelines` each hold several modules that share no state. The variable
`part` says which of them moves in a behaviour, and the others stand in an initial state:
letting them move side by side would multiply the states and show nothing, as no step of one
reads what another writes. The fairness of a part is asked for where that part moves
(`Moving`). What loading and drift share, the training notebook, is in both parts.

Bounds, and why they are enough to make the interesting cases happen:

- `gdpr`: two requests on one account, so that two executors, cancellations, which may be
  repeated, and a changing hold meet on the same data. The retention period ends at hour 2,
  where `MaxTime` stops the clock unless an executor still sleeps: refusals come before it,
  everything else after it. `Delay` and `MaxSleep` are 1, so a sleep ends exactly when the
  retention check, were it skipped, could still be caught; an executor can find its request
  due at once or not. With these values the cap on the sleep never bites; the shipped 24
  hours and 1 hour are in `gdpr_cancel` and `gdpr_cooling_off`, and every combination is in
  the theorems.
- `rate_limit`: two handlers, limit 2, a window of two ticks, and both kinds of fault, which
  are a broken pair of commands and a lost key. `MaxCount = 5` is twice the limit plus one,
  so a breach of `BurstBound` is visible before the tally saturates. Every kind of request
  (preflight, health probe, call) meets every outcome. `security_headers` needs less: a
  limit of 1.
- `token_revocation`: two overlapping requests and one logout, waits up to 1, token lifetime
  2, key lifetime 4, one tick more than lifetime plus wait; `MaxAge = 4` lets the token
  expire and then the last key. The operations asked for are a read, the weaker and the
  stronger change of status, which pass different guards; the four sets of roles have a
  holder of each permission and of none. The two requests are interchangeable (`SYMMETRY`).
  The theorem covers any number of requests and logouts and every duration.
  `revocation_lost` has the same bounds with a Redis that answers every command.
- `transactions`, handlers: one post and a batch of two on two workers, all faults on. Posts
  share nothing but their worker, so a second post adds only interleavings. Scoring: three
  amounts around the thresholds, each monotone factor low, high and beyond its clip, five
  kinds of account (one per typology rule and one without deviation), predictions on each
  side of every threshold, all ordered pairs of them, and explanations in both languages.
  Calendar: Easter in the 400 years 1900 to 2299, one full cycle of weekdays and leap years
  with the corrections of the lunar tables at 2100 and 2200; 2024 (leap), 2025 and 2100 (a
  century that is none) day by day in four places whose tables differ. Typing: IBANs of four
  countries, two with letters, with every slip in every position.
- `compliance`: two interchangeable workers that restart (`WorkerSymmetry`), an officer and
  an analyst, three reports, five bodies (each kind of report, a category without a text,
  amounts that are absent, huge, not finite, or do not convert, in both orders), pages of
  one or two, a clock that may be set back. Three reports are the least with which a page
  boundary falls between two and the list grows behind and before it.
- `pipelines`, loading: two executions with a grid of two and two f1 values, one worker that
  restarts as often as it likes. Two executions are the least that overlap; with more,
  nothing new is shared, since a worker compares Production at two moments only. To the
  worker the executions are alike, so the one that registers first is `t1`
  (`T1RegistersFirst`). Drift: the evaluation's execution and a scheduled one, readings on
  both sides of each threshold and exactly at it, and a table without alerts. Bronze: two
  transactions, three files in batches of one or two; five contents with copies that agree,
  contradict, lie at the bounds of the filters or beyond them. Two batches are the least in
  which one copy is in the table when another arrives; any step may fail, and the table may
  be recognised or not each time. Streaming: two accounts, sequences of two and three
  messages, three messages in all, so that a sequence can end, be followed by another, and
  be cut by an interrupt; two patterns, of which one fixes its target.
- `blocked_promotion`: a grid of one, no failures and no overlap, f1 values 0.64 and 0.70
  against the shipped tolerance of 0.05. `bronze_overwrite`: two files with nothing that a
  filter could drop, a batch each, and `isDeltaTable` as shipped.

`CHECK_DEADLOCK FALSE` is set for `transactions`, `pipelines` and `blocked_promotion`: there
every request or notebook runs once, the process is interrupted or the calendar ends, and
the system then stops. The other specifications never stop (time passes, clients return,
workers restart, a hold may change, a query is started again).

## 4. Fairness

Only what the event loop or the runtime guarantees is fair: a coroutine that can go on does
(`Scheduling` to `AuditRequested` and `BackgroundTask` in `GDPRApi`; `Count`, `Answer` in
`HttpStack`; `Handle`, `RunTask`, `BatchStep`, `PersistScore` in `Ingest`; `LoadStep` in
`ModelLoading`), and the clock advances. In `Streaming` a send that has begun returns or
raises, which the request timeout of the client enforces, and a cancelled task runs its
`finally` block (`Stop`); the loop is not obliged to generate. In `Bronze` a query that is
up goes on (`BeginBatch` to `CommitBatch`), but nobody is obliged to start it again, and
`LandedIsIngested` says "while it is up". In `Drift` the notebook and the execution it waits
for go on or fail. `AlertApi`, `ReportStore`, `RiskScoring`, `Holidays` and `Iban` state no
fairness and no liveness.

These are weak fairness conditions: a coroutine that has become ready stays ready. A call to
MLflow, PostgreSQL, Redis or Kafka is taken to return or to raise; no fairness chooses
which. Nobody is obliged to send a request, log out, cancel, place a hold, promote, fail or
crash. A task whose worker dies is an outcome of its own in every liveness property
(`SettledOrLost`, `killed`, `load = "down"`), because nothing in the code would start it
again. Where a specification needs a bound on time (`MaxTime`), the clock still runs until
every sleeper can wake.

## 5. The proofs

Every safety property that a passing run checks is also a theorem, about the specification
of its own module. The theorems are for any number of requests, handlers, accounts, workers,
files, messages or executions, and any values of the other constants that satisfy the named
`ASSUME`s. Each rests on an inductive invariant: `Init => IInv`,
`IInv /\ [Next]_vars => IInv'`, and `IInv` implies the property. Where a module extends
another, it is proved first that its steps are steps or stutters of the module it extends,
and what was proved there is then cited (`RoutesKeepServiceSpec`, `StackKeepsLimiter`,
`RoutesKeepTokenSpec`, `LoadingOnlyReads`, `EvaluationOnlyStarts`).

**`GDPRProofs`** (`GDPRService`, `GDPRApi`). `CompletedMeansErased` is not inductive: one
must know what is gone when an executor stands at each step (`ProgressInv`), that rows and
executors exist only for calls that returned (`RowsInv`), that a row with an outcome has an
executor that is over (`OutcomeInv`), and that erased data never returns (`Frame`).
`SleptFirst` needs `SleepInv` on the wake-up times, `RetentionHonoured` needs `CallsInv`
with `TouchedInv`: data is touched only on behalf of a scheduled request that has slept.
From the same invariant: `HeldAccountsAreKept` (an account under hold
throughout loses nothing); `ImplementsPromise`, the refinement of `ErasurePromise`, in which
an account is cleared once a request for it is past the hold check; and
`CoolingOffNeedsFullSleep`: the cooling-off period is honoured if `MaxSleep >= Delay`, a
hypothesis the shipped values (1 and 24) do not satisfy. `RoutesAreHonest` proves
`ApiInvariant`: an executor runs only behind a 202, a 202 has its entry in the trail, and a
call that stands in the service has a handler that waits for it (`HttpInv`).

**`HttpProofs`** (`RateLimit`, `HttpStack`). `KeysAreTimed`: until a command raises or a
worker dies between INCR and EXPIRE, an untimed counter has a handler about to time it,
whatever Redis evicts. `BurstsAreBounded`: as long as Redis keeps the key, of the requests
it counts in a stretch of `Window` ticks at most `2 * Limit` are let through, whenever their
replies come. (The requests themselves may pass late, several stretches' worth of them in
one tick: nothing bounds that.) Its invariant: the tallies grow with their span
(`TalliesGrow`); only one handler can stand between creating a key and timing it
(`OneCreator`); and what was granted since the current key came into being is at most its
count, so that a stretch which sees two keys sees at most a limit's worth of each, and none
sees three (`TwoKeys`). `MaxCount` caps the tallies; the theorem says something as soon as
it exceeds `2 * Limit`. `AnswersCarryTheirLayers` and `LogsHideAddresses` go through the
handlers of the stack: what is counted in Redis belongs to a call the outer layers let
through (`CountedAreCalls`). `LogsHideAddresses` takes masking as it is: only what a pattern
matches is replaced.

**`AlertProofs`** (`TokenRevocation`, `AlertApi`). `RevocationHolds` assumes `TTL > Lifetime
+ MaxAwait`, and says what holds as long as Redis keeps the key (`~lost`): the shipped Redis
need not, which is what `revocation_lost` shows. The invariant: a confirmed key lasts until
the token is `TTL` old unless it is lost (`KeyLasts`), and a request still waiting decoded
the token while it was valid (`CheckingDecoded`). The code's values, 60 minutes for the
access token (`settings.py:47`) and 7200 seconds for the key (`auth.py:91`), leave an hour
for one await. Refresh tokens live seven days and do not satisfy the hypothesis.
`LoggedOutStaysOut` proves `AlertInvariant` under the same hypothesis and proviso, and
`TrailHolds` proves `TrailAgrees` without it. Their invariant says how far each route is
against the token check (`WorkOK`), and that a change without an entry has its audit task
still to run, or had a fault (`Pending`).

**`AlgorithmProofs`** (`RiskScoring`, `Explanation`, `Holidays`, `Iban`). Of scoring:
`ScoresAreMonotone` (clipping and the other components are monotone or unchanged),
`AlertsAreComplete` for all ordered thresholds, `HeuristicNeverCritical`: no input at all
reaches CRITICAL without a trained model. `ExplanationsHold` proves `ExplanationInvariant`
for MEDIUM at 0.50 and HIGH at 0.80, the shipped settings: the explainer has these numbers
written into it (`explainer.py`), so that with other settings its labels part from the
levels.

`CalendarIsRight` proves `CalendarInvariant` for all years and places. Days are numbered
(`Ordinal`; `YearsInOrder` says the numbers of a year are before those of the next), and the
inductive invariant `CalendarIInv` says that the weekday follows from the number of the day
and that each place's last business day is at most seven days back with only closed days
since. Then:

- Easter: the formula of the code and the rule of the reform are both brought to the same
  day of March, counted on past its end, between 22 and 56: first the full moon (`MoonIs`),
  then the rest of its week (`RestOfWeek`). The cases are those of remainders, so this holds
  for every year (`EasterFalls`), and the feasts have their weekdays and stay within their
  year (`FeastFalls`).
- The next business day: the loop of the code has no bound, and the model looks seven days
  ahead, which is the same if no week is without a business day. Easter's feasts never fall on a
  Tuesday or Wednesday, so such a week would have both on fixed holidays, which leaves the
  days about the new year and Christmas, and there another weekday is open (`WeekIsOpen`).
  The day named is then the day met (`NextIsNext`).
- The holiday feature: on a day it misses, the day is free in at most eight of the sixteen
  states, those that have it for themselves (`MostStatesAreCovered`).

`SlipsAreCaught` proves `OneSlipIsCaught` for all accounts of the right length. That a
recursive function over the places of a sequence exists, and has the values its equation
says, is an induction (`Recursion`, from `LeastNumber`). With it, the reading from the left
and the weights from the right give the same remainder (`RemainderIsOfTotal`), so that an
issued IBAN is accepted; two IBANs that differ in one place, or in two neighbours, have
remainders that differ by what 97 does not divide, and the characters that follow carry the
difference along (`CarryOn`). A character left out or typed twice changes the length.

**`IngestProofs`** (`Ingest`, `Bronze`). `AuditComesLast`, `FailureLeavesNothing`:
`QueueInv` lists the four queues there are and what has been done by the time each is left.
For the notebook, `BronzeAlwaysSound`: a transaction has no row or one record that passed
the filters in a planned batch (`RowsOK`), rows are in a table that exists, and the batch
being worked on is the last one planned (`TableOK`). `CheckpointIsEarned` adds that the
current batch is in the table from its write on (`CurrentDone`), so that it is there when
the checkpoint moves past it. Both hold whatever `isDeltaTable` answers. That the rows of
*earlier* batches stay is false of the shipped notebook (`bronze_overwrite`), and is no
theorem.

**`ModelProofs`** (`ModelTraining`, `ModelLoading`, `Drift`). `OneVersionServes`,
`ProductionHasScaler`, `TheBestIsPromoted` for overlapping and dying executions. The
invariant says that only the version an execution logged last may lack its scaler, that none
with a scaler beats `best` (`Graded`), that `best` is the execution's own (`BestOK`), and
that an execution which has promoted logs nothing more (`PromotedOK`). `WorkersLoadSoundly`
adds what a worker holds after each of its three calls (`LoadedSoFar`), that what it saw in
Production has since only been archived (`SeenStays`), and that without a promotion in
between it has seen one version (`SameVersion`). `DriftTableIsTrue`: rows are written at the
end and all at once (`RowsAreLast`), a decision to retrain is followed by the execution it
started (`DecidedIsRun`), and it was taken on the readings in the rows (`DecidedOnMetrics`).

**`StreamingProofs`** (`Streaming`). `ImplementsPromise`, the refinement of
`DeliveryPromise` (the fate of a message is read off the logs, stderr and the message in
flight); `LogsHold` for `LogsInvariant`; `SequencesStayWhole` for the action property
`SequencesAreWhole`, which needs that the messages of the current sequence that are out are
as many as its counter says.

**`ReportProofs`** (`ComplianceReporter`, `ReportStore`). `PagesHideNothing`: while a reader
stays with one worker, each report it is still owed has a place beyond its offset
(`PagingInv`). A report filed meanwhile only raises the places of others (`PlaceRises`), no
two share one (`PlacesDiffer`), and every place up to the length of the list is taken
(`ListIs`), so that a page hands over what lay between two offsets (`PageHolds`).
`ReportsAreKept` proves `ReportInvariant`: a report has the shape the generators give it
(`ReportIs`), an id belongs to one report of one worker (`IdsOK`), and what was answered 201
is in the store of the worker that answered (`AnsweredOK`), which says nothing of a report
that was stored and whose officer got an error.

Six modules also have a theorem of type correctness; in `ReportProofs`, `StreamingProofs`
and for the modules named with an `...Invariant`, types are its first conjunct.
`SleptFirst`, `HeldAccountKept` and `HeuristicNeverCritical` are stated by theorems only: no
run checks them. `CoolingOff` has a run that violates it at the shipped values and a theorem
for values that satisfy its hypothesis.

Assumptions are the named `ASSUME`s of the modules (types of the constants; in `RiskScoring`
that the thresholds are ordered and HIGH does not exceed 0.95, which the shipped settings
satisfy; in `ReportStore` that a body's categories are those its validator lets through; in
`Holidays` that years are those of `datetime.date`, 1 to 9999; in `Iban` that accounts have
the length of the table) and the hypotheses named above.

Only model-checked: liveness (`AcceptedSettles`, `WholePairsRecover`, `FlaggedGetsAlert`,
`BatchCompletes`, `EveryWorkerServes`, `TakenSettles`, `LandedIsIngested`,
`EvaluationEnds`), which rests on fairness and ENABLED, out of the prover's reach. The
library's induction theorems, which take an operator as a parameter, are out of reach as
well; where an induction was needed it was done over a set of numbers, which has a least
element by `WellFoundedInduction`.

## 6. What was found

With a run whose counterexample is a behaviour of the code, against what the repository says
of itself:

- `gdpr_cancel`: the executor never re-reads the request it fetched before its sleep
  (`gdpr_service.py:111`); an accepted cancellation does not stop it, although the delay is
  there because it "allows reversal" (`gdpr.py:85`).
- `gdpr_cooling_off`: the executor sleeps `min(wait, 3600)` seconds (`gdpr_service.py:125`)
  and then erases without looking at the time again, one hour into a cooling-off period of
  24. The theorem `CoolingOffNeedsFullSleep` says what the values would have to be.
- `security_headers`: the comment at `main.py:92` says "outermost first", but the layer added
  last is outermost. A 429, a preflight answer and a 500 do not pass the innermost layer,
  which adds the security headers to "all responses" (`logging_middleware.py:146`).
- `revocation_lost`: a revocation is a key in a Redis that evicts keys (`allkeys-lru`,
  `docker-compose.yml:110`) and keeps nothing across a restart but its last snapshot. When the
  key is gone a revoked token passes again, against "Revoked JWT (blacklisted) | 401"
  (`tests/docs/testing_documentation.md:126`).
- `blocked_promotion`: a model is promoted before the comparison that is to block it, and the
  ValueError "Blocking promotion" is caught in the same cell
  (`03_anomaly_detection.py:171-201`).
- `bronze_overwrite`: `isDeltaTable` is given a table name where it expects a path
  (`01_data_ingestion.py:162`), so every batch takes the branch that overwrites the table,
  against "upsert by transaction_id" (`:161`).

The following disagree with what a comment, a docstring or a document says, were met while
modelling, and have no run of their own.

Start. `compliance.py` imports `require_roles` from `core/auth.py`, which does not define
it; the routers are imported when `main.py` is, so that as shipped the application does not
start. The model is of the code with that function. Likewise `start` of the producer passes
`retries=5`, which `AIOKafkaProducer` refuses: the simulator ends before its first message.

Erasure. The executor does not look at legal holds after its sleep, so a hold placed after
scheduling does not protect the account. `_get_deletion_request` is a stub that finds
nothing, so as shipped executors end at once and every cancellation gets 404. The audit
details of a deletion hold a `datetime` that `AuditSigner.sign` cannot serialise, so as
shipped `request_deletion` saves the row and answers 500. A retried cancellation whose audit
entry failed gets 404 although it took effect. A cancellation decided before the executor
ends, and written after, turns a finished row into CANCELLED (`gdpr_service.py:212`). The
docstring of `schedule_deletion` names a check for pending SAR filings that is not there.

HTTP. EXPIRE is sent only when INCR answers 1 (`logging_middleware.py:117-119`); if it does
not arrive the counter never expires, and the address gets 429 until Redis drops the key.
The `request_id` in the body of a 500 is the client's own header or "unknown".
`AuditContextProcessor` writes the raw path over a line already masked, exceptions are
formatted after masking, and a value that no pattern matches is logged as it is, against
"automatic PII masking in all log outputs" (`logging_config.py:3`). The exempt path
`/metrics` is a mount that redirects to `/metrics/`, which is counted; the exempt path
`/health` is no route.

Authentication and alerts. Refresh tokens pass `get_current_user`. The permissions
`ALERTS_RESOLVE` and `ALERTS_FALSE_POSITIVE` are enforced nowhere; the notification of an
escalation does nothing; an alert that is SAR_FILED can be set to another status by any
analyst.

Scoring. The STRUCTURING rule (`risk_scorer.py:47`) reads `near_threshold`, which is
computed as amount >= 10000 (`anomaly_detector.py:173`): on a busy account 9,850 never
matches and 75,000 does, against "Multiple transactions near the CHF/EUR 10,000 reporting
threshold" (`explainer.py:112`). The amount component is always 0, as it asks for a feature
that no name matches. `1 - abs(2p - 1)` is the opposite of the "distance from 0.5" its
comment names. The heuristic score cannot reach CRITICAL (`HeuristicNeverCritical`) although
`tests/docs/testing_documentation.md:117` expects it. `load_explainer` is called nowhere, so
SHAP is never used; the fallback multiplies fixed weights by raw values, so an amount
outweighs every ratio; a feature without a label appears under its raw name.

Ingestion routes. The audit entry is the background task behind the alert
(`transactions.py:97-112`); an exception in the alert removes it. "via Celery"
(`transactions.py:155`) is an in-process task that dies with its worker. The bulk route
scores and never creates an alert, whatever it flags.

Compliance. A report is in the memory of one of four workers, so the routes by which
"reports ... can be retrieved" (`compliance.py:105`, `:182`) answer 404 on the others and
after a restart. A report is stored before its answer is rendered, inside one `try`: an
error there is answered 422 or 500 and the report stays (`compliance.py:138`). An amount of
`NaN` or `Infinity` is stored, after which the report itself and the statistics of that
worker answer 422; several huge amounts whose sum is not finite do the same to the
statistics alone (`compliance.py:300`). The `report_hash` "for integrity verification"
(`compliance_reporter.py:151`) is computed over a report whose hash field is still empty, so
that recomputing it over the stored report gives another value; it verifies the report with
the field cleared, which is what `HashCoversReport` says. FATF_STR yields a FINMA report
(`compliance.py:127`); FINMA reports pass over categories that have no text.

Notebooks. When executions overlap, the version compared with need not be the one replaced.
A promotion between the calls of `load_model` pairs one run's model with another's scaler
(`OneRunUnlessPromoted` is the part that holds). In notebook 01, `dropDuplicates` precedes
the filters, so a copy that fails them can displace a valid one; the comment says "Drop
exact duplicates" and duplicates are found by id; the comment says "upsert" and the merge
only inserts; `target_account_id` stays raw where `source_account_id` is encrypted; a Kafka
envelope does not match `TRANSACTION_SCHEMA`; `records_ingested` counts a replayed batch
twice. In notebook 07, SUM over no alerts is NULL and the division raises a TypeError
(`07_model_evaluation.py:131`); a retraining that fails leaves no rows at all; the level
CRITICAL uses `>=` and the decision `>`; the text prints MONITOR where the row says STABLE.

Streaming. The `step` of a sequence never advances, so ROUND_TRIPPING never returns to its
source (`simulator.py:72` against `:274`); the fixed id and the fixed IBAN of a SMURFING
sequence are taken from different accounts (`:275-276`). The dead-letter queue is on the
same broker as the topic, so what it is meant to catch usually ends on stderr; a message
that does not serialise fails there in the same way.

Utilities. The key "HE" appears twice in a table of states, and Hesse loses Corpus Christi;
"all 26 cantons" (`docs/portfolio_summary.md:88`) are 17 in the tables; Lower Saxony lacks
31 October; `is_business_day` takes no German state. `bban_pattern` of the IBAN tables is
never used, against "format checks" (`iban_validator.py:7`), and an IBAN with a letter for a
digit passes when the checksum happens to fit (a letter is two digits: 1 and B, 2 and M, 3
and X can change places), the flags for countries under watch cannot be set since none of
those countries passes the structure check, and nothing imports the validator.

## 7. Assumptions, and what is left out

- `StubStore = FALSE` and `AuditSigns = TRUE` in the runs: the GDPR model is of the
  coroutines with a store that finds its rows and a signer that signs, as the tests mock
  them; with the shipped stubs hardly anything happens. Both are constants of the modules,
  and the theorems hold for either value of `StubStore`. In the same spirit, the alert table
  behind the stubs of `AlertService` is modelled from how the routes use it, `require_roles`
  from how `compliance.py` calls it, and the producer with `KnowsRetries = TRUE`.
- PostgreSQL statements are stubs in the code; each is modelled as one atomic effect or an
  exception. Redis commands are atomic; they may raise before or after their effect where
  the caller cannot tell. The Kafka broker stores a message, or not, before it fails.
- `BurstBound`, `RevokedIsRefused` and `LoggedOutChangesNothing` hold as long as Redis keeps
  the key; the shipped configuration does not oblige it to.
- Losses that the code has no means against are outcomes in the liveness and audit
  properties, not violations of them: a worker that dies takes its executors, alerts, audit
  entries and batches with it (`SettledOrLost`, `killed`, `mishap`), and so does an interrupt
  with the message in flight. A post that is answered 500 leaves its score row, of which
  `FailedLeavesNoAlert` does not speak.
- No property speaks of what other workers answer about a report, of a late cancellation that
  overwrites an outcome, of which copy's values a row has, or of two requests for one
  account as such: the code does what section 6 says, and a property would have to excuse it.
- `MaxAwait` is an assumption: the Redis client has no socket timeout.
- SHA-256 has no collisions and report ids are unique; the origin of a request is one CORS
  allows; `MASK_PII_IN_LOGS` is on, as shipped. The scoring thresholds are in order, which
  `settings.py` does not validate.
- A tick of the clock stands for an hour (GDPR), a fraction of a minute (rate limiter) or an
  interval of waiting (tokens).
- Not modelled: numbers inside the forest and LightGBM, the ranking of features and SHAP
  values, PSI and KS as statistics, texts, layouts, dashboards, deployment, settings, data
  models, the bank registry, data generators, the XETRA branch of the exchange holidays,
  `require_role` and `require_any_role` (no route uses them). Of the modelled services,
  routes that only read, or whose service is a stub that stores nothing: they leave no state
  a property could be about.

## 8. The plan

Done: every part of the table in section 1 has its module. The order was the erasure service
with its abstract specification, its routes, rate limiter, tokens, scoring, ingestion,
training, loading, with their proofs; then the compliance reports, streaming with its
abstract specification, the two other notebooks, the middleware stack, the alert routes, the
explainer, and the utilities.

The theorems followed in the same order of importance; section 5 says what each rests on.

What is left:

1. The parts of `compliance_reporter.py` and `explainer.py` that are text or statistics, and
   `rescore` with its audit task, if their stubs come to store anything.
2. A common specification of the routes that share the audit trail (`GDPRApi` and `AlertApi`
   each have a trail of their own).
