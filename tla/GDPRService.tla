----------------------------- MODULE GDPRService -----------------------------
(***************************************************************************)
(* The erasure half of backend/services/gdpr_service.py: the coroutines    *)
(* schedule_deletion, execute_scheduled_deletion and cancel_deletion, each *)
(* cut at its awaits, running against a store of deletion requests, a      *)
(* table of legal holds and the account's data, all of which live outside  *)
(* the process.  One hour is one tick of the clock.                        *)
(***************************************************************************)
EXTENDS Naturals

CONSTANTS
    Requests,     \* calls of schedule_deletion; each creates at most one request id
    Accounts,
    AccountOf,    \* the account_id each call is made for
    RetainUntil,  \* created + DATA_RETENTION_DAYS; 0 where no creation date is known
    Delay,        \* settings.GDPR_DELETE_DELAY_HOURS
    MaxSleep,     \* the 3600 seconds of the executor's sleep, in hours
    StubStore,    \* TRUE: _get_deletion_request as shipped (it returns None)
    MaxTime       \* bound: the clock stops here unless an executor still sleeps

ASSUME ConstantsAssumption ==
    /\ AccountOf \in [Requests -> Accounts]
    /\ RetainUntil \in [Accounts -> Nat]
    /\ Delay \in Nat
    /\ MaxSleep \in Nat
    /\ StubStore \in BOOLEAN
    /\ MaxTime \in Nat

VARIABLES
    clock,    \* datetime.now(timezone.utc)
    hold,     \* hold[a]: account a has a row in legal_holds
    data,     \* data[a]: the kinds of personal data still stored for a
    call,     \* call[r]: where schedule_deletion stands
    due,      \* due[r]: scheduled_deletion_at
    status,   \* status[r]: the status column of the stored request
    task,     \* task[r]: where execute_scheduled_deletion stands
    wakeAt,   \* wakeAt[r]: when the executor's sleep ends
    cancel    \* cancel[r]: where cancel_deletion stands

vars == <<clock, hold, data, call, due, status, task, wakeAt, cancel>>

-----------------------------------------------------------------------------
(* Types *)

\* What the five deletion statements remove: PII columns, the behavioural
\* profile, the two Redis keys, and the names and IBANs inside transactions.
Parts == {"pii", "ml_profile", "history", "sessions", "txn_pii"}
RedisParts == {"history", "sessions"}

CallStates == {"idle", "checking_hold", "checking_retention", "saving",
               "legal_hold", "retention_active", "scheduled"}
StatusValues == {"NONE", "SCHEDULED", "COMPLETED", "FAILED", "CANCELLED"}
Running == {"asleep", "pii", "ml", "session", "txn", "completing", "failing"}
TaskStates == {"none", "not_found", "done", "failed", "lost"} \cup Running
CancelStates == {"idle", "writing", "accepted", "refused"}

TypeOK ==
    /\ clock \in Nat
    /\ hold \in [Accounts -> BOOLEAN]
    /\ data \in [Accounts -> SUBSET Parts]
    /\ call \in [Requests -> CallStates]
    /\ due \in [Requests -> Nat]
    /\ status \in [Requests -> StatusValues]
    /\ task \in [Requests -> TaskStates]
    /\ wakeAt \in [Requests -> Nat]
    /\ cancel \in [Requests -> CancelStates]

Init ==
    /\ clock = 0
    /\ hold \in [Accounts -> BOOLEAN]
    /\ data = [a \in Accounts |-> Parts]
    /\ call = [r \in Requests |-> "idle"]
    /\ due = [r \in Requests |-> 0]
    /\ status = [r \in Requests |-> "NONE"]
    /\ task = [r \in Requests |-> "none"]
    /\ wakeAt = [r \in Requests |-> 0]
    /\ cancel = [r \in Requests |-> "idle"]

\* _get_deletion_request finds a row: never as shipped, else when one was saved.
Found(r) == ~StubStore /\ status[r] # "NONE"

Lesser(m, n) == IF m <= n THEN m ELSE n

-----------------------------------------------------------------------------
(* schedule_deletion *)

\* The call arrives and awaits _check_legal_hold.
Submit(r) ==
    /\ call[r] = "idle"
    /\ call' = [call EXCEPT ![r] = "checking_hold"]
    /\ UNCHANGED <<clock, hold, data, due, status, task, wakeAt, cancel>>

\* Mutant: the hold is looked up and ignored.
HoldIgnored(r) ==
    /\ call[r] = "checking_hold"
    /\ call' = [call EXCEPT ![r] = "checking_retention"]
    /\ UNCHANGED <<clock, hold, data, due, status, task, wakeAt, cancel>>

CheckLegalHold(r) ==
    /\ call[r] = "checking_hold"
    /\ call' = [call EXCEPT ![r] =
                  IF hold[AccountOf[r]] THEN "legal_hold" ELSE "checking_retention"]
    /\ UNCHANGED <<clock, hold, data, due, status, task, wakeAt, cancel>>

RetentionActive(r) ==
    /\ call[r] = "checking_retention"
    /\ clock < RetainUntil[AccountOf[r]]
    /\ call' = [call EXCEPT ![r] = "retention_active"]
    /\ UNCHANGED <<clock, hold, data, due, status, task, wakeAt, cancel>>

\* Mutant: the retention check does not return early.
RetentionIgnored(r) ==
    /\ call[r] = "checking_retention"
    /\ call' = [call EXCEPT ![r] = "saving"]
    /\ due' = [due EXCEPT ![r] = clock + Delay]
    /\ UNCHANGED <<clock, hold, data, status, task, wakeAt, cancel>>

\* Retention is over: scheduled_at is computed, the save is awaited.
BuildRequest(r) ==
    /\ call[r] = "checking_retention"
    /\ clock >= RetainUntil[AccountOf[r]]
    /\ call' = [call EXCEPT ![r] = "saving"]
    /\ due' = [due EXCEPT ![r] = clock + Delay]
    /\ UNCHANGED <<clock, hold, data, status, task, wakeAt, cancel>>

SaveDeletionRequest(r) ==
    /\ call[r] = "saving"
    /\ call' = [call EXCEPT ![r] = "scheduled"]
    /\ status' = [status EXCEPT ![r] = "SCHEDULED"]
    /\ UNCHANGED <<clock, hold, data, due, task, wakeAt, cancel>>

-----------------------------------------------------------------------------
(* execute_scheduled_deletion: one background task per scheduled request *)

\* The request is read here and never again.
ExecuteLookup(r) ==
    /\ call[r] = "scheduled"
    /\ task[r] = "none"
    /\ \/ /\ ~Found(r)
          /\ task' = [task EXCEPT ![r] = "not_found"]
          /\ UNCHANGED wakeAt
       \/ /\ Found(r)
          /\ clock < due[r]
          /\ task' = [task EXCEPT ![r] = "asleep"]
          /\ wakeAt' = [wakeAt EXCEPT ![r] = clock + Lesser(due[r] - clock, MaxSleep)]
       \/ /\ Found(r)
          /\ clock >= due[r]
          /\ task' = [task EXCEPT ![r] = "pii"]
          /\ UNCHANGED wakeAt
    /\ UNCHANGED <<clock, hold, data, call, due, status, cancel>>

Wake(r) ==
    /\ task[r] = "asleep"
    /\ clock >= wakeAt[r]
    /\ task' = [task EXCEPT ![r] = "pii"]
    /\ UNCHANGED <<clock, hold, data, call, due, status, wakeAt, cancel>>

\* One awaited deletion: the parts go and the executor moves to its next await.
Erase(r, from, parts, to) ==
    /\ task[r] = from
    /\ data' = [data EXCEPT ![AccountOf[r]] = @ \ parts]
    /\ task' = [task EXCEPT ![r] = to]
    /\ UNCHANGED <<clock, hold, call, due, status, wakeAt, cancel>>

DeletePiiFields(r) == Erase(r, "pii", {"pii"}, "ml")

DeleteMlProfile(r) == Erase(r, "ml", {"ml_profile"}, "session")

\* Redis may fail before the first, before the second or after both deletes;
\* the except clause swallows it and the executor goes on either way.
DeleteSessionData(r) ==
    \E gone \in {{}, {"history"}, RedisParts} : Erase(r, "session", gone, "txn")

AnonymizeTransactionPii(r) == Erase(r, "txn", {"txn_pii"}, "completing")

\* Mutant: every step swallows its exception, as the Redis step does.
StepSwallows(r) ==
    /\ task[r] \in {"pii", "ml", "txn", "completing"}
    /\ task' = [task EXCEPT ![r] = "completing"]
    /\ UNCHANGED <<clock, hold, data, call, due, status, wakeAt, cancel>>

\* An exception inside the try block.
StepRaises(r) ==
    /\ task[r] \in {"pii", "ml", "txn", "completing"}
    /\ task' = [task EXCEPT ![r] = "failing"]
    /\ UNCHANGED <<clock, hold, data, call, due, status, wakeAt, cancel>>

UpdateDeletionStatus(r, from, value, to) ==
    /\ task[r] = from
    /\ status' = [status EXCEPT ![r] = value]
    /\ task' = [task EXCEPT ![r] = to]
    /\ UNCHANGED <<clock, hold, data, call, due, wakeAt, cancel>>

MarkCompleted(r) == UpdateDeletionStatus(r, "completing", "COMPLETED", "done")

\* Mutant: a failed executor only logs.
FailSilently(r) == UpdateDeletionStatus(r, "failing", status[r], "failed")
MarkFailed(r) == UpdateDeletionStatus(r, "failing", "FAILED", "failed")

\* The worker process dies, or an await outside the try block raises: the
\* task exists only in memory and nothing starts it again.
LoseTask(r) ==
    /\ call[r] = "scheduled"
    /\ task[r] \in Running \cup {"none"}
    /\ task' = [task EXCEPT ![r] = "lost"]
    /\ UNCHANGED <<clock, hold, data, call, due, status, wakeAt, cancel>>

-----------------------------------------------------------------------------
(* cancel_deletion *)

\* A request may be cancelled again whatever came of it before; a second call after an
\* accepted one finds another status than SCHEDULED.
CancelCheck(r) ==
    /\ call[r] = "scheduled"
    /\ cancel[r] # "writing"
    /\ cancel' = [cancel EXCEPT ![r] =
                    IF Found(r) /\ status[r] = "SCHEDULED" /\ clock < due[r]
                    THEN "writing" ELSE IF @ = "accepted" THEN @ ELSE "refused"]
    /\ UNCHANGED <<clock, hold, data, call, due, status, task, wakeAt>>

CancelWrite(r) ==
    /\ cancel[r] = "writing"
    /\ status' = [status EXCEPT ![r] = "CANCELLED"]
    /\ cancel' = [cancel EXCEPT ![r] = "accepted"]
    /\ UNCHANGED <<clock, hold, data, call, due, task, wakeAt>>

\* The update raises or the worker dies: the client gets no 204 and may retry.
CancelLost(r) ==
    /\ cancel[r] = "writing"
    /\ cancel' = [cancel EXCEPT ![r] = "idle"]
    /\ UNCHANGED <<clock, hold, data, call, due, status, task, wakeAt>>

-----------------------------------------------------------------------------
(* Environment *)

\* Compliance opens or closes an investigation.
ChangeHold(a) ==
    /\ hold' = [hold EXCEPT ![a] = ~@]
    /\ UNCHANGED <<clock, data, call, due, status, task, wakeAt, cancel>>

Tick ==
    /\ clock < MaxTime \/ \E r \in Requests : task[r] = "asleep" /\ clock < wakeAt[r]
    /\ clock' = clock + 1
    /\ UNCHANGED <<hold, data, call, due, status, task, wakeAt, cancel>>

-----------------------------------------------------------------------------
Validate(r) ==
    \/ CheckLegalHold(r)
    \/ RetentionActive(r)
    \/ BuildRequest(r)
    \/ SaveDeletionRequest(r)

Execute(r) ==
    \/ ExecuteLookup(r)
    \/ Wake(r)
    \/ DeletePiiFields(r)
    \/ DeleteMlProfile(r)
    \/ DeleteSessionData(r)
    \/ AnonymizeTransactionPii(r)
    \/ StepRaises(r)
    \/ MarkCompleted(r)
    \/ MarkFailed(r)

Cancel(r) == CancelCheck(r) \/ CancelWrite(r) \/ CancelLost(r)

Next ==
    \/ \E r \in Requests : Submit(r) \/ Validate(r) \/ Execute(r) \/ LoseTask(r) \/ Cancel(r)
    \/ \E a \in Accounts : ChangeHold(a)
    \/ Tick

Spec == Init /\ [][Next]_vars

-----------------------------------------------------------------------------
(* Properties *)

Erasing == {"pii", "ml", "session", "txn", "completing", "failing", "done", "failed"}

\* Some personal data of the account is gone.
Touched(a) == data[a] # Parts

\* schedule_deletion, check 2: nothing of an account is erased before its
\* retention period is over, however its requests, executors and retries interleave.
RetentionHonoured == \A a \in Accounts : Touched(a) => clock >= RetainUntil[a]

\* The status column never says COMPLETED while a stored part is left, except
\* Redis data, whose deletion failures execute_scheduled_deletion swallows; late
\* cancellations, failing steps and a second request on the account included.
CompletedMeansErased ==
    \A r \in Requests : status[r] = "COMPLETED" => data[AccountOf[r]] \subseteq RedisParts

\* What min(wait_seconds, 3600) guarantees: an executor touches data only when its
\* request is due or a full MaxSleep after the request was made.
SleptFirst ==
    \A r \in Requests : task[r] \in Erasing =>
        clock >= due[r] \/ clock + Delay >= due[r] + MaxSleep

\* "Execute a scheduled deletion after the cooling-off period" (the docstring of
\* execute_scheduled_deletion): data is touched only once some request for the
\* account is due.
CoolingOff ==
    \A a \in Accounts : Touched(a) =>
        \E r \in Requests : AccountOf[r] = a /\ status[r] # "NONE" /\ clock >= due[r]

\* schedule_deletion, check 1: an account held from before its first request and
\* ever since keeps all its data.
HeldAccountKept == \A a \in Accounts : [](hold[a]) => [](~Touched(a))

\* The promise about the data that the three coroutines implement together: the
\* account counts as cleared once a request on it is past its hold check.
ClearedAccounts ==
    {a \in Accounts : \E r \in Requests :
        AccountOf[r] = a /\ call[r] \notin {"idle", "checking_hold", "legal_hold"}}
Promise == INSTANCE ErasurePromise WITH
    held <- hold, cleared <- ClearedAccounts, remaining <- data
ErasurePromiseKept == Promise!Spec

\* The end of an accepted request: an outcome, or an executor that is gone.
SettledOrLost(r) ==
    status[r] \in {"COMPLETED", "FAILED", "CANCELLED"} \/ task[r] \in {"lost", "not_found"}

\* "Schedule deletion for 24 hours (allows reversal)" (request_deletion): once a
\* cancellation was accepted, the request's executor erases nothing.
CancellationReverses ==
    [][\A r \in Requests : cancel[r] = "accepted" =>
          ~(task[r] \in {"pii", "ml", "session", "txn"} /\ task'[r] # task[r]
              /\ data'[AccountOf[r]] # data[AccountOf[r]])]_vars
=============================================================================
