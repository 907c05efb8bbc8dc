------------------------------- MODULE GDPRApi -------------------------------
(***************************************************************************)
(* The routes of backend/api/v1/gdpr.py that change state, request_deletion *)
(* and cancel_deletion, around the coroutines of GDPRService: what the     *)
(* client is told, what reaches the audit trail, and when the executor     *)
(* starts.  FastAPI runs a handler's background tasks after its response   *)
(* and drops them when the handler raises.                                 *)
(***************************************************************************)
EXTENDS GDPRService

CONSTANTS
    AuditSigns,   \* FALSE: AuditSigner.sign as shipped cannot serialise the datetime
                  \* that request_deletion puts into the details of its entry
    AuditFails    \* TRUE: _persist_audit_entry may raise

ASSUME AuditAssumption == AuditSigns \in BOOLEAN /\ AuditFails \in BOOLEAN

VARIABLES
    http,         \* http[r]: where request_deletion stands, or the status it returned
    cancelHttp,   \* cancelHttp[r]: the same for the cancel_deletion route
    audit         \* audit[r]: the actions persisted in the audit trail about r

apiOnly == <<http, cancelHttp, audit>>
apiVars == <<vars, apiOnly>>

HttpStates == {"idle", "scheduling", "auditing", "202", "400", "409", "500", "lost"}
CancelHttpStates == {"idle", "cancelling", "auditing", "204", "404", "500"}
AuditActions == {"gdpr.deletion_requested", "gdpr.deletion_cancelled"}

ApiTypeOK ==
    /\ TypeOK
    /\ http \in [Requests -> HttpStates]
    /\ cancelHttp \in [Requests -> CancelHttpStates]
    /\ audit \in [Requests -> SUBSET AuditActions]

ApiInit ==
    /\ Init
    /\ http = [r \in Requests |-> "idle"]
    /\ cancelHttp = [r \in Requests |-> "idle"]
    /\ audit = [r \in Requests |-> {}]

-----------------------------------------------------------------------------
(* POST /gdpr/delete/{account_id} *)

\* confirm_deletion is false: nothing is scheduled.
ConfirmationMissing(r) ==
    /\ http[r] = "idle"
    /\ http' = [http EXCEPT ![r] = "400"]
    /\ UNCHANGED <<vars, cancelHttp, audit>>

RequestDeletion(r) ==
    /\ http[r] = "idle"
    /\ Submit(r)
    /\ http' = [http EXCEPT ![r] = "scheduling"]
    /\ UNCHANGED <<cancelHttp, audit>>

Scheduling(r) ==
    /\ http[r] = "scheduling"
    /\ Validate(r)
    /\ UNCHANGED apiOnly

Conflict(r) ==
    /\ http[r] = "scheduling"
    /\ call[r] \in {"legal_hold", "retention_active"}
    /\ http' = [http EXCEPT ![r] = "409"]
    /\ UNCHANGED <<vars, cancelHttp, audit>>

\* The executor is queued behind the response; the audit entry is awaited first.
AddTask(r) ==
    /\ http[r] = "scheduling"
    /\ call[r] = "scheduled"
    /\ http' = [http EXCEPT ![r] = "auditing"]
    /\ UNCHANGED <<vars, cancelHttp, audit>>

\* AuditService.log signs and persists the entry, or raises while doing so.
AuditRequested(r) ==
    /\ http[r] = "auditing"
    /\ \/ /\ AuditSigns
          /\ audit' = [audit EXCEPT ![r] = @ \cup {"gdpr.deletion_requested"}]
          /\ http' = [http EXCEPT ![r] = "202"]
       \/ /\ ~AuditSigns \/ AuditFails
          /\ http' = [http EXCEPT ![r] = "500"]
          /\ UNCHANGED audit
    /\ UNCHANGED <<vars, cancelHttp>>

\* The worker dies while the client waits.
HandlerLost(r) ==
    /\ http[r] \in {"scheduling", "auditing"}
    /\ http' = [http EXCEPT ![r] = "lost"]
    /\ UNCHANGED <<vars, cancelHttp, audit>>

\* Mutant: the executor is started by asyncio.create_task instead of queued.
BackgroundAtOnce(r) ==
    /\ http[r] \in {"auditing", "202", "500"}
    /\ Execute(r) \/ LoseTask(r)
    /\ UNCHANGED apiOnly

BackgroundTask(r) ==
    /\ http[r] = "202"
    /\ Execute(r) \/ LoseTask(r)
    /\ UNCHANGED apiOnly

-----------------------------------------------------------------------------
(* DELETE /gdpr/cancel/{request_id} *)

\* The route may be called again after any answer; one call for a request is open at a time.
CancelRoute(r) ==
    /\ cancelHttp[r] \notin {"cancelling", "auditing"}
    /\ CancelCheck(r)
    /\ cancelHttp' = [cancelHttp EXCEPT ![r] =
                        IF cancel'[r] = "writing" THEN "cancelling" ELSE "404"]
    /\ UNCHANGED <<http, audit>>

CancelCommitted(r) ==
    /\ CancelWrite(r)
    /\ cancelHttp' = [cancelHttp EXCEPT ![r] = "auditing"]
    /\ UNCHANGED <<http, audit>>

CancelRaised(r) ==
    /\ CancelLost(r)
    /\ cancelHttp' = [cancelHttp EXCEPT ![r] = "500"]
    /\ UNCHANGED <<http, audit>>

\* The entry of this route has no details and can always be signed.
AuditCancelled(r) ==
    /\ cancelHttp[r] = "auditing"
    /\ \/ /\ audit' = [audit EXCEPT ![r] = @ \cup {"gdpr.deletion_cancelled"}]
          /\ cancelHttp' = [cancelHttp EXCEPT ![r] = "204"]
       \/ /\ AuditFails
          /\ cancelHttp' = [cancelHttp EXCEPT ![r] = "500"]
          /\ UNCHANGED audit
    /\ UNCHANGED <<vars, http>>

-----------------------------------------------------------------------------
ApiNext ==
    \/ \E r \in Requests :
          \/ ConfirmationMissing(r) \/ RequestDeletion(r) \/ Scheduling(r)
          \/ Conflict(r) \/ AddTask(r) \/ AuditRequested(r) \/ HandlerLost(r)
          \/ BackgroundTask(r)
          \/ CancelRoute(r) \/ CancelCommitted(r) \/ CancelRaised(r) \/ AuditCancelled(r)
    \/ /\ Tick \/ \E a \in Accounts : ChangeHold(a)
       /\ UNCHANGED apiOnly

ApiSpec == ApiInit /\ [][ApiNext]_apiVars

\* The event loop runs every ready coroutine and time passes.  Nobody is obliged
\* to submit, cancel, hold, fail or crash.
ApiFairness ==
    /\ WF_apiVars(Tick /\ UNCHANGED apiOnly)
    /\ \A r \in Requests :
          /\ WF_apiVars(Scheduling(r) \/ Conflict(r) \/ AddTask(r) \/ AuditRequested(r))
          /\ WF_apiVars(BackgroundTask(r))

ApiFairSpec == ApiSpec /\ ApiFairness

-----------------------------------------------------------------------------
(* Properties *)

\* "Mandatory audit log for GDPR deletion requests" (request_deletion): whatever
\* order handlers, executors and crashes take, an account loses data only after some
\* request for it is in the audit trail.
ErasureIsAudited ==
    \A a \in Accounts : Touched(a) =>
        \E r \in Requests : AccountOf[r] = a /\ "gdpr.deletion_requested" \in audit[r]

\* A client that was told 500, or never got an answer, is not surprised later: no
\* executor ever runs for that request, and its row never reaches an outcome of one.
UnansweredErasesNothing ==
    \A r \in Requests : http[r] \in {"500", "lost", "409", "400"} =>
        task[r] = "none" /\ status[r] \notin {"COMPLETED", "FAILED"}

\* What the routes promise around the service: types, no erasure before its request is in the
\* audit trail, and none for a request that was not accepted.
ApiInvariant == ApiTypeOK /\ ErasureIsAudited /\ UnansweredErasesNothing

\* A 202 is followed by an outcome, unless the worker that answered it dies.
AcceptedSettles == \A r \in Requests : http[r] = "202" ~> SettledOrLost(r)
=============================================================================
