------------------------------- MODULE AlertApi -------------------------------
(***************************************************************************)
(* The alert routes of backend/api/v1/alerts.py behind the token check of  *)
(* TokenRevocation and the permissions of backend/core/rbac.py: one token  *)
(* with the roles of its holder, one alert, and the audit entries that     *)
(* background tasks write after the answer.  AlertService.update_alert and *)
(* assign_alert are stubs: the table behind them is modelled from how the  *)
(* routes use it, as one that finds the alert or does not.                 *)
(***************************************************************************)
EXTENDS TokenRevocation, Sequences

CONSTANTS
    RoleSets,     \* the roles a token may carry, names that no Role has included
    Asked         \* operations that requests ask for, a subset of Operations

Reads == {"list", "history"}
Writes == {"assign", "note", "resolve", "mark_false", "file_sar"}
Operations == Reads \cup Writes

ASSUME AlertAssumption == Asked \subseteq Operations

VARIABLES
    holder,   \* roles in the token
    status,   \* status of the alert
    work,     \* work[r]: the operation of request r and how far the route is with it
    tasks,    \* tasks[r]: background tasks still to run
    done,     \* history: the operations that changed the alert
    trail,    \* the operations with an audit entry
    mishap    \* history: a task has raised or a worker has died

alertVars == <<holder, status, work, tasks, done, trail, mishap>>
allVars == <<vars, alertVars>>

Statuses == {"OPEN", "RESOLVED", "FALSE_POSITIVE", "SAR_FILED"}
Progress == {"none", "asked", "updating", "answered"}
Idle == [op |-> "list", at |-> "none"]

AlertTypeOK ==
    /\ TypeOK
    /\ holder \in RoleSets
    /\ status \in Statuses
    /\ work \in [Requests -> [op: Operations, at: Progress]]
    /\ tasks \in [Requests -> Seq({"metric", "audit"})]
    /\ done \subseteq Writes
    /\ trail \subseteq Writes
    /\ mishap \in BOOLEAN

AlertInit ==
    /\ Init
    /\ holder \in RoleSets
    /\ status = "OPEN"
    /\ work = [r \in Requests |-> Idle]
    /\ tasks = [r \in Requests |-> << >>]
    /\ done = {}
    /\ trail = {}
    /\ mishap = FALSE

-----------------------------------------------------------------------------
(* Roles and permissions *)

Staff == {"compliance_officer", "aml_analyst", "risk_manager", "auditor", "readonly", "system"}

\* ROLE_PERMISSIONS, by the permissions that the alert routes ask for.
Holders ==
    [ALERTS_READ  |-> Staff,
     ALERTS_WRITE |-> {"compliance_officer", "aml_analyst", "system"},
     AUDIT_READ   |-> (Staff \ {"readonly"}) \cup {"data_admin"}]

\* The union over the roles of a user; an unknown role has no permission.
HasPermission(roles, p) == roles \cap Holders[p] # {}

Required(op) ==
    CASE op = "list" -> "ALERTS_READ" [] op = "history" -> "AUDIT_READ" [] OTHER -> "ALERTS_WRITE"

\* require_permission, then the rule that only a compliance officer may file a SAR.
Admitted(op) ==
    /\ HasPermission(holder, Required(op))
    /\ op = "file_sar" => "compliance_officer" \in holder

-----------------------------------------------------------------------------
(* The routes *)

\* A request goes as far as the decoding of its token.
Ask(r) ==
    /\ RequestDecode(r)
    /\ \E op \in Asked : work' = [work EXCEPT ![r] = [op |-> op, at |-> "asked"]]
    /\ UNCHANGED <<holder, status, tasks, done, trail, mishap>>

CheckToken(r) == (Exists(r) \/ ExistsRaises(r)) /\ UNCHANGED alertVars

\* Mutant: the route does not wait for the answer of the token check.
EnterUnchecked(r) ==
    /\ work[r].at = "asked"
    /\ req[r] \in {"checking", "accepted", "unchecked"}
    /\ work' = [work EXCEPT ![r].at =
                   IF Admitted(work[r].op) /\ work[r].op \in Writes THEN "updating" ELSE "answered"]
    /\ UNCHANGED <<vars, holder, status, tasks, done, trail, mishap>>

\* 403, or on to the service; a read is answered and changes nothing.
Enter(r) ==
    /\ work[r].at = "asked"
    /\ req[r] \in {"accepted", "unchecked"}
    /\ work' = [work EXCEPT ![r].at =
                   IF Admitted(work[r].op) /\ work[r].op \in Writes THEN "updating" ELSE "answered"]
    /\ UNCHANGED <<vars, holder, status, tasks, done, trail, mishap>>

StatusAfter(op) ==
    CASE op = "resolve"    -> "RESOLVED"
      [] op = "mark_false" -> "FALSE_POSITIVE"
      [] op = "file_sar"   -> "SAR_FILED"
      [] OTHER             -> status

\* The background tasks, in order: the false positive rate of an update that marks one
\* with a final status, and the audit entry.
Queued(op) == IF op = "mark_false" THEN <<"metric", "audit">> ELSE <<"audit">>

\* Mutant: the audit task is queued before the answer of the service is looked at.
UpdateAuditsFirst(r) ==
    /\ work[r].at = "updating"
    /\ work' = [work EXCEPT ![r].at = "answered"]
    /\ tasks' = [tasks EXCEPT ![r] = Queued(work[r].op)]
    /\ \/ UNCHANGED <<status, done>>
       \/ status' = StatusAfter(work[r].op) /\ done' = done \cup {work[r].op}
    /\ UNCHANGED <<vars, holder, trail, mishap>>

\* update_alert, assign_alert: the service finds the alert and changes it, or answers None,
\* which is a 404.
Update(r) ==
    /\ work[r].at = "updating"
    /\ work' = [work EXCEPT ![r].at = "answered"]
    /\ \/ UNCHANGED <<status, tasks, done>>
       \/ /\ status' = StatusAfter(work[r].op)
          /\ tasks' = [tasks EXCEPT ![r] = Queued(work[r].op)]
          /\ done' = done \cup {work[r].op}
    /\ UNCHANGED <<vars, holder, trail, mishap>>

\* "audit" is AuditService.log.
RunTask(r) ==
    /\ tasks[r] # << >>
    /\ tasks' = [tasks EXCEPT ![r] = Tail(@)]
    /\ trail' = IF Head(tasks[r]) = "audit" THEN trail \cup {work[r].op} ELSE trail
    /\ UNCHANGED <<vars, holder, status, work, done, mishap>>

\* A task that raises ends the tasks after it; a worker that dies loses them all.
TasksLost(r) ==
    /\ tasks[r] # << >>
    /\ tasks' = [tasks EXCEPT ![r] = << >>]
    /\ mishap' = TRUE
    /\ UNCHANGED <<vars, holder, status, work, done, trail>>

Refused(r) == req[r] \in {"expired", "revoked"}

ThenNext(r) ==
    /\ work[r].at = "answered" \/ Refused(r)
    /\ tasks[r] = << >>
    /\ NextRequest(r)
    /\ work' = [work EXCEPT ![r] = Idle]
    /\ UNCHANGED <<holder, status, tasks, done, trail, mishap>>

-----------------------------------------------------------------------------
Route(r) ==
    \/ Ask(r) \/ CheckToken(r) \/ Enter(r) \/ Update(r)
    \/ RunTask(r) \/ TasksLost(r) \/ ThenNext(r)

Elsewhere == (Tick \/ Evict \/ \E l \in Logouts : Logout(l)) /\ UNCHANGED alertVars

AlertNext == (\E r \in Requests : Route(r)) \/ Elsewhere

AlertSpec == AlertInit /\ [][AlertNext]_allVars

-----------------------------------------------------------------------------
(* Properties *)

\* A request that arrives after a confirmed logout changes nothing on the word of Redis, as
\* long as Redis keeps the key: it is past the token check only if Redis did not answer.
LoggedOutChangesNothing ==
    ~lost => \A r \in Requests :
        late[r] /\ work[r].at \in {"updating", "answered"} => req[r] = "unchecked"

AlertInvariant == AlertTypeOK /\ LoggedOutChangesNothing

\* Every change has its entry once the tasks are through, as long as none has raised
\* and no worker has died with tasks to run.
ChangesAreAudited ==
    ~mishap /\ (\A r \in Requests : tasks[r] = << >>) =>
        done \subseteq trail

\* And every entry tells of a change that happened: a refused or failed request leaves none.
EntriesAreTrue == trail \subseteq done

\* The audit trail and the changes agree, task by task.
TrailAgrees == ChangesAreAudited /\ EntriesAreTrue
===============================================================================
