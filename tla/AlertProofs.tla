------------------------------ MODULE AlertProofs ------------------------------
(***************************************************************************)
(* Proofs about TokenRevocation and about the routes of AlertApi behind    *)
(* it: RevokedIsRefused for every lifetime, provided that the blacklist    *)
(* key outlives the token by more than the longest wait for Redis and that *)
(* Redis keeps it; and what a revoked token may change, and what the audit *)
(* trail says of it, for any number of requests.                           *)
(***************************************************************************)
EXTENDS AlertApi, TLAPS

\* A confirmed key that Redis keeps lasts until the token is TTL old.
KeyLasts == Confirmed /\ ~lost => key + age >= TTL

\* A request that is still waiting decoded the token when it was valid.
CheckingDecoded == \A r \in Requests : req[r] = "checking" => age <= Lifetime + waited[r]

LateKnowsWhy == \A r \in Requests : late[r] => Confirmed

IInv ==
    /\ TypeOK
    /\ KeyLasts
    /\ CheckingDecoded
    /\ LateKnowsWhy
    /\ RevokedIsRefused

LEMMA InitTypes == Init => TypeOK
<1> SUFFICES ASSUME Init PROVE TypeOK
  OBVIOUS
<1>1. age \in Nat /\ key \in 0 .. TTL /\ waited \in [Calls -> 0 .. MaxAwait]
  BY TokenAssumption DEF TokenAssumption, Init
<1>2. req \in [Requests -> ReqStates] /\ out \in [Logouts -> OutStates]
  BY DEF Init, ReqStates, OutStates
<1>3. late \in [Requests -> BOOLEAN] /\ lost \in BOOLEAN
  BY Zenon DEF Init
<1> QED BY <1>1, <1>2, <1>3 DEF TypeOK

LEMMA StepTypes ==
    ASSUME TypeOK, [Next]_vars
    PROVE  TypeOK'
<1> USE TokenAssumption DEF TokenAssumption, TypeOK, Calls
<1>1. ASSUME NEW l \in Logouts, Logout(l) PROVE TypeOK'
  <2>1. CASE LogoutDecode(l)
    BY <2>1 DEF LogoutDecode, OutStates
  <2>2. CASE Setex(l)
    BY <2>2 DEF Setex, OutStates
  <2>3. CASE SetexRaises(l)
    BY <2>3 DEF SetexRaises, OutStates
  <2> QED BY <1>1, <2>1, <2>2, <2>3 DEF Logout
<1>2. ASSUME NEW r \in Requests, GetCurrentUser(r) PROVE TypeOK'
  <2>1. CASE RequestDecode(r)
    <3>1. Confirmed \in BOOLEAN
      BY DEF Confirmed
    <3>2. late' \in [Requests -> BOOLEAN]
      BY <2>1, <3>1, Zenon DEF RequestDecode
    <3> QED BY <2>1, <3>2 DEF RequestDecode, ReqStates
  <2>2. CASE Exists(r) \/ ExistsRaises(r)
    BY <2>2 DEF Exists, ExistsRaises, ReqStates
  <2>3. CASE NextRequest(r)
    BY <2>3 DEF NextRequest, ReqStates
  <2> QED BY <1>2, <2>1, <2>2, <2>3 DEF GetCurrentUser
<1>3. CASE Tick
  BY <1>3 DEF Tick
<1>4. CASE Evict
  <2>1. lost' \in BOOLEAN
    BY <1>4, Zenon DEF Evict
  <2>2. key' \in 0 .. TTL /\ UNCHANGED <<age, req, out, waited, late>>
    BY <1>4 DEF Evict
  <2> QED BY <2>1, <2>2
<1>5. CASE UNCHANGED vars
  BY <1>5 DEF vars
<1> QED BY <1>1, <1>2, <1>3, <1>4, <1>5 DEF Next

\* Every variable keeps its type.
THEOREM TokenTypeCorrect == Spec => []TypeOK
<1>1. TypeOK /\ [Next]_vars => TypeOK'
  BY StepTypes
<1> QED BY <1>1, InitTypes, PTL DEF Spec

-----------------------------------------------------------------------------

\* A confirmation is never taken back.
LEMMA ConfirmedStays ==
    ASSUME TypeOK, Confirmed, [Next]_vars
    PROVE  Confirmed'
<1>1. PICK l \in Logouts : out[l] = "confirmed"
  BY DEF Confirmed
<1>2. ASSUME NEW k \in Logouts, Logout(k) PROVE out'[l] = "confirmed"
  <2>1. k # l
    BY <1>1, <1>2 DEF Logout, LogoutDecode, Setex, SetexRaises
  <2> QED BY <1>1, <1>2, <2>1 DEF TypeOK, Logout, LogoutDecode, Setex, SetexRaises
<1>3. ASSUME NEW r \in Requests, GetCurrentUser(r) PROVE out'[l] = "confirmed"
  BY <1>1, <1>3 DEF GetCurrentUser, RequestDecode, Exists, ExistsRaises, NextRequest
<1>4. ASSUME Tick \/ Evict \/ UNCHANGED vars PROVE out'[l] = "confirmed"
  BY <1>1, <1>4 DEF Tick, Evict, vars
<1>5. out'[l] = "confirmed"
  BY <1>2, <1>3, <1>4 DEF Next
<1> QED BY <1>5 DEF Confirmed

LEMMA KeyStep ==
    ASSUME TypeOK, KeyLasts, [Next]_vars
    PROVE  KeyLasts'
<1> USE TokenAssumption DEF TokenAssumption, TypeOK, KeyLasts
<1>1. ASSUME NEW l \in Logouts, LogoutDecode(l) PROVE KeyLasts'
  <2>1. Confirmed' => Confirmed
    BY <1>1 DEF LogoutDecode, Confirmed
  <2> QED BY <1>1, <2>1 DEF LogoutDecode
<1>2. ASSUME NEW l \in Logouts, Setex(l) PROVE KeyLasts'
  BY <1>2 DEF Setex
<1>3. ASSUME NEW l \in Logouts, SetexRaises(l) PROVE KeyLasts'
  <2>1. Confirmed' => Confirmed
    BY <1>3 DEF SetexRaises, Confirmed
  <2>2. age' = age /\ lost' = lost /\ (key' = key \/ key' = TTL)
    BY <1>3 DEF SetexRaises
  <2> QED BY <2>1, <2>2
<1>4. ASSUME NEW r \in Requests, GetCurrentUser(r) PROVE KeyLasts'
  BY <1>4 DEF GetCurrentUser, RequestDecode, Exists, ExistsRaises, NextRequest, Confirmed
<1>5. CASE Tick \/ Evict
  BY <1>5 DEF Tick, Evict, Confirmed
<1>6. CASE UNCHANGED vars
  BY <1>6 DEF vars, Confirmed
<1> QED BY <1>1, <1>2, <1>3, <1>4, <1>5, <1>6 DEF Next, Logout

LEMMA CheckingStep ==
    ASSUME TypeOK, CheckingDecoded, [Next]_vars
    PROVE  CheckingDecoded'
<1> USE TokenAssumption DEF TokenAssumption, TypeOK, Calls, CheckingDecoded
<1>1. ASSUME NEW l \in Logouts, Setex(l) \/ SetexRaises(l) PROVE CheckingDecoded'
  BY <1>1 DEF Setex, SetexRaises
<1>2. ASSUME NEW l \in Logouts, LogoutDecode(l) PROVE CheckingDecoded'
  BY <1>2 DEF LogoutDecode, Decodes
<1>3. ASSUME NEW r \in Requests, RequestDecode(r) PROVE CheckingDecoded'
  BY <1>3 DEF RequestDecode, Decodes
<1>4. ASSUME NEW r \in Requests, Exists(r) \/ ExistsRaises(r) \/ NextRequest(r) PROVE CheckingDecoded'
  BY <1>4 DEF Exists, ExistsRaises, NextRequest
<1>5. CASE Tick
  <2>1. ASSUME NEW r \in Requests, req'[r] = "checking" PROVE age' <= Lifetime + waited'[r]
    BY <1>5, <2>1 DEF Tick, Waiting
  <2> QED BY <2>1
<1>6. CASE Evict \/ UNCHANGED vars
  BY <1>6 DEF Evict, vars
<1> QED BY <1>1, <1>2, <1>3, <1>4, <1>5, <1>6 DEF Next, Logout, GetCurrentUser

LEMMA LateStep ==
    ASSUME TypeOK, LateKnowsWhy, [Next]_vars
    PROVE  LateKnowsWhy'
<1> SUFFICES ASSUME NEW r \in Requests, late'[r] PROVE Confirmed'
  BY DEF LateKnowsWhy
<1>1. late[r] \/ Confirmed
  BY DEF TypeOK, Next, Logout, LogoutDecode, Setex, SetexRaises, GetCurrentUser, RequestDecode,
         Exists, ExistsRaises, NextRequest, Tick, Evict, vars
<1>2. Confirmed
  BY <1>1 DEF LateKnowsWhy
<1> QED BY <1>2, ConfirmedStays

LEMMA RefusedStep ==
    ASSUME IInv, [Next]_vars, TTL > Lifetime + MaxAwait
    PROVE  RevokedIsRefused'
<1> USE TokenAssumption DEF TokenAssumption, IInv, TypeOK, Calls, RevokedIsRefused
<1>1. ASSUME NEW l \in Logouts, Logout(l) PROVE RevokedIsRefused'
  BY <1>1 DEF Logout, LogoutDecode, Setex, SetexRaises
<1>2. ASSUME NEW r \in Requests, Exists(r) PROVE RevokedIsRefused'
  <2>1. ~lost /\ late[r] => key > 0
    <3>1. age <= Lifetime + MaxAwait
      BY <1>2 DEF Exists, CheckingDecoded
    <3>2. ~lost /\ late[r] => key + age >= TTL
      BY DEF LateKnowsWhy, KeyLasts
    <3> QED BY <3>1, <3>2
  <2> QED BY <1>2, <2>1 DEF Exists
<1>3. ASSUME NEW r \in Requests, RequestDecode(r) PROVE RevokedIsRefused'
  BY <1>3 DEF RequestDecode
<1>4. ASSUME NEW r \in Requests, ExistsRaises(r) \/ NextRequest(r) PROVE RevokedIsRefused'
  BY <1>4 DEF ExistsRaises, NextRequest
<1>5. CASE Tick \/ Evict \/ UNCHANGED vars
  BY <1>5 DEF Tick, Evict, vars
<1> QED BY <1>1, <1>2, <1>3, <1>4, <1>5 DEF Next, GetCurrentUser

\* If the key outlives the token by more than the longest wait for Redis, and Redis keeps it
\* until then, no request that arrives after a confirmed logout passes, however many requests and logouts
\* overlap and whichever Redis commands raise.
THEOREM RevocationHolds ==
    ASSUME TTL > Lifetime + MaxAwait
    PROVE  Spec => []RevokedIsRefused
<1>1. Init => IInv
  <2>1. Init => TypeOK
    BY InitTypes
  <2>2. Init => KeyLasts /\ CheckingDecoded /\ LateKnowsWhy /\ RevokedIsRefused
    BY DEF Init, KeyLasts, CheckingDecoded, LateKnowsWhy, RevokedIsRefused, Confirmed
  <2> QED BY <2>1, <2>2 DEF IInv
<1>2. IInv /\ [Next]_vars => IInv'
  <2> SUFFICES ASSUME IInv, [Next]_vars PROVE IInv'
    OBVIOUS
  <2>1. TypeOK' /\ KeyLasts' /\ CheckingDecoded' /\ LateKnowsWhy'
    BY StepTypes, KeyStep, CheckingStep, LateStep DEF IInv
  <2>2. RevokedIsRefused'
    BY RefusedStep
  <2> QED BY <2>1, <2>2 DEF IInv
<1>3. IInv => RevokedIsRefused
  BY DEF IInv
<1> QED BY <1>1, <1>2, <1>3, PTL DEF Spec

-----------------------------------------------------------------------------
(* The routes *)

\* Whatever a route does is a step of the token check, or leaves it alone.
LEMMA TokenStep == [AlertNext]_allVars => [Next]_vars
<1> SUFFICES ASSUME [AlertNext]_allVars PROVE [Next]_vars
  OBVIOUS
<1>1. ASSUME NEW r \in Requests, Route(r) PROVE [Next]_vars
  <2>1. CASE Ask(r) \/ CheckToken(r) \/ ThenNext(r)
    BY <2>1 DEF Ask, CheckToken, ThenNext, GetCurrentUser, Next
  <2>2. CASE Enter(r) \/ Update(r) \/ RunTask(r) \/ TasksLost(r)
    BY <2>2 DEF Enter, Update, RunTask, TasksLost
  <2> QED BY <1>1, <2>1, <2>2 DEF Route
<1>2. CASE Elsewhere
  BY <1>2 DEF Elsewhere, Next
<1>3. CASE UNCHANGED allVars
  BY <1>3 DEF allVars
<1> QED BY <1>1, <1>2, <1>3 DEF AlertNext

\* The routes use get_current_user and logout as TokenRevocation describes them, so that
\* what is proved of the token check holds behind them.
THEOREM RoutesKeepTokenSpec == AlertSpec => Spec
BY TokenStep, PTL DEF AlertSpec, AlertInit, Spec

\* How far a route is, against the token check: nothing has begun for an idle request, and
\* past its permission check a request has passed the token check.
WorkOK ==
    \A r \in Requests :
        /\ req[r] = "idle" => work[r].at = "none"
        /\ work[r].at \in {"updating", "answered"} => req[r] \in {"accepted", "unchecked"}
        /\ work[r].at = "updating" => work[r].op \in Writes /\ Admitted(work[r].op)

\* The queues that exist, and whose they are.
TasksOK ==
    \A r \in Requests :
        /\ tasks[r] \in {<<>>, <<"audit">>, <<"metric", "audit">>}
        /\ tasks[r] # <<>> => work[r].at = "answered" /\ work[r].op \in done

\* A change without an entry still has its audit task.
Pending ==
    ~mishap => \A op \in done \ trail : \E r \in Requests :
                   tasks[r] # <<>> /\ work[r].op = op

AInv ==
    /\ AlertTypeOK /\ WorkOK /\ TasksOK /\ Pending /\ EntriesAreTrue

LEMMA InitAInv == AlertInit => AInv
<1> SUFFICES ASSUME AlertInit PROVE AInv
  OBVIOUS
<1>1. TypeOK
  BY InitTypes DEF AlertInit
<1>2. <<>> \in Seq({"metric", "audit"}) /\ Idle \in [op: Operations, at: Progress]
  BY DEF Idle, Operations, Reads, Progress
<1> QED
  BY <1>1, <1>2 DEF AlertInit, Idle, AInv, AlertTypeOK, WorkOK, TasksOK, Pending, Statuses,
     EntriesAreTrue

LEMMA StepAInv == AInv /\ [AlertNext]_allVars => AInv'
<1> SUFFICES ASSUME AInv, [AlertNext]_allVars PROVE AInv'
  OBVIOUS
<1> USE DEF AInv
<1>1. TypeOK'
  BY TokenStep, StepTypes DEF AlertTypeOK
<1>2. \A r \in Requests : /\ work[r] \in [op: Operations, at: Progress]
                          /\ work[r].op \in Operations /\ work[r].at \in Progress
  BY DEF AlertTypeOK
<1> DEFINE Q == {<<>>, <<"audit">>, <<"metric", "audit">>}
<1>q. \A q \in Q : q \in Seq({"metric", "audit"})
  <2>1. <<>> \in Seq({"metric", "audit"}) /\ <<"audit">> \in Seq({"metric", "audit"})
        /\ <<"metric", "audit">> \in Seq({"metric", "audit"})
    OBVIOUS
  <2> QED BY <2>1
<1>3. ASSUME NEW r \in Requests, Ask(r) PROVE AInv'
  <2>1. PICK op \in Asked : work' = [work EXCEPT ![r] = [op |-> op, at |-> "asked"]]
    BY <1>3 DEF Ask
  <2>2. /\ req[r] = "idle" /\ req'[r] # "idle"
        /\ \A q \in Requests : q # r => req'[q] = req[q]
        /\ UNCHANGED <<holder, status, tasks, done, trail, mishap>>
    BY <1>3 DEF Ask, RequestDecode, AlertTypeOK, TypeOK
  <2>3. op \in Operations /\ [op |-> op, at |-> "asked"] \in [op: Operations, at: Progress]
    BY AlertAssumption DEF Progress
  <2>4. tasks[r] = <<>>
    BY <2>2 DEF WorkOK, TasksOK
  <2>5. AlertTypeOK'
    BY <1>1, <2>1, <2>2, <2>3 DEF AlertTypeOK
  <2>6. /\ work'[r] = [op |-> op, at |-> "asked"]
        /\ \A q \in Requests : q # r => work'[q] = work[q]
    BY <2>1 DEF AlertTypeOK
  <2>7. WorkOK'
    BY <2>2, <2>6 DEF WorkOK, Admitted
  <2>8. TasksOK' /\ Pending'
    BY <2>2, <2>4, <2>6 DEF TasksOK, Pending
  <2> QED
    BY <2>2, <2>5, <2>7, <2>8 DEF EntriesAreTrue
<1>4. ASSUME NEW r \in Requests, CheckToken(r) PROVE AInv'
  <2>1. /\ req[r] = "checking" /\ req'[r] # "idle" /\ UNCHANGED alertVars
        /\ \A q \in Requests : q # r => req'[q] = req[q]
    BY <1>4 DEF CheckToken, Exists, ExistsRaises, AlertTypeOK, TypeOK
  <2>2. UNCHANGED <<holder, status, work, tasks, done, trail, mishap>>
    BY <2>1 DEF alertVars
  <2>3. WorkOK'
    BY <2>1, <2>2 DEF WorkOK, Admitted
  <2> QED
    BY <1>1, <2>2, <2>3 DEF AlertTypeOK, TasksOK, Pending, EntriesAreTrue
<1>5. ASSUME NEW r \in Requests, Enter(r) PROVE AInv'
  <2>1. /\ work[r].at = "asked" /\ req[r] \in {"accepted", "unchecked"}
        /\ work' = [work EXCEPT ![r].at =
                   IF Admitted(work[r].op) /\ work[r].op \in Writes THEN "updating" ELSE "answered"]
        /\ UNCHANGED <<vars, holder, status, tasks, done, trail, mishap>>
    BY <1>5 DEF Enter
  <2>2. req' = req
    BY <2>1 DEF vars
  <2>3. /\ work'[r].op = work[r].op
        /\ work'[r].at \in {"updating", "answered"}
        /\ work'[r].at = "updating" => Admitted(work[r].op) /\ work[r].op \in Writes
        /\ \A q \in Requests : q # r => work'[q] = work[q]
        /\ work' \in [Requests -> [op: Operations, at: Progress]]
    BY <1>2, <2>1 DEF AlertTypeOK, Progress
  <2>4. AlertTypeOK'
    BY <1>1, <2>1, <2>3 DEF AlertTypeOK
  <2>5. WorkOK'
    BY <2>1, <2>2, <2>3 DEF WorkOK, Admitted
  <2>6. TasksOK' /\ Pending'
    BY <2>1, <2>3 DEF TasksOK, Pending
  <2> QED
    BY <2>1, <2>4, <2>5, <2>6 DEF EntriesAreTrue
<1>6. ASSUME NEW r \in Requests, Update(r) PROVE AInv'
  <2>1. /\ work[r].at = "updating"
        /\ work' = [work EXCEPT ![r].at = "answered"]
        /\ UNCHANGED <<vars, holder, trail, mishap>>
    BY <1>6 DEF Update
  <2>2. req' = req
    BY <2>1 DEF vars
  <2>3. work[r].op \in Writes /\ Admitted(work[r].op) /\ tasks[r] = <<>>
        /\ req[r] \in {"accepted", "unchecked"}
    BY <2>1 DEF WorkOK, TasksOK
  <2>4. /\ work'[r].op = work[r].op /\ work'[r].at = "answered"
        /\ \A q \in Requests : q # r => work'[q] = work[q]
        /\ work' \in [Requests -> [op: Operations, at: Progress]]
    BY <1>2, <2>1 DEF AlertTypeOK, Progress
  <2>5. WorkOK'
    BY <2>1, <2>2, <2>3, <2>4 DEF WorkOK, Admitted
  <2>6. CASE UNCHANGED <<status, tasks, done>>
    <3>1. TasksOK' /\ Pending'
      BY <2>1, <2>4, <2>6 DEF TasksOK, Pending
    <3>2. AlertTypeOK'
      BY <1>1, <2>1, <2>4, <2>6 DEF AlertTypeOK
    <3> QED
      BY <2>1, <2>5, <2>6, <3>1, <3>2 DEF EntriesAreTrue
  <2>7. CASE /\ status' = StatusAfter(work[r].op)
             /\ tasks' = [tasks EXCEPT ![r] = Queued(work[r].op)]
             /\ done' = done \cup {work[r].op}
    <3>1. /\ tasks'[r] \in {<<"audit">>, <<"metric", "audit">>} /\ tasks'[r] # <<>>
          /\ \A q \in Requests : q # r => tasks'[q] = tasks[q]
      BY <2>7 DEF AlertTypeOK, Queued
    <3>2. tasks' \in [Requests -> Seq({"metric", "audit"})]
      BY <1>q, <2>7 DEF AlertTypeOK, Queued
    <3>3. status' \in Statuses
      BY <2>7 DEF AlertTypeOK, StatusAfter, Statuses
    <3>4. AlertTypeOK'
      BY <1>1, <2>1, <2>3, <2>4, <2>7, <3>2, <3>3 DEF AlertTypeOK
    <3>5. TasksOK'
      BY <2>4, <2>7, <3>1 DEF TasksOK
    <3>6. Pending'
      BY <2>1, <2>3, <2>4, <2>7, <3>1 DEF Pending
    <3> QED
      BY <2>1, <2>5, <2>7, <3>4, <3>5, <3>6 DEF EntriesAreTrue
  <2> QED
    BY <1>6, <2>6, <2>7 DEF Update
<1>7. ASSUME NEW r \in Requests, RunTask(r) PROVE AInv'
  <2>1. /\ tasks[r] # <<>> /\ tasks' = [tasks EXCEPT ![r] = Tail(@)]
        /\ trail' = IF Head(tasks[r]) = "audit" THEN trail \cup {work[r].op} ELSE trail
        /\ UNCHANGED <<vars, holder, status, work, done, mishap>>
    BY <1>7 DEF RunTask
  <2>2. req' = req
    BY <2>1 DEF vars
  <2>3. work[r].op \in done /\ tasks[r] \in {<<"audit">>, <<"metric", "audit">>}
    BY <2>1 DEF TasksOK
  <2>4. /\ tasks'[r] = Tail(tasks[r])
        /\ \A q \in Requests : q # r => tasks'[q] = tasks[q]
        /\ DOMAIN tasks' = Requests
    BY <2>1 DEF AlertTypeOK
  <2>5. \/ tasks'[r] = <<>> /\ trail' = trail \cup {work[r].op}
        \/ tasks'[r] = <<"audit">> /\ trail' = trail
    <3>1. CASE tasks[r] = <<"audit">>
      BY <2>1, <2>4, <3>1
    <3>2. CASE tasks[r] = <<"metric", "audit">>
      BY <2>1, <2>4, <3>2
    <3> QED BY <2>3, <3>1, <3>2
  <2>6. AlertTypeOK'
    <3>1. tasks' \in [Requests -> Seq({"metric", "audit"})]
      BY <1>q, <2>1, <2>5 DEF AlertTypeOK
    <3> QED BY <1>1, <2>1, <2>3, <2>5, <3>1 DEF AlertTypeOK
  <2>7. WorkOK'
    BY <2>1, <2>2 DEF WorkOK, Admitted
  <2>8. TasksOK'
    BY <2>1, <2>3, <2>4, <2>5 DEF TasksOK
  <2>9. Pending'
    BY <2>1, <2>4, <2>5 DEF Pending
  <2> QED
    BY <2>1, <2>3, <2>5, <2>6, <2>7, <2>8, <2>9
       DEF EntriesAreTrue
<1>8. ASSUME NEW r \in Requests, TasksLost(r) PROVE AInv'
  <2>1. /\ tasks' = [tasks EXCEPT ![r] = << >>] /\ mishap' = TRUE
        /\ UNCHANGED <<vars, holder, status, work, done, trail>>
    BY <1>8 DEF TasksLost
  <2>2. req' = req
    BY <2>1 DEF vars
  <2>3. tasks' \in [Requests -> Seq({"metric", "audit"})]
    BY <1>q, <2>1 DEF AlertTypeOK
  <2>4. TasksOK' /\ Pending'
    BY <2>1 DEF TasksOK, Pending, AlertTypeOK
  <2>5. WorkOK'
    BY <2>1, <2>2 DEF WorkOK, Admitted
  <2> QED
    BY <1>1, <2>1, <2>3, <2>4, <2>5 DEF AlertTypeOK, EntriesAreTrue
<1>9. ASSUME NEW r \in Requests, ThenNext(r) PROVE AInv'
  <2>1. /\ tasks[r] = <<>> /\ work' = [work EXCEPT ![r] = Idle] /\ req'[r] = "idle"
        /\ \A q \in Requests : q # r => req'[q] = req[q]
        /\ UNCHANGED <<holder, status, tasks, done, trail, mishap>>
    BY <1>9 DEF ThenNext, NextRequest, AlertTypeOK, TypeOK
  <2>2. Idle \in [op: Operations, at: Progress] /\ Idle.at = "none"
    BY DEF Idle, Operations, Reads, Progress
  <2>3. /\ work'[r] = Idle /\ \A q \in Requests : q # r => work'[q] = work[q]
        /\ work' \in [Requests -> [op: Operations, at: Progress]]
    BY <2>1, <2>2 DEF AlertTypeOK
  <2>4. WorkOK'
    BY <2>1, <2>2, <2>3 DEF WorkOK, Admitted
  <2>5. TasksOK' /\ Pending'
    BY <2>1, <2>3 DEF TasksOK, Pending
  <2> QED
    BY <1>1, <2>1, <2>3, <2>4, <2>5 DEF AlertTypeOK, EntriesAreTrue
<1>10. CASE Elsewhere \/ UNCHANGED allVars
  <2>1. UNCHANGED <<req, holder, status, work, tasks, done, trail, mishap>>
    BY <1>10 DEF Elsewhere, alertVars, allVars, vars, Tick, Evict, Logout, LogoutDecode, Setex, SetexRaises
  <2> QED
    BY <1>1, <2>1 DEF AlertTypeOK, WorkOK, Admitted, TasksOK, Pending, EntriesAreTrue
<1> QED
  BY <1>3, <1>4, <1>5, <1>6, <1>7, <1>8, <1>9, <1>10 DEF AlertNext, Route

LEMMA AlertInvariance == AlertSpec => []AInv
BY InitAInv, StepAInv, PTL DEF AlertSpec

\* Behind the alert routes, as behind get_current_user itself: no request that arrives after
\* a confirmed logout passes on the word of a Redis that keeps the key.
THEOREM RevocationHoldsBehindRoutes ==
    ASSUME TTL > Lifetime + MaxAwait
    PROVE  AlertSpec => []RevokedIsRefused
BY RevocationHolds, RoutesKeepTokenSpec, PTL

\* No request that arrives after a confirmed logout gets to change an alert, unless Redis did
\* not answer or has lost the key.
THEOREM LoggedOutStaysOut ==
    ASSUME TTL > Lifetime + MaxAwait
    PROVE  AlertSpec => []AlertInvariant
<1>1. AInv /\ RevokedIsRefused => AlertInvariant
  BY DEF AInv, AlertInvariant, WorkOK, RevokedIsRefused, LoggedOutChangesNothing
<1> QED BY AlertInvariance, RevocationHoldsBehindRoutes, <1>1, PTL

\* The audit trail and the changes agree: no entry without a change, and no change without
\* an entry once the tasks are through, unless a task raised or a worker died.
THEOREM TrailHolds == AlertSpec => []TrailAgrees
<1>1. AInv => TrailAgrees
  BY DEF AInv, Pending, TrailAgrees, ChangesAreAudited, EntriesAreTrue
<1> QED BY AlertInvariance, <1>1, PTL
=============================================================================
