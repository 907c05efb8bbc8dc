------------------------------ MODULE GDPRProofs ------------------------------
(***************************************************************************)
(* Proofs about GDPRService and the routes of GDPRApi around it, for every *)
(* set of requests and accounts, every delay, sleep and retention period,  *)
(* with or without the stub store, and whether or not entries of the audit *)
(* trail can be signed and persisted.                                      *)
(***************************************************************************)
EXTENDS GDPRApi, TLAPS

\* Past the sleep, or far enough into it that MaxSleep has elapsed.
SleptEnough(r, t) == t >= due[r] \/ t + Delay >= due[r] + MaxSleep

\* A request that passed both checks did so after the retention period, and
\* its due time was computed in the past.
CallsInv ==
    \A r \in Requests : call[r] \in {"saving", "scheduled"} =>
        /\ clock >= RetainUntil[AccountOf[r]]
        /\ due[r] <= clock + Delay

\* A row exists exactly for the calls that returned a scheduled request, and
\* only those have an executor.
RowsInv ==
    \A r \in Requests :
        /\ call[r] = "scheduled" <=> status[r] # "NONE"
        /\ task[r] # "none" => call[r] = "scheduled"
        /\ cancel[r] = "writing" => call[r] = "scheduled"

\* A sleeping executor wakes late enough; one past its sleep has slept enough.
SleepInv ==
    \A r \in Requests :
        /\ task[r] = "asleep" => SleptEnough(r, wakeAt[r])
        /\ task[r] \in Erasing => SleptEnough(r, clock)

\* What is gone by the time an executor stands at a step.
ProgressInv ==
    \A r \in Requests :
        /\ task[r] \in {"ml", "session", "txn", "completing"} => "pii" \notin data[AccountOf[r]]
        /\ task[r] \in {"session", "txn", "completing"} => "ml_profile" \notin data[AccountOf[r]]
        /\ task[r] = "completing" => "txn_pii" \notin data[AccountOf[r]]
        /\ status[r] = "COMPLETED" => data[AccountOf[r]] \subseteq RedisParts

\* Data is touched only on behalf of a scheduled request that has slept enough.
TouchedInv ==
    \A a \in Accounts : Touched(a) =>
        \E r \in Requests :
            AccountOf[r] = a /\ call[r] = "scheduled" /\ SleptEnough(r, clock)

\* An outcome in the row was written by the request's executor as its last step.
OutcomeInv ==
    \A r \in Requests :
        /\ status[r] = "COMPLETED" => task[r] = "done"
        /\ status[r] = "FAILED" => task[r] = "failed"

IInv ==
    /\ TypeOK
    /\ CallsInv
    /\ RowsInv
    /\ SleepInv
    /\ ProgressInv
    /\ OutcomeInv
    /\ TouchedInv

-----------------------------------------------------------------------------
(* Type correctness *)

LEMMA ValidateType ==
    ASSUME TypeOK, NEW r \in Requests, Submit(r) \/ Validate(r)
    PROVE  TypeOK'
<1> USE ConstantsAssumption DEF TypeOK, CallStates, StatusValues
<1>1. CASE Submit(r)
  BY <1>1 DEF Submit
<1>2. CASE CheckLegalHold(r)
  BY <1>2 DEF CheckLegalHold
<1>3. CASE RetentionActive(r)
  BY <1>3 DEF RetentionActive
<1>4. CASE BuildRequest(r)
  BY <1>4 DEF BuildRequest
<1>5. CASE SaveDeletionRequest(r)
  BY <1>5 DEF SaveDeletionRequest
<1>6. QED
  BY <1>1, <1>2, <1>3, <1>4, <1>5 DEF Validate

LEMMA ExecuteType ==
    ASSUME TypeOK, NEW r \in Requests, Execute(r) \/ LoseTask(r)
    PROVE  TypeOK'
<1> USE ConstantsAssumption DEF TypeOK, TaskStates, Running
<1>1. CASE ExecuteLookup(r)
  BY <1>1 DEF ExecuteLookup, Lesser
<1>2. CASE Wake(r)
  BY <1>2 DEF Wake
<1>3. ASSUME NEW from, NEW parts, NEW to \in TaskStates, Erase(r, from, parts, to)
      PROVE  TypeOK'
  BY <1>3 DEF Erase
<1>4. CASE StepRaises(r)
  BY <1>4 DEF StepRaises
<1>5. ASSUME NEW from, NEW value \in StatusValues, NEW to \in TaskStates,
             UpdateDeletionStatus(r, from, value, to)
      PROVE  TypeOK'
  BY <1>5 DEF UpdateDeletionStatus
<1>6. CASE LoseTask(r)
  BY <1>6 DEF LoseTask
<1>7. CASE DeletePiiFields(r) \/ DeleteMlProfile(r) \/ DeleteSessionData(r)
             \/ AnonymizeTransactionPii(r)
  BY <1>3, <1>7 DEF DeletePiiFields, DeleteMlProfile, DeleteSessionData,
                    AnonymizeTransactionPii
<1>8. CASE MarkCompleted(r) \/ MarkFailed(r)
  BY <1>5, <1>8 DEF MarkCompleted, MarkFailed, StatusValues
<1>9. QED
  BY <1>1, <1>2, <1>4, <1>6, <1>7, <1>8 DEF Execute

LEMMA CancelType ==
    ASSUME TypeOK, NEW r \in Requests, Cancel(r)
    PROVE  TypeOK'
BY DEF Cancel, CancelCheck, CancelWrite, CancelLost, TypeOK, CancelStates, StatusValues

LEMMA EnvironmentType ==
    ASSUME TypeOK, Tick \/ \E a \in Accounts : ChangeHold(a)
    PROVE  TypeOK'
<1>1. CASE Tick
  BY <1>1 DEF TypeOK, Tick
<1>2. ASSUME NEW a \in Accounts, ChangeHold(a)
      PROVE  TypeOK'
  <2>1. hold' \in [Accounts -> BOOLEAN]
    BY <1>2, Zenon DEF TypeOK, ChangeHold
  <2>2. QED
    BY <1>2, <2>1 DEF TypeOK, ChangeHold
<1>3. QED
  BY <1>1, <1>2

LEMMA TypeStep == TypeOK /\ [Next]_vars => TypeOK'
<1> SUFFICES ASSUME TypeOK, [Next]_vars PROVE TypeOK'
  OBVIOUS
<1>1. CASE UNCHANGED vars
  BY <1>1 DEF TypeOK, vars
<1>2. CASE Next
  BY <1>2, ValidateType, ExecuteType, CancelType, EnvironmentType DEF Next
<1>3. QED
  BY <1>1, <1>2

\* Every variable keeps its type: the service's states are those of the code.
THEOREM TypeCorrect == Spec => []TypeOK
<1>1. Init => TypeOK
  BY ConstantsAssumption DEF Init, TypeOK, Parts, CallStates, StatusValues, TaskStates,
                             CancelStates
<1>2. QED
  BY <1>1, TypeStep, PTL DEF Spec

-----------------------------------------------------------------------------
(* What no step undoes *)

\* Time moves forward, data only goes away, a scheduled request stays scheduled
\* with the due time it has.
LEMMA Frame ==
    ASSUME TypeOK, [Next]_vars
    PROVE  /\ clock' >= clock
           /\ \A a \in Accounts : data'[a] \subseteq data[a]
           /\ \A r \in Requests : call[r] = "scheduled" =>
                                    call'[r] = "scheduled" /\ due'[r] = due[r]
<1> USE DEF TypeOK
<1>1. CASE UNCHANGED vars
  BY <1>1 DEF vars
<1>2. ASSUME NEW r \in Requests, Submit(r) \/ Validate(r)
      PROVE  /\ clock' = clock
             /\ data' = data
             /\ \A q \in Requests : call[q] = "scheduled" =>
                                      call'[q] = "scheduled" /\ due'[q] = due[q]
  BY <1>2 DEF Submit, Validate, CheckLegalHold, RetentionActive, BuildRequest,
              SaveDeletionRequest
<1>3. ASSUME NEW r \in Requests, Execute(r) \/ LoseTask(r)
      PROVE  /\ <<clock, call, due>>' = <<clock, call, due>>
             /\ \A a \in Accounts : data'[a] \subseteq data[a]
  <2>1. ASSUME NEW from, NEW parts, NEW to, Erase(r, from, parts, to)
        PROVE  /\ <<clock, call, due>>' = <<clock, call, due>>
               /\ \A a \in Accounts : data'[a] \subseteq data[a]
    BY <2>1, ConstantsAssumption DEF Erase
  <2>2. CASE ExecuteLookup(r) \/ Wake(r) \/ StepRaises(r) \/ LoseTask(r)
    BY <2>2 DEF ExecuteLookup, Wake, StepRaises, LoseTask
  <2>3. CASE MarkCompleted(r) \/ MarkFailed(r)
    BY <2>3 DEF MarkCompleted, MarkFailed, UpdateDeletionStatus
  <2>4. QED
    BY <1>3, <2>1, <2>2, <2>3 DEF Execute, DeletePiiFields, DeleteMlProfile,
          DeleteSessionData, AnonymizeTransactionPii
<1>4. ASSUME NEW r \in Requests, Cancel(r)
      PROVE  <<clock, call, due, data>>' = <<clock, call, due, data>>
  BY <1>4 DEF Cancel, CancelCheck, CancelWrite, CancelLost
<1>5. CASE Tick
  BY <1>5 DEF Tick
<1>6. ASSUME NEW a \in Accounts, ChangeHold(a)
      PROVE  <<clock, call, due, data>>' = <<clock, call, due, data>>
  BY <1>6 DEF ChangeHold
<1>7. QED
  BY <1>1, <1>2, <1>3, <1>4, <1>5, <1>6 DEF Next

-----------------------------------------------------------------------------
(* The conjuncts of the invariant, one lemma each *)

LEMMA CallsStep == IInv /\ [Next]_vars => CallsInv'
<1> SUFFICES ASSUME IInv, [Next]_vars,
                    NEW q \in Requests, call'[q] \in {"saving", "scheduled"}
             PROVE  clock' >= RetainUntil[AccountOf[q]] /\ due'[q] <= clock' + Delay
  BY DEF CallsInv
<1> USE ConstantsAssumption DEF IInv, TypeOK, CallsInv
<1>1. ASSUME UNCHANGED <<call, due>>
      PROVE  clock' >= RetainUntil[AccountOf[q]] /\ due'[q] <= clock' + Delay
  <2>1. clock' >= clock /\ clock' \in Nat
    BY Frame, TypeStep
  <2>2. QED
    BY <1>1, <2>1
<1>2. ASSUME NEW r \in Requests, Submit(r) \/ Validate(r)
      PROVE  clock' >= RetainUntil[AccountOf[q]] /\ due'[q] <= clock' + Delay
  BY <1>2 DEF Submit, Validate, CheckLegalHold, RetentionActive, BuildRequest,
              SaveDeletionRequest
<1>3. ASSUME NEW r \in Requests, Execute(r) \/ LoseTask(r)
      PROVE  UNCHANGED <<call, due>>
  BY <1>3 DEF Execute, ExecuteLookup, Wake, DeletePiiFields, DeleteMlProfile,
              DeleteSessionData, AnonymizeTransactionPii, Erase, StepRaises,
              MarkCompleted, MarkFailed, UpdateDeletionStatus, LoseTask
<1>4. ASSUME NEW r \in Requests, Cancel(r)
      PROVE  UNCHANGED <<call, due>>
  BY <1>4 DEF Cancel, CancelCheck, CancelWrite, CancelLost
<1>5. CASE UNCHANGED vars \/ Tick \/ \E a \in Accounts : ChangeHold(a)
  BY <1>1, <1>5 DEF vars, Tick, ChangeHold
<1>6. QED
  BY <1>1, <1>2, <1>3, <1>4, <1>5 DEF Next

LEMMA RowsStep == IInv /\ [Next]_vars => RowsInv'
<1> SUFFICES ASSUME IInv, [Next]_vars PROVE RowsInv'
  OBVIOUS
<1> USE DEF IInv, TypeOK, RowsInv
<1>1. CASE UNCHANGED vars \/ Tick \/ \E a \in Accounts : ChangeHold(a)
  BY <1>1 DEF vars, Tick, ChangeHold
<1>2. ASSUME NEW r \in Requests, Submit(r) \/ Validate(r)
      PROVE  RowsInv'
  BY <1>2 DEF Submit, Validate, CheckLegalHold, RetentionActive, BuildRequest,
              SaveDeletionRequest
<1>3. ASSUME NEW r \in Requests, Execute(r) \/ LoseTask(r)
      PROVE  RowsInv'
  <2>1. CASE ExecuteLookup(r) \/ LoseTask(r)
    BY <2>1 DEF ExecuteLookup, LoseTask
  <2>2. CASE Wake(r) \/ StepRaises(r)
    BY <2>2 DEF Wake, StepRaises
  <2>3. CASE DeletePiiFields(r) \/ DeleteMlProfile(r) \/ DeleteSessionData(r)
               \/ AnonymizeTransactionPii(r)
    BY <2>3 DEF DeletePiiFields, DeleteMlProfile, DeleteSessionData,
                AnonymizeTransactionPii, Erase
  <2>4. CASE MarkCompleted(r) \/ MarkFailed(r)
    BY <2>4 DEF MarkCompleted, MarkFailed, UpdateDeletionStatus
  <2>5. QED
    BY <1>3, <2>1, <2>2, <2>3, <2>4 DEF Execute
<1>4. ASSUME NEW r \in Requests, Cancel(r)
      PROVE  RowsInv'
  BY <1>4 DEF Cancel, CancelCheck, CancelWrite, CancelLost
<1>5. QED
  BY <1>1, <1>2, <1>3, <1>4 DEF Next
LEMMA SleepStep == IInv /\ [Next]_vars => SleepInv'
<1> SUFFICES ASSUME IInv, [Next]_vars, NEW q \in Requests
             PROVE  /\ task'[q] = "asleep" => SleptEnough(q, wakeAt[q])'
                    /\ task'[q] \in Erasing => SleptEnough(q, clock)'
  BY DEF SleepInv, Erasing
<1> DEFINE Goal == /\ task'[q] = "asleep" => SleptEnough(q, wakeAt[q])'
                   /\ task'[q] \in Erasing => SleptEnough(q, clock)'
<1> USE ConstantsAssumption DEF IInv, TypeOK, SleepInv, SleptEnough, Erasing
<1>1. clock' >= clock /\ clock' \in Nat
  BY Frame, TypeStep
<1>2. ASSUME UNCHANGED <<due, task, wakeAt>>
      PROVE  Goal
  BY <1>1, <1>2
<1>3. ASSUME NEW r \in Requests, Submit(r) \/ Validate(r)
      PROVE  Goal
  <2>1. CASE BuildRequest(r)
    <3>1. task[r] = "none"
      BY <2>1 DEF BuildRequest, RowsInv
    <3>2. QED
      BY <2>1, <3>1 DEF BuildRequest
  <2>2. CASE ~BuildRequest(r)
    BY <1>2, <1>3, <2>2 DEF Submit, Validate, CheckLegalHold, RetentionActive,
                            SaveDeletionRequest
  <2>3. QED
    BY <2>1, <2>2
<1>4. ASSUME NEW r \in Requests, Execute(r) \/ LoseTask(r)
      PROVE  Goal
  <2>1. CASE ExecuteLookup(r)
    <3>1. due[r] <= clock + Delay
      BY <2>1 DEF ExecuteLookup, CallsInv
    <3>2. QED
      BY <2>1, <3>1 DEF ExecuteLookup, Lesser
  <2>2. CASE Wake(r)
    BY <2>2 DEF Wake
  <2>3. ASSUME NEW to, UNCHANGED <<clock, due, wakeAt>>, task[r] \in Erasing,
               task' = [task EXCEPT ![r] = to], to # "asleep"
        PROVE  Goal
    BY <2>3
  <2>4. CASE DeletePiiFields(r) \/ DeleteMlProfile(r) \/ DeleteSessionData(r)
               \/ AnonymizeTransactionPii(r)
    BY <2>3, <2>4 DEF DeletePiiFields, DeleteMlProfile, DeleteSessionData,
                      AnonymizeTransactionPii, Erase
  <2>5. CASE StepRaises(r) \/ MarkCompleted(r) \/ MarkFailed(r)
    BY <2>3, <2>5 DEF StepRaises, MarkCompleted, MarkFailed, UpdateDeletionStatus
  <2>6. CASE LoseTask(r)
    BY <2>6 DEF LoseTask
  <2>7. QED
    BY <1>4, <2>1, <2>2, <2>4, <2>5, <2>6 DEF Execute
<1>5. ASSUME NEW r \in Requests, Cancel(r)
      PROVE  Goal
  BY <1>2, <1>5 DEF Cancel, CancelCheck, CancelWrite, CancelLost
<1>6. CASE UNCHANGED vars \/ Tick \/ \E a \in Accounts : ChangeHold(a)
  BY <1>2, <1>6 DEF vars, Tick, ChangeHold
<1>7. QED
  BY <1>3, <1>4, <1>5, <1>6 DEF Next

LEMMA ProgressStep == IInv /\ [Next]_vars => ProgressInv'
<1> SUFFICES ASSUME IInv, [Next]_vars PROVE ProgressInv'
  OBVIOUS
<1> USE ConstantsAssumption DEF IInv, TypeOK, ProgressInv
<1>1. \A a \in Accounts : data'[a] \subseteq data[a]
  BY Frame
<1>2. ASSUME UNCHANGED <<status, task>>
      PROVE  ProgressInv'
  BY <1>1, <1>2
<1>3. ASSUME NEW r \in Requests, Submit(r) \/ Validate(r)
      PROVE  ProgressInv'
  <2>1. CASE SaveDeletionRequest(r)
    BY <2>1 DEF SaveDeletionRequest
  <2>2. CASE ~SaveDeletionRequest(r)
    BY <1>2, <1>3, <2>2 DEF Submit, Validate, CheckLegalHold, RetentionActive, BuildRequest
  <2>3. QED
    BY <2>1, <2>2
<1>4. ASSUME NEW r \in Requests, Execute(r) \/ LoseTask(r)
      PROVE  ProgressInv'
  <2>1. CASE ExecuteLookup(r) \/ Wake(r) \/ StepRaises(r) \/ LoseTask(r)
    BY <2>1 DEF ExecuteLookup, Wake, StepRaises, LoseTask
  <2>2. CASE DeletePiiFields(r)
    BY <1>1, <2>2 DEF DeletePiiFields, Erase
  <2>3. CASE DeleteMlProfile(r)
    BY <1>1, <2>3 DEF DeleteMlProfile, Erase
  <2>4. CASE DeleteSessionData(r)
    BY <1>1, <2>4 DEF DeleteSessionData, Erase
  <2>5. CASE AnonymizeTransactionPii(r)
    BY <1>1, <2>5 DEF AnonymizeTransactionPii, Erase
  <2>6. CASE MarkCompleted(r)
    <3>1. data[AccountOf[r]] \subseteq RedisParts
      BY <2>6 DEF MarkCompleted, UpdateDeletionStatus, Parts, RedisParts
    <3>2. QED
      BY <2>6, <3>1 DEF MarkCompleted, UpdateDeletionStatus
  <2>7. CASE MarkFailed(r)
    BY <2>7 DEF MarkFailed, UpdateDeletionStatus
  <2>8. QED
    BY <1>4, <2>1, <2>2, <2>3, <2>4, <2>5, <2>6, <2>7 DEF Execute
<1>5. ASSUME NEW r \in Requests, Cancel(r)
      PROVE  ProgressInv'
  BY <1>5 DEF Cancel, CancelCheck, CancelWrite, CancelLost
<1>6. CASE UNCHANGED vars \/ Tick \/ \E a \in Accounts : ChangeHold(a)
  BY <1>2, <1>6 DEF vars, Tick, ChangeHold
<1>7. QED
  BY <1>3, <1>4, <1>5, <1>6 DEF Next

LEMMA OutcomeStep == IInv /\ [Next]_vars => OutcomeInv'
<1> SUFFICES ASSUME IInv, [Next]_vars PROVE OutcomeInv'
  OBVIOUS
<1> USE DEF IInv, TypeOK, OutcomeInv
<1>1. ASSUME NEW r \in Requests, Submit(r) \/ Validate(r)
      PROVE  OutcomeInv'
  BY <1>1 DEF Submit, Validate, CheckLegalHold, RetentionActive, BuildRequest,
              SaveDeletionRequest
<1>2. ASSUME NEW r \in Requests, Execute(r) \/ LoseTask(r)
      PROVE  OutcomeInv'
  <2>1. CASE ExecuteLookup(r) \/ LoseTask(r)
    BY <2>1 DEF ExecuteLookup, LoseTask, Running
  <2>2. CASE Wake(r) \/ StepRaises(r)
    BY <2>2 DEF Wake, StepRaises
  <2>3. CASE DeletePiiFields(r) \/ DeleteMlProfile(r) \/ DeleteSessionData(r)
               \/ AnonymizeTransactionPii(r)
    BY <2>3 DEF DeletePiiFields, DeleteMlProfile, DeleteSessionData,
                AnonymizeTransactionPii, Erase
  <2>4. CASE MarkCompleted(r) \/ MarkFailed(r)
    BY <2>4 DEF MarkCompleted, MarkFailed, UpdateDeletionStatus
  <2>5. QED
    BY <1>2, <2>1, <2>2, <2>3, <2>4 DEF Execute
<1>3. ASSUME NEW r \in Requests, Cancel(r)
      PROVE  OutcomeInv'
  BY <1>3 DEF Cancel, CancelCheck, CancelWrite, CancelLost
<1>4. CASE UNCHANGED vars \/ Tick \/ \E a \in Accounts : ChangeHold(a)
  BY <1>4 DEF vars, Tick, ChangeHold
<1>5. QED
  BY <1>1, <1>2, <1>3, <1>4 DEF Next

LEMMA TouchedStep == IInv /\ [Next]_vars => TouchedInv'
<1> SUFFICES ASSUME IInv, [Next]_vars, NEW a \in Accounts, Touched(a)'
             PROVE  \E r \in Requests : AccountOf[r] = a /\ call'[r] = "scheduled"
                                          /\ SleptEnough(r, clock)'
  BY DEF TouchedInv
<1> USE ConstantsAssumption DEF IInv, TypeOK, Touched, SleptEnough
<1>1. /\ clock' >= clock /\ clock' \in Nat
      /\ \A r \in Requests : call[r] = "scheduled" =>
                               call'[r] = "scheduled" /\ due'[r] = due[r]
  BY Frame, TypeStep
<1>2. CASE Touched(a)
  <2>1. PICK r \in Requests : /\ AccountOf[r] = a /\ call[r] = "scheduled"
                              /\ SleptEnough(r, clock)
    BY <1>2 DEF TouchedInv
  <2>2. QED
    BY <1>1, <2>1
<1>3. CASE ~Touched(a)
  <2>1. data'[a] # data[a]
    BY <1>3
  <2>2. PICK r \in Requests, from \in Erasing : \E parts, to : Erase(r, from, parts, to)
    <3>1. data' # data
      BY <2>1
    <3>2. ASSUME NEW r \in Requests, Submit(r) \/ Validate(r) \/ LoseTask(r) \/ Cancel(r)
          PROVE  FALSE
      BY <3>1, <3>2 DEF Submit, Validate, CheckLegalHold, RetentionActive, BuildRequest,
            SaveDeletionRequest, LoseTask, Cancel, CancelCheck, CancelWrite, CancelLost
    <3>3. ~(UNCHANGED vars \/ Tick \/ \E b \in Accounts : ChangeHold(b))
      BY <3>1 DEF vars, Tick, ChangeHold
    <3>4. PICK r \in Requests : Execute(r)
      BY <3>2, <3>3 DEF Next
    <3>5. DeletePiiFields(r) \/ DeleteMlProfile(r) \/ DeleteSessionData(r)
            \/ AnonymizeTransactionPii(r)
      BY <3>1, <3>4 DEF Execute, ExecuteLookup, Wake, StepRaises, MarkCompleted,
                        MarkFailed, UpdateDeletionStatus
    <3>6. QED
      BY <3>5 DEF DeletePiiFields, DeleteMlProfile, DeleteSessionData,
                  AnonymizeTransactionPii, Erasing
  <2>3. AccountOf[r] = a
    BY <2>1, <2>2 DEF Erase
  <2>4. call[r] = "scheduled" /\ SleptEnough(r, clock)
    BY <2>2 DEF Erase, RowsInv, SleepInv, Erasing
  <2>5. QED
    BY <1>1, <2>3, <2>4
<1>4. QED
  BY <1>2, <1>3

LEMMA IInvInit == Init => IInv
<1> SUFFICES ASSUME Init PROVE IInv
  OBVIOUS
<1>1. TypeOK
  BY ConstantsAssumption DEF Init, TypeOK, Parts, CallStates, StatusValues, TaskStates,
                             CancelStates
<1>2. CallsInv /\ RowsInv /\ SleepInv /\ ProgressInv /\ OutcomeInv
  BY DEF Init, CallsInv, RowsInv, SleepInv, ProgressInv, OutcomeInv, Erasing
<1>3. TouchedInv
  BY DEF Init, TouchedInv, Touched
<1>4. QED
  BY <1>1, <1>2, <1>3 DEF IInv

LEMMA IInvStep == IInv /\ [Next]_vars => IInv'
BY TypeStep, CallsStep, RowsStep, SleepStep, ProgressStep, OutcomeStep, TouchedStep
   DEF IInv

\* The strengthened invariant every safety theorem below rests on.
THEOREM InductiveInvariant == Spec => []IInv
BY IInvInit, IInvStep, PTL DEF Spec
-----------------------------------------------------------------------------
(* The properties *)

\* No account loses data before its retention period is over, whenever its requests were
\* checked and however long their executors slept.
THEOREM RetentionIsHonoured == Spec => []RetentionHonoured
<1>1. IInv => RetentionHonoured
  BY ConstantsAssumption DEF IInv, TypeOK, TouchedInv, CallsInv, RetentionHonoured
<1>2. QED
  BY <1>1, InductiveInvariant, PTL

\* What the cap leaves of the cooling-off period: no executor touches data before it has
\* slept as long as its due time and the cap demand, for every delay and cap.
THEOREM ExecutorsSleepFirst == Spec => []SleptFirst
<1>1. IInv => SleptFirst
  BY DEF IInv, SleepInv, SleptEnough, SleptFirst
<1>2. QED
  BY <1>1, InductiveInvariant, PTL

\* COMPLETED is never written, or left standing, over data that is still there.
THEOREM CompletedIsErased == Spec => []CompletedMeansErased
<1>1. IInv => CompletedMeansErased
  BY DEF IInv, ProgressInv, CompletedMeansErased
<1>2. QED
  BY <1>1, InductiveInvariant, PTL

\* The cooling-off period is honoured whenever the cap on the sleep is not shorter
\* than the delay; the shipped values (1 hour, 24 hours) do not meet the hypothesis.
THEOREM CoolingOffNeedsFullSleep ==
    ASSUME MaxSleep >= Delay
    PROVE  Spec => []CoolingOff
<1>1. IInv => CoolingOff
  BY ConstantsAssumption DEF IInv, TypeOK, TouchedInv, RowsInv, SleptEnough, CoolingOff
<1>2. QED
  BY <1>1, InductiveInvariant, PTL

\* An account held throughout loses nothing, whoever asks and however often.
THEOREM HeldAccountsAreKept == Spec => HeldAccountKept
<1> SUFFICES ASSUME NEW a \in Accounts
             PROVE  Spec => ([](hold[a]) => [](~Touched(a)))
  BY DEF HeldAccountKept
<1> DEFINE Held == hold[a]
           Uncleared == \A r \in Requests : AccountOf[r] = a =>
                          call[r] \in {"idle", "checking_hold", "legal_hold"}
<1>1. Init => Uncleared
  BY DEF Init
<1>2. IInv /\ Uncleared /\ Held /\ [Next]_vars => Uncleared'
  <2> SUFFICES ASSUME IInv, Uncleared, Held, [Next]_vars PROVE Uncleared'
    OBVIOUS
  <2> USE DEF IInv, TypeOK
  <2>1. ASSUME UNCHANGED call PROVE Uncleared'
    BY <2>1
  <2>2. ASSUME NEW r \in Requests, Submit(r) \/ Validate(r)
        PROVE  Uncleared'
    <3>1. CASE Submit(r) \/ CheckLegalHold(r)
      BY <3>1 DEF Submit, CheckLegalHold
    <3>2. CASE RetentionActive(r) \/ BuildRequest(r) \/ SaveDeletionRequest(r)
      BY <3>2 DEF RetentionActive, BuildRequest, SaveDeletionRequest
    <3>3. QED
      BY <2>2, <3>1, <3>2 DEF Validate
  <2>3. ASSUME NEW r \in Requests, Execute(r) \/ LoseTask(r) \/ Cancel(r)
        PROVE  UNCHANGED call
    BY <2>3 DEF Execute, ExecuteLookup, Wake, DeletePiiFields, DeleteMlProfile,
                DeleteSessionData, AnonymizeTransactionPii, Erase, StepRaises,
                MarkCompleted, MarkFailed, UpdateDeletionStatus, LoseTask,
                Cancel, CancelCheck, CancelWrite, CancelLost
  <2>4. CASE UNCHANGED vars \/ Tick \/ \E b \in Accounts : ChangeHold(b)
    BY <2>1, <2>4 DEF vars, Tick, ChangeHold
  <2>5. QED
    BY <2>1, <2>2, <2>3, <2>4 DEF Next
<1>3. IInv /\ Uncleared => ~Touched(a)
  BY DEF IInv, TouchedInv
<1> HIDE DEF Held, Uncleared
<1>4. Spec => ([]Held => [](~Touched(a)))
  BY <1>1, <1>2, <1>3, InductiveInvariant, PTL DEF Spec
<1>5. QED
  BY <1>4 DEF Held

-----------------------------------------------------------------------------
(* Refinement *)

LEMMA PromiseStep == IInv /\ [Next]_vars => [Promise!Next]_(Promise!promiseVars)
<1> SUFFICES ASSUME IInv, [Next]_vars
             PROVE  Promise!Next \/ UNCHANGED <<hold, ClearedAccounts, data>>
  BY DEF Promise!promiseVars
<1> USE ConstantsAssumption DEF IInv, TypeOK
<1>1. ASSUME UNCHANGED call PROVE UNCHANGED ClearedAccounts
  BY <1>1 DEF ClearedAccounts
<1>2. ASSUME NEW r \in Requests, Submit(r) \/ Validate(r)
      PROVE  Promise!Next \/ UNCHANGED <<hold, ClearedAccounts, data>>
  <2>1. CASE Submit(r)
    BY <2>1 DEF Submit, ClearedAccounts
  <2>2. CASE CheckLegalHold(r) /\ hold[AccountOf[r]]
    BY <2>2 DEF CheckLegalHold, ClearedAccounts
  <2>3. CASE CheckLegalHold(r) /\ ~hold[AccountOf[r]]
    <3>1. ClearedAccounts' = ClearedAccounts \cup {AccountOf[r]}
      BY <2>3 DEF CheckLegalHold, ClearedAccounts
    <3>2. Promise!Clear(AccountOf[r])
      BY <2>3, <3>1 DEF CheckLegalHold, Promise!Clear
    <3>3. QED
      BY <3>2 DEF Promise!Next
  <2>4. CASE RetentionActive(r) \/ BuildRequest(r) \/ SaveDeletionRequest(r)
    BY <2>4 DEF RetentionActive, BuildRequest, SaveDeletionRequest, ClearedAccounts
  <2>5. QED
    BY <1>2, <2>1, <2>2, <2>3, <2>4 DEF Validate
<1>3. ASSUME NEW r \in Requests, Execute(r) \/ LoseTask(r)
      PROVE  Promise!Next \/ UNCHANGED <<hold, ClearedAccounts, data>>
  <2>1. ASSUME NEW from \in Erasing, NEW parts \in SUBSET Parts, NEW to,
               Erase(r, from, parts, to),
               \A p \in parts : Promise!GoneBefore(p) \cap data[AccountOf[r]] = {}
        PROVE  Promise!EraseSome(AccountOf[r])
    <3>1. AccountOf[r] \in ClearedAccounts
      BY <2>1 DEF Erase, Erasing, RowsInv, ClearedAccounts
    <3>2. UNCHANGED <<hold, ClearedAccounts>>
      BY <1>1, <2>1 DEF Erase
    <3>3. DEFINE gone == parts \cap data[AccountOf[r]]
    <3>4. /\ gone \in SUBSET data[AccountOf[r]]
          /\ \A p \in gone : Promise!GoneBefore(p) \cap data[AccountOf[r]] = {}
          /\ data' = [data EXCEPT ![AccountOf[r]] = @ \ gone]
      BY <2>1 DEF Erase
    <3>5. QED
      BY <3>1, <3>2, <3>4 DEF Promise!EraseSome
  <2>2. CASE DeletePiiFields(r)
    BY <2>1, <2>2 DEF DeletePiiFields, Erasing, Parts, Promise!GoneBefore, Promise!Next
  <2>3. CASE DeleteMlProfile(r)
    <3>1. task[r] = "ml" /\ Erase(r, "ml", {"ml_profile"}, "session")
      BY <2>3 DEF DeleteMlProfile, Erase
    <3>2. \A p \in {"ml_profile"} : Promise!GoneBefore(p) \cap data[AccountOf[r]] = {}
      BY <3>1 DEF ProgressInv, Promise!GoneBefore
    <3>3. Promise!EraseSome(AccountOf[r])
      BY <2>1, <3>1, <3>2 DEF Erasing, Parts
    <3>4. QED
      BY <3>3 DEF Promise!Next
  <2>4. CASE DeleteSessionData(r)
    <3>1. PICK gone \in {{}, {"history"}, RedisParts} : Erase(r, "session", gone, "txn")
      BY <2>4 DEF DeleteSessionData
    <3>2. gone \subseteq RedisParts /\ gone \in SUBSET Parts
      BY <3>1 DEF RedisParts, Parts
    <3>3. \A p \in gone : Promise!GoneBefore(p) \cap data[AccountOf[r]] = {}
      BY <3>1, <3>2 DEF Erase, ProgressInv, RedisParts, Promise!GoneBefore
    <3>4. Promise!EraseSome(AccountOf[r])
      BY <2>1, <3>1, <3>2, <3>3 DEF Erasing
    <3>5. QED
      BY <3>4 DEF Promise!Next
  <2>5. CASE AnonymizeTransactionPii(r)
    <3>1. task[r] = "txn" /\ Erase(r, "txn", {"txn_pii"}, "completing")
      BY <2>5 DEF AnonymizeTransactionPii, Erase
    <3>2. \A p \in {"txn_pii"} : Promise!GoneBefore(p) \cap data[AccountOf[r]] = {}
      BY <3>1 DEF ProgressInv, Promise!GoneBefore
    <3>3. Promise!EraseSome(AccountOf[r])
      BY <2>1, <3>1, <3>2 DEF Erasing, Parts
    <3>4. QED
      BY <3>3 DEF Promise!Next
  <2>6. CASE ExecuteLookup(r) \/ Wake(r) \/ StepRaises(r) \/ LoseTask(r)
    BY <1>1, <2>6 DEF ExecuteLookup, Wake, StepRaises, LoseTask
  <2>7. CASE MarkCompleted(r) \/ MarkFailed(r)
    BY <1>1, <2>7 DEF MarkCompleted, MarkFailed, UpdateDeletionStatus
  <2>8. QED
    BY <1>3, <2>2, <2>3, <2>4, <2>5, <2>6, <2>7 DEF Execute
<1>4. ASSUME NEW r \in Requests, Cancel(r)
      PROVE  UNCHANGED <<hold, ClearedAccounts, data>>
  BY <1>1, <1>4 DEF Cancel, CancelCheck, CancelWrite, CancelLost
<1>5. ASSUME NEW a \in Accounts, ChangeHold(a)
      PROVE  Promise!Next
  BY <1>1, <1>5 DEF ChangeHold, Promise!ChangeHold, Promise!Next
<1>6. CASE UNCHANGED vars \/ Tick
  BY <1>1, <1>6 DEF vars, Tick
<1>7. QED
  BY <1>2, <1>3, <1>4, <1>5, <1>6 DEF Next

\* The three coroutines implement the promise about the data.
THEOREM ImplementsPromise == Spec => ErasurePromiseKept
<1>1. Init => Promise!Init
  BY DEF Init, Promise!Init, ClearedAccounts, Parts, Promise!AllParts
<1>2. QED
  BY <1>1, PromiseStep, InductiveInvariant, PTL DEF Spec, ErasurePromiseKept, Promise!Spec

-----------------------------------------------------------------------------
(* The routes *)

\* Whatever a route does is a step of the service, or leaves it alone.
LEMMA ServiceStep == [ApiNext]_apiVars => [Next]_vars
<1> SUFFICES ASSUME [ApiNext]_apiVars PROVE [Next]_vars
  OBVIOUS
<1>1. ASSUME NEW r \in Requests,
             RequestDeletion(r) \/ Scheduling(r) \/ BackgroundTask(r)
      PROVE  Next
  BY <1>1 DEF RequestDeletion, Scheduling, BackgroundTask, Next
<1>2. ASSUME NEW r \in Requests, CancelRoute(r) \/ CancelCommitted(r) \/ CancelRaised(r)
      PROVE  Next
  BY <1>2 DEF CancelRoute, CancelCommitted, CancelRaised, Cancel, Next
<1>3. ASSUME NEW r \in Requests,
             \/ ConfirmationMissing(r) \/ Conflict(r) \/ AddTask(r) \/ AuditRequested(r)
             \/ HandlerLost(r) \/ AuditCancelled(r)
      PROVE  UNCHANGED vars
  BY <1>3 DEF ConfirmationMissing, Conflict, AddTask, AuditRequested, HandlerLost,
              AuditCancelled
<1>4. CASE Tick \/ \E a \in Accounts : ChangeHold(a)
  BY <1>4 DEF Next
<1>5. CASE UNCHANGED apiVars
  BY <1>5 DEF apiVars
<1>6. QED
  BY <1>1, <1>2, <1>3, <1>4, <1>5 DEF ApiNext

\* The routes drive the service as GDPRService describes it: in no order that its
\* coroutines do not allow.
THEOREM RoutesKeepServiceSpec == ApiSpec => Spec
BY ServiceStep, PTL DEF ApiSpec, ApiInit, Spec

\* Where a handler stands, against the call it made and the executor it queued: an executor
\* runs only behind a 202, and a 202 has its entry in the audit trail.
HttpInv ==
    \A r \in Requests :
        /\ http[r] \in {"idle", "400"} => call[r] = "idle"
        /\ task[r] # "none" => http[r] = "202"
        /\ http[r] = "202" => "gdpr.deletion_requested" \in audit[r]

ApiInv == IInv /\ ApiTypeOK /\ HttpInv /\ ErasureIsAudited

LEMMA ApiInitInv == ApiInit => ApiInv
<1> SUFFICES ASSUME ApiInit PROVE ApiInv
  OBVIOUS
<1>1. IInv
  BY IInvInit DEF ApiInit
<1>2. ApiTypeOK
  BY <1>1 DEF ApiInit, ApiTypeOK, IInv, HttpStates, CancelHttpStates
<1>3. HttpInv /\ ErasureIsAudited
  BY DEF ApiInit, Init, HttpInv, ErasureIsAudited, Touched
<1>4. QED
  BY <1>1, <1>2, <1>3 DEF ApiInv

\* A step of the service in which no executor moves erases nothing and starts nothing.
LEMMA ServiceKeeps ==
    ASSUME NEW r \in Requests,
           \/ Submit(r) \/ Validate(r) \/ Cancel(r)
           \/ Tick \/ (\E a \in Accounts : ChangeHold(a)) \/ UNCHANGED vars
    PROVE  UNCHANGED <<data, task>>
BY DEF Submit, Validate, CheckLegalHold, RetentionActive, BuildRequest, SaveDeletionRequest,
       Cancel, CancelCheck, CancelWrite, CancelLost, Tick, ChangeHold, vars

\* An executor's step touches the data of its own account and its own place only.
LEMMA ExecutorKeeps ==
    ASSUME TypeOK, NEW r \in Requests, Execute(r) \/ LoseTask(r)
    PROVE  /\ call' = call
           /\ \A q \in Requests : q # r => task'[q] = task[q]
           /\ \A a \in Accounts : a # AccountOf[r] => data'[a] = data[a]
<1> USE ConstantsAssumption DEF TypeOK
<1>1. ASSUME NEW from, NEW parts, NEW to, Erase(r, from, parts, to)
      PROVE  /\ call' = call
             /\ \A q \in Requests : q # r => task'[q] = task[q]
             /\ \A a \in Accounts : a # AccountOf[r] => data'[a] = data[a]
  BY <1>1 DEF Erase
<1>2. CASE DeletePiiFields(r) \/ DeleteMlProfile(r) \/ DeleteSessionData(r)
             \/ AnonymizeTransactionPii(r)
  BY <1>1, <1>2 DEF DeletePiiFields, DeleteMlProfile, DeleteSessionData,
                    AnonymizeTransactionPii
<1>3. CASE ExecuteLookup(r) \/ Wake(r) \/ StepRaises(r) \/ LoseTask(r)
  BY <1>3 DEF ExecuteLookup, Wake, StepRaises, LoseTask
<1>4. CASE MarkCompleted(r) \/ MarkFailed(r)
  BY <1>4 DEF MarkCompleted, MarkFailed, UpdateDeletionStatus
<1>5. QED
  BY <1>2, <1>3, <1>4 DEF Execute

LEMMA ApiStepInv == ApiInv /\ [ApiNext]_apiVars => ApiInv'
<1> SUFFICES ASSUME ApiInv, [ApiNext]_apiVars PROVE ApiInv'
  OBVIOUS
<1> USE DEF ApiInv
<1>1. IInv' /\ TypeOK /\ TypeOK'
  <2>1. IInv'
    BY ServiceStep, IInvStep
  <2>2. QED
    BY <2>1 DEF IInv
<1>2. ASSUME NEW r \in Requests, ConfirmationMissing(r) \/ Conflict(r) \/ AddTask(r) \/ HandlerLost(r)
      PROVE  ApiInv'
  <2>1. /\ http[r] \in {"idle", "scheduling", "auditing"}
        /\ http[r] = "idle" => http'[r] = "400"
        /\ http[r] # "idle" => http'[r] \in {"409", "auditing", "lost"}
        /\ \A q \in Requests : q # r => http'[q] = http[q]
        /\ http' \in [Requests -> HttpStates]
        /\ UNCHANGED <<vars, cancelHttp, audit>>
    BY <1>2 DEF ConfirmationMissing, Conflict, AddTask, HandlerLost, ApiTypeOK, HttpStates
  <2>2. UNCHANGED <<call, task, data>>
    BY <2>1 DEF vars
  <2>3. HttpInv'
    BY <2>1, <2>2 DEF HttpInv
  <2>4. QED
    BY <1>1, <2>1, <2>2, <2>3 DEF ApiTypeOK, ErasureIsAudited, Touched
<1>3. ASSUME NEW r \in Requests, RequestDeletion(r) PROVE ApiInv'
  <2>1. /\ http[r] = "idle" /\ http' = [http EXCEPT ![r] = "scheduling"]
        /\ Submit(r) /\ UNCHANGED <<cancelHttp, audit>>
    BY <1>3 DEF RequestDeletion
  <2>2. /\ UNCHANGED <<data, task>>
        /\ \A q \in Requests : q # r => call'[q] = call[q]
    BY <1>1, <2>1 DEF Submit, TypeOK
  <2>3. http' \in [Requests -> HttpStates]
    BY <2>1 DEF ApiTypeOK, HttpStates
  <2>4. HttpInv'
    BY <2>1, <2>2 DEF HttpInv, ApiTypeOK
  <2>5. QED
    BY <1>1, <2>1, <2>2, <2>3, <2>4 DEF ApiTypeOK, ErasureIsAudited, Touched
<1>4. ASSUME NEW r \in Requests, Scheduling(r) PROVE ApiInv'
  <2>1. http[r] = "scheduling" /\ Validate(r) /\ UNCHANGED <<http, cancelHttp, audit>>
    BY <1>4 DEF Scheduling, apiOnly
  <2>2. UNCHANGED <<data, task>>
    BY <2>1, ServiceKeeps
  <2>3. \A q \in Requests : q # r => call'[q] = call[q]
    BY <1>1, <2>1 DEF Validate, CheckLegalHold, RetentionActive, BuildRequest,
                      SaveDeletionRequest, TypeOK
  <2>4. HttpInv'
    BY <2>1, <2>2, <2>3 DEF HttpInv
  <2>5. QED
    BY <1>1, <2>1, <2>2, <2>4 DEF ApiTypeOK, ErasureIsAudited, Touched
<1>5. ASSUME NEW r \in Requests, AuditRequested(r) PROVE ApiInv'
  <2>1. /\ http[r] = "auditing" /\ UNCHANGED <<vars, cancelHttp>>
        /\ \/ /\ audit' = [audit EXCEPT ![r] = @ \cup {"gdpr.deletion_requested"}]
              /\ http' = [http EXCEPT ![r] = "202"]
           \/ http' = [http EXCEPT ![r] = "500"] /\ UNCHANGED audit
    BY <1>5 DEF AuditRequested
  <2>2. UNCHANGED <<call, task, data>>
    BY <2>1 DEF vars
  <2>3. /\ \A q \in Requests : q # r => http'[q] = http[q]
        /\ \A q \in Requests : audit[q] \subseteq audit'[q]
        /\ \/ http'[r] = "202" /\ "gdpr.deletion_requested" \in audit'[r]
           \/ http'[r] = "500"
        /\ http' \in [Requests -> HttpStates]
        /\ audit' \in [Requests -> SUBSET AuditActions]
    BY <2>1 DEF ApiTypeOK, HttpStates, AuditActions
  <2>4. HttpInv'
    BY <2>1, <2>2, <2>3 DEF HttpInv
  <2>5. ErasureIsAudited'
    BY <2>2, <2>3 DEF ErasureIsAudited, Touched
  <2>6. QED
    BY <1>1, <2>1, <2>3, <2>4, <2>5 DEF ApiTypeOK
<1>6. ASSUME NEW r \in Requests, BackgroundTask(r) PROVE ApiInv'
  <2>1. /\ http[r] = "202" /\ (Execute(r) \/ LoseTask(r))
        /\ UNCHANGED <<http, cancelHttp, audit>>
    BY <1>6 DEF BackgroundTask, apiOnly
  <2>2. /\ call' = call
        /\ \A q \in Requests : q # r => task'[q] = task[q]
        /\ \A a \in Accounts : a # AccountOf[r] => data'[a] = data[a]
    BY <1>1, <2>1, ExecutorKeeps
  <2>3. HttpInv'
    BY <2>1, <2>2 DEF HttpInv
  <2>4. "gdpr.deletion_requested" \in audit[r]
    BY <2>1 DEF HttpInv
  <2>5. ErasureIsAudited'
    BY <2>1, <2>2, <2>4 DEF ErasureIsAudited, Touched
  <2>6. QED
    BY <1>1, <2>1, <2>3, <2>5 DEF ApiTypeOK
<1>7. ASSUME NEW r \in Requests, CancelRoute(r) \/ CancelCommitted(r) \/ CancelRaised(r) PROVE ApiInv'
  <2>1. Cancel(r) /\ UNCHANGED <<http, audit>> /\ cancelHttp' \in [Requests -> CancelHttpStates]
    BY <1>7 DEF CancelRoute, CancelCommitted, CancelRaised, Cancel, ApiTypeOK, CancelHttpStates
  <2>2. UNCHANGED <<data, task>>
    BY <2>1, ServiceKeeps
  <2>3. call' = call
    BY <2>1 DEF Cancel, CancelCheck, CancelWrite, CancelLost
  <2>4. QED
    BY <1>1, <2>1, <2>2, <2>3 DEF ApiTypeOK, HttpInv, ErasureIsAudited, Touched
<1>8. ASSUME NEW r \in Requests, AuditCancelled(r) PROVE ApiInv'
  <2>1. /\ UNCHANGED <<vars, http>> /\ cancelHttp' \in [Requests -> CancelHttpStates]
        /\ \A q \in Requests : audit[q] \subseteq audit'[q]
        /\ audit' \in [Requests -> SUBSET AuditActions]
    BY <1>8 DEF AuditCancelled, ApiTypeOK, CancelHttpStates, AuditActions
  <2>2. UNCHANGED <<call, task, data>>
    BY <2>1 DEF vars
  <2>3. HttpInv' /\ ErasureIsAudited'
    BY <2>1, <2>2 DEF HttpInv, ErasureIsAudited, Touched
  <2>4. QED
    BY <1>1, <2>1, <2>3 DEF ApiTypeOK
<1>9. CASE (Tick \/ \E a \in Accounts : ChangeHold(a)) /\ UNCHANGED apiOnly
  <2>1. UNCHANGED <<call, task, data, http, cancelHttp, audit>>
    BY <1>9 DEF Tick, ChangeHold, apiOnly
  <2>2. QED
    BY <1>1, <2>1 DEF ApiTypeOK, HttpInv, ErasureIsAudited, Touched
<1>10. CASE UNCHANGED apiVars
  <2>1. UNCHANGED <<call, task, data, http, cancelHttp, audit>>
    BY <1>10 DEF apiVars, apiOnly, vars
  <2>2. QED
    BY <1>1, <2>1 DEF ApiTypeOK, HttpInv, ErasureIsAudited, Touched
<1>11. QED
  BY <1>2, <1>3, <1>4, <1>5, <1>6, <1>7, <1>8, <1>9, <1>10 DEF ApiNext

\* No account loses data before a request for it is in the audit trail, and a client that
\* was told no, or nothing, is not surprised later.
THEOREM RoutesAreHonest == ApiSpec => []ApiInvariant
<1>1. ApiInv => UnansweredErasesNothing
  BY DEF ApiInv, HttpInv, IInv, OutcomeInv, UnansweredErasesNothing
<1>2. ApiInv => ApiInvariant
  BY <1>1 DEF ApiInv, ApiInvariant
<1>3. QED
  BY ApiInitInv, ApiStepInv, <1>2, PTL DEF ApiSpec

\* What is proved of the service holds behind the routes.
THEOREM ServiceHoldsBehindRoutes ==
    ApiSpec => [](RetentionHonoured /\ CompletedMeansErased) /\ ErasurePromiseKept
BY RoutesKeepServiceSpec, RetentionIsHonoured, CompletedIsErased, ImplementsPromise, PTL
=============================================================================
