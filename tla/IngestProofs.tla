----------------------------- MODULE IngestProofs -----------------------------
(* Proofs about the two ways in: Ingest, for any number of posts, batches and workers and
   any faults, and Bronze, which shares nothing with it. *)
EXTENDS Ingest, Bronze, FiniteSetTheorems, TLAPS

\* The queues there are, from the tasks a handler adds to the last one that runs.
Queues == {<< >>, <<"audit">>, <<"alert", "audit">>, <<"notify", "audit">>}

\* What the level of p has led to once its audit entry comes next.
Announced(p) ==
    /\ level[p] # "clear" => p \in alerts
    /\ level[p] = "critical" => p \in notified

\* A handler that has not answered 202 has left nothing.
Untouched(p) ==
    /\ queue[p] = << >>
    /\ p \notin alerts /\ p \notin notified /\ p \notin audit

\* The audit task comes to the head of the queue only after what it reports.
QueueInv ==
    \A p \in Posts :
        /\ queue[p] \in Queues
        /\ queue[p] = <<"notify", "audit">> => p \in alerts
        /\ queue[p] = <<"audit">> => Announced(p)
        /\ p \in audit => Announced(p)
        /\ post[p] # "202" => Untouched(p)

IInv == TypeOK /\ QueueInv

-----------------------------------------------------------------------------
\* The queues differ, and this is what is left of each when its head is taken.
LEMMA QueueFacts ==
    /\ Queues \subseteq Seq(TaskNames) /\ \A q \in Queues : Len(q) <= 2
    /\ Head(<<"audit">>) = "audit" /\ Tail(<<"audit">>) = << >>
    /\ \A t \in TaskNames : Head(<<t, "audit">>) = t /\ Tail(<<t, "audit">>) = <<"audit">>
    /\ \A t \in TaskNames : [<<t, "audit">> EXCEPT ![1] = "notify"] = <<"notify", "audit">>
    /\ << >> # <<"audit">> /\ \A t \in TaskNames : <<t, "audit">> # << >> /\ <<t, "audit">> # <<"audit">>
    /\ <<"alert", "audit">> # <<"notify", "audit">>
BY DEF Queues, TaskNames

LEMMA InitIInv == Init => IInv
<1> SUFFICES ASSUME Init PROVE IInv
  OBVIOUS
<1>1. \A p \in Posts : post[p] = "idle" /\ level[p] = "clear" /\ queue[p] = << >>
  BY DEF Init
<1>2. QueueInv
  BY <1>1, QueueFacts DEF Init, QueueInv, Queues, Untouched
<1>3. TypeOK
  BY IngestAssumption DEF Init, TypeOK, PostStates, LevelValues, TaskNames, Units, Requests
<1> QED
  BY <1>2, <1>3 DEF IInv

\* Steps that touch neither the posts nor what their tasks have left behind.
LEMMA PostsUntouched ==
    ASSUME QueueInv, UNCHANGED <<post, level, queue, alerts, notified, audit>>
    PROVE  QueueInv'
BY DEF QueueInv, Announced, Untouched

\* The handler of p ends, with queue q if it answers 202.
LEMMA Ends ==
    ASSUME IInv, NEW p \in Posts, NEW l \in LevelValues, Scored(p, l), NEW q,
           \/ q = Tasks(l) /\ post' = [post EXCEPT ![p] = "202"]
           \/ q = << >> /\ post' = [post EXCEPT ![p] = "500"],
           queue' = [queue EXCEPT ![p] = q]
    PROVE  IInv'
<1>1. /\ post[p] = "scoring" /\ level' = [level EXCEPT ![p] = l]
      /\ persisting' = persisting \cup {p}
      /\ UNCHANGED <<worker, batch, next, scores, alerts, notified, audit, raised, killed>>
  BY DEF Scored, bulk, rows, fate
<1>2. q \in Queues /\ (q = <<"audit">> => l = "clear") /\ q # <<"notify", "audit">>
  BY QueueFacts DEF Tasks, Queues, LevelValues, TaskNames
<1>3. TypeOK'
  BY <1>1, <1>2, QueueFacts DEF IInv, TypeOK, PostStates, Units
<1>4. QueueInv'
  <2> SUFFICES ASSUME NEW u \in Posts
               PROVE  /\ queue'[u] \in Queues
                      /\ queue'[u] = <<"notify", "audit">> => u \in alerts'
                      /\ queue'[u] = <<"audit">> => Announced(u)'
                      /\ u \in audit' => Announced(u)'
                      /\ post'[u] # "202" => Untouched(u)'
    BY DEF QueueInv
  <2>1. CASE u # p
    <3>1. post'[u] = post[u] /\ level'[u] = level[u] /\ queue'[u] = queue[u]
      BY <1>1, <2>1 DEF IInv, TypeOK
    <3> QED
      BY <1>1, <3>1 DEF IInv, QueueInv, Announced, Untouched
  <2>2. CASE u = p
    <3>1. queue'[u] = q /\ level'[u] = l /\ (post'[u] # "202" => q = << >>)
      BY <1>1, <2>2 DEF IInv, TypeOK
    <3>2. u \notin alerts /\ u \notin notified /\ u \notin audit
      BY <1>1, <2>2 DEF IInv, QueueInv, Untouched
    <3> QED
      BY <1>1, <1>2, <3>1, <3>2 DEF Announced, Untouched
  <2> QED
    BY <2>1, <2>2
<1> QED
  BY <1>3, <1>4 DEF IInv

\* A task of p ends, or an exception clears its queue.
LEMMA TaskEnds ==
    ASSUME IInv, NEW p \in Posts, queue[p] # << >>, NEW q \in Queues,
           queue' = [queue EXCEPT ![p] = q],
           UNCHANGED <<post, level, worker, batch, next, persisting, scores, killed>>,
           raised \subseteq raised', raised' \subseteq raised \cup {p},
           alerts \subseteq alerts', alerts' \subseteq alerts \cup {p},
           notified \subseteq notified', notified' \subseteq notified \cup {p},
           audit \subseteq audit', audit' \subseteq audit \cup {p},
           q = <<"notify", "audit">> => p \in alerts',
           q = <<"audit">> => Announced(p)',
           p \in audit' => Announced(p)'
    PROVE  IInv'
<1>1. TypeOK'
  BY QueueFacts DEF IInv, TypeOK
<1>2. QueueInv'
  <2> SUFFICES ASSUME NEW u \in Posts
               PROVE  /\ queue'[u] \in Queues
                      /\ queue'[u] = <<"notify", "audit">> => u \in alerts'
                      /\ queue'[u] = <<"audit">> => Announced(u)'
                      /\ u \in audit' => Announced(u)'
                      /\ post'[u] # "202" => Untouched(u)'
    BY DEF QueueInv
  <2>1. CASE u # p
    <3>1. queue'[u] = queue[u]
      BY <2>1 DEF IInv, TypeOK
    <3> QED
      BY <2>1, <3>1 DEF IInv, QueueInv, Announced, Untouched
  <2>2. CASE u = p
    <3>1. queue'[u] = q /\ post[u] = "202"
      BY <2>2 DEF IInv, TypeOK, QueueInv, Untouched
    <3> QED
      BY <2>2, <3>1
  <2> QED
    BY <2>1, <2>2
<1> QED
  BY <1>1, <1>2 DEF IInv

-----------------------------------------------------------------------------
LEMMA StepIInv == IInv /\ [Next]_vars => IInv'
<1> SUFFICES ASSUME IInv, [Next]_vars PROVE IInv'
  OBVIOUS
<1> USE DEF IInv, handling, bulk, rows, fate
<1>q. \A p \in Posts : queue[p] \in Queues
  BY DEF QueueInv
<1>1. ASSUME NEW p \in Posts, Receive(p) PROVE IInv'
  <2>1. TypeOK'
    BY <1>1 DEF Receive, TypeOK, PostStates
  <2>2. \A u \in Posts : post'[u] # "202" => post[u] # "202"
    BY <1>1 DEF Receive, TypeOK
  <2> QED
    BY <1>1, <2>1, <2>2 DEF Receive, QueueInv, Announced, Untouched
<1>2. ASSUME NEW p \in Posts, Answer(p) PROVE IInv'
  BY <1>2, Ends DEF Answer
<1>3. ASSUME NEW p \in Posts, ResponseRaises(p) PROVE IInv'
  <2>1. PICK l \in LevelValues : Scored(p, l) /\ post' = [post EXCEPT ![p] = "500"] /\ queue' = queue
    BY <1>3 DEF ResponseRaises
  <2>2. queue[p] = << >>
    BY <2>1 DEF Scored, QueueInv, Untouched
  <2>3. queue' = [queue EXCEPT ![p] = << >>]
    BY <2>1, <2>2 DEF TypeOK
  <2> QED
    BY <2>1, <2>3, Ends
<1>4. ASSUME NEW p \in Posts, ScoreRaises(p) PROVE IInv'
  <2>1. TypeOK'
    BY <1>4 DEF ScoreRaises, TypeOK, PostStates
  <2>2. \A u \in Posts : post'[u] # "202" => post[u] # "202"
    BY <1>4 DEF ScoreRaises, TypeOK
  <2> QED
    BY <1>4, <2>1, <2>2 DEF ScoreRaises, QueueInv, Announced, Untouched
<1>5. ASSUME NEW p \in Posts, SaveAlert(p) PROVE IInv'
  <2>1. /\ queue[p] # << >> /\ Head(queue[p]) = "alert"
        /\ queue' = [queue EXCEPT ![p] = IF level[p] = "critical" THEN [queue[p] EXCEPT ![1] = "notify"]
                                                                  ELSE Tail(queue[p])]
        /\ alerts' = alerts \cup {p}
        /\ UNCHANGED <<post, level, worker, batch, next, persisting, scores, raised, killed, notified, audit>>
    BY <1>5 DEF SaveAlert, StartTask
  <2>2. queue[p] = <<"alert", "audit">>
    BY <1>q, <2>1, QueueFacts DEF Queues, TaskNames
  <2>3. Tail(queue[p]) = <<"audit">>
    BY <2>2, QueueFacts DEF TaskNames
  <2>4. CASE level[p] = "critical"
    <3>1. queue' = [queue EXCEPT ![p] = <<"notify", "audit">>]
      BY <2>1, <2>2, <2>4, QueueFacts DEF TaskNames
    <3>2. <<"notify", "audit">> \in Queues /\ <<"notify", "audit">> # <<"audit">>
      BY QueueFacts DEF Queues, TaskNames
    <3>3. p \in audit' => Announced(p)'
      BY <2>1 DEF QueueInv, Announced
    <3> QED
      BY <2>1, <3>1, <3>2, <3>3, TaskEnds
  <2>5. CASE level[p] # "critical"
    <3>1. queue' = [queue EXCEPT ![p] = <<"audit">>]
      BY <2>1, <2>3, <2>5
    <3>2. <<"audit">> \in Queues /\ <<"notify", "audit">> # <<"audit">>
      BY QueueFacts DEF Queues, TaskNames
    <3>3. Announced(p)'
      BY <2>1, <2>5 DEF Announced
    <3> QED
      BY <2>1, <3>1, <3>2, <3>3, TaskEnds
  <2> QED
    BY <2>4, <2>5
<1>6. ASSUME NEW p \in Posts, Notify(p) PROVE IInv'
  <2>1. /\ queue[p] # << >> /\ Head(queue[p]) = "notify"
        /\ queue' = [queue EXCEPT ![p] = Tail(queue[p])]
        /\ notified' = notified \cup {p}
        /\ UNCHANGED <<post, level, worker, batch, next, persisting, scores, raised, killed, alerts, audit>>
    BY <1>6 DEF Notify, StartTask
  <2>2. queue[p] = <<"notify", "audit">>
    BY <1>q, <2>1, QueueFacts DEF Queues, TaskNames
  <2>3. queue' = [queue EXCEPT ![p] = <<"audit">>]
    BY <2>1, <2>2, QueueFacts DEF TaskNames
  <2>4. Announced(p)'
    BY <2>1, <2>2 DEF QueueInv, Announced
  <2>5. <<"audit">> \in Queues /\ <<"notify", "audit">> # <<"audit">>
    BY QueueFacts DEF Queues, TaskNames
  <2> QED
    BY <2>1, <2>3, <2>4, <2>5, TaskEnds
<1>7. ASSUME NEW p \in Posts, LogIngested(p) PROVE IInv'
  <2>1. /\ queue[p] # << >> /\ Head(queue[p]) = "audit"
        /\ queue' = [queue EXCEPT ![p] = Tail(queue[p])]
        /\ audit' = audit \cup {p}
        /\ UNCHANGED <<post, level, worker, batch, next, persisting, scores, raised, killed, alerts, notified>>
    BY <1>7 DEF LogIngested, StartTask
  <2>2. queue[p] = <<"audit">>
    BY <1>q, <2>1, QueueFacts DEF Queues, TaskNames
  <2>3. queue' = [queue EXCEPT ![p] = << >>]
    BY <2>1, <2>2, QueueFacts
  <2>4. Announced(p)'
    BY <2>1, <2>2 DEF QueueInv, Announced
  <2>5. << >> \in Queues /\ << >> # <<"audit">> /\ << >> # <<"notify", "audit">>
    BY QueueFacts DEF Queues, TaskNames
  <2> QED
    BY <2>1, <2>3, <2>4, <2>5, TaskEnds
<1>8. ASSUME NEW p \in Posts, TaskRaises(p) PROVE IInv'
  <2>1. << >> \in Queues /\ << >> # <<"audit">> /\ << >> # <<"notify", "audit">>
    BY QueueFacts DEF Queues, TaskNames
  <2>2. p \in audit' => Announced(p)'
    BY <1>8 DEF TaskRaises, QueueInv, Announced
  <2> QED
    BY <1>8, <2>1, <2>2, TaskEnds DEF TaskRaises
<1>9. ASSUME NEW b \in Batches, ReceiveBatch(b) \/ ScoreNext(b) \/ SkipNext(b) PROVE IInv'
  <2>1. TypeOK'
    <3>1. batch' \in [Batches -> {"idle", "202"}]
      BY <1>9 DEF ReceiveBatch, ScoreNext, SkipNext, TypeOK
    <3>2. next' \in [Batches -> 1 .. BatchSize + 1]
      BY <1>9, IngestAssumption DEF ReceiveBatch, ScoreNext, SkipNext, TypeOK
    <3>3. persisting' \subseteq Units
      <4>1. next[b] \in 1 .. BatchSize + 1
        BY DEF TypeOK
      <4>2. CASE ScoreNext(b)
        <5>1. <<b, next[b]>> \in Units
          BY <4>1, <4>2, IngestAssumption DEF ScoreNext, Units
        <5> QED
          BY <4>2, <5>1 DEF ScoreNext, TypeOK
      <4> QED
        BY <1>9, <4>2 DEF ReceiveBatch, SkipNext, TypeOK
    <3> QED
      BY <1>9, <3>1, <3>2, <3>3 DEF ReceiveBatch, ScoreNext, SkipNext, TypeOK
  <2> QED
    BY <1>9, <2>1, PostsUntouched DEF ReceiveBatch, ScoreNext, SkipNext
<1>10. ASSUME NEW u \in Units, PersistScore(u) PROVE IInv'
  <2>1. TypeOK'
    BY <1>10 DEF PersistScore, TypeOK
  <2> QED
    BY <1>10, <2>1, PostsUntouched DEF PersistScore
<1>11. ASSUME NEW w \in Workers, WorkerDies(w) PROVE IInv'
  <2> DEFINE lost == {r \in Requests : worker[r] = w /\ Pending(r)}
  <2>1. /\ post' = [p \in Posts |-> IF p \in lost /\ post[p] = "scoring" THEN "500" ELSE post[p]]
        /\ queue' = [p \in Posts |-> IF p \in lost THEN << >> ELSE queue[p]]
        /\ killed' = killed \cup lost /\ persisting' \subseteq persisting
        /\ UNCHANGED <<level, worker, batch, next, scores, alerts, notified, audit, raised>>
    BY <1>11 DEF WorkerDies
  <2>2. TypeOK'
    <3>1. post' \in [Posts -> PostStates]
      BY <2>1 DEF TypeOK, PostStates
    <3>2. queue' \in [Posts -> Seq(TaskNames)] /\ \A p \in Posts : Len(queue'[p]) <= 2
      BY <2>1 DEF TypeOK
    <3> QED
      BY <2>1, <3>1, <3>2 DEF TypeOK
  <2>3. \A p \in Posts : (post'[p] # "202" => post[p] # "202") /\ queue'[p] \in {<< >>, queue[p]}
    BY <2>1
  <2>4. << >> \in Queues /\ << >> # <<"audit">> /\ << >> # <<"notify", "audit">>
    BY QueueFacts DEF Queues, TaskNames
  <2> QED
    BY <2>1, <2>2, <2>3, <2>4 DEF QueueInv, Announced, Untouched
<1>12. CASE UNCHANGED vars
  <2>1. TypeOK'
    BY <1>12 DEF vars, TypeOK
  <2> QED
    BY <1>12, <2>1, PostsUntouched DEF vars
<1> QED
  BY <1>1, <1>2, <1>3, <1>4, <1>5, <1>6, <1>7, <1>8, <1>9, <1>10, <1>11, <1>12
     DEF Next, Handle, RunTask, BatchStep

LEMMA Invariance == Spec => []IInv
BY InitIInv, StepIInv, PTL DEF Spec

-----------------------------------------------------------------------------
\* Every variable of the two handlers and their tasks keeps its type.
THEOREM IngestTypeCorrect == Spec => []TypeOK
<1>1. IInv => TypeOK
  BY DEF IInv
<1> QED
  BY Invariance, <1>1, PTL

\* No audit entry of a flagged transaction without its alert, nor, for a CRITICAL one, without
\* its notification, whatever fails and whichever worker dies.
THEOREM AuditComesLast == Spec => []AuditFollowsAlert
<1>1. IInv => AuditFollowsAlert
  BY DEF IInv, TypeOK, QueueInv, Announced, AuditFollowsAlert
<1> QED
  BY Invariance, <1>1, PTL

\* A post answered 500 leaves neither an alert nor an audit entry.
THEOREM FailureLeavesNothing == Spec => []FailedLeavesNoAlert
<1>1. IInv => FailedLeavesNoAlert
  BY DEF IInv, QueueInv, Untouched, FailedLeavesNoAlert
<1> QED
  BY Invariance, <1>1, PTL

-----------------------------------------------------------------------------
(* Bronze: for any files, any batch size, and any number of failures and replays *)

\* A transaction's rows: none, or one record that passed the filters in a planned batch.
RowsOK ==
    \A t \in Ids :
        \/ bronze[t] = <<>>
        \/ \E b \in 1 .. Len(planned) : \E r \in Batch(b) :
               bronze[t] = <<r>> /\ r.transaction_id = t /\ Passes(r)

\* Rows are in a table, and a batch that is being worked on is the last one planned.
TableOK ==
    /\ ~ exists => \A t \in Ids : bronze[t] = <<>>
    /\ pc \in {"batch", "written", "reported"} => Len(planned) = committed + 1

BInv == BronzeTypeOK /\ RowsOK /\ TableOK

\* Every transaction of a batch that no filter can drop is in the table.
Ingested(b) ==
    \A t \in IdsOf(Batch(b)) :
        (\A r \in Batch(b) : r.transaction_id = t => Passes(r)) => bronze[t] # <<>>

\* From the write on the current batch is in the table, from the report on it is reported.
CurrentDone ==
    /\ pc \in {"written", "reported"} => Ingested(Current)
    /\ pc = "reported" => Current \in reported

-----------------------------------------------------------------------------
\* The sequence of no elements, and of one.
LEMMA SeqOfNone == SetToSeq({}) = <<>>
<1>1. Cardinality({}) = 0
  BY FS_EmptySet
<1>2. \E f \in [1 .. 0 -> {}] : IsInjective(f)
  <2>1. <<>> \in [1 .. 0 -> {}]
    OBVIOUS
  <2>2. IsInjective(<<>>)
    BY DEF IsInjective
  <2> QED
    BY <2>1, <2>2
<1>3. SetToSeq({}) \in [1 .. 0 -> {}]
  BY <1>1, <1>2 DEF SetToSeq
<1> QED
  BY <1>3

LEMMA SeqOfOne == ASSUME NEW x PROVE SetToSeq({x}) = <<x>>
<1>1. Cardinality({x}) = 1
  BY FS_Singleton
<1>2. \E f \in [1 .. 1 -> {x}] : IsInjective(f)
  <2>1. <<x>> \in [1 .. 1 -> {x}]
    OBVIOUS
  <2>2. IsInjective(<<x>>)
    BY DEF IsInjective
  <2> QED
    BY <2>1, <2>2
<1>3. SetToSeq({x}) \in [1 .. 1 -> {x}]
  BY <1>1, <1>2 DEF SetToSeq
<1> QED
  BY <1>3

\* What a batch gives the table for a transaction: no row, or one that passes the
\* filters; a row for certain when all its copies pass.
LEMMA RowsOfBatch ==
    ASSUME NEW records, NEW passed \in QualityResults(records), NEW t
    PROVE  /\ \/ RowsOf(t, passed) = <<>>
              \/ \E r \in records :
                     RowsOf(t, passed) = <<r>> /\ r.transaction_id = t /\ Passes(r)
           /\ t \in IdsOf(records) /\ (\A r \in records : r.transaction_id = t => Passes(r))
                => RowsOf(t, passed) # <<>>
<1> DEFINE S == {r \in passed : r.transaction_id = t}
<1>1. PICK kept \in [IdsOf(records) -> records] :
          /\ \A u \in IdsOf(records) : kept[u].transaction_id = u
          /\ passed = {r \in {kept[u] : u \in IdsOf(records)} : Passes(r)}
  BY DEF QualityResults
<1>2. CASE t \in IdsOf(records) /\ Passes(kept[t])
  <2>1. S = {kept[t]} /\ kept[t] \in records /\ kept[t].transaction_id = t
    BY <1>1, <1>2
  <2>2. RowsOf(t, passed) = <<kept[t]>>
    BY <2>1, SeqOfOne DEF RowsOf
  <2> QED
    BY <1>2, <2>1, <2>2
<1>3. CASE ~ (t \in IdsOf(records) /\ Passes(kept[t]))
  <2>1. S = {}
    BY <1>1, <1>3
  <2>2. RowsOf(t, passed) = <<>>
    BY <2>1, SeqOfNone DEF RowsOf
  <2>3. t \in IdsOf(records) => kept[t] \in records /\ kept[t].transaction_id = t
    BY <1>1
  <2> QED
    BY <1>3, <2>2, <2>3
<1> QED
  BY <1>2, <1>3

\* A planned batch holds records of the files, of known transactions.
LEMMA BatchRecords ==
    ASSUME BronzeTypeOK, NEW b \in 1 .. Len(planned)
    PROVE  /\ Reached(b - 1) \in 0 .. Len(landing) /\ Reached(b) \in 1 .. Len(landing)
           /\ Batch(b) \subseteq Records /\ IdsOf(Batch(b)) \subseteq Ids
<1>1. Reached(b - 1) \in 0 .. Len(landing) /\ Reached(b) \in 1 .. Len(landing)
  BY DEF BronzeTypeOK, Reached
<1>2. \A f \in Reached(b - 1) + 1 .. Reached(b) : landing[f] \in Contents
  BY <1>1 DEF BronzeTypeOK
<1>3. \A r \in Batch(b) : r \in Records /\ r.transaction_id \in Ids
  BY <1>2, BronzeAssumption DEF Batch, Records
<1> QED
  BY <1>1, <1>3 DEF IdsOf

\* What WriteBronze leaves in the table: a transaction's rows as they were, or those of
\* the batch; as they were is for a table that already has the transaction.
LEMMA WriteOutcome ==
    ASSUME WriteBronze
    PROVE  \E passed \in QualityResults(Batch(Current)), kept \in SUBSET Ids :
               /\ bronze' = [t \in Ids |-> IF t \in kept THEN bronze[t] ELSE RowsOf(t, passed)]
               /\ \A t \in kept : bronze[t] # <<>>
<1>1. PICK passed \in QualityResults(Batch(Current)), found \in Recognised :
          IF exists /\ found THEN Merge(passed) ELSE Overwrite(passed)
  BY DEF WriteBronze
<1>2. CASE exists /\ found
  <2>1. {t \in Ids : bronze[t] # <<>>} \in SUBSET Ids
    OBVIOUS
  <2> QED
    BY <1>1, <1>2, <2>1 DEF Merge
<1>3. CASE ~ (exists /\ found)
  <2>1. {} \in SUBSET Ids
    OBVIOUS
  <2> QED
    BY <1>1, <1>3, <2>1 DEF Overwrite
<1> QED
  BY <1>2, <1>3

\* A new plan ends after the last one, at a file that has landed.
LEMMA PlanStep ==
    ASSUME BronzeTypeOK, BeginBatch
    PROVE  /\ planned' \in Seq(1 .. Len(landing)) /\ Len(planned') = committed + 1
           /\ Len(planned) <= Len(planned')
           /\ \A b \in 1 .. Len(planned) : planned'[b] = planned[b]
           /\ \A b \in 2 .. Len(planned') : planned'[b - 1] < planned'[b]
<1>0. Len(landing) \in Nat /\ Len(planned) \in Nat /\ committed \in Nat
  BY DEF BronzeTypeOK
<1>1. CASE Len(planned) > committed
  BY <1>0, <1>1 DEF BeginBatch, BronzeTypeOK
<1>2. CASE ~ (Len(planned) > committed)
  <2>1. PICK n \in 1 .. FilesPerBatch :
            /\ Reached(committed) + n <= Len(landing)
            /\ planned' = Append(planned, Reached(committed) + n)
    BY <1>2 DEF BeginBatch
  <2>2. /\ committed = Len(planned) /\ Reached(committed) \in 0 .. Len(landing)
        /\ committed # 0 => Reached(committed) = planned[Len(planned)]
    BY <1>0, <1>2 DEF BronzeTypeOK, Reached
  <2>3. n \in Nat \ {0}
    BY BronzeAssumption
  <2>4. Reached(committed) + n \in 1 .. Len(landing)
    BY <1>0, <2>1, <2>2, <2>3
  <2>5. /\ planned' \in Seq(1 .. Len(landing)) /\ Len(planned') = Len(planned) + 1
        /\ planned'[Len(planned')] = Reached(committed) + n
        /\ \A b \in 1 .. Len(planned) : planned'[b] = planned[b]
    BY <2>1, <2>4 DEF BronzeTypeOK
  <2>6. ASSUME NEW b \in 2 .. Len(planned') PROVE planned'[b - 1] < planned'[b]
    <3>1. CASE b = Len(planned')
      <4>1. b - 1 = Len(planned) /\ b - 1 \in 1 .. Len(planned) /\ committed # 0
        BY <1>0, <2>2, <2>5, <3>1
      <4>2. planned'[b - 1] = Reached(committed)
        BY <2>2, <2>5, <4>1
      <4> QED
        BY <2>2, <2>3, <2>5, <3>1, <4>2
    <3>2. CASE b # Len(planned')
      <4>1. b \in 2 .. Len(planned) /\ b - 1 \in 1 .. Len(planned) /\ b \in 1 .. Len(planned)
        BY <1>0, <2>5, <3>2
      <4>2. planned[b - 1] < planned[b]
        BY <4>1 DEF BronzeTypeOK
      <4> QED
        BY <2>5, <4>1, <4>2
    <3> QED
      BY <3>1, <3>2
  <2> QED
    BY <1>0, <2>2, <2>5, <2>6
<1> QED
  BY <1>1, <1>2

\* Files and plans are only ever added to.
LEMMA PlansGrow ==
    ASSUME BronzeTypeOK, [BronzeNext]_bronzeVars
    PROVE  /\ landing' \in Seq(Contents) /\ Len(landing') <= MaxFiles
           /\ planned' \in Seq(1 .. Len(landing'))
           /\ \A b \in 2 .. Len(planned') : planned'[b - 1] < planned'[b]
           /\ Len(planned) <= Len(planned') /\ Len(landing) <= Len(landing')
           /\ \A f \in 1 .. Len(landing) : landing'[f] = landing[f]
           /\ \A b \in 1 .. Len(planned) : planned'[b] = planned[b]
<1>0. Len(landing) \in Nat /\ Len(planned) \in Nat /\ MaxFiles \in Nat
  BY BronzeAssumption DEF BronzeTypeOK
<1>1. ASSUME NEW content \in Contents, FileLands(content)
      PROVE  /\ landing' \in Seq(Contents) /\ Len(landing') = Len(landing) + 1
             /\ Len(landing') <= MaxFiles /\ planned' = planned
             /\ \A f \in 1 .. Len(landing) : landing'[f] = landing[f]
  BY <1>0, <1>1 DEF FileLands, BronzeTypeOK
<1>2. CASE \E content \in Contents : FileLands(content)
  <2>1. /\ landing' \in Seq(Contents) /\ Len(landing') = Len(landing) + 1
        /\ Len(landing') <= MaxFiles /\ planned' = planned
        /\ \A f \in 1 .. Len(landing) : landing'[f] = landing[f]
    BY <1>1, <1>2
  <2>2. planned \in Seq(1 .. Len(landing)) /\ \A b \in 2 .. Len(planned) : planned[b - 1] < planned[b]
    BY DEF BronzeTypeOK
  <2>3. planned' \in Seq(1 .. Len(landing'))
    BY <1>0, <2>1, <2>2
  <2> QED
    BY <1>0, <2>1, <2>2, <2>3
<1>3. CASE BeginBatch
  <2>1. landing' = landing
    BY <1>3 DEF BeginBatch
  <2> QED
    BY <1>0, <1>3, <2>1, PlanStep DEF BronzeTypeOK
<1>4. CASE UNCHANGED <<landing, planned>>
  BY <1>0, <1>4 DEF BronzeTypeOK
<1> QED
  BY <1>2, <1>3, <1>4
     DEF BronzeNext, bronzeVars, WriteBronze, LogMetrics, CommitBatch, Fail, StartQuery

\* So a planned batch keeps its records, whatever lands and however often it is replayed.
LEMMA BatchesStay ==
    ASSUME BronzeTypeOK, [BronzeNext]_bronzeVars, NEW b \in 1 .. Len(planned)
    PROVE  Batch(b)' = Batch(b)
<1>1. b - 1 # 0 => b - 1 \in 1 .. Len(planned)
  BY DEF BronzeTypeOK
<1>2. Reached(b - 1)' = Reached(b - 1) /\ Reached(b)' = Reached(b)
  BY <1>1, PlansGrow DEF Reached
<1>3. Reached(b - 1) \in 0 .. Len(landing) /\ Reached(b) \in 1 .. Len(landing)
  BY BatchRecords
<1>4. \A f \in Reached(b - 1) + 1 .. Reached(b) : landing'[f] = landing[f]
  <2>1. \A f \in Reached(b - 1) + 1 .. Reached(b) : f \in 1 .. Len(landing)
    BY <1>3 DEF BronzeTypeOK
  <2> QED
    BY <2>1, PlansGrow
<1> QED
  BY <1>2, <1>4 DEF Batch

-----------------------------------------------------------------------------
LEMMA InitBInv == BronzeInit => BInv
<1> SUFFICES ASSUME BronzeInit PROVE BInv
  OBVIOUS
<1>1. /\ landing \in Seq(Contents) /\ Len(landing) = 0
      /\ planned \in Seq(1 .. Len(landing)) /\ Len(planned) = 0
      /\ committed = 0 /\ exists = FALSE /\ reported = {} /\ pc = "down"
  BY DEF BronzeInit
<1>2. \A t \in Ids : bronze[t] = <<>>
  BY DEF BronzeInit
<1>3. bronze \in [Ids -> Seq(Records)]
  <2>1. <<>> \in Seq(Records)
    OBVIOUS
  <2> QED
    BY <2>1 DEF BronzeInit
<1>4. MaxFiles \in Nat
  BY BronzeAssumption
<1>5. \A b \in 2 .. Len(planned) : planned[b - 1] < planned[b]
  <2>1. 2 .. Len(planned) = {}
    BY <1>1
  <2> QED
    BY <2>1
<1>6. /\ Len(landing) <= MaxFiles /\ committed \in 0 .. Len(planned)
      /\ Len(planned) <= committed + 1 /\ reported \subseteq 1 .. Len(planned)
  BY <1>1, <1>4
<1>7. BronzeTypeOK
  BY <1>1, <1>3, <1>5, <1>6 DEF BronzeTypeOK
<1> QED
  BY <1>1, <1>2, <1>7 DEF BInv, RowsOK, TableOK

LEMMA StepBInv == BInv /\ [BronzeNext]_bronzeVars => BInv'
<1> SUFFICES ASSUME BInv, [BronzeNext]_bronzeVars PROVE BInv'
  OBVIOUS
<1> USE DEF BInv
<1>0. Len(landing) \in Nat /\ Len(planned) \in Nat /\ committed \in Nat
  BY DEF BronzeTypeOK
<1>1. /\ landing' \in Seq(Contents) /\ Len(landing') <= MaxFiles
      /\ planned' \in Seq(1 .. Len(landing'))
      /\ \A b \in 2 .. Len(planned') : planned'[b - 1] < planned'[b]
      /\ Len(planned) <= Len(planned') /\ Len(planned') \in Nat
  BY PlansGrow
<1>2. \A b \in 1 .. Len(planned) : b \in 1 .. Len(planned') /\ Batch(b)' = Batch(b)
  BY <1>0, <1>1, BatchesStay
\* A step that leaves the table alone.
<1>3. ASSUME bronze' = bronze PROVE bronze' \in [Ids -> Seq(Records)] /\ RowsOK'
  <2>1. bronze' \in [Ids -> Seq(Records)]
    BY <1>3 DEF BronzeTypeOK
  <2>2. RowsOK'
    BY <1>2, <1>3 DEF RowsOK
  <2> QED
    BY <2>1, <2>2
<1>4. ASSUME bronze' = bronze, exists' = exists PROVE exists' \in BOOLEAN /\ (~ exists' => \A t \in Ids : bronze'[t] = <<>>)
  BY <1>4 DEF BronzeTypeOK, TableOK
<1>5. CASE \E content \in Contents : FileLands(content)
  <2>1. UNCHANGED <<planned, committed, exists, bronze, reported, pc>>
    BY <1>5 DEF FileLands
  <2> QED
    BY <1>0, <1>1, <1>3, <1>4, <2>1 DEF BronzeTypeOK, TableOK
<1>6. CASE BeginBatch
  <2>1. pc' = "batch" /\ UNCHANGED <<landing, committed, exists, bronze, reported>>
    BY <1>6 DEF BeginBatch
  <2>2. Len(planned') = committed + 1
    BY <1>6, PlanStep
  <2>3. reported' \subseteq 1 .. Len(planned')
    BY <1>0, <1>1, <2>1 DEF BronzeTypeOK
  <2> QED
    BY <1>0, <1>1, <1>3, <1>4, <2>1, <2>2, <2>3 DEF BronzeTypeOK, TableOK
<1>7. CASE WriteBronze
  <2>1. /\ pc = "batch" /\ pc' = "written" /\ exists' = TRUE
        /\ UNCHANGED <<landing, planned, committed, reported>>
    BY <1>7 DEF WriteBronze
  <2>2. Len(planned) = committed + 1 /\ Current \in 1 .. Len(planned)
    BY <1>0, <2>1 DEF TableOK, Current
  <2>3. PICK passed \in QualityResults(Batch(Current)), kept \in SUBSET Ids :
            bronze' = [t \in Ids |-> IF t \in kept THEN bronze[t] ELSE RowsOf(t, passed)]
    BY <1>7, WriteOutcome
  <2>4. ASSUME NEW t \in Ids
        PROVE  /\ bronze'[t] \in Seq(Records)
               /\ \/ bronze'[t] = <<>>
                  \/ \E b \in 1 .. Len(planned) : \E r \in Batch(b) :
                         bronze'[t] = <<r>> /\ r.transaction_id = t /\ Passes(r)
    <3>1. CASE bronze'[t] = bronze[t]
      BY <3>1 DEF BronzeTypeOK, RowsOK
    <3>2. CASE bronze'[t] = RowsOf(t, passed)
      <4>1. \/ RowsOf(t, passed) = <<>>
            \/ \E r \in Batch(Current) :
                   RowsOf(t, passed) = <<r>> /\ r.transaction_id = t /\ Passes(r)
        BY RowsOfBatch
      <4>2. Batch(Current) \subseteq Records
        BY <2>2, BatchRecords
      <4>3. CASE RowsOf(t, passed) = <<>>
        BY <3>2, <4>3
      <4>4. ASSUME NEW r \in Batch(Current), RowsOf(t, passed) = <<r>>,
                   r.transaction_id = t, Passes(r)
            PROVE  /\ bronze'[t] \in Seq(Records)
                   /\ \E b \in 1 .. Len(planned) : \E q \in Batch(b) :
                          bronze'[t] = <<q>> /\ q.transaction_id = t /\ Passes(q)
        <5>1. bronze'[t] = <<r>> /\ r \in Records
          BY <3>2, <4>2, <4>4
        <5>2. <<r>> \in Seq(Records)
          BY <5>1
        <5> QED
          BY <2>2, <4>4, <5>1, <5>2
      <4> QED
        BY <4>1, <4>3, <4>4
    <3> QED
      BY <2>3, <3>1, <3>2
  <2>5. bronze' \in [Ids -> Seq(Records)]
    BY <2>3, <2>4
  <2>6. RowsOK'
    BY <1>2, <2>1, <2>4 DEF RowsOK
  <2> QED
    BY <1>1, <2>1, <2>2, <2>5, <2>6 DEF BronzeTypeOK, TableOK
<1>8. CASE LogMetrics
  <2>1. /\ pc = "written" /\ pc' = "reported" /\ reported' = reported \cup {Current}
        /\ UNCHANGED <<landing, planned, committed, exists, bronze>>
    BY <1>8 DEF LogMetrics
  <2>2. Current \in 1 .. Len(planned)
    BY <1>0, <2>1 DEF TableOK, Current
  <2> QED
    BY <1>1, <1>3, <1>4, <2>1, <2>2 DEF BronzeTypeOK, TableOK
<1>9. CASE CommitBatch
  <2>1. /\ pc = "reported" /\ pc' = "waiting" /\ committed' = committed + 1
        /\ UNCHANGED <<landing, planned, exists, bronze, reported>>
    BY <1>9 DEF CommitBatch
  <2>2. committed' \in 0 .. Len(planned) /\ Len(planned) <= committed' + 1
    BY <1>0, <2>1 DEF TableOK
  <2> QED
    BY <1>1, <1>3, <1>4, <2>1, <2>2 DEF BronzeTypeOK, TableOK
<1>10. CASE Fail \/ StartQuery
  <2>1. pc' \in {"down", "waiting"} /\ UNCHANGED <<landing, planned, committed, exists, bronze, reported>>
    BY <1>10 DEF Fail, StartQuery
  <2> QED
    BY <1>1, <1>3, <1>4, <2>1 DEF BronzeTypeOK, TableOK
<1>11. CASE UNCHANGED bronzeVars
  <2>1. UNCHANGED <<landing, planned, committed, exists, bronze, reported, pc>>
    BY <1>11 DEF bronzeVars
  <2> QED
    BY <1>1, <1>3, <1>4, <2>1 DEF BronzeTypeOK, TableOK
<1> QED
  BY <1>5, <1>6, <1>7, <1>8, <1>9, <1>10, <1>11 DEF BronzeNext

LEMMA BronzeInvariance == BronzeSpec => []BInv
BY InitBInv, StepBInv, PTL DEF BronzeSpec

\* The Bronze table after process_batch, in every state and for every number of files,
\* batches, failures and replays: one row per transaction, from a batch that was planned,
\* past the filters, with no raw identifier among its columns.
THEOREM BronzeAlwaysSound == BronzeSpec => []BronzeInvariant
<1>1. ASSUME BInv PROVE OneRowPerTransaction /\ NothingInvented
  <2> USE <1>1 DEF BInv
  <2>1. OneRowPerTransaction
    <3>1. Len(<<>>) <= 1 /\ \A r : Len(<<r>>) <= 1
      OBVIOUS
    <3> QED
      BY <3>1 DEF OneRowPerTransaction, RowsOK
  <2>2. NothingInvented
    BY DEF NothingInvented, RowsOK
  <2> QED
    BY <2>1, <2>2
<1>2. RawIdentifiersDropped
  BY DEF RawIdentifiersDropped, WrittenColumns, RawColumns, Derived, Metadata
<1>3. BInv => BronzeInvariant
  BY <1>1, <1>2 DEF BInv, BronzeInvariant
<1> QED
  BY BronzeInvariance, <1>3, PTL

-----------------------------------------------------------------------------
\* Between its write and its commit the current batch stays in the table.
LEMMA StepCurrentDone ==
    ASSUME BInv, CurrentDone, [BronzeNext]_bronzeVars
    PROVE  CurrentDone'
<1> USE DEF BInv
<1>0. committed \in 0 .. Len(planned) /\ Len(planned) \in Nat
  BY DEF BronzeTypeOK
\* The table, the reports and the place of the query are as they were.
<1>1. ASSUME UNCHANGED <<pc, committed, bronze, reported>> PROVE CurrentDone'
  <2>1. CASE pc \in {"written", "reported"}
    <3>1. Current \in 1 .. Len(planned) /\ Ingested(Current)
      BY <1>0, <2>1 DEF TableOK, Current, CurrentDone
    <3>2. PICK b \in 1 .. Len(planned) : b = Current /\ Ingested(b)
      BY <3>1
    <3>3. Batch(b)' = Batch(b)
      BY BatchesStay
    <3>4. Ingested(b)' /\ Current' = b
      BY <1>1, <3>2, <3>3 DEF Ingested, IdsOf, Current
    <3> QED
      BY <1>1, <3>2, <3>4 DEF CurrentDone
  <2>2. CASE pc \notin {"written", "reported"}
    BY <1>1, <2>2 DEF CurrentDone
  <2> QED
    BY <2>1, <2>2
<1>2. CASE WriteBronze
  <2>1. pc = "batch" /\ pc' = "written" /\ UNCHANGED <<planned, landing, committed>>
    BY <1>2 DEF WriteBronze
  <2>2. Current \in 1 .. Len(planned) /\ Current' = Current /\ Batch(Current)' = Batch(Current)
    BY <1>0, <2>1 DEF TableOK, Current, Batch, Reached
  <2>3. IdsOf(Batch(Current)) \subseteq Ids
    BY <2>2, BatchRecords
  <2>4. PICK passed \in QualityResults(Batch(Current)), kept \in SUBSET Ids :
            /\ bronze' = [t \in Ids |-> IF t \in kept THEN bronze[t] ELSE RowsOf(t, passed)]
            /\ \A t \in kept : bronze[t] # <<>>
    BY <1>2, WriteOutcome
  <2>5. ASSUME NEW t \in IdsOf(Batch(Current)),
               \A r \in Batch(Current) : r.transaction_id = t => Passes(r)
        PROVE  bronze'[t] # <<>>
    BY <2>3, <2>4, <2>5, RowsOfBatch
  <2>6. Ingested(Current)'
    BY <2>2, <2>5 DEF Ingested
  <2> QED
    BY <2>1, <2>6 DEF CurrentDone
<1>3. CASE LogMetrics
  <2>1. /\ pc = "written" /\ pc' = "reported" /\ reported' = reported \cup {Current}
        /\ UNCHANGED <<landing, planned, committed, bronze>>
    BY <1>3 DEF LogMetrics
  <2>2. Current' = Current /\ Batch(Current)' = Batch(Current) /\ Ingested(Current)
    BY <2>1 DEF Current, Batch, Reached, CurrentDone
  <2>3. Ingested(Current)' /\ Current \in reported'
    BY <2>1, <2>2 DEF Ingested
  <2> QED
    BY <2>1, <2>2, <2>3 DEF CurrentDone
<1>4. CASE CommitBatch \/ BeginBatch \/ Fail \/ StartQuery
  <2>1. pc' \in {"batch", "down", "waiting"}
    BY <1>4 DEF CommitBatch, BeginBatch, Fail, StartQuery
  <2> QED
    BY <2>1 DEF CurrentDone
<1>5. CASE (\E content \in Contents : FileLands(content)) \/ UNCHANGED bronzeVars
  BY <1>1, <1>5 DEF FileLands, bronzeVars
<1> QED
  BY <1>2, <1>3, <1>4, <1>5 DEF BronzeNext

\* The checkpoint moves only over a batch that is in MLflow and in the table at that
\* moment, whatever failed and was replayed before and whichever branch wrote it.
THEOREM CheckpointIsEarned == BronzeSpec => CheckpointFollowsTable
<1>1. BronzeInit => CurrentDone
  BY DEF BronzeInit, CurrentDone
<1>2. BInv /\ CurrentDone /\ [BronzeNext]_bronzeVars => CurrentDone'
  BY StepCurrentDone
<1>3. ASSUME BInv, CurrentDone, [BronzeNext]_bronzeVars, committed' # committed
      PROVE  Accounted(committed')
  <2>1. CommitBatch
    BY <1>3 DEF BronzeNext, bronzeVars, FileLands, BeginBatch, WriteBronze, LogMetrics, Fail,
                StartQuery
  <2>2. Current = committed' /\ Current \in reported /\ Ingested(Current)
    BY <1>3, <2>1 DEF CommitBatch, Current, CurrentDone
  <2> QED
    BY <2>2 DEF Ingested, Accounted
<1>4. BInv /\ CurrentDone /\ [BronzeNext]_bronzeVars
        => [committed' # committed => Accounted(committed')]_bronzeVars
  BY <1>3
<1> QED
  BY BronzeInvariance, <1>1, <1>2, <1>4, PTL DEF BronzeSpec, CheckpointFollowsTable
===============================================================================
