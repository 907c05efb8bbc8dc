------------------------------- MODULE Streaming -------------------------------
(***************************************************************************)
(* The transaction simulator of streaming/simulator.py and the producer it *)
(* awaits, streaming/kafka_producer.py: one process, one message at a time. *)
(* A broker that fails raises before or after it stored the message.       *)
(***************************************************************************)
EXTENDS Naturals, Sequences, FiniteSets

CONSTANTS
    Accounts,      \* the pool of _generate_accounts
    Counts,        \* Counts[p]: the lengths a sequence of pattern p may be given
    Normal,        \* _pattern of a normal transaction
    NoSequence,    \* aml_sequence = None
    MaxMessages,   \* bound: the simulator is stopped after that many
    KnowsRetries   \* TRUE: AIOKafkaProducer has a parameter retries; no release of it has

Patterns == {"STRUCTURING", "LAYERING", "ROUND_TRIPPING", "SMURFING"}

ASSUME StreamingAssumption ==
    /\ Counts \in [Patterns -> SUBSET (Nat \ {0})]
    /\ Normal \notin Patterns
    /\ MaxMessages \in Nat
    /\ KnowsRetries \in BOOLEAN

VARIABLES
    process,            \* where the process stands
    aml_sequence,  \* the sequence in progress: pattern, source, step, fixed target, count
    aml_remaining, \* its transactions still to come
    message,       \* the message being sent: number, pattern, source, target, sequence number
    generated,     \* messages generated
    sequences,     \* sequences begun
    total_sent,
    topic, dlq,    \* the logs of the broker
    stderr,        \* as last resort the error is printed, not the message; this remembers
                   \* whose error it was
    ack_lost       \* history: messages the broker stored in the topic although send raised

streamVars == <<process, aml_sequence, aml_remaining, message, generated, sequences, total_sent,
          topic, dlq, stderr, ack_lost>>

simulator == <<aml_sequence, aml_remaining, message, generated, sequences>>
broker == <<topic, dlq, stderr, ack_lost>>

Txns == [number : 1 .. MaxMessages, pattern : Patterns \cup {Normal},
         source : Accounts, target : Accounts, sequence : 0 .. MaxMessages]
Sequence == [pattern : Patterns, original_source : Accounts, step : {0},
             fixed_target : Accounts, count : UNION {Counts[p] : p \in Patterns}]
Elements(s) == {s[i] : i \in DOMAIN s}
Numbers(s) == {m.number : m \in Elements(s)}

StreamTypeOK ==
    /\ process \in {"new", "looping", "sending", "dead_lettering", "closing", "flushing",
              "flushing_dlq", "ended"}
    /\ aml_sequence \in Sequence \cup {NoSequence}
    /\ aml_remaining \in Nat
    /\ message \in Txns \cup {NoSequence}
    /\ {generated, sequences, total_sent} \subseteq 0 .. MaxMessages
    /\ topic \in Seq(Txns)
    /\ dlq \in Seq(Txns)
    /\ stderr \cup ack_lost \subseteq 1 .. MaxMessages

StreamInit ==
    /\ process = "new"
    /\ aml_sequence = NoSequence
    /\ aml_remaining = 0
    /\ message = NoSequence
    /\ generated = 0 /\ sequences = 0 /\ total_sent = 0
    /\ topic = <<>> /\ dlq = <<>>
    /\ stderr = {} /\ ack_lost = {}

-----------------------------------------------------------------------------
(* Starting *)

\* The constructor refuses retries = 5, or the connection fails: main ends outside its
\* try block.
StartRaises ==
    /\ process = "new"
    /\ process' = "ended"
    /\ UNCHANGED <<simulator, total_sent, broker>>

StartProducer ==
    /\ process = "new" /\ KnowsRetries
    /\ process' = "looping"
    /\ UNCHANGED <<simulator, total_sent, broker>>

-----------------------------------------------------------------------------
(* One turn of the loop of run() up to the await of send *)

\* generate_normal_transaction: two different accounts.
NormalTransaction(source, target) ==
    [number |-> generated + 1, pattern |-> Normal, source |-> source, target |-> target,
     sequence |-> 0]

\* generate_aml_transaction: the pattern decides the target.  step stays 0, so the
\* branch that would send money back to the original source is never taken.
AmlTransaction(txn, s, n) ==
    LET target == CASE s.pattern = "ROUND_TRIPPING" /\ s.step > 0 -> s.original_source
                    [] s.pattern = "SMURFING" -> s.fixed_target
                    [] OTHER -> txn.target
    IN  [txn EXCEPT !.pattern = s.pattern, !.target = target, !.sequence = n]

Sending(txn) ==
    /\ message' = txn
    /\ generated' = generated + 1
    /\ process' = "sending"
    /\ UNCHANGED <<total_sent, broker>>

\* Mutant: the last transaction of a sequence is forgotten.
InSequenceShort == aml_remaining > 1 /\ aml_sequence # NoSequence

InSequence == aml_remaining > 0 /\ aml_sequence # NoSequence

ContinueSequence(txn) ==
    /\ InSequence
    /\ aml_remaining' = aml_remaining - 1
    /\ Sending(AmlTransaction(txn, aml_sequence, sequences))
    /\ UNCHANGED <<aml_sequence, sequences>>

BeginSequence(txn, pattern, source, target, count) ==
    /\ ~InSequence
    /\ aml_sequence' = [pattern |-> pattern, original_source |-> source, step |-> 0,
                        fixed_target |-> target, count |-> count]
    /\ aml_remaining' = count - 1
    /\ sequences' = sequences + 1
    /\ Sending(AmlTransaction(txn, aml_sequence', sequences + 1))

SendNormal(txn) ==
    /\ ~InSequence
    /\ aml_sequence' = NoSequence
    /\ Sending(txn)
    /\ UNCHANGED <<aml_remaining, sequences>>

Turn ==
    /\ process = "looping"
    /\ generated < MaxMessages
    /\ \E source \in Accounts : \E target \in Accounts \ {source} :
           LET txn == NormalTransaction(source, target) IN
               \/ ContinueSequence(txn)
               \/ SendNormal(txn)
               \/ \E p \in Patterns, s \in Accounts, t \in Accounts : \E count \in Counts[p] :
                      BeginSequence(txn, p, s, t, count)

-----------------------------------------------------------------------------
(* send and _send_to_dlq *)

\* The await of send returns: the message counts as sent, wherever it is.
Returned == process' = "looping" /\ total_sent' = total_sent + 1

\* Mutant: the dead-letter queue is written in a finally block.
SendAckedFinally ==
    /\ process = "sending"
    /\ topic' = Append(topic, message)
    /\ process' = "dead_lettering"
    /\ UNCHANGED <<simulator, total_sent, dlq, stderr, ack_lost>>

SendAcked ==
    /\ process = "sending"
    /\ topic' = Append(topic, message)
    /\ Returned
    /\ UNCHANGED <<simulator, dlq, stderr, ack_lost>>

\* Any exception leads to the dead-letter queue, one after the broker stored the
\* message included.
SendRaises ==
    /\ process = "sending"
    /\ \/ UNCHANGED <<topic, ack_lost>>
       \/ /\ topic' = Append(topic, message)
          /\ ack_lost' = ack_lost \cup {message.number}
    /\ process' = "dead_lettering"
    /\ UNCHANGED <<simulator, total_sent, dlq, stderr>>

DlqAcked ==
    /\ process = "dead_lettering"
    /\ dlq' = Append(dlq, message)
    /\ Returned
    /\ UNCHANGED <<simulator, topic, stderr, ack_lost>>

\* Mutant: a second failure is not reported.
DlqRaisesSilently ==
    /\ process = "dead_lettering"
    /\ Returned
    /\ UNCHANGED <<simulator, broker>>

DlqRaises ==
    /\ process = "dead_lettering"
    /\ dlq' \in {dlq, Append(dlq, message)}
    /\ stderr' = stderr \cup {message.number}
    /\ Returned
    /\ UNCHANGED <<simulator, topic, ack_lost>>

-----------------------------------------------------------------------------
(* Stopping: Ctrl+C or a signal cancels the task at its await *)

Interrupt ==
    /\ \/ process = "looping" /\ process' = "closing"
       \/ process = "sending" /\ process' = "flushing"
       \/ process = "dead_lettering" /\ process' = "flushing_dlq"
    /\ UNCHANGED <<simulator, total_sent, broker>>

\* Mutant: a producer with a message in flight is not stopped.
StopWhenIdle ==
    /\ process = "closing"
    /\ process' = "ended"
    /\ UNCHANGED <<simulator, total_sent, broker>>

\* stop() flushes what the cancelled await left in the buffer, or fails to.
Stop ==
    /\ process \in {"closing", "flushing", "flushing_dlq"}
    /\ process' = "ended"
    /\ topic' \in {topic} \cup (IF process = "flushing" THEN {Append(topic, message)} ELSE {})
    /\ dlq' \in {dlq} \cup (IF process = "flushing_dlq" THEN {Append(dlq, message)} ELSE {})
    /\ UNCHANGED <<simulator, total_sent, stderr, ack_lost>>

-----------------------------------------------------------------------------
StreamNext ==
    \/ StartRaises \/ StartProducer \/ Turn
    \/ SendAcked \/ SendRaises \/ DlqAcked \/ DlqRaises
    \/ Interrupt \/ Stop

StreamSpec == StreamInit /\ [][StreamNext]_streamVars

\* A send returns or raises, its request timeout sees to that, and a cancelled task
\* runs its finally block; the loop itself may be interrupted at any time.
StreamFairSpec ==
    /\ StreamSpec
    /\ WF_streamVars(SendAcked \/ SendRaises)
    /\ WF_streamVars(DlqAcked \/ DlqRaises)
    /\ WF_streamVars(Stop)

-----------------------------------------------------------------------------
(* Properties *)

\* The producer implements its promise: each message is in the topic or in the dead-letter
\* queue, or its error is on stderr, before the next one is taken; only the one whose await
\* was cancelled may be nowhere.  (stderr tells that a message was lost, not which.)
FateOf(n) ==
    {p \in {"topic", "dlq", "stderr"} :
        CASE p = "topic" -> n \in Numbers(topic)
          [] p = "dlq" -> n \in Numbers(dlq)
          [] OTHER -> n \in stderr}

Promise == INSTANCE DeliveryPromise WITH
    fate <- [n \in 1 .. generated |-> FateOf(n)], closed <- process = "ended"

DeliveryPromiseKept == Promise!PromiseSpec

\* Neither log holds a message twice or out of the order of sending, so messages of one
\* account, which share a partition, are ordered: an exception never makes the producer
\* send to the same log again.
Ascending(s) == \A i, j \in DOMAIN s : i < j => s[i].number < s[j].number
LogsInOrder == Ascending(topic) /\ Ascending(dlq)

\* A message is in both logs only if an acknowledgement was lost: replaying the
\* dead-letter queue duplicates nothing else.
TwiceOnlyByLostAck == Numbers(topic) \cap Numbers(dlq) \subseteq ack_lost

\* The messages of a sequence share its pattern, and those of a smurfing sequence their
\* beneficiary, across both logs.
SequencesConsistent ==
    \A m, n \in Elements(topic) \cup Elements(dlq) :
        m.sequence = n.sequence =>
            /\ m.pattern = n.pattern
            /\ m.pattern = "SMURFING" => m.target = n.target

\* The two logs, taken together, in every state of the loop.
LogsInvariant == StreamTypeOK /\ LogsInOrder /\ TwiceOnlyByLostAck /\ SequencesConsistent

\* A sequence is left only when all its messages, as many as were planned, have been
\* stored, unless one was reported lost: normal transactions and other sequences never
\* come in between.
SequencesAreWhole ==
    [][aml_sequence' # aml_sequence /\ aml_sequence # NoSequence /\ stderr = {} =>
        Cardinality({m \in Elements(topic) \cup Elements(dlq) : m.sequence = sequences})
            = aml_sequence.count]_streamVars

\* A message taken is eventually accounted for, or the process has ended.
TakenSettles == process = "sending" ~> process \in {"looping", "ended"}
===============================================================================
