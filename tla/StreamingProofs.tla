---------------------------- MODULE StreamingProofs ----------------------------
(* Proofs about Streaming, for any pool of accounts, any lengths of the sequences and any
   number of messages: what the logs hold, and that the producer implements
   DeliveryPromise. *)
EXTENDS Streaming, FiniteSetTheorems, SequenceTheorems, TLAPS

InFlight == {"sending", "dead_lettering", "flushing", "flushing_dlq"}

\* The counters agree, and whoever is in flight is the last message generated.
CountersOK ==
    /\ total_sent <= generated /\ sequences <= generated
    /\ process = "new" => generated = 0
    /\ process \in InFlight => generated > 0
    /\ process \in {"sending", "dead_lettering"} => total_sent < generated
    /\ generated > 0 => message \in Txns /\ message.number = generated

\* Where the message in flight cannot be yet.
LogsBehind ==
    /\ \A m \in Elements(topic) \cup Elements(dlq) :
           m.number <= generated /\ (m.number = generated => m = message)
    /\ stderr \subseteq 1 .. generated
    /\ process \in InFlight => generated \notin Numbers(dlq)
    /\ process \in {"sending", "flushing"} => generated \notin Numbers(topic)
    /\ process \in {"dead_lettering", "flushing_dlq"} /\ generated \in Numbers(topic)
          => generated \in ack_lost

\* Every message but the one in flight has a fate.
SettledBefore ==
    \A n \in 1 .. generated : n # generated \/ process = "looping" => FateOf(n) # {}

IInv ==
    /\ StreamTypeOK /\ CountersOK /\ LogsBehind /\ LogsInOrder /\ TwiceOnlyByLostAck
    /\ SettledBefore

-----------------------------------------------------------------------------
\* A log after one more message.
LEMMA LogAppended ==
    ASSUME NEW s \in Seq(Txns), NEW m \in Txns
    PROVE  /\ Append(s, m) \in Seq(Txns)
           /\ Elements(Append(s, m)) = Elements(s) \cup {m}
           /\ Numbers(Append(s, m)) = Numbers(s) \cup {m.number}
           /\ Ascending(s) /\ (\A e \in Elements(s) : e.number < m.number)
                => Ascending(Append(s, m))
<1>1. /\ Append(s, m) \in Seq(Txns) /\ Len(s) \in Nat
      /\ DOMAIN s = 1 .. Len(s) /\ DOMAIN Append(s, m) = 1 .. Len(s) + 1
      /\ Append(s, m)[Len(s) + 1] = m /\ \A i \in 1 .. Len(s) : Append(s, m)[i] = s[i]
  OBVIOUS
<1>2. Elements(Append(s, m)) = Elements(s) \cup {m}
  BY <1>1 DEF Elements
<1>3. Numbers(Append(s, m)) = Numbers(s) \cup {m.number}
  BY <1>2 DEF Numbers
<1>4. ASSUME Ascending(s), \A e \in Elements(s) : e.number < m.number,
             NEW i \in 1 .. Len(s) + 1, NEW j \in 1 .. Len(s) + 1, i < j
      PROVE  Append(s, m)[i].number < Append(s, m)[j].number
  <2>1. i \in 1 .. Len(s) /\ s[i] \in Elements(s)
    BY <1>1, <1>4 DEF Elements
  <2>2. CASE j = Len(s) + 1
    BY <1>1, <1>4, <2>1, <2>2
  <2>3. CASE j # Len(s) + 1
    BY <1>1, <1>4, <2>1, <2>3 DEF Ascending
  <2> QED
    BY <2>2, <2>3
<1> QED
  BY <1>1, <1>2, <1>3, <1>4 DEF Ascending

\* What the logs hold are messages, with numbers.
LEMMA LogElements ==
    ASSUME StreamTypeOK
    PROVE  /\ Elements(topic) \subseteq Txns /\ Elements(dlq) \subseteq Txns
           /\ \A m \in Txns : m.number \in 1 .. MaxMessages /\ m.sequence \in 0 .. MaxMessages
<1>1. \A i \in DOMAIN topic : topic[i] \in Txns
  BY DEF StreamTypeOK
<1>2. \A i \in DOMAIN dlq : dlq[i] \in Txns
  BY DEF StreamTypeOK
<1>3. \A m \in Txns : m.number \in 1 .. MaxMessages /\ m.sequence \in 0 .. MaxMessages
  BY DEF Txns
<1> QED
  BY <1>1, <1>2, <1>3 DEF Elements

\* Where a message can be found.
LEMMA Fates ==
    ASSUME NEW n
    PROVE  /\ FateOf(n) \subseteq {"topic", "dlq", "stderr"}
           /\ "topic" \in FateOf(n) <=> n \in Numbers(topic)
           /\ "dlq" \in FateOf(n) <=> n \in Numbers(dlq)
           /\ "stderr" \in FateOf(n) <=> n \in stderr
BY DEF FateOf

\* What a turn of the loop takes: a new message of known accounts and pattern, with the
\* number of the sequence it belongs to.
LEMMA TurnOutcome ==
    ASSUME StreamTypeOK, sequences <= generated, Turn
    PROVE  /\ process = "looping" /\ process' = "sending"
           /\ generated < MaxMessages /\ generated' = generated + 1
           /\ message' \in Txns /\ message'.number = generated + 1
           /\ aml_sequence' \in Sequence \cup {NoSequence} /\ aml_remaining' \in Nat
           /\ sequences' \in 0 .. generated'
           /\ UNCHANGED <<total_sent, broker>>
<1>0. generated \in Nat /\ MaxMessages \in Nat /\ sequences \in 0 .. MaxMessages /\ generated < MaxMessages
  BY StreamingAssumption DEF StreamTypeOK, Turn
<1>1. PICK source \in Accounts : \E target \in Accounts \ {source} :
          LET txn == NormalTransaction(source, target) IN
              \/ ContinueSequence(txn)
              \/ SendNormal(txn)
              \/ \E p \in Patterns, s \in Accounts, t \in Accounts : \E count \in Counts[p] :
                     BeginSequence(txn, p, s, t, count)
  BY DEF Turn
<1>t. PICK target \in Accounts \ {source} :
          LET txn == NormalTransaction(source, target) IN
              \/ ContinueSequence(txn)
              \/ SendNormal(txn)
              \/ \E p \in Patterns, s \in Accounts, t \in Accounts : \E count \in Counts[p] :
                     BeginSequence(txn, p, s, t, count)
  BY <1>1
<1> DEFINE txn == NormalTransaction(source, target)
<1>2. txn \in Txns /\ txn.number = generated + 1 /\ txn.target = target
  BY <1>0 DEF NormalTransaction, Txns
<1>3. ASSUME NEW s \in Sequence, NEW n \in 0 .. MaxMessages
      PROVE  AmlTransaction(txn, s, n) \in Txns /\ AmlTransaction(txn, s, n).number = generated + 1
  <2>1. s.pattern \in Patterns /\ s.original_source \in Accounts /\ s.fixed_target \in Accounts /\ s.step = 0
    BY DEF Sequence
  <2> QED
    BY <1>2, <2>1 DEF AmlTransaction, Txns
<1>4. CASE ContinueSequence(txn)
  <2>1. aml_sequence \in Sequence /\ aml_remaining \in Nat /\ aml_remaining > 0
    BY <1>4 DEF ContinueSequence, InSequence, StreamTypeOK
  <2> QED
    BY <1>0, <1>3, <1>4, <2>1 DEF ContinueSequence, Sending, Turn
<1>5. CASE SendNormal(txn)
  BY <1>0, <1>2, <1>5 DEF SendNormal, Sending, Turn, StreamTypeOK
<1>6. ASSUME NEW p \in Patterns, NEW s \in Accounts, NEW t \in Accounts, NEW count \in Counts[p],
             BeginSequence(txn, p, s, t, count)
      PROVE  /\ message' \in Txns /\ message'.number = generated + 1
             /\ aml_sequence' \in Sequence /\ aml_remaining' \in Nat
             /\ sequences' \in 0 .. generated + 1
             /\ generated' = generated + 1 /\ process' = "sending" /\ UNCHANGED <<total_sent, broker>>
  <2>1. count \in Nat \ {0} /\ count \in UNION {Counts[q] : q \in Patterns}
    BY StreamingAssumption
  <2>2. aml_sequence' \in Sequence
    BY <1>6, <2>1 DEF BeginSequence, Sequence
  <2>3. sequences + 1 \in 0 .. MaxMessages
    BY <1>0
  <2> QED
    BY <1>0, <1>3, <1>6, <2>1, <2>2, <2>3 DEF BeginSequence, Sending
<1> QED
  BY <1>0, <1>t, <1>4, <1>5, <1>6 DEF Turn

\* What any other step leaves of the logs: each is as it was, or has the message in
\* flight appended.
LEMMA LogsOutcome ==
    ASSUME [StreamNext]_streamVars, ~ Turn
    PROVE  /\ UNCHANGED <<aml_sequence, aml_remaining, message, generated, sequences>>
           /\ topic' = topic \/ (process \in {"sending", "flushing"} /\ topic' = Append(topic, message))
           /\ dlq' = dlq \/ (process \in {"dead_lettering", "flushing_dlq"} /\ dlq' = Append(dlq, message))
           /\ stderr' = stderr \/ (process = "dead_lettering" /\ stderr' = stderr \cup {message.number})
           /\ ack_lost' = ack_lost \/ (process = "sending" /\ ack_lost' = ack_lost \cup {message.number})
<1>1. CASE StartRaises \/ StartProducer \/ Interrupt
  BY <1>1 DEF StartRaises, StartProducer, Interrupt, simulator, broker
<1>2. CASE SendAcked \/ DlqAcked
  BY <1>2 DEF SendAcked, DlqAcked, simulator
<1>3. CASE SendRaises \/ DlqRaises
  BY <1>3 DEF SendRaises, DlqRaises, simulator
<1>4. CASE Stop
  BY <1>4 DEF Stop, simulator
<1>5. CASE UNCHANGED streamVars
  BY <1>5 DEF streamVars
<1> QED
  BY <1>1, <1>2, <1>3, <1>4, <1>5 DEF StreamNext

\* What such a step does to the logs: they stay in order, and only the message in flight
\* is new in them.
LEMMA LogsStep ==
    ASSUME IInv, [StreamNext]_streamVars, ~ Turn
    PROVE  /\ topic' \in Seq(Txns) /\ dlq' \in Seq(Txns) /\ LogsInOrder'
           /\ stderr' \subseteq 1 .. generated /\ ack_lost' \subseteq 1 .. MaxMessages
           /\ \/ Elements(topic)' = Elements(topic) /\ Numbers(topic)' = Numbers(topic)
              \/ /\ process \in {"sending", "flushing"}
                 /\ Elements(topic)' = Elements(topic) \cup {message}
                 /\ Numbers(topic)' = Numbers(topic) \cup {generated}
           /\ \/ Elements(dlq)' = Elements(dlq) /\ Numbers(dlq)' = Numbers(dlq)
              \/ /\ process \in {"dead_lettering", "flushing_dlq"}
                 /\ Elements(dlq)' = Elements(dlq) \cup {message}
                 /\ Numbers(dlq)' = Numbers(dlq) \cup {generated}
           /\ stderr' = stderr \/ (process = "dead_lettering" /\ stderr' = stderr \cup {generated})
           /\ ack_lost' = ack_lost \/ (process = "sending" /\ ack_lost' = ack_lost \cup {generated})
<1> USE DEF IInv
<1>0. generated \in 0 .. MaxMessages /\ MaxMessages \in Nat
  BY StreamingAssumption DEF StreamTypeOK
<1>1. process \in InFlight => generated > 0 /\ message \in Txns /\ message.number = generated
  BY DEF CountersOK
<1>2. /\ topic' = topic \/ (process \in {"sending", "flushing"} /\ topic' = Append(topic, message))
      /\ dlq' = dlq \/ (process \in {"dead_lettering", "flushing_dlq"} /\ dlq' = Append(dlq, message))
      /\ stderr' = stderr \/ (process = "dead_lettering" /\ stderr' = stderr \cup {message.number})
      /\ ack_lost' = ack_lost \/ (process = "sending" /\ ack_lost' = ack_lost \cup {message.number})
  BY LogsOutcome
<1>3. \A m \in Elements(topic) \cup Elements(dlq) : m \in Txns /\ m.number \in Nat /\ m.number <= generated
  <2>1. \A m \in Txns : m.number \in Nat
    BY LogElements, <1>0
  <2> QED
    BY <2>1, LogElements DEF LogsBehind
<1>4. /\ topic' \in Seq(Txns) /\ Ascending(topic)'
      /\ \/ Elements(topic)' = Elements(topic) /\ Numbers(topic)' = Numbers(topic)
         \/ /\ process \in {"sending", "flushing"}
            /\ Elements(topic)' = Elements(topic) \cup {message}
            /\ Numbers(topic)' = Numbers(topic) \cup {generated}
  <2>1. topic \in Seq(Txns) /\ Ascending(topic)
    BY DEF StreamTypeOK, LogsInOrder
  <2>2. CASE topic' = topic
    BY <2>1, <2>2
  <2>3. CASE process \in {"sending", "flushing"} /\ topic' = Append(topic, message)
    <3>1. \A e \in Elements(topic) : e.number < message.number
      <4>1. \A e \in Elements(topic) : e.number # generated
        BY <2>3 DEF LogsBehind, Numbers
      <4> QED
        BY <1>0, <1>1, <1>3, <2>3, <4>1 DEF InFlight
    <3>2. message \in Txns /\ message.number = generated
      BY <1>1, <2>3 DEF InFlight
    <3> QED
      BY <2>1, <2>3, <3>1, <3>2, LogAppended
  <2> QED
    BY <1>2, <2>2, <2>3
<1>5. /\ dlq' \in Seq(Txns) /\ Ascending(dlq)'
      /\ \/ Elements(dlq)' = Elements(dlq) /\ Numbers(dlq)' = Numbers(dlq)
         \/ /\ process \in {"dead_lettering", "flushing_dlq"}
            /\ Elements(dlq)' = Elements(dlq) \cup {message}
            /\ Numbers(dlq)' = Numbers(dlq) \cup {generated}
  <2>1. dlq \in Seq(Txns) /\ Ascending(dlq)
    BY DEF StreamTypeOK, LogsInOrder
  <2>2. CASE dlq' = dlq
    BY <2>1, <2>2
  <2>3. CASE process \in {"dead_lettering", "flushing_dlq"} /\ dlq' = Append(dlq, message)
    <3>1. \A e \in Elements(dlq) : e.number < message.number
      <4>1. \A e \in Elements(dlq) : e.number # generated
        BY <2>3 DEF LogsBehind, Numbers, InFlight
      <4> QED
        BY <1>0, <1>1, <1>3, <2>3, <4>1 DEF InFlight
    <3>2. message \in Txns /\ message.number = generated
      BY <1>1, <2>3 DEF InFlight
    <3> QED
      BY <2>1, <2>3, <3>1, <3>2, LogAppended
  <2> QED
    BY <1>2, <2>2, <2>3
<1>6. /\ stderr' = stderr \/ (process = "dead_lettering" /\ stderr' = stderr \cup {generated})
      /\ ack_lost' = ack_lost \/ (process = "sending" /\ ack_lost' = ack_lost \cup {generated})
  BY <1>1, <1>2 DEF InFlight
<1>7. stderr' \subseteq 1 .. generated /\ ack_lost' \subseteq 1 .. MaxMessages
  <2>1. stderr \subseteq 1 .. generated /\ ack_lost \subseteq 1 .. MaxMessages
    BY DEF LogsBehind, StreamTypeOK
  <2>2. process \in InFlight => generated \in 1 .. generated /\ generated \in 1 .. MaxMessages
    BY <1>0, <1>1
  <2> QED
    BY <1>6, <2>1, <2>2 DEF InFlight
<1> QED
  BY <1>4, <1>5, <1>6, <1>7 DEF LogsInOrder

\* A fate is never taken back, and a step that is no turn changes only the last one.
LEMMA FatesStep ==
    ASSUME IInv, [StreamNext]_streamVars, ~ Turn, NEW n
    PROVE  /\ FateOf(n) \subseteq FateOf(n)'
           /\ n # generated => FateOf(n)' = FateOf(n)
           /\ FateOf(n)' \subseteq {"topic", "dlq", "stderr"}
<1>1. /\ Numbers(topic) \subseteq Numbers(topic)' /\ Numbers(topic)' \subseteq Numbers(topic) \cup {generated}
      /\ Numbers(dlq) \subseteq Numbers(dlq)' /\ Numbers(dlq)' \subseteq Numbers(dlq) \cup {generated}
      /\ stderr \subseteq stderr' /\ stderr' \subseteq stderr \cup {generated}
  BY LogsStep
<1> QED
  BY <1>1 DEF FateOf

-----------------------------------------------------------------------------
LEMMA InitIInv == StreamInit => IInv
<1> SUFFICES ASSUME StreamInit PROVE IInv
  OBVIOUS
<1>1. MaxMessages \in Nat
  BY StreamingAssumption
<1>2. /\ process = "new" /\ generated = 0 /\ sequences = 0 /\ total_sent = 0
      /\ topic = <<>> /\ dlq = <<>> /\ stderr = {} /\ ack_lost = {}
  BY DEF StreamInit
<1>3. Elements(topic) = {} /\ Elements(dlq) = {} /\ Numbers(topic) = {} /\ Numbers(dlq) = {}
  BY <1>2 DEF Elements, Numbers
<1>4. StreamTypeOK
  <2>1. {generated, sequences, total_sent} \subseteq 0 .. MaxMessages
    BY <1>1, <1>2
  <2>2. topic \in Seq(Txns) /\ dlq \in Seq(Txns) /\ stderr \cup ack_lost \subseteq 1 .. MaxMessages
    BY <1>2
  <2> QED
    BY <1>2, <2>1, <2>2 DEF StreamInit, StreamTypeOK
<1>5. CountersOK /\ LogsBehind
  BY <1>2, <1>3 DEF CountersOK, LogsBehind, InFlight
<1>6. LogsInOrder /\ TwiceOnlyByLostAck /\ SettledBefore
  BY <1>2, <1>3 DEF LogsInOrder, Ascending, TwiceOnlyByLostAck, SettledBefore
<1> QED
  BY <1>4, <1>5, <1>6 DEF IInv

LEMMA TurnIInv == IInv /\ Turn => IInv'
<1> SUFFICES ASSUME IInv, Turn PROVE IInv'
  OBVIOUS
<1> USE DEF IInv
<1>0. /\ generated \in Nat /\ MaxMessages \in Nat /\ total_sent \in 0 .. MaxMessages
      /\ total_sent <= generated /\ sequences <= generated
  BY StreamingAssumption DEF StreamTypeOK, CountersOK
<1>1. /\ process = "looping" /\ process' = "sending"
      /\ generated < MaxMessages /\ generated' = generated + 1
      /\ message' \in Txns /\ message'.number = generated + 1
      /\ aml_sequence' \in Sequence \cup {NoSequence} /\ aml_remaining' \in Nat
      /\ sequences' \in 0 .. generated'
      /\ UNCHANGED <<total_sent, broker>>
  BY <1>0, TurnOutcome
<1>2. UNCHANGED <<topic, dlq, stderr, ack_lost>>
  BY <1>1 DEF broker
<1>3. /\ Elements(topic)' = Elements(topic) /\ Elements(dlq)' = Elements(dlq)
      /\ Numbers(topic)' = Numbers(topic) /\ Numbers(dlq)' = Numbers(dlq)
  BY <1>2 DEF Elements, Numbers
<1>4. \A m \in Elements(topic) \cup Elements(dlq) : m.number \in Nat /\ m.number <= generated
  <2>1. \A m \in Txns : m.number \in Nat
    BY <1>0, LogElements
  <2> QED
    BY <2>1, LogElements DEF LogsBehind
<1>5. StreamTypeOK'
  <2>1. {generated', sequences', total_sent'} \subseteq 0 .. MaxMessages
    BY <1>0, <1>1
  <2> QED
    BY <1>1, <1>2, <2>1 DEF StreamTypeOK
<1>6. CountersOK'
  BY <1>0, <1>1 DEF CountersOK
<1>7. LogsBehind'
  <2>1. \A m \in Elements(topic) \cup Elements(dlq) : m.number <= generated' /\ m.number # generated'
    BY <1>0, <1>1, <1>4
  <2>2. stderr \subseteq 1 .. generated'
    BY <1>0, <1>1 DEF LogsBehind
  <2>3. generated' \notin Numbers(topic) /\ generated' \notin Numbers(dlq)
    BY <2>1 DEF Numbers
  <2> QED
    BY <1>1, <1>2, <1>3, <2>1, <2>2, <2>3 DEF LogsBehind
<1>8. LogsInOrder' /\ TwiceOnlyByLostAck'
  BY <1>2, <1>3 DEF LogsInOrder, Ascending, TwiceOnlyByLostAck
<1>9. SettledBefore'
  <2>1. \A n \in 1 .. generated : FateOf(n) # {}
    BY <1>1 DEF SettledBefore
  <2>2. \A n : FateOf(n)' = FateOf(n)
    BY <1>2, <1>3 DEF FateOf
  <2>3. \A n \in 1 .. generated' : n # generated' => n \in 1 .. generated
    BY <1>0, <1>1
  <2> QED
    BY <1>1, <2>1, <2>2, <2>3 DEF SettledBefore
<1> QED
  BY <1>5, <1>6, <1>7, <1>8, <1>9

LEMMA StepIInv == IInv /\ [StreamNext]_streamVars => IInv'
<1> SUFFICES ASSUME IInv, [StreamNext]_streamVars, ~ Turn PROVE IInv'
  BY TurnIInv
<1> USE DEF IInv
<1>0. generated \in Nat /\ MaxMessages \in Nat /\ total_sent \in 0 .. MaxMessages
  BY StreamingAssumption DEF StreamTypeOK
<1>1. UNCHANGED <<aml_sequence, aml_remaining, message, generated, sequences>>
  BY LogsOutcome
<1>2. process \in InFlight => generated > 0 /\ message \in Txns /\ message.number = generated
  BY DEF CountersOK
\* Where the process goes, and what it counts.
<1>3. /\ process' \in {"new", "looping", "dead_lettering", "closing", "flushing", "flushing_dlq",
                  "ended"} \/ (process' = "sending" /\ process = "sending" /\ UNCHANGED streamVars)
      /\ process' = "new" => process = "new"
      /\ process' = "dead_lettering" => process = "sending" \/ UNCHANGED streamVars
      /\ process' = "flushing" => UNCHANGED streamVars \/ (process = "sending" /\ UNCHANGED broker)
      /\ process' = "flushing_dlq" => UNCHANGED streamVars \/ (process = "dead_lettering" /\ UNCHANGED broker)
      /\ \/ total_sent' = total_sent
         \/ process \in {"sending", "dead_lettering"} /\ process' = "looping" /\ total_sent' = total_sent + 1
  <2>1. CASE StartRaises \/ StartProducer \/ Interrupt
    BY <2>1 DEF StartRaises, StartProducer, Interrupt
  <2>2. CASE SendAcked \/ DlqAcked \/ DlqRaises
    BY <2>2 DEF SendAcked, DlqAcked, DlqRaises, Returned
  <2>3. CASE SendRaises \/ Stop
    BY <2>3 DEF SendRaises, Stop
  <2>4. CASE UNCHANGED streamVars
    <3>1. process' = process /\ total_sent' = total_sent
      BY <2>4 DEF streamVars
    <3>2. process \in {"new", "looping", "dead_lettering", "closing", "flushing", "flushing_dlq",
                  "ended"} \/ process = "sending"
      BY DEF StreamTypeOK
    <3> QED
      BY <2>4, <3>1, <3>2
  <2> QED
    BY <2>1, <2>2, <2>3, <2>4 DEF StreamNext
<1>4. process' = "looping" => \/ process = "looping" /\ UNCHANGED streamVars
                              \/ process = "new"
                              \/ process \in InFlight /\ FateOf(generated)' # {}
  <2>1. CASE SendAcked
    <3>1. topic' = Append(topic, message) /\ process = "sending"
      BY <2>1 DEF SendAcked
    <3>2. generated \in Numbers(topic)'
      BY <1>2, <3>1, LogAppended DEF StreamTypeOK, InFlight
    <3> QED
      BY <1>1, <3>1, <3>2 DEF FateOf, InFlight
  <2>2. CASE DlqAcked
    <3>1. dlq' = Append(dlq, message) /\ process = "dead_lettering"
      BY <2>2 DEF DlqAcked
    <3>2. generated \in Numbers(dlq)'
      BY <1>2, <3>1, LogAppended DEF StreamTypeOK, InFlight
    <3> QED
      BY <1>1, <3>1, <3>2 DEF FateOf, InFlight
  <2>3. CASE DlqRaises
    <3>1. process = "dead_lettering" /\ generated \in stderr'
      BY <1>2, <2>3 DEF DlqRaises, InFlight
    <3> QED
      BY <1>1, <3>1 DEF FateOf, InFlight
  <2>4. CASE StartRaises \/ StartProducer \/ SendRaises \/ Interrupt \/ Stop \/ UNCHANGED streamVars
    BY <2>4 DEF StartRaises, StartProducer, SendRaises, Interrupt, Stop, streamVars
  <2> QED
    BY <2>1, <2>2, <2>3, <2>4 DEF StreamNext
<1>5. /\ topic' \in Seq(Txns) /\ dlq' \in Seq(Txns) /\ LogsInOrder'
      /\ stderr' \subseteq 1 .. generated /\ ack_lost' \subseteq 1 .. MaxMessages
      /\ \/ Elements(topic)' = Elements(topic) /\ Numbers(topic)' = Numbers(topic)
         \/ /\ process \in {"sending", "flushing"}
            /\ Elements(topic)' = Elements(topic) \cup {message}
            /\ Numbers(topic)' = Numbers(topic) \cup {generated}
      /\ \/ Elements(dlq)' = Elements(dlq) /\ Numbers(dlq)' = Numbers(dlq)
         \/ /\ process \in {"dead_lettering", "flushing_dlq"}
            /\ Elements(dlq)' = Elements(dlq) \cup {message}
            /\ Numbers(dlq)' = Numbers(dlq) \cup {generated}
      /\ stderr' = stderr \/ (process = "dead_lettering" /\ stderr' = stderr \cup {generated})
      /\ ack_lost' = ack_lost \/ (process = "sending" /\ ack_lost' = ack_lost \cup {generated})
  BY LogsStep
<1>6. StreamTypeOK'
  <2>1. total_sent' \in 0 .. MaxMessages
    <3>1. process \in {"sending", "dead_lettering"} => total_sent < generated /\ generated <= MaxMessages
      BY DEF CountersOK, StreamTypeOK
    <3> QED
      BY <1>0, <1>3, <3>1
  <2>2. stderr' \cup ack_lost' \subseteq 1 .. MaxMessages
    <3>1. 1 .. generated \subseteq 1 .. MaxMessages
      BY <1>0 DEF StreamTypeOK
    <3> QED
      BY <1>5, <3>1
  <2> QED
    BY <1>1, <1>3, <1>5, <2>1, <2>2 DEF StreamTypeOK
<1>7. CountersOK'
  BY <1>0, <1>1, <1>3 DEF CountersOK, InFlight, streamVars
<1>8. LogsBehind'
  <2>1. \A m \in (Elements(topic) \cup Elements(dlq))' :
            m.number <= generated /\ (m.number = generated => m = message)
    BY <1>0, <1>2, <1>5 DEF LogsBehind, InFlight
  <2>2. CASE UNCHANGED streamVars
    BY <2>2 DEF LogsBehind, Elements, Numbers, InFlight, streamVars
  <2>3. CASE ~ UNCHANGED streamVars
    <3>1. CASE process' = "dead_lettering"
      <4>1. process = "sending"
        BY <1>3, <2>3, <3>1
      <4>2. generated \notin Numbers(dlq) /\ generated \notin Numbers(topic)
        BY <4>1 DEF LogsBehind, InFlight
      <4>3. generated \notin Numbers(dlq)'
        BY <1>5, <4>1, <4>2
      <4>4. generated \in Numbers(topic)' => generated \in ack_lost'
        <5>1. SendRaises
          BY <2>3, <3>1, <4>1 DEF StreamNext, StartRaises, StartProducer, SendAcked, DlqAcked, DlqRaises, Returned, Interrupt, Stop
        <5>2. (topic' = topic) \/ ack_lost' = ack_lost \cup {message.number}
          BY <5>1 DEF SendRaises
        <5>3. topic' = topic => Numbers(topic)' = Numbers(topic)
          BY DEF Numbers, Elements
        <5> QED
          BY <1>2, <4>1, <4>2, <5>2, <5>3 DEF InFlight
      <4> QED
        BY <1>1, <1>5, <2>1, <3>1, <4>3, <4>4 DEF LogsBehind
    <3>2. CASE process' \in {"flushing", "flushing_dlq"}
      <4>1. /\ process' = "flushing" => process = "sending"
            /\ process' = "flushing_dlq" => process = "dead_lettering"
            /\ UNCHANGED <<topic, dlq, stderr, ack_lost>>
        BY <1>3, <2>3, <3>2 DEF broker
      <4>2. /\ Numbers(topic)' = Numbers(topic) /\ Numbers(dlq)' = Numbers(dlq)
        BY <4>1 DEF Numbers, Elements
      <4> QED
        BY <1>1, <1>5, <2>1, <3>2, <4>1, <4>2 DEF LogsBehind, InFlight
    <3>3. CASE process' \notin InFlight
      BY <1>1, <1>5, <2>1, <3>3 DEF LogsBehind, InFlight
    <3> QED
      BY <1>3, <2>3, <3>1, <3>2, <3>3 DEF InFlight
  <2> QED
    BY <2>2, <2>3
<1>9. TwiceOnlyByLostAck'
  BY <1>5 DEF TwiceOnlyByLostAck, LogsBehind, InFlight
<1>10. SettledBefore'
  <2>1. ASSUME NEW n \in 1 .. generated', n # generated' \/ process' = "looping" PROVE FateOf(n)' # {}
    <3>1. n \in 1 .. generated
      BY <1>1
    <3>2. FateOf(n) \subseteq FateOf(n)'
      BY FatesStep
    <3>3. CASE n # generated \/ process = "looping"
      BY <3>1, <3>2, <3>3 DEF SettledBefore
    <3>4. CASE n = generated /\ process # "looping"
      BY <1>0, <1>1, <1>4, <2>1, <3>1, <3>4 DEF CountersOK
    <3> QED
      BY <3>3, <3>4
  <2> QED
    BY <2>1 DEF SettledBefore
<1> QED
  BY <1>5, <1>6, <1>7, <1>8, <1>9, <1>10

LEMMA Invariance == StreamSpec => []IInv
BY InitIInv, StepIInv, PTL DEF StreamSpec

-----------------------------------------------------------------------------
(* Refinement *)

Fate == [n \in 1 .. generated |-> FateOf(n)]

LEMMA FateFacts ==
    ASSUME StreamTypeOK
    PROVE  /\ Fate \in Seq(SUBSET {"topic", "dlq", "stderr"}) /\ Len(Fate) = generated
           /\ \A n \in 1 .. generated : Fate[n] = FateOf(n)
<1>1. generated \in Nat
  BY StreamingAssumption DEF StreamTypeOK
<1>2. \A n \in 1 .. generated : FateOf(n) \in SUBSET {"topic", "dlq", "stderr"}
  BY DEF FateOf
<1>3. Fate \in [1 .. generated -> SUBSET {"topic", "dlq", "stderr"}]
  BY <1>2 DEF Fate
<1> QED
  BY <1>1, <1>3 DEF Fate

\* Appending, pointwise.
LEMMA AppendAsFunction ==
    ASSUME NEW S, NEW s \in Seq(S), NEW x \in S
    PROVE  Append(s, x) = [n \in 1 .. Len(s) + 1 |-> IF n \in 1 .. Len(s) THEN s[n] ELSE x]
<1>1. /\ Append(s, x) \in Seq(S) /\ Len(Append(s, x)) = Len(s) + 1 /\ Len(s) \in Nat
      /\ \A n \in 1 .. Len(s) : Append(s, x)[n] = s[n]
      /\ Append(s, x)[Len(s) + 1] = x
  OBVIOUS
<1> DEFINE f == [n \in 1 .. Len(s) + 1 |-> IF n \in 1 .. Len(s) THEN s[n] ELSE x]
<1>2. f \in Seq(S) /\ Len(f) = Len(s) + 1
  <2>1. \A n \in 1 .. Len(s) + 1 : f[n] \in S
    OBVIOUS
  <2>2. f \in Seq(S)
    BY <1>1, <2>1, SeqDef
  <2> QED
    BY <1>1, <2>2, LenProperties
<1>3. \A n \in 1 .. Len(s) + 1 : Append(s, x)[n] = f[n]
  BY <1>1
<1> HIDE DEF f
<1>4. Append(s, x) = f
  BY <1>1, <1>2, <1>3, SeqEqual
<1> QED
  BY <1>4 DEF f

\* A turn takes a message: all earlier ones have a fate and it has none.
LEMMA TurnTakes ==
    ASSUME IInv, Turn
    PROVE  /\ process # "ended" /\ process' # "ended" /\ Fate' = Append(Fate, {})
           /\ \A n \in DOMAIN Fate : Fate[n] # {}
<1> USE DEF IInv
<1>0. generated \in Nat /\ sequences <= generated
  BY DEF StreamTypeOK, CountersOK
<1>1. /\ process = "looping" /\ process' = "sending" /\ generated' = generated + 1
      /\ UNCHANGED <<topic, dlq, stderr>>
  BY <1>0, TurnOutcome DEF broker
<1>2. IInv'
  BY TurnIInv
<1>3. \A n : FateOf(n)' = FateOf(n)
  BY <1>1 DEF FateOf, Numbers, Elements
<1>4. PICK g \in Nat : g = generated /\ generated' = g + 1
  BY <1>0, <1>1
<1>5. FateOf(g + 1)' = {}
  <2>1. g + 1 \notin Numbers(topic)' /\ g + 1 \notin Numbers(dlq)'
    BY <1>1, <1>2, <1>4 DEF LogsBehind, InFlight
  <2>2. g + 1 \notin stderr
    BY <1>4 DEF LogsBehind
  <2> QED
    BY <1>1, <2>1, <2>2 DEF FateOf
<1>6. /\ Fate \in Seq(SUBSET {"topic", "dlq", "stderr"}) /\ Len(Fate) = g
      /\ \A n \in 1 .. g : Fate[n] = FateOf(n)
  BY <1>4, FateFacts
<1>7. Fate' = Append(Fate, {})
  <2>1. Fate' = [n \in 1 .. g + 1 |-> FateOf(n)']
    BY <1>4 DEF Fate
  <2>2. \A n \in 1 .. g + 1 : FateOf(n)' = IF n \in 1 .. g THEN Fate[n] ELSE {}
    BY <1>3, <1>4, <1>5, <1>6
  <2>3. Append(Fate, {}) = [n \in 1 .. g + 1 |-> IF n \in 1 .. g THEN Fate[n] ELSE {}]
    BY <1>6, AppendAsFunction
  <2> QED
    BY <2>1, <2>2, <2>3
<1>8. \A n \in DOMAIN Fate : Fate[n] # {}
  BY <1>1, <1>4, <1>6 DEF SettledBefore
<1> QED
  BY <1>1, <1>7, <1>8

\* Any other step moves the last message, to where it was and perhaps further.
LEMMA StepMoves ==
    ASSUME IInv, [StreamNext]_streamVars, ~ Turn
    PROVE  \/ UNCHANGED Fate
           \/ /\ Fate # <<>>
              /\ \E places \in SUBSET {"topic", "dlq", "stderr"} :
                     /\ Fate[Len(Fate)] \subseteq places
                     /\ Fate' = [Fate EXCEPT ![Len(Fate)] = places]
<1> USE DEF IInv
<1>0. generated \in Nat /\ generated' = generated
  BY LogsOutcome DEF StreamTypeOK
<1>1. /\ Fate \in Seq(SUBSET {"topic", "dlq", "stderr"}) /\ Len(Fate) = generated
      /\ \A n \in 1 .. generated : Fate[n] = FateOf(n)
  BY FateFacts
<1>2. Fate' = [n \in 1 .. generated |-> FateOf(n)']
  BY <1>0 DEF Fate
<1>3. CASE generated = 0
  BY <1>0, <1>1, <1>2, <1>3 DEF Fate
<1>4. CASE generated # 0
  <2>1. PICK g \in Nat : g = generated /\ g = generated'
    BY <1>0
  <2>2. PICK places \in SUBSET {"topic", "dlq", "stderr"} : places = FateOf(g)'
    BY FatesStep
  <2>3. FateOf(g) \subseteq places /\ \A n : n # g => FateOf(n)' = FateOf(n)
    BY FatesStep, <2>1, <2>2
  <2>4. Fate' = [Fate EXCEPT ![g] = places]
    <3>1. Fate = [n \in 1 .. g |-> FateOf(n)] /\ Fate' = [n \in 1 .. g |-> FateOf(n)']
      BY <1>2, <2>1 DEF Fate
    <3>2. \A n \in 1 .. g : FateOf(n)' = IF n = g THEN places ELSE FateOf(n)
      BY <2>2, <2>3
    <3> QED
      BY <3>1, <3>2
  <2>5. Fate # <<>> /\ Len(Fate) = g /\ Fate[g] = FateOf(g)
    BY <1>0, <1>1, <1>4, <2>1
  <2> QED
    BY <2>3, <2>4, <2>5
<1> QED
  BY <1>3, <1>4

LEMMA PromiseStep ==
    IInv /\ [StreamNext]_streamVars
        => [Promise!Take \/ Promise!Place \/ Promise!Close]_<<Fate, process = "ended">>
<1> SUFFICES ASSUME IInv, [StreamNext]_streamVars
             PROVE  [Promise!Take \/ Promise!Place \/ Promise!Close]_<<Fate, process = "ended">>
  OBVIOUS
<1>1. CASE Turn
  <2>1. /\ process # "ended" /\ process' # "ended" /\ Fate' = Append(Fate, {})
        /\ \A n \in DOMAIN Fate : Fate[n] # {}
    BY <1>1, TurnTakes
  <2>2. Promise!Take
    BY <2>1 DEF Promise!Take, Promise!Settled, Fate
  <2> QED
    BY <2>2
<1>2. CASE ~ Turn
  <2>1. \/ UNCHANGED Fate
        \/ Promise!Moves
    <3>1. \/ UNCHANGED Fate
          \/ /\ Fate # <<>>
             /\ \E places \in SUBSET {"topic", "dlq", "stderr"} :
                    /\ Fate[Len(Fate)] \subseteq places
                    /\ Fate' = [Fate EXCEPT ![Len(Fate)] = places]
      BY <1>2, StepMoves
    <3> QED
      BY <3>1 DEF Promise!Moves, Promise!Places, Fate
  <2>2. process = "ended" => UNCHANGED <<Fate, process>>
    <3>1. process = "ended" => UNCHANGED streamVars
      BY <1>2 DEF StreamNext, StartRaises, StartProducer, SendAcked, SendRaises, DlqAcked, DlqRaises, Interrupt, Stop
    <3>2. UNCHANGED streamVars => UNCHANGED <<Fate, process>>
      BY DEF streamVars, Fate, FateOf, Numbers, Elements
    <3> QED
      BY <3>1, <3>2
  <2>3. CASE process # "ended" /\ process' = "ended"
    BY <2>1, <2>3 DEF Promise!Close, Fate
  <2>4. CASE process # "ended" /\ process' # "ended"
    BY <2>1, <2>4 DEF Promise!Place, Fate
  <2> QED
    BY <2>2, <2>3, <2>4
<1> QED
  BY <1>1, <1>2

\* The producer implements its promise: whatever the broker does, and wherever the task is
\* cancelled, a message is in the topic, in the dead-letter queue or on stderr before the
\* next one is taken.
THEOREM ImplementsPromise == StreamSpec => DeliveryPromiseKept
<1>1. StreamInit => Promise!PromiseInit
  BY DEF StreamInit, Promise!PromiseInit
<1>2. IInv /\ [StreamNext]_streamVars
        => [Promise!Take \/ Promise!Place \/ Promise!Close]_<<[n \in 1 .. generated |-> FateOf(n)], process = "ended">>
  BY PromiseStep DEF Fate
<1> QED
  BY Invariance, <1>1, <1>2, PTL DEF StreamSpec, DeliveryPromiseKept, Promise!PromiseSpec

-----------------------------------------------------------------------------
(* Sequences *)

\* The messages in the logs, with the one in flight.
Taken == Elements(topic) \cup Elements(dlq) \cup (IF generated > 0 THEN {message} ELSE {})

\* Those of the sequence begun last.
OfCurrent == {m \in Taken : m.sequence = sequences}

\* A message belongs to a sequence that was begun, or to none and is normal; the messages
\* of a sequence agree among each other and with the sequence in progress.
Consistent ==
    /\ \A m \in Taken : m.sequence \in 0 .. sequences /\ (m.sequence = 0 => m.pattern = Normal)
    /\ \A m, n \in Taken : m.sequence = n.sequence =>
           /\ m.pattern = n.pattern
           /\ m.pattern = "SMURFING" => m.target = n.target
    /\ aml_sequence # NoSequence =>
           /\ sequences > 0
           /\ \A m \in OfCurrent :
                  /\ m.pattern = aml_sequence.pattern
                  /\ m.pattern = "SMURFING" => m.target = aml_sequence.fixed_target

\* As long as nothing was lost, what was taken of a sequence and what remains of it add up.
AddsUp ==
    stderr = {} /\ aml_sequence # NoSequence =>
        /\ IsFiniteSet(OfCurrent)
        /\ Cardinality(OfCurrent) + aml_remaining = aml_sequence.count

SInv == Consistent /\ AddsUp

\* The three things a turn can do.
LEMMA TurnKinds ==
    ASSUME StreamTypeOK, Turn
    PROVE  \/ /\ InSequence /\ aml_remaining' = aml_remaining - 1
              /\ UNCHANGED <<aml_sequence, sequences>>
              /\ message'.sequence = sequences /\ message'.pattern = aml_sequence.pattern
              /\ message'.pattern = "SMURFING" => message'.target = aml_sequence.fixed_target
           \/ /\ ~ InSequence /\ aml_sequence' = NoSequence /\ UNCHANGED sequences
              /\ message'.sequence = 0 /\ message'.pattern = Normal
           \/ /\ ~ InSequence /\ sequences' = sequences + 1
              /\ aml_remaining' = aml_sequence'.count - 1 /\ aml_sequence'.count \in Nat \ {0}
              /\ message'.sequence = sequences + 1 /\ message'.pattern = aml_sequence'.pattern
              /\ message'.pattern = "SMURFING" => message'.target = aml_sequence'.fixed_target
<1>1. PICK source \in Accounts : \E target \in Accounts \ {source} :
          LET txn == NormalTransaction(source, target) IN
              \/ ContinueSequence(txn)
              \/ SendNormal(txn)
              \/ \E p \in Patterns, s \in Accounts, t \in Accounts : \E count \in Counts[p] :
                     BeginSequence(txn, p, s, t, count)
  BY DEF Turn
<1>2. PICK target \in Accounts \ {source} :
          LET txn == NormalTransaction(source, target) IN
              \/ ContinueSequence(txn)
              \/ SendNormal(txn)
              \/ \E p \in Patterns, s \in Accounts, t \in Accounts : \E count \in Counts[p] :
                     BeginSequence(txn, p, s, t, count)
  BY <1>1
<1> DEFINE txn == NormalTransaction(source, target)
<1>3. ASSUME NEW s, s.pattern # "ROUND_TRIPPING" \/ s.step = 0, NEW n
      PROVE  LET m == AmlTransaction(txn, s, n)
             IN  /\ m.sequence = n /\ m.pattern = s.pattern
                 /\ m.pattern = "SMURFING" => m.target = s.fixed_target
  BY <1>3 DEF AmlTransaction, NormalTransaction
<1>4. CASE ContinueSequence(txn)
  <2>1. aml_sequence.step = 0
    BY <1>4 DEF ContinueSequence, InSequence, StreamTypeOK, Sequence
  <2> QED
    BY <1>3, <1>4, <2>1 DEF ContinueSequence, Sending
<1>5. CASE SendNormal(txn)
  BY <1>5 DEF SendNormal, Sending, NormalTransaction
<1>6. ASSUME NEW p \in Patterns, NEW s \in Accounts, NEW t \in Accounts, NEW count \in Counts[p],
             BeginSequence(txn, p, s, t, count)
      PROVE  /\ ~ InSequence /\ sequences' = sequences + 1
             /\ aml_remaining' = aml_sequence'.count - 1 /\ aml_sequence'.count \in Nat \ {0}
             /\ message'.sequence = sequences + 1 /\ message'.pattern = aml_sequence'.pattern
             /\ message'.pattern = "SMURFING" => message'.target = aml_sequence'.fixed_target
  <2> DEFINE new == [pattern |-> p, original_source |-> s, step |-> 0,
                     fixed_target |-> t, count |-> count]
  <2>1. /\ ~ InSequence /\ aml_sequence' = new /\ aml_remaining' = count - 1
        /\ sequences' = sequences + 1
        /\ message' = AmlTransaction(txn, new, sequences + 1)
    BY <1>6 DEF BeginSequence, Sending
  <2>2. count \in Nat \ {0}
    BY StreamingAssumption
  <2>3. new.step = 0
    OBVIOUS
  <2>4. LET m == AmlTransaction(txn, new, sequences + 1)
        IN  /\ m.sequence = sequences + 1 /\ m.pattern = new.pattern
            /\ m.pattern = "SMURFING" => m.target = new.fixed_target
    BY <1>3, <2>3
  <2> QED
    BY <2>1, <2>2, <2>4
<1> QED
  BY <1>2, <1>4, <1>5, <1>6

\* Between two messages nothing is in flight: what was taken is in the logs, or on stderr.
LEMMA TakenIsStored ==
    ASSUME IInv, process = "looping", stderr = {}
    PROVE  Taken = Elements(topic) \cup Elements(dlq)
<1> USE DEF IInv
<1>1. CASE generated > 0
  <2>1. generated \in 1 .. generated
    BY <1>1 DEF StreamTypeOK
  <2>2. generated \in Numbers(topic) \cup Numbers(dlq)
    BY <2>1 DEF SettledBefore, FateOf
  <2>3. message \in Elements(topic) \cup Elements(dlq)
    BY <2>2 DEF Numbers, LogsBehind
  <2> QED
    BY <2>3 DEF Taken
<1>2. CASE ~ (generated > 0)
  BY <1>2 DEF Taken
<1> QED
  BY <1>1, <1>2

\* Only a turn takes a message.
LEMMA TakenStays ==
    ASSUME IInv, [StreamNext]_streamVars, ~ Turn
    PROVE  /\ Taken' = Taken /\ OfCurrent' = OfCurrent
           /\ UNCHANGED <<aml_sequence, aml_remaining, message, generated, sequences>>
           /\ stderr' = {} => stderr = {}
<1>1. UNCHANGED <<aml_sequence, aml_remaining, message, generated, sequences>>
  BY LogsOutcome
<1>2. /\ \/ Elements(topic)' = Elements(topic)
         \/ process \in InFlight /\ Elements(topic)' = Elements(topic) \cup {message}
      /\ \/ Elements(dlq)' = Elements(dlq)
         \/ process \in InFlight /\ Elements(dlq)' = Elements(dlq) \cup {message}
      /\ stderr \subseteq stderr'
  BY LogsStep DEF InFlight
<1>3. process \in InFlight => generated > 0
  BY DEF IInv, CountersOK
<1>4. Taken' = Taken
  BY <1>1, <1>2, <1>3 DEF Taken
<1> QED
  BY <1>1, <1>2, <1>4 DEF OfCurrent

\* A turn adds the message it takes, with a number and so a record of its own.
LEMMA TakenGrows ==
    ASSUME IInv, Turn
    PROVE  /\ message' \in Taken' /\ Taken' \subseteq Taken \cup {message'}
           /\ message' \notin Taken
           /\ stderr = {} => Taken' = Taken \cup {message'}
           /\ stderr' = stderr /\ sequences \in Nat /\ aml_remaining \in Nat
<1> USE DEF IInv
<1>1. sequences <= generated /\ generated \in Nat /\ sequences \in Nat /\ aml_remaining \in Nat
  BY DEF StreamTypeOK, CountersOK
<1>2. /\ process = "looping" /\ generated' = generated + 1 /\ message'.number = generated + 1
      /\ UNCHANGED <<topic, dlq, stderr>>
  BY <1>1, TurnOutcome DEF broker
<1>3. Elements(topic)' = Elements(topic) /\ Elements(dlq)' = Elements(dlq)
  BY <1>2 DEF Elements
<1>4. Taken' = Elements(topic) \cup Elements(dlq) \cup {message'}
  BY <1>1, <1>2, <1>3 DEF Taken
<1>5. \A m \in Taken : m.number <= generated
  BY <1>1 DEF Taken, LogsBehind, CountersOK
<1>6. message' \notin Taken
  BY <1>1, <1>2, <1>5
<1> QED
  BY <1>1, <1>2, <1>4, <1>6, TakenIsStored DEF Taken

LEMMA TurnConsistent ==
    ASSUME IInv, Consistent, Turn
    PROVE  Consistent'
<1>1. /\ message' \in Taken' /\ Taken' \subseteq Taken \cup {message'}
      /\ sequences \in Nat
  BY TakenGrows
<1>2. \A m \in Taken : m.sequence \in 0 .. sequences /\ (m.sequence = 0 => m.pattern = Normal)
  BY DEF Consistent
<1>3. \A m, n \in Taken : m.sequence = n.sequence =>
           /\ m.pattern = n.pattern
           /\ m.pattern = "SMURFING" => m.target = n.target
  BY DEF Consistent
<1>4. Normal # "SMURFING"
  BY StreamingAssumption DEF Patterns
\* The next message of a sequence.
<1>5. ASSUME InSequence, UNCHANGED <<aml_sequence, sequences>>,
             message'.sequence = sequences, message'.pattern = aml_sequence.pattern,
             message'.pattern = "SMURFING" => message'.target = aml_sequence.fixed_target
      PROVE  Consistent'
  <2>1. /\ aml_sequence # NoSequence /\ sequences > 0
        /\ \A m \in Taken : m.sequence = sequences =>
               /\ m.pattern = aml_sequence.pattern
               /\ m.pattern = "SMURFING" => m.target = aml_sequence.fixed_target
    BY <1>5 DEF InSequence, Consistent, OfCurrent
  <2>2. \A m \in Taken' : m.sequence \in 0 .. sequences /\ (m.sequence = 0 => m.pattern = Normal)
    BY <1>1, <1>2, <1>5, <2>1
  <2>3. \A m \in Taken' : m.sequence = sequences =>
               /\ m.pattern = aml_sequence.pattern
               /\ m.pattern = "SMURFING" => m.target = aml_sequence.fixed_target
    BY <1>1, <1>5, <2>1
  <2>4. \A m, n \in Taken' : m.sequence = n.sequence =>
           /\ m.pattern = n.pattern
           /\ m.pattern = "SMURFING" => m.target = n.target
    BY <1>1, <1>3, <1>5, <2>3
  <2> QED
    BY <1>5, <2>1, <2>2, <2>3, <2>4 DEF Consistent, OfCurrent
\* A normal message; no sequence is in progress afterwards.
<1>6. ASSUME aml_sequence' = NoSequence, UNCHANGED sequences,
             message'.sequence = 0, message'.pattern = Normal
      PROVE  Consistent'
  <2>1. \A m \in Taken' : m.sequence \in 0 .. sequences /\ (m.sequence = 0 => m.pattern = Normal)
    BY <1>1, <1>2, <1>6
  <2>2. \A m, n \in Taken' : m.sequence = n.sequence =>
           /\ m.pattern = n.pattern
           /\ m.pattern = "SMURFING" => m.target = n.target
    BY <1>1, <1>3, <1>4, <1>6, <2>1
  <2> QED
    BY <1>6, <2>1, <2>2 DEF Consistent
\* The first message of a sequence, with a number nobody has.
<1>7. ASSUME sequences' = sequences + 1,
             message'.sequence = sequences + 1, message'.pattern = aml_sequence'.pattern,
             message'.pattern = "SMURFING" => message'.target = aml_sequence'.fixed_target
      PROVE  Consistent'
  <2>1. \A m \in Taken' : m.sequence \in 0 .. sequences' /\ (m.sequence = 0 => m.pattern = Normal)
    BY <1>1, <1>2, <1>7
  <2>2. \A m \in Taken' : m.sequence = sequences' => m = message'
    BY <1>1, <1>2, <1>7
  <2>3. \A m, n \in Taken' : m.sequence = n.sequence =>
           /\ m.pattern = n.pattern
           /\ m.pattern = "SMURFING" => m.target = n.target
    BY <1>1, <1>3, <1>7, <2>2
  <2> QED
    BY <1>1, <1>7, <2>1, <2>2, <2>3 DEF Consistent, OfCurrent
<1> QED
  BY <1>5, <1>6, <1>7, TurnKinds DEF IInv

LEMMA TurnAddsUp ==
    ASSUME IInv, SInv, Turn
    PROVE  AddsUp'
<1> SUFFICES ASSUME stderr' = {}, aml_sequence' # NoSequence
             PROVE  /\ IsFiniteSet(OfCurrent')
                    /\ Cardinality(OfCurrent') + aml_remaining' = aml_sequence'.count
  BY DEF AddsUp
<1>1. /\ message' \notin Taken /\ Taken' = Taken \cup {message'} /\ stderr = {}
      /\ sequences \in Nat /\ aml_remaining \in Nat
  BY TakenGrows
<1>2. CASE /\ InSequence /\ aml_remaining' = aml_remaining - 1
           /\ UNCHANGED <<aml_sequence, sequences>> /\ message'.sequence = sequences
  <2>1. IsFiniteSet(OfCurrent) /\ Cardinality(OfCurrent) + aml_remaining = aml_sequence.count
    BY <1>1, <1>2 DEF InSequence, SInv, AddsUp
  <2>2. OfCurrent' = OfCurrent \cup {message'} /\ message' \notin OfCurrent
    BY <1>1, <1>2 DEF OfCurrent
  <2>3. IsFiniteSet(OfCurrent') /\ Cardinality(OfCurrent') = Cardinality(OfCurrent) + 1
    BY <2>1, <2>2, FS_AddElement
  <2>4. Cardinality(OfCurrent) \in Nat
    BY <2>1, FS_CardinalityType
  <2> QED
    BY <1>1, <1>2, <2>1, <2>3, <2>4
<1>3. CASE /\ sequences' = sequences + 1 /\ message'.sequence = sequences + 1
           /\ aml_remaining' = aml_sequence'.count - 1 /\ aml_sequence'.count \in Nat \ {0}
  <2>1. \A m \in Taken : m.sequence # sequences + 1
    BY <1>1 DEF SInv, Consistent
  <2>2. OfCurrent' = {message'}
    BY <1>1, <1>3, <2>1 DEF OfCurrent
  <2>3. IsFiniteSet(OfCurrent') /\ Cardinality(OfCurrent') = 1
    BY <2>2, FS_Singleton
  <2> QED
    BY <1>3, <2>3
<1> QED
  BY <1>2, <1>3, TurnKinds DEF IInv

LEMMA SequencesHold == StreamSpec => [](IInv /\ SInv)
<1>1. StreamInit => SInv
  BY DEF StreamInit, SInv, Consistent, AddsUp, Taken, OfCurrent, Elements
<1>2. IInv /\ SInv /\ [StreamNext]_streamVars => SInv'
  <2> SUFFICES ASSUME IInv, SInv, [StreamNext]_streamVars PROVE SInv'
    OBVIOUS
  <2>1. CASE Turn
    BY <2>1, TurnConsistent, TurnAddsUp DEF SInv
  <2>2. CASE ~ Turn
    <3>1. /\ Taken' = Taken /\ OfCurrent' = OfCurrent
          /\ UNCHANGED <<aml_sequence, aml_remaining, message, generated, sequences>>
          /\ stderr' = {} => stderr = {}
      BY <2>2, TakenStays
    <3> QED
      BY <3>1 DEF SInv, Consistent, AddsUp
  <2> QED
    BY <2>1, <2>2
<1> QED
  BY Invariance, <1>1, <1>2, PTL DEF StreamSpec

\* The topic and the dead-letter queue, in every state: neither holds a message twice or
\* out of order, a message in both had its acknowledgement lost, and the messages of a
\* sequence agree across both.
THEOREM LogsHold == StreamSpec => []LogsInvariant
<1>1. SInv => SequencesConsistent
  BY DEF SInv, Consistent, Taken, SequencesConsistent
<1>2. IInv /\ SInv => LogsInvariant
  BY <1>1 DEF IInv, LogsInvariant
<1> QED
  BY SequencesHold, <1>2, PTL

\* The simulator leaves a sequence only when all its messages are stored, unless one was
\* reported lost.
THEOREM SequencesStayWhole == StreamSpec => SequencesAreWhole
<1>1. ASSUME IInv, SInv, [StreamNext]_streamVars,
             aml_sequence' # aml_sequence, aml_sequence # NoSequence, stderr = {}
      PROVE  Cardinality({m \in Elements(topic) \cup Elements(dlq) : m.sequence = sequences})
                 = aml_sequence.count
  <2> USE <1>1
  <2>1. Turn
    BY LogsOutcome
  <2>2. ~ InSequence
    BY <2>1, TurnKinds DEF IInv
  <2>3. aml_remaining = 0
    BY <2>2 DEF InSequence, IInv, StreamTypeOK
  <2>4. IsFiniteSet(OfCurrent) /\ Cardinality(OfCurrent) + aml_remaining = aml_sequence.count
    BY DEF SInv, AddsUp
  <2>5. Taken = Elements(topic) \cup Elements(dlq)
    BY <2>1, TakenIsStored DEF Turn
  <2>6. Cardinality(OfCurrent) \in Nat
    BY <2>4, FS_CardinalityType
  <2> QED
    BY <2>3, <2>4, <2>5, <2>6 DEF OfCurrent
<1>2. IInv /\ SInv /\ [StreamNext]_streamVars =>
        [aml_sequence' # aml_sequence /\ aml_sequence # NoSequence /\ stderr = {} =>
            Cardinality({m \in Elements(topic) \cup Elements(dlq) : m.sequence = sequences})
                = aml_sequence.count]_streamVars
  BY <1>1
<1> QED
  BY SequencesHold, <1>2, PTL DEF StreamSpec, SequencesAreWhole

=================================================================================
