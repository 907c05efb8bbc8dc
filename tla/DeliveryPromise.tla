---------------------------- MODULE DeliveryPromise ----------------------------
(***************************************************************************)
(* What the producer of streaming/kafka_producer.py promises about a       *)
(* message, without brokers, acknowledgements or patterns: it ends up in   *)
(* the topic, in the dead-letter queue or as an error on stderr, in the    *)
(* order of sending, and no later message is taken before that.            *)
(***************************************************************************)
EXTENDS Naturals, Sequences

Places == {"topic", "dlq", "stderr"}

VARIABLES
    fate,     \* fate[n]: where message n can be found
    closed    \* the producer was stopped

PromiseInit == fate = <<>> /\ closed = FALSE

Settled == \A n \in DOMAIN fate : fate[n] # {}

Take ==
    /\ ~closed
    /\ Settled
    /\ fate' = Append(fate, {})
    /\ UNCHANGED closed

\* Only the last message moves, and it never leaves a place again.
Moves == \E places \in SUBSET Places :
    /\ fate # <<>>
    /\ fate[Len(fate)] \subseteq places
    /\ fate' = [fate EXCEPT ![Len(fate)] = places]

Place == ~closed /\ Moves /\ UNCHANGED closed

\* Stopping may find the last message wherever the flush takes it, or drop it.
Close == ~closed /\ closed' = TRUE /\ (UNCHANGED fate \/ Moves)

PromiseSpec == PromiseInit /\ [][Take \/ Place \/ Close]_<<fate, closed>>
===============================================================================
