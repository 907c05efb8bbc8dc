------------------------------ MODULE RateLimit ------------------------------
(***************************************************************************)
(* RateLimitMiddleware.dispatch of backend/middleware/logging_middleware.py *)
(* for one client address: concurrent handlers of all workers share one    *)
(* Redis counter, which INCR creates without an expiry and a second        *)
(* command, EXPIRE, times.  A command runs at Redis when its action says   *)
(* so; its reply reaches the handler any time later.  One tick is a        *)
(* fraction 1/Window of the minute.                                        *)
(***************************************************************************)
EXTENDS Naturals

CONSTANTS
    Handlers,   \* requests of the client that can be in flight at once
    Limit,      \* settings.RATE_LIMIT_PER_MINUTE
    Window,     \* the 60 seconds of the EXPIRE
    Faults,     \* which faults the environment may show, a subset of FaultKinds
    MaxCount    \* bound: INCR is not called beyond this value, and a tally stays at it;
                \* more than two limits, for BurstBound to say something

\* A command raises or a worker dies, so that EXPIRE may not follow INCR; Redis loses the key.
FaultKinds == {"pair_broken", "key_evicted"}

ASSUME RateLimitAssumption ==
    /\ Limit \in Nat \ {0}
    /\ Window \in Nat \ {0}
    /\ Faults \subseteq FaultKinds
    /\ MaxCount \in Nat

VARIABLES
    count,    \* value of the key; 0 when there is no key
    ttl,      \* ticks until the key expires; 0 when no expiry is set
    pc,       \* pc[h]: where handler h stands
    granted,  \* history: granted[i]: requests whose INCR, in the current tick and the i
              \* ticks before it, gave a count that lets them pass
    seen      \* history: the kinds of faults that have occurred

vars == <<count, ttl, pc, granted, seen>>

Lesser(a, b) == IF a < b THEN a ELSE b

Ages == 0 .. Window - 1
\* A handler that awaits a reply: of the INCR that created the key, or of the command whose
\* reply lets the request pass or refuses it.
Awaiting == {"expiring", "admitted", "refused"}

PcStates == Awaiting \cup {"idle", "forwarded", "rejected"}

TypeOK ==
    /\ count \in Nat
    /\ ttl \in 0 .. Window
    /\ pc \in [Handlers -> PcStates]
    /\ granted \in [Ages -> Nat]
    /\ seen \subseteq FaultKinds

Init ==
    /\ count = 0
    /\ ttl = 0
    /\ pc = [h \in Handlers |-> "idle"]
    /\ granted = [i \in Ages |-> 0]
    /\ seen = {}

-----------------------------------------------------------------------------
(* dispatch *)

\* Mutant: the limit is off by one.
AllowedOneMore(n) == n <= Limit + 1

\* The request passes unless its count is greater than the limit.
Allowed(n) == n <= Limit

\* Redis has counted the request; the reply that decides on it is on its way.
Counted(n) ==
    granted' = IF Allowed(n) THEN [i \in Ages |-> Lesser(granted[i] + 1, MaxCount)] ELSE granted

\* /health and /metrics are not counted.
SkipLimit(h) ==
    /\ pc[h] = "idle"
    /\ pc' = [pc EXCEPT ![h] = "forwarded"]
    /\ UNCHANGED <<count, ttl, granted, seen>>

\* INCR answers 1: the handler has created the key and must time it.
IncrFirst(h) ==
    /\ pc[h] = "idle"
    /\ count = 0
    /\ count' = 1
    /\ pc' = [pc EXCEPT ![h] = "expiring"]
    /\ Counted(1)
    /\ UNCHANGED <<ttl, seen>>

IncrMore(h) ==
    /\ pc[h] = "idle"
    /\ count \in 1 .. MaxCount - 1
    /\ count' = count + 1
    /\ pc' = [pc EXCEPT ![h] = IF Allowed(count + 1) THEN "admitted" ELSE "refused"]
    /\ Counted(count + 1)
    /\ UNCHANGED <<ttl, seen>>

\* Mutant: the key is timed only when it has expired before.
ExpireSkipped(h) ==
    /\ pc[h] = "expiring"
    /\ pc' = [pc EXCEPT ![h] = "admitted"]
    /\ UNCHANGED <<count, ttl, granted, seen>>

\* EXPIRE does nothing when the key has vanished meanwhile.
Expire(h) ==
    /\ pc[h] = "expiring"
    /\ ttl' = IF count > 0 THEN Window ELSE ttl
    /\ pc' = [pc EXCEPT ![h] = "admitted"]
    /\ UNCHANGED <<count, granted, seen>>

\* The awaited reply is there, in whatever window: call_next or 429.
Decide(h) ==
    /\ \/ pc[h] = "admitted" /\ pc' = [pc EXCEPT ![h] = "forwarded"]
       \/ pc[h] = "refused" /\ pc' = [pc EXCEPT ![h] = "rejected"]
    /\ UNCHANGED <<count, ttl, granted, seen>>

\* call_next or the 429 response ends the request; the client may send another.
Respond(h) ==
    /\ pc[h] \in {"forwarded", "rejected"}
    /\ pc' = [pc EXCEPT ![h] = "idle"]
    /\ UNCHANGED <<count, ttl, granted, seen>>

-----------------------------------------------------------------------------
(* Faults: the except clause lets the request through *)

Occurs(kind) == kind \in Faults /\ seen' = seen \cup {kind}

\* INCR raises without having been executed by the server.
IncrRaises(h) ==
    /\ Occurs("pair_broken")
    /\ pc[h] = "idle"
    /\ pc' = [pc EXCEPT ![h] = "forwarded"]
    /\ UNCHANGED <<count, ttl, granted>>

\* A command raises after the server has executed it, or EXPIRE without that.
ReplyRaises(h) ==
    /\ Occurs("pair_broken")
    /\ pc[h] \in Awaiting
    /\ pc' = [pc EXCEPT ![h] = "forwarded"]
    /\ UNCHANGED <<count, ttl, granted>>

WorkerDies(h) ==
    /\ Occurs("pair_broken")
    /\ pc[h] # "idle"
    /\ pc' = [pc EXCEPT ![h] = "idle"]
    /\ UNCHANGED <<count, ttl, granted>>

-----------------------------------------------------------------------------
(* Redis and time *)

\* allkeys-lru, or a restart of Redis.
Evict ==
    /\ Occurs("key_evicted")
    /\ count > 0
    /\ count' = 0
    /\ ttl' = 0
    /\ UNCHANGED <<pc, granted>>

Tick ==
    /\ ttl' = IF ttl = 0 THEN 0 ELSE ttl - 1
    /\ count' = IF ttl = 1 THEN 0 ELSE count
    /\ granted' = [i \in Ages |-> IF i = 0 THEN 0 ELSE granted[i - 1]]
    /\ UNCHANGED <<pc, seen>>

-----------------------------------------------------------------------------
Dispatch(h) ==
    SkipLimit(h) \/ IncrFirst(h) \/ IncrMore(h) \/ Expire(h) \/ Decide(h) \/ Respond(h)

Fault(h) == IncrRaises(h) \/ ReplyRaises(h) \/ WorkerDies(h)

Next ==
    \/ \E h \in Handlers : Dispatch(h) \/ Fault(h)
    \/ Evict
    \/ Tick

Spec == Init /\ [][Next]_vars

\* Time passes, and a handler that has begun goes on; clients need not come.
FairSpec == Spec /\ WF_vars(Tick) /\ \A h \in Handlers : WF_vars(Expire(h) \/ Decide(h) \/ Respond(h))

-----------------------------------------------------------------------------
(* Properties *)

\* Of the requests that Redis counts in a stretch as long as the window, the fixed window
\* lets at most two limits' worth through, at the seam of two windows; handlers that
\* overlap, raise or die do not change that, as long as Redis keeps the key.  When the
\* replies come, and with them the requests, is not bounded: they may pass later.
BurstBound == "key_evicted" \notin seen => granted[Window - 1] <= 2 * Limit

\* No command has raised and no worker has died.
PairsWhole == "pair_broken" \notin seen

\* A key without an expiry then has a handler that is about to set one, so no counter
\* lives for ever: INCR and EXPIRE are two commands, with evictions and other
\* handlers in between.
KeyIsTimed == PairsWhole /\ count > 0 /\ ttl = 0 => \E h \in Handlers : pc[h] = "expiring"

\* And a client over its limit is eventually below it again.
WholePairsRecover == count > Limit ~> count <= Limit \/ ~PairsWhole
===============================================================================
