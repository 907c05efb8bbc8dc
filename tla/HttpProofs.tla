------------------------------ MODULE HttpProofs ------------------------------
(***************************************************************************)
(* Theorems about RateLimit for any number of handlers, limit and window,  *)
(* and about the layers that HttpStack puts around it.                     *)
(***************************************************************************)
EXTENDS HttpStack, FiniteSetTheorems, TLAPS

\* The type of the tallies is kept by whatever Counted adds to them.
LEMMA CountedTypes ==
    ASSUME TypeOK, NEW n \in Nat, Counted(n)
    PROVE  granted' \in [Ages -> Nat]
<1>1. \A i \in Ages : Lesser(granted[i] + 1, MaxCount) \in Nat
  BY RateLimitAssumption DEF TypeOK, Lesser, RateLimitAssumption
<1> QED BY <1>1 DEF TypeOK, Counted

\* Ageing shifts the tallies by one tick.
LEMMA TickTypes ==
    ASSUME TypeOK, Tick
    PROVE  TypeOK'
<1>1. granted' \in [Ages -> Nat]
  <2>1. ASSUME NEW i \in Ages PROVE (IF i = 0 THEN 0 ELSE granted[i - 1]) \in Nat
    BY <2>1, RateLimitAssumption DEF TypeOK, Ages, RateLimitAssumption
  <2> QED BY <2>1 DEF Tick
<1>2. count' \in Nat /\ ttl' \in 0 .. Window /\ pc' \in [Handlers -> PcStates] /\ seen' = seen
  BY RateLimitAssumption DEF TypeOK, Tick, RateLimitAssumption
<1> QED BY <1>1, <1>2 DEF TypeOK

LEMMA InitTypes == Init => TypeOK
BY RateLimitAssumption DEF Init, TypeOK, PcStates, Ages, FaultKinds, RateLimitAssumption

LEMMA StepTypes ==
    ASSUME TypeOK, [Next]_vars
    PROVE  TypeOK'
<1> USE RateLimitAssumption DEF RateLimitAssumption
<1>1. ASSUME NEW h \in Handlers, IncrMore(h) PROVE TypeOK'
  <2>1. count + 1 \in Nat /\ count' \in Nat /\ ttl' \in 0 .. Window /\ Counted(count + 1)
    BY <1>1 DEF TypeOK, IncrMore
  <2>2. pc' \in [Handlers -> PcStates] /\ seen' = seen
    BY <1>1 DEF TypeOK, IncrMore, PcStates, Awaiting
  <2> QED BY <2>1, <2>2, CountedTypes DEF TypeOK
<1>2. ASSUME NEW h \in Handlers, IncrFirst(h) PROVE TypeOK'
  <2>1. count' \in Nat /\ ttl' \in 0 .. Window /\ Counted(1) /\ seen' = seen
    BY <1>2 DEF TypeOK, IncrFirst
  <2>2. pc' \in [Handlers -> PcStates]
    BY <1>2 DEF TypeOK, IncrFirst, PcStates, Awaiting
  <2> QED BY <2>1, <2>2, CountedTypes DEF TypeOK
<1>3. ASSUME NEW h \in Handlers, SkipLimit(h) \/ Expire(h) \/ Decide(h) \/ Respond(h) PROVE TypeOK'
  BY <1>3 DEF TypeOK, PcStates, Awaiting, SkipLimit, Expire, Decide, Respond
<1>4. ASSUME NEW h \in Handlers, Fault(h) PROVE TypeOK'
  <2>1. seen' \subseteq FaultKinds
    BY <1>4 DEF TypeOK, Fault, IncrRaises, ReplyRaises, WorkerDies, Occurs
  <2>2. pc' \in [Handlers -> PcStates]
    BY <1>4 DEF TypeOK, PcStates, Fault, IncrRaises, ReplyRaises, WorkerDies
  <2>3. UNCHANGED <<count, ttl, granted>>
    BY <1>4 DEF Fault, IncrRaises, ReplyRaises, WorkerDies
  <2> QED BY <2>1, <2>2, <2>3 DEF TypeOK
<1>5. CASE Evict
  <2>1. seen' \subseteq FaultKinds
    BY <1>5 DEF TypeOK, Evict, Occurs
  <2> QED BY <1>5, <2>1 DEF TypeOK, Evict
<1>6. CASE Tick
  BY <1>6, TickTypes
<1>7. CASE UNCHANGED vars
  BY <1>7 DEF TypeOK, vars
<1> QED BY <1>1, <1>2, <1>3, <1>4, <1>5, <1>6, <1>7 DEF Next, Dispatch

\* Every variable of dispatch and of Redis keeps its type.
THEOREM RateLimitTypeCorrect == Spec => []TypeOK
<1>1. Init => TypeOK
  BY InitTypes
<1>2. TypeOK /\ [Next]_vars => TypeOK'
  BY StepTypes
<1> QED BY <1>1, <1>2, PTL DEF Spec

-----------------------------------------------------------------------------

\* A step of dispatch, an eviction or a tick keeps some handler responsible for an
\* untimed key.
LEMMA StepKeepsKeyTimed ==
    ASSUME TypeOK, KeyIsTimed, [Next]_vars
    PROVE  KeyIsTimed'
<1> USE RateLimitAssumption DEF RateLimitAssumption, TypeOK, KeyIsTimed, PairsWhole
<1>1. ASSUME NEW h \in Handlers, SkipLimit(h) \/ Decide(h) \/ Respond(h) PROVE KeyIsTimed'
  <2>1. \A g \in Handlers : pc[g] = "expiring" => pc'[g] = "expiring"
    BY <1>1 DEF SkipLimit, Decide, Respond
  <2> QED BY <1>1, <2>1 DEF SkipLimit, Decide, Respond
<1>2. ASSUME NEW h \in Handlers, IncrFirst(h) PROVE KeyIsTimed'
  BY <1>2 DEF IncrFirst
<1>3. ASSUME NEW h \in Handlers, IncrMore(h) PROVE KeyIsTimed'
  <2>1. \A g \in Handlers : pc[g] = "expiring" => pc'[g] = "expiring"
    BY <1>3 DEF IncrMore
  <2> QED BY <1>3, <2>1 DEF IncrMore
<1>4. ASSUME NEW h \in Handlers, Expire(h) PROVE KeyIsTimed'
  BY <1>4 DEF Expire
<1>5. ASSUME NEW h \in Handlers, Fault(h) PROVE KeyIsTimed'
  BY <1>5 DEF Fault, IncrRaises, ReplyRaises, WorkerDies, Occurs
<1>6. CASE Evict
  BY <1>6 DEF Evict, Occurs
<1>7. CASE Tick
  BY <1>7 DEF Tick
<1>8. CASE UNCHANGED vars
  BY <1>8 DEF vars
<1> QED BY <1>1, <1>2, <1>3, <1>4, <1>5, <1>6, <1>7, <1>8 DEF Next, Dispatch

\* As long as no Redis command raises and no worker dies, no
\* counter lives for ever, however often Redis loses the key and however many
\* handlers overlap.
THEOREM KeysAreTimed == Spec => []KeyIsTimed
<1>1. Init => KeyIsTimed
  BY DEF Init, KeyIsTimed
<1>2. TypeOK /\ KeyIsTimed /\ [Next]_vars => KeyIsTimed'
  BY StepKeepsKeyTimed
<1> QED BY <1>1, <1>2, RateLimitTypeCorrect, PTL DEF Spec

-----------------------------------------------------------------------------
(* Bursts.  While Redis keeps the key, one handler at most is between INCR and EXPIRE, and *)
(* the requests let through in a window belong to two keys at most: the current one, and   *)
(* one that expired before it was created.                                                 *)

\* The requests that the current key may have let through.
FromKey == Lesser(count, Limit)

\* A tally grows with the stretch it covers.
TalliesGrow == \A i, j \in Ages : i <= j => granted[i] <= granted[j]

\* The creator of a key is alone between its two commands, and a key that is not there has
\* no expiry.
OneCreator ==
    /\ \A g, h \in Handlers : pc[g] = "expiring" /\ pc[h] = "expiring" => g = h
    /\ (\E h \in Handlers : pc[h] = "expiring") => count > 0 /\ ttl = 0
    /\ count = 0 => ttl = 0

\* Without a key nothing was let through in this tick, and only the last key counts.
\* With a key, at most one limit comes from the key before it, and since the tick in which
\* the key was timed, or in this one while it is not, all comes from the key itself.
TwoKeys ==
    /\ count = 0 => granted[0] = 0 /\ granted[Window - 1] <= Limit
    /\ count > 0 => granted[Window - 1] <= Limit + FromKey
    /\ count > 0 /\ ttl = 0 => granted[0] <= FromKey
    /\ ttl > 0 => granted[Window - ttl] <= FromKey

BInv == "key_evicted" \notin seen => TalliesGrow /\ OneCreator /\ TwoKeys

LEMMA InitBInv == Init => BInv
<1> SUFFICES ASSUME Init PROVE BInv
  OBVIOUS
<1>1. 0 \in Ages /\ Window - 1 \in Ages /\ Limit \in Nat
  BY RateLimitAssumption DEF RateLimitAssumption, Ages
<1>2. \A i \in Ages : granted[i] = 0
  BY DEF Init
<1> QED
  BY <1>1, <1>2 DEF Init, BInv, TalliesGrow, OneCreator, TwoKeys

\* A request let through by its count raises every tally by at most one, and keeps their order.
LEMMA CountedRaises ==
    ASSUME TypeOK, TalliesGrow, NEW n \in Nat, Counted(n)
    PROVE  /\ TalliesGrow'
           /\ \A i \in Ages : /\ granted'[i] <= granted[i] + 1
                              /\ ~Allowed(n) => granted'[i] = granted[i]
<1> USE RateLimitAssumption DEF RateLimitAssumption, TypeOK
<1>1. \A i \in Ages : granted[i] \in Nat
  OBVIOUS
<1>2. CASE Allowed(n)
  <2>1. \A i \in Ages : granted'[i] = Lesser(granted[i] + 1, MaxCount)
    BY <1>2 DEF Counted
  <2> QED
    BY <1>1, <1>2, <2>1 DEF TalliesGrow, Lesser
<1>3. CASE ~Allowed(n)
  BY <1>1, <1>3 DEF Counted, TalliesGrow
<1> QED
  BY <1>2, <1>3

\* A step that lets nobody through and leaves key, expiry and creator alone.
LEMMA QuietKeepsBInv ==
    ASSUME BInv, UNCHANGED <<count, ttl, granted, seen>>,
           \A h \in Handlers : pc'[h] = "expiring" <=> pc[h] = "expiring"
    PROVE  BInv'
BY DEF BInv, TalliesGrow, OneCreator, TwoKeys, FromKey

LEMMA StepBInv ==
    ASSUME TypeOK, BInv, [Next]_vars
    PROVE  BInv'
<1> SUFFICES ASSUME "key_evicted" \notin seen'
             PROVE  TalliesGrow' /\ OneCreator' /\ TwoKeys'
  BY DEF BInv
<1> USE RateLimitAssumption DEF RateLimitAssumption
<1>0. /\ count \in Nat /\ ttl \in 0 .. Window /\ Window \in Nat /\ Window > 0
      /\ Limit \in Nat /\ Limit > 0 /\ MaxCount \in Nat
      /\ 0 \in Ages /\ Window - 1 \in Ages /\ (ttl > 0 => Window - ttl \in Ages)
      /\ \A i \in Ages : granted[i] \in Nat
  BY DEF TypeOK, Ages
<1>1. "key_evicted" \notin seen
  BY DEF Next, Dispatch, Fault, SkipLimit, IncrFirst, IncrMore, Expire, Decide, Respond, IncrRaises,
         ReplyRaises, WorkerDies, Evict, Tick, Occurs, vars
<1>2. TalliesGrow /\ OneCreator /\ TwoKeys
  BY <1>1 DEF BInv
<1>k. FromKey \in Int /\ (count > 0 => FromKey >= 0 /\ FromKey <= Limit)
  BY <1>0 DEF FromKey, Lesser
<1>3. ASSUME NEW h \in Handlers, SkipLimit(h) \/ Decide(h) \/ Respond(h)
      PROVE  TalliesGrow' /\ OneCreator' /\ TwoKeys'
  <2>1. \A g \in Handlers : pc'[g] = "expiring" <=> pc[g] = "expiring"
    BY <1>3 DEF SkipLimit, Decide, Respond, TypeOK
  <2>2. BInv'
    BY <1>3, <2>1, QuietKeepsBInv DEF SkipLimit, Decide, Respond
  <2> QED
    BY <2>2 DEF BInv
<1>4. ASSUME NEW h \in Handlers, IncrFirst(h)
      PROVE  TalliesGrow' /\ OneCreator' /\ TwoKeys'
  <2>1. /\ count = 0 /\ count' = 1 /\ ttl' = ttl /\ ttl = 0 /\ Counted(1)
        /\ pc'[h] = "expiring" /\ \A g \in Handlers : pc[g] # "expiring"
        /\ \A g \in Handlers : g # h => pc'[g] = pc[g]
    BY <1>2, <1>4 DEF IncrFirst, OneCreator, TypeOK
  <2>2. TalliesGrow' /\ \A i \in Ages : granted'[i] <= granted[i] + 1
    BY <1>2, <2>1, CountedRaises
  <2>3. FromKey' = 1
    BY <1>0, <2>1 DEF FromKey, Lesser
  <2>4. \A i \in Ages : granted'[i] \in Nat
    BY <2>1, CountedTypes
  <2>5. TwoKeys'
    BY <1>0, <1>2, <2>1, <2>2, <2>3, <2>4 DEF TwoKeys
  <2> QED
    BY <1>2, <2>1, <2>2, <2>5 DEF OneCreator
<1>5. ASSUME NEW h \in Handlers, IncrMore(h)
      PROVE  TalliesGrow' /\ OneCreator' /\ TwoKeys'
  <2>1. /\ count \in Nat /\ count > 0 /\ count' = count + 1 /\ ttl' = ttl /\ Counted(count + 1)
        /\ \A g \in Handlers : pc'[g] = "expiring" <=> pc[g] = "expiring"
    BY <1>0, <1>5 DEF IncrMore, TypeOK
  <2>2. /\ TalliesGrow'
        /\ \A i \in Ages : /\ granted'[i] <= granted[i] + 1
                           /\ ~Allowed(count + 1) => granted'[i] = granted[i]
    BY <1>2, <2>1, CountedRaises
  <2>3. FromKey' = IF Allowed(count + 1) THEN FromKey + 1 ELSE FromKey
    BY <1>0, <2>1 DEF FromKey, Lesser, Allowed
  <2>4. \A i \in Ages : granted'[i] \in Nat
    BY <2>1, CountedTypes
  <2>5. OneCreator'
    BY <1>0, <1>2, <2>1 DEF OneCreator
  <2>6. TwoKeys'
    BY <1>0, <1>2, <1>k, <2>1, <2>2, <2>3, <2>4 DEF TwoKeys
  <2> QED
    BY <2>2, <2>5, <2>6
<1>6. ASSUME NEW h \in Handlers, Expire(h)
      PROVE  TalliesGrow' /\ OneCreator' /\ TwoKeys'
  <2>1. /\ pc[h] = "expiring" /\ count > 0 /\ count' = count /\ ttl = 0 /\ ttl' = Window
        /\ granted' = granted /\ \A g \in Handlers : pc'[g] # "expiring"
    BY <1>2, <1>6 DEF Expire, OneCreator, TypeOK
  <2>2. FromKey' = FromKey /\ Window - ttl' = 0
    BY <1>0, <2>1 DEF FromKey
  <2>3. OneCreator' /\ TalliesGrow'
    BY <1>0, <1>2, <2>1 DEF OneCreator, TalliesGrow
  <2>4. TwoKeys'
    BY <1>0, <1>2, <2>1, <2>2 DEF TwoKeys
  <2> QED
    BY <2>3, <2>4
<1>7. ASSUME NEW h \in Handlers, Fault(h)
      PROVE  TalliesGrow' /\ OneCreator' /\ TwoKeys'
  <2>1. /\ UNCHANGED <<count, ttl, granted>>
        /\ \A g \in Handlers : pc'[g] = "expiring" => pc[g] = "expiring"
    BY <1>7 DEF Fault, IncrRaises, ReplyRaises, WorkerDies, TypeOK
  <2>2. FromKey' = FromKey
    BY <2>1 DEF FromKey
  <2> QED
    BY <1>2, <2>1, <2>2 DEF TalliesGrow, OneCreator, TwoKeys
<1>8. CASE Evict
  BY <1>8 DEF Evict, Occurs
<1>9. CASE Tick
  <2>1. /\ pc' = pc
        /\ \A i \in Ages : granted'[i] = IF i = 0 THEN 0 ELSE granted[i - 1]
    BY <1>9 DEF Tick
  <2>2. \A i \in Ages : i # 0 => i - 1 \in Ages
    BY <1>0 DEF Ages
  \* A tally loses its oldest tick.
  <2>3. \A i \in Ages : granted'[i] \in Nat /\ granted'[i] <= granted[i]
    <3> SUFFICES ASSUME NEW i \in Ages PROVE granted'[i] \in Nat /\ granted'[i] <= granted[i]
      OBVIOUS
    <3>1. CASE i = 0
      BY <1>0, <2>1, <3>1
    <3>2. CASE i # 0
      <4>1. i - 1 \in Ages /\ i - 1 <= i
        BY <2>2, <3>2 DEF Ages
      <4>2. granted[i - 1] <= granted[i]
        BY <1>2, <4>1 DEF TalliesGrow
      <4> QED
        BY <1>0, <2>1, <3>2, <4>1, <4>2
    <3> QED
      BY <3>1, <3>2
  <2>4. TalliesGrow'
    <3> SUFFICES ASSUME NEW i \in Ages, NEW j \in Ages, i <= j PROVE granted'[i] <= granted'[j]
      BY DEF TalliesGrow
    <3>1. CASE i = 0
      BY <2>1, <2>3, <3>1
    <3>2. CASE i # 0
      <4>1. i - 1 \in Ages /\ j - 1 \in Ages /\ i - 1 <= j - 1 /\ j # 0
        BY <2>2, <3>2 DEF Ages
      <4>2. granted[i - 1] <= granted[j - 1]
        BY <1>2, <4>1 DEF TalliesGrow
      <4> QED
        BY <2>1, <3>2, <4>1, <4>2
    <3> QED
      BY <3>1, <3>2
  <2>5. CASE ttl = 0
    <3>1. count' = count /\ ttl' = 0 /\ FromKey' = FromKey
      BY <1>0, <1>9, <2>1, <2>5 DEF Tick, FromKey
    <3>2. OneCreator'
      BY <1>2, <2>1, <2>5, <3>1 DEF OneCreator
    <3>3. TwoKeys'
      BY <1>0, <1>2, <1>k, <2>1, <2>3, <2>5, <3>1 DEF TwoKeys
    <3> QED
      BY <2>4, <3>2, <3>3
  <2>6. CASE ttl = 1
    \* The key is gone; what it let through is all that the window remembers.
    <3>1. count' = 0 /\ ttl' = 0 /\ count > 0
      BY <1>0, <1>2, <1>9, <2>6 DEF Tick, OneCreator
    <3>2. \A h \in Handlers : pc'[h] # "expiring"
      BY <1>2, <2>1, <2>6 DEF OneCreator
    <3>3. granted[Window - 1] <= Limit
      BY <1>0, <1>2, <1>k, <2>6, <3>1 DEF TwoKeys
    <3>4. granted'[0] = 0 /\ granted'[Window - 1] <= Limit
      BY <1>0, <2>1, <2>3, <3>3
    <3> QED
      BY <2>4, <3>1, <3>2, <3>4 DEF OneCreator, TwoKeys
  <2>7. CASE ttl > 1
    <3>1. count' = count /\ ttl' = ttl - 1 /\ FromKey' = FromKey
      BY <1>0, <1>9, <2>1, <2>7 DEF Tick, FromKey
    <3>2. OneCreator'
      BY <1>0, <1>2, <2>1, <2>7, <3>1 DEF OneCreator
    <3>3. /\ Window - ttl' \in Ages /\ Window - ttl' # 0 /\ (Window - ttl') - 1 = Window - ttl
          /\ granted'[Window - ttl'] = granted[Window - ttl]
      <4>1. Window - ttl' \in Ages /\ Window - ttl' # 0 /\ (Window - ttl') - 1 = Window - ttl
        BY <1>0, <2>7, <3>1 DEF Ages
      <4> QED
        BY <2>1, <4>1
    <3>4. TwoKeys'
      BY <1>0, <1>2, <1>k, <2>1, <2>3, <2>7, <3>1, <3>3 DEF TwoKeys, OneCreator
    <3> QED
      BY <2>4, <3>2, <3>4
  <2> QED
    BY <1>0, <2>5, <2>6, <2>7
<1>10. CASE UNCHANGED vars
  <2>1. BInv'
    BY <1>10, QuietKeepsBInv DEF vars
  <2> QED
    BY <2>1 DEF BInv
<1> QED
  BY <1>3, <1>4, <1>5, <1>6, <1>7, <1>8, <1>9, <1>10 DEF Next, Dispatch

\* While Redis keeps the key, at most two limits' worth of the requests counted in a stretch
\* as long as the window are let through, however the handlers overlap, raise or die and
\* however late they learn their count.
THEOREM BurstsAreBounded == Spec => []BurstBound
<1>1. ASSUME TypeOK, BInv PROVE BurstBound
  <2> SUFFICES ASSUME "key_evicted" \notin seen PROVE granted[Window - 1] <= 2 * Limit
    BY DEF BurstBound
  <2>1. TwoKeys
    BY <1>1 DEF BInv
  <2>2. count \in Nat /\ Limit \in Nat /\ Limit > 0 /\ granted[Window - 1] \in Nat
    BY <1>1, RateLimitAssumption DEF TypeOK, Ages, RateLimitAssumption
  <2>3. FromKey \in Int /\ FromKey <= Limit
    BY <2>2 DEF FromKey, Lesser
  <2> QED
    BY <2>1, <2>2, <2>3 DEF TwoKeys
<1>2. TypeOK /\ BInv /\ [Next]_vars => BInv'
  BY StepBInv
<1> QED
  BY <1>1, <1>2, InitBInv, RateLimitTypeCorrect, PTL DEF Spec

-----------------------------------------------------------------------------
(* The layers *)

\* Where each layer stands.
LEMMA Depths ==
    /\ Depth("routes") = 0 /\ Depth("security") = 1 /\ Depth("limit") = 2
    /\ Depth("logging") = 3 /\ Depth("cors") = 4
    /\ Len(Outward) = 4
<1>1. /\ DOMAIN Outward = {1, 2, 3, 4} /\ Len(Outward) = 4
      /\ Outward[1] = "security" /\ Outward[2] = "limit"
      /\ Outward[3] = "logging" /\ Outward[4] = "cors"
  BY DEF Outward
<1>2. ASSUME NEW i \in {1, 2, 3, 4} PROVE (CHOOSE j \in DOMAIN Outward : Outward[j] = Outward[i]) = i
  BY <1>1
<1>3. Depth("security") = 1
  BY <1>1, <1>2 DEF Depth
<1>4. Depth("limit") = 2
  BY <1>1, <1>2 DEF Depth
<1>5. Depth("logging") = 3
  BY <1>1, <1>2 DEF Depth
<1>6. Depth("cors") = 4
  BY <1>1, <1>2 DEF Depth
<1> QED
  BY <1>1, <1>3, <1>4, <1>5, <1>6 DEF Depth

\* The layers an answer passes, for each layer that gives answers.
LEMMA LayersOutside ==
    /\ Outside("routes") = {"security", "limit", "logging", "cors"}
    /\ Outside("limit") = {"logging", "cors"}
    /\ Outside("cors") = {}
<1>1. /\ Outward[1] = "security" /\ Outward[2] = "limit"
      /\ Outward[3] = "logging" /\ Outward[4] = "cors"
  BY DEF Outward
<1>2. 0 + 1 .. 4 = {1, 2, 3, 4} /\ 2 + 1 .. 4 = {3, 4} /\ 4 + 1 .. 4 = {}
  OBVIOUS
<1>3. Outside("routes") = {Outward[i] : i \in {1, 2, 3, 4}}
  BY <1>2, Depths DEF Outside
<1>4. Outside("limit") = {Outward[i] : i \in {3, 4}}
  BY <1>2, Depths DEF Outside
<1>5. Outside("cors") = {}
  BY <1>2, Depths DEF Outside
<1> QED
  BY <1>1, <1>3, <1>4, <1>5

\* A preflight is answered outside the limiter, everything else inside.
LEMMA PreflightIsOuter ==
    /\ ~Meets("preflight", "limit") /\ Meets("call", "limit") /\ Meets("probe", "limit")
    /\ AnsweredAt("preflight") = "cors" /\ AnsweredAt("call") = "routes"
    /\ AnsweredAt("probe") = "routes"
BY Depths DEF Meets, AnsweredAt

\* What an answer carries, by the layer it comes from.
LEMMA MarksOfAnswer ==
    ASSUME NEW kind, NEW outcome, outcome # "raised"
    PROVE  /\ Sent(kind, "routes", outcome) =
                  [to |-> kind, status |-> outcome, marks |-> {"security", "id", "cors"}]
           /\ Sent(kind, "limit", outcome) =
                  [to |-> kind, status |-> outcome, marks |-> {"id", "cors"}]
           /\ Sent(kind, "cors", outcome) =
                  [to |-> kind, status |-> outcome, marks |-> {"cors"}]
<1>1. /\ Adds["security"] = {"security"} /\ Adds["limit"] = {}
      /\ Adds["logging"] = {"id"} /\ Adds["cors"] = {"cors"}
  BY DEF Adds
<1>2. UNION {Adds[l] : l \in {"security", "limit", "logging", "cors"}} = {"security", "id", "cors"}
  <2>1. {Adds[l] : l \in {"security", "limit", "logging", "cors"}} =
            {{"security"}, {}, {"id"}, {"cors"}}
    BY <1>1
  <2>2. UNION {{"security"}, {}, {"id"}, {"cors"}} = {"security", "id", "cors"}
    OBVIOUS
  <2> QED
    BY <2>1, <2>2, Zenon
<1>3. UNION {Adds[l] : l \in {"logging", "cors"}} = {"id", "cors"}
  <2>1. {Adds[l] : l \in {"logging", "cors"}} = {{"id"}, {"cors"}}
    BY <1>1
  <2> QED
    BY <2>1
<1>4. UNION {Adds[l] : l \in {}} = {}
  OBVIOUS
<1> QED
  BY <1>2, <1>3, <1>4, LayersOutside DEF Sent

\* What a line shows: whatever the call passed, the context is written over it, and what the
\* masking has seen and neither the context nor a traceback covers matches no pattern.
LEMMA LineShows ==
    ASSUME NEW e, NEW raw \in Raw
    PROVE  /\ Line(e, raw).event = e
           /\ Line(e, raw).fields["client_ip"] = "octets" /\ Line(e, raw).fields["path"] = raw
           /\ \A k \in DOMAIN Line(e, raw).fields \ {"path", "exception"} :
                  Line(e, raw).fields[k] # "matched"
<1> DEFINE x == Context(raw)
           b == Over(Arguments(e, raw), x)
           c == Masked(b)
           g == Over(x, c)
           t == Traceback(e, raw)
           f == Over(t, g)
<1>1. DOMAIN x = {"client_ip", "path"} /\ x["client_ip"] = "octets" /\ x["path"] = raw
  BY DEF Context
<1>2. DOMAIN t \subseteq {"exception"}
  BY DEF Traceback
<1>3. \A k \in DOMAIN c : c[k] # "matched"
  <2>1. DOMAIN c = DOMAIN b /\ \A k \in DOMAIN b : c[k] = IF b[k] = "matched" THEN "replaced" ELSE b[k]
    <3> HIDE DEF b
    <3> QED
      BY DEF Masked
  <2> HIDE DEF b, c
  <2> QED
    BY <2>1
<1>4. /\ DOMAIN g = DOMAIN x \cup DOMAIN c
      /\ \A k \in DOMAIN g : g[k] = IF k \in DOMAIN x THEN x[k] ELSE c[k]
  <2> HIDE DEF x, c
  <2> QED
    BY DEF Over
<1>5. /\ DOMAIN f = DOMAIN t \cup DOMAIN g
      /\ \A k \in DOMAIN f : f[k] = IF k \in DOMAIN t THEN t[k] ELSE g[k]
  <2> HIDE DEF t, g
  <2> QED
    BY DEF Over
<1>6. Line(e, raw) = [event |-> e, fields |-> f]
  BY DEF Line
<1> HIDE DEF x, b, c, g, t, f
<1>7. f["client_ip"] = "octets" /\ f["path"] = raw
  BY <1>1, <1>2, <1>4, <1>5
<1>8. ASSUME NEW k \in DOMAIN f \ {"path", "exception"} PROVE f[k] # "matched"
  <2>1. k \in DOMAIN g /\ f[k] = g[k]
    BY <1>2, <1>5
  <2>2. CASE k = "client_ip"
    BY <1>7, <2>2
  <2>3. CASE k # "client_ip"
    BY <1>1, <1>3, <1>4, <2>1, <2>3
  <2> QED
    BY <2>2, <2>3
<1> QED
  BY <1>6, <1>7, <1>8

-----------------------------------------------------------------------------
\* The layers around the limiter do to its variables what RateLimit says: everything proved
\* of Spec holds for it inside the stack.
LEMMA HttpStepLimits == [HttpNext]_httpVars => [Next]_vars
<1> SUFFICES ASSUME [HttpNext]_httpVars PROVE [Next]_vars
  OBVIOUS
<1>1. ASSUME NEW h \in Handlers, Serve(h) PROVE [Next]_vars
  BY <1>1 DEF Serve, Arrive, PassUncounted, Count, CountRaises, Answer, RequestLost, Next, Dispatch,
              Fault
<1>2. CASE KeyLost \/ TimePasses
  BY <1>2 DEF KeyLost, TimePasses, Next
<1>3. CASE UNCHANGED httpVars
  BY <1>3 DEF httpVars
<1> QED
  BY <1>1, <1>2, <1>3 DEF HttpNext

\* The middleware stack implements the limiter it contains.
THEOREM StackKeepsLimiter == HttpSpec => Spec
<1>1. HttpInit => Init
  BY DEF HttpInit
<1> QED
  BY <1>1, HttpStepLimits, PTL DEF HttpSpec, Spec

\* The burst bound and the timed key hold behind the layers as well.
THEOREM LimiterHoldsInStack == HttpSpec => [](BurstBound /\ KeyIsTimed)
BY StackKeepsLimiter, BurstsAreBounded, KeysAreTimed, PTL

-----------------------------------------------------------------------------
\* A handler that has begun works on a request; one that was counted, on one that the layers
\* outside the limiter had let through.
CountedAreCalls ==
    \A h \in Handlers :
        /\ pc[h] # "idle" => request[h] # "none"
        /\ pc[h] \in Awaiting \cup {"rejected"} => request[h] = "call"

\* What the properties say of the last answer.
LastOK ==
    last # NoAnswer =>
        /\ last.answer \in [to: Requests \ {"none"}, status: Statuses, marks: SUBSET Marks]
        /\ \A l \in last.lines : l.fields["path"] \in Shown

HInv ==
    /\ TypeOK
    /\ request \in [Handlers -> Requests] /\ broken \in [Handlers -> BOOLEAN]
    /\ CountedAreCalls
    /\ LastOK /\ RefusalsAreReadable /\ AnswersAreTraced /\ AddressesStayMasked

\* Of the lines of a request that met the logging layer, one closes it.
LEMMA OneLineCloses ==
    ASSUME NEW h, NEW outcome
    PROVE  \A origin \in {"routes", "limit"} :
               Cardinality(Events(h, origin, outcome) \cap {"processed", "raised"}) = 1
<1> SUFFICES ASSUME NEW origin \in {"routes", "limit"}
             PROVE  Cardinality(Events(h, origin, outcome) \cap {"processed", "raised"}) = 1
  OBVIOUS
<1>1. "logging" \in Outside(origin)
  BY LayersOutside
<1>2. \/ Events(h, origin, outcome) \cap {"processed", "raised"} = {"raised"}
      \/ Events(h, origin, outcome) \cap {"processed", "raised"} = {"processed"}
  <2>1. CASE outcome = "raised"
    BY <2>1 DEF Events
  <2>2. CASE outcome # "raised"
    BY <1>1, <2>2 DEF Events
  <2> QED
    BY <2>1, <2>2
<1> QED
  BY <1>2, FS_Singleton

\* An answer is as the properties say.
LEMMA AnswerIsSound ==
    ASSUME HInv, NEW h \in Handlers, Answer(h)
    PROVE  LastOK' /\ RefusalsAreReadable' /\ AnswersAreTraced' /\ AddressesStayMasked'
<1>1. PICK o \in Outcomes(h), raw \in Raw :
          last' = [answer |-> Sent(request[h], Origin(h), o),
                   lines |-> {Line(e, raw) : e \in Events(h, Origin(h), o)}]
  BY DEF Answer
<1> DEFINE kind == request[h]
           origin == Origin(h)
           events == {l.event : l \in last'.lines}
<1>2. last'.answer = Sent(kind, origin, o) /\ last'.lines = {Line(e, raw) : e \in Events(h, origin, o)}
  BY <1>1
<1>3. kind \in Requests \ {"none"} /\ (pc[h] = "rejected" => kind = "call")
  BY DEF Answer, Respond, HInv, CountedAreCalls
<1>4. \/ origin = "limit" /\ kind = "call" /\ o = "limited"
      \/ origin = "cors" /\ kind = "preflight" /\ o = "ok"
      \/ origin = "routes" /\ kind \in {"call", "probe"} /\ o \in {"ok", "refused", "invalid", "raised"}
  BY <1>1, <1>3, PreflightIsOuter DEF Origin, Outcomes, Requests
<1>5. \A l \in last'.lines :
          /\ l.fields["client_ip"] = "octets" /\ l.fields["path"] = raw
          /\ \A k \in DOMAIN l.fields \ {"path", "exception"} : l.fields[k] # "matched"
  BY <1>2, LineShows
<1>6. events = Events(h, origin, o)
  <2>1. events = {Line(e, raw).event : e \in Events(h, origin, o)}
    BY <1>2
  <2> QED
    BY <2>1, LineShows
\* The answer, by its origin.
<1>7. last'.answer =
          [to |-> kind,
           status |-> IF o = "raised" THEN "error" ELSE o,
           marks |-> IF o = "raised" THEN {}
                     ELSE IF origin = "routes" THEN {"security", "id", "cors"}
                     ELSE IF origin = "limit" THEN {"id", "cors"} ELSE {"cors"}]
  <2>1. CASE o = "raised"
    BY <1>2, <2>1 DEF Sent
  <2>2. CASE o # "raised"
    BY <1>2, <1>4, <2>2, MarksOfAnswer
  <2> QED
    BY <2>1, <2>2
<1>8. /\ last'.answer.to = kind
      /\ last'.answer.status = IF o = "raised" THEN "error" ELSE o
      /\ last'.answer.marks = IF o = "raised" THEN {}
                              ELSE IF origin = "routes" THEN {"security", "id", "cors"}
                              ELSE IF origin = "limit" THEN {"id", "cors"} ELSE {"cors"}
  BY <1>7
<1>9. LastOK'
  <2>1. last'.answer \in [to: Requests \ {"none"}, status: Statuses, marks: SUBSET Marks]
    BY <1>3, <1>4, <1>7 DEF Statuses, Marks
  <2> QED
    BY <1>5, <2>1 DEF LastOK, Raw, Shown
<1>11. RefusalsAreReadable'
  BY <1>4, <1>8 DEF RefusalsAreReadable
<1>12. AnswersAreTraced'
  <2>1. kind # "preflight" => Cardinality(events \cap {"processed", "raised"}) = 1
    <3>1. kind # "preflight" => origin \in {"routes", "limit"}
      BY <1>4
    <3> QED
      BY <1>6, <3>1, OneLineCloses
  <2>2. kind # "preflight" => ("id" \in last'.answer.marks <=> last'.answer.status # "error")
    BY <1>4, <1>8
  <2> QED
    BY <1>8, <2>1, <2>2 DEF AnswersAreTraced
<1>13. AddressesStayMasked'
  BY <1>5 DEF AddressesStayMasked
<1> QED
  BY <1>9, <1>11, <1>12, <1>13

\* A step that answers nobody.
LEMMA SilenceIsSound ==
    ASSUME HInv, last' \in {last, NoAnswer}
    PROVE  LastOK' /\ RefusalsAreReadable' /\ AnswersAreTraced' /\ AddressesStayMasked'
BY DEF HInv, LastOK, RefusalsAreReadable, AnswersAreTraced, AddressesStayMasked

LEMMA StepHInv == HInv /\ [HttpNext]_httpVars => HInv'
<1> SUFFICES ASSUME HInv, [HttpNext]_httpVars PROVE HInv'
  OBVIOUS
<1>0. /\ TypeOK /\ CountedAreCalls /\ pc \in [Handlers -> PcStates]
      /\ request \in [Handlers -> Requests] /\ broken \in [Handlers -> BOOLEAN]
  BY DEF HInv, TypeOK
<1>1. TypeOK'
  BY <1>0, HttpStepLimits, StepTypes
<1>2. ASSUME request' \in [Handlers -> Requests], broken' \in [Handlers -> BOOLEAN],
             CountedAreCalls', last' \in {last, NoAnswer}
      PROVE  HInv'
  BY <1>1, <1>2, SilenceIsSound DEF HInv
<1>3. ASSUME NEW h \in Handlers, Arrive(h) PROVE HInv'
  <2>1. /\ UNCHANGED <<pc, broken>> /\ last' = NoAnswer /\ pc[h] = "idle"
        /\ request' \in [Handlers -> Requests]
        /\ \A g \in Handlers : g # h => request'[g] = request[g]
    BY <1>0, <1>3 DEF Arrive, vars
  <2> QED
    BY <1>0, <1>2, <2>1 DEF CountedAreCalls, Awaiting
<1>4. ASSUME NEW h \in Handlers, PassUncounted(h) PROVE HInv'
  <2>1. /\ UNCHANGED <<request, broken>> /\ last' = NoAnswer /\ request[h] # "none"
        /\ pc'[h] = "forwarded" /\ \A g \in Handlers : g # h => pc'[g] = pc[g]
    BY <1>0, <1>4 DEF PassUncounted, SkipLimit
  <2> QED
    BY <1>0, <1>2, <2>1 DEF CountedAreCalls, Awaiting
<1>5. ASSUME NEW h \in Handlers, Count(h) \/ CountRaises(h) PROVE HInv'
  <2>1. request[h] = "call"
    BY <1>5, PreflightIsOuter DEF Count, CountRaises, MustCount
  <2>2. /\ request' = request /\ last' = NoAnswer /\ broken' \in [Handlers -> BOOLEAN]
        /\ \A g \in Handlers : g # h => pc'[g] = pc[g]
    BY <1>0, <1>5 DEF Count, CountRaises, IncrFirst, IncrMore, Expire, Decide, IncrRaises, ReplyRaises
  <2> QED
    BY <1>0, <1>2, <2>1, <2>2 DEF CountedAreCalls, Awaiting
<1>6. ASSUME NEW h \in Handlers, Answer(h) PROVE HInv'
  <2>1. /\ pc'[h] = "idle" /\ \A g \in Handlers : g # h => pc'[g] = pc[g] /\ request'[g] = request[g]
        /\ request' \in [Handlers -> Requests] /\ broken' \in [Handlers -> BOOLEAN]
    BY <1>0, <1>6 DEF Answer, Respond, Requests
  <2>2. CountedAreCalls'
    BY <1>0, <2>1 DEF CountedAreCalls, Awaiting
  <2> QED
    BY <1>1, <1>6, <2>1, <2>2, AnswerIsSound DEF HInv
<1>7. ASSUME NEW h \in Handlers, RequestLost(h) PROVE HInv'
  <2>1. /\ pc'[h] = "idle" /\ \A g \in Handlers : g # h => pc'[g] = pc[g] /\ request'[g] = request[g]
        /\ request' \in [Handlers -> Requests] /\ broken' = broken /\ last' = NoAnswer
    BY <1>0, <1>7 DEF RequestLost, WorkerDies, Requests
  <2> QED
    BY <1>0, <1>2, <2>1 DEF CountedAreCalls, Awaiting
<1>8. CASE KeyLost \/ TimePasses
  <2>1. UNCHANGED <<pc, request, broken>> /\ last' = NoAnswer
    BY <1>8 DEF KeyLost, TimePasses, Silent, Evict, Tick
  <2> QED
    BY <1>0, <1>2, <2>1 DEF CountedAreCalls, Awaiting
<1>9. CASE UNCHANGED httpVars
  <2>1. UNCHANGED <<pc, request, broken, last>>
    BY <1>9 DEF httpVars, http, vars
  <2> QED
    BY <1>0, <1>2, <2>1 DEF CountedAreCalls, Awaiting
<1> QED
  BY <1>3, <1>4, <1>5, <1>6, <1>7, <1>8, <1>9 DEF HttpNext, Serve

LEMMA HttpInvariance == HttpSpec => []HInv
<1>1. HttpInit => HInv
  <2> SUFFICES ASSUME HttpInit PROVE HInv
    OBVIOUS
  <2>1. TypeOK
    BY InitTypes DEF HttpInit
  <2> QED
    BY <2>1 DEF HttpInit, Init, HInv, CountedAreCalls, Awaiting, Requests, LastOK,
                RefusalsAreReadable, AnswersAreTraced, AddressesStayMasked
<1> QED
  BY <1>1, StepHInv, PTL DEF HttpSpec

\* Whatever order handlers, faults and the clock move in, every answer but a 500 can be read by
\* a browser and carries its id, and every request leaves one line that closes it.
THEOREM AnswersCarryTheirLayers == HttpSpec => []HttpInvariant
<1>1. HInv => HttpInvariant
  BY DEF HInv, LastOK, HttpInvariant, HttpTypeOK
<1> QED
  BY HttpInvariance, <1>1, PTL

\* No line of the log shows more of a client's address than two octets, or, outside the path
\* and tracebacks, what a masking pattern matches.
THEOREM LogsHideAddresses == HttpSpec => []AddressesStayMasked
<1>1. HInv => AddressesStayMasked
  BY DEF HInv
<1> QED
  BY HttpInvariance, <1>1, PTL
=============================================================================
