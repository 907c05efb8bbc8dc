------------------------------- MODULE HttpStack -------------------------------
(***************************************************************************)
(* The middleware stack of backend/main.py around the rate limiter: which  *)
(* layers a request meets, which layer answers it, what each outer layer   *)
(* adds to the answer, and what the request leaves in the log after the    *)
(* structlog processors of backend/config/logging_config.py.               *)
(***************************************************************************)
EXTENDS RateLimit, Sequences, FiniteSets

CONSTANTS
    NoAnswer   \* the last step answered nobody

VARIABLES
    request,   \* request[h]: what handler h works on
    broken,    \* broken[h]: the except clause of the rate limiter was taken for it
    last       \* the answer sent by the last step, with the lines it left in the log

http == <<request, broken, last>>
httpVars == <<vars, http>>

Requests == {"none", "preflight", "probe", "call"}
Statuses == {"ok", "refused", "invalid", "limited", "error"}
Marks == {"security", "id", "cors"}

\* What a value in the log shows: something that a pattern of PII_PATTERNS matches, something
\* none of them matches, a replacement, or the two octets (or ***) of _safe_ip.
Shown == {"matched", "unmatched", "replaced", "octets"}

HttpTypeOK ==
    /\ TypeOK
    /\ request \in [Handlers -> Requests]
    /\ broken \in [Handlers -> BOOLEAN]
    /\ last # NoAnswer =>
           /\ last.answer \in [to: Requests \ {"none"}, status: Statuses, marks: SUBSET Marks]
           /\ \A l \in last.lines : l.fields["path"] \in Shown

HttpInit ==
    /\ Init
    /\ request = [h \in Handlers |-> "none"]
    /\ broken = [h \in Handlers |-> FALSE]
    /\ last = NoAnswer

-----------------------------------------------------------------------------
(* The stack *)

\* Mutant: the first one added is the outermost, as the comment in main.py has it.
AsAdded == <<"cors", "logging", "limit", "security">>

\* From the routes outwards: add_middleware puts the last one added outermost.
Outward == <<"security", "limit", "logging", "cors">>

\* 0: the routes, with the handlers of HTTPException and ValueError around them.
Depth(layer) ==
    IF layer = "routes" THEN 0 ELSE CHOOSE i \in DOMAIN Outward : Outward[i] = layer

Adds == [security |-> {"security"}, limit |-> {}, logging |-> {"id"}, cors |-> {"cors"}]

\* The layer that answers a request the limiter lets pass.
AnsweredAt(kind) == IF kind = "preflight" THEN "cors" ELSE "routes"

Meets(kind, layer) == Depth(layer) > Depth(AnsweredAt(kind)) \/ layer = AnsweredAt(kind)

\* The layers an answer passes on its way out.
Outside(origin) == {Outward[i] : i \in Depth(origin) + 1 .. Len(Outward)}

\* What the client gets: an exception passes every layer and becomes a bare 500.
Sent(kind, origin, outcome) ==
    IF outcome = "raised"
    THEN [to |-> kind, status |-> "error", marks |-> {}]
    ELSE [to |-> kind, status |-> outcome,
          marks |-> (IF origin = "cors" THEN {"cors"} ELSE {})
                    \cup UNION {Adds[l] : l \in Outside(origin)}]

-----------------------------------------------------------------------------
(* The log *)

\* What the strings of a request show: its path, its query string, what a traceback quotes of
\* it, and the first ten characters of an address, which may be all of it.
Raw == {"matched", "unmatched"}

\* What RequestLoggingMiddleware binds.
Context(raw) == [client_ip |-> "octets", path |-> raw]

\* What the call itself passes: the limiter client_ip[:10], the others the query string
\* without four parameters, or the path.
Arguments(event, raw) ==
    CASE event = "limited"   -> [client_ip |-> raw]
      [] event = "processed" -> [query_params |-> raw]
      [] event = "unhandled" -> [path |-> raw]
      [] OTHER               -> << >>

Over(f, g) == [k \in DOMAIN f \cup DOMAIN g |-> IF k \in DOMAIN f THEN f[k] ELSE g[k]]

\* PIIMaskingProcessor replaces what its patterns match and leaves the rest.
Masked(f) == [k \in DOMAIN f |-> IF f[k] = "matched" THEN "replaced" ELSE f[k]]

\* exc_info=True: format_exc_info writes the traceback at the very end.
Traceback(event, raw) == IF event \in {"raised", "unhandled"} THEN [exception |-> raw] ELSE << >>

\* Mutant: the context is not written over the line a second time.
LineWithoutAudit(event, raw) ==
    [event |-> event,
     fields |-> Over(Traceback(event, raw), Masked(Over(Arguments(event, raw), Context(raw))))]

\* merge_contextvars, then PIIMaskingProcessor, then AuditContextProcessor, which writes
\* the context over the line once more.
Line(event, raw) ==
    [event |-> event,
     fields |-> Over(Traceback(event, raw),
                     Over(Context(raw), Masked(Over(Arguments(event, raw), Context(raw)))))]

\* The lines of a whole request.
Events(h, origin, outcome) ==
    (IF pc[h] = "rejected" THEN {"limited"} ELSE {})
    \cup (IF broken[h] THEN {"unavailable"} ELSE {})
    \cup (IF outcome = "raised" THEN {"raised", "unhandled"}
          ELSE IF "logging" \in Outside(origin) THEN {"processed"} ELSE {})

-----------------------------------------------------------------------------
Arrive(h) ==
    /\ pc[h] = "idle" /\ request[h] = "none"
    /\ \E k \in Requests \ {"none"} : request' = [request EXCEPT ![h] = k]
    /\ last' = NoAnswer
    /\ UNCHANGED <<vars, broken>>

\* A request passes the limiter uncounted on its exempt paths, or never meets it.
PassUncounted(h) ==
    /\ request[h] # "none"
    /\ request[h] = "probe" \/ ~Meets(request[h], "limit")
    /\ SkipLimit(h)
    /\ last' = NoAnswer
    /\ UNCHANGED <<request, broken>>

MustCount(h) == request[h] \in {"preflight", "call"} /\ Meets(request[h], "limit")

Count(h) ==
    /\ MustCount(h)
    /\ IncrFirst(h) \/ IncrMore(h) \/ Expire(h) \/ Decide(h)
    /\ last' = NoAnswer
    /\ UNCHANGED <<request, broken>>

CountRaises(h) ==
    /\ MustCount(h)
    /\ IncrRaises(h) \/ ReplyRaises(h)
    /\ broken' = [broken EXCEPT ![h] = TRUE]
    /\ last' = NoAnswer
    /\ UNCHANGED request

Outcomes(h) ==
    IF pc[h] = "rejected" THEN {"limited"}
    ELSE IF request[h] = "call" THEN {"ok", "refused", "invalid", "raised"} ELSE {"ok"}

Origin(h) == IF pc[h] = "rejected" THEN "limit" ELSE AnsweredAt(request[h])

Answer(h) ==
    /\ Respond(h)
    /\ \E o \in Outcomes(h), raw \in Raw :
        last' = [answer |-> Sent(request[h], Origin(h), o),
                 lines |-> {Line(e, raw) : e \in Events(h, Origin(h), o)}]
    /\ request' = [request EXCEPT ![h] = "none"]
    /\ broken' = [broken EXCEPT ![h] = FALSE]

RequestLost(h) ==
    /\ WorkerDies(h)
    /\ request' = [request EXCEPT ![h] = "none"]
    /\ last' = NoAnswer
    /\ UNCHANGED broken

Silent == last' = NoAnswer /\ UNCHANGED <<request, broken>>

KeyLost == Evict /\ Silent

TimePasses == Tick /\ Silent

Serve(h) ==
    \/ Arrive(h) \/ PassUncounted(h) \/ Count(h)
    \/ CountRaises(h) \/ Answer(h) \/ RequestLost(h)

HttpNext == (\E h \in Handlers : Serve(h)) \/ KeyLost \/ TimePasses

HttpSpec == HttpInit /\ [][HttpNext]_httpVars

\* As FairSpec of RateLimit: time passes, and a request that has met the limiter goes on.
HttpFairSpec ==
    /\ HttpSpec
    /\ WF_httpVars(TimePasses)
    /\ \A h \in Handlers : WF_httpVars(pc[h] # "idle" /\ (Count(h) \/ Answer(h)))

-----------------------------------------------------------------------------
(* Properties *)

\* "Add OWASP-recommended security headers to all responses" (SecurityHeadersMiddleware).
AllAnswersSecured == last # NoAnswer => "security" \in last.answer.marks

\* A browser on an allowed origin can read every answer but a 500: the refusal that tells
\* it to wait a minute as well as the answers of the routes.
RefusalsAreReadable ==
    last # NoAnswer /\ last.answer.status # "error" => "cors" \in last.answer.marks

\* "Assigns unique request_id to every request" (RequestLoggingMiddleware): whoever answers,
\* the line that closes a request is written once, and the answer carries its id unless an
\* exception has passed all layers.
AnswersAreTraced ==
    last # NoAnswer /\ last.answer.to # "preflight" =>
        LET events == {l.event : l \in last.lines}
        IN  /\ Cardinality(events \cap {"processed", "raised"}) = 1
            /\ last.answer.status # "error" => "id" \in last.answer.marks

\* Both hold in whatever order a handler, a failing Redis and other handlers have moved.
HttpInvariant == HttpTypeOK /\ RefusalsAreReadable /\ AnswersAreTraced

\* No line shows more of a client's address than _safe_ip leaves, although the limiter logs
\* ten characters of it that the patterns may miss: the context that is written last
\* covers them.  The same context uncovers the path, and tracebacks are written later; in
\* every other field nothing is left that a pattern matches.
AddressesStayMasked ==
    last # NoAnswer => \A l \in last.lines :
        /\ l.fields["client_ip"] = "octets"
        /\ \A k \in DOMAIN l.fields \ {"path", "exception"} : l.fields[k] # "matched"

===============================================================================
