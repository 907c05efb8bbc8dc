------------------------------ MODULE ReportStore ------------------------------
(***************************************************************************)
(* The compliance routes of backend/api/v1/compliance.py.  Each uvicorn    *)
(* worker keeps its reports in a dictionary of its own, lost when it       *)
(* restarts, and serves whatever request it is handed.  A reader pages     *)
(* through GET /reports while officers file more reports.                  *)
(***************************************************************************)
EXTENDS ComplianceReporter

CONSTANTS
    Workers,
    Users,
    RolesOf,      \* RolesOf[u]: the roles in the token of user u
    Bodies,       \* request bodies that pass the validators of SARRequest
    Limits,       \* page sizes the reader may ask for
    Stamps,       \* values of created_at; a clock may be set back
    MaxReports    \* bound: reports filed in a behaviour

ASSUME ReportStoreAssumption ==
    /\ Limits \subseteq Nat \ {0}
    /\ Stamps \subseteq Nat
    /\ MaxReports \in Nat
    /\ None \notin Users
    /\ \A u \in Users : RolesOf[u] \subseteq {"compliance_officer", "aml_analyst"}
    /\ \A body \in Bodies :
           /\ body.report_type \in ReportType
           /\ body.categories = None \/ body.categories \in Seq(SuspicionCategory)

VARIABLES
    store,      \* store[w]: _REPORT_STORE of worker w, in order of insertion
    filed,      \* history: number of reports filed
    answered,   \* history: answered[w]: what worker w answered 201 for since it started, the
                \* id with the type that was asked for
    reader      \* a client paging through GET /reports

reportVars == <<store, filed, answered, reader>>

Elements(s) == {s[i] : i \in DOMAIN s}
IdsIn(s) == {r.report_id : r \in Elements(s)}

RequireRoles(u, allowed) == RolesOf[u] \cap allowed # {}
Officers == {"compliance_officer"}
Readers == {"aml_analyst", "compliance_officer"}

Filters == {None, "FINMA_STR", "BAFIN_SAR"}
Idle == [status |-> "idle"]

ReportTypeOK ==
    /\ DOMAIN store = Workers
    /\ \A w \in Workers : \A r \in Elements(store[w]) :
           /\ r.report_id \in 1 .. MaxReports
           /\ r.created_at \in Stamps
           /\ r.report_type \in ReportType
           /\ Elements(r.categories) \subseteq SuspicionCategory
           /\ r.signed_by \in Users
    /\ filed \in 0 .. MaxReports
    /\ answered \in [Workers -> SUBSET [id : 1 .. MaxReports, type : ReportType]]
    /\ reader \in {Idle} \cup
           [status : {"reading", "done", "failed"}, filter : Filters, limit : Limits,
            offset : Nat, worker : Workers, alone : BOOLEAN,
            owed : SUBSET (1 .. MaxReports), got : SUBSET (1 .. MaxReports)]

ReportInit ==
    /\ store = [w \in Workers |-> <<>>]
    /\ filed = 0
    /\ answered = [w \in Workers |-> {}]
    /\ reader = Idle

-----------------------------------------------------------------------------
(* POST /sar *)

Generate(u, body, now) ==
    IF body.report_type = "BAFIN_SAR" THEN BaFinSar(filed + 1, now, body, u)
                                      ELSE FinmaStr(filed + 1, now, body, u)

\* An officer files a report; 403, and 422 or 500 for a body whose transactions do
\* not convert, change nothing.  The report is stored before the answer is logged and
\* rendered, within the same try: an error there is answered 422 or 500, and the report
\* stays.
GenerateSar(w, u, body, now) ==
    /\ filed < MaxReports
    /\ RequireRoles(u, Officers)
    /\ ConversionError(body.transactions) = "none"
    /\ store' = [store EXCEPT ![w] = Append(@, Generate(u, body, now))]
    /\ filed' = filed + 1
    /\ \/ answered' = [answered EXCEPT ![w] = @ \cup {[id |-> filed + 1, type |-> body.report_type]}]
       \/ UNCHANGED answered
    /\ UNCHANGED reader

-----------------------------------------------------------------------------
(* GET /finma-report and GET /bafin-report *)

\* A report with a value that is not finite cannot be rendered as JSON: the ValueError is
\* answered 422.
Renders(amounts) == NaN \notin amounts
AmountsOf(report) == {report.transactions[i].amount : i \in DOMAIN report.transactions}

ReportAnswer(w, u, id, type) ==
    LET found == {r \in Elements(store[w]) : r.report_id = id}
    IN  CASE ~RequireRoles(u, Readers) -> 403
          [] RequireRoles(u, Readers) /\ found = {} -> 404
          [] OTHER -> LET report == CHOOSE r \in found : TRUE
                      IN  IF report.report_type # type THEN 400
                          ELSE IF Renders(AmountsOf(report)) THEN 200 ELSE 422

GetFinmaReport(w, u, id) == ReportAnswer(w, u, id, "FINMA_STR")
GetBafinReport(w, u, id) == ReportAnswer(w, u, id, "BAFIN_SAR")

-----------------------------------------------------------------------------
(* GET /reports *)

Chosen(s, type) == {i \in DOMAIN s : type = None \/ s[i].report_type = type}

\* Stable, newest first: a report comes before those with a smaller stamp, and among
\* equal stamps before those inserted later.
Before(s, type, i) == {j \in Chosen(s, type) :
    \/ s[j].created_at > s[i].created_at
    \/ s[j].created_at = s[i].created_at /\ j < i}
Place(s, type, i) == 1 + Cardinality(Before(s, type, i))

NewestFirst(s, type) ==
    [p \in 1 .. Cardinality(Chosen(s, type)) |->
        s[CHOOSE i \in Chosen(s, type) : Place(s, type, i) = p]]

\* Mutant: the offset is taken for a page number.
PageByNumber(s, offset, limit) ==
    LET from == offset * limit
    IN  SubSeq(s, from + 1, Min({from + limit, Len(s)}))

\* reports[offset : offset + limit]
Page(s, offset, limit) == SubSeq(s, offset + 1, Min({offset + limit, Len(s)}))

\* Whether a sum over these transactions may be rendered: never with an amount that is not
\* finite; with several huge ones it depends on their sizes and signs.
SumMayRender(txns) ==
    LET Amounts(a) == {t \in DOMAIN txns : txns[t].amount = a}
    IN  IF Amounts(NaN) # {} THEN {FALSE}
        ELSE IF Cardinality(Amounts(Huge)) > 1 THEN BOOLEAN ELSE {TRUE}

\* Each summary has the sum of its report.
PageMayRender(page) ==
    {\A p \in DOMAIN page : rendered[p] :
        rendered \in {f \in [DOMAIN page -> BOOLEAN] :
                         \A p \in DOMAIN page : f[p] \in SumMayRender(page[p].transactions)}}

BeginReading(u, type, limit, w) ==
    /\ reader = Idle
    /\ RequireRoles(u, Readers)
    /\ reader' = [status |-> "reading", filter |-> type, limit |-> limit, offset |-> 0,
                  worker |-> w, alone |-> TRUE, owed |-> {store[w][i].report_id : i \in Chosen(store[w], type)},
                  got |-> {}]
    /\ UNCHANGED <<store, filed, answered>>

\* The next request of the reader, served by worker w; the reader goes on until the
\* total of the last answer is reached, and gives up at a page that does not render.
ListReports(w) ==
    LET reports == NewestFirst(store[w], reader.filter)
        page    == Page(reports, reader.offset, reader.limit)
        next    == reader.offset + reader.limit
    IN  /\ reader.status = "reading"
        /\ \E rendered \in PageMayRender(page) :
           reader' = IF rendered
                     THEN [reader EXCEPT !.got = @ \cup IdsIn(page), !.offset = next,
                               !.alone = @ /\ w = reader.worker,
                               !.status = IF next >= Len(reports) THEN "done" ELSE "reading"]
                     ELSE [reader EXCEPT !.status = "failed"]
        /\ UNCHANGED <<store, filed, answered>>

FinishReading ==
    /\ reader # Idle
    /\ reader.status # "reading"
    /\ reader' = Idle
    /\ UNCHANGED <<store, filed, answered>>

-----------------------------------------------------------------------------
(* GET /stats *)

CountOf(s, type) == Cardinality({i \in DOMAIN s : s[i].report_type = type})
CategoryCount(s, c) ==
    Cardinality(UNION {{<<i, k>> : k \in {k \in DOMAIN s[i].categories : s[i].categories[k] = c}} :
                       i \in DOMAIN s})

\* One sum over the transactions of all reports.
AllTransactions(s) ==
    [t \in UNION {{<<i, k>> : k \in DOMAIN s[i].transactions} : i \in DOMAIN s} |->
        s[t[1]].transactions[t[2]]]

StatsAnswers(w) == {IF rendered THEN 200 ELSE 422 : rendered \in SumMayRender(AllTransactions(store[w]))}

Stats(s) ==
    [total |-> Len(s), finma |-> CountOf(s, "FINMA_STR"), bafin |-> CountOf(s, "BAFIN_SAR"),
     by_category |-> [c \in SuspicionCategory |-> CategoryCount(s, c)]]

-----------------------------------------------------------------------------
\* The process of worker w is replaced; its dictionary starts empty.
Restart(w) ==
    /\ store[w] # <<>>
    /\ store' = [store EXCEPT ![w] = <<>>]
    /\ answered' = [answered EXCEPT ![w] = {}]
    /\ reader' = IF reader # Idle /\ reader.worker = w THEN [reader EXCEPT !.alone = FALSE] ELSE reader
    /\ UNCHANGED filed

ReportNext ==
    \/ \E w \in Workers, u \in Users, body \in Bodies, now \in Stamps : GenerateSar(w, u, body, now)
    \/ \E u \in Users, type \in Filters, limit \in Limits, w \in Workers :
           BeginReading(u, type, limit, w)
    \/ \E w \in Workers : ListReports(w) \/ Restart(w)
    \/ FinishReading

ReportSpec == ReportInit /\ [][ReportNext]_reportVars

-----------------------------------------------------------------------------
(* Properties *)

\* What a worker has answered 201 for it keeps until it restarts, and returns at the endpoint
\* of the regulator that was asked for; the other one refuses it.  (FATF_STR has neither
\* generator nor endpoint.)
AcceptedIsServed ==
    \A w \in Workers, u \in Users : \A a \in answered[w] : RequireRoles(u, Readers) =>
        /\ a.type = "FINMA_STR" => GetFinmaReport(w, u, a.id) \in {200, 422} /\ GetBafinReport(w, u, a.id) = 400
        /\ a.type = "BAFIN_SAR" => GetBafinReport(w, u, a.id) \in {200, 422} /\ GetFinmaReport(w, u, a.id) = 400

\* No report in a store is out of reach: one endpoint finds it, also if FATF_STR was asked for
\* or its officer got an error.
EveryReportHasEndpoint ==
    \A w \in Workers, u \in Users : \A id \in IdsIn(store[w]) : RequireRoles(u, Readers) =>
        {GetFinmaReport(w, u, id), GetBafinReport(w, u, id)} \in {{400, 200}, {400, 422}}

\* Statistics that are answered account for every report, once by type and at least once
\* under each category it has, of which there is one.
CountsAddUp ==
    \A w \in Workers : 200 \in StatsAnswers(w) => LET stats == Stats(store[w]) IN
        /\ stats.finma + stats.bafin = stats.total
        /\ \A c \in SuspicionCategory :
               stats.by_category[c] >= Cardinality({i \in DOMAIN store[w] :
                                                     c \in Elements(store[w][i].categories)})
        /\ \A r \in Elements(store[w]) : Elements(r.categories) \cap SuspicionCategory # {}

\* The hash of a stored report covers all of it but itself, the signature included: it is
\* recomputed from the report with the field cleared, which no code of the repository does.
HashCoversReport ==
    \A w \in Workers : \A r \in Elements(store[w]) :
        /\ r.signed_by # None
        /\ r.report_hash = ComputeHash([r EXCEPT !.report_hash = None])

\* The store of every worker, what the routes say about it, and its hashes.
ReportInvariant ==
    ReportTypeOK /\ AcceptedIsServed /\ EveryReportHasEndpoint /\ CountsAddUp /\ HashCoversReport

\* A reader whose pages all come from one worker that does not restart has every
\* report that was there when it began, whatever is filed meanwhile and however the
\* clock is set: new reports push old ones to later pages, never to earlier ones.
PagingMissesNothing ==
    reader # Idle /\ reader.status = "done" /\ reader.alone => reader.owed \subseteq reader.got
===============================================================================
