---------------------------- MODULE ServiceHealth ----------------------------
(***************************************************************************)
(* The numbers of the services pages (services/service-health.service.ts,  *)
(* getServiceHealth).  One request sends all its Quickwit searches at once *)
(* and merges what they answer.  Each search sees the spans stored when it *)
(* is answered, and spans keep arriving.                                   *)
(*                                                                         *)
(* A request of a service is named after the first of ENDPOINT_SOURCES its *)
(* span has: there is one search per source, which excludes the spans that *)
(* have an earlier one, and a second one of the same spans that failed.    *)
(*                                                                         *)
(* The list of services has the SERVICE_LIMIT busiest, and the failures of *)
(* the SERVICE_LIMIT that fail most.                                       *)
(*                                                                         *)
(* Abstractions.  A duration is a number of milliseconds; percentiles,     *)
(* dependencies, the failing operations and the names the picker offers on *)
(* the page of one service are left out.  The sources are numbered and the *)
(* last one is the span's name.  The counts of a terms aggregation are     *)
(* exact, which Quickwit's are when each split holds no more keys than its *)
(* shardSize; buckets that tie for the last place are cut as Quickwit      *)
(* likes.  The two counts that one search of the code carries are two      *)
(* searches here, which may see different spans.                           *)
(***************************************************************************)
EXTENDS Naturals, FiniteSets, FiniteSetsExt

CONSTANTS
    SourceCount,      \* how many ENDPOINT_SOURCES there are
    SpanStores,       \* sets of spans the store may hold at first
    LateSpansOf,      \* spans that may arrive during the request
    Services,
    AllServices,      \* the page that lists the services
    Absent,           \* a span without the attribute
    Empty,            \* a name or an attribute that is the empty string
    Others,           \* the services an aggregation left out (sum_other_doc_count)
    Unanswered,
    SERVICE_LIMIT,
    CANDIDATES,       \* ENDPOINT_CANDIDATE_LIMIT
    NAMES,            \* NAMES_PER_ENDPOINT_LIMIT
    ENDPOINT_LIMIT    \* the endpointLimit of the request

Sources == 1..SourceCount

AllSpans == (UNION SpanStores) \cup LateSpansOf

ASSUME ServiceHealthAssumption ==
    /\ SourceCount \in Nat \ {0}
    /\ {SERVICE_LIMIT, CANDIDATES, NAMES, ENDPOINT_LIMIT} \subseteq Nat
    /\ {AllServices, Empty} \cap Services = {}
    /\ Others \notin Services \cup {Empty}
    /\ Empty # Absent
    /\ \A S \in SpanStores : IsFiniteSet(S)
    /\ \A s \in AllSpans :
          /\ s.service \in Services \cup {Empty}
          /\ s.label[SourceCount] # Absent
          /\ s.millis \in Nat

VARIABLES
    stored,    \* spans Quickwit can find
    service,   \* the query parameter
    answers,   \* search -> what it answered
    page,      \* the response: "waiting", "sent" or "failed"
    arrived    \* history: a span arrived since the first search was sent

healthVars == <<stored, service, answers, page, arrived>>

-----------------------------------------------------------------------------
(* The searches *)

\* A search names what it counts and the spans it runs over.
Search(of, base, source) == [of |-> of, base |-> base, source |-> source]

EndpointSearches == {Search("endpoint", b, i) : b \in {"scope", "errors"}, i \in Sources}
TimeSearches == {Search("time", b, 0) : b \in {"scope", "errors"}}
ServiceSearches == {Search("service", b, 0) : b \in {"scope", "errors"}}

\* Without a service the page lists services and asks for no endpoint.
SearchesOf(p) ==
    TimeSearches \cup IF p = AllServices THEN ServiceSearches
                      ELSE IF ENDPOINT_LIMIT = 0 THEN {} ELSE EndpointSearches

Searches == SearchesOf(service)

\* serviceHealthQuery, with ERROR_SPANS for the base "errors".
Scope(s, base) ==
    /\ s.entry
    /\ service = AllServices \/ s.service = service
    /\ base = "errors" => s.error

\* Mutation: no exclusions.
EverySource(s, i) == TRUE

\* The exclusions of endpointSourceQuery.
FirstSource(s, i) == \A j \in 1..(i - 1) : s.label[j] = Absent

Total(field, rows) == SumFunctionOnSet([r \in rows |-> r[field]], rows)

Millis(spans) == Total("millis", spans)

\* The k values with the most weight.
Top(k, weight) ==
    CHOOSE top \in SUBSET DOMAIN weight :
        /\ Cardinality(top) = Min({k, Cardinality(DOMAIN weight)})
        /\ \A v \in top, w \in DOMAIN weight \ top : weight[v] >= weight[w]

\* The id of an endpointRow, which joins its failures to it.
EndpointId(i, v, n) == [source |-> i, value |-> v, operation |-> n]

Having(spans, i, v) == {s \in spans : s.label[i] = v}
Named(spans, i, v, n) == {s \in Having(spans, i, v) : s.label[SourceCount] = n}

\* endpointAggregation: the top values, and the top names of each of them.
ValuesOf(spans, i) ==
    Top(CANDIDATES, [v \in {s.label[i] : s \in spans} \ {Absent} |-> Millis(Having(spans, i, v))])

NamesOf(spans, i, v) ==
    IF i = SourceCount THEN {v}
    ELSE Top(NAMES, [n \in {s.label[SourceCount] : s \in Having(spans, i, v)} |->
                        Millis(Named(spans, i, v, n))])

EndpointRow(spans, i, v, n) ==
    [id |-> EndpointId(i, v, n),
     requests |-> Cardinality(Named(spans, i, v, n)),
     total |-> Millis(Named(spans, i, v, n))]

EndpointBuckets(spans, i) ==
    UNION {{EndpointRow(spans, i, v, n) : n \in NamesOf(spans, i, v)} : v \in ValuesOf(spans, i)}

SpanKeys(spans, field) == {s[field] : s \in spans}

Keyed(spans, field, k) == {s \in spans : s[field] = k}

CountBy(spans, field, keys) ==
    {[id |-> k, requests |-> Cardinality(Keyed(spans, field, k))] : k \in keys}

\* The histogram has every bucket.
TimeCounts(spans) == CountBy(spans, "time", SpanKeys(spans, "time"))

\* The aggregations by service have the top of them, and the sum of the others.
Busiest(spans) ==
    Top(SERVICE_LIMIT,
        [v \in SpanKeys(spans, "service") |-> Cardinality(Keyed(spans, "service", v))])

OthersRow(spans) ==
    [id |-> Others, requests |-> Cardinality({s \in spans : s.service \notin Busiest(spans)})]

ServiceCounts(spans) == CountBy(spans, "service", Busiest(spans)) \cup {OthersRow(spans)}

\* Of the spans in seen, those a search runs over, and what it then answers.
Searched(q, seen) ==
    {s \in seen : Scope(s, q.base) /\ (q.of = "endpoint" => FirstSource(s, q.source))}

AnswerTo(q, seen) ==
    CASE q.of = "endpoint" -> EndpointBuckets(Searched(q, seen), q.source)
      [] q.of = "time" -> TimeCounts(Searched(q, seen))
      [] q.of = "service" -> ServiceCounts(Searched(q, seen))

-----------------------------------------------------------------------------
(* The response *)

\* Math.min of the two counts.
Errors(requests, failures) == Min({requests, failures})

\* The rows of a search with the failures of the same id.
Merged(rows, failing) ==
    {[id |-> r.id, requests |-> r.requests,
      errors |-> Errors(r.requests, Total("requests", {f \in failing : f.id = r.id}))] :
        r \in rows}

Buckets == Merged(answers[Search("time", "scope", 0)], answers[Search("time", "errors", 0)])

\* serviceRowsOf lists no service without a name.
ServiceRows ==
    {r \in Merged(answers[Search("service", "scope", 0)], answers[Search("service", "errors", 0)]) :
        r.id \notin {Empty, Others}}

\* Whether an aggregation by service left any request out.
LeftOut(base) == \E r \in answers[Search("service", base, 0)] : r.id = Others /\ r.requests > 0

servicesTruncated == LeftOut("scope")

EndpointAnswers(base) == UNION {answers[Search("endpoint", base, i)] : i \in Sources}

\* Rows whose endpointLabel is empty.
Nameless(r) == r.id.value = Empty /\ r.id.operation = Empty

\* preferredEndpoints: of the rows with a name, the endpointLimit with the most time.
Endpoints ==
    LET rows == {r \in EndpointAnswers("scope") : ~Nameless(r)}
    IN  Merged(Top(ENDPOINT_LIMIT, [r \in rows |-> r.total]), EndpointAnswers("errors"))

\* The query and the operation a row hands on: the spans a click on it lists.
Linked(r, s) ==
    /\ s.entry /\ s.service = service
    /\ FirstSource(s, r.id.source)
    /\ s.label[r.id.source] = r.id.value
    /\ s.label[SourceCount] = r.id.operation

-----------------------------------------------------------------------------

HealthInit ==
    /\ stored \in SpanStores
    /\ service \in Services \cup {AllServices}
    /\ answers = [q \in SearchesOf(service) |-> Unanswered]
    /\ page = "waiting"
    /\ arrived = FALSE

\* Quickwit indexes a span.
SpanArrives(s) ==
    /\ page = "waiting"
    /\ s \notin stored
    /\ stored' = stored \cup {s}
    /\ arrived' = TRUE
    /\ UNCHANGED <<service, answers, page>>

SearchAnswered(q) ==
    /\ page = "waiting"
    /\ answers[q] = Unanswered
    /\ answers' = [answers EXCEPT ![q] = AnswerTo(q, stored)]
    /\ UNCHANGED <<stored, service, page, arrived>>

\* Promise.all rejects with the first search that does: an error, or the empty
\* page of a missing span store.
SearchRefused(q) ==
    /\ page = "waiting"
    /\ answers[q] = Unanswered
    /\ page' = "failed"
    /\ UNCHANGED <<stored, service, answers, arrived>>

SendPage ==
    /\ page = "waiting"
    /\ \A q \in Searches : answers[q] # Unanswered
    /\ page' = "sent"
    /\ UNCHANGED <<stored, service, answers, arrived>>

HealthNext ==
    \/ \E s \in LateSpansOf : SpanArrives(s)
    \/ \E q \in Searches : SearchAnswered(q) \/ SearchRefused(q)
    \/ SendPage

HealthSpec == HealthInit /\ [][HealthNext]_healthVars

-----------------------------------------------------------------------------
(* Properties *)

Requests(rows) == Total("requests", rows)
EntrySpans == {s \in stored : Scope(s, "scope")}

HealthTypeOK ==
    /\ stored \subseteq AllSpans
    /\ page \in {"waiting", "sent", "failed"}
    /\ arrived \in BOOLEAN
    /\ DOMAIN answers = Searches
    /\ \A q \in Searches : answers[q] # Unanswered =>
          /\ IsFiniteSet(answers[q])
          /\ \A r, x \in answers[q] : r.id = x.id => r = x

\* A request of the service is in at most one row of its endpoint table: the
\* searches by route, path and name never count a span twice, not even when it
\* arrives between two of them (endpointSourceQuery).
CountedOnce ==
    page = "sent" /\ service # AllServices /\ ENDPOINT_LIMIT > 0 =>
        Requests(Endpoints) <= Cardinality(EntrySpans)

\* Nothing on the pages fails more often than it is called, although the
\* failures are counted by another search, which may be answered later.
ErrorsWithinRequests ==
    page = "sent" =>
        /\ \A r \in Buckets : r.errors <= r.requests
        /\ service = AllServices => \A r \in ServiceRows : r.errors <= r.requests
        /\ service # AllServices /\ ENDPOINT_LIMIT > 0 =>
              \A r \in Endpoints : r.errors <= r.requests

SpansOf(r) == {s \in stored : Linked(r, s)}
FailingOf(r) == {s \in SpansOf(r) : s.error}

\* What the search for the failures of a row's source found was cut: at the
\* values, or at the names of the row's value.
FailuresFound(r) == answers[Search("endpoint", "errors", r.id.source)]
ValuesCut(r) == Cardinality({x.id.value : x \in FailuresFound(r)}) = CANDIDATES
NamesCut(r) ==
    Cardinality({x.id.operation : x \in {y \in FailuresFound(r) : y.id.value = r.id.value}}) = NAMES

EndpointsComplete == page = "sent" /\ service # AllServices /\ ENDPOINT_LIMIT > 0 /\ ~arrived

\* A request whose row would have no name.
Unnamed(s) ==
    /\ s.label[SourceCount] = Empty
    /\ \E i \in Sources : FirstSource(s, i) /\ s.label[i] = Empty

\* When no span arrives meanwhile the endpoint table is right: a row shows the
\* spans a click on it lists and how many of them failed, or no failure where its
\* value is not among the CANDIDATES that failed longest (which the code's comment
\* at line 479 says), or its name not among the NAMES of them (which it does not);
\* and no request with a route, a path or a name is missing from a table that has room.
EndpointsExact ==
    EndpointsComplete =>
        /\ \A r \in Endpoints :
              /\ r.requests = Cardinality(SpansOf(r))
              /\ \/ r.errors = Cardinality(FailingOf(r))
                 \/ r.errors = 0 /\ (ValuesCut(r) \/ NamesCut(r))
        /\ Cardinality({s.label : s \in EntrySpans}) <= Min({CANDIDATES, NAMES, ENDPOINT_LIMIT})
              => Requests(Endpoints) = Cardinality({s \in EntrySpans : ~Unnamed(s)})

OfService(v) == Keyed(EntrySpans, "service", v)
FailuresOf(v) == {s \in OfService(v) : s.error}

\* The requests the list is about: those of a service with a name.
OfNamedServices == {s \in EntrySpans : s.service # Empty}

\* When no span arrives meanwhile the chart has every request and every failure, and
\* the list below it is right: a row has the requests of its service and how many of
\* them failed, or no failure where the service is not among the SERVICE_LIMIT that
\* fail most; the services left out are no busier than those listed ("Showing the N
\* most active services"); and a list that does not say it is truncated is whole, in
\* requests and in failures, although its two limits cut separately.
ListMatchesChart ==
    page = "sent" /\ service = AllServices /\ ~arrived =>
        /\ Requests(Buckets) = Cardinality(EntrySpans)
        /\ Total("errors", Buckets) = Cardinality({s \in EntrySpans : s.error})
        /\ \A r \in ServiceRows :
              /\ r.requests = Cardinality(OfService(r.id))
              /\ \/ r.errors = Cardinality(FailuresOf(r.id))
                 \/ r.errors = 0 /\ LeftOut("errors")
              /\ \A s \in OfNamedServices :
                    \/ \E x \in ServiceRows : x.id = s.service
                    \/ r.requests >= Cardinality(OfService(s.service))
        /\ ~servicesTruncated =>
              /\ Requests(ServiceRows) = Cardinality(OfNamedServices)
              /\ Total("errors", ServiceRows) = Cardinality({s \in OfNamedServices : s.error})

\* The numbers of a page, which come from many searches, fit together.
NumbersAddUp ==
    /\ CountedOnce
    /\ ErrorsWithinRequests
    /\ EndpointsExact
    /\ ListMatchesChart

=============================================================================
