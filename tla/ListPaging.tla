----------------------------- MODULE ListPaging -----------------------------
(***************************************************************************)
(* The two lists of spans that load page by page: the trace explorer       *)
(* (web/components/traces/SpanTable.svelte) and the failing spans of a     *)
(* service (components/services/ErrorList.svelte).  Both use a             *)
(* RequestGuard: an answer counts only while no later request has begun.   *)
(*                                                                         *)
(* The explorer keeps the rows of the last filters, dimmed, until page 0   *)
(* of the new ones answers; the error list clears them at once.  Spans go  *)
(* on arriving while the user pages.                                       *)
(*                                                                         *)
(* Abstractions.  A change of filters, sort or time range is a change of   *)
(* scope.  A scope's spans are numbered in the order of its sort, which is *)
(* stable.  A search is evaluated in the step that delivers its answer.    *)
(***************************************************************************)
EXTENDS Naturals, Sequences, FiniteSets, SequencesExt

CONSTANTS
    Scopes,         \* filters, sort and time range
    NoScope,        \* the page is not open
    FirstSpans,     \* spans at first, as positions in the sort order
    LateSpans,      \* spans that may arrive later
    EXPLORE_PAGE_SIZE,   \* and ERROR_PAGE_SIZE
    MAX_EXPLORE_OFFSET,  \* MAX_ERROR_OFFSET in the error list
    MaxRequests     \* bound on requests, for model checking

ASSUME ListPagingAssumption ==
    /\ NoScope \notin Scopes
    /\ FirstSpans \cup LateSpans \subseteq Nat
    /\ IsFiniteSet(FirstSpans)
    /\ EXPLORE_PAGE_SIZE \in Nat \ {0}
    /\ {MAX_EXPLORE_OFFSET, MaxRequests} \subseteq Nat

Kinds == {"explorer", "errors"}
Failures == {"none", "query", "other"}

VARIABLES
    list,          \* which of the two lists is open
    spans,         \* what the index holds, for each scope
    scope,         \* request, or scope in the error list
    rows, rowsOf,  \* the rows and the scope they are of
    total,         \* explorer only
    atEndFlag,     \* atEnd of the error list
    offset, pageLoading, pageMore, failure,
    guard,         \* the last token
    asked,         \* requests without an answer, the aborted ones included
    seen0          \* history: the spans there were when page 0 of rows answered

pagingVars == <<list, spans, scope, rows, rowsOf, total, atEndFlag, offset, pageLoading,
                pageMore, failure, guard, asked, seen0>>

PageRequest == [token : Nat, scope : Scopes, offset : Nat]

PagingTypeOK ==
    /\ list \in Kinds
    /\ spans \in [Scopes -> SUBSET (FirstSpans \cup LateSpans)]
    /\ {scope, rowsOf} \subseteq Scopes \cup {NoScope}
    /\ rows \in Seq(FirstSpans \cup LateSpans)
    /\ total \in Nat
    /\ offset \in 0..(MAX_EXPLORE_OFFSET + EXPLORE_PAGE_SIZE)
    /\ {atEndFlag, pageLoading, pageMore} \subseteq BOOLEAN
    /\ failure \in Failures
    /\ guard \in Nat
    /\ asked \in SUBSET PageRequest
    /\ seen0 \subseteq FirstSpans \cup LateSpans

PagingInit ==
    /\ list = "explorer"
    /\ spans = [s \in Scopes |-> FirstSpans]
    /\ scope = NoScope /\ rows = <<>> /\ rowsOf = NoScope
    /\ total = 0 /\ atEndFlag = FALSE /\ offset = 0
    /\ pageLoading = TRUE /\ pageMore = FALSE /\ failure = "none"
    /\ guard = 0 /\ asked = {} /\ seen0 = {}

-----------------------------------------------------------------------------
(* Requests *)

\* fetchPage up to its await.
FetchPage(s, pageOffset) ==
    /\ guard < MaxRequests
    /\ guard' = guard + 1
    /\ failure' = "none"
    /\ asked' = asked \cup {[token |-> guard + 1, scope |-> s, offset |-> pageOffset]}

\* The effect of a change of scope; the page opens with the first one.
ChangeScope(kind, s) ==
    /\ scope # s
    /\ scope # NoScope => kind = list
    /\ list' = kind
    /\ scope' = s
    /\ pageLoading' = TRUE
    /\ pageMore' = FALSE
    /\ FetchPage(s, 0)
    /\ IF kind = "errors"
         THEN atEndFlag' = FALSE /\ offset' = 0 /\ rows' = <<>> /\ rowsOf' = s
         ELSE UNCHANGED <<atEndFlag, offset, rows, rowsOf>>
    /\ UNCHANGED <<spans, total, seen0>>

atEnd == IF list = "errors" THEN atEndFlag
                            ELSE offset >= total \/ offset > MAX_EXPLORE_OFFSET

\* The buttons "Load more" and "Retry".
MoreEnabled ==
    /\ failure = "none" /\ ~atEnd /\ ~pageLoading /\ ~pageMore
    /\ rows # <<>> \/ list = "errors"
RetryEnabled == failure = "other" \/ (failure = "query" /\ list = "errors")

LoadPage ==
    /\ scope # NoScope
    /\ MoreEnabled \/ RetryEnabled
    /\ pageLoading' = (pageLoading \/ offset = 0)
    /\ pageMore' = (pageMore \/ offset # 0)
    /\ FetchPage(scope, offset)
    /\ UNCHANGED <<list, spans, scope, rows, rowsOf, total, atEndFlag, offset, seen0>>

Arrive(s, k) ==
    /\ scope # NoScope
    /\ \A t \in Scopes : spans[t] \cap LateSpans \subseteq FirstSpans
    /\ k \notin spans[s]
    /\ spans' = [spans EXCEPT ![s] = @ \cup {k}]
    /\ UNCHANGED <<list, scope, rows, rowsOf, total, atEndFlag, offset, pageLoading,
                   pageMore, failure, guard, asked, seen0>>

-----------------------------------------------------------------------------
(* Answers *)

CurrentRequest(r) == r.token = guard

Before(k, found) == Cardinality({j \in found : j < k})

\* The spans of a page: those that have at least as many before them as the offset.
Result(r) ==
    {k \in spans[r.scope] :
        Before(k, spans[r.scope]) \in r.offset..(r.offset + EXPLORE_PAGE_SIZE - 1)}

\* In the order of the sort.
InOrder(found) == [i \in 1..Cardinality(found) |-> CHOOSE k \in found : Before(k, found) = i - 1]

\* Mutation: rows are appended as they come.
UnseenAll(result, have) == result

\* Rows the list does not have yet.
Unseen(result, have) == result \ ToSet(have)

\* applyPage of the explorer, appendRows of the error list.
ApplyPage(r) ==
    LET have == IF list = "explorer" /\ r.offset = 0 THEN <<>> ELSE rows
    IN  /\ rows' = have \o InOrder(Unseen(Result(r), have))
        /\ rowsOf' = r.scope
        /\ offset' = r.offset + EXPLORE_PAGE_SIZE
        /\ seen0' = IF r.offset = 0 THEN spans[r.scope] ELSE seen0
        /\ IF list = "errors"
             THEN /\ atEndFlag' = (Cardinality(Result(r)) < EXPLORE_PAGE_SIZE
                                      \/ r.offset + EXPLORE_PAGE_SIZE > MAX_EXPLORE_OFFSET)
                  /\ UNCHANGED total
             ELSE /\ total' = IF r.offset = 0 THEN Cardinality(spans[r.scope]) ELSE total
                  /\ UNCHANGED atEndFlag

PageArrives(r) ==
    /\ CurrentRequest(r)
    /\ asked' = asked \ {r}
    /\ ApplyPage(r)
    /\ pageLoading' = FALSE
    /\ pageMore' = FALSE
    /\ UNCHANGED <<list, spans, scope, failure, guard>>

\* The explorer marks that no page of these filters has loaded.
OffsetAfterFailure(r) ==
    offset' = IF list = "explorer" /\ r.offset = 0 THEN 0 ELSE offset

PageFails(r, how) ==
    /\ CurrentRequest(r)
    /\ asked' = asked \ {r}
    /\ failure' = how
    /\ OffsetAfterFailure(r)
    /\ pageLoading' = FALSE
    /\ pageMore' = FALSE
    /\ UNCHANGED <<list, spans, scope, rows, rowsOf, total, atEndFlag, guard, seen0>>

\* The answer or the abort of a request another has replaced.
PageIgnored(r) ==
    /\ ~CurrentRequest(r)
    /\ asked' = asked \ {r}
    /\ UNCHANGED <<list, spans, scope, rows, rowsOf, total, atEndFlag, offset, pageLoading,
                   pageMore, failure, guard, seen0>>

PagingNext ==
    \/ \E kind \in Kinds, s \in Scopes : ChangeScope(kind, s)
    \/ LoadPage
    \/ \E s \in Scopes, k \in LateSpans : Arrive(s, k)
    \/ \E r \in asked : PageArrives(r) \/ PageIgnored(r)
    \/ \E r \in asked, how \in {"query", "other"} : PageFails(r, how)

PagingSpec == PagingInit /\ [][PagingNext]_pagingVars

-----------------------------------------------------------------------------
(* Properties *)

\* Rows shown at full strength are of the filters in the URL; the explorer may
\* show others only while it dims them, during the first load of new filters
\* or after that failed.
RowsOfScope ==
    rows # <<>> =>
        \/ rowsOf = scope
        \/ list = "explorer" /\ (pageLoading \/ (failure # "none" /\ offset = 0))

\* No span is listed twice, which a keyed list does not survive, and none of those
\* there were at the first page is skipped by a later one.
EachSpanOnce ==
    /\ \A a, b \in DOMAIN rows : rows[a] = rows[b] => a = b
    /\ \A k \in seen0, j \in ToSet(rows) : rowsOf = scope /\ k < j => k \in ToSet(rows)

\* The list is the first pages of what the filters in the URL select.
PagesOfScope == RowsOfScope /\ EachSpanOnce

\* A spinner stands for a request whose answer will still count, and such a
\* request has its spinner: no list waits for ever, and none looks done too early.
PagingBusy ==
    scope # NoScope =>
        (pageLoading \/ pageMore <=> \E r \in asked : CurrentRequest(r))

=============================================================================
