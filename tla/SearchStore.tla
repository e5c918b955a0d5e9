----------------------------- MODULE SearchStore -----------------------------
(***************************************************************************)
(* The logs page's search store (components/logs/search.svelte.ts): rows,  *)
(* histogram and index config of the view in the URL, pages loaded while   *)
(* scrolling, auto-refresh ticks and folds.                                *)
(*                                                                         *)
(* A change of the URL, a tick and the answer of a request are each one    *)
(* step together with the effects they rerun: Svelte flushes effects in    *)
(* the microtask after the change, before the next task.  A rerun effect   *)
(* aborts its last request, whose answer may still be on its way.          *)
(*                                                                         *)
(* Abstractions.  Query, filters, time range and rerunRevision are seen    *)
(* only as the moment #input last changed.  Rows are counted in pages of   *)
(* BATCH_SIZE, MAX_OFFSET and totalDocCount too.  Expanded folds are there *)
(* or not, and so are errors.                                              *)
(***************************************************************************)
EXTENDS Naturals, Sequences

CONSTANTS
    Indexes,
    NoIndex,
    NoHits,
    NoHistogram,
    MaxPages,     \* MAX_OFFSET, in pages
    Totals,       \* what a histogram may count, in pages
    MaxClock      \* bound on the view changes and ticks, for model checking

ASSUME SearchStoreAssumption ==
    /\ NoIndex \notin Indexes
    /\ MaxPages \in Nat \ {0}
    /\ Totals \subseteq Nat
    /\ MaxClock \in Nat

Sorts == {"asc", "desc"}
Status == {"idle", "fresh", "refresh"}

VARIABLES
    clock,            \* view changes and ticks so far
    index,            \* #index: the URL's index, once it is the active one
    input,            \* the clock when #input last changed
    sort,
    hits, hitsStatus, hitsError,
    searchRun,        \* the clock of the latest search: the identity of #searchSignal
    loadingMore,
    histogram, histogramStatus, histogramError,
    config,           \* fieldConfig: the index it is of
    configError,
    configRun,        \* the clock of the latest config load, 0 once torn down
    expanded,         \* #expandedFolds is not empty
    requests          \* requests without an answer, the aborted ones included

view == <<clock, index, input, sort>>
search == <<hits, hitsStatus, hitsError, searchRun>>
chart == <<histogram, histogramStatus, histogramError>>
setup == <<config, configError, configRun>>
vars == <<view, search, loadingMore, chart, setup, expanded, requests>>

-----------------------------------------------------------------------------
(* Types and initial state *)

\* What a search is of.
Of == [input : Nat, sort : Sorts, index : Indexes]
Page == [of : Of, at : Nat]
Hits == [of : Of, pages : Seq(Page), lastPageFull : BOOLEAN]
Histogram == [input : Nat, total : Nat]

ASSUME NothingAssumption == NoHits \notin Hits /\ NoHistogram \notin Histogram

\* pages: the rows a page request extends.
Request == [kind : {"search", "page", "histogram", "config"}, run : Nat, refresh : BOOLEAN,
            of : Of, pages : Seq(Page)]

TypeOK ==
    /\ clock \in Nat /\ input \in Nat /\ searchRun \in Nat /\ configRun \in Nat
    /\ index \in Indexes \cup {NoIndex}
    /\ sort \in Sorts
    /\ loadingMore \in BOOLEAN /\ expanded \in BOOLEAN
    /\ hits \in Hits \cup {NoHits}
    /\ hitsStatus \in Status /\ hitsError \in BOOLEAN
    /\ histogram \in Histogram \cup {NoHistogram}
    /\ histogramStatus \in Status /\ histogramError \in BOOLEAN
    /\ config \in Indexes \cup {NoIndex} /\ configError \in BOOLEAN
    /\ requests \subseteq Request

Init ==
    /\ clock = 0 /\ index = NoIndex /\ input = 0 /\ sort = "desc"
    /\ hits = NoHits /\ hitsStatus = "idle" /\ hitsError = FALSE /\ searchRun = 0
    /\ loadingMore = FALSE
    /\ histogram = NoHistogram /\ histogramStatus = "idle" /\ histogramError = FALSE
    /\ config = NoIndex /\ configError = FALSE /\ configRun = 0
    /\ expanded = FALSE
    /\ requests = {}

-----------------------------------------------------------------------------
(* The effects *)

Ask(kind, run, refresh, of, pages) ==
    [kind |-> kind, run |-> run, refresh |-> refresh, of |-> of, pages |-> pages]

\* Mutation: whatever page is loading is left to clear its own flag.
SearchEffectKeepsPage(x, refresh) ==
    IF x = NoIndex
      THEN hitsStatus' = "idle" /\ UNCHANGED <<searchRun, hitsError, loadingMore>>
      ELSE /\ searchRun' = clock'
           /\ hitsStatus' = IF refresh THEN "refresh" ELSE "fresh"
           /\ hitsError' = IF refresh THEN hitsError ELSE FALSE
           /\ UNCHANGED loadingMore

\* The search effect, apart from its request; hits stays until the answer.
SearchEffect(x, refresh) ==
    /\ loadingMore' = FALSE
    /\ IF x = NoIndex
         THEN hitsStatus' = "idle" /\ UNCHANGED <<searchRun, hitsError>>
         ELSE /\ searchRun' = clock'
              /\ hitsStatus' = IF refresh THEN "refresh" ELSE "fresh"
              /\ hitsError' = IF refresh THEN hitsError ELSE FALSE

\* The histogram effect.
HistogramEffect(x, refresh) ==
    IF x = NoIndex
      THEN histogramStatus' = "idle" /\ UNCHANGED histogramError
      ELSE /\ histogramStatus' = IF refresh THEN "refresh" ELSE "fresh"
           /\ histogramError' = IF refresh THEN histogramError ELSE FALSE

\* The config effect reruns when #index changes.
ConfigEffect(x) ==
    /\ configRun' = IF x = NoIndex THEN 0 ELSE clock'
    /\ IF x = NoIndex
         THEN UNCHANGED <<config, configError>>
         ELSE config' = NoIndex /\ configError' = FALSE

-----------------------------------------------------------------------------
(* Navigation, ticks and folds *)

\* The URL changes, or a rerun asks for the view already shown: navigateQuery,
\* a saved view, Back.  x is NoIndex while the redirect is still to come.
Navigate(x, s) ==
    LET of == [input |-> clock', sort |-> s, index |-> x]
    IN  /\ clock < MaxClock
        /\ clock' = clock + 1
        /\ index' = x /\ sort' = s /\ input' = clock'
        /\ SearchEffect(x, FALSE)
        /\ HistogramEffect(x, FALSE)
        /\ IF x = index THEN UNCHANGED setup ELSE ConfigEffect(x)
        /\ requests' = requests \cup
             (IF x = NoIndex THEN {} ELSE
                {Ask("search", clock', FALSE, of, <<>>), Ask("histogram", clock', FALSE, of, <<>>)}
                \cup (IF x = index THEN {} ELSE {Ask("config", clock', FALSE, of, <<>>)}))
        /\ UNCHANGED <<hits, histogram, expanded>>

\* toggleSort re-reads the window already on screen: #input does not change.
ToggleSort(s) ==
    /\ clock < MaxClock
    /\ index # NoIndex
    /\ s # sort
    /\ clock' = clock + 1
    /\ sort' = s
    /\ SearchEffect(index, FALSE)
    /\ requests' = requests \cup
         {Ask("search", clock', FALSE, [input |-> input, sort |-> s, index |-> index], <<>>)}
    /\ UNCHANGED <<index, input, hits, chart, setup, expanded>>

\* tick, with the list in view.
Tick ==
    LET of == [input |-> clock', sort |-> sort, index |-> index]
    IN  /\ clock < MaxClock
        /\ index # NoIndex
        /\ ~expanded /\ hitsStatus = "idle" /\ histogramStatus = "idle"
        /\ clock' = clock + 1 /\ input' = clock'
        /\ SearchEffect(index, TRUE)
        /\ HistogramEffect(index, TRUE)
        /\ requests' = requests \cup
             {Ask("search", clock', TRUE, of, <<>>), Ask("histogram", clock', TRUE, of, <<>>)}
        /\ UNCHANGED <<index, sort, hits, histogram, setup, expanded>>

\* The list is on screen: displayState is 'logs'.  A page counted has rows.
Shown == hits # NoHits /\ hitsStatus # "fresh" /\ config # NoIndex /\ ~configError

\* toggleFold: one of the folds on screen opens, or the last open one closes.
ToggleFold(open) ==
    /\ Shown
    /\ expanded' = open
    /\ UNCHANGED <<view, search, loadingMore, chart, setup, requests>>

\* setFoldEnabled, either way, and setActiveFields: the runs are regrouped.
SetFoldEnabled ==
    /\ expanded' = FALSE
    /\ UNCHANGED <<view, search, loadingMore, chart, setup, requests>>

-----------------------------------------------------------------------------
(* Answers *)

\* Nothing aborted the request: no rerun of its effect, and #index still there.
Live(r) ==
    /\ index # NoIndex
    /\ r.run = CASE r.kind \in {"search", "page"} -> searchRun
                 [] r.kind = "histogram" -> input
                 [] r.kind = "config" -> configRun

Answered(r, kind) ==
    /\ r \in requests
    /\ r.kind = kind
    /\ Live(r)
    /\ requests' = requests \ {r}

AnswerSearch(r, full) ==
    /\ Answered(r, "search")
    /\ hits' = [of |-> r.of, pages |-> <<[of |-> r.of, at |-> 0]>>, lastPageFull |-> full]
    /\ hitsError' = FALSE
    /\ hitsStatus' = "idle"
    /\ expanded' = FALSE
    /\ UNCHANGED <<view, searchRun, loadingMore, chart, setup>>

\* A refresh keeps the rows it already has.
FailSearch(r) ==
    /\ Answered(r, "search")
    /\ hits' = IF r.refresh THEN hits ELSE NoHits
    /\ hitsError' = TRUE
    /\ hitsStatus' = "idle"
    /\ UNCHANGED <<view, searchRun, loadingMore, chart, setup, expanded>>

ListEnd ==
    IF \/ hits = NoHits
       \/ histogram # NoHistogram /\ Len(hits.pages) >= histogram.total
      THEN "end"
    ELSE IF Len(hits.pages) >= MaxPages THEN "capped"
    ELSE IF hits.lastPageFull THEN "more" ELSE "end"

\* Mutation: a page may be asked for while a refresh is running.
MayLoadMoreWhileRefreshing ==
    hits # NoHits /\ hitsStatus # "fresh" /\ ~loadingMore /\ ListEnd = "more"

MayLoadMore == hits # NoHits /\ hitsStatus = "idle" /\ ~loadingMore /\ ListEnd = "more"

\* Mutation: the page is asked of the index in the URL, not of the rows' own.
MaybeLoadMoreHere ==
    /\ MayLoadMore
    /\ loadingMore' = TRUE
    /\ requests' = requests \cup
         {Ask("page", searchRun, FALSE, [hits.of EXCEPT !.index = index], hits.pages)}
    /\ UNCHANGED <<view, search, chart, setup, expanded>>

\* maybeLoadMore, under the latest search's signal.
MaybeLoadMore ==
    /\ MayLoadMore
    /\ loadingMore' = TRUE
    /\ requests' = requests \cup {Ask("page", searchRun, FALSE, hits.of, hits.pages)}
    /\ UNCHANGED <<view, search, chart, setup, expanded>>

\* The page extends the rows maybeLoadMore saw.
AnswerPage(r, full) ==
    /\ Answered(r, "page")
    /\ hits' = [of |-> r.of, lastPageFull |-> full,
                pages |-> Append(r.pages, [of |-> r.of, at |-> Len(r.pages)])]
    /\ loadingMore' = FALSE
    /\ UNCHANGED <<view, hitsStatus, hitsError, searchRun, chart, setup, expanded>>

FailPage(r) ==
    /\ Answered(r, "page")
    /\ loadingMore' = FALSE
    /\ UNCHANGED <<view, search, chart, setup, expanded>>

AnswerHistogram(r, total) ==
    /\ Answered(r, "histogram")
    /\ histogram' = [input |-> r.of.input, total |-> total]
    /\ histogramError' = FALSE
    /\ histogramStatus' = "idle"
    /\ UNCHANGED <<view, search, loadingMore, setup, expanded>>

FailHistogram(r) ==
    /\ Answered(r, "histogram")
    /\ histogram' = IF r.refresh THEN histogram ELSE NoHistogram
    /\ histogramError' = TRUE
    /\ histogramStatus' = "idle"
    /\ UNCHANGED <<view, search, loadingMore, setup, expanded>>

AnswerConfig(r) ==
    /\ Answered(r, "config")
    /\ config' = r.of.index
    /\ UNCHANGED <<view, search, loadingMore, chart, configError, configRun, expanded>>

FailConfig(r) ==
    /\ Answered(r, "config")
    /\ configError' = TRUE
    /\ UNCHANGED <<view, search, loadingMore, chart, config, configRun, expanded>>

\* The answer of an aborted request, good or bad, is not looked at.
Ignore(r) ==
    /\ r \in requests
    /\ ~Live(r)
    /\ requests' = requests \ {r}
    /\ UNCHANGED <<view, search, loadingMore, chart, setup, expanded>>

Next ==
    \/ \E x \in Indexes \cup {NoIndex}, s \in Sorts : Navigate(x, s)
    \/ \E s \in Sorts : ToggleSort(s)
    \/ Tick
    \/ \E open \in BOOLEAN : ToggleFold(open)
    \/ SetFoldEnabled
    \/ MaybeLoadMore
    \/ \E r \in requests :
          \/ \E full \in BOOLEAN : AnswerSearch(r, full) \/ AnswerPage(r, full)
          \/ FailSearch(r) \/ FailPage(r)
          \/ \E total \in Totals : AnswerHistogram(r, total)
          \/ FailHistogram(r)
          \/ AnswerConfig(r) \/ FailConfig(r)
          \/ Ignore(r)

Spec == Init /\ [][Next]_vars

-----------------------------------------------------------------------------
(* Properties *)

\* Once the search has settled without an error, the rows are those of the view
\* in the URL, page after page without a gap or a repetition, and the histogram
\* whose total ends the list is of the same window (ListEnd compares the two).
SettledIsCurrent ==
    index # NoIndex =>
        /\ hitsStatus = "idle" /\ ~hitsError =>
              /\ hits # NoHits
              /\ hits.of = [input |-> input, sort |-> sort, index |-> index]
              /\ \A k \in 1..Len(hits.pages) : hits.pages[k] = [of |-> hits.of, at |-> k - 1]
              /\ Len(hits.pages) <= MaxPages
        /\ histogramStatus = "idle" /\ ~histogramError =>
              histogram # NoHistogram /\ histogram.input = input

\* A status says busy exactly while a request that will clear it is out: a tick
\* or a page that waits for it ("load-more and the next tick wait") does not
\* wait for ever, and an aborted page, which never clears its own flag, does
\* not stop the scrolling.
BusyIffInFlight ==
    index # NoIndex =>
        LET out(kind) == \E r \in requests : r.kind = kind /\ Live(r)
        IN  /\ hitsStatus # "idle" <=> out("search")
            /\ histogramStatus # "idle" <=> out("histogram")
            /\ loadingMore <=> out("page")

\* The rows on screen are never read with the config of another index.
RowsMatchConfig == index # NoIndex /\ Shown => hits.of.index = config

\* What is on screen belongs to the URL and to the config it is read with.
ShownIsCurrent == SettledIsCurrent /\ RowsMatchConfig

\* Expansions left behind "keep `tick()` paused with no fold on screen to
\* explain it" (search.svelte.ts, setFoldEnabled): once the search has settled,
\* an expanded fold is one of the rows on screen.
PausedIsExplained == expanded /\ hitsStatus = "idle" => hits # NoHits

=============================================================================
