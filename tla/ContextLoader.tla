--------------------------- MODULE ContextLoader ---------------------------
(***************************************************************************)
(* The logs around one log: web/lib/components/logs/drawer/ContextPane.    *)
(* svelte and its context-loader.svelte.ts.  Both ways from the anchor the *)
(* loader reads windows of WINDOW_SECONDS in pages of PAGE_SIZE rows.  A   *)
(* full page moves the bound to the second of its last row and counts the  *)
(* rows of that second already read; a short one moves on by a window.     *)
(*                                                                         *)
(* New logs may be stored at any time, at any second.                      *)
(*                                                                         *)
(* Abstractions.  The chips are on or off: every log matches without them, *)
(* with them those that share the anchor's field.  Logs of one second have *)
(* an order that no search changes.  A search is evaluated in the step     *)
(* that delivers its answer.  Every stored log has a timestamp, the anchor *)
(* may have none; an anchor is shown with a timestamp it does not have.    *)
(***************************************************************************)
EXTENDS Integers, Sequences, FiniteSets, SequencesExt

CONSTANTS
    LogRows,            \* logs: second, order within the second, whether chips match
    Corpora,            \* what may be stored when the drawer opens
    NoRow,              \* the drawer is closed
    PAGE_SIZE,
    WINDOW_SECONDS,
    MAX_EMPTY_SLIDES,
    MAX_OFFSET,
    Anchors,            \* the logs it may be of
    LateRows,           \* what may be stored while it is open
    MaxLate,            \* bound on how many are
    MaxFetchSeq         \* bound on #fetchSeq, for model checking

ASSUME ContextAssumption ==
    /\ LogRows \subseteq [ts : Int, n : Nat, same : BOOLEAN]
    /\ Corpora \subseteq SUBSET LogRows
    /\ Anchors \cup LateRows \subseteq LogRows
    /\ NoRow \notin LogRows
    /\ \A a, b \in LogRows : a.ts = b.ts /\ a.n = b.n => a = b
    /\ \A corpus \in Corpora : IsFiniteSet(corpus)
    /\ {PAGE_SIZE, WINDOW_SECONDS, MAX_EMPTY_SLIDES} \subseteq Nat \ {0}
    /\ {MAX_OFFSET, MaxLate, MaxFetchSeq} \subseteq Nat

Dirs == {"before", "after"}
SIGN == [before |-> -1, after |-> 1]

VARIABLES
    stored,          \* the logs in the index
    anchor,
    dated,           \* the anchor has a valid timestamp
    chips,
    entries,
    loadingInitial,
    side,            \* before and after
    win,             \* #win
    fetchSeq,
    loads,           \* searchLogs calls in flight, the aborted ones included
    known            \* history: the logs that were stored when init ran

ctxVars == <<stored, anchor, dated, chips, entries, loadingInitial, side, win,
             fetchSeq, loads, known>>

Side == [loading : BOOLEAN, noMore : BOOLEAN, limited : BOOLEAN, error : BOOLEAN]
Win == [bound : Int, offset : Nat, empty : Nat]
PageLoad == [dir : Dirs, seq : Nat, chips : BOOLEAN, bound : Int, offset : Nat]

CtxTypeOK ==
    /\ stored \subseteq LogRows
    /\ anchor \in LogRows \cup {NoRow}
    /\ {dated, chips, loadingInitial} \subseteq BOOLEAN
    /\ entries \in Seq(LogRows)
    /\ side \in [Dirs -> Side]
    /\ \A d \in Dirs : win[d] \in Win /\ win[d].offset <= MAX_OFFSET
                          /\ win[d].empty <= MAX_EMPTY_SLIDES
    /\ fetchSeq \in Nat
    /\ loads \in SUBSET PageLoad
    /\ known \subseteq stored

createDirectionState == [loading |-> FALSE, noMore |-> FALSE, limited |-> FALSE,
                         error |-> FALSE]

\* The drawer has yet to open.
CtxInit ==
    /\ stored = {} /\ anchor = NoRow /\ dated = TRUE /\ chips = FALSE
    /\ entries = <<>> /\ loadingInitial = FALSE
    /\ side = [d \in Dirs |-> createDirectionState]
    /\ win = [d \in Dirs |-> [bound |-> 0, offset |-> 0, empty |-> 0]]
    /\ fetchSeq = 0 /\ loads = {} /\ known = {}

-----------------------------------------------------------------------------
(* Searches *)

Earlier(a, b) == a.ts < b.ts \/ (a.ts = b.ts /\ a.n < b.n)
Later(a, b) == Earlier(b, a)

Matches(logs, chipped) == {r \in logs : chipped => r.same}

\* The seconds of a request; endTs is exclusive.
Within(l) == IF l.dir = "before" THEN (l.bound - WINDOW_SECONDS)..(l.bound - 1)
                                 ELSE l.bound..(l.bound + WINDOW_SECONDS - 1)

\* What a request finds, in the order of its sort: from the anchor outwards.
FoundBy(l) == {r \in Matches(stored, l.chips) : r.ts \in Within(l)}
Ahead(d, q, r) == IF d = "before" THEN Later(q, r) ELSE Earlier(q, r)
Rank(d, r, logs) == Cardinality({q \in logs : Ahead(d, q, r)})

\* The answer: limit and offset apply to the sorted rows.
RawHits(l) ==
    {r \in FoundBy(l) : Rank(l.dir, r, FoundBy(l)) \in l.offset..(l.offset + PAGE_SIZE - 1)}

\* #loadPage up to its await.
LoadRequest(d, seq, chipped, w) ==
    [dir |-> d, seq |-> seq, chips |-> chipped, bound |-> w.bound, offset |-> w.offset]

-----------------------------------------------------------------------------
(* Opening *)

\* init, for the given chips.
Start(a, isDated, chipped, logs) ==
    LET w == [bound |-> a.ts, offset |-> 0, empty |-> 0]
    IN  /\ fetchSeq < MaxFetchSeq
        /\ fetchSeq' = fetchSeq + 1
        /\ chips' = chipped
        /\ entries' = <<a>>
        /\ win' = [d \in Dirs |-> w]
        /\ loadingInitial' = isDated
        /\ side' = [d \in Dirs |-> [createDirectionState EXCEPT !.loading = isDated]]
        /\ loads' = IF isDated
                      THEN loads \cup {LoadRequest(d, fetchSeq + 1, chipped, w) : d \in Dirs}
                      ELSE loads
        /\ known' = logs

\* The drawer opens on a log, whose chips are those kept in local storage.
Open(corpus, a, isDated, chipped) ==
    /\ anchor = NoRow
    /\ a \in corpus \cap Anchors /\ a.same
    /\ stored' = corpus
    /\ anchor' = a
    /\ dated' = isDated
    /\ Start(a, isDated, chipped, corpus)

\* onReplaceHit: the pane disposes its loader and makes another.
Reanchor(a) ==
    /\ anchor # NoRow
    /\ ~loadingInitial
    /\ a \in Anchors \ {anchor}
    /\ a.same
    /\ anchor' = a
    /\ dated' = TRUE
    /\ Start(a, TRUE, chips, stored)
    /\ UNCHANGED stored

\* The scope bar is disabled during the initial load.
SetChips(chipped) ==
    /\ anchor # NoRow
    /\ ~loadingInitial
    /\ Start(anchor, dated, chipped, stored)
    /\ UNCHANGED <<stored, anchor, dated>>

\* A log is stored.
Ingest(r) ==
    /\ anchor # NoRow
    /\ r \notin stored
    /\ Cardinality(stored \ known) < MaxLate
    /\ stored' = stored \cup {r}
    /\ UNCHANGED <<anchor, dated, chips, entries, loadingInitial, side, win, fetchSeq,
                   loads, known>>

-----------------------------------------------------------------------------
(* Pages *)

\* A sentinel scrolls into view, or the retry button is pressed.
LoadMore(d, retry) ==
    /\ anchor # NoRow
    /\ ~loadingInitial
    /\ dated
    /\ ~side[d].loading /\ ~side[d].noMore /\ ~side[d].limited
    /\ side[d].error => retry
    /\ side' = [side EXCEPT ![d].loading = TRUE, ![d].error = FALSE]
    /\ loads' = loads \cup {LoadRequest(d, fetchSeq, chips, win[d])}
    /\ UNCHANGED <<stored, anchor, dated, chips, entries, loadingInitial, win, fetchSeq,
                   known>>

\* #toEntries: what #seenKeys has not seen yet, the anchor being the first.
Fresh(hits) == hits \ ToSet(entries)

\* Rows in the order of the list: the newest first.
AsListed(logs) ==
    [k \in 1..Cardinality(logs) |-> CHOOSE r \in logs : Rank("before", r, logs) = k - 1]

\* The second of the last row of a page, and the rows at its end that share it.
LastTs(d, hits) ==
    CHOOSE t \in {r.ts : r \in hits} : \A r \in hits : SIGN[d] * r.ts <= SIGN[d] * t
LastSecond(d, hits) == {r \in hits : r.ts = LastTs(d, hits)}

\* Mutation: the offset is carried over to another second.
FullPageCarry(d, hits) ==
    LET last == LastTs(d, hits)
    IN  [bound |-> IF d = "before" THEN last + 1 ELSE last,
         offset |-> Cardinality(LastSecond(d, hits)) + win[d].offset,
         empty |-> 0]

\* Where the next request starts after a full page.
FullPage(d, hits) ==
    LET last == LastTs(d, hits)
        bound == IF d = "before" THEN last + 1 ELSE last
    IN  [bound |-> bound,
         offset |-> Cardinality(LastSecond(d, hits)) + (IF bound = win[d].bound THEN win[d].offset ELSE 0),
         empty |-> 0]

\* Mutation: a slide by one window counts as one empty slide whatever it held.
ShortPageNoReset(d, hits) ==
    [bound |-> win[d].bound + SIGN[d] * WINDOW_SECONDS, offset |-> 0, empty |-> win[d].empty + 1]

\* ... and after a short one.
ShortPage(d, hits) ==
    [bound |-> win[d].bound + SIGN[d] * WINDOW_SECONDS,
     offset |-> 0,
     empty |-> IF hits = {} THEN win[d].empty + 1 ELSE 0]

\* A second with more rows than an offset may skip.
Beyond(d, w) == w.offset > MAX_OFFSET \/ SIGN[d] * (w.bound - win[d].bound) < 0

\* #advance.
Advance(d, hits) ==
    LET full == Cardinality(hits) >= PAGE_SIZE
        w == IF full THEN FullPage(d, hits) ELSE ShortPage(d, hits)
        limited == full /\ Beyond(d, w)
    IN  /\ win' = IF limited THEN [win EXCEPT ![d].empty = 0] ELSE [win EXCEPT ![d] = w]
        /\ side' = [side EXCEPT
              ![d].loading = FALSE,
              ![d].limited = @ \/ limited,
              ![d].noMore = IF full THEN @ ELSE w.empty >= MAX_EMPTY_SLIDES]

\* Promise.all of init has its two answers once no load of the sequence is left.
InitialDone == loadingInitial' = (loadingInitial /\ \E l \in loads' : l.seq = fetchSeq)

\* Mutation: an answer counts whatever was asked for since.
CurrentAlways(l) == TRUE

Current(l) == l.seq = fetchSeq

Answer(l) ==
    /\ Current(l)
    /\ loads' = loads \ {l}
    /\ LET fresh == AsListed(Fresh(RawHits(l)))
       IN  entries' = IF l.dir = "before" THEN entries \o fresh ELSE fresh \o entries
    /\ Advance(l.dir, RawHits(l))
    /\ InitialDone
    /\ UNCHANGED <<stored, anchor, dated, chips, fetchSeq, known>>

LoadFails(l) ==
    /\ Current(l)
    /\ loads' = loads \ {l}
    /\ side' = [side EXCEPT ![l.dir].loading = FALSE, ![l.dir].error = TRUE]
    /\ InitialDone
    /\ UNCHANGED <<stored, anchor, dated, chips, entries, win, fetchSeq, known>>

\* An aborted or superseded load ends.
Superseded(l) ==
    /\ ~Current(l)
    /\ loads' = loads \ {l}
    /\ UNCHANGED <<stored, anchor, dated, chips, entries, loadingInitial, side, win,
                   fetchSeq, known>>

CtxNext ==
    \/ \E corpus \in Corpora, isDated, chipped \in BOOLEAN :
         \E a \in corpus : Open(corpus, a, isDated, chipped)
    \/ \E k \in DOMAIN entries : Reanchor(entries[k])
    \/ \E chipped \in BOOLEAN : SetChips(chipped)
    \/ \E r \in LateRows : Ingest(r)
    \/ \E d \in Dirs, retry \in BOOLEAN : LoadMore(d, retry)
    \/ \E l \in loads : Answer(l) \/ LoadFails(l) \/ Superseded(l)

CtxSpec == CtxInit /\ [][CtxNext]_ctxVars

-----------------------------------------------------------------------------
(* Properties *)

Listed == ToSet(entries)

\* No log is skipped and none shows twice: between two logs that paging has
\* brought, every log that matches the chips and was there when paging began is
\* listed too, whatever was stored in between and however pages cut a second.
NoLogSkipped ==
    /\ Len(entries) = Cardinality(Listed)
    /\ \A r \in Matches(known, chips) : \A a, b \in Listed \ {anchor} :
          Earlier(a, r) /\ Earlier(r, b) => r \in Listed

\* The list runs from the newest second to the oldest, and all of it matches
\* the chips that are set.
NewestFirst ==
    /\ \A k \in 1..(Len(entries) - 1) : entries[k].ts >= entries[k + 1].ts
    /\ Listed \subseteq Matches(stored, chips)

\* The list is a stretch of the log: in order, all of it, and nothing else.
Gapless == NoLogSkipped /\ NewestFirst

Gap == MAX_EMPTY_SLIDES * WINDOW_SECONDS

\* "No older logs" is said only when nothing that matches is left within
\* MAX_EMPTY_SLIDES windows of the last log shown, and the pagination limit
\* only when one second has more rows than MAX_OFFSET.
EndIsTrue ==
    /\ side["before"].noMore =>
         \A r \in Matches(known, chips) : r.ts < anchor.ts /\ r \notin Listed =>
           \A a \in Listed : a.ts - r.ts >= Gap
    /\ side["after"].noMore =>
         \A r \in Matches(known, chips) : r.ts >= anchor.ts /\ r \notin Listed =>
           \A a \in Listed : r.ts - a.ts >= Gap
    /\ \A d \in Dirs : side[d].limited =>
         \E r \in Listed : Cardinality({q \in Matches(stored, chips) : q.ts = r.ts}) > MAX_OFFSET

\* Neither a spinner without a request nor a request without one.
CtxBusyIffLoading ==
    \A d \in Dirs : side[d].loading <=> \E l \in loads : l.dir = d /\ l.seq = fetchSeq

=============================================================================
