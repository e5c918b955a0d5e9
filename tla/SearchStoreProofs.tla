-------------------------- MODULE SearchStoreProofs --------------------------
(***************************************************************************)
(* Proofs about SearchStore, for any indexes, totals and limit of pages,   *)
(* and for any number of view changes and ticks.                           *)
(***************************************************************************)
EXTENDS SearchStore, TLAPS

\* The view in the URL.
Current == [input |-> input, sort |-> sort, index |-> index]

OutOf(kind) == {r \in requests : r.kind = kind /\ Live(r)}

\* The clock names the moments of requests, of the latest ones among them.
ClockInv ==
    /\ input <= clock /\ searchRun <= clock /\ configRun <= clock
    /\ \A r \in requests : r.run <= clock

\* At most one answer of a kind will be looked at.
OneOut ==
    /\ \A q, r \in OutOf("search") : q = r
    /\ \A q, r \in OutOf("histogram") : q = r
    /\ \A q, r \in OutOf("page") : q = r

\* ... and it is the answer to what is shown.
SearchInv ==
    \A r \in OutOf("search") :
        /\ r.of = Current
        /\ hitsStatus = IF r.refresh THEN "refresh" ELSE "fresh"

PageInv ==
    \A r \in OutOf("page") :
        /\ hitsStatus = "idle"
        /\ hits # NoHits
        /\ r.of = hits.of /\ r.pages = hits.pages
        /\ Len(r.pages) < MaxPages

HistogramInv ==
    \A r \in OutOf("histogram") : r.of.input = input

ConfigInv ==
    /\ index # NoIndex => config \in {NoIndex, index}
    /\ \A r \in OutOf("config") : r.of.index = index

\* The pages of the rows follow each other.
PagesInv ==
    hits # NoHits =>
        /\ Len(hits.pages) <= MaxPages
        /\ \A k \in 1..Len(hits.pages) : hits.pages[k] = [of |-> hits.of, at |-> k - 1]

\* Rows that may be on screen are of the index in the URL, those of a settled
\* search of all of the view.
HitsInv ==
    index # NoIndex =>
        /\ hits # NoHits /\ hitsStatus # "fresh" => hits.of.index = index
        /\ hitsStatus = "idle" /\ ~hitsError => hits # NoHits /\ hits.of = Current
        /\ histogramStatus = "idle" /\ ~histogramError =>
              histogram # NoHistogram /\ histogram.input = input

StoreInv ==
    /\ TypeOK
    /\ ClockInv
    /\ OneOut
    /\ SearchInv
    /\ PageInv
    /\ HistogramInv
    /\ ConfigInv
    /\ PagesInv
    /\ HitsInv
    /\ BusyIffInFlight

-----------------------------------------------------------------------------

LEMMA Init_Inv == Init => StoreInv
<1> SUFFICES ASSUME Init PROVE StoreInv
  OBVIOUS
<1>1. TypeOK
  BY DEF Init, TypeOK, Sorts, Status
<1>2. ClockInv
  BY DEF Init, ClockInv
<1>3. OneOut /\ SearchInv /\ PageInv /\ HistogramInv /\ ConfigInv
  BY DEF Init, OneOut, SearchInv, PageInv, HistogramInv, ConfigInv, OutOf
<1>4. PagesInv /\ HitsInv /\ BusyIffInFlight
  BY DEF Init, PagesInv, HitsInv, BusyIffInFlight
<1> QED BY <1>1, <1>2, <1>3, <1>4 DEF StoreInv

\* Busy, in terms of OutOf.
LEMMA Busy ==
    BusyIffInFlight <=>
        (index # NoIndex => /\ hitsStatus # "idle" <=> OutOf("search") # {}
                            /\ histogramStatus # "idle" <=> OutOf("histogram") # {}
                            /\ loadingMore <=> OutOf("page") # {})
BY DEF BusyIffInFlight, OutOf

\* What is asked at a new moment is of that moment.
LEMMA AskFields ==
    ASSUME NEW kind \in {"search", "page", "histogram", "config"}, NEW run \in Nat,
           NEW refresh \in BOOLEAN, NEW of \in Of, NEW pages \in Seq(Page)
    PROVE  /\ Ask(kind, run, refresh, of, pages) \in Request
           /\ Ask(kind, run, refresh, of, pages).kind = kind
           /\ Ask(kind, run, refresh, of, pages).run = run
           /\ Ask(kind, run, refresh, of, pages).refresh = refresh
           /\ Ask(kind, run, refresh, of, pages).of = of
           /\ Ask(kind, run, refresh, of, pages).pages = pages
BY DEF Ask, Request

\* Live, kind by kind.
LEMMA LiveByKind ==
    ASSUME NEW r
    PROVE  /\ r.kind \in {"search", "page"} => (Live(r) <=> index # NoIndex /\ r.run = searchRun)
           /\ r.kind = "histogram" => (Live(r) <=> index # NoIndex /\ r.run = input)
           /\ r.kind = "config" => (Live(r) <=> index # NoIndex /\ r.run = configRun)
BY DEF Live

-----------------------------------------------------------------------------
(* What a step leaves out *)

\* An answer takes its request from those that are out.
LEMMA Removed ==
    ASSUME NEW r \in requests, requests' = requests \ {r},
           UNCHANGED <<index, input, searchRun, configRun>>
    PROVE  \A kind : OutOf(kind)' = OutOf(kind) \ {r}
<1>1. \A q : Live(q)' <=> Live(q)
  BY DEF Live
<1> QED BY <1>1 DEF OutOf

\* A new search is the only one out, and ends the page that was being loaded.
LEMMA NewSearch ==
    ASSUME StoreInv, clock' = clock + 1, searchRun' = clock', index' # NoIndex,
           NEW n \in requests', n.kind = "search", n.run = clock',
           \A r \in requests' \ requests : r.kind \in {"search", "page"} => r = n
    PROVE  OutOf("search")' = {n} /\ OutOf("page")' = {}
<1>1. clock \in Nat /\ \A r \in requests : r.run # clock'
  BY DEF StoreInv, TypeOK, ClockInv, Request
<1>2. \A r : r.kind \in {"search", "page"} => (Live(r)' <=> r.run = clock')
  BY DEF Live
<1> QED BY <1>1, <1>2 DEF OutOf

\* A new histogram is the only one out.
LEMMA NewHistogram ==
    ASSUME StoreInv, clock' = clock + 1, input' = clock', index' # NoIndex,
           NEW n \in requests', n.kind = "histogram", n.run = clock',
           \A r \in requests' \ requests : r.kind = "histogram" => r = n
    PROVE  OutOf("histogram")' = {n}
<1>1. clock \in Nat /\ \A r \in requests : r.run # clock'
  BY DEF StoreInv, TypeOK, ClockInv, Request
<1>2. \A r : r.kind = "histogram" => (Live(r)' <=> r.run = clock')
  BY DEF Live
<1> QED BY <1>1, <1>2 DEF OutOf

\* Requests of other kinds leave the histogram and the config as they were.
LEMMA SameHistogram ==
    ASSUME UNCHANGED <<index, input>>,
           requests \subseteq requests', \A r \in requests' \ requests : r.kind # "histogram"
    PROVE  OutOf("histogram")' = OutOf("histogram")
<1>1. \A r : r.kind = "histogram" => (Live(r)' <=> Live(r))
  BY DEF Live
<1> QED BY <1>1 DEF OutOf

LEMMA SameConfig ==
    ASSUME UNCHANGED <<index, configRun>>,
           requests \subseteq requests', \A r \in requests' \ requests : r.kind # "config"
    PROVE  OutOf("config")' = OutOf("config")
<1>1. \A r : r.kind = "config" => (Live(r)' <=> Live(r))
  BY DEF Live
<1> QED BY <1>1 DEF OutOf

LEMMA NothingOut == ASSUME index' = NoIndex PROVE \A kind : OutOf(kind)' = {}
BY DEF OutOf, Live

-----------------------------------------------------------------------------
(* View changes, ticks *)

LEMMA NavigateAway_Inv ==
    ASSUME StoreInv, NEW s \in Sorts, Navigate(NoIndex, s)
    PROVE  StoreInv'
<1> USE DEF StoreInv
<1>1. /\ clock' = clock + 1 /\ index' = NoIndex /\ input' = clock' /\ sort' = s
      /\ loadingMore' = FALSE /\ hitsStatus' = "idle" /\ histogramStatus' = "idle"
      /\ requests' = requests
      /\ UNCHANGED <<hits, hitsError, searchRun, histogram, histogramError, expanded>>
  BY DEF Navigate, SearchEffect, HistogramEffect
<1>2. configRun' \in {0, configRun} /\ UNCHANGED <<config, configError>>
  BY DEF Navigate, ConfigEffect, setup
<1>3. clock \in Nat
  BY DEF TypeOK
<1>4. TypeOK'
  <2>1. clock' \in Nat /\ input' \in Nat /\ searchRun' \in Nat /\ configRun' \in Nat
    BY <1>1, <1>2, <1>3 DEF TypeOK
  <2>2. index' \in Indexes \cup {NoIndex} /\ sort' \in Sorts /\ config' \in Indexes \cup {NoIndex}
    BY <1>1, <1>2 DEF TypeOK
  <2>3. /\ loadingMore' \in BOOLEAN /\ expanded' \in BOOLEAN /\ hitsError' \in BOOLEAN
        /\ histogramError' \in BOOLEAN /\ configError' \in BOOLEAN
    BY <1>1, <1>2 DEF TypeOK
  <2>4. hitsStatus' \in Status /\ histogramStatus' \in Status
    BY <1>1 DEF Status
  <2> QED BY <1>1, <2>1, <2>2, <2>3, <2>4 DEF TypeOK
<1>5. ClockInv'
  BY <1>1, <1>2, <1>3 DEF ClockInv, TypeOK, Request
<1>6. OneOut' /\ SearchInv' /\ PageInv' /\ HistogramInv' /\ ConfigInv'
  BY <1>1, NothingOut DEF OneOut, SearchInv, PageInv, HistogramInv, ConfigInv
<1>7. PagesInv' /\ HitsInv' /\ BusyIffInFlight'
  BY <1>1 DEF PagesInv, HitsInv, BusyIffInFlight
<1> QED BY <1>4, <1>5, <1>6, <1>7

LEMMA Navigate_Inv ==
    ASSUME StoreInv, NEW x \in Indexes, NEW s \in Sorts, Navigate(x, s)
    PROVE  StoreInv'
<1> USE DEF StoreInv
<1>1. x # NoIndex
  BY SearchStoreAssumption
<1> PICK c \in Nat : c = clock + 1
  BY DEF TypeOK
<1> PICK of \in Of : of = [input |-> c, sort |-> s, index |-> x]
  BY DEF Of
<1> PICK n : n = Ask("search", c, FALSE, of, <<>>)
  OBVIOUS
<1> PICK h : h = Ask("histogram", c, FALSE, of, <<>>)
  OBVIOUS
<1> PICK g : g = Ask("config", c, FALSE, of, <<>>)
  OBVIOUS
<1>0. <<>> \in Seq(Page)
  OBVIOUS
<1>2. n \in Request /\ n.kind = "search" /\ n.run = c /\ n.of = of /\ n.refresh = FALSE
  BY <1>0 DEF Ask, Request
<1>3. h \in Request /\ h.kind = "histogram" /\ h.run = c /\ h.of = of
  BY <1>0 DEF Ask, Request
<1>4. g \in Request /\ g.kind = "config" /\ g.run = c /\ g.of = of
  BY <1>0 DEF Ask, Request
<1>5. clock' = c /\ index' = x /\ input' = c /\ sort' = s /\ searchRun' = c
  BY <1>1 DEF Navigate, SearchEffect
<1>6. /\ loadingMore' = FALSE /\ hitsStatus' = "fresh" /\ hitsError' = FALSE
      /\ histogramStatus' = "fresh" /\ histogramError' = FALSE
      /\ UNCHANGED <<hits, histogram, expanded>>
  BY <1>1 DEF Navigate, SearchEffect, HistogramEffect
<1>7. requests' = requests \cup {n, h} \cup (IF x = index THEN {} ELSE {g})
  BY <1>1, <1>5 DEF Navigate
<1>8. IF x = index THEN UNCHANGED <<config, configError, configRun>>
                   ELSE configRun' = c /\ config' = NoIndex /\ configError' = FALSE
  BY <1>1, <1>5 DEF Navigate, ConfigEffect, setup
<1>11. n \in requests' /\ h \in requests' /\ \A r \in requests' \ requests : r \in {n, h, g}
  BY <1>7
<1>9. TypeOK'
  <2>1. clock' \in Nat /\ input' \in Nat /\ searchRun' \in Nat /\ configRun' \in Nat
    BY <1>5, <1>8 DEF TypeOK
  <2>2. index' \in Indexes \cup {NoIndex} /\ sort' \in Sorts /\ config' \in Indexes \cup {NoIndex}
    BY <1>5, <1>8 DEF TypeOK
  <2>3. /\ loadingMore' \in BOOLEAN /\ expanded' \in BOOLEAN /\ hitsError' \in BOOLEAN
        /\ histogramError' \in BOOLEAN /\ configError' \in BOOLEAN
    BY <1>6, <1>8 DEF TypeOK
  <2>4. hitsStatus' \in Status /\ histogramStatus' \in Status
    BY <1>6 DEF Status
  <2>5. requests' \subseteq Request
    BY <1>2, <1>3, <1>4, <1>7 DEF TypeOK
  <2> QED BY <1>6, <2>1, <2>2, <2>3, <2>4, <2>5 DEF TypeOK
<1>10. ClockInv'
  <2>1. \A r \in requests : r.run <= c
    BY DEF ClockInv, TypeOK, Request
  <2>2. \A r \in requests' : r.run <= c
    <3> SUFFICES ASSUME NEW r \in requests' PROVE r.run <= c
      OBVIOUS
    <3>1. CASE r \in requests
      BY <2>1, <3>1
    <3>2. CASE r \notin requests
      <4>1. r.run = c
        BY <1>2, <1>3, <1>4, <1>11, <3>2
      <4> QED BY <4>1
    <3> QED BY <3>1, <3>2
  <2>3. configRun' <= c
    BY <1>8 DEF ClockInv, TypeOK
  <2> QED BY <1>5, <2>2, <2>3 DEF ClockInv
<1>12. OutOf("search")' = {n} /\ OutOf("page")' = {}
  BY <1>1, <1>2, <1>3, <1>4, <1>5, <1>11, NewSearch
<1>13. OutOf("histogram")' = {h}
  BY <1>1, <1>2, <1>3, <1>4, <1>5, <1>11, NewHistogram
<1>14. OneOut'
  BY <1>12, <1>13 DEF OneOut
<1>15. SearchInv'
  BY <1>2, <1>5, <1>6, <1>12 DEF SearchInv, Current
<1>16. PageInv' /\ HistogramInv'
  <2>1. PageInv'
    BY <1>12 DEF PageInv
  <2>2. of.input = c
    OBVIOUS
  <2>3. HistogramInv'
    BY <1>3, <1>5, <1>13, <2>2 DEF HistogramInv
  <2> QED BY <2>1, <2>3
<1>17. ConfigInv'
  <2>1. CASE x = index
    <3>1. OutOf("config")' \subseteq OutOf("config")
      <4>1. \A r : r.kind = "config" => (Live(r)' <=> Live(r))
        BY <1>1, <1>5, <1>8, <2>1 DEF Live
      <4>2. \A r \in requests' : r.kind = "config" => r \in requests
        BY <1>2, <1>3, <1>7, <2>1
      <4> QED BY <4>1, <4>2 DEF OutOf
    <3> QED BY <1>5, <1>8, <2>1, <3>1 DEF ConfigInv
  <2>2. CASE x # index
    <3>1. \A r \in requests : r.run # c
      BY DEF ClockInv, TypeOK, Request
    <3>2. \A r \in OutOf("config")' : r = g
      BY <1>2, <1>3, <1>5, <1>8, <1>11, <2>2, <3>1 DEF OutOf, Live
    <3>3. of.index = x
      OBVIOUS
    <3> QED BY <1>4, <1>5, <1>8, <2>2, <3>2, <3>3 DEF ConfigInv
  <2> QED BY <2>1, <2>2
<1>18. PagesInv' /\ HitsInv'
  BY <1>6 DEF PagesInv, HitsInv
<1>19. BusyIffInFlight'
  <2>1. hitsStatus' # "idle" /\ OutOf("search")' # {}
    BY <1>6, <1>12
  <2>2. histogramStatus' # "idle" /\ OutOf("histogram")' # {}
    BY <1>6, <1>13
  <2>3. ~loadingMore' /\ OutOf("page")' = {}
    BY <1>6, <1>12
  <2> QED BY <2>1, <2>2, <2>3 DEF BusyIffInFlight, OutOf
<1> QED BY <1>9, <1>10, <1>14, <1>15, <1>16, <1>17, <1>18, <1>19

LEMMA ToggleSort_Inv ==
    ASSUME StoreInv, NEW s \in Sorts, ToggleSort(s)
    PROVE  StoreInv'
<1> USE DEF StoreInv
<1> PICK c \in Nat : c = clock + 1
  BY DEF TypeOK
<1>1. index \in Indexes /\ index # NoIndex /\ input \in Nat
  BY DEF ToggleSort, TypeOK
<1> PICK of \in Of : of = [input |-> input, sort |-> s, index |-> index]
  BY <1>1 DEF Of
<1> PICK n : n = Ask("search", c, FALSE, of, <<>>)
  OBVIOUS
<1>2. n \in Request /\ n.kind = "search" /\ n.run = c /\ n.of = of /\ n.refresh = FALSE
  BY <<>> \in Seq(Page) DEF Ask, Request
<1>3. clock' = c /\ sort' = s /\ searchRun' = c /\ UNCHANGED <<index, input, configRun>>
  BY <1>1 DEF ToggleSort, SearchEffect, setup
<1>4. /\ loadingMore' = FALSE /\ hitsStatus' = "fresh" /\ hitsError' = FALSE
      /\ UNCHANGED <<hits, histogram, histogramStatus, histogramError, config, configError, expanded>>
  BY <1>1 DEF ToggleSort, SearchEffect, chart, setup
<1>5. requests' = requests \cup {n}
  BY <1>3 DEF ToggleSort
<1>6. n \in requests' /\ \A r \in requests' \ requests : r = n
  BY <1>5
<1>7. TypeOK'
  <2>1. clock' \in Nat /\ searchRun' \in Nat /\ sort' \in Sorts
    BY <1>3
  <2>2. loadingMore' \in BOOLEAN /\ hitsError' \in BOOLEAN /\ hitsStatus' \in Status
    BY <1>4 DEF Status
  <2>3. requests' \subseteq Request
    BY <1>2, <1>5 DEF TypeOK
  <2> QED BY <1>3, <1>4, <2>1, <2>2, <2>3 DEF TypeOK
<1>8. ClockInv'
  <2>1. input' <= c /\ configRun' <= c /\ \A r \in requests : r.run <= c
    BY <1>3 DEF ClockInv, TypeOK, Request
  <2> SUFFICES ASSUME NEW r \in requests' PROVE r.run <= c
    BY <1>3, <2>1 DEF ClockInv
  <2>2. CASE r \in requests
    BY <2>1, <2>2
  <2>3. CASE r \notin requests
    <3>1. r.run = c
      BY <1>2, <1>6, <2>3
    <3> QED BY <3>1
  <2> QED BY <2>2, <2>3
<1>9. OutOf("search")' = {n} /\ OutOf("page")' = {}
  BY <1>1, <1>2, <1>3, <1>6, NewSearch
<1>10. OutOf("histogram")' = OutOf("histogram")
  BY <1>2, <1>3, <1>5, <1>6, SameHistogram
<1>11. OutOf("config")' = OutOf("config")
  BY <1>2, <1>3, <1>5, <1>6, SameConfig
<1>12. OneOut'
  BY <1>9, <1>10 DEF OneOut
<1>13. SearchInv'
  BY <1>2, <1>3, <1>4, <1>9 DEF SearchInv, Current
<1>14. PageInv'
  BY <1>9 DEF PageInv
<1>15. HistogramInv'
  BY <1>3, <1>10 DEF HistogramInv
<1>16. ConfigInv'
  BY <1>3, <1>4, <1>11 DEF ConfigInv
<1>17. PagesInv' /\ HitsInv'
  BY <1>3, <1>4 DEF PagesInv, HitsInv
<1>18. BusyIffInFlight'
  <2>1. hitsStatus' # "idle" /\ OutOf("search")' # {} /\ ~loadingMore' /\ OutOf("page")' = {}
    BY <1>4, <1>9
  <2>2. histogramStatus' # "idle" <=> OutOf("histogram")' # {}
    BY <1>1, <1>4, <1>10, Busy
  <2> QED BY <2>1, <2>2 DEF BusyIffInFlight, OutOf
<1> QED BY <1>7, <1>8, <1>12, <1>13, <1>14, <1>15, <1>16, <1>17, <1>18

LEMMA Tick_Inv == ASSUME StoreInv, Tick PROVE StoreInv'
<1> USE DEF StoreInv
<1> PICK c \in Nat : c = clock + 1
  BY DEF TypeOK
<1>1. index \in Indexes /\ index # NoIndex /\ sort \in Sorts /\ hitsStatus = "idle"
  BY DEF Tick, TypeOK
<1> PICK of \in Of : of = [input |-> c, sort |-> sort, index |-> index]
  BY <1>1 DEF Of
<1> PICK n : n = Ask("search", c, TRUE, of, <<>>)
  OBVIOUS
<1> PICK h : h = Ask("histogram", c, TRUE, of, <<>>)
  OBVIOUS
<1>2. n \in Request /\ n.kind = "search" /\ n.run = c /\ n.of = of /\ n.refresh = TRUE
  BY <<>> \in Seq(Page) DEF Ask, Request
<1>3. h \in Request /\ h.kind = "histogram" /\ h.run = c /\ h.of = of
  BY <<>> \in Seq(Page) DEF Ask, Request
<1>4. clock' = c /\ input' = c /\ searchRun' = c /\ UNCHANGED <<index, sort, configRun>>
  BY <1>1 DEF Tick, SearchEffect, setup
<1>5. /\ loadingMore' = FALSE /\ hitsStatus' = "refresh" /\ histogramStatus' = "refresh"
      /\ UNCHANGED <<hits, hitsError, histogram, histogramError, config, configError, expanded>>
  BY <1>1 DEF Tick, SearchEffect, HistogramEffect, setup
<1>6. requests' = requests \cup {n, h}
  BY <1>4 DEF Tick
<1>7. n \in requests' /\ h \in requests' /\ \A r \in requests' \ requests : r \in {n, h}
  BY <1>6
<1>8. TypeOK'
  <2>1. clock' \in Nat /\ input' \in Nat /\ searchRun' \in Nat
    BY <1>4
  <2>2. loadingMore' \in BOOLEAN /\ hitsStatus' \in Status /\ histogramStatus' \in Status
    BY <1>5 DEF Status
  <2>3. requests' \subseteq Request
    BY <1>2, <1>3, <1>6 DEF TypeOK
  <2> QED BY <1>4, <1>5, <2>1, <2>2, <2>3 DEF TypeOK
<1>9. ClockInv'
  <2>1. configRun' <= c /\ \A r \in requests : r.run <= c
    BY <1>4 DEF ClockInv, TypeOK, Request
  <2> SUFFICES ASSUME NEW r \in requests' PROVE r.run <= c
    BY <1>4, <2>1 DEF ClockInv
  <2>2. CASE r \in requests
    BY <2>1, <2>2
  <2>3. CASE r \notin requests
    <3>1. r.run = c
      BY <1>2, <1>3, <1>7, <2>3
    <3> QED BY <3>1
  <2> QED BY <2>2, <2>3
<1>10. OutOf("search")' = {n} /\ OutOf("page")' = {}
  BY <1>1, <1>2, <1>3, <1>4, <1>7, NewSearch
<1>11. OutOf("histogram")' = {h}
  BY <1>1, <1>2, <1>3, <1>4, <1>7, NewHistogram
<1>12. OutOf("config")' = OutOf("config")
  BY <1>2, <1>3, <1>4, <1>6, <1>7, SameConfig
<1>13. OneOut'
  BY <1>10, <1>11 DEF OneOut
<1>14. SearchInv'
  BY <1>2, <1>4, <1>5, <1>10 DEF SearchInv, Current
<1>15. PageInv'
  BY <1>10 DEF PageInv
<1>16. HistogramInv'
  <2>1. of.input = c
    OBVIOUS
  <2> QED BY <1>3, <1>4, <1>11, <2>1 DEF HistogramInv
<1>17. ConfigInv'
  BY <1>4, <1>5, <1>12 DEF ConfigInv
<1>18. PagesInv' /\ HitsInv'
  BY <1>1, <1>4, <1>5 DEF PagesInv, HitsInv
<1>19. BusyIffInFlight'
  <2>1. hitsStatus' # "idle" /\ OutOf("search")' # {} /\ ~loadingMore' /\ OutOf("page")' = {}
    BY <1>5, <1>10
  <2>2. histogramStatus' # "idle" /\ OutOf("histogram")' # {}
    BY <1>5, <1>11
  <2> QED BY <2>1, <2>2 DEF BusyIffInFlight, OutOf
<1> QED BY <1>8, <1>9, <1>13, <1>14, <1>15, <1>16, <1>17, <1>18, <1>19

-----------------------------------------------------------------------------
(* Folds, pages *)

LEMMA Quiet_Inv ==
    ASSUME StoreInv, expanded' \in BOOLEAN, UNCHANGED <<view, search, loadingMore, chart, setup, requests>>
    PROVE  StoreInv'
<1> USE DEF StoreInv, view, search, chart, setup
<1>1. \A kind : OutOf(kind)' = OutOf(kind)
  BY DEF OutOf, Live
<1>2. TypeOK'
  BY DEF TypeOK
<1>3. ClockInv' /\ PagesInv' /\ HitsInv' /\ BusyIffInFlight'
  BY DEF ClockInv, PagesInv, HitsInv, BusyIffInFlight, Current, Live
<1>4. OneOut' /\ SearchInv' /\ PageInv'
  BY <1>1 DEF OneOut, SearchInv, PageInv, Current
<1>5. HistogramInv' /\ ConfigInv'
  BY <1>1 DEF HistogramInv, ConfigInv
<1> QED BY <1>2, <1>3, <1>4, <1>5

LEMMA MaybeLoadMore_Inv == ASSUME StoreInv, MaybeLoadMore PROVE StoreInv'
<1> USE DEF StoreInv
<1>1. /\ hits # NoHits /\ hits \in Hits /\ hitsStatus = "idle" /\ ~loadingMore
      /\ Len(hits.pages) < MaxPages
  <2>1. hits # NoHits /\ hitsStatus = "idle" /\ ~loadingMore /\ ListEnd = "more"
    BY DEF MaybeLoadMore, MayLoadMore
  <2>2. ~(Len(hits.pages) >= MaxPages)
    BY <2>1 DEF ListEnd
  <2>3. hits \in Hits
    BY <2>1 DEF TypeOK
  <2>4. Len(hits.pages) \in Nat
    BY <2>3 DEF Hits
  <2> QED BY <2>1, <2>2, <2>3, <2>4, SearchStoreAssumption
<1> PICK n : n = Ask("page", searchRun, FALSE, hits.of, hits.pages)
  OBVIOUS
<1>2. /\ n \in Request /\ n.kind = "page" /\ n.run = searchRun
      /\ n.of = hits.of /\ n.pages = hits.pages
  BY <1>1 DEF Ask, Request, Hits, TypeOK
<1>3. /\ loadingMore' = TRUE /\ requests' = requests \cup {n}
      /\ UNCHANGED <<view, search, chart, setup, expanded>>
  BY DEF MaybeLoadMore
<1> USE DEF view, search, chart, setup
<1>4. TypeOK'
  <2>1. loadingMore' \in BOOLEAN
    BY <1>3
  <2>2. requests' \subseteq Request
    BY <1>2, <1>3 DEF TypeOK
  <2> QED BY <1>3, <2>1, <2>2 DEF TypeOK
<1>5. ClockInv'
  BY <1>2, <1>3 DEF ClockInv
<1>6. \A r : Live(r)' <=> Live(r)
  BY <1>3 DEF Live
<1>7. /\ OutOf("search")' = OutOf("search")
      /\ OutOf("histogram")' = OutOf("histogram")
      /\ OutOf("config")' = OutOf("config")
  BY <1>2, <1>3, <1>6 DEF OutOf
<1>8. index # NoIndex => OutOf("page") = {}
  BY <1>1, Busy
<1>9. OutOf("page")' \subseteq {n}
  <2>1. CASE index = NoIndex
    BY <1>3, <2>1, NothingOut
  <2>2. CASE index # NoIndex
    BY <1>3, <1>6, <1>8, <2>2 DEF OutOf
  <2> QED BY <2>1, <2>2
<1>10. OneOut'
  BY <1>7, <1>9 DEF OneOut
<1>11. SearchInv'
  BY <1>3, <1>7 DEF SearchInv, Current
<1>12. PageInv'
  BY <1>1, <1>2, <1>3, <1>9 DEF PageInv
<1>13. HistogramInv' /\ ConfigInv'
  BY <1>3, <1>7 DEF HistogramInv, ConfigInv
<1>14. PagesInv' /\ HitsInv'
  BY <1>3 DEF PagesInv, HitsInv, Current
<1>15. BusyIffInFlight'
  <2>1. index # NoIndex => n \in OutOf("page")'
    BY <1>2, <1>3 DEF OutOf, Live
  <2>2. index' # NoIndex => loadingMore' /\ OutOf("page")' # {}
    BY <1>3, <2>1
  <2>3. index' # NoIndex => /\ hitsStatus' # "idle" <=> OutOf("search")' # {}
                            /\ histogramStatus' # "idle" <=> OutOf("histogram")' # {}
    BY <1>3, <1>7, Busy
  <2> QED BY <2>2, <2>3 DEF BusyIffInFlight, OutOf
<1> QED BY <1>4, <1>5, <1>10, <1>11, <1>12, <1>13, <1>14, <1>15

-----------------------------------------------------------------------------
(* Answers *)

\* An answer that is looked at is the only one of its kind, of an index; it
\* takes its request away and nothing else from those that are out.
LEMMA AnsweredOnce ==
    ASSUME StoreInv, NEW kind \in {"search", "page", "histogram", "config"}, NEW r, Answered(r, kind),
           UNCHANGED <<view, searchRun, configRun>>
    PROVE  /\ r \in Request /\ r \in OutOf(kind) /\ r.kind = kind
           /\ index \in Indexes /\ index # NoIndex
           /\ requests' \subseteq Request
           /\ ClockInv'
           /\ \A k : OutOf(k)' = OutOf(k) \ {r}
           /\ \A k : k # kind => OutOf(k)' = OutOf(k)
<1>1. r \in requests /\ r.kind = kind /\ Live(r) /\ requests' = requests \ {r}
  BY DEF Answered
<1>2. r \in OutOf(kind) /\ r \in Request /\ requests' \subseteq Request /\ index # NoIndex
  BY <1>1 DEF OutOf, StoreInv, TypeOK, Live
<1>3. index \in Indexes
  BY <1>2 DEF StoreInv, TypeOK
<1>4. ClockInv'
  BY <1>1 DEF StoreInv, ClockInv, view
<1>5. \A k : OutOf(k)' = OutOf(k) \ {r}
  BY <1>1, Removed DEF view
<1>6. \A k : k # kind => r \notin OutOf(k)
  BY <1>1 DEF OutOf
<1> QED BY <1>1, <1>2, <1>3, <1>4, <1>5, <1>6

\* The histogram, the config and whether they are busy, when an answer of the
\* search changes neither.
LEMMA RestStays ==
    ASSUME StoreInv, UNCHANGED <<view, chart, setup>>,
           OutOf("histogram")' = OutOf("histogram"), OutOf("config")' = OutOf("config")
    PROVE  /\ HistogramInv' /\ ConfigInv'
           /\ \A q, r \in OutOf("histogram")' : q = r
           /\ index # NoIndex => (histogramStatus' # "idle" <=> OutOf("histogram")' # {})
           /\ index # NoIndex => (histogramStatus' = "idle" /\ ~histogramError' =>
                                    histogram' # NoHistogram /\ histogram'.input = input')
<1> USE DEF StoreInv, view, chart, setup
<1>1. HistogramInv' /\ ConfigInv'
  BY DEF HistogramInv, ConfigInv
<1>2. \A q, r \in OutOf("histogram")' : q = r
  BY DEF OneOut
<1>3. index # NoIndex => (histogramStatus' # "idle" <=> OutOf("histogram")' # {})
  BY Busy
<1>4. index # NoIndex => (histogramStatus' = "idle" /\ ~histogramError' =>
                            histogram' # NoHistogram /\ histogram'.input = input')
  BY DEF HitsInv
<1> QED BY <1>1, <1>2, <1>3, <1>4

\* The search has its answer: no page is out.
LEMMA SearchAnswered ==
    ASSUME StoreInv, NEW r, Answered(r, "search"), UNCHANGED <<view, searchRun, configRun>>
    PROVE  /\ OutOf("search")' = {} /\ OutOf("page")' = {} /\ ~loadingMore
           /\ OutOf("histogram")' = OutOf("histogram") /\ OutOf("config")' = OutOf("config")
<1>1. /\ r \in OutOf("search") /\ index # NoIndex
      /\ OutOf("search")' = OutOf("search") \ {r}
      /\ OutOf("page")' = OutOf("page")
      /\ OutOf("histogram")' = OutOf("histogram") /\ OutOf("config")' = OutOf("config")
  BY AnsweredOnce
<1>2. OutOf("search")' = {}
  BY <1>1 DEF StoreInv, OneOut
<1>3. OutOf("page") = {}
  BY <1>1, Busy DEF StoreInv, PageInv
<1>4. ~loadingMore
  BY <1>1, <1>3, Busy DEF StoreInv
<1> QED BY <1>1, <1>2, <1>3, <1>4

LEMMA AnswerSearch_Inv ==
    ASSUME StoreInv, NEW r, NEW full \in BOOLEAN, AnswerSearch(r, full)
    PROVE  StoreInv'
<1> USE DEF StoreInv
<1>1. Answered(r, "search") /\ UNCHANGED <<view, searchRun, loadingMore, chart, setup>>
  BY DEF AnswerSearch
<1>2. UNCHANGED configRun
  BY <1>1 DEF setup
<1>3. /\ r \in Request /\ r \in OutOf("search") /\ index # NoIndex
      /\ requests' \subseteq Request /\ ClockInv'
  BY <1>1, <1>2, AnsweredOnce
<1>4. /\ OutOf("search")' = {} /\ OutOf("page")' = {} /\ ~loadingMore
      /\ OutOf("histogram")' = OutOf("histogram") /\ OutOf("config")' = OutOf("config")
  BY <1>1, <1>2, SearchAnswered
<1> PICK page : page = [of |-> r.of, at |-> 0]
  OBVIOUS
<1>5. r.of \in Of /\ r.of = Current /\ page \in Page
  BY <1>3 DEF Request, Page, SearchInv
<1>6. /\ hits' = [of |-> r.of, pages |-> <<page>>, lastPageFull |-> full]
      /\ hitsError' = FALSE /\ hitsStatus' = "idle" /\ expanded' = FALSE
  BY DEF AnswerSearch
<1>7. <<page>> \in Seq(Page) /\ Len(<<page>>) = 1 /\ <<page>>[1] = page
  BY <1>5
<1>8. hits' \in Hits /\ hits'.of = r.of /\ hits'.pages = <<page>>
  BY <1>5, <1>6, <1>7 DEF Hits
<1>9. TypeOK'
  <2>1. hitsError' \in BOOLEAN /\ hitsStatus' \in Status /\ expanded' \in BOOLEAN
    BY <1>6 DEF Status
  <2> QED BY <1>1, <1>3, <1>8, <2>1 DEF TypeOK, view, chart, setup
<1>10. /\ HistogramInv' /\ ConfigInv'
       /\ \A p, q \in OutOf("histogram")' : p = q
       /\ histogramStatus' # "idle" <=> OutOf("histogram")' # {}
       /\ histogramStatus' = "idle" /\ ~histogramError' =>
             histogram' # NoHistogram /\ histogram'.input = input'
  BY <1>1, <1>3, <1>4, RestStays
<1>11. OneOut' /\ SearchInv' /\ PageInv'
  BY <1>4, <1>10 DEF OneOut, SearchInv, PageInv
<1>12. PagesInv'
  <2>1. Len(hits'.pages) <= MaxPages
    BY <1>7, <1>8, SearchStoreAssumption
  <2>2. \A k \in 1..Len(hits'.pages) : hits'.pages[k] = [of |-> hits'.of, at |-> k - 1]
    BY <1>7, <1>8
  <2> QED BY <2>1, <2>2 DEF PagesInv
<1>13. HitsInv'
  <2>1. hits' # NoHits
    BY <1>8, NothingAssumption
  <2>2. Current' = Current /\ r.of.index = index
    BY <1>1, <1>5 DEF Current, view
  <2> QED BY <1>1, <1>5, <1>8, <1>10, <2>1, <2>2 DEF HitsInv, view
<1>14. BusyIffInFlight'
  <2>1. hitsStatus' = "idle" /\ OutOf("search")' = {} /\ ~loadingMore' /\ OutOf("page")' = {}
    BY <1>1, <1>4, <1>6
  <2> QED BY <1>10, <2>1 DEF BusyIffInFlight, OutOf
<1> QED BY <1>3, <1>9, <1>10, <1>11, <1>12, <1>13, <1>14

LEMMA FailSearch_Inv == ASSUME StoreInv, NEW r, FailSearch(r) PROVE StoreInv'
<1> USE DEF StoreInv
<1>1. Answered(r, "search") /\ UNCHANGED <<view, searchRun, loadingMore, chart, setup, expanded>>
  BY DEF FailSearch
<1>2. UNCHANGED configRun
  BY <1>1 DEF setup
<1>3. /\ r \in Request /\ r \in OutOf("search") /\ index # NoIndex
      /\ requests' \subseteq Request /\ ClockInv'
  BY <1>1, <1>2, AnsweredOnce
<1>4. /\ OutOf("search")' = {} /\ OutOf("page")' = {} /\ ~loadingMore
      /\ OutOf("histogram")' = OutOf("histogram") /\ OutOf("config")' = OutOf("config")
  BY <1>1, <1>2, SearchAnswered
<1>5. /\ hits' = IF r.refresh THEN hits ELSE NoHits
      /\ hitsError' = TRUE /\ hitsStatus' = "idle"
  BY DEF FailSearch
<1>6. TypeOK'
  <2>1. hitsError' \in BOOLEAN /\ hitsStatus' \in Status
    BY <1>5 DEF Status
  <2>2. hits' \in Hits \cup {NoHits}
    BY <1>5 DEF TypeOK
  <2> QED BY <1>1, <1>3, <2>1, <2>2 DEF TypeOK, view, chart, setup
<1>7. /\ HistogramInv' /\ ConfigInv'
      /\ \A p, q \in OutOf("histogram")' : p = q
      /\ histogramStatus' # "idle" <=> OutOf("histogram")' # {}
      /\ histogramStatus' = "idle" /\ ~histogramError' =>
            histogram' # NoHistogram /\ histogram'.input = input'
  BY <1>1, <1>3, <1>4, RestStays
<1>8. OneOut' /\ SearchInv' /\ PageInv'
  BY <1>4, <1>7 DEF OneOut, SearchInv, PageInv
<1>9. PagesInv'
  BY <1>5 DEF PagesInv
<1>10. HitsInv'
  <2>1. hits' # NoHits => hits' = hits /\ hitsStatus = "refresh"
    BY <1>3, <1>5 DEF SearchInv
  <2>2. hits' # NoHits => hits'.of.index = index
    BY <1>3, <2>1 DEF HitsInv
  <2> QED BY <1>1, <1>5, <1>7, <2>2 DEF HitsInv, view
<1>11. BusyIffInFlight'
  <2>1. hitsStatus' = "idle" /\ OutOf("search")' = {} /\ ~loadingMore' /\ OutOf("page")' = {}
    BY <1>1, <1>4, <1>5
  <2> QED BY <1>7, <2>1 DEF BusyIffInFlight, OutOf
<1> QED BY <1>3, <1>6, <1>7, <1>8, <1>9, <1>10, <1>11

\* What every answer of a page leaves.
LEMMA PageAnswered ==
    ASSUME StoreInv, NEW r, Answered(r, "page"), loadingMore' = FALSE,
           UNCHANGED <<view, hitsStatus, hitsError, searchRun, chart, setup, expanded>>
    PROVE  /\ ClockInv' /\ OneOut' /\ SearchInv' /\ PageInv' /\ HistogramInv' /\ ConfigInv'
           /\ BusyIffInFlight'
           /\ requests' \subseteq Request
           /\ r \in Request /\ index # NoIndex
           /\ hitsStatus = "idle" /\ hits # NoHits /\ r.of = hits.of /\ r.pages = hits.pages
           /\ Len(r.pages) < MaxPages
<1> USE DEF StoreInv
<1>1. UNCHANGED <<view, searchRun, configRun>>
  BY DEF setup
<1>2. /\ r \in Request /\ r \in OutOf("page") /\ index # NoIndex
      /\ requests' \subseteq Request /\ ClockInv'
      /\ OutOf("page")' = OutOf("page") \ {r}
      /\ OutOf("search")' = OutOf("search")
      /\ OutOf("histogram")' = OutOf("histogram") /\ OutOf("config")' = OutOf("config")
  BY <1>1, AnsweredOnce
<1>3. OutOf("page")' = {}
  BY <1>2 DEF OneOut
<1>4. /\ HistogramInv' /\ ConfigInv'
      /\ \A p, q \in OutOf("histogram")' : p = q
      /\ histogramStatus' # "idle" <=> OutOf("histogram")' # {}
  BY <1>2, RestStays
<1>5. OneOut'
  BY <1>2, <1>3, <1>4 DEF OneOut
<1>6. SearchInv'
  BY <1>2 DEF SearchInv, Current, view
<1>7. PageInv'
  BY <1>3 DEF PageInv
<1>8. hitsStatus' # "idle" <=> OutOf("search")' # {}
  BY <1>2, Busy
<1>9. BusyIffInFlight'
  <2>1. ~loadingMore' /\ OutOf("page")' = {}
    BY <1>3
  <2> QED BY <1>4, <1>8, <2>1 DEF BusyIffInFlight, OutOf
<1>10. /\ hitsStatus = "idle" /\ hits # NoHits /\ r.of = hits.of /\ r.pages = hits.pages
       /\ Len(r.pages) < MaxPages
  BY <1>2 DEF PageInv
<1> QED BY <1>2, <1>4, <1>5, <1>6, <1>7, <1>9, <1>10

LEMMA AnswerPage_Inv ==
    ASSUME StoreInv, NEW r, NEW full \in BOOLEAN, AnswerPage(r, full)
    PROVE  StoreInv'
<1> USE DEF StoreInv
<1>1. /\ Answered(r, "page") /\ loadingMore' = FALSE
      /\ UNCHANGED <<view, hitsStatus, hitsError, searchRun, chart, setup, expanded>>
  BY DEF AnswerPage
<1>2. /\ ClockInv' /\ OneOut' /\ SearchInv' /\ PageInv' /\ HistogramInv' /\ ConfigInv'
      /\ BusyIffInFlight'
      /\ requests' \subseteq Request
      /\ r \in Request /\ index # NoIndex
      /\ hitsStatus = "idle" /\ hits # NoHits /\ r.of = hits.of /\ r.pages = hits.pages
      /\ Len(r.pages) < MaxPages
  BY <1>1, PageAnswered
<1>3. r.of \in Of /\ r.pages \in Seq(Page) /\ Len(r.pages) \in Nat
  BY <1>2 DEF Request
<1> PICK page : page = [of |-> r.of, at |-> Len(r.pages)]
  OBVIOUS
<1>4. page \in Page
  BY <1>3 DEF Page
<1> PICK pages : pages = Append(r.pages, page)
  OBVIOUS
<1>5. /\ pages \in Seq(Page) /\ Len(pages) = Len(r.pages) + 1
      /\ \A k \in 1..Len(r.pages) : pages[k] = r.pages[k]
      /\ pages[Len(r.pages) + 1] = page
  BY <1>3, <1>4
<1>6. hits' = [of |-> r.of, lastPageFull |-> full, pages |-> pages]
  BY DEF AnswerPage
<1>7. hits' \in Hits /\ hits'.of = r.of /\ hits'.pages = pages
  BY <1>3, <1>5, <1>6 DEF Hits
<1>8. hits' # NoHits
  BY <1>7, NothingAssumption
<1>9. TypeOK'
  <2>1. loadingMore' \in BOOLEAN
    BY <1>1
  <2> QED BY <1>1, <1>2, <1>7, <2>1 DEF TypeOK, view, chart, setup
<1>10. PagesInv'
  <2>1. Len(pages) <= MaxPages
    BY <1>2, <1>3, <1>5, SearchStoreAssumption
  <2> SUFFICES ASSUME NEW k \in 1..Len(pages) PROVE pages[k] = [of |-> r.of, at |-> k - 1]
    BY <1>7, <2>1 DEF PagesInv
  <2>2. CASE k \in 1..Len(r.pages)
    BY <1>2, <1>5, <2>2 DEF PagesInv
  <2>3. CASE k = Len(r.pages) + 1
    <3>1. k - 1 = Len(r.pages)
      BY <1>3, <2>3
    <3> QED BY <1>5, <2>3, <3>1
  <2> QED BY <1>3, <1>5, <2>2, <2>3
<1>11. HitsInv'
  BY <1>1, <1>2, <1>7, <1>8 DEF HitsInv, Current, view, chart
<1> QED BY <1>2, <1>9, <1>10, <1>11

LEMMA FailPage_Inv == ASSUME StoreInv, NEW r, FailPage(r) PROVE StoreInv'
<1> USE DEF StoreInv
<1>1. /\ Answered(r, "page") /\ loadingMore' = FALSE
      /\ UNCHANGED <<view, hits, hitsStatus, hitsError, searchRun, chart, setup, expanded>>
  BY DEF FailPage, search
<1>2. /\ ClockInv' /\ OneOut' /\ SearchInv' /\ PageInv' /\ HistogramInv' /\ ConfigInv'
      /\ BusyIffInFlight'
      /\ requests' \subseteq Request
  BY <1>1, PageAnswered
<1>3. TypeOK'
  <2>1. loadingMore' \in BOOLEAN
    BY <1>1
  <2> QED BY <1>1, <1>2, <2>1 DEF TypeOK, view, chart, setup
<1>4. PagesInv' /\ HitsInv'
  BY <1>1 DEF PagesInv, HitsInv, Current, view, chart
<1> QED BY <1>2, <1>3, <1>4

\* An answer about the chart or the config leaves the rows and their requests.
LEMMA RowsStay ==
    ASSUME StoreInv, UNCHANGED <<view, search, loadingMore>>,
           OutOf("search")' = OutOf("search"), OutOf("page")' = OutOf("page")
    PROVE  /\ SearchInv' /\ PageInv' /\ PagesInv'
           /\ \A q, r \in OutOf("search")' : q = r
           /\ \A q, r \in OutOf("page")' : q = r
           /\ index # NoIndex => /\ hitsStatus' # "idle" <=> OutOf("search")' # {}
                                 /\ loadingMore' <=> OutOf("page")' # {}
<1> USE DEF StoreInv, view, search
<1>1. SearchInv' /\ PageInv' /\ PagesInv'
  BY DEF SearchInv, PageInv, PagesInv, Current
<1>2. (\A q, r \in OutOf("search")' : q = r) /\ (\A q, r \in OutOf("page")' : q = r)
  BY DEF OneOut
<1>3. index # NoIndex => /\ hitsStatus' # "idle" <=> OutOf("search")' # {}
                         /\ loadingMore' <=> OutOf("page")' # {}
  BY Busy
<1> QED BY <1>1, <1>2, <1>3

\* ... and one of the histogram is the last that is out.
LEMMA HistogramAnswered ==
    ASSUME StoreInv, NEW r, Answered(r, "histogram"), histogramStatus' = "idle",
           UNCHANGED <<view, search, loadingMore, setup, expanded>>
    PROVE  /\ ClockInv' /\ OneOut' /\ SearchInv' /\ PageInv' /\ HistogramInv' /\ ConfigInv'
           /\ PagesInv' /\ BusyIffInFlight'
           /\ requests' \subseteq Request
           /\ r \in Request /\ r.of.input = input
<1> USE DEF StoreInv
<1>1. UNCHANGED <<view, searchRun, configRun>>
  BY DEF search, setup
<1>2. /\ r \in Request /\ r \in OutOf("histogram") /\ index # NoIndex
      /\ requests' \subseteq Request /\ ClockInv'
      /\ OutOf("histogram")' = OutOf("histogram") \ {r}
      /\ OutOf("search")' = OutOf("search") /\ OutOf("page")' = OutOf("page")
      /\ OutOf("config")' = OutOf("config")
  BY <1>1, AnsweredOnce
<1>3. OutOf("histogram")' = {}
  BY <1>2 DEF OneOut
<1>4. /\ SearchInv' /\ PageInv' /\ PagesInv'
      /\ \A p, q \in OutOf("search")' : p = q
      /\ \A p, q \in OutOf("page")' : p = q
      /\ hitsStatus' # "idle" <=> OutOf("search")' # {}
      /\ loadingMore' <=> OutOf("page")' # {}
  BY <1>2, RowsStay
<1>5. OneOut'
  BY <1>3, <1>4 DEF OneOut
<1>6. HistogramInv'
  BY <1>3 DEF HistogramInv
<1>7. ConfigInv'
  BY <1>2 DEF ConfigInv, view, setup
<1>8. BusyIffInFlight'
  BY <1>3, <1>4 DEF BusyIffInFlight, OutOf
<1>9. r.of.input = input
  BY <1>2 DEF HistogramInv
<1> QED BY <1>2, <1>4, <1>5, <1>6, <1>7, <1>8, <1>9

LEMMA AnswerHistogram_Inv ==
    ASSUME StoreInv, NEW r, NEW total \in Totals, AnswerHistogram(r, total)
    PROVE  StoreInv'
<1> USE DEF StoreInv
<1>1. /\ Answered(r, "histogram") /\ histogramStatus' = "idle" /\ histogramError' = FALSE
      /\ histogram' = [input |-> r.of.input, total |-> total]
      /\ UNCHANGED <<view, search, loadingMore, setup, expanded>>
  BY DEF AnswerHistogram
<1>2. /\ ClockInv' /\ OneOut' /\ SearchInv' /\ PageInv' /\ HistogramInv' /\ ConfigInv'
      /\ PagesInv' /\ BusyIffInFlight'
      /\ requests' \subseteq Request
      /\ r \in Request /\ r.of.input = input
  BY <1>1, HistogramAnswered
<1>3. total \in Nat /\ input \in Nat
  BY SearchStoreAssumption DEF TypeOK
<1>4. histogram' \in Histogram /\ histogram'.input = input
  BY <1>1, <1>2, <1>3 DEF Histogram
<1>5. histogram' # NoHistogram
  BY <1>4, NothingAssumption
<1>6. TypeOK'
  <2>1. histogramStatus' \in Status /\ histogramError' \in BOOLEAN
    BY <1>1 DEF Status
  <2> QED BY <1>1, <1>2, <1>4, <2>1 DEF TypeOK, view, search, setup
<1>7. HitsInv'
  BY <1>1, <1>4, <1>5 DEF HitsInv, Current, view, search
<1> QED BY <1>2, <1>6, <1>7

LEMMA FailHistogram_Inv == ASSUME StoreInv, NEW r, FailHistogram(r) PROVE StoreInv'
<1> USE DEF StoreInv
<1>1. /\ Answered(r, "histogram") /\ histogramStatus' = "idle" /\ histogramError' = TRUE
      /\ histogram' \in {histogram, NoHistogram}
      /\ UNCHANGED <<view, search, loadingMore, setup, expanded>>
  BY DEF FailHistogram
<1>2. /\ ClockInv' /\ OneOut' /\ SearchInv' /\ PageInv' /\ HistogramInv' /\ ConfigInv'
      /\ PagesInv' /\ BusyIffInFlight'
      /\ requests' \subseteq Request
  BY <1>1, HistogramAnswered
<1>3. TypeOK'
  <2>1. histogramStatus' \in Status /\ histogramError' \in BOOLEAN
    BY <1>1 DEF Status
  <2>2. histogram' \in Histogram \cup {NoHistogram}
    BY <1>1 DEF TypeOK
  <2> QED BY <1>1, <1>2, <2>1, <2>2 DEF TypeOK, view, search, setup
<1>4. HitsInv'
  BY <1>1 DEF HitsInv, Current, view, search
<1> QED BY <1>2, <1>3, <1>4

LEMMA Config_Inv ==
    ASSUME StoreInv, NEW r, AnswerConfig(r) \/ FailConfig(r)
    PROVE  StoreInv'
<1> USE DEF StoreInv
<1>1. /\ Answered(r, "config")
      /\ UNCHANGED <<view, search, loadingMore, chart, configRun, expanded>>
  BY DEF AnswerConfig, FailConfig
<1>2. UNCHANGED searchRun
  BY <1>1 DEF search
<1>3. /\ r \in Request /\ r \in OutOf("config") /\ index \in Indexes
      /\ requests' \subseteq Request /\ ClockInv'
      /\ OutOf("config")' = OutOf("config") \ {r}
      /\ OutOf("search")' = OutOf("search") /\ OutOf("page")' = OutOf("page")
      /\ OutOf("histogram")' = OutOf("histogram")
  BY <1>1, <1>2, AnsweredOnce
<1>4. r.of.index = index
  BY <1>3 DEF ConfigInv
<1>5. config' \in {config, index} /\ configError' \in BOOLEAN
  BY <1>4 DEF AnswerConfig, FailConfig, TypeOK
<1>6. TypeOK'
  <2>1. config' \in Indexes \cup {NoIndex}
    BY <1>3, <1>5 DEF TypeOK
  <2> QED BY <1>1, <1>3, <1>5, <2>1 DEF TypeOK, view, search, chart
<1>7. /\ SearchInv' /\ PageInv' /\ PagesInv'
      /\ \A p, q \in OutOf("search")' : p = q
      /\ \A p, q \in OutOf("page")' : p = q
      /\ index # NoIndex => /\ hitsStatus' # "idle" <=> OutOf("search")' # {}
                            /\ loadingMore' <=> OutOf("page")' # {}
  BY <1>1, <1>3, RowsStay
<1>8. index # NoIndex => (histogramStatus' # "idle" <=> OutOf("histogram")' # {})
  BY <1>1, <1>3, Busy DEF chart
<1>9. OneOut'
  BY <1>3, <1>7 DEF OneOut
<1>10. HistogramInv'
  BY <1>1, <1>3 DEF HistogramInv, view
<1>11. ConfigInv'
  BY <1>1, <1>3, <1>5 DEF ConfigInv, view
<1>12. HitsInv'
  BY <1>1 DEF HitsInv, Current, view, search, chart
<1>13. BusyIffInFlight'
  BY <1>1, <1>7, <1>8 DEF BusyIffInFlight, OutOf, view
<1> QED BY <1>3, <1>6, <1>7, <1>9, <1>10, <1>11, <1>12, <1>13

\* An answer that is not looked at was not waited for.
LEMMA Ignore_Inv == ASSUME StoreInv, NEW r, Ignore(r) PROVE StoreInv'
<1> USE DEF StoreInv
<1>1. /\ r \in requests /\ ~Live(r) /\ requests' = requests \ {r}
      /\ UNCHANGED <<view, search, loadingMore, chart, setup, expanded>>
  BY DEF Ignore
<1>2. \A kind : OutOf(kind)' = OutOf(kind)
  <2>1. \A kind : OutOf(kind)' = OutOf(kind) \ {r}
    BY <1>1, Removed DEF view, search, setup
  <2>2. \A kind : r \notin OutOf(kind)
    BY <1>1 DEF OutOf
  <2> QED BY <2>1, <2>2
<1>3. /\ OutOf("search")' = OutOf("search") /\ OutOf("page")' = OutOf("page")
      /\ OutOf("histogram")' = OutOf("histogram") /\ OutOf("config")' = OutOf("config")
  BY <1>2
<1>4. TypeOK' /\ ClockInv' /\ HitsInv'
  <2>1. TypeOK'
    BY <1>1 DEF TypeOK, view, search, chart, setup
  <2>2. ClockInv'
    BY <1>1 DEF ClockInv, view, search, setup
  <2>3. HitsInv'
    BY <1>1 DEF HitsInv, Current, view, search, chart
  <2> QED BY <2>1, <2>2, <2>3
<1>5. /\ SearchInv' /\ PageInv' /\ PagesInv'
      /\ \A p, q \in OutOf("search")' : p = q
      /\ \A p, q \in OutOf("page")' : p = q
      /\ index # NoIndex => /\ hitsStatus' # "idle" <=> OutOf("search")' # {}
                            /\ loadingMore' <=> OutOf("page")' # {}
  BY <1>1, <1>3, RowsStay
<1>6. /\ HistogramInv' /\ ConfigInv'
      /\ \A p, q \in OutOf("histogram")' : p = q
      /\ index # NoIndex => (histogramStatus' # "idle" <=> OutOf("histogram")' # {})
  BY <1>1, <1>3, RestStays
<1>7. OneOut'
  BY <1>5, <1>6 DEF OneOut
<1>8. BusyIffInFlight'
  BY <1>1, <1>5, <1>6 DEF BusyIffInFlight, OutOf, view
<1> QED BY <1>4, <1>5, <1>6, <1>7, <1>8

-----------------------------------------------------------------------------

LEMMA Next_Inv == StoreInv /\ [Next]_vars => StoreInv'
<1> SUFFICES ASSUME StoreInv, [Next]_vars PROVE StoreInv'
  OBVIOUS
<1>1. ASSUME NEW x \in Indexes \cup {NoIndex}, NEW s \in Sorts, Navigate(x, s) PROVE StoreInv'
  BY <1>1, NavigateAway_Inv, Navigate_Inv
<1>2. ASSUME NEW s \in Sorts, ToggleSort(s) PROVE StoreInv'
  BY <1>2, ToggleSort_Inv
<1>3. CASE Tick
  BY <1>3, Tick_Inv
<1>4. ASSUME NEW open \in BOOLEAN, ToggleFold(open) PROVE StoreInv'
  BY <1>4, Quiet_Inv DEF ToggleFold
<1>5. CASE SetFoldEnabled
  BY <1>5, Quiet_Inv DEF SetFoldEnabled
<1>6. CASE MaybeLoadMore
  BY <1>6, MaybeLoadMore_Inv
<1>7. ASSUME NEW r \in requests, NEW full \in BOOLEAN, AnswerSearch(r, full) \/ AnswerPage(r, full)
      PROVE  StoreInv'
  BY <1>7, AnswerSearch_Inv, AnswerPage_Inv
<1>8. ASSUME NEW r \in requests, FailSearch(r) \/ FailPage(r) PROVE StoreInv'
  BY <1>8, FailSearch_Inv, FailPage_Inv
<1>9. ASSUME NEW r \in requests, NEW total \in Totals, AnswerHistogram(r, total) PROVE StoreInv'
  BY <1>9, AnswerHistogram_Inv
<1>10. ASSUME NEW r \in requests, FailHistogram(r) PROVE StoreInv'
  BY <1>10, FailHistogram_Inv
<1>11. ASSUME NEW r \in requests, AnswerConfig(r) \/ FailConfig(r) PROVE StoreInv'
  BY <1>11, Config_Inv
<1>12. ASSUME NEW r \in requests, Ignore(r) PROVE StoreInv'
  BY <1>12, Ignore_Inv
<1>13. CASE UNCHANGED vars
  <2>1. expanded' \in BOOLEAN
    BY <1>13 DEF StoreInv, TypeOK, vars
  <2> QED BY <1>13, <2>1, Quiet_Inv DEF vars
<1> QED BY <1>1, <1>2, <1>3, <1>4, <1>5, <1>6, <1>7, <1>8, <1>9, <1>10, <1>11, <1>12, <1>13 DEF Next

\* StoreInv is an invariant of the specification.
THEOREM StoreInvariant == Spec => []StoreInv
<1> QED BY Init_Inv, Next_Inv, PTL DEF Spec

-----------------------------------------------------------------------------
(* What follows from it *)

\* Every reachable state is well typed.
THEOREM TypeCorrect == Spec => []TypeOK
<1>1. StoreInv => TypeOK
  BY DEF StoreInv
<1> QED BY <1>1, StoreInvariant, PTL

\* The rows and the histogram of a settled search are those of the view in the
\* URL, whatever was asked, aborted and answered late before.
THEOREM SettledAreCurrent == Spec => []SettledIsCurrent
<1>1. StoreInv => SettledIsCurrent
  BY DEF StoreInv, SettledIsCurrent, PagesInv, HitsInv, Current
<1> QED BY <1>1, StoreInvariant, PTL

\* No status is busy without a request that will clear it.
THEOREM BusyInFlight == Spec => []BusyIffInFlight
<1>1. StoreInv => BusyIffInFlight
  BY DEF StoreInv
<1> QED BY <1>1, StoreInvariant, PTL

\* The rows on screen are read with the config of their own index.
THEOREM RowsHaveTheirConfig == Spec => []RowsMatchConfig
<1>1. StoreInv => RowsMatchConfig
  BY DEF StoreInv, RowsMatchConfig, Shown, HitsInv, ConfigInv
<1> QED BY <1>1, StoreInvariant, PTL

\* What is on screen belongs to the URL and to the config it is read with.
THEOREM ShownAreCurrent == Spec => []ShownIsCurrent
<1> QED BY SettledAreCurrent, RowsHaveTheirConfig, PTL DEF ShownIsCurrent

=============================================================================
