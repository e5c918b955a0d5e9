------------------------ MODULE ContextLoaderProofs ------------------------
(***************************************************************************)
(* Proofs about the loader of the context pane.  The invariant, CtxInv,    *)
(* follows each side by the first second of its next window (Edge):        *)
(*                                                                         *)
(*   CtxLoadsInv  a load that counts is for the window its side stands at; *)
(*   EntriesInv   the list has a row once, newest first, and only matches; *)
(*   ReachInv     what was there and lies short of the window is listed,   *)
(*                and of its first second as many rows as the offset says; *)
(*                the empty windows lie between the list and the window;   *)
(*   NoGapInv     what was there and is ahead of a listed row is listed;   *)
(*   EndInv       the offset is no more than the second has, and the end   *)
(*                of a side is reached by MAX_EMPTY_SLIDES empty windows.  *)
(*                                                                         *)
(* A page is cut out of the answer by rank, the number of rows ahead of a  *)
(* row, so that what a page holds follows from counting.                   *)
(***************************************************************************)
EXTENDS ContextLoader, FiniteSetTheorems, SequenceTheorems, TLAPS

-----------------------------------------------------------------------------
(* Rows, ranks and lists *)

\* Seconds as they lie from the anchor in a direction.
Out(d, t) == IF d = "before" THEN -t ELSE t

LEMMA SignIsOut == ASSUME NEW d \in Dirs, NEW t \in Int PROVE SIGN[d] * t = Out(d, t)
<1>1. CASE d = "before"
  BY <1>1 DEF SIGN, Out
<1>2. CASE d = "after"
  BY <1>2 DEF SIGN, Out
<1> QED BY <1>1, <1>2 DEF Dirs

\* The order of an answer is a strict total order of the logs.
LEMMA AheadIsOrder ==
    ASSUME NEW d \in Dirs, NEW q \in LogRows, NEW r \in LogRows
    PROVE  /\ q.ts \in Int /\ r.ts \in Int
           /\ Ahead(d, q, r) => q # r /\ Out(d, q.ts) <= Out(d, r.ts)
           /\ Out(d, q.ts) < Out(d, r.ts) => Ahead(d, q, r)
           /\ Ahead(d, q, r) => ~Ahead(d, r, q)
           /\ q # r => Ahead(d, q, r) \/ Ahead(d, r, q)
           /\ \A s \in LogRows : Ahead(d, q, r) /\ Ahead(d, r, s) => Ahead(d, q, s)
<1>1. \A s \in LogRows : s.ts \in Int /\ s.n \in Int
  BY ContextAssumption
<1>2. q.ts = r.ts /\ q.n = r.n => q = r
  BY ContextAssumption
<1>3. CASE d = "before"
  BY <1>1, <1>2, <1>3 DEF Ahead, Out, Later, Earlier
<1>4. CASE d = "after"
  BY <1>1, <1>2, <1>4 DEF Ahead, Out, Later, Earlier
<1> QED BY <1>3, <1>4 DEF Dirs

\* How many come before a row: fewer for a row that is ahead, and no fewer among more.
LEMMA RankGrows ==
    ASSUME NEW d \in Dirs, NEW S \in SUBSET LogRows, IsFiniteSet(S), NEW T \in SUBSET S,
           NEW r \in LogRows
    PROVE  Rank(d, r, S) \in Nat /\ Rank(d, r, T) \in Nat /\ Rank(d, r, T) <= Rank(d, r, S)
<1> DEFINE K == {q \in S : Ahead(d, q, r)}
           J == {q \in T : Ahead(d, q, r)}
<1>1. J \in SUBSET K /\ K \in SUBSET S
  OBVIOUS
<1>2. IsFiniteSet(K) /\ IsFiniteSet(J) /\ Cardinality(J) <= Cardinality(K)
  BY <1>1, FS_Subset
<1> QED BY <1>2, FS_CardinalityType DEF Rank

LEMMA RankOrders ==
    ASSUME NEW d \in Dirs, NEW S \in SUBSET LogRows, IsFiniteSet(S),
           NEW q \in S, NEW r \in LogRows, Ahead(d, q, r)
    PROVE  Rank(d, q, S) < Rank(d, r, S)
<1> DEFINE K == {s \in S : Ahead(d, s, q)}
           J == {s \in S : Ahead(d, s, r)}
<1>1. K \in SUBSET J
  BY AheadIsOrder
<1>2. q \in J /\ q \notin K
  BY AheadIsOrder
<1>3. J \in SUBSET S
  OBVIOUS
<1>4. IsFiniteSet(J) /\ IsFiniteSet(K)
  BY <1>1, <1>3, FS_Subset
<1>5. Cardinality(K) <= Cardinality(J) /\ Cardinality(K) # Cardinality(J)
  BY <1>1, <1>2, <1>4, FS_Subset
<1> QED BY <1>4, <1>5, FS_CardinalityType DEF Rank

\* The ranks of a finite set of rows are the numbers below its size, one each.
LEMMA RanksAreApart ==
    ASSUME NEW d \in Dirs, NEW S \in SUBSET LogRows, IsFiniteSet(S)
    PROVE  /\ Cardinality(S) \in Nat
           /\ \A r \in S : Rank(d, r, S) \in 0..(Cardinality(S) - 1)
           /\ \A q, r \in S : Rank(d, q, S) = Rank(d, r, S) => q = r
           /\ \A i \in 0..(Cardinality(S) - 1) : \E r \in S : Rank(d, r, S) = i
<1> DEFINE n == Cardinality(S)
           rank == [r \in S |-> Rank(d, r, S)]
<1>1. n \in Nat
  BY FS_CardinalityType
<1>2. \A r \in S : Rank(d, r, S) \in 0..(n - 1)
  <2> SUFFICES ASSUME NEW r \in S PROVE Rank(d, r, S) \in 0..(n - 1)
    OBVIOUS
  <2>1. {q \in S : Ahead(d, q, r)} \in SUBSET S /\ r \notin {q \in S : Ahead(d, q, r)}
    BY AheadIsOrder
  <2>2. Rank(d, r, S) <= n /\ Rank(d, r, S) # n /\ Rank(d, r, S) \in Nat
    BY <2>1, FS_Subset, FS_CardinalityType DEF Rank
  <2> QED BY <1>1, <2>2
<1>3. \A q, r \in S : Rank(d, q, S) = Rank(d, r, S) => q = r
  <2> SUFFICES ASSUME NEW q \in S, NEW r \in S, Rank(d, q, S) = Rank(d, r, S), q # r PROVE FALSE
    OBVIOUS
  <2>1. Rank(d, q, S) \in Nat /\ Rank(d, r, S) \in Nat
    BY RankGrows
  <2>2. CASE Ahead(d, q, r)
    BY <2>1, <2>2, RankOrders
  <2>3. CASE Ahead(d, r, q)
    BY <2>1, <2>3, RankOrders
  <2> QED BY <2>2, <2>3, AheadIsOrder
<1>4. rank \in Injection(S, 0..(n - 1))
  BY <1>2, <1>3 DEF Injection, IsInjective
<1>5. IsFiniteSet(0..(n - 1)) /\ Cardinality(0..(n - 1)) = n
  <2>1. 0 \in Int /\ n - 1 \in Int /\ (IF 0 > n - 1 THEN 0 ELSE n - 1 - 0 + 1) = n
    BY <1>1
  <2> HIDE DEF n
  <2> QED BY <2>1, FS_Interval
<1>6. rank \in Surjection(S, 0..(n - 1))
  BY <1>4, <1>5, FS_Injection
<1>7. \A i \in 0..(n - 1) : \E r \in S : Rank(d, r, S) = i
  BY <1>6 DEF Surjection
<1> QED BY <1>1, <1>2, <1>3, <1>7

IsList(sq) ==
    /\ \A a, b \in DOMAIN sq : sq[a] = sq[b] => a = b
    /\ \A a, b \in DOMAIN sq : a < b => sq[a].ts >= sq[b].ts

\* Rows as the list shows them: each of them once, the newest first.
LEMMA NewestLists ==
    ASSUME NEW S \in SUBSET LogRows, IsFiniteSet(S)
    PROVE  /\ AsListed(S) \in Seq(S)
           /\ ToSet(AsListed(S)) = S
           /\ IsList(AsListed(S))
<1> DEFINE n == Cardinality(S)
<1>0. "before" \in Dirs
  BY DEF Dirs
<1>1. n \in Nat
  BY FS_CardinalityType
<1>2. \A i \in 1..n : \E r \in S : Rank("before", r, S) = i - 1
  <2> SUFFICES ASSUME NEW i \in 1..n PROVE \E r \in S : Rank("before", r, S) = i - 1
    OBVIOUS
  <2>1. i - 1 \in 0..(n - 1)
    BY <1>1
  <2> QED BY <1>0, <2>1, RanksAreApart
<1>3. \A i \in 1..n : AsListed(S)[i] \in S /\ Rank("before", AsListed(S)[i], S) = i - 1
  BY <1>2 DEF AsListed
<1>4. DOMAIN AsListed(S) = 1..n
  BY DEF AsListed
<1>5. AsListed(S) \in Seq(S)
  <2>1. AsListed(S) \in [1..n -> S]
    BY <1>3 DEF AsListed
  <2> QED BY <1>1, <2>1, SeqDef
<1>6. \A r \in S : \E i \in 1..n : AsListed(S)[i] = r
  <2> SUFFICES ASSUME NEW r \in S PROVE \E i \in 1..n : AsListed(S)[i] = r
    OBVIOUS
  <2> DEFINE k == Rank("before", r, S)
  <2>1. k \in 0..(n - 1)
    BY <1>0, RanksAreApart
  <2>2. k + 1 \in 1..n
    BY <1>1, <2>1
  <2>3. AsListed(S)[k + 1] \in S /\ Rank("before", AsListed(S)[k + 1], S) = k
    <3> HIDE DEF k
    <3> QED BY <1>3, <2>1, <2>2
  <2>4. AsListed(S)[k + 1] = r
    BY <1>0, <2>3, RanksAreApart
  <2> QED BY <2>2, <2>4
<1>7. ToSet(AsListed(S)) = S
  BY <1>3, <1>4, <1>6 DEF ToSet
<1>8. \A a, b \in 1..n : AsListed(S)[a] = AsListed(S)[b] => a = b
  BY <1>1, <1>3
<1>9. \A a, b \in 1..n : a < b => AsListed(S)[a].ts >= AsListed(S)[b].ts
  <2> SUFFICES ASSUME NEW a \in 1..n, NEW b \in 1..n, a < b,
                      AsListed(S)[a].ts < AsListed(S)[b].ts
               PROVE  FALSE
    <3>1. \A i \in 1..n : AsListed(S)[i].ts \in Int
      BY <1>0, <1>3, AheadIsOrder
    <3> QED BY <3>1
  <2>1. AsListed(S)[a] \in S /\ AsListed(S)[b] \in S
    BY <1>3
  <2>2. AsListed(S)[a].ts \in Int /\ AsListed(S)[b].ts \in Int
    BY <1>0, <2>1, AheadIsOrder
  <2>3. Ahead("before", AsListed(S)[b], AsListed(S)[a])
    BY <2>2 DEF Ahead, Later, Earlier
  <2>4. Rank("before", AsListed(S)[b], S) < Rank("before", AsListed(S)[a], S)
    BY <1>0, <2>1, <2>3, RankOrders
  <2> QED BY <1>1, <1>3, <2>4
<1> QED BY <1>4, <1>5, <1>7, <1>8, <1>9 DEF IsList

\* One page of what is found: no more than its size, and all the rest when it is short.
LEMMA PageOfRanks ==
    ASSUME NEW d \in Dirs, NEW S \in SUBSET LogRows, IsFiniteSet(S), NEW o \in Nat,
           NEW p \in Nat \ {0}
    PROVE  LET page == {r \in S : Rank(d, r, S) \in o..(o + p - 1)}
           IN  /\ IsFiniteSet(page) /\ Cardinality(page) \in Nat
               /\ Cardinality(page) <= p
               /\ Cardinality(page) < p => \A r \in S : Rank(d, r, S) < o + p
<1> DEFINE page == {r \in S : Rank(d, r, S) \in o..(o + p - 1)}
           rank == [r \in page |-> Rank(d, r, S)]
<1>1. page \in SUBSET S
  OBVIOUS
<1>2. IsFiniteSet(page) /\ Cardinality(page) \in Nat
  BY <1>1, FS_Subset, FS_CardinalityType
<1>3. IsFiniteSet(o..(o + p - 1)) /\ Cardinality(o..(o + p - 1)) = p
  <2>1. o \in Int /\ o + p - 1 \in Int /\ (IF o > o + p - 1 THEN 0 ELSE o + p - 1 - o + 1) = p
    OBVIOUS
  <2> QED BY <2>1, FS_Interval
<1>4. rank \in Injection(page, o..(o + p - 1))
  <2>1. rank \in [page -> o..(o + p - 1)]
    OBVIOUS
  <2>2. \A q, r \in page : rank[q] = rank[r] => q = r
    BY RanksAreApart
  <2> QED BY <2>1, <2>2 DEF Injection, IsInjective
<1>5. Cardinality(page) <= p
  <2> HIDE DEF page, rank
  <2> QED BY <1>3, <1>4, FS_Injection
<1>6. ASSUME NEW r \in S, ~(Rank(d, r, S) < o + p) PROVE ~(Cardinality(page) < p)
  <2>1. \A i \in o..(o + p - 1) : i \in 0..(Cardinality(S) - 1)
    BY <1>6, RanksAreApart
  <2>2. \A i \in o..(o + p - 1) : \E q \in page : rank[q] = i
    BY <2>1, RanksAreApart
  <2>3. rank \in [page -> o..(o + p - 1)]
    OBVIOUS
  <2>4. rank \in Surjection(page, o..(o + p - 1))
    BY <2>2, <2>3 DEF Surjection
  <2>5. p <= Cardinality(page)
    <3> HIDE DEF page, rank
    <3> QED BY <1>2, <1>3, <2>4, FS_Surjection
  <2> QED BY <1>2, <2>5
<1> QED BY <1>2, <1>5, <1>6

-----------------------------------------------------------------------------

Matching == Matches(stored, chips)
WasThere == Matches(known, chips)
OfSecond(t) == {q \in Matching : q.ts = t}

\* The first second of the next window, and that of the first window.
Edge(d) == IF d = "before" THEN win[d].bound - 1 ELSE win[d].bound
FirstEdge(d) == IF d = "before" THEN anchor.ts - 1 ELSE anchor.ts

\* A load that counts is for the window where its side stands.
CtxLoadsInv ==
    /\ \A l \in loads : l.seq <= fetchSeq
    /\ \A l \in loads : l.seq = fetchSeq =>
          /\ l.chips = chips /\ l.bound = win[l.dir].bound /\ l.offset = win[l.dir].offset
          /\ side[l.dir].loading /\ ~side[l.dir].noMore /\ ~side[l.dir].limited
    /\ \A d \in Dirs : side[d].loading => \E l \in loads : l.dir = d /\ l.seq = fetchSeq

ClosedInv ==
    anchor = NoRow =>
        /\ loads = {} /\ entries = <<>> /\ known = {} /\ stored = {}
        /\ \A d \in Dirs : side[d] = createDirectionState

EntriesInv ==
    /\ IsFiniteSet(stored)
    /\ IsList(entries)
    /\ Listed \subseteq Matching
    /\ anchor # NoRow => anchor \in Listed /\ anchor.same

\* How far a side has come.  What was there and lies short of the window is listed,
\* and of its first second as many as the offset says; what is listed lies no
\* further, and the empty windows since lie between.
ReachInv(d) ==
    ~side[d].limited =>
        /\ \A r \in Listed : Out(d, r.ts) <= Out(d, Edge(d)) - win[d].empty * WINDOW_SECONDS
        /\ \A r \in WasThere : Out(d, FirstEdge(d)) <= Out(d, r.ts) /\ Out(d, r.ts) < Out(d, Edge(d))
                                  => r \in Listed
        /\ \A r \in WasThere : r.ts = Edge(d) /\ Rank(d, r, OfSecond(Edge(d))) < win[d].offset
                                  => r \in Listed

\* What was there and lies short of a listed row is listed.
NoGapInv(d) ==
    \A j \in Listed \ {anchor}, r \in WasThere :
        Ahead(d, r, j) /\ Out(d, FirstEdge(d)) <= Out(d, r.ts) => r \in Listed

EndInv(d) ==
    /\ Out(d, FirstEdge(d)) <= Out(d, Edge(d))
    /\ win[d].offset <= Cardinality(OfSecond(Edge(d)))
    /\ IF side[d].noMore THEN ~side[d].limited /\ win[d].empty = MAX_EMPTY_SLIDES
                         ELSE win[d].empty < MAX_EMPTY_SLIDES
    /\ side[d].limited => \E r \in Listed : Cardinality(OfSecond(r.ts)) > MAX_OFFSET

SidesInv == anchor # NoRow => \A d \in Dirs : ReachInv(d) /\ NoGapInv(d) /\ EndInv(d)

CtxInv ==
    /\ CtxTypeOK
    /\ DOMAIN win = Dirs
    /\ CtxLoadsInv
    /\ ClosedInv
    /\ EntriesInv
    /\ SidesInv

-----------------------------------------------------------------------------

\* What the types say of rows and numbers.
LEMMA CtxNumbers ==
    ASSUME CtxInv
    PROVE  /\ \A r \in LogRows : r.ts \in Int
           /\ Matching \in SUBSET LogRows /\ IsFiniteSet(Matching)
           /\ WasThere \subseteq Matching
           /\ \A t : /\ OfSecond(t) \in SUBSET LogRows /\ IsFiniteSet(OfSecond(t))
                     /\ Cardinality(OfSecond(t)) \in Nat
           /\ Listed \subseteq LogRows
           /\ \A d \in Dirs : /\ win[d].bound \in Int /\ win[d].offset \in Nat
                              /\ win[d].empty \in Nat /\ win[d].empty <= MAX_EMPTY_SLIDES
                              /\ win[d].offset <= MAX_OFFSET
                              /\ Edge(d) \in Int
           /\ anchor # NoRow => anchor \in LogRows /\ \A d \in Dirs : FirstEdge(d) \in Int
           /\ fetchSeq \in Nat
           /\ PAGE_SIZE \in Nat \ {0} /\ WINDOW_SECONDS \in Nat \ {0}
           /\ MAX_EMPTY_SLIDES \in Nat \ {0} /\ MAX_OFFSET \in Nat
<1>1. \A r \in LogRows : r.ts \in Int
  BY ContextAssumption
<1>2. stored \subseteq LogRows /\ IsFiniteSet(stored) /\ known \subseteq stored
  BY DEF CtxInv, CtxTypeOK, EntriesInv
<1>3. Matching \in SUBSET LogRows /\ Matching \in SUBSET stored
  BY <1>2 DEF Matching, Matches
<1>4. IsFiniteSet(Matching)
  BY <1>2, <1>3, FS_Subset
<1>5. WasThere \subseteq Matching
  BY <1>2 DEF WasThere, Matching, Matches
<1>6. ASSUME NEW t
      PROVE  /\ OfSecond(t) \in SUBSET LogRows /\ IsFiniteSet(OfSecond(t))
             /\ Cardinality(OfSecond(t)) \in Nat
  <2>1. OfSecond(t) \in SUBSET Matching
    BY DEF OfSecond
  <2> QED BY <1>3, <1>4, <2>1, FS_Subset, FS_CardinalityType
<1>7. Listed \subseteq LogRows
  BY <1>3 DEF CtxInv, EntriesInv
<1>8. \A d \in Dirs : win[d] \in Win /\ win[d].empty <= MAX_EMPTY_SLIDES /\ win[d].offset <= MAX_OFFSET
  BY DEF CtxInv, CtxTypeOK
<1>9. \A d \in Dirs : /\ win[d].bound \in Int /\ win[d].offset \in Nat /\ win[d].empty \in Nat
                      /\ Edge(d) \in Int
  BY <1>8 DEF Win, Edge
<1>10. anchor # NoRow => anchor \in LogRows /\ \A d \in Dirs : FirstEdge(d) \in Int
  BY <1>1 DEF CtxInv, CtxTypeOK, FirstEdge
<1>11. fetchSeq \in Nat
  BY DEF CtxInv, CtxTypeOK
<1> QED BY <1>1, <1>3, <1>4, <1>5, <1>6, <1>7, <1>8, <1>9, <1>10, <1>11, ContextAssumption

LEMMA CtxInit_Inv == CtxInit => CtxInv
<1> SUFFICES ASSUME CtxInit PROVE CtxInv
  OBVIOUS
<1>1. CtxTypeOK
  <2>1. {dated, chips, loadingInitial} \subseteq BOOLEAN
    BY DEF CtxInit
  <2>2. \A d \in Dirs : win[d] = [bound |-> 0, offset |-> 0, empty |-> 0]
    BY DEF CtxInit
  <2>3. \A d \in Dirs : win[d] \in Win /\ win[d].offset <= MAX_OFFSET
                          /\ win[d].empty <= MAX_EMPTY_SLIDES
    BY <2>2, ContextAssumption DEF Win
  <2>4. side \in [Dirs -> Side]
    BY DEF CtxInit, Side, createDirectionState
  <2> QED BY <2>1, <2>3, <2>4 DEF CtxInit, CtxTypeOK
<1>2. CtxLoadsInv /\ ClosedInv
  BY DEF CtxInit, CtxLoadsInv, ClosedInv, createDirectionState
<1>3. EntriesInv
  <2>1. Listed = {} /\ IsList(entries)
    BY DEF CtxInit, Listed, ToSet, IsList
  <2> QED BY <2>1, FS_EmptySet DEF CtxInit, EntriesInv
<1>4. DOMAIN win = Dirs /\ SidesInv
  BY DEF CtxInit, SidesInv
<1> QED BY <1>1, <1>2, <1>3, <1>4 DEF CtxInv

\* init leaves the loader at the anchor, whatever it had listed and asked for.
LEMMA Start_Inv ==
    ASSUME CtxInv, NEW logs \in SUBSET LogRows, IsFiniteSet(logs), NEW a \in logs, a.same,
           NEW isDated \in BOOLEAN, NEW chipped \in BOOLEAN,
           Start(a, isDated, chipped, logs), stored' = logs, anchor' = a, dated' \in BOOLEAN
    PROVE  CtxInv'
<1> DEFINE w == [bound |-> a.ts, offset |-> 0, empty |-> 0]
           new == {LoadRequest(d, fetchSeq + 1, chipped, w) : d \in Dirs}
<1>1. /\ fetchSeq' = fetchSeq + 1 /\ chips' = chipped /\ entries' = <<a>>
      /\ win' = [d \in Dirs |-> w] /\ loadingInitial' = isDated
      /\ side' = [d \in Dirs |-> [createDirectionState EXCEPT !.loading = isDated]]
      /\ loads' = IF isDated THEN loads \cup new ELSE loads
      /\ known' = logs
  BY DEF Start
<1>2. /\ a \in LogRows /\ a.ts \in Int /\ a # NoRow /\ fetchSeq \in Nat
      /\ \A r \in LogRows : r.ts \in Int
  BY CtxNumbers, ContextAssumption
<1>3. w.bound = a.ts /\ w.offset = 0 /\ w.empty = 0 /\ w \in Win
  BY <1>2 DEF Win
<1>4. \A d \in Dirs : win'[d] = w
  BY <1>1
<1>5. \A d \in Dirs : /\ side'[d] \in Side /\ side'[d].loading = isDated
                      /\ side'[d].noMore = FALSE /\ side'[d].limited = FALSE
  BY <1>1 DEF createDirectionState, Side
<1>6. \A l \in new : /\ l \in PageLoad /\ l.seq = fetchSeq + 1 /\ l.chips = chipped
                     /\ l.bound = w.bound /\ l.offset = w.offset
  BY <1>2, <1>3 DEF LoadRequest, PageLoad
<1>7. \A d \in Dirs : \E l \in new : l.dir = d
  <2> SUFFICES ASSUME NEW d \in Dirs PROVE \E l \in new : l.dir = d
    OBVIOUS
  <2>1. LoadRequest(d, fetchSeq + 1, chipped, w) \in new
    OBVIOUS
  <2>2. LoadRequest(d, fetchSeq + 1, chipped, w).dir = d
    BY DEF LoadRequest
  <2> QED BY <2>1, <2>2
<1> HIDE DEF w, new
<1>8. CtxTypeOK'
  <2>1. {dated', chips', loadingInitial'} \subseteq BOOLEAN
    BY <1>1
  <2>2. side' \in [Dirs -> Side]
    BY <1>1, <1>5
  <2>3. \A d \in Dirs : win'[d] \in Win /\ win'[d].offset <= MAX_OFFSET
                          /\ win'[d].empty <= MAX_EMPTY_SLIDES
    BY <1>3, <1>4, ContextAssumption
  <2>4. loads' \in SUBSET PageLoad
    BY <1>1, <1>6 DEF CtxInv, CtxTypeOK
  <2>5. entries' \in Seq(LogRows)
    BY <1>1, <1>2
  <2> QED BY <1>1, <1>2, <2>1, <2>2, <2>3, <2>4, <2>5 DEF CtxTypeOK
<1>9. CtxLoadsInv'
  <2>1. \A l \in loads : l.seq \in Nat /\ l.seq <= fetchSeq
    BY DEF CtxInv, CtxLoadsInv, CtxTypeOK, PageLoad
  <2>2. \A l \in loads' : l.seq <= fetchSeq'
    BY <1>1, <1>2, <1>6, <2>1
  <2>3. \A l \in loads' : l.seq = fetchSeq' => l \in new /\ isDated
    BY <1>1, <1>2, <2>1
  <2>4. \A l \in new : l.dir \in Dirs
    BY <1>6 DEF PageLoad
  <2>5. \A d \in Dirs : side'[d].loading => \E l \in loads' : l.dir = d /\ l.seq = fetchSeq'
    BY <1>1, <1>5, <1>6, <1>7
  <2> QED BY <1>1, <1>4, <1>5, <1>6, <2>2, <2>3, <2>4, <2>5 DEF CtxLoadsInv
<1>10. Listed' = {a} /\ a \in Matching'
  <2>1. ToSet(<<a>>) = {a}
    BY DEF ToSet
  <2> QED BY <1>1, <2>1 DEF Listed, Matching, Matches
<1>11. EntriesInv'
  <2>1. IsList(<<a>>)
    BY DEF IsList
  <2> QED BY <1>1, <1>10, <2>1 DEF EntriesInv
<1>12. SidesInv'
  <2> SUFFICES ASSUME NEW d \in Dirs PROVE ReachInv(d)' /\ NoGapInv(d)' /\ EndInv(d)'
    BY DEF SidesInv
  <2>1. win'[d].bound = a.ts /\ win'[d].offset = 0 /\ win'[d].empty = 0 /\ ~side'[d].limited
        /\ ~side'[d].noMore
    BY <1>3, <1>4, <1>5
  <2>2. Edge(d)' = FirstEdge(d)' /\ Out(d, a.ts) <= Out(d, Edge(d)') /\ Edge(d)' \in Int
        /\ Out(d, Edge(d)') \in Int /\ Out(d, a.ts) \in Int
    BY <1>2, <2>1 DEF Edge, FirstEdge, Out
  <2>3. \A r \in WasThere' : r \in LogRows /\ Out(d, r.ts) \in Int
    BY <1>1, <1>2 DEF WasThere, Matches, Out
  <2>4. OfSecond(Edge(d))' \in SUBSET LogRows /\ IsFiniteSet(OfSecond(Edge(d))')
        /\ Cardinality(OfSecond(Edge(d))') \in Nat
    <3>1. OfSecond(Edge(d))' \in SUBSET logs
      BY DEF OfSecond, Matching, Matches
    <3> QED BY <3>1, FS_Subset, FS_CardinalityType
  <2>5. \A r \in WasThere' : Rank(d, r, OfSecond(Edge(d))') \in Nat
    BY <2>3, <2>4, RankGrows
  <2>6. 0 * WINDOW_SECONDS = 0
    BY ContextAssumption
  <2>7. ReachInv(d)'
    BY <1>10, <2>1, <2>2, <2>3, <2>5, <2>6 DEF ReachInv
  <2>8. NoGapInv(d)'
    BY <1>10 DEF NoGapInv
  <2>9. EndInv(d)'
    BY <2>1, <2>2, <2>4, ContextAssumption DEF EndInv
  <2> QED BY <2>7, <2>8, <2>9
<1>13. ClosedInv' /\ DOMAIN win' = Dirs
  BY <1>1, <1>2 DEF ClosedInv
<1> QED BY <1>8, <1>9, <1>11, <1>12, <1>13 DEF CtxInv

LEMMA Open_Inv ==
    ASSUME CtxInv, NEW corpus \in Corpora, NEW isDated \in BOOLEAN, NEW chipped \in BOOLEAN,
           NEW a \in corpus, Open(corpus, a, isDated, chipped)
    PROVE  CtxInv'
<1>1. corpus \in SUBSET LogRows /\ IsFiniteSet(corpus)
  BY ContextAssumption
<1> QED BY <1>1, Start_Inv DEF Open

LEMMA Restart_Inv ==
    ASSUME CtxInv,
           \/ \E k \in DOMAIN entries : Reanchor(entries[k])
           \/ \E chipped \in BOOLEAN : SetChips(chipped)
    PROVE  CtxInv'
<1>1. /\ stored \in SUBSET LogRows /\ IsFiniteSet(stored) /\ Listed \subseteq stored
      /\ {dated, chips} \subseteq BOOLEAN
  BY DEF CtxInv, CtxTypeOK, EntriesInv, Matching, Matches
<1>2. CASE \E k \in DOMAIN entries : Reanchor(entries[k])
  <2>1. PICK k \in DOMAIN entries : Reanchor(entries[k])
    BY <1>2
  <2>2. entries[k] \in stored
    BY <1>1 DEF Listed, ToSet
  <2>3. entries[k].same /\ Start(entries[k], TRUE, chips, stored) /\ stored' = stored
        /\ anchor' = entries[k] /\ dated' = TRUE
    BY <2>1 DEF Reanchor
  <2> QED BY <1>1, <2>2, <2>3, Start_Inv
<1>3. CASE \E chipped \in BOOLEAN : SetChips(chipped)
  <2>1. PICK chipped \in BOOLEAN : SetChips(chipped)
    BY <1>3
  <2>2. anchor \in Listed
    BY <2>1 DEF SetChips, CtxInv, EntriesInv
  <2>3. anchor \in stored /\ anchor.same
    BY <1>1, <2>1, <2>2 DEF SetChips, CtxInv, EntriesInv
  <2> QED BY <1>1, <2>1, <2>3, Start_Inv DEF SetChips
<1> QED BY <1>2, <1>3

-----------------------------------------------------------------------------

\* A step that leaves the rows and the windows, and ends neither side.
LEMMA SidesKept ==
    ASSUME CtxInv, UNCHANGED <<stored, anchor, chips, entries, win, known>>,
           \A d \in Dirs : side'[d].limited = side[d].limited /\ side'[d].noMore = side[d].noMore
    PROVE  EntriesInv' /\ SidesInv'
<1>1. EntriesInv'
  BY DEF CtxInv, EntriesInv, Listed, Matching, Matches
<1>2. /\ Listed' = Listed /\ WasThere' = WasThere /\ \A t : OfSecond(t)' = OfSecond(t)
      /\ \A d : Edge(d)' = Edge(d) /\ FirstEdge(d)' = FirstEdge(d)
  BY DEF Listed, WasThere, OfSecond, Matching, Matches, Edge, FirstEdge
<1>3. ASSUME NEW d \in Dirs, ReachInv(d), NoGapInv(d), EndInv(d)
      PROVE  ReachInv(d)' /\ NoGapInv(d)' /\ EndInv(d)'
  <2>1. OfSecond(Edge(d))' = OfSecond(Edge(d))
    BY <1>2 DEF OfSecond
  <2>2. ReachInv(d)'
    BY <1>2, <1>3, <2>1 DEF ReachInv
  <2>3. NoGapInv(d)'
    BY <1>2, <1>3 DEF NoGapInv
  <2>4. EndInv(d)'
    BY <1>2, <1>3, <2>1 DEF EndInv
  <2> QED BY <2>2, <2>3, <2>4
<1> QED BY <1>1, <1>3 DEF CtxInv, SidesInv

\* What one side has is changed, as EXCEPT does it.
LEMMA SideTries ==
    ASSUME CtxInv, NEW d \in Dirs, NEW x \in BOOLEAN, NEW y \in BOOLEAN,
           side' = [side EXCEPT ![d].loading = x, ![d].error = y]
    PROVE  /\ side' \in [Dirs -> Side]
           /\ \A e \in Dirs : e # d => side'[e] = side[e]
           /\ side'[d].loading = x
           /\ side'[d].limited = side[d].limited /\ side'[d].noMore = side[d].noMore
<1>1. side \in [Dirs -> Side]
  BY DEF CtxInv, CtxTypeOK
<1> QED BY <1>1 DEF Side

LEMMA SideAdvances ==
    ASSUME CtxInv, NEW d \in Dirs, NEW x \in BOOLEAN, NEW y \in BOOLEAN,
           side' = [side EXCEPT ![d].loading = FALSE, ![d].limited = x, ![d].noMore = y]
    PROVE  /\ side' \in [Dirs -> Side]
           /\ \A e \in Dirs : e # d => side'[e] = side[e]
           /\ side'[d].loading = FALSE /\ side'[d].limited = x /\ side'[d].noMore = y
<1>1. side \in [Dirs -> Side]
  BY DEF CtxInv, CtxTypeOK
<1> QED BY <1>1 DEF Side

LEMMA Ingest_Inv == ASSUME CtxInv, NEW r \in LateRows, Ingest(r) PROVE CtxInv'
<1>1. /\ anchor # NoRow /\ stored' = stored \cup {r} /\ r \in LogRows
      /\ UNCHANGED <<anchor, dated, chips, entries, loadingInitial, side, win, fetchSeq, loads,
                     known>>
  BY ContextAssumption DEF Ingest
<1>2. CtxTypeOK' /\ CtxLoadsInv' /\ ClosedInv' /\ DOMAIN win' = Dirs
  BY <1>1 DEF CtxInv, CtxTypeOK, CtxLoadsInv, ClosedInv
<1>3. /\ Listed' = Listed /\ WasThere' = WasThere /\ Matching \subseteq Matching'
      /\ \A d : Edge(d)' = Edge(d) /\ FirstEdge(d)' = FirstEdge(d)
  BY <1>1 DEF Listed, WasThere, Matching, Matches, Edge, FirstEdge
<1>4. IsFiniteSet(stored') /\ stored' \in SUBSET LogRows
  BY <1>1, FS_AddElement DEF CtxInv, EntriesInv, CtxTypeOK
<1>5. ASSUME NEW t
      PROVE  /\ OfSecond(t) \in SUBSET OfSecond(t)' /\ OfSecond(t)' \in SUBSET LogRows
             /\ IsFiniteSet(OfSecond(t)') /\ Cardinality(OfSecond(t)') \in Nat
             /\ Cardinality(OfSecond(t)) <= Cardinality(OfSecond(t)')
  <2>1. OfSecond(t) \in SUBSET OfSecond(t)' /\ OfSecond(t)' \in SUBSET stored'
    BY <1>3 DEF OfSecond, Matching, Matches
  <2> QED BY <1>4, <2>1, FS_Subset, FS_CardinalityType
<1>6. EntriesInv'
  BY <1>1, <1>3, <1>4 DEF CtxInv, EntriesInv
<1>7. SidesInv'
  <2> SUFFICES ASSUME NEW d \in Dirs PROVE ReachInv(d)' /\ NoGapInv(d)' /\ EndInv(d)'
    BY DEF SidesInv
  <2>1. ReachInv(d) /\ NoGapInv(d) /\ EndInv(d)
    BY <1>1 DEF CtxInv, SidesInv
  <2>0. PICK e : e = Edge(d)
    OBVIOUS
  <2>7. OfSecond(Edge(d))' = OfSecond(e)' /\ OfSecond(Edge(d)) = OfSecond(e)
    BY <1>3, <2>0 DEF OfSecond
  <2>2. /\ OfSecond(Edge(d)) \in SUBSET OfSecond(Edge(d))' /\ OfSecond(Edge(d))' \in SUBSET LogRows
        /\ IsFiniteSet(OfSecond(Edge(d))')
        /\ Cardinality(OfSecond(Edge(d))) <= Cardinality(OfSecond(Edge(d))')
        /\ Cardinality(OfSecond(Edge(d))') \in Nat
    BY <1>5, <2>7
  <2>3. ASSUME NEW q \in WasThere, Rank(d, q, OfSecond(Edge(d))') < win[d].offset
        PROVE  Rank(d, q, OfSecond(Edge(d))) < win[d].offset
    <3>1. q \in LogRows
      BY CtxNumbers
    <3>2. /\ Rank(d, q, OfSecond(Edge(d))) <= Rank(d, q, OfSecond(Edge(d))')
          /\ Rank(d, q, OfSecond(Edge(d))) \in Nat /\ Rank(d, q, OfSecond(Edge(d))') \in Nat
      BY <2>2, <3>1, RankGrows
    <3> QED BY <2>3, <3>2, CtxNumbers
  <2>4. ReachInv(d)'
    BY <1>1, <1>3, <2>1, <2>3 DEF ReachInv
  <2>5. NoGapInv(d)'
    BY <1>1, <1>3, <2>1 DEF NoGapInv
  <2>6. EndInv(d)'
    <3>1. win[d].offset <= Cardinality(OfSecond(Edge(d))')
      BY <2>1, <2>2, CtxNumbers DEF EndInv
    <3>2. side[d].limited => \E q \in Listed : Cardinality(OfSecond(q.ts)') > MAX_OFFSET
      <4> SUFFICES ASSUME side[d].limited PROVE \E q \in Listed : Cardinality(OfSecond(q.ts)') > MAX_OFFSET
        OBVIOUS
      <4>1. PICK q \in Listed : Cardinality(OfSecond(q.ts)) > MAX_OFFSET
        BY <2>1 DEF EndInv
      <4>2. Cardinality(OfSecond(q.ts)') > MAX_OFFSET
        BY <1>5, <4>1, CtxNumbers
      <4> QED BY <4>2
    <3> QED BY <1>1, <1>3, <2>1, <3>1, <3>2 DEF EndInv
  <2> QED BY <2>4, <2>5, <2>6
<1> QED BY <1>2, <1>6, <1>7 DEF CtxInv

LEMMA LoadMore_Inv ==
    ASSUME CtxInv, NEW d \in Dirs, NEW retry \in BOOLEAN, LoadMore(d, retry) PROVE CtxInv'
<1> DEFINE new == LoadRequest(d, fetchSeq, chips, win[d])
<1>1. /\ anchor # NoRow /\ ~side[d].loading /\ ~side[d].noMore /\ ~side[d].limited
      /\ side' = [side EXCEPT ![d].loading = TRUE, ![d].error = FALSE]
      /\ loads' = loads \cup {new}
      /\ UNCHANGED <<stored, anchor, dated, chips, entries, loadingInitial, win, fetchSeq, known>>
  BY DEF LoadMore
<1>2. /\ side' \in [Dirs -> Side] /\ side'[d].loading
      /\ \A e \in Dirs : e # d => side'[e] = side[e]
      /\ side'[d].limited = side[d].limited /\ side'[d].noMore = side[d].noMore
  BY <1>1, SideTries
<1>3. /\ new \in PageLoad /\ new.dir = d /\ new.seq = fetchSeq /\ new.chips = chips
      /\ new.bound = win[d].bound /\ new.offset = win[d].offset
  <2>1. chips \in BOOLEAN
    BY DEF CtxInv, CtxTypeOK
  <2> QED BY <2>1, CtxNumbers DEF LoadRequest, PageLoad
<1> HIDE DEF new
<1>4. CtxTypeOK'
  BY <1>1, <1>2, <1>3 DEF CtxInv, CtxTypeOK
<1>5. CtxLoadsInv'
  <2>1. fetchSeq \in Nat /\ \A l \in loads : l.dir \in Dirs
    BY CtxNumbers DEF CtxInv, CtxTypeOK, PageLoad
  <2>2. \A l \in loads' : l.seq <= fetchSeq
    BY <1>1, <1>3, <2>1 DEF CtxInv, CtxLoadsInv
  <2>3. \A l \in loads' : l.seq = fetchSeq =>
          /\ l.chips = chips /\ l.bound = win[l.dir].bound /\ l.offset = win[l.dir].offset
          /\ side'[l.dir].loading /\ ~side'[l.dir].noMore /\ ~side'[l.dir].limited
    BY <1>1, <1>2, <1>3, <2>1 DEF CtxInv, CtxLoadsInv
  <2>4. \A e \in Dirs : side'[e].loading => \E l \in loads' : l.dir = e /\ l.seq = fetchSeq
    BY <1>1, <1>2, <1>3 DEF CtxInv, CtxLoadsInv
  <2> QED BY <1>1, <2>2, <2>3, <2>4 DEF CtxLoadsInv
<1>6. EntriesInv' /\ SidesInv'
  BY <1>1, <1>2, SidesKept
<1>7. ClosedInv' /\ DOMAIN win' = Dirs
  BY <1>1 DEF ClosedInv, CtxInv
<1> QED BY <1>4, <1>5, <1>6, <1>7 DEF CtxInv

\* Of the loads that count there is one for a side.
LEMMA OneLoadOfSide ==
    ASSUME CtxInv, NEW l \in loads, NEW k \in loads, l.seq = fetchSeq, k.seq = fetchSeq, l.dir = k.dir
    PROVE  l = k
<1>1. l \in PageLoad /\ k \in PageLoad
  BY DEF CtxInv, CtxTypeOK
<1>2. l.chips = k.chips /\ l.bound = k.bound /\ l.offset = k.offset
  BY DEF CtxInv, CtxLoadsInv
<1> QED BY <1>1, <1>2 DEF PageLoad

\* The loads after one has been answered or has failed.
LEMMA LoadEnds ==
    ASSUME CtxInv, NEW l \in loads, l.seq = fetchSeq, loads' = loads \ {l},
           \A e \in Dirs : e # l.dir => side'[e] = side[e] /\ win'[e] = win[e],
           side'[l.dir].loading = FALSE, UNCHANGED <<fetchSeq, chips>>
    PROVE  CtxLoadsInv'
<1>1. l.dir \in Dirs /\ \A k \in loads : k.dir \in Dirs
  BY DEF CtxInv, CtxTypeOK, PageLoad
<1>2. \A k \in loads' : k.seq = fetchSeq => k \in loads /\ k.dir # l.dir
  BY OneLoadOfSide
<1>3. \A k \in loads' : k.seq <= fetchSeq
  BY DEF CtxInv, CtxLoadsInv
<1>4. \A k \in loads' : k.seq = fetchSeq =>
        /\ k.chips = chips /\ k.bound = win'[k.dir].bound /\ k.offset = win'[k.dir].offset
        /\ side'[k.dir].loading /\ ~side'[k.dir].noMore /\ ~side'[k.dir].limited
  BY <1>1, <1>2 DEF CtxInv, CtxLoadsInv
<1>5. \A e \in Dirs : side'[e].loading => \E k \in loads' : k.dir = e /\ k.seq = fetchSeq
  <2> SUFFICES ASSUME NEW e \in Dirs, side'[e].loading
               PROVE  \E k \in loads' : k.dir = e /\ k.seq = fetchSeq
    OBVIOUS
  <2>1. e # l.dir /\ side[e].loading
    OBVIOUS
  <2> QED BY <2>1 DEF CtxInv, CtxLoadsInv
<1> QED BY <1>3, <1>4, <1>5 DEF CtxLoadsInv

LEMMA LoadFails_Inv == ASSUME CtxInv, NEW l \in loads, LoadFails(l) PROVE CtxInv'
<1>1. /\ l.seq = fetchSeq /\ loads' = loads \ {l}
      /\ side' = [side EXCEPT ![l.dir].loading = FALSE, ![l.dir].error = TRUE]
      /\ UNCHANGED <<stored, anchor, dated, chips, entries, win, fetchSeq, known>>
  BY DEF LoadFails, Current
<1>2. l.dir \in Dirs /\ anchor # NoRow
  BY DEF CtxInv, CtxTypeOK, PageLoad, ClosedInv
<1>3. /\ side' \in [Dirs -> Side] /\ side'[l.dir].loading = FALSE
      /\ \A e \in Dirs : e # l.dir => side'[e] = side[e]
      /\ side'[l.dir].limited = side[l.dir].limited /\ side'[l.dir].noMore = side[l.dir].noMore
  BY <1>1, <1>2, SideTries
<1>4. CtxTypeOK'
  <2>1. loadingInitial' \in BOOLEAN
    BY DEF LoadFails, InitialDone
  <2> QED BY <1>1, <1>3, <2>1 DEF CtxInv, CtxTypeOK
<1>5. CtxLoadsInv'
  BY <1>1, <1>3, LoadEnds
<1>6. EntriesInv' /\ SidesInv'
  BY <1>1, <1>3, SidesKept
<1>7. ClosedInv' /\ DOMAIN win' = Dirs
  BY <1>1, <1>2 DEF ClosedInv, CtxInv
<1> QED BY <1>4, <1>5, <1>6, <1>7 DEF CtxInv

LEMMA Superseded_Inv == ASSUME CtxInv, NEW l \in loads, Superseded(l) PROVE CtxInv'
<1>1. /\ l.seq # fetchSeq /\ loads' = loads \ {l}
      /\ UNCHANGED <<stored, anchor, dated, chips, entries, loadingInitial, side, win, fetchSeq,
                     known>>
  BY DEF Superseded, Current
<1>2. CtxTypeOK' /\ ClosedInv' /\ DOMAIN win' = Dirs
  BY <1>1 DEF CtxInv, CtxTypeOK, ClosedInv
<1>3. CtxLoadsInv'
  BY <1>1 DEF CtxInv, CtxLoadsInv
<1>4. EntriesInv' /\ SidesInv'
  BY <1>1, SidesKept
<1> QED BY <1>2, <1>3, <1>4 DEF CtxInv

-----------------------------------------------------------------------------
(* What an answer is taken from *)

\* Two lists one after the other, the second of rows no newer than the first's.
LEMMA AppendLists ==
    ASSUME NEW sq \in Seq(LogRows), NEW tq \in Seq(LogRows), IsList(sq), IsList(tq),
           ToSet(sq) \cap ToSet(tq) = {},
           \A a \in ToSet(sq), b \in ToSet(tq) : a.ts >= b.ts
    PROVE  /\ sq \o tq \in Seq(LogRows)
           /\ ToSet(sq \o tq) = ToSet(sq) \cup ToSet(tq)
           /\ IsList(sq \o tq)
<1>1. sq \o tq \in Seq(LogRows) /\ Len(sq \o tq) = Len(sq) + Len(tq)
  OBVIOUS
<1>2. /\ Len(sq) \in Nat /\ Len(tq) \in Nat
      /\ DOMAIN sq = 1..Len(sq) /\ DOMAIN tq = 1..Len(tq)
      /\ DOMAIN (sq \o tq) = 1..(Len(sq) + Len(tq))
  BY <1>1
<1>3. \A i \in DOMAIN (sq \o tq) : (sq \o tq)[i] = IF i <= Len(sq) THEN sq[i] ELSE tq[i - Len(sq)]
  BY <1>2
<1>4. \A i \in DOMAIN (sq \o tq) : IF i <= Len(sq) THEN i \in DOMAIN sq ELSE i - Len(sq) \in DOMAIN tq
  BY <1>2
<1>5. \A i \in DOMAIN sq : i \in DOMAIN (sq \o tq) /\ (sq \o tq)[i] = sq[i]
  BY <1>2, <1>3
<1>6. \A i \in DOMAIN tq : Len(sq) + i \in DOMAIN (sq \o tq) /\ (sq \o tq)[Len(sq) + i] = tq[i]
  BY <1>2, <1>3
<1>7. ToSet(sq \o tq) = ToSet(sq) \cup ToSet(tq)
  <2>1. \A x \in ToSet(sq \o tq) : x \in ToSet(sq) \cup ToSet(tq)
    BY <1>3, <1>4 DEF ToSet
  <2>2. \A x \in ToSet(sq) : x \in ToSet(sq \o tq)
    BY <1>5 DEF ToSet
  <2>3. \A x \in ToSet(tq) : x \in ToSet(sq \o tq)
    BY <1>6 DEF ToSet
  <2> QED BY <2>1, <2>2, <2>3
<1>8. \A i \in DOMAIN sq, j \in DOMAIN tq : sq[i] # tq[j] /\ sq[i].ts >= tq[j].ts
  BY DEF ToSet
<1>9. ASSUME NEW a \in DOMAIN (sq \o tq), NEW b \in DOMAIN (sq \o tq)
      PROVE  /\ (sq \o tq)[a] = (sq \o tq)[b] => a = b
             /\ a < b => (sq \o tq)[a].ts >= (sq \o tq)[b].ts
  <2>1. a \in Nat /\ b \in Nat
    BY <1>2
  <2>2. CASE a <= Len(sq) /\ b <= Len(sq)
    BY <1>3, <1>4, <2>2 DEF IsList
  <2>3. CASE ~(a <= Len(sq)) /\ ~(b <= Len(sq))
    <3> DEFINE i == a - Len(sq)
               j == b - Len(sq)
    <3>1. i \in DOMAIN tq /\ j \in DOMAIN tq /\ (sq \o tq)[a] = tq[i] /\ (sq \o tq)[b] = tq[j]
      BY <1>3, <1>4, <2>3
    <3>2. (i = j => a = b) /\ (a < b => i < j)
      BY <1>2, <2>1
    <3> HIDE DEF i, j
    <3> QED BY <3>1, <3>2 DEF IsList
  <2>4. CASE a <= Len(sq) /\ ~(b <= Len(sq))
    BY <1>3, <1>4, <1>8, <2>4
  <2>5. CASE ~(a <= Len(sq)) /\ b <= Len(sq)
    <3>1. (sq \o tq)[a] # (sq \o tq)[b]
      BY <1>3, <1>4, <1>8, <2>5
    <3>2. ~(a < b)
      BY <1>2, <2>1, <2>5
    <3> QED BY <3>1, <3>2
  <2> QED BY <2>2, <2>3, <2>4, <2>5
<1>10. IsList(sq \o tq)
  BY <1>9 DEF IsList
<1> QED BY <1>1, <1>7, <1>10

\* What the answer to a load that counts is taken from: the rows of its window.
LEMMA AnswerSees ==
    ASSUME CtxInv, NEW l \in loads, l.seq = fetchSeq
    PROVE  /\ l.dir \in Dirs /\ anchor # NoRow
           /\ ReachInv(l.dir) /\ NoGapInv(l.dir) /\ EndInv(l.dir)
           /\ ~side[l.dir].limited /\ ~side[l.dir].noMore
           /\ FoundBy(l) \in SUBSET Matching /\ IsFiniteSet(FoundBy(l)) /\ FoundBy(l) \in SUBSET LogRows
           /\ \A r \in Matching :
                r \in FoundBy(l) <=> /\ Out(l.dir, Edge(l.dir)) <= Out(l.dir, r.ts)
                                   /\ Out(l.dir, r.ts) < Out(l.dir, Edge(l.dir)) + WINDOW_SECONDS
           /\ OfSecond(Edge(l.dir)) \subseteq FoundBy(l)
           /\ l.offset = win[l.dir].offset
<1>1. l.dir \in Dirs /\ anchor # NoRow
  BY DEF CtxInv, CtxTypeOK, PageLoad, ClosedInv
<1>2. ReachInv(l.dir) /\ NoGapInv(l.dir) /\ EndInv(l.dir)
  BY <1>1 DEF CtxInv, SidesInv
<1>3. /\ l.chips = chips /\ l.bound = win[l.dir].bound /\ l.offset = win[l.dir].offset
      /\ ~side[l.dir].limited /\ ~side[l.dir].noMore
  BY DEF CtxInv, CtxLoadsInv
<1>4. FoundBy(l) = {r \in Matching : r.ts \in Within(l)}
  BY <1>3 DEF FoundBy, Matching
<1>5. Matching \in SUBSET LogRows /\ IsFiniteSet(Matching)
  BY CtxNumbers
<1>6. FoundBy(l) \in SUBSET Matching /\ IsFiniteSet(FoundBy(l))
  BY <1>4, <1>5, FS_Subset
<1>7. ASSUME NEW r \in Matching
      PROVE  r \in FoundBy(l) <=> /\ Out(l.dir, Edge(l.dir)) <= Out(l.dir, r.ts)
                                /\ Out(l.dir, r.ts) < Out(l.dir, Edge(l.dir)) + WINDOW_SECONDS
  <2>1. r.ts \in Int /\ l.bound \in Int /\ WINDOW_SECONDS \in Nat /\ win[l.dir].bound = l.bound
    BY <1>1, <1>3, <1>5, CtxNumbers
  <2>2. CASE l.dir = "before"
    BY <1>4, <2>1, <2>2 DEF Within, Out, Edge
  <2>3. CASE l.dir = "after"
    BY <1>4, <2>1, <2>3 DEF Within, Out, Edge
  <2> QED BY <1>1, <2>2, <2>3 DEF Dirs
<1>8. OfSecond(Edge(l.dir)) \subseteq FoundBy(l)
  <2> SUFFICES ASSUME NEW r \in OfSecond(Edge(l.dir)) PROVE r \in FoundBy(l)
    OBVIOUS
  <2>1. r \in Matching /\ r.ts = Edge(l.dir)
    BY DEF OfSecond
  <2>2. Out(l.dir, r.ts) = Out(l.dir, Edge(l.dir)) /\ Out(l.dir, r.ts) \in Int /\ WINDOW_SECONDS > 0
        /\ WINDOW_SECONDS \in Nat
    BY <1>1, <2>1, CtxNumbers DEF Out
  <2> QED BY <1>7, <2>1, <2>2
<1> QED BY <1>1, <1>2, <1>3, <1>5, <1>6, <1>7, <1>8

\* What the answer brings: a page of those rows, past the ones read before.
LEMMA AnswerBrings ==
    ASSUME CtxInv, NEW l \in loads, l.seq = fetchSeq
    PROVE  /\ RawHits(l) \in SUBSET FoundBy(l) /\ IsFiniteSet(RawHits(l))
           /\ Cardinality(RawHits(l)) \in Nat /\ Cardinality(RawHits(l)) <= PAGE_SIZE
           /\ \A r \in FoundBy(l) : Rank(l.dir, r, FoundBy(l)) \in Nat
           /\ \A r \in FoundBy(l) :
                r \in RawHits(l) <=> /\ win[l.dir].offset <= Rank(l.dir, r, FoundBy(l))
                                     /\ Rank(l.dir, r, FoundBy(l)) < win[l.dir].offset + PAGE_SIZE
           /\ Cardinality(RawHits(l)) < PAGE_SIZE =>
                \A r \in FoundBy(l) : Rank(l.dir, r, FoundBy(l)) < win[l.dir].offset + PAGE_SIZE
<1> DEFINE F == FoundBy(l)
           page == {r \in F : Rank(l.dir, r, F) \in win[l.dir].offset..(win[l.dir].offset + PAGE_SIZE - 1)}
<1>1. /\ l.dir \in Dirs /\ F \in SUBSET LogRows /\ IsFiniteSet(F) /\ win[l.dir].offset \in Nat
      /\ PAGE_SIZE \in Nat \ {0}
  BY AnswerSees, CtxNumbers
<1>2. RawHits(l) = page
  BY AnswerSees DEF RawHits
<1>3. \A r \in F : Rank(l.dir, r, F) \in Nat
  <2> HIDE DEF F
  <2> QED BY <1>1, RankGrows
<1>4. /\ IsFiniteSet(page) /\ Cardinality(page) \in Nat /\ Cardinality(page) <= PAGE_SIZE
      /\ Cardinality(page) < PAGE_SIZE =>
           \A r \in F : Rank(l.dir, r, F) < win[l.dir].offset + PAGE_SIZE
  <2> HIDE DEF F
  <2> QED BY <1>1, PageOfRanks
<1>5. \A r \in F : r \in page <=> /\ win[l.dir].offset <= Rank(l.dir, r, F)
                                  /\ Rank(l.dir, r, F) < win[l.dir].offset + PAGE_SIZE
  <2> SUFFICES ASSUME NEW r \in F
               PROVE  r \in page <=> /\ win[l.dir].offset <= Rank(l.dir, r, F)
                                     /\ Rank(l.dir, r, F) < win[l.dir].offset + PAGE_SIZE
    OBVIOUS
  <2>1. Rank(l.dir, r, F) \in Nat
    BY <1>3
  <2> HIDE DEF F
  <2> QED BY <1>1, <2>1
<1> HIDE DEF F, page
<1>6. page \in SUBSET F
  BY DEF page
<1> QED BY <1>2, <1>3, <1>4, <1>5, <1>6 DEF F

\* Of the rows that were there, those before the end of the page are listed with it.
LEMMA PageCovers ==
    ASSUME CtxInv, NEW l \in loads, l.seq = fetchSeq, NEW r \in WasThere \cap FoundBy(l),
           Rank(l.dir, r, FoundBy(l)) < win[l.dir].offset + PAGE_SIZE
    PROVE  r \in Listed \cup RawHits(l)
<1> DEFINE d == l.dir
           F == FoundBy(l)
           e == Edge(l.dir)
           C == OfSecond(Edge(l.dir))
<1>1. /\ d \in Dirs /\ F \in SUBSET LogRows /\ IsFiniteSet(F) /\ C \in SUBSET F /\ r \in LogRows
      /\ IsFiniteSet(C) /\ Cardinality(C) \in Nat /\ r \in Matching /\ e \in Int
  BY AnswerSees, CtxNumbers
<1>2. /\ win[d].offset \in Nat /\ win[d].offset <= Cardinality(C) /\ PAGE_SIZE \in Nat
      /\ Out(d, e) <= Out(d, r.ts)
  BY AnswerSees, CtxNumbers DEF EndInv
<1>3. Rank(d, r, F) \in Nat /\ Rank(d, r, C) \in Nat /\ Rank(d, r, C) <= Rank(d, r, F)
  <2> HIDE DEF d, F, C
  <2> QED BY <1>1, RankGrows
<1>4. CASE win[d].offset <= Rank(d, r, F)
  BY <1>4, AnswerBrings
<1>5. CASE ~(win[d].offset <= Rank(d, r, F))
  <2>1. r.ts = e
    <3> SUFFICES ASSUME r.ts # e PROVE FALSE
      OBVIOUS
    <3>1. \A q \in C : q.ts = e
      BY DEF OfSecond
    <3>2. Out(d, e) < Out(d, r.ts)
      BY <1>1, <1>2, AheadIsOrder DEF Out
    <3>3. \A q \in C : Ahead(d, q, r)
      <4> SUFFICES ASSUME NEW q \in C PROVE Ahead(d, q, r)
        OBVIOUS
      <4>1. q \in LogRows /\ Out(d, q.ts) < Out(d, r.ts)
        BY <1>1, <3>1, <3>2
      <4> HIDE DEF d, C, e
      <4> QED BY <1>1, <4>1, AheadIsOrder
    <3>4. {q \in C : Ahead(d, q, r)} = C
      BY <3>3
    <3>5. Rank(d, r, C) = Cardinality(C)
      BY <3>4 DEF Rank
    <3> QED BY <1>1, <1>2, <1>3, <1>5, <3>5
  <2>2. Rank(d, r, C) < win[d].offset
    BY <1>2, <1>3, <1>5
  <2> QED BY <2>1, <2>2, AnswerSees DEF ReachInv
<1> QED BY <1>4, <1>5

-----------------------------------------------------------------------------
(* What an answer adds to the list *)

\* The empty windows are counted in seconds.
LEMMA SlidesAreSeconds ==
    ASSUME NEW k \in Nat
    PROVE  /\ k * WINDOW_SECONDS \in Nat /\ (k + 1) * WINDOW_SECONDS = k * WINDOW_SECONDS + WINDOW_SECONDS
           /\ 0 * WINDOW_SECONDS = 0 /\ WINDOW_SECONDS \in Nat \ {0}
<1>1. WINDOW_SECONDS \in Nat \ {0}
  BY ContextAssumption
<1> QED BY <1>1

\* A page is of the far side of what is listed.
LEMMA PageLiesOutside ==
    ASSUME CtxInv, NEW l \in loads, l.seq = fetchSeq, NEW r \in RawHits(l), NEW a \in Listed
    PROVE  r \in LogRows /\ a \in LogRows /\ Out(l.dir, a.ts) <= Out(l.dir, Edge(l.dir))
           /\ Out(l.dir, Edge(l.dir)) <= Out(l.dir, r.ts)
           /\ Out(l.dir, a.ts) \in Int /\ Out(l.dir, r.ts) \in Int /\ Out(l.dir, Edge(l.dir)) \in Int
<1> DEFINE d == l.dir
<1>1. d \in Dirs /\ ReachInv(d) /\ ~side[d].limited /\ r \in FoundBy(l) /\ r \in Matching
  BY AnswerSees, AnswerBrings
<1>2. Out(d, Edge(d)) <= Out(d, r.ts)
  BY <1>1, AnswerSees
<1>3. r \in LogRows /\ a \in LogRows /\ r.ts \in Int /\ a.ts \in Int /\ Edge(d) \in Int
      /\ win[d].empty \in Nat
  BY <1>1, CtxNumbers
<1>4. Out(d, a.ts) <= Out(d, Edge(d)) - win[d].empty * WINDOW_SECONDS
  BY <1>1 DEF ReachInv
<1>5. win[d].empty * WINDOW_SECONDS \in Nat
  BY <1>3, SlidesAreSeconds
<1>6. Out(d, a.ts) \in Int /\ Out(d, r.ts) \in Int /\ Out(d, Edge(d)) \in Int
  BY <1>3 DEF Out
<1>7. Out(d, a.ts) <= Out(d, Edge(d))
  BY <1>4, <1>5, <1>6
<1> QED BY <1>2, <1>3, <1>6, <1>7

LEMMA AnswerLists ==
    ASSUME CtxInv, NEW l \in loads, Answer(l)
    PROVE  /\ entries' \in Seq(LogRows) /\ Listed' = Listed \cup RawHits(l) /\ EntriesInv'
           /\ Matching' = Matching /\ WasThere' = WasThere
<1> DEFINE new == Fresh(RawHits(l))
           fresh == AsListed(new)
<1>1. /\ l.seq = fetchSeq
      /\ entries' = IF l.dir = "before" THEN entries \o fresh ELSE fresh \o entries
      /\ UNCHANGED <<stored, anchor, dated, chips, fetchSeq, known>>
  BY DEF Answer, Current
<1>2. /\ entries \in Seq(LogRows) /\ IsList(entries) /\ Listed = ToSet(entries) /\ IsFiniteSet(stored)
      /\ Listed \subseteq Matching /\ (anchor # NoRow => anchor \in Listed /\ anchor.same)
  BY DEF CtxInv, CtxTypeOK, EntriesInv, Listed
<1>3. new \in SUBSET RawHits(l) /\ Listed \cup new = Listed \cup RawHits(l) /\ Listed \cap new = {}
  BY <1>2 DEF Fresh
<1>4. /\ RawHits(l) \in SUBSET Matching /\ RawHits(l) \in SUBSET LogRows /\ IsFiniteSet(RawHits(l))
      /\ l.dir \in Dirs
  BY <1>1, AnswerSees, AnswerBrings
<1>5. new \in SUBSET LogRows /\ IsFiniteSet(new)
  BY <1>3, <1>4, FS_Subset
<1>6. fresh \in Seq(LogRows) /\ ToSet(fresh) = new /\ IsList(fresh)
  <2>1. fresh \in Seq(new) /\ ToSet(fresh) = new /\ IsList(fresh)
    <3> HIDE DEF new
    <3> QED BY <1>5, NewestLists
  <2> HIDE DEF new, fresh
  <2> QED BY <1>5, <2>1
<1>7. ASSUME NEW r \in new, NEW a \in Listed
      PROVE  /\ r.ts \in Int /\ a.ts \in Int
             /\ l.dir = "before" => a.ts >= r.ts
             /\ l.dir = "after" => r.ts >= a.ts
  <2>1. /\ r \in LogRows /\ a \in LogRows /\ Out(l.dir, a.ts) <= Out(l.dir, Edge(l.dir))
        /\ Out(l.dir, Edge(l.dir)) <= Out(l.dir, r.ts)
        /\ Out(l.dir, a.ts) \in Int /\ Out(l.dir, r.ts) \in Int /\ Out(l.dir, Edge(l.dir)) \in Int
    BY <1>1, <1>3, PageLiesOutside
  <2>2. r.ts \in Int /\ a.ts \in Int
    BY <2>1, CtxNumbers
  <2>3. Out(l.dir, a.ts) <= Out(l.dir, r.ts)
    BY <2>1
  <2>4. CASE l.dir = "before"
    BY <2>2, <2>3, <2>4 DEF Out
  <2>5. CASE l.dir = "after"
    BY <2>2, <2>3, <2>5 DEF Out
  <2> QED BY <1>4, <2>2, <2>4, <2>5 DEF Dirs
<1> HIDE DEF new, fresh
<1>8. entries' \in Seq(LogRows) /\ ToSet(entries') = Listed \cup new /\ IsList(entries')
  <2>1. CASE l.dir = "before"
    <3>1. entries' = entries \o fresh
      BY <1>1, <2>1
    <3>2. \A a \in ToSet(entries), b \in ToSet(fresh) : a.ts >= b.ts
      BY <1>2, <1>6, <1>7, <2>1
    <3> QED BY <1>2, <1>3, <1>6, <3>1, <3>2, AppendLists
  <2>2. CASE l.dir = "after"
    <3>1. entries' = fresh \o entries
      BY <1>1, <2>2
    <3>2. \A a \in ToSet(fresh), b \in ToSet(entries) : a.ts >= b.ts
      BY <1>2, <1>6, <1>7, <2>2
    <3> QED BY <1>2, <1>3, <1>6, <3>1, <3>2, AppendLists
  <2> QED BY <1>4, <2>1, <2>2 DEF Dirs
<1>9. Listed' = Listed \cup RawHits(l)
  BY <1>3, <1>8 DEF Listed
<1>10. Matching' = Matching /\ WasThere' = WasThere
  BY <1>1 DEF Matching, WasThere, Matches
<1>11. EntriesInv'
  BY <1>1, <1>2, <1>4, <1>8, <1>9, <1>10 DEF EntriesInv
<1> QED BY <1>8, <1>9, <1>10, <1>11

\* The second where a full page ends is the farthest of its rows.
LEMMA LastIsFarthest ==
    ASSUME NEW d \in Dirs, NEW page \in SUBSET LogRows, IsFiniteSet(page), page # {}
    PROVE  /\ LastTs(d, page) \in Int
           /\ \E r \in page : r.ts = LastTs(d, page)
           /\ \A r \in page : Out(d, r.ts) <= Out(d, LastTs(d, page))
<1>1. PICK r \in page : Rank(d, r, page) = Cardinality(page) - 1
  <2>1. Cardinality(page) \in Nat /\ Cardinality(page) # 0
    BY FS_EmptySet, FS_CardinalityType
  <2>2. Cardinality(page) - 1 \in 0..(Cardinality(page) - 1)
    BY <2>1
  <2> QED BY <2>2, RanksAreApart
<1>2. ASSUME NEW q \in page PROVE Out(d, q.ts) <= Out(d, r.ts)
  <2>1. q.ts \in Int /\ r.ts \in Int /\ q \in LogRows /\ r \in LogRows
    BY AheadIsOrder
  <2>2. SUFFICES ASSUME Out(d, r.ts) < Out(d, q.ts) PROVE FALSE
    BY <2>1 DEF Out
  <2>3. Ahead(d, r, q)
    BY <2>1, <2>2, AheadIsOrder
  <2>4. Rank(d, r, page) < Rank(d, q, page)
    BY <2>1, <2>3, RankOrders
  <2>5. Rank(d, q, page) \in 0..(Cardinality(page) - 1) /\ Cardinality(page) \in Nat
    BY RanksAreApart
  <2> QED BY <1>1, <2>4, <2>5
<1>3. \A q \in page : SIGN[d] * q.ts = Out(d, q.ts)
  BY AheadIsOrder, SignIsOut
<1>4. \E t \in {q.ts : q \in page} : \A q \in page : SIGN[d] * q.ts <= SIGN[d] * t
  BY <1>2, <1>3
<1>5. LastTs(d, page) \in {q.ts : q \in page} /\ \A q \in page : SIGN[d] * q.ts <= SIGN[d] * LastTs(d, page)
  BY <1>4 DEF LastTs
<1>6. PICK s \in page : s.ts = LastTs(d, page)
  BY <1>5
<1>7. \A q \in page : Out(d, q.ts) <= Out(d, LastTs(d, page))
  BY <1>3, <1>5, <1>6
<1> QED BY <1>6, <1>7, AheadIsOrder

-----------------------------------------------------------------------------
(* Where a full page ends *)

\* Between the anchor and a row of the page nothing that was there is left out.
LEMMA PageLeavesNoGap ==
    ASSUME CtxInv, NEW l \in loads, l.seq = fetchSeq, NEW j \in RawHits(l), NEW r \in WasThere,
           Ahead(l.dir, r, j), Out(l.dir, FirstEdge(l.dir)) <= Out(l.dir, r.ts)
    PROVE  r \in Listed \cup RawHits(l)
<1> DEFINE d == l.dir
           F == FoundBy(l)
<1>1. /\ d \in Dirs /\ ReachInv(d) /\ ~side[d].limited /\ F \in SUBSET LogRows /\ IsFiniteSet(F)
      /\ j \in F /\ F \in SUBSET Matching
  BY AnswerSees, AnswerBrings
<1>2. r \in Matching /\ r \in LogRows /\ j \in LogRows /\ Edge(d) \in Int
  BY <1>1, CtxNumbers
<1>3. Out(d, r.ts) <= Out(d, j.ts) /\ Out(d, r.ts) \in Int /\ Out(d, j.ts) \in Int
      /\ Out(d, Edge(d)) \in Int /\ WINDOW_SECONDS \in Nat
  BY <1>1, <1>2, AheadIsOrder, CtxNumbers DEF Out
<1>4. CASE Out(d, r.ts) < Out(d, Edge(d))
  BY <1>1, <1>4 DEF ReachInv
<1>5. CASE ~(Out(d, r.ts) < Out(d, Edge(d)))
  <2>1. Out(d, j.ts) < Out(d, Edge(d)) + WINDOW_SECONDS
    BY <1>1, AnswerSees
  <2>2. Out(d, Edge(d)) <= Out(d, r.ts) /\ Out(d, r.ts) < Out(d, Edge(d)) + WINDOW_SECONDS
    BY <1>3, <1>5, <2>1
  <2>3. r \in F
    BY <1>2, <2>2, AnswerSees
  <2>4. Rank(d, r, F) < Rank(d, j, F)
    <3> HIDE DEF F, d
    <3> QED BY <1>1, <1>2, <2>3, RankOrders DEF d
  <2>5. Rank(d, j, F) < win[d].offset + PAGE_SIZE /\ Rank(d, j, F) \in Nat /\ Rank(d, r, F) \in Nat
    BY <1>1, <2>3, AnswerBrings
  <2>6. win[d].offset \in Nat /\ PAGE_SIZE \in Nat
    BY <1>1, CtxNumbers
  <2>7. Rank(d, r, F) < win[d].offset + PAGE_SIZE
    BY <2>4, <2>5, <2>6
  <2> QED BY <2>3, <2>7, PageCovers
<1> QED BY <1>4, <1>5

\* In the first second of the window the ranks are those within the second.
LEMMA RankInFirstSecond ==
    ASSUME CtxInv, NEW l \in loads, l.seq = fetchSeq, NEW r \in OfSecond(Edge(l.dir))
    PROVE  Rank(l.dir, r, FoundBy(l)) = Rank(l.dir, r, OfSecond(Edge(l.dir)))
<1> DEFINE d == l.dir
           F == FoundBy(l)
           C == OfSecond(Edge(l.dir))
<1>1. /\ d \in Dirs /\ F \in SUBSET LogRows /\ F \in SUBSET Matching /\ C \subseteq F /\ r \in F
      /\ r.ts = Edge(d) /\ Edge(d) \in Int
  BY AnswerSees, CtxNumbers DEF OfSecond
<1>2. ASSUME NEW q \in F, Ahead(d, q, r) PROVE q \in C
  <2>1. Out(d, q.ts) <= Out(d, r.ts) /\ q.ts \in Int
    BY <1>1, <1>2, AheadIsOrder
  <2>2. Out(d, Edge(d)) <= Out(d, q.ts)
    BY <1>1, <1>2, AnswerSees
  <2>3. q.ts = Edge(d)
    BY <1>1, <2>1, <2>2 DEF Out
  <2> QED BY <1>1, <2>3 DEF OfSecond
<1>3. {q \in F : Ahead(d, q, r)} = {q \in C : Ahead(d, q, r)}
  BY <1>1, <1>2
<1> QED BY <1>3 DEF Rank

\* After a full page the side stands at the second of its last row.
FullAt(l) == LastTs(l.dir, RawHits(l))

LEMMA FullPageStands ==
    ASSUME CtxInv, NEW l \in loads, l.seq = fetchSeq, Cardinality(RawHits(l)) >= PAGE_SIZE
    PROVE  LET w == FullPage(l.dir, RawHits(l))
           IN  /\ FullAt(l) \in Int /\ w.bound \in Int /\ w.empty = 0
               /\ (IF l.dir = "before" THEN w.bound - 1 ELSE w.bound) = FullAt(l)
               /\ Out(l.dir, Edge(l.dir)) <= Out(l.dir, FullAt(l))
               /\ \E r \in RawHits(l) : r.ts = FullAt(l)
               /\ \A r \in RawHits(l) : Out(l.dir, r.ts) <= Out(l.dir, FullAt(l))
               /\ OfSecond(FullAt(l)) \subseteq FoundBy(l)
               /\ w.offset = Cardinality(LastSecond(l.dir, RawHits(l)))
                               + (IF FullAt(l) = Edge(l.dir) THEN win[l.dir].offset ELSE 0)
               /\ SIGN[l.dir] * (w.bound - win[l.dir].bound) >= 0
<1> DEFINE d == l.dir
           page == RawHits(l)
           last == FullAt(l)
           w == FullPage(d, page)
<1>1. d \in Dirs /\ page \in SUBSET LogRows /\ IsFiniteSet(page) /\ page \in SUBSET FoundBy(l)
      /\ page \in SUBSET Matching
  BY AnswerSees, AnswerBrings
<1>2. page # {}
  <2>1. PAGE_SIZE \in Nat \ {0}
    BY CtxNumbers
  <2> QED BY <2>1, FS_EmptySet
<1>3. /\ last \in Int /\ \E r \in page : r.ts = last
      /\ \A r \in page : Out(d, r.ts) <= Out(d, last)
  <2> HIDE DEF page, d
  <2> QED BY <1>1, <1>2, LastIsFarthest DEF FullAt, page, d
<1>4. PICK s \in page : s.ts = last
  BY <1>3
<1>5. Out(d, Edge(d)) <= Out(d, last) /\ Out(d, last) < Out(d, Edge(d)) + WINDOW_SECONDS
  BY <1>1, <1>4, AnswerSees
<1>6. OfSecond(last) \subseteq FoundBy(l)
  BY <1>5, AnswerSees DEF OfSecond
<1>7. Edge(d) \in Int /\ win[d].bound \in Int
  BY <1>1, CtxNumbers
<1>8. w.bound = (IF d = "before" THEN last + 1 ELSE last) /\ w.empty = 0
      /\ w.offset = Cardinality(LastSecond(d, page)) + (IF w.bound = win[d].bound THEN win[d].offset ELSE 0)
  BY DEF FullPage, FullAt
<1>9. w.bound \in Int /\ (IF d = "before" THEN w.bound - 1 ELSE w.bound) = last
      /\ (w.bound = win[d].bound <=> last = Edge(d))
  BY <1>3, <1>7, <1>8 DEF Edge
<1>10. SIGN[d] * (w.bound - win[d].bound) >= 0
  <2>1. w.bound - win[d].bound \in Int
    BY <1>7, <1>9
  <2>2. SIGN[d] * (w.bound - win[d].bound) = Out(d, w.bound - win[d].bound)
    <3> HIDE DEF w, d
    <3> QED BY <1>1, <2>1, SignIsOut
  <2>3. Out(d, w.bound - win[d].bound) >= 0
    <3>1. CASE d = "before"
      BY <1>3, <1>5, <1>7, <1>8, <3>1 DEF Out, Edge
    <3>2. CASE d # "before"
      BY <1>3, <1>5, <1>7, <1>8, <3>2 DEF Out, Edge
    <3> QED BY <3>1, <3>2
  <2> QED BY <2>2, <2>3
<1>11. w.offset = Cardinality(LastSecond(d, page)) + (IF last = Edge(d) THEN win[d].offset ELSE 0)
  BY <1>8, <1>9
<1> QED BY <1>3, <1>5, <1>6, <1>8, <1>9, <1>10, <1>11

\* Of that second, as many rows have been read as the new offset says.
LEMMA FullPageCounts ==
    ASSUME CtxInv, NEW l \in loads, l.seq = fetchSeq, Cardinality(RawHits(l)) >= PAGE_SIZE
    PROVE  LET w == FullPage(l.dir, RawHits(l))
           IN  /\ w.offset \in Nat
               /\ w.offset <= Cardinality(OfSecond(FullAt(l)))
               /\ \A r \in WasThere :
                    r.ts = FullAt(l) /\ Rank(l.dir, r, OfSecond(FullAt(l))) < w.offset
                      => r \in Listed \cup RawHits(l)
<1> DEFINE d == l.dir
           F == FoundBy(l)
           page == RawHits(l)
           last == FullAt(l)
           w == FullPage(d, page)
           C == OfSecond(last)
           LS == LastSecond(d, page)
           O == win[d].offset
<1>1. /\ d \in Dirs /\ F \in SUBSET LogRows /\ IsFiniteSet(F) /\ F \in SUBSET Matching
      /\ page \in SUBSET F /\ IsFiniteSet(page) /\ EndInv(d)
      /\ Cardinality(page) \in Nat /\ Cardinality(page) <= PAGE_SIZE
  BY AnswerSees, AnswerBrings
<1>2. /\ last \in Int /\ C \in SUBSET F /\ Out(d, Edge(d)) <= Out(d, last)
      /\ \A r \in page : Out(d, r.ts) <= Out(d, last)
      /\ w.offset = Cardinality(LS) + (IF last = Edge(d) THEN O ELSE 0)
  BY FullPageStands
<1>3. O \in Nat /\ PAGE_SIZE \in Nat \ {0} /\ IsFiniteSet(C) /\ Cardinality(C) \in Nat
      /\ C \in SUBSET LogRows /\ Edge(d) \in Int /\ WasThere \subseteq Matching
  BY <1>1, CtxNumbers
<1>4. LS = {r \in page : r.ts = last}
  BY DEF LastSecond, FullAt
<1>5. LS \in SUBSET C /\ LS \in SUBSET page
  BY <1>1, <1>4 DEF OfSecond
<1>6. IsFiniteSet(LS) /\ Cardinality(LS) \in Nat /\ Cardinality(LS) <= Cardinality(C)
  <2> HIDE DEF LS, C
  <2> QED BY <1>3, <1>5, FS_Subset, FS_CardinalityType
<1>7. \A r \in F : Rank(d, r, F) \in Nat
  BY AnswerBrings
<1>8. CASE last = Edge(d)
  <2>1. ASSUME NEW r \in C PROVE Rank(d, r, F) = Rank(d, r, C)
    BY <1>8, <2>1, RankInFirstSecond
  <2>2. LS = page
    <3> SUFFICES ASSUME NEW r \in page PROVE r.ts = last
      BY <1>4
    <3>1. Out(d, Edge(d)) <= Out(d, r.ts) /\ Out(d, r.ts) <= Out(d, last) /\ r \in LogRows
      BY <1>1, <1>2, AnswerSees
    <3>2. r.ts \in Int
      BY <3>1, CtxNumbers
    <3> QED BY <1>2, <1>8, <3>1, <3>2 DEF Out
  <2>3. Cardinality(page) + O <= Cardinality(C)
    <3> DEFINE rank == [r \in page |-> Rank(d, r, C)]
               n == Cardinality(C)
    <3>1. \A r \in C : Rank(d, r, C) \in 0..(n - 1)
      <4> HIDE DEF C
      <4> QED BY <1>1, <1>3, RanksAreApart
    <3>2. \A q, r \in C : Rank(d, q, C) = Rank(d, r, C) => q = r
      <4> HIDE DEF C, d
      <4> QED BY <1>1, <1>3, RanksAreApart
    <3>3. \A r \in page : r \in C /\ Rank(d, r, C) \in O..(n - 1)
      <4> SUFFICES ASSUME NEW r \in page PROVE r \in C /\ Rank(d, r, C) \in O..(n - 1)
        OBVIOUS
      <4>1. r \in C
        BY <1>5, <2>2
      <4>2. O <= Rank(d, r, F) /\ Rank(d, r, F) = Rank(d, r, C)
        BY <1>1, <2>1, <4>1, AnswerBrings
      <4>3. Rank(d, r, C) \in 0..(n - 1)
        BY <3>1, <4>1
      <4> HIDE DEF C, O, F
      <4> QED BY <1>3, <4>1, <4>2, <4>3
    <3>4. rank \in Injection(page, O..(n - 1))
      <4> HIDE DEF C, page, O
      <4> QED BY <3>2, <3>3 DEF Injection, IsInjective
    <3>5. O <= n
      BY <1>1, <1>8 DEF EndInv
    <3>6. IsFiniteSet(O..(n - 1)) /\ Cardinality(O..(n - 1)) = n - O
      <4>1. O \in Int /\ n - 1 \in Int /\ (IF O > n - 1 THEN 0 ELSE n - 1 - O + 1) = n - O
        <5> HIDE DEF O, n, C
        <5> QED BY <1>3, <3>5 DEF n
      <4> HIDE DEF n, O
      <4> QED BY <4>1, FS_Interval
    <3>7. Cardinality(page) <= n - O
      <4> HIDE DEF rank, page, n, O
      <4> QED BY <3>4, <3>6, FS_Injection
    <3> QED BY <1>1, <1>3, <3>7
  <2>4. w.offset = Cardinality(page) + O
    BY <1>2, <1>8, <2>2
  <2>5. ASSUME NEW r \in WasThere, r.ts = last, Rank(d, r, C) < w.offset
        PROVE  r \in Listed \cup page
    <3>1. r \in C /\ r \in F
      BY <1>2, <1>3, <2>5 DEF OfSecond
    <3>2. Rank(d, r, F) = Rank(d, r, C) /\ Rank(d, r, F) \in Nat
      BY <1>7, <2>1, <3>1
    <3>3. Rank(d, r, F) < O + PAGE_SIZE
      <4> HIDE DEF w, O, page, F, C, d
      <4> QED BY <1>1, <1>3, <2>4, <2>5, <3>2
    <3> QED BY <3>1, <3>3, PageCovers
  <2>6. w.offset \in Nat /\ w.offset <= Cardinality(C)
    BY <1>1, <1>3, <2>3, <2>4
  <2> QED BY <2>5, <2>6
<1>9. CASE last # Edge(d)
  <2>1. w.offset = Cardinality(LS)
    BY <1>2, <1>6, <1>9
  <2>2. ASSUME NEW r \in WasThere, r.ts = last, Rank(d, r, C) < w.offset, r \notin Listed \cup page
        PROVE  FALSE
    <3>1. r \in C /\ r \in F /\ r \in LogRows
      BY <1>1, <1>2, <1>3, <2>2 DEF OfSecond
    <3>2. ~(Rank(d, r, F) < O + PAGE_SIZE)
      BY <2>2, <3>1, PageCovers
    <3>3. ASSUME NEW q \in LS PROVE Ahead(d, q, r)
      <4>1. q \in page /\ q \in F /\ q \in LogRows /\ q # r
        BY <1>1, <1>5, <2>2
      <4>2. Rank(d, q, F) < O + PAGE_SIZE /\ Rank(d, q, F) \in Nat /\ Rank(d, r, F) \in Nat
        BY <1>7, <3>1, <4>1, AnswerBrings
      <4>3. ~(Rank(d, r, F) < Rank(d, q, F))
        BY <1>3, <3>2, <4>2
      <4>4. ~Ahead(d, r, q)
        <5> HIDE DEF F, d
        <5> QED BY <1>1, <3>1, <4>1, <4>3, RankOrders
      <4> HIDE DEF F, d, page, LS
      <4> QED BY <1>1, <3>1, <4>1, <4>4, AheadIsOrder
    <3>4. LS \in SUBSET {q \in C : Ahead(d, q, r)} /\ {q \in C : Ahead(d, q, r)} \in SUBSET C
      BY <1>5, <3>3
    <3>5. Cardinality(LS) <= Cardinality({q \in C : Ahead(d, q, r)})
      <4>1. IsFiniteSet({q \in C : Ahead(d, q, r)})
        <5> HIDE DEF LS, C
        <5> QED BY <1>3, <3>4, FS_Subset
      <4> HIDE DEF LS, C
      <4> QED BY <3>4, <4>1, FS_Subset
    <3>6. Rank(d, r, C) \in Nat
      <4> HIDE DEF C, d
      <4> QED BY <1>1, <1>3, <3>1, RankGrows
    <3> HIDE DEF LS, C, d, w
    <3> QED BY <1>6, <2>1, <2>2, <3>5, <3>6 DEF Rank
  <2> QED BY <1>6, <2>1, <2>2
<1> QED BY <1>8, <1>9

-----------------------------------------------------------------------------
(* The ways a side goes on *)

\* The three ways a side goes on after an answer.
StopsAtLimit(l) ==
    /\ Cardinality(RawHits(l)) >= PAGE_SIZE /\ FullPage(l.dir, RawHits(l)).offset > MAX_OFFSET
    /\ win'[l.dir] = [bound |-> win[l.dir].bound, offset |-> win[l.dir].offset, empty |-> 0]
    /\ side'[l.dir].limited /\ ~side'[l.dir].noMore

GoesOnInPage(l) ==
    /\ Cardinality(RawHits(l)) >= PAGE_SIZE /\ FullPage(l.dir, RawHits(l)).offset <= MAX_OFFSET
    /\ win'[l.dir] = FullPage(l.dir, RawHits(l))
    /\ ~side'[l.dir].limited /\ ~side'[l.dir].noMore

Slides(l) ==
    /\ Cardinality(RawHits(l)) < PAGE_SIZE
    /\ win'[l.dir] = ShortPage(l.dir, RawHits(l))
    /\ ~side'[l.dir].limited
    /\ side'[l.dir].noMore <=> ShortPage(l.dir, RawHits(l)).empty >= MAX_EMPTY_SLIDES

LEMMA AnswerTurns ==
    ASSUME CtxInv, NEW l \in loads, Answer(l)
    PROVE  /\ l.seq = fetchSeq /\ loads' = loads \ {l}
           /\ UNCHANGED <<stored, anchor, dated, chips, fetchSeq, known>>
           /\ DOMAIN win' = Dirs
           /\ \A e \in Dirs : e # l.dir => win'[e] = win[e] /\ side'[e] = side[e]
           /\ side' \in [Dirs -> Side] /\ side'[l.dir].loading = FALSE
           /\ StopsAtLimit(l) \/ GoesOnInPage(l) \/ Slides(l)
<1> DEFINE d == l.dir
           page == RawHits(l)
           full == Cardinality(page) >= PAGE_SIZE
           w == IF full THEN FullPage(d, page) ELSE ShortPage(d, page)
           limited == full /\ Beyond(d, w)
<1>1. /\ l.seq = fetchSeq /\ loads' = loads \ {l}
      /\ UNCHANGED <<stored, anchor, dated, chips, fetchSeq, known>>
      /\ Advance(d, page)
  BY DEF Answer, Current
<1>2. /\ win' = IF limited THEN [win EXCEPT ![d].empty = 0] ELSE [win EXCEPT ![d] = w]
      /\ side' = [side EXCEPT
              ![d].loading = FALSE,
              ![d].limited = @ \/ limited,
              ![d].noMore = IF full THEN @ ELSE w.empty >= MAX_EMPTY_SLIDES]
  BY <1>1 DEF Advance
<1>3. /\ d \in Dirs /\ side[d].limited = FALSE /\ side[d].noMore = FALSE /\ DOMAIN win = Dirs
      /\ side \in [Dirs -> Side]
  BY <1>1, AnswerSees DEF CtxInv, CtxTypeOK, Side
<1>4. Cardinality(page) \in Nat /\ PAGE_SIZE \in Nat
  BY <1>1, AnswerBrings, CtxNumbers
<1>5. DOMAIN win' = Dirs /\ \A e \in Dirs : e # d => win'[e] = win[e]
  <2> HIDE DEF w, d
  <2> QED BY <1>2, <1>3
<1>6. \A e \in Dirs : e # d => side'[e] = side[e]
  BY <1>2, <1>3
<1> DEFINE lim == limited
<1>7. PICK x \in BOOLEAN : x = (side[d].limited \/ lim)
  <2>1. (side[d].limited \/ lim) \in BOOLEAN
    BY <1>3
  <2> QED BY <2>1
<1>8. PICK y \in BOOLEAN : y = IF full THEN side[d].noMore ELSE w.empty >= MAX_EMPTY_SLIDES
  <2>1. CASE full
    BY <1>3, <2>1
  <2>2. CASE ~full
    <3>1. (w.empty >= MAX_EMPTY_SLIDES) \in BOOLEAN
      OBVIOUS
    <3> HIDE DEF full, w
    <3> QED BY <2>2, <3>1
  <2> QED BY <2>1, <2>2
<1>9. side' = [side EXCEPT ![d].loading = FALSE, ![d].limited = x, ![d].noMore = y]
  <2>1. side' = [side EXCEPT ![d].loading = FALSE, ![d].limited = @ \/ lim,
                           ![d].noMore = IF full THEN @ ELSE w.empty >= MAX_EMPTY_SLIDES]
    BY <1>2
  <2> HIDE DEF lim, full, w, d
  <2> QED BY <1>3, <1>7, <1>8, <2>1
<1>10. /\ side' \in [Dirs -> Side] /\ side'[d].loading = FALSE
      /\ side'[d].limited = x /\ side'[d].noMore = y
  <2> HIDE DEF d
  <2> QED BY <1>3, <1>9, SideAdvances
<1>11. /\ side' \in [Dirs -> Side] /\ side'[d].loading = FALSE
      /\ side'[d].limited = (side[d].limited \/ lim)
      /\ side'[d].noMore = (IF full THEN side[d].noMore ELSE w.empty >= MAX_EMPTY_SLIDES)
  BY <1>7, <1>8, <1>10
<1>12. CASE full
  <2>1. w = FullPage(d, page) /\ w.offset \in Nat
    BY <1>1, <1>12, FullPageCounts
  <2>2. SIGN[d] * (w.bound - win[d].bound) >= 0
    BY <1>1, <1>12, <2>1, FullPageStands
  <2>3. SIGN[d] * (w.bound - win[d].bound) \in Int
    <3>1. w.bound \in Int /\ win[d].bound \in Int
      BY <1>1, <1>3, <1>12, <2>1, FullPageStands, CtxNumbers
    <3>2. SIGN[d] \in Int
      BY <1>3 DEF SIGN, Dirs
    <3> HIDE DEF w
    <3> QED BY <3>1, <3>2
  <2>4. Beyond(d, w) <=> w.offset > MAX_OFFSET
    <3>1. ~(SIGN[d] * (w.bound - win[d].bound) < 0)
      <4> DEFINE ahead == SIGN[d] * (w.bound - win[d].bound)
      <4>1. ahead >= 0 /\ ahead \in Int
        BY <2>2, <2>3
      <4> HIDE DEF ahead
      <4>2. ~(ahead < 0)
        BY <4>1
      <4> QED BY <4>2 DEF ahead
    <3> HIDE DEF w
    <3> QED BY <3>1 DEF Beyond
  <2>5. side'[d].noMore = FALSE
    BY <1>3, <1>11, <1>12
  <2>6. CASE limited
    <3>1. w.offset > MAX_OFFSET
      BY <2>4, <2>6
    <3>2. win'[d] = [win[d] EXCEPT !.empty = 0] /\ side'[d].limited
      <4>1. side'[d].limited = TRUE
        BY <1>11, <2>6
      <4> HIDE DEF limited, w, d
      <4> QED BY <1>2, <1>3, <2>6, <4>1
    <3>3. win'[d] = [bound |-> win[d].bound, offset |-> win[d].offset, empty |-> 0]
      <4>1. win[d] \in Win
        BY <1>3 DEF CtxInv, CtxTypeOK
      <4> QED BY <3>2, <4>1 DEF Win
    <3>4. StopsAtLimit(l)
      BY <1>12, <2>1, <2>5, <3>1, <3>2, <3>3 DEF StopsAtLimit
    <3> QED BY <1>1, <1>5, <1>6, <1>11, <3>4
  <2>7. CASE ~limited
    <3>1. ~(w.offset > MAX_OFFSET)
      BY <1>12, <2>4, <2>7
    <3>2. w.offset <= MAX_OFFSET
      BY <2>1, <3>1, CtxNumbers
    <3>3. win'[d] = w
      <4> HIDE DEF limited, w, d
      <4> QED BY <1>2, <1>3, <2>7
    <3>4. side'[d].limited = FALSE
      BY <1>3, <1>11, <2>7
    <3>5. GoesOnInPage(l)
      BY <1>12, <2>1, <2>5, <3>2, <3>3, <3>4 DEF GoesOnInPage
    <3> QED BY <1>1, <1>5, <1>6, <1>11, <3>5
  <2> QED BY <2>6, <2>7
<1>13. CASE ~full
  <2>1. w = ShortPage(d, page) /\ ~limited
    BY <1>13
  <2>2. win'[d] = w
    <3> HIDE DEF limited, w, d
    <3> QED BY <1>2, <1>3, <2>1
  <2>3. side'[d].limited = FALSE /\ side'[d].noMore = (w.empty >= MAX_EMPTY_SLIDES)
    <3>1. side'[d].limited = FALSE
      BY <1>3, <1>11, <2>1
    <3>2. side'[d].noMore = (w.empty >= MAX_EMPTY_SLIDES)
      BY <1>11, <1>13
    <3> QED BY <3>1, <3>2
  <2>4. Cardinality(page) < PAGE_SIZE
    BY <1>4, <1>13
  <2>5. Slides(l)
    BY <2>1, <2>2, <2>3, <2>4 DEF Slides
  <2> QED BY <1>1, <1>5, <1>6, <1>11, <2>5
<1> QED BY <1>12, <1>13

\* A page is on its own side of the anchor.
LEMMA PageOnItsSide ==
    ASSUME CtxInv, NEW l \in loads, l.seq = fetchSeq, NEW r \in RawHits(l), NEW e \in Dirs, e # l.dir
    PROVE  /\ Out(e, r.ts) \in Int /\ Out(e, anchor.ts) \in Int /\ Out(e, FirstEdge(e)) \in Int
           /\ Out(e, r.ts) <= Out(e, anchor.ts)
           /\ Out(e, r.ts) < Out(e, FirstEdge(e))
<1>1. /\ l.dir \in Dirs /\ EndInv(l.dir) /\ r \in FoundBy(l) /\ r \in Matching /\ anchor # NoRow
  BY AnswerSees, AnswerBrings
<1>2. /\ r \in LogRows /\ r.ts \in Int /\ anchor \in LogRows /\ anchor.ts \in Int /\ Edge(l.dir) \in Int
      /\ FirstEdge(l.dir) \in Int
  BY <1>1, CtxNumbers
<1>3. Out(l.dir, FirstEdge(l.dir)) <= Out(l.dir, Edge(l.dir)) /\ Out(l.dir, Edge(l.dir)) <= Out(l.dir, r.ts)
  BY <1>1, AnswerSees DEF EndInv
<1>4. Out(l.dir, FirstEdge(l.dir)) <= Out(l.dir, r.ts)
  BY <1>2, <1>3 DEF Out
<1>5. CASE l.dir = "before"
  <2>1. e = "after"
    BY <1>5 DEF Dirs
  <2> QED BY <1>2, <1>4, <1>5, <2>1 DEF Out, FirstEdge
<1>6. CASE l.dir = "after"
  <2>1. e = "before"
    BY <1>6 DEF Dirs
  <2> QED BY <1>2, <1>4, <1>6, <2>1 DEF Out, FirstEdge
<1> QED BY <1>1, <1>5, <1>6 DEF Dirs

-----------------------------------------------------------------------------
(* An answer keeps what the sides have reached: the other side, the limit *)

\* The other side keeps what it has: the page lies behind the anchor from there.
LEMMA AnswerKeepsOther ==
    ASSUME CtxInv, NEW l \in loads, Answer(l), NEW e \in Dirs, e # l.dir
    PROVE  ReachInv(e)' /\ NoGapInv(e)' /\ EndInv(e)'
<1> DEFINE page == RawHits(l)
<1>1. /\ l.seq = fetchSeq /\ win'[e] = win[e] /\ side'[e] = side[e]
      /\ UNCHANGED <<stored, anchor, dated, chips, fetchSeq, known>>
  BY AnswerTurns
<1>2. Listed' = Listed \cup page /\ Matching' = Matching /\ WasThere' = WasThere
  BY AnswerLists
<1>3. /\ Edge(e)' = Edge(e) /\ FirstEdge(e)' = FirstEdge(e)
      /\ OfSecond(Edge(e))' = OfSecond(Edge(e)) /\ \A t : OfSecond(t)' = OfSecond(t)
  BY <1>1, <1>2 DEF Edge, FirstEdge, OfSecond
<1>4. ReachInv(e) /\ NoGapInv(e) /\ EndInv(e) /\ anchor \in Listed
  <2>1. anchor # NoRow
    BY <1>1, AnswerSees
  <2> QED BY <2>1 DEF CtxInv, SidesInv, EntriesInv
<1>5. ASSUME NEW r \in page
      PROVE  /\ Out(e, r.ts) \in Int /\ Out(e, anchor.ts) \in Int /\ Out(e, FirstEdge(e)) \in Int
             /\ Out(e, r.ts) <= Out(e, anchor.ts) /\ Out(e, r.ts) < Out(e, FirstEdge(e))
             /\ r \in LogRows
  <2>1. r \in LogRows
    BY <1>1, AnswerSees, AnswerBrings
  <2> QED BY <1>1, <2>1, PageOnItsSide
<1>6. ReachInv(e)'
  <2> SUFFICES ASSUME ~side[e].limited
               PROVE  \A r \in page : Out(e, r.ts) <= Out(e, Edge(e)) - win[e].empty * WINDOW_SECONDS
    BY <1>1, <1>2, <1>3, <1>4 DEF ReachInv
  <2> TAKE r \in page
  <2>1. Out(e, anchor.ts) <= Out(e, Edge(e)) - win[e].empty * WINDOW_SECONDS
    BY <1>4 DEF ReachInv
  <2>2. Out(e, Edge(e)) - win[e].empty * WINDOW_SECONDS \in Int
    <3>1. Edge(e) \in Int /\ win[e].empty \in Nat
      BY CtxNumbers
    <3>2. win[e].empty * WINDOW_SECONDS \in Nat
      BY <3>1, SlidesAreSeconds
    <3> QED BY <3>1, <3>2 DEF Out
  <2> QED BY <1>5, <2>1, <2>2
<1>7. NoGapInv(e)'
  <2> SUFFICES ASSUME NEW j \in page, NEW r \in WasThere, Ahead(e, r, j),
                      Out(e, FirstEdge(e)) <= Out(e, r.ts)
               PROVE  FALSE
    BY <1>1, <1>2, <1>3, <1>4 DEF NoGapInv
  <2>1. r \in LogRows
    BY CtxNumbers
  <2>2. Out(e, r.ts) <= Out(e, j.ts) /\ r.ts \in Int
    BY <1>5, <2>1, AheadIsOrder
  <2>3. Out(e, r.ts) \in Int
    BY <2>2 DEF Out
  <2> QED BY <1>5, <2>2, <2>3
<1>8. EndInv(e)'
  BY <1>1, <1>2, <1>3, <1>4 DEF EndInv
<1> QED BY <1>6, <1>7, <1>8

LEMMA AnswerLeavesNoGap ==
    ASSUME CtxInv, NEW l \in loads, Answer(l)
    PROVE  NoGapInv(l.dir)'
<1> DEFINE d == l.dir
           page == RawHits(l)
<1>1. /\ l.seq = fetchSeq /\ UNCHANGED anchor /\ NoGapInv(d)
  BY AnswerTurns, AnswerSees
<1>2. Listed' = Listed \cup page /\ WasThere' = WasThere /\ FirstEdge(d)' = FirstEdge(d)
  BY <1>1, AnswerLists DEF FirstEdge
<1>3. ASSUME NEW j \in page, NEW r \in WasThere, Ahead(d, r, j), Out(d, FirstEdge(d)) <= Out(d, r.ts)
      PROVE  r \in Listed \cup page
  BY <1>1, <1>3, PageLeavesNoGap
<1> QED BY <1>1, <1>2, <1>3 DEF NoGapInv

LEMMA AnswerStops ==
    ASSUME CtxInv, NEW l \in loads, Answer(l), StopsAtLimit(l)
    PROVE  /\ ReachInv(l.dir)' /\ EndInv(l.dir)'
           /\ win'[l.dir] \in Win /\ win'[l.dir].offset <= MAX_OFFSET
           /\ win'[l.dir].empty <= MAX_EMPTY_SLIDES
<1> DEFINE d == l.dir
           page == RawHits(l)
<1>1. /\ l.seq = fetchSeq /\ UNCHANGED <<stored, anchor, chips, known>>
      /\ EndInv(d) /\ d \in Dirs
  BY AnswerTurns, AnswerSees
<1>2. Listed' = Listed \cup page /\ Matching' = Matching /\ \A t : OfSecond(t)' = OfSecond(t)
  BY AnswerLists DEF OfSecond
<1>3. /\ win'[d].bound = win[d].bound /\ win'[d].offset = win[d].offset /\ win'[d].empty = 0
      /\ side'[d].limited /\ ~side'[d].noMore
  BY DEF StopsAtLimit
<1>4. Edge(d)' = Edge(d) /\ FirstEdge(d)' = FirstEdge(d)
  BY <1>1, <1>3 DEF Edge, FirstEdge
<1>5. OfSecond(Edge(d))' = OfSecond(Edge(d))
  BY <1>2, <1>4 DEF OfSecond
<1>6. \E r \in page : Cardinality(OfSecond(r.ts)) > MAX_OFFSET
  <2>1. FullPage(d, page).offset > MAX_OFFSET /\ Cardinality(page) >= PAGE_SIZE
    BY DEF StopsAtLimit
  <2>2. FullPage(d, page).offset \in Nat /\ FullPage(d, page).offset <= Cardinality(OfSecond(FullAt(l)))
    BY <1>1, <2>1, FullPageCounts
  <2>3. PICK r \in page : r.ts = FullAt(l)
    BY <1>1, <2>1, FullPageStands
  <2>4. MAX_OFFSET \in Nat /\ Cardinality(OfSecond(r.ts)) \in Nat
    BY CtxNumbers
  <2>5. Cardinality(OfSecond(r.ts)) > MAX_OFFSET
    <3>1. Cardinality(OfSecond(r.ts)) >= FullPage(d, page).offset
      BY <2>2, <2>3, <2>4
    <3> DEFINE o == FullPage(d, page).offset
    <3>2. o \in Nat /\ o > MAX_OFFSET /\ Cardinality(OfSecond(r.ts)) >= o
      BY <2>1, <2>2, <3>1
    <3> HIDE DEF o
    <3> QED BY <2>4, <3>2
  <2> QED BY <2>5
<1>7. ReachInv(d)'
  BY <1>3 DEF ReachInv
<1>8. EndInv(d)'
  <2>1. 0 < MAX_EMPTY_SLIDES
    BY CtxNumbers
  <2> QED BY <1>1, <1>2, <1>3, <1>4, <1>5, <1>6, <2>1 DEF EndInv
<1>9. win'[d] \in Win /\ win'[d].offset <= MAX_OFFSET /\ win'[d].empty <= MAX_EMPTY_SLIDES
  <2>1. win[d] \in Win /\ win[d].offset <= MAX_OFFSET
    BY <1>1 DEF CtxInv, CtxTypeOK
  <2>2. 0 <= MAX_EMPTY_SLIDES
    BY CtxNumbers
  <2>3. win'[d] = [bound |-> win[d].bound, offset |-> win[d].offset, empty |-> 0]
    BY DEF StopsAtLimit
  <2> QED BY <2>1, <2>2, <2>3 DEF Win
<1> QED BY <1>7, <1>8, <1>9

-----------------------------------------------------------------------------
(* An answer keeps what the sides have reached: the next page, the next window *)

LEMMA AnswerGoesOn ==
    ASSUME CtxInv, NEW l \in loads, Answer(l), GoesOnInPage(l)
    PROVE  /\ ReachInv(l.dir)' /\ EndInv(l.dir)'
           /\ win'[l.dir] \in Win /\ win'[l.dir].offset <= MAX_OFFSET
           /\ win'[l.dir].empty <= MAX_EMPTY_SLIDES
<1> DEFINE d == l.dir
           page == RawHits(l)
           last == FullAt(l)
           w == FullPage(d, page)
<1>1. /\ l.seq = fetchSeq /\ UNCHANGED <<stored, anchor, chips, known>>
      /\ EndInv(d) /\ ReachInv(d) /\ d \in Dirs /\ ~side[d].limited /\ anchor # NoRow
  BY AnswerTurns, AnswerSees
<1>2. /\ Cardinality(page) >= PAGE_SIZE /\ w.offset <= MAX_OFFSET /\ win'[d] = w
      /\ ~side'[d].limited /\ ~side'[d].noMore
  BY DEF GoesOnInPage
<1>3. /\ Listed' = Listed \cup page /\ Matching' = Matching /\ WasThere' = WasThere
      /\ FirstEdge(d)' = FirstEdge(d)
  BY <1>1, AnswerLists DEF FirstEdge
<1>4. /\ last \in Int /\ w.bound \in Int /\ w.empty = 0
      /\ (IF d = "before" THEN w.bound - 1 ELSE w.bound) = last
      /\ Out(d, Edge(d)) <= Out(d, last)
      /\ \E r \in page : r.ts = last
      /\ \A r \in page : Out(d, r.ts) <= Out(d, last)
  BY <1>1, <1>2, FullPageStands
<1>5. /\ w.offset \in Nat /\ w.offset <= Cardinality(OfSecond(last))
      /\ \A r \in WasThere : r.ts = last /\ Rank(d, r, OfSecond(last)) < w.offset => r \in Listed \cup page
  BY <1>1, <1>2, FullPageCounts
<1>6. Edge(d)' = last
  BY <1>2, <1>4 DEF Edge
<1>7. OfSecond(Edge(d))' = OfSecond(last)
  BY <1>3, <1>6 DEF OfSecond
<1>8. /\ Edge(d) \in Int /\ win[d].empty \in Nat /\ FirstEdge(d) \in Int /\ MAX_EMPTY_SLIDES > 0
      /\ \A r \in LogRows : r.ts \in Int
      /\ Listed \subseteq LogRows /\ WasThere \subseteq LogRows
  BY <1>1, CtxNumbers
<1>9. Out(d, last) \in Int /\ Out(d, Edge(d)) \in Int /\ Out(d, FirstEdge(d)) \in Int
  BY <1>4, <1>8 DEF Out
<1>10. ASSUME NEW r \in Listed \cup page PROVE Out(d, r.ts) <= Out(d, last) - 0 * WINDOW_SECONDS
  <2>1. Out(d, last) - 0 * WINDOW_SECONDS = Out(d, last)
    <3>1. 0 * WINDOW_SECONDS = 0
      BY SlidesAreSeconds
    <3> QED BY <1>9, <3>1
  <2>2. CASE r \in page
    BY <1>4, <2>1, <2>2
  <2>3. CASE r \in Listed
    <3>1. Out(d, r.ts) <= Out(d, Edge(d)) - win[d].empty * WINDOW_SECONDS
      BY <1>1, <2>3 DEF ReachInv
    <3>2. win[d].empty * WINDOW_SECONDS \in Nat
      BY <1>8, SlidesAreSeconds
    <3>3. Out(d, r.ts) \in Int
      BY <1>8, <2>3 DEF Out
    <3>4. Out(d, r.ts) <= Out(d, last)
      BY <1>4, <1>9, <3>1, <3>2, <3>3
    <3> QED BY <2>1, <3>4
  <2> QED BY <2>2, <2>3
<1>11. ASSUME NEW r \in WasThere, Out(d, FirstEdge(d)) <= Out(d, r.ts), Out(d, r.ts) < Out(d, last)
       PROVE  r \in Listed \cup page
  <2>1. PICK s \in page : s.ts = last
    BY <1>4
  <2>2. r \in LogRows /\ s \in LogRows
    BY <1>1, <1>8, AnswerSees, AnswerBrings
  <2>3. Ahead(d, r, s)
    BY <1>1, <1>11, <2>1, <2>2, AheadIsOrder
  <2> QED BY <1>1, <1>11, <2>3, PageLeavesNoGap
<1> HIDE DEF w, page, last
<1>12. ReachInv(d)'
  <2>1. win'[d].empty = 0 /\ win'[d].offset = w.offset
    BY <1>2, <1>4
  <2> QED BY <1>3, <1>5, <1>6, <1>7, <1>10, <1>11, <2>1 DEF ReachInv
<1>13. EndInv(d)'
  <2>1. Out(d, FirstEdge(d)) <= Out(d, last)
    BY <1>1, <1>4, <1>9 DEF EndInv
  <2> QED BY <1>2, <1>3, <1>4, <1>5, <1>6, <1>7, <1>8, <2>1 DEF EndInv
<1>14. win'[d] \in Win /\ win'[d].offset <= MAX_OFFSET /\ win'[d].empty <= MAX_EMPTY_SLIDES
  <2>1. w \in Win
    <3>1. w = [bound |-> w.bound, offset |-> w.offset, empty |-> w.empty]
      BY DEF FullPage, w
    <3> QED BY <1>4, <1>5, <3>1 DEF Win
  <2>2. 0 <= MAX_EMPTY_SLIDES
    BY CtxNumbers
  <2> QED BY <1>2, <1>4, <2>1, <2>2
<1> QED BY <1>12, <1>13, <1>14

\* One window further.
LEMMA SlideIsOut ==
    ASSUME NEW d \in Dirs, NEW t \in Int
    PROVE  t + SIGN[d] * WINDOW_SECONDS \in Int
           /\ Out(d, t + SIGN[d] * WINDOW_SECONDS) = Out(d, t) + WINDOW_SECONDS
<1>1. WINDOW_SECONDS \in Int
  BY ContextAssumption
<1>2. SIGN[d] * WINDOW_SECONDS = Out(d, WINDOW_SECONDS)
  BY <1>1, SignIsOut
<1> QED BY <1>1, <1>2 DEF Out

LEMMA AnswerSlides ==
    ASSUME CtxInv, NEW l \in loads, Answer(l), Slides(l)
    PROVE  /\ ReachInv(l.dir)' /\ EndInv(l.dir)'
           /\ win'[l.dir] \in Win /\ win'[l.dir].offset <= MAX_OFFSET
           /\ win'[l.dir].empty <= MAX_EMPTY_SLIDES
<1> DEFINE d == l.dir
           page == RawHits(l)
           w == ShortPage(d, page)
           next == Edge(d) + SIGN[d] * WINDOW_SECONDS
<1>1. /\ l.seq = fetchSeq /\ UNCHANGED <<stored, anchor, chips, known>>
      /\ EndInv(d) /\ ReachInv(d) /\ d \in Dirs /\ ~side[d].limited /\ ~side[d].noMore
      /\ anchor # NoRow /\ FoundBy(l) \in SUBSET Matching /\ page \in SUBSET FoundBy(l)
  BY AnswerTurns, AnswerSees, AnswerBrings
<1>2. /\ Cardinality(page) < PAGE_SIZE /\ win'[d] = w /\ ~side'[d].limited
      /\ side'[d].noMore <=> w.empty >= MAX_EMPTY_SLIDES
  BY DEF Slides
<1>3. /\ Listed' = Listed \cup page /\ Matching' = Matching /\ WasThere' = WasThere
      /\ FirstEdge(d)' = FirstEdge(d)
  BY <1>1, AnswerLists DEF FirstEdge
<1>4. /\ w.bound = win[d].bound + SIGN[d] * WINDOW_SECONDS /\ w.offset = 0
      /\ w.empty = IF page = {} THEN win[d].empty + 1 ELSE 0
  BY DEF ShortPage
<1>5. /\ Edge(d) \in Int /\ win[d].bound \in Int /\ win[d].empty \in Nat /\ FirstEdge(d) \in Int
      /\ WINDOW_SECONDS \in Nat \ {0} /\ MAX_EMPTY_SLIDES \in Nat \ {0}
      /\ Listed \subseteq LogRows /\ WasThere \subseteq LogRows /\ Matching \subseteq LogRows
      /\ WasThere \subseteq Matching /\ \A r \in LogRows : r.ts \in Int
  BY <1>1, CtxNumbers
<1>6. /\ next \in Int /\ Out(d, next) = Out(d, Edge(d)) + WINDOW_SECONDS
      /\ w.bound \in Int
  <2>1. w.bound \in Int
    BY <1>1, <1>4, <1>5, SlideIsOut
  <2> QED BY <1>1, <1>5, <2>1, SlideIsOut
<1>7. Edge(d)' = next
  <2>1. SIGN[d] * WINDOW_SECONDS \in Int
    <3>1. SIGN[d] * WINDOW_SECONDS = Out(d, WINDOW_SECONDS)
      BY <1>1, <1>5, SignIsOut
    <3> QED BY <1>5, <3>1 DEF Out
  <2>2. Edge(d)' = IF d = "before" THEN w.bound - 1 ELSE w.bound
    BY <1>2 DEF Edge
  <2> DEFINE s == SIGN[d] * WINDOW_SECONDS
  <2>3. s \in Int /\ w.bound = win[d].bound + s /\ next = Edge(d) + s
    BY <1>4, <2>1
  <2> HIDE DEF s, next, w
  <2> QED BY <1>5, <2>2, <2>3 DEF Edge
<1>8. Out(d, next) \in Int /\ Out(d, Edge(d)) \in Int /\ Out(d, FirstEdge(d)) \in Int
  <2> HIDE DEF next
  <2> QED BY <1>5, <1>6 DEF Out
<1>9. /\ w.empty \in Nat /\ w.empty <= MAX_EMPTY_SLIDES
      /\ IF side'[d].noMore THEN w.empty = MAX_EMPTY_SLIDES ELSE w.empty < MAX_EMPTY_SLIDES
  <2>1. win[d].empty < MAX_EMPTY_SLIDES
    BY <1>1 DEF EndInv
  <2>2. w.empty \in Nat /\ w.empty <= MAX_EMPTY_SLIDES
    <3> HIDE DEF w, page
    <3> QED BY <1>4, <1>5, <2>1
  <2> HIDE DEF w
  <2> QED BY <1>2, <1>5, <2>2
<1>10. ASSUME NEW r \in Listed PROVE Out(d, r.ts) <= Out(d, Edge(d)) - win[d].empty * WINDOW_SECONDS
                                     /\ Out(d, r.ts) \in Int
  <2>1. r.ts \in Int
    BY <1>5
  <2> QED BY <1>1, <1>10, <2>1 DEF ReachInv, Out
<1>11. win[d].empty * WINDOW_SECONDS \in Nat
       /\ (win[d].empty + 1) * WINDOW_SECONDS = win[d].empty * WINDOW_SECONDS + WINDOW_SECONDS
       /\ 0 * WINDOW_SECONDS = 0
  BY <1>5, SlidesAreSeconds
<1>12. ASSUME NEW r \in Listed \cup page PROVE Out(d, r.ts) <= Out(d, next) - w.empty * WINDOW_SECONDS
  <2>1. CASE page = {}
    <3>1. w.empty * WINDOW_SECONDS = win[d].empty * WINDOW_SECONDS + WINDOW_SECONDS
      <4>1. w.empty = win[d].empty + 1
        BY <1>4, <2>1
      <4> QED BY <1>11, <4>1
    <3> HIDE DEF next, w
    <3> DEFINE gone == win[d].empty * WINDOW_SECONDS
               left == w.empty * WINDOW_SECONDS
    <3>2. gone \in Nat /\ left = gone + WINDOW_SECONDS /\ Out(d, r.ts) <= Out(d, Edge(d)) - gone
          /\ Out(d, r.ts) \in Int
      <4>1. r \in Listed
        BY <2>1
      <4> QED BY <1>10, <1>11, <3>1, <4>1
    <3> HIDE DEF gone, left
    <3>3. Out(d, r.ts) <= Out(d, next) - left
      BY <1>5, <1>6, <1>8, <3>2
    <3> QED BY <3>3 DEF left
  <2>2. CASE page # {}
    <3>1. w.empty * WINDOW_SECONDS = 0
      BY <1>4, <1>11, <2>2
    <3>2. Out(d, r.ts) <= Out(d, next)
      <4> HIDE DEF next, w
      <4>1. CASE r \in Listed
        <5> DEFINE gone == win[d].empty * WINDOW_SECONDS
        <5>1. gone \in Nat /\ Out(d, r.ts) <= Out(d, Edge(d)) - gone /\ Out(d, r.ts) \in Int
          BY <1>10, <1>11, <4>1
        <5> HIDE DEF gone
        <5> QED BY <1>5, <1>6, <1>8, <5>1
      <4>2. CASE r \in page
        <5>1. Out(d, r.ts) < Out(d, Edge(d)) + WINDOW_SECONDS /\ r \in LogRows
          BY <1>1, <1>5, <4>2, AnswerSees
        <5>2. Out(d, r.ts) \in Int
          BY <1>5, <5>1 DEF Out
        <5> QED BY <1>5, <1>6, <1>8, <5>1, <5>2
      <4> QED BY <4>1, <4>2
    <3> HIDE DEF next, w
    <3>3. Out(d, next) - w.empty * WINDOW_SECONDS = Out(d, next)
      BY <1>8, <3>1
    <3> QED BY <3>2, <3>3
  <2> QED BY <2>1, <2>2
<1>13. ASSUME NEW r \in WasThere, Out(d, FirstEdge(d)) <= Out(d, r.ts), Out(d, r.ts) < Out(d, next)
       PROVE  r \in Listed \cup page
  <2>1. r \in Matching /\ Out(d, r.ts) \in Int
    <3>1. r \in Matching /\ r.ts \in Int
      BY <1>5
    <3> QED BY <3>1 DEF Out
  <2>2. CASE Out(d, r.ts) < Out(d, Edge(d))
    BY <1>1, <1>13, <2>2 DEF ReachInv
  <2>3. CASE ~(Out(d, r.ts) < Out(d, Edge(d)))
    <3>1. Out(d, Edge(d)) <= Out(d, r.ts) /\ Out(d, r.ts) < Out(d, Edge(d)) + WINDOW_SECONDS
      <4> HIDE DEF next
      <4> QED BY <1>6, <1>8, <1>13, <2>1, <2>3
    <3>2. r \in FoundBy(l)
      BY <1>1, <2>1, <3>1, AnswerSees
    <3>3. Rank(d, r, FoundBy(l)) < win[d].offset + PAGE_SIZE
      BY <1>1, <1>2, <3>2, AnswerBrings
    <3> QED BY <1>1, <3>2, <3>3, PageCovers
  <2> QED BY <2>2, <2>3
<1>14. ASSUME NEW t, NEW r \in WasThere PROVE ~(Rank(d, r, OfSecond(t)) < 0)
  <2>1. Rank(d, r, OfSecond(t)) \in Nat
    <3>1. OfSecond(t) \in SUBSET LogRows /\ IsFiniteSet(OfSecond(t)) /\ r \in LogRows
      BY <1>5, CtxNumbers
    <3> HIDE DEF d
    <3> QED BY <1>1, <3>1, RankGrows
  <2> QED BY <2>1
<1> HIDE DEF w, page, next
<1>15. ReachInv(d)'
  <2>1. win'[d].empty = w.empty /\ win'[d].offset = 0
    BY <1>2, <1>4
  <2>2. OfSecond(Edge(d))' = OfSecond(next)
    BY <1>3, <1>7 DEF OfSecond
  <2> QED BY <1>3, <1>7, <1>12, <1>13, <1>14, <2>1, <2>2 DEF ReachInv
<1>16. EndInv(d)'
  <2>1. Out(d, FirstEdge(d)) <= Out(d, next)
    BY <1>1, <1>5, <1>6, <1>8 DEF EndInv
  <2>2. OfSecond(Edge(d))' = OfSecond(next)
    BY <1>3, <1>7 DEF OfSecond
  <2>3. 0 <= Cardinality(OfSecond(next))
    <3>1. Cardinality(OfSecond(next)) \in Nat
      BY CtxNumbers
    <3> QED BY <3>1
  <2>4. win'[d].empty = w.empty /\ win'[d].offset = 0
    BY <1>2, <1>4
  <2> QED BY <1>2, <1>3, <1>7, <1>9, <2>1, <2>2, <2>3, <2>4 DEF EndInv
<1>17. win'[d] \in Win /\ win'[d].offset <= MAX_OFFSET /\ win'[d].empty <= MAX_EMPTY_SLIDES
  <2>1. w = [bound |-> w.bound, offset |-> w.offset, empty |-> w.empty]
    BY DEF ShortPage, w
  <2>2. w \in Win
    BY <1>4, <1>6, <1>9, <2>1 DEF Win
  <2>3. 0 <= MAX_OFFSET
    BY CtxNumbers
  <2> QED BY <1>2, <1>4, <1>9, <2>2, <2>3
<1> QED BY <1>15, <1>16, <1>17

-----------------------------------------------------------------------------
(* The theorems *)

LEMMA Answer_Inv == ASSUME CtxInv, NEW l \in loads, Answer(l) PROVE CtxInv'
<1>1. /\ l.seq = fetchSeq /\ loads' = loads \ {l} /\ DOMAIN win' = Dirs
      /\ UNCHANGED <<stored, anchor, dated, chips, fetchSeq, known>>
      /\ \A e \in Dirs : e # l.dir => win'[e] = win[e] /\ side'[e] = side[e]
      /\ side' \in [Dirs -> Side] /\ side'[l.dir].loading = FALSE
      /\ StopsAtLimit(l) \/ GoesOnInPage(l) \/ Slides(l)
  BY AnswerTurns
<1>2. l.dir \in Dirs /\ anchor # NoRow
  BY <1>1, AnswerSees
<1>3. /\ ReachInv(l.dir)' /\ EndInv(l.dir)'
      /\ win'[l.dir] \in Win /\ win'[l.dir].offset <= MAX_OFFSET
      /\ win'[l.dir].empty <= MAX_EMPTY_SLIDES
  BY <1>1, AnswerStops, AnswerGoesOn, AnswerSlides
<1>4. entries' \in Seq(LogRows) /\ EntriesInv'
  BY AnswerLists
<1>5. CtxTypeOK'
  <2>1. \A e \in Dirs : win'[e] \in Win /\ win'[e].offset <= MAX_OFFSET
                          /\ win'[e].empty <= MAX_EMPTY_SLIDES
    BY <1>1, <1>3 DEF CtxInv, CtxTypeOK
  <2>2. loadingInitial' \in BOOLEAN
    BY DEF Answer, InitialDone
  <2> QED BY <1>1, <1>4, <2>1, <2>2 DEF CtxInv, CtxTypeOK
<1>6. CtxLoadsInv'
  BY <1>1, LoadEnds
<1>7. SidesInv'
  <2> SUFFICES ASSUME NEW d \in Dirs PROVE ReachInv(d)' /\ NoGapInv(d)' /\ EndInv(d)'
    BY DEF SidesInv
  <2>1. CASE d = l.dir
    <3>1. NoGapInv(l.dir)'
      BY AnswerLeavesNoGap
    <3> QED BY <1>3, <2>1, <3>1
  <2>2. CASE d # l.dir
    BY <2>2, AnswerKeepsOther
  <2> QED BY <2>1, <2>2
<1>8. ClosedInv'
  BY <1>1, <1>2 DEF ClosedInv
<1> QED BY <1>1, <1>4, <1>5, <1>6, <1>7, <1>8 DEF CtxInv

LEMMA CtxNext_Inv == CtxInv /\ [CtxNext]_ctxVars => CtxInv'
<1> SUFFICES ASSUME CtxInv, [CtxNext]_ctxVars PROVE CtxInv'
  OBVIOUS
<1>1. CASE \E corpus \in Corpora, isDated, chipped \in BOOLEAN :
             \E a \in corpus : Open(corpus, a, isDated, chipped)
  BY <1>1, Open_Inv
<1>2. CASE \/ \E k \in DOMAIN entries : Reanchor(entries[k])
           \/ \E chipped \in BOOLEAN : SetChips(chipped)
  BY <1>2, Restart_Inv
<1>3. CASE \E r \in LateRows : Ingest(r)
  BY <1>3, Ingest_Inv
<1>4. CASE \E d \in Dirs, retry \in BOOLEAN : LoadMore(d, retry)
  BY <1>4, LoadMore_Inv
<1>5. ASSUME NEW l \in loads, Answer(l) \/ LoadFails(l) \/ Superseded(l) PROVE CtxInv'
  BY <1>5, Answer_Inv, LoadFails_Inv, Superseded_Inv
<1>6. CASE UNCHANGED ctxVars
  <2>1. UNCHANGED <<stored, anchor, dated, chips, entries, loadingInitial, side, win, fetchSeq,
                    loads, known>>
    BY <1>6 DEF ctxVars
  <2>2. CtxTypeOK' /\ ClosedInv' /\ DOMAIN win' = Dirs /\ CtxLoadsInv'
    BY <2>1 DEF CtxInv, CtxTypeOK, ClosedInv, CtxLoadsInv
  <2>3. EntriesInv' /\ SidesInv'
    BY <2>1, SidesKept
  <2> QED BY <2>2, <2>3 DEF CtxInv
<1> QED BY <1>1, <1>2, <1>3, <1>4, <1>5, <1>6 DEF CtxNext

\* A list whose rows are all different has as many places as rows.
LEMMA ListsCount ==
    ASSUME NEW sq \in Seq(LogRows), IsList(sq)
    PROVE  Len(sq) = Cardinality(ToSet(sq))
<1>1. Len(sq) \in Nat /\ DOMAIN sq = 1..Len(sq)
  OBVIOUS
<1>2. [k \in 1..Len(sq) |-> sq[k]] \in Bijection(1..Len(sq), ToSet(sq))
  BY <1>1 DEF Bijection, Injection, Surjection, IsInjective, ToSet, IsList
<1>3. IsFiniteSet(1..Len(sq)) /\ Cardinality(1..Len(sq)) = Len(sq)
  BY <1>1, FS_Interval
<1>4. ExistsBijection(1..Len(sq), ToSet(sq))
  BY <1>2 DEF ExistsBijection
<1> QED BY <1>3, <1>4, FS_Bijection

LEMMA CtxInv_Gapless == ASSUME CtxInv PROVE Gapless
<1>1. entries \in Seq(LogRows) /\ IsList(entries) /\ Listed \subseteq Matching
  BY DEF CtxInv, CtxTypeOK, EntriesInv
<1>2. Len(entries) = Cardinality(Listed)
  BY <1>1, ListsCount DEF Listed
<1>3. NewestFirst
  <2>1. \A k \in 1..(Len(entries) - 1) : k \in DOMAIN entries /\ k + 1 \in DOMAIN entries /\ k < k + 1
    BY <1>1
  <2> QED BY <1>1, <2>1 DEF NewestFirst, IsList, Matching
<1>4. ASSUME NEW r \in WasThere, NEW a \in Listed \ {anchor}, NEW b \in Listed \ {anchor},
             Earlier(a, r), Earlier(r, b)
      PROVE  r \in Listed
  <2>1. anchor # NoRow
    BY <1>1, <1>4 DEF CtxInv, ClosedInv, WasThere, Matches
  <2>2. \A d \in Dirs : NoGapInv(d)
    BY <2>1 DEF CtxInv, SidesInv
  <2>3. anchor.ts \in Int /\ r.ts \in Int /\ "before" \in Dirs /\ "after" \in Dirs
    BY <2>1, CtxNumbers DEF Dirs
  <2>4. CASE r.ts < anchor.ts
    <3>1. Ahead("before", r, a)
      BY <1>4 DEF Ahead, Later
    <3>2. Out("before", FirstEdge("before")) <= Out("before", r.ts)
      BY <2>3, <2>4 DEF Out, FirstEdge
    <3> QED BY <2>2, <2>3, <3>1, <3>2 DEF NoGapInv
  <2>5. CASE ~(r.ts < anchor.ts)
    <3>1. Ahead("after", r, b)
      BY <1>4 DEF Ahead
    <3>2. Out("after", FirstEdge("after")) <= Out("after", r.ts)
      BY <2>3, <2>5 DEF Out, FirstEdge
    <3> QED BY <2>2, <2>3, <3>1, <3>2 DEF NoGapInv
  <2> QED BY <2>4, <2>5
<1>5. NoLogSkipped
  BY <1>2, <1>4 DEF NoLogSkipped, WasThere
<1> QED BY <1>3, <1>5 DEF Gapless

LEMMA CtxInv_EndIsTrue == ASSUME CtxInv PROVE EndIsTrue
<1>1. CASE anchor = NoRow
  <2>1. \A d \in Dirs : side[d].noMore = FALSE /\ side[d].limited = FALSE
    BY <1>1 DEF CtxInv, ClosedInv, createDirectionState
  <2> QED BY <2>1 DEF EndIsTrue, Dirs
<1>2. CASE anchor # NoRow
  <2>1. \A d \in Dirs : ReachInv(d) /\ EndInv(d)
    BY <1>2 DEF CtxInv, SidesInv
  <2>2. ASSUME NEW d \in Dirs, side[d].noMore, NEW r \in WasThere, r \notin Listed,
               Out(d, FirstEdge(d)) <= Out(d, r.ts), NEW a \in Listed
        PROVE  Gap \in Int /\ Out(d, r.ts) - Out(d, a.ts) >= Gap /\ a.ts \in Int /\ r.ts \in Int
    <3>1. ~side[d].limited /\ win[d].empty = MAX_EMPTY_SLIDES
      BY <2>1, <2>2 DEF EndInv
    <3>2. Out(d, a.ts) <= Out(d, Edge(d)) - Gap
      BY <2>1, <3>1 DEF ReachInv, Gap
    <3>3. ~(Out(d, r.ts) < Out(d, Edge(d)))
      BY <2>1, <2>2, <3>1 DEF ReachInv
    <3>4. a.ts \in Int /\ r.ts \in Int /\ Edge(d) \in Int
      BY CtxNumbers
    <3>5. Gap \in Nat
      BY CtxNumbers, SlidesAreSeconds DEF Gap
    <3>6. Out(d, a.ts) \in Int /\ Out(d, r.ts) \in Int /\ Out(d, Edge(d)) \in Int
      BY <3>4 DEF Out
    <3> QED BY <3>2, <3>3, <3>4, <3>5, <3>6
  <2>3. anchor.ts \in Int /\ "before" \in Dirs /\ "after" \in Dirs
        /\ \A r \in WasThere : r.ts \in Int
    BY <1>2, CtxNumbers DEF Dirs
  <2>4. ASSUME side["before"].noMore, NEW r \in WasThere, r.ts < anchor.ts, r \notin Listed,
               NEW a \in Listed
        PROVE  a.ts - r.ts >= Gap
    <3>1. Out("before", FirstEdge("before")) <= Out("before", r.ts)
      BY <2>3, <2>4 DEF Out, FirstEdge
    <3>2. Gap \in Int /\ Out("before", r.ts) - Out("before", a.ts) >= Gap /\ a.ts \in Int /\ r.ts \in Int
      BY <2>2, <2>3, <2>4, <3>1
    <3> QED BY <3>2 DEF Out
  <2>5. ASSUME side["after"].noMore, NEW r \in WasThere, r.ts >= anchor.ts, r \notin Listed,
               NEW a \in Listed
        PROVE  r.ts - a.ts >= Gap
    <3>1. Out("after", FirstEdge("after")) <= Out("after", r.ts)
      BY <2>3, <2>5 DEF Out, FirstEdge
    <3>2. Gap \in Int /\ Out("after", r.ts) - Out("after", a.ts) >= Gap /\ a.ts \in Int /\ r.ts \in Int
      BY <2>2, <2>3, <2>5, <3>1
    <3> QED BY <3>2 DEF Out
  <2>6. \A d \in Dirs : side[d].limited =>
          \E r \in Listed : Cardinality({q \in Matches(stored, chips) : q.ts = r.ts}) > MAX_OFFSET
    BY <2>1 DEF EndInv, OfSecond, Matching
  <2> QED BY <2>4, <2>5, <2>6 DEF EndIsTrue, WasThere
<1> QED BY <1>1, <1>2

LEMMA CtxInv_Busy == ASSUME CtxInv PROVE CtxBusyIffLoading
  BY DEF CtxInv, CtxLoadsInv, CtxBusyIffLoading

LEMMA CtxCorrect == CtxSpec => []CtxInv
<1> QED BY CtxInit_Inv, CtxNext_Inv, PTL DEF CtxSpec

\* What paging shows around a log is a stretch of what is stored: nothing is skipped
\* between two rows, nothing is twice, and the newest comes first.
THEOREM ContextHasNoGap == CtxSpec => []Gapless
  BY CtxCorrect, CtxInv_Gapless, PTL

\* "No older logs" and the pagination limit are said only when they are so.
THEOREM ContextEndIsTrue == CtxSpec => []EndIsTrue
  BY CtxCorrect, CtxInv_EndIsTrue, PTL

\* A side shows its spinner while, and only while, a load of it counts.
THEOREM ContextBusyIsLoading == CtxSpec => []CtxBusyIffLoading
  BY CtxCorrect, CtxInv_Busy, PTL

THEOREM ContextTypeCorrect == CtxSpec => []CtxTypeOK
<1>1. CtxInv => CtxTypeOK
  BY DEF CtxInv
<1> QED BY <1>1, CtxCorrect, PTL

=============================================================================
