------------------------------ MODULE TraceView ------------------------------
(***************************************************************************)
(* One trace, from the span documents of Quickwit to the waterfall:        *)
(* api/services/trace.service.ts drops what it cannot place and collapses  *)
(* duplicates, web/components/traces/trace-model.ts builds the tree and    *)
(* span-stats.ts walks it and computes self times.                         *)
(*                                                                         *)
(* The answer of the search grows one document at a time, earliest start   *)
(* first; every prefix is a trace the page may be asked to show.           *)
(*                                                                         *)
(* Abstractions.  Times are whole microseconds from some zero; a missing   *)
(* end is one before the start.  A document without a span_id or a start   *)
(* is a model value.  A trace of more than MAX_TRACE_SPANS documents,      *)
(* which Quickwit's count marks as truncated, is left out, and so are      *)
(* names, services, attributes, resources and events.                      *)
(***************************************************************************)
EXTENDS Naturals, Sequences, FiniteSets, SequencesExt

CONSTANTS
    SpanIds,
    NoSpanId,          \* no parent_span_id
    Times,             \* start and end timestamps
    Unreadable,        \* a document without a span_id or a start
    MAX_TRACE_SPANS

ASSUME TraceViewAssumption ==
    /\ NoSpanId \notin SpanIds
    /\ Times \subseteq Nat
    /\ MAX_TRACE_SPANS \in Nat

Document == [id : SpanIds, parent : SpanIds \cup {NoSpanId}, start : Times, end : Times]

VARIABLE documents    \* what the search returns

traceVars == <<documents>>

TraceInit == documents = <<>>

Readable(d) == d # Unreadable

\* A document that comes after those there are.
Found(d) ==
    /\ Len(documents) < MAX_TRACE_SPANS
    /\ Readable(d) => \A k \in DOMAIN documents : Readable(documents[k]) => documents[k].start <= d.start
    /\ documents' = Append(documents, d)

TraceNext == \E d \in Document \cup {Unreadable} : Found(d)

TraceSpec == TraceInit /\ [][TraceNext]_traceVars

-----------------------------------------------------------------------------
(* getTrace *)

\* Some document is not in the answer.
Truncated == \E k \in DOMAIN documents : ~Readable(documents[k])

\* The documents of which a span is made: the first of each id.
Kept(k) == Readable(documents[k]) /\ \A j \in 1..(k - 1) : Readable(documents[j]) => documents[j].id # documents[k].id

Duration(d) == IF d.end > d.start THEN d.end - d.start ELSE 0

\* The members of a set, each after those that come before it.
Sorted(S, before) ==
    CHOOSE s \in [1..Cardinality(S) -> S] : \A m, n \in DOMAIN s : m < n => <<s[m], s[n]>> \in before

AsTheyCame(places) == {p \in places \X places : p[1] < p[2]}

\* The spans of the response, their starts relative to the first.
Spans ==
    LET order == Sorted({k \in DOMAIN documents : Kept(k)}, AsTheyCame(DOMAIN documents))
    IN  [k \in DOMAIN order |->
           [id |-> documents[order[k]].id,
            parent |-> documents[order[k]].parent,
            start |-> documents[order[k]].start - documents[order[1]].start,
            duration |-> Duration(documents[order[k]])]]

-----------------------------------------------------------------------------
(* buildTraceModel *)

\* The spans are referred to by their places in the response; 0 is none.
Parent(spans, k) ==
    LET p == {j \in DOMAIN spans : spans[j].id = spans[k].parent /\ j # k}
    IN  IF p = {} THEN 0 ELSE CHOOSE j \in p : TRUE

\* All that hang below a span, itself included: what every set has that has the
\* span, and with a span also its children.
Below(parent, k) ==
    LET downward == {S \in SUBSET DOMAIN parent :
                       k \in S /\ \A j \in DOMAIN parent : parent[j] \in S => j \in S}
    IN  {j \in DOMAIN parent : \A S \in downward : j \in S}

Parentless(parent) == {k \in DOMAIN parent : parent[k] = 0}

\* The walk starts at the spans without a parent here, then at each span, as they
\* came, that it has not been led to.
Roots(parent) ==
    LET walked(k) == Parentless(parent) \cup {j \in DOMAIN parent : j < k}
    IN  Parentless(parent)
          \cup {k \in DOMAIN parent : \A j \in walked(k) : k \notin Below(parent, j)}

\* Mutation: spans that no parentless span leads to are left out.
TreeOfParentless(spans) ==
    LET parent == [k \in DOMAIN spans |-> Parent(spans, k)]
    IN  [spans |-> spans, parent |-> parent, roots |-> Parentless(parent),
         children |-> [k \in DOMAIN spans |-> {j \in DOMAIN spans : parent[j] = k}]]

\* A child that is a root was visited before its parent and is dropped there.
TreeOf(spans) ==
    LET parent == [k \in DOMAIN spans |-> Parent(spans, k)]
        roots == Roots(parent)
    IN  [spans |-> spans, parent |-> parent, roots |-> roots,
         children |-> [k \in DOMAIN spans |-> {j \in DOMAIN spans \ roots : parent[j] = k}]]

\* Spans or intervals by their start, as they came where those are equal.
ByStart(starting) ==
    {p \in (DOMAIN starting) \X DOMAIN starting :
       \/ starting[p[1]].start < starting[p[2]].start
       \/ starting[p[1]].start = starting[p[2]].start /\ p[1] < p[2]}

Siblings(tree, S) == Sorted(S, ByStart(tree.spans))

\* Parentless roots come before those of a cycle with the same start.
RootOrder(tree) ==
    LET start(k) == tree.spans[k].start
        cyclic == {k \in tree.roots : tree.parent[k] # 0}
    IN  Sorted(tree.roots,
          {p \in tree.roots \X tree.roots :
             \/ start(p[1]) < start(p[2])
             \/ /\ start(p[1]) = start(p[2])
                /\ \/ p[1] \notin cyclic /\ p[2] \in cyclic
                   \/ (p[1] \in cyclic <=> p[2] \in cyclic) /\ p[1] < p[2]})

\* One turn of the loop: the next pending span is shown and makes way for its children.
Turn(tree, walk) ==
    IF walk.pending = <<>> THEN walk
    ELSE [shown |-> Append(walk.shown, Head(walk.pending)),
          pending |-> Siblings(tree, tree.children[Head(walk.pending)]) \o Tail(walk.pending)]

\* spansInTreeOrder, for one turn more than there are spans: a walk that shows one
\* of them again shows too many.
TreeOrder(tree) ==
    LET walk[n \in 0..(Len(tree.spans) + 1)] ==
          IF n = 0 THEN [shown |-> <<>>, pending |-> RootOrder(tree)]
          ELSE Turn(tree, walk[n - 1])
    IN  walk[Len(tree.spans) + 1].shown

-----------------------------------------------------------------------------
(* selfMicros *)

Clamp(spans, k, c) ==
    LET end == spans[k].start + spans[k].duration
        to == spans[c].start + spans[c].duration
    IN  [start |-> IF spans[c].start > spans[k].start THEN spans[c].start ELSE spans[k].start,
         end |-> IF to < end THEN to ELSE end]

\* Mutation: an interval that touches or overlaps the one before replaces its end.
MergeShrinking(acc, i) ==
    IF i.start > acc.end
      THEN [covered |-> acc.covered + acc.end - acc.start, start |-> i.start, end |-> i.end]
      ELSE [acc EXCEPT !.end = i.end]

\* One turn of the loop over the sorted intervals.
Merge(acc, i) ==
    IF i.start > acc.end
      THEN [covered |-> acc.covered + acc.end - acc.start, start |-> i.start, end |-> i.end]
      ELSE [acc EXCEPT !.end = IF i.end > @ THEN i.end ELSE @]

\* The loop over the sorted intervals.
Sweep(intervals) ==
    LET swept[n \in DOMAIN intervals] ==
          IF n = 1 THEN [covered |-> 0, start |-> intervals[1].start, end |-> intervals[1].end]
          ELSE Merge(swept[n - 1], intervals[n])
    IN  swept[Len(intervals)]

SelfMicros(tree, k) ==
    LET duration == tree.spans[k].duration
        clamped == [c \in tree.children[k] |-> Clamp(tree.spans, k, c)]
        overlapping == {c \in DOMAIN clamped : clamped[c].end > clamped[c].start}
        sorted == Sorted(overlapping, ByStart(clamped))
        swept == Sweep([n \in DOMAIN sorted |-> clamped[sorted[n]]])
        covered == swept.covered + swept.end - swept.start
    IN  IF overlapping = {} THEN duration
        ELSE IF covered > duration THEN 0 ELSE duration - covered

-----------------------------------------------------------------------------
(* Properties *)

\* Any sequence of documents, and what is made of it: no span starts before the
\* trace or lasts less than no time.
TraceTypeOK ==
    /\ documents \in Seq(Document \cup {Unreadable})
    /\ Len(documents) <= MAX_TRACE_SPANS
    /\ \A k \in DOMAIN Spans : Spans[k].start \in Nat /\ Spans[k].duration \in Nat

\* The waterfall has every span of the trace exactly once, whatever parents are
\* missing, are their own, or form a cycle; and a trace with documents that are
\* not in it is marked as truncated.
EverySpanShown ==
    LET spans == Spans
        order == TreeOrder(TreeOf(spans))
    IN  /\ Len(order) = Len(spans)
        /\ ToSet(order) = DOMAIN spans
        /\ ~Truncated => {documents[k].id : k \in DOMAIN documents} = {spans[k].id : k \in DOMAIN spans}

\* A span whose chain of parents ends is shown below its parent: after it, with
\* nothing but other spans below the parent in between.
ShownBelowParent ==
    LET tree == TreeOf(Spans)
        order == TreeOrder(tree)
        placed == UNION {Below(tree.parent, r) : r \in Parentless(tree.parent)}
    IN  \A a, b \in DOMAIN order :
          order[a] \in placed /\ order[b] = tree.parent[order[a]] =>
            /\ b < a
            /\ \A n \in (b + 1)..a : order[n] \in Below(tree.parent, order[b])

Microseconds(span) == span.start..(span.start + span.duration - 1)

\* The time a span spent itself is the microseconds of it that no child covers,
\* however the children overlap it and each other.
SelfTimeIsUncovered ==
    LET tree == TreeOf(Spans)
    IN  \A k \in DOMAIN tree.spans :
          SelfMicros(tree, k) =
            Cardinality(Microseconds(tree.spans[k])
                            \ UNION {Microseconds(tree.spans[c]) : c \in tree.children[k]})

\* The waterfall is the whole trace, every span under its parent.
WaterfallComplete == EverySpanShown /\ ShownBelowParent

=============================================================================
