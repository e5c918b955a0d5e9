------------------------------- MODULE MCWeb -------------------------------
(***************************************************************************)
(* The parts of the web app that share no state, checked in one run: the   *)
(* part is chosen at the start and only it moves, so that the states of    *)
(* the parts add up and do not multiply.  An invariant of one part is thus *)
(* checked in all of that part's states.                                   *)
(***************************************************************************)
EXTENDS Preferences, ContextLoader, ListPaging, SavedViews, TraceView, FieldValues, TLC

CONSTANTS z1, z2, d1, d2, g1, e1   \* indexes, fields, a query and a range of the panel

VARIABLE part

webVars == <<prefsVars, ctxVars, pagingVars, viewsVars, traceVars, panelVars, part>>

Parts == {"preferences", "context", "paging", "views", "trace", "panel"}

-----------------------------------------------------------------------------
(* Instances *)

\* Four logs in second s; the chips match all but the second of them.
Log(s, k) == [ts |-> s, n |-> k, same |-> k # 2]
Second(s, k) == {Log(s, j) : j \in 1..k}

\* A second with more logs than MAX_OFFSET; full seconds next to a gap.
WebCorpora == {Second(1, 1) \cup Second(3, 4) \cup Second(4, 1),
               Second(0, 1) \cup Second(5, 3) \cup Second(6, 3) \cup Second(7, 1)}
WebAnchors == {Log(3, 3), Log(4, 1), Log(7, 1)}
WebLate == {Log(3, 0)}
WebLogs == (UNION WebCorpora) \cup WebLate

\* The second index lacks a field.
WebFieldsOf == [i \in PanelIndexes |-> IF i = z1 THEN {d1, d2} ELSE {d1}]

Interchangeable ==
    Permutations(PrefIndexes) \cup Permutations(SpanIds)

-----------------------------------------------------------------------------

\* Rows of preferences make a difference to their part only, and the two index
\* selections to none of the others.
WebInit ==
    /\ PrefsInit /\ CtxInit /\ PagingInit /\ ViewsInit /\ TraceInit /\ PanelInit
    /\ viewIndex = selected
    /\ view = [index |-> z1, query |-> g1, range |-> e1]
    /\ open \in [PanelIndexes -> {{}, PanelFields}]
    /\ part \in IF \A i \in PrefIndexes : row[i] = DEFAULT_PREFS THEN Parts ELSE {"preferences"}
    /\ part # "panel" => open[z1] = {} /\ open[z2] = {}

WebNext ==
    \/ part = "preferences" /\ PrefsNext
         /\ UNCHANGED <<part, ctxVars, pagingVars, viewsVars, traceVars, panelVars>>
    \/ part = "context" /\ CtxNext
         /\ UNCHANGED <<part, prefsVars, pagingVars, viewsVars, traceVars, panelVars>>
    \/ part = "paging" /\ PagingNext
         /\ UNCHANGED <<part, prefsVars, ctxVars, viewsVars, traceVars, panelVars>>
    \/ part = "views" /\ ViewsNext
         /\ UNCHANGED <<part, prefsVars, ctxVars, pagingVars, traceVars, panelVars>>
    \/ part = "trace" /\ TraceNext
         /\ UNCHANGED <<part, prefsVars, ctxVars, pagingVars, viewsVars, panelVars>>
    \/ part = "panel" /\ PanelNext
         /\ UNCHANGED <<part, prefsVars, ctxVars, pagingVars, viewsVars, traceVars>>

WebSpec == WebInit /\ [][WebNext]_webVars

-----------------------------------------------------------------------------
(* Properties *)

\* Every part is well typed; names of views are unique, offsets stay below their
\* limit, and no request outlives a newer one unaborted.
WebTypeOK ==
    /\ PrefsTypeOK
    /\ CtxTypeOK
    /\ PagingTypeOK
    /\ ViewsTypeOK
    /\ TraceTypeOK
    /\ PanelTypeOK

\* Whatever was overtaken, aborted or failed: in the context pane, in both lists
\* and under the open fields a spinner has a request that will end it.
NoSpinnerForever == CtxBusyIffLoading /\ PagingBusy /\ SpinnersEnd

=============================================================================
