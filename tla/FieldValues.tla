----------------------------- MODULE FieldValues -----------------------------
(***************************************************************************)
(* The values under the open fields of the field panel                     *)
(* (components/logs/FieldPanel.svelte and the loading of the fields in     *)
(* search.svelte.ts) with the route that answers it                        *)
(* (services/log.service.ts, fieldValuesBulk).                             *)
(*                                                                         *)
(* A change of what is asked, or of whether the fields are loaded, aborts  *)
(* the request under way and starts a debounce; when it ends, the values   *)
(* that no longer fit are dropped and the missing ones asked for at once.  *)
(*                                                                         *)
(* Abstractions.  A view is the index, the query and the range with the    *)
(* number of reruns; each of its fields is a model value.  A filter is     *)
(* the field it is on.  The values of a field are what the server was      *)
(* asked when it counted them.  The leaves that only the logs on screen    *)
(* add to the list of fields are left out.                                 *)
(***************************************************************************)
EXTENDS Naturals, FiniteSets

CONSTANTS
    PanelIndexes,
    Queries,
    RangesAsked,        \* a time range and a rerun
    PanelFields,
    FieldsOf,           \* index -> the fields it has
    NoKey,
    MaxPanelActs,       \* bound on what the user does, for model checking
    MaxFetches          \* bound on the requests under way

PanelViews == [index : PanelIndexes, query : Queries, range : RangesAsked]

ASSUME FieldValuesAssumption ==
    /\ FieldsOf \in [PanelIndexes -> SUBSET PanelFields]
    /\ NoKey \notin [view : PanelViews, filters : SUBSET PanelFields]
    /\ {MaxPanelActs, MaxFetches} \subseteq Nat

VARIABLES
    view,
    filters,       \* fields with a filter
    open,          \* openFields, stored for each index
    fields,        \* the loaded fields, and for whom: "loading", "ready" or "failed"
    timer,         \* the debounce runs
    fetches,       \* requests for values; an aborted one may still be under way
    valuesByField, \* field -> cache key and values
    loadingFields,
    errorByField,  \* fields that show an error
    panelActs

panelVars == <<view, filters, open, fields, timer, fetches, valuesByField, loadingFields,
               errorByField, panelActs>>

-----------------------------------------------------------------------------

NoValues == [key |-> NoKey, values |-> NoKey]
Asked(v, fs) == [view |-> v, filters |-> fs]

fieldsReady == fields.load = "ready"
eligibleOpen == open[view.index] \cap fields.known

\* Mutation: the filters are no part of the key.
KeyOfView(f) == Asked(view, {})

\* fieldCacheKey: the filters on the field itself leave its values as they are.
FieldCacheKey(f) == Asked(view, filters \ {f})

triggerKey == <<view, filters, eligibleOpen>>

Aborted(fs) == {[x EXCEPT !.aborted = TRUE] : x \in fs}

\* The effect reruns when something it read has changed: clean up and debounce.
Effect ==
    IF <<triggerKey, fieldsReady>>' # <<triggerKey, fieldsReady>>
      THEN timer' = TRUE /\ fetches' = Aborted(fetches)
      ELSE UNCHANGED <<timer, fetches>>

Act == panelActs < MaxPanelActs /\ panelActs' = panelActs + 1

PanelInit ==
    /\ view \in PanelViews
    /\ filters = {}
    /\ open \in [PanelIndexes -> SUBSET PanelFields]
    /\ fields = [known |-> {}, load |-> "loading"]
    /\ timer = TRUE
    /\ fetches = {}
    /\ valuesByField = [f \in PanelFields |-> NoValues]
    /\ loadingFields = {}
    /\ errorByField = {}
    /\ panelActs = 0

-----------------------------------------------------------------------------
(* The user *)

\* Another index, query or time range, or a rerun.  The query leaves the list
\* of fields alone.
ChangeView(v) ==
    /\ Act
    /\ v # view
    /\ view' = v
    /\ filters' = IF v.index = view.index THEN filters ELSE {}
    /\ fields' = IF <<v.index, v.range>> = <<view.index, view.range>>
                    THEN fields ELSE [fields EXCEPT !.load = "loading"]
    /\ UNCHANGED <<open, valuesByField, loadingFields, errorByField>>
    /\ Effect

ToggleFilter(f) ==
    /\ Act
    /\ filters' = IF f \in filters THEN filters \ {f} ELSE filters \cup {f}
    /\ UNCHANGED <<view, open, fields, valuesByField, loadingFields, errorByField>>
    /\ Effect

ToggleOpen(f) ==
    /\ Act
    /\ f \in fields.known
    /\ open' = [open EXCEPT ![view.index] = IF f \in @ THEN @ \ {f} ELSE @ \cup {f}]
    /\ UNCHANGED <<view, filters, fields, valuesByField, loadingFields, errorByField>>
    /\ Effect

\* reloadFields.
ReloadFields ==
    /\ Act
    /\ fields.load = "failed"
    /\ fields' = [fields EXCEPT !.load = "loading"]
    /\ UNCHANGED <<view, filters, open, valuesByField, loadingFields, errorByField>>
    /\ Effect

-----------------------------------------------------------------------------
(* The fields and their values *)

\* The load of the fields for the current index and range ends; an aborted one
\* is not looked at.
FieldsLoaded(ok) ==
    /\ fields.load = "loading"
    /\ fields' = IF ok THEN [known |-> FieldsOf[view.index], load |-> "ready"]
                       ELSE [known |-> {}, load |-> "failed"]
    /\ UNCHANGED <<view, filters, open, valuesByField, loadingFields, errorByField, panelActs>>
    /\ Effect

MissingFields(kept) == eligibleOpen \ kept

\* runOrchestrator, at the end of the debounce.
RunOrchestrator ==
    LET kept == {f \in eligibleOpen : valuesByField[f].key = FieldCacheKey(f)}
        pending == MissingFields(kept)
    IN  /\ timer
        /\ timer' = FALSE
        /\ IF fieldsReady
             THEN /\ valuesByField' = [f \in PanelFields |-> IF f \in kept THEN valuesByField[f]
                                                                          ELSE NoValues]
                  /\ loadingFields' = (loadingFields \cap eligibleOpen) \cup pending
                  /\ errorByField' = {}
                  /\ IF pending = {}
                       THEN UNCHANGED fetches
                       ELSE /\ Cardinality(fetches) < MaxFetches
                            /\ fetches' = fetches \cup
                                 {[pending |-> pending, asked |-> Asked(view, filters),
                                   keys |-> [f \in pending |-> FieldCacheKey(f)],
                                   aborted |-> FALSE]}
             ELSE UNCHANGED <<fetches, valuesByField, loadingFields, errorByField>>
        /\ UNCHANGED <<view, filters, open, fields, panelActs>>

\* groupFieldsForBulk: the filters under which the values of f are counted.
EffectiveFilters(fs, f) == IF f \in fs THEN fs \ {f} ELSE fs

\* The answer of the route, field by field.
FieldValuesBulk(asked, f) == Asked(asked.view, EffectiveFilters(asked.filters, f))

\* A request ends; the answer of an aborted one is dropped.
FetchEnds(x, ok) ==
    /\ x \in fetches
    /\ fetches' = fetches \ {x}
    /\ IF x.aborted
         THEN UNCHANGED <<valuesByField, loadingFields, errorByField>>
         ELSE /\ loadingFields' = loadingFields \ x.pending
              /\ errorByField' = IF ok THEN errorByField \ x.pending
                                       ELSE errorByField \cup x.pending
              /\ valuesByField' =
                   [f \in PanelFields |->
                       IF ok /\ f \in x.pending
                         THEN [key |-> x.keys[f], values |-> FieldValuesBulk(x.asked, f)]
                         ELSE valuesByField[f]]
    /\ UNCHANGED <<view, filters, open, fields, timer, panelActs>>

PanelNext ==
    \/ \E v \in PanelViews : ChangeView(v)
    \/ \E f \in PanelFields : ToggleFilter(f) \/ ToggleOpen(f)
    \/ ReloadFields
    \/ RunOrchestrator
    \/ \E ok \in BOOLEAN : FieldsLoaded(ok) \/ \E x \in fetches : FetchEnds(x, ok)

PanelSpec == PanelInit /\ [][PanelNext]_panelVars

-----------------------------------------------------------------------------
(* Properties *)

PanelTypeOK ==
    /\ view \in PanelViews
    /\ filters \subseteq PanelFields
    /\ open \in [PanelIndexes -> SUBSET PanelFields]
    /\ fields.known \subseteq PanelFields
    /\ fields.load \in {"loading", "ready", "failed"}
    /\ Cardinality({x \in fetches : ~x.aborted}) <= 1
    /\ \A x \in fetches : x.pending # {} /\ DOMAIN x.keys = x.pending
    /\ loadingFields \cup errorByField \subseteq PanelFields

PanelSettled == fieldsReady /\ ~timer /\ \A x \in fetches : x.aborted

\* When nothing is under way every open field shows an error, or its values
\* for the index, query and range on screen under the filters of the other
\* fields; whatever was changed while requests were on their way
\* (FieldPanel.svelte, fieldCacheKey; log.service.ts, groupFieldsForBulk).
ValuesAreCurrent ==
    PanelSettled =>
        \A f \in eligibleOpen :
            f \in errorByField \/ valuesByField[f].values = Asked(view, filters \ {f})

\* A field that shows a spinner has a request or a debounce that will end it,
\* or waits for the list of fields: no spinner outlives the request that was
\* aborted under it.
SpinnersEnd ==
    \A f \in loadingFields \cap eligibleOpen :
        \/ timer \/ ~fieldsReady
        \/ \E x \in fetches : ~x.aborted /\ f \in x.pending

=============================================================================
