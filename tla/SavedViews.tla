----------------------------- MODULE SavedViews -----------------------------
(***************************************************************************)
(* The saved views of an index: the dropdown of the logs page              *)
(* (web/components/logs/ViewsDropdown.svelte) over the rows of             *)
(* api/services/view.service.ts.                                           *)
(*                                                                         *)
(* Opening the dropdown loads the list; a RequestGuard drops the answer of *)
(* a load that another one or a change of index has overtaken.  The answer *)
(* of a save is put into whatever list is there when it arrives.           *)
(*                                                                         *)
(* Abstractions.  One user.  The content of a view is a revision, which an *)
(* overwrite raises.  The list has no order.  A modal is opened and        *)
(* confirmed in one step.                                                  *)
(***************************************************************************)
EXTENDS Naturals, FiniteSets

CONSTANTS
    ViewIndexes,
    ViewNames,
    NoViewId,
    MaxViewActs     \* bound on what the user does, for model checking

ASSUME SavedViewsAssumption ==
    /\ NoViewId \notin Nat
    /\ MaxViewActs \in Nat

SavedView == [id : Nat, index : ViewIndexes, name : ViewNames, rev : Nat]

\* Saves in flight: the form and the two modals run one at a time each.
Forms == {"create", "rename", "overwrite", "delete"}
ViewSave == [form : Forms, row : SavedView, state : {"sent", "stored", "refused"}]
ViewList == [token : Nat, index : ViewIndexes, read : BOOLEAN, rows : SUBSET SavedView]

VARIABLES
    viewTable,      \* the rows of view
    viewIndex,      \* store.selectedIndex
    items,
    appliedId,
    listError,
    listLoading,
    refreshGuard,
    lists,          \* listViews calls in flight
    saves,          \* create, update and delete calls in flight
    viewActs,       \* acts so far; new rows take their ids from it
    listed,         \* history: a list has arrived since the index was chosen
    mixed           \* history: since the last clean load, a save overlapped a load, a
                    \* change of index or a save of the same view, or its answer was lost

viewsVars == <<viewTable, viewIndex, items, appliedId, listError, listLoading,
               refreshGuard, lists, saves, viewActs, listed, mixed>>

ViewsTypeOK ==
    /\ viewTable \subseteq SavedView
    /\ viewIndex \in ViewIndexes
    /\ items \subseteq SavedView
    /\ appliedId \in Nat \cup {NoViewId}
    /\ {listError, listLoading, listed, mixed} \subseteq BOOLEAN
    /\ refreshGuard \in Nat
    /\ lists \subseteq ViewList
    /\ saves \subseteq ViewSave
    /\ \A a, b \in viewTable : a.index = b.index /\ a.name = b.name => a = b

ViewsInit ==
    /\ viewTable = {}
    /\ viewIndex \in ViewIndexes
    /\ items = {} /\ appliedId = NoViewId /\ listError = FALSE /\ listLoading = FALSE
    /\ refreshGuard = 0 /\ lists = {} /\ saves = {} /\ viewActs = 0
    /\ listed = FALSE /\ mixed = FALSE

ViewAct == viewActs < MaxViewActs /\ viewActs' = viewActs + 1

-----------------------------------------------------------------------------
(* The list *)

\* The dropdown opens, or the retry button is pressed.
Refresh ==
    /\ ViewAct
    /\ refreshGuard' = refreshGuard + 1
    /\ listLoading' = TRUE
    /\ listError' = FALSE
    /\ lists' = lists \cup {[token |-> refreshGuard + 1, index |-> viewIndex,
                             read |-> FALSE, rows |-> {}]}
    /\ mixed' = (saves # {})
    /\ UNCHANGED <<viewTable, viewIndex, items, appliedId, saves, listed>>

\* listViews.
ReadViews(l) ==
    /\ ~l.read
    /\ lists' = (lists \ {l})
                    \cup {[l EXCEPT !.read = TRUE, !.rows = {v \in viewTable : v.index = l.index}]}
    /\ UNCHANGED <<viewTable, viewIndex, items, appliedId, listError, listLoading,
                   refreshGuard, saves, viewActs, listed, mixed>>

ListArrives(l) ==
    /\ l.read
    /\ lists' = lists \ {l}
    /\ IF l.token = refreshGuard
         THEN items' = l.rows /\ listLoading' = FALSE /\ listed' = TRUE
         ELSE UNCHANGED <<items, listLoading, listed>>
    /\ UNCHANGED <<viewTable, viewIndex, appliedId, listError, refreshGuard, saves,
                   viewActs, mixed>>

ListFails(l) ==
    /\ lists' = lists \ {l}
    /\ IF l.token = refreshGuard
         THEN items' = {} /\ listLoading' = FALSE /\ listError' = TRUE
         ELSE UNCHANGED <<items, listLoading, listError>>
    /\ UNCHANGED <<viewTable, viewIndex, appliedId, refreshGuard, saves, viewActs, listed, mixed>>

\* Mutation: loads under way are not disowned.
DisownNothing == UNCHANGED refreshGuard

DisownLoads == refreshGuard' = refreshGuard + 1

\* The effect of another index.
SwitchViews(i) ==
    /\ ViewAct
    /\ i # viewIndex
    /\ viewIndex' = i
    /\ DisownLoads
    /\ items' = {}
    /\ appliedId' = NoViewId
    /\ listed' = FALSE
    /\ mixed' = (saves # {})
    /\ UNCHANGED <<viewTable, listError, listLoading, lists, saves>>

-----------------------------------------------------------------------------
(* Saves *)

\* formSubmitting, and the busy modals.
FreeForm(form) ==
    \A s \in saves : s.form # form /\ {s.form, form} # {"create", "rename"}

Send(form, row) ==
    /\ ViewAct
    /\ FreeForm(form)
    /\ saves' = saves \cup {[form |-> form, row |-> row, state |-> "sent"]}
    /\ mixed' = (mixed \/ lists # {} \/ \E s \in saves : s.row.id = row.id)
    /\ UNCHANGED <<viewTable, viewIndex, items, appliedId, listError, listLoading,
                   refreshGuard, lists, listed>>

CreateView(name) ==
    Send("create", [id |-> viewActs, index |-> viewIndex, name |-> name, rev |-> 0])

\* The row a patch leads to, in the index selected when it is sent.
RenameView(v, name) ==
    name # v.name /\ Send("rename", [v EXCEPT !.index = viewIndex, !.name = name])

OverwriteView(v) == Send("overwrite", [v EXCEPT !.index = viewIndex, !.rev = viewActs])

DeleteView(v) == Send("delete", [v EXCEPT !.index = viewIndex])

\* Mutation: no unique index on user, index and name.
TakenNever(row) == FALSE

Taken(row) ==
    \E v \in viewTable : v.id # row.id /\ v.index = row.index /\ v.name = row.name

\* The stored row with the id, whose index the WHERE clause compares.
Target(row) == {v \in viewTable : v.id = row.id /\ v.index = row.index}

\* A patch sets the columns it has.
Patched(v, s) == IF s.form = "rename" THEN [v EXCEPT !.name = s.row.name]
                                      ELSE [v EXCEPT !.rev = s.row.rev]

\* createView, updateOwnedView and deleteOwnedView.
StoreView(s) ==
    /\ s.state = "sent"
    /\ LET target == Target(s.row)
           rows == CASE s.form = "create" -> {s.row}
                     [] s.form = "delete" -> target
                     [] OTHER -> {Patched(v, s) : v \in target}
           refused == \/ s.form # "create" /\ target = {}
                      \/ s.form \in {"create", "rename"} /\ Taken(s.row)
       IN  IF refused
             THEN /\ saves' = (saves \ {s}) \cup {[s EXCEPT !.state = "refused"]}
                  /\ UNCHANGED viewTable
             ELSE /\ saves' = (saves \ {s})
                                  \cup {[s EXCEPT !.state = "stored", !.row = r] : r \in rows}
                  /\ viewTable' = (viewTable \ target)
                                      \cup (IF s.form = "delete" THEN {} ELSE rows)
    /\ UNCHANGED <<viewIndex, items, appliedId, listError, listLoading, refreshGuard,
                   lists, viewActs, listed, mixed>>

\* The list after the save.
ItemsAfter(s) ==
    CASE s.form = "create" -> items \cup {s.row}
      [] s.form = "delete" -> {v \in items : v.id # s.row.id}
      [] OTHER -> {IF v.id = s.row.id THEN s.row ELSE v : v \in items}

SaveAnswered(s) ==
    /\ s.state = "stored"
    /\ saves' = saves \ {s}
    /\ items' = ItemsAfter(s)
    /\ appliedId' = CASE s.form \in {"create", "overwrite"} -> s.row.id
                      [] s.form = "delete" /\ appliedId = s.row.id -> NoViewId
                      [] OTHER -> appliedId
    /\ UNCHANGED <<viewTable, viewIndex, listError, listLoading, refreshGuard, lists,
                   viewActs, listed, mixed>>

\* The save was refused, or it failed: before or after it was stored.
SaveFails(s) ==
    /\ saves' = saves \ {s}
    /\ mixed' = (mixed \/ s.state = "stored")
    /\ UNCHANGED <<viewTable, viewIndex, items, appliedId, listError, listLoading,
                   refreshGuard, lists, viewActs, listed>>

ApplyView(v) ==
    /\ ViewAct
    /\ appliedId' = v.id
    /\ UNCHANGED <<viewTable, viewIndex, items, listError, listLoading, refreshGuard,
                   lists, saves, listed, mixed>>

ViewsNext ==
    \/ Refresh
    \/ \E l \in lists : ReadViews(l) \/ ListArrives(l) \/ ListFails(l)
    \/ \E i \in ViewIndexes : SwitchViews(i)
    \/ \E name \in ViewNames : CreateView(name)
    \/ \E v \in items, name \in ViewNames : RenameView(v, name)
    \/ \E v \in items : OverwriteView(v) \/ DeleteView(v) \/ ApplyView(v)
    \/ \E s \in saves : StoreView(s) \/ SaveAnswered(s) \/ SaveFails(s)

ViewsSpec == ViewsInit /\ [][ViewsNext]_viewsVars

-----------------------------------------------------------------------------
(* Properties *)

\* Once all has been answered, the list is the stored views of the selected index,
\* or empty until they were loaded, whatever loads and indexes the user overtook;
\* as long as no save overlapped a load, a change of index or a save of the same
\* view, or was stored without an answer.
ListIsStored ==
    lists = {} /\ saves = {} /\ ~mixed /\ ~listError =>
        \/ items = {v \in viewTable : v.index = viewIndex}
        \/ ~listed /\ items \subseteq {v \in viewTable : v.index = viewIndex}

\* "Switching indexes clears the views dropdown instead of leaving the previous
\* index's views on screen" (CHANGELOG.md).
ViewsOfThisIndex == \A v \in items : v.index = viewIndex

=============================================================================
