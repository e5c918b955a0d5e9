---------------------------- MODULE Preferences ----------------------------
(***************************************************************************)
(* Display preferences of the logs page: columns and line wrap per index   *)
(* (web/lib/components/logs/search.svelte.ts) over the user_preference     *)
(* rows (api/services/preference.service.ts).                              *)
(*                                                                         *)
(* Every edit saves the whole panel, 300 ms after the last one, under the  *)
(* index selected when it was made.  Choosing an index loads its row while *)
(* the panel still shows the settings of the index before.                 *)
(*                                                                         *)
(* Abstractions.  displayMode is one more setting like lineWrap.  The URL  *)
(* names an index at all times.  A load that is stale changes nothing any  *)
(* more, so only the load of the present visit is kept.                    *)
(***************************************************************************)
EXTENDS Naturals

CONSTANTS
    PrefIndexes,   \* index ids
    Columns,       \* column lists other than the defaults
    Defaults,      \* displayFields: null
    NoLoad,        \* no getPreferences is in flight
    NoSave,        \* #prefSave is null
    MaxActs        \* bound on edits and visits of an index, for model checking

Settings == [fields : Columns \cup {Defaults}, wrap : BOOLEAN]

\* An edit: the index it was made under, its #prefSaveSeq and the whole panel.
Save == [index : PrefIndexes, seq : Nat, value : Settings]

\* A PUT: stored tells whether the row has it, mine whether the store that
\* sent it still exists.
Put == [index : PrefIndexes, seq : Nat, value : Settings, stored : BOOLEAN, mine : BOOLEAN]

Load == [seq : Nat, read : BOOLEAN, value : Settings]

ASSUME PreferencesAssumption ==
    /\ PrefIndexes # {}
    /\ Defaults \notin Columns
    /\ NoLoad \notin Load
    /\ NoSave \notin Save
    /\ MaxActs \in Nat

DEFAULT_PREFS == [fields |-> Defaults, wrap |-> FALSE]

VARIABLES
    row,         \* user_preference: a row, or DEFAULT_PREFS where there is none
    selected,    \* the selected index
    panel,       \* #savedFields and lineWrap
    confirmed,   \* #confirmedPrefs
    prefSaveSeq,
    prefSave,    \* the save the debounce timer will commit
    load,        \* getPreferences of the selected index
    puts,        \* setPreferences calls in flight
    acts,        \* edits and visits so far
    \* History, read by the properties only:
    last,        \* the last edit made under an index: its number and the panel
    own,         \* column lists an index had at first or that were chosen for it
    hasty,       \* indexes edited before their load had answered
    excused,     \* indexes whose last edit failed, was dropped or overtaken
    overlapped,  \* a save overlapped a load or another save of the index
    failed       \* the load of this visit failed, or the answer of a stored save

prefsVars == <<row, selected, panel, confirmed, prefSaveSeq, prefSave, load, puts,
               acts, last, own, hasty, excused, overlapped, failed>>

PrefsTypeOK ==
    /\ row \in [PrefIndexes -> Settings]
    /\ selected \in PrefIndexes
    /\ panel \in Settings
    /\ confirmed \in Settings
    /\ prefSaveSeq \in Nat
    /\ prefSave \in Save \cup {NoSave}
    /\ load \in Load \cup {NoLoad}
    /\ puts \in SUBSET Put
    /\ acts \in Nat
    /\ last \in [PrefIndexes -> [seq : Nat, value : Settings]]
    /\ own \in [PrefIndexes -> SUBSET (Columns \cup {Defaults})]
    /\ hasty \in SUBSET PrefIndexes
    /\ excused \in SUBSET PrefIndexes
    /\ overlapped \in BOOLEAN
    /\ failed \in BOOLEAN

NewLoad == [seq |-> prefSaveSeq, read |-> FALSE, value |-> DEFAULT_PREFS]

\* The page opens on an index, whose columns may have been chosen on an
\* earlier visit.
PrefsInit ==
    /\ row \in [PrefIndexes -> {s \in Settings : ~s.wrap}]
    /\ selected \in PrefIndexes
    /\ panel = DEFAULT_PREFS
    /\ confirmed = DEFAULT_PREFS
    /\ prefSaveSeq = 0
    /\ prefSave = NoSave
    /\ load = NewLoad
    /\ puts = {}
    /\ acts = 0
    /\ last = [i \in PrefIndexes |-> [seq |-> 0, value |-> row[i]]]
    /\ own = [i \in PrefIndexes |-> {row[i].fields, Defaults}]
    /\ hasty = {}
    /\ excused = {}
    /\ overlapped = FALSE
    /\ failed = FALSE

InFlight(i) == {p \in puts : p.index = i}
Pending(i) == prefSave # NoSave /\ prefSave.index = i
Saving(i) == Pending(i) \/ InFlight(i) # {}

\* The last edit of this index has yet to reach its row.
Unsaved(i) == Pending(i) \/ \E p \in InFlight(i) : p.seq = last[i].seq /\ ~p.stored

-----------------------------------------------------------------------------
(* Loading *)

\* The database answers the SELECT.
ReadRow ==
    /\ load # NoLoad
    /\ ~load.read
    /\ load' = [load EXCEPT !.read = TRUE, !.value = row[selected]]
    /\ UNCHANGED <<row, selected, panel, confirmed, prefSaveSeq, prefSave, puts,
                   acts, last, own, hasty, excused, overlapped, failed>>

\* The continuation of getPreferences: the confirmed settings in any case, the
\* panel unless it was edited meanwhile.
Show(prefs) ==
    /\ load' = NoLoad
    /\ confirmed' = prefs
    /\ panel' = IF prefSaveSeq = load.seq THEN prefs ELSE panel
    /\ UNCHANGED <<row, selected, prefSaveSeq, prefSave, puts, acts, last, own,
                   hasty, excused, overlapped>>

Loaded ==
    /\ load # NoLoad
    /\ load.read
    /\ Show(load.value)
    /\ UNCHANGED failed

LoadFailed ==
    /\ load # NoLoad
    /\ Show(DEFAULT_PREFS)
    /\ failed' = TRUE

-----------------------------------------------------------------------------
(* Editing and saving *)

\* #savePrefs: the timer of the edit before is cleared, whatever its index.
SavePrefs(value) ==
    /\ acts < MaxActs
    /\ acts' = acts + 1
    /\ panel' = value
    /\ prefSaveSeq' = prefSaveSeq + 1
    /\ prefSave' = [index |-> selected, seq |-> prefSaveSeq + 1, value |-> value]
    /\ last' = [last EXCEPT ![selected] = [seq |-> prefSaveSeq + 1, value |-> value]]
    /\ hasty' = IF load = NoLoad THEN hasty ELSE hasty \cup {selected}
    /\ excused' = (IF prefSave # NoSave THEN excused \cup {prefSave.index} ELSE excused)
                      \ {selected}
    /\ overlapped' = (overlapped \/ load # NoLoad \/ InFlight(selected) # {})
    /\ UNCHANGED <<row, selected, confirmed, load, puts, failed>>

SetActiveFields(columns) ==
    /\ SavePrefs([panel EXCEPT !.fields = columns])
    /\ own' = [own EXCEPT ![selected] = @ \cup {columns}]

SetLineWrap(wrap) ==
    /\ SavePrefs([panel EXCEPT !.wrap = wrap])
    /\ UNCHANGED own

\* Mutation: commit reads the selected index when the timer fires.
NewPutHere(alive) == [index |-> selected, seq |-> prefSave.seq, value |-> prefSave.value,
                      stored |-> FALSE, mine |-> alive]

\* The PUT a commit sends; the store that sends it may be on its way out.
NewPut(alive) == [index |-> prefSave.index, seq |-> prefSave.seq, value |-> prefSave.value,
                  stored |-> FALSE, mine |-> alive]

\* The debounce timer fires.
Commit ==
    /\ prefSave # NoSave
    /\ prefSave' = NoSave
    /\ puts' = puts \cup {NewPut(TRUE)}
    /\ UNCHANGED <<row, selected, panel, confirmed, prefSaveSeq, load, acts, last,
                   own, hasty, excused, overlapped, failed>>

\* putPreferences upserts the row.
StorePut(p) ==
    /\ ~p.stored
    /\ row' = [row EXCEPT ![p.index] = p.value]
    /\ puts' = (puts \ {p}) \cup {[p EXCEPT !.stored = TRUE]}
    /\ excused' = IF p.seq = last[p.index].seq \/ Unsaved(p.index)
                   THEN excused ELSE excused \cup {p.index}
    /\ UNCHANGED <<selected, panel, confirmed, prefSaveSeq, prefSave, load, acts,
                   last, own, hasty, overlapped, failed>>

\* This answer is still about the settings on screen.
Newest(p) == p.mine /\ p.index = selected /\ p.seq = prefSaveSeq

PutAnswered(p) ==
    /\ p.stored
    /\ puts' = puts \ {p}
    /\ confirmed' = IF Newest(p) THEN p.value ELSE confirmed
    /\ UNCHANGED <<row, selected, panel, prefSaveSeq, prefSave, load, acts, last,
                   own, hasty, excused, overlapped, failed>>

\* Mutation: a failed save leaves the panel as it is.
RollBackNothing(p) == UNCHANGED panel

RollBack(p) == panel' = IF Newest(p) THEN confirmed ELSE panel

\* The request failed, or its answer was lost after the row was written.
PutFailed(p) ==
    /\ puts' = puts \ {p}
    /\ RollBack(p)
    /\ excused' = IF p.stored \/ p.seq # last[p.index].seq THEN excused
                   ELSE excused \cup {p.index}
    /\ failed' = (failed \/ (p.stored /\ p.index = selected))
    /\ UNCHANGED <<row, selected, confirmed, prefSaveSeq, prefSave, load, acts,
                   last, own, hasty, overlapped>>

-----------------------------------------------------------------------------
(* Navigation *)

\* The user chooses an index: the effect of the load reruns, the panel stays
\* as it was until the answer.
SelectIndex(i) ==
    /\ acts < MaxActs
    /\ i # selected
    /\ acts' = acts + 1
    /\ selected' = i
    /\ load' = NewLoad
    /\ overlapped' = Saving(i)
    /\ failed' = FALSE
    /\ UNCHANGED <<row, panel, confirmed, prefSaveSeq, prefSave, puts, last, own,
                   hasty, excused>>

Orphans == {[p EXCEPT !.mine = FALSE] : p \in puts}

\* A pending save is committed at once; its answer finds the store disposed.
Flush ==
    puts' = IF prefSave = NoSave THEN Orphans ELSE Orphans \cup {NewPut(FALSE)}

\* dispose, and a new store when the user comes back to the page.  Sequence
\* numbers are compared within one store only, so the new one goes on counting.
Reopen(i) ==
    /\ acts < MaxActs
    /\ acts' = acts + 1
    /\ Flush
    /\ selected' = i
    /\ panel' = DEFAULT_PREFS
    /\ confirmed' = DEFAULT_PREFS
    /\ prefSave' = NoSave
    /\ load' = NewLoad
    /\ overlapped' = Saving(i)
    /\ failed' = FALSE
    /\ UNCHANGED <<row, prefSaveSeq, last, own, hasty, excused>>

PrefsNext ==
    \/ ReadRow \/ Loaded \/ LoadFailed \/ Commit
    \/ \E c \in Columns : SetActiveFields(c)
    \/ \E b \in BOOLEAN : SetLineWrap(b)
    \/ \E p \in puts : StorePut(p) \/ PutAnswered(p) \/ PutFailed(p)
    \/ \E i \in PrefIndexes : SelectIndex(i) \/ Reopen(i)

PrefsSpec == PrefsInit /\ [][PrefsNext]_prefsVars

-----------------------------------------------------------------------------
(* Properties *)

\* An edit is never silently lost or filed under the wrong index: the last one
\* made under an index is in its row, or waits for the timer or for the database,
\* whatever was chosen and left meanwhile; unless its request failed, a newer
\* edit took the one timer, or an older request was stored after it.
EditsLand ==
    \A i \in PrefIndexes :
        \/ row[i] = last[i].value
        \/ Unsaved(i)
        \/ i \in excused

\* An index only ever gets columns chosen for it, except by an edit made before
\* its load had answered.
RowsAreOwn ==
    \A i \in PrefIndexes : row[i].fields \in own[i] \/ i \in hasty

\* An edit lands in the row of its index, and in no other.
EditsLandWhereMade == EditsLand /\ RowsAreOwn

\* When nothing is in flight, the panel shows what is stored, also after saves
\* that failed; as long as no save overlapped a load or another save, and
\* neither a load nor the answer to a stored save was lost.
SettledShowsStored ==
    load = NoLoad /\ ~Saving(selected) /\ ~overlapped /\ ~failed => panel = row[selected]

\* "Default display columns remain defaults when changing line wrap or display
\* mode, including while preferences load" (CHANGELOG.md): an index whose
\* columns nobody ever chose keeps the default columns.
DefaultsStayDefault ==
    \A i \in PrefIndexes : own[i] = {Defaults} => row[i].fields = Defaults

=============================================================================
