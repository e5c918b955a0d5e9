----------------------------- MODULE IndexRows -----------------------------
(***************************************************************************)
(* The rows Postgres keeps about one index id, against the creation and    *)
(* the deletion of the index in Quickwit (api/services/index.service.ts).  *)
(*                                                                         *)
(* Deleting an index drops it in Quickwit, then clears seven tables in one *)
(* READ COMMITTED transaction.  Writers ask Quickwit for the index before  *)
(* they insert; only an ingest key is created for any id, unasked.         *)
(*                                                                         *)
(* Abstractions.  One index id: no statement names two.  A generation is   *)
(* one life of the index, from its creation to its deletion.  The contents *)
(* of a row matter for index_settings only.                                *)
(***************************************************************************)
EXTENDS Naturals, Sequences, FiniteSets

CONSTANTS
    SettingFields,   \* columns of index_settings
    NotRead,         \* a request has not read this yet
    MaxGenerations,  \* bounds, for model checking
    MaxWrites

ASSUME IndexRowsAssumption ==
    /\ NotRead \notin Nat
    /\ MaxGenerations \in Nat
    /\ MaxWrites \in Nat

\* Mutation: the transaction leaves the shares.
TablesButShare == <<"index_settings", "index_stats_snapshot", "user_preference", "view",
                    "api_key", "search_audit">>

\* The tables deleteIndex clears, in its order.
ClearedTables == <<"index_settings", "index_stats_snapshot", "user_preference", "view",
                   "share", "api_key", "search_audit">>

Tables == {"index_settings", "index_stats_snapshot", "user_preference", "view",
           "share", "api_key", "search_audit"}

\* Rows inserted whole, and those among them whose writer asks Quickwit first.
RowTables == Tables \ {"index_settings"}
AskingTables == RowTables \ {"api_key"}

\* The value of a setting: 0 is the default, another number the save it came from.
Values == [SettingFields -> Nat]
DEFAULT_SETTINGS == [f \in SettingFields |-> 0]

\* crossed tells whether a deletion was under way while the writer was.
IndexRow == [id : Nat, table : Tables, gen : Nat, crossed : BOOLEAN, value : Values]
Write == [id : Nat, table : RowTables, gen : Nat, crossed : BOOLEAN]
SettingsSave == [id : Nat, field : SettingFields, crossed : BOOLEAN,
                 gen : Nat \cup {NotRead}, existing : Values \cup {NotRead}]
Deletion == [gen : Nat, done : Nat, cleared : SUBSET IndexRow]

VARIABLES
    liveIndex,    \* the generation Quickwit has, 0 when it has none
    generations,
    tableRows,    \* the committed rows
    writes,       \* requests about to insert a row
    settingSaves, \* saveIndexConfig requests
    deletions,    \* open transactions of deleteIndex
    writeCount,
    savedValues,  \* history: the last value saved of each setting
    spoiled       \* history: generations whose deletion failed half-way

indexRowsVars == <<liveIndex, generations, tableRows, writes, settingSaves, deletions,
                   writeCount, savedValues, spoiled>>

RowsOf(table) == {r \in tableRows : r.table = table}

\* Well typed; and index_settings and the preferences of a user keep one row.
IndexRowsTypeOK ==
    /\ liveIndex \in 0..generations
    /\ generations \in 0..MaxGenerations
    /\ tableRows \subseteq IndexRow
    /\ writes \subseteq Write
    /\ settingSaves \subseteq SettingsSave
    /\ deletions \subseteq Deletion
    /\ writeCount \in 0..MaxWrites
    /\ savedValues \in Values
    /\ spoiled \subseteq 1..generations
    /\ \A t \in {"index_settings", "user_preference"} : Cardinality(RowsOf(t)) <= 1

IndexRowsInit ==
    /\ liveIndex = 0 /\ generations = 0
    /\ tableRows = {} /\ writes = {} /\ settingSaves = {} /\ deletions = {}
    /\ writeCount = 0
    /\ savedValues = DEFAULT_SETTINGS
    /\ spoiled = {}

CreateIndex ==
    /\ liveIndex = 0
    /\ generations < MaxGenerations
    /\ generations' = generations + 1
    /\ liveIndex' = generations + 1
    /\ UNCHANGED <<tableRows, writes, settingSaves, deletions, writeCount, savedValues, spoiled>>

-----------------------------------------------------------------------------
(* Deleting *)

Crossed(requests) == {[q EXCEPT !.crossed = TRUE] : q \in requests}

\* Quickwit drops the index; without one it answers 404 and nothing happens.
DropIndex ==
    /\ liveIndex # 0
    /\ liveIndex' = 0
    /\ writes' = Crossed(writes)
    /\ settingSaves' = Crossed(settingSaves)

BeginDelete ==
    /\ DropIndex
    /\ deletions' = deletions \cup {[gen |-> liveIndex, done |-> 0, cleared |-> {}]}
    /\ UNCHANGED <<generations, tableRows, writeCount, savedValues, spoiled>>

\* Quickwit dropped the index, but its answer is lost or the process dies.
DeleteUnanswered ==
    /\ DropIndex
    /\ spoiled' = spoiled \cup {liveIndex}
    /\ UNCHANGED <<generations, tableRows, deletions, writeCount, savedValues>>

\* One statement: it sees the rows committed when it starts.
ClearTable(d) ==
    /\ d.done < Len(ClearedTables)
    /\ deletions' = (deletions \ {d}) \cup
           {[d EXCEPT !.done = @ + 1, !.cleared = @ \cup RowsOf(ClearedTables[d.done + 1])]}
    /\ UNCHANGED <<liveIndex, generations, tableRows, writes, settingSaves, writeCount,
                   savedValues, spoiled>>

CommitDelete(d) ==
    /\ d.done = Len(ClearedTables)
    /\ tableRows' = tableRows \ d.cleared
    /\ deletions' = {[e EXCEPT !.cleared = @ \ d.cleared] : e \in deletions \ {d}}
    /\ savedValues' = IF d.cleared \cap RowsOf("index_settings") # {}
                        THEN DEFAULT_SETTINGS ELSE savedValues
    /\ UNCHANGED <<liveIndex, generations, writes, settingSaves, writeCount, spoiled>>

AbortDelete(d) ==
    /\ deletions' = deletions \ {d}
    /\ spoiled' = spoiled \cup {d.gen}
    /\ UNCHANGED <<liveIndex, generations, tableRows, writes, settingSaves, writeCount,
                   savedValues>>

-----------------------------------------------------------------------------
(* Writing *)

\* withIndexMeta, withIndexConfig, the listing of the stats collector.
BeginWrite(table) ==
    /\ writeCount < MaxWrites
    /\ table \in AskingTables => liveIndex # 0
    /\ writeCount' = writeCount + 1
    /\ writes' = writes \cup {[id |-> writeCount + 1, table |-> table, gen |-> liveIndex,
                               crossed |-> deletions # {}]}
    /\ UNCHANGED <<liveIndex, generations, tableRows, settingSaves, deletions, savedValues, spoiled>>

\* An upsert waits for the transaction that is deleting its row.
Waits(table) == \E d \in deletions : d.cleared \cap RowsOf(table) # {}

Replaced(w) == IF w.table = "user_preference" THEN RowsOf(w.table) ELSE {}

InsertRow(w) ==
    /\ w.table = "user_preference" => ~Waits(w.table)
    /\ writes' = writes \ {w}
    /\ tableRows' = (tableRows \ Replaced(w)) \cup
           {[id |-> w.id, table |-> w.table, gen |-> w.gen, crossed |-> w.crossed,
             value |-> DEFAULT_SETTINGS]}
    /\ UNCHANGED <<liveIndex, generations, settingSaves, deletions, writeCount, savedValues, spoiled>>

BeginSave(field) ==
    /\ writeCount < MaxWrites
    /\ writeCount' = writeCount + 1
    /\ settingSaves' = settingSaves \cup
           {[id |-> writeCount + 1, field |-> field, crossed |-> deletions # {},
             gen |-> NotRead, existing |-> NotRead]}
    /\ UNCHANGED <<liveIndex, generations, tableRows, writes, deletions, savedValues, spoiled>>

\* The two reads of getIndexMeta run side by side; without an index the save ends.
SaveReadsIndex(s) ==
    /\ s.gen = NotRead
    /\ settingSaves' = (settingSaves \ {s}) \cup
           (IF liveIndex = 0 THEN {} ELSE {[s EXCEPT !.gen = liveIndex]})
    /\ UNCHANGED <<liveIndex, generations, tableRows, writes, deletions, writeCount,
                   savedValues, spoiled>>

SaveReadsSettings(s) ==
    /\ s.existing = NotRead
    /\ LET found == {r.value : r \in RowsOf("index_settings")}
       IN  \E v \in IF found = {} THEN {DEFAULT_SETTINGS} ELSE found :
             settingSaves' = (settingSaves \ {s}) \cup {[s EXCEPT !.existing = v]}
    /\ UNCHANGED <<liveIndex, generations, tableRows, writes, deletions, writeCount,
                   savedValues, spoiled>>

\* Mutation: the conflict sets every column.
UpsertedWhole(r, s) ==
    [r EXCEPT !.value = [s.existing EXCEPT ![s.field] = s.id], !.crossed = @ \/ s.crossed]

\* ON CONFLICT DO UPDATE sets the fields of the patch only.
Upserted(r, s) == [r EXCEPT !.value[s.field] = s.id, !.crossed = @ \/ s.crossed]

SaveIndexConfig(s) ==
    /\ NotRead \notin {s.gen, s.existing}
    /\ ~Waits("index_settings")
    /\ settingSaves' = settingSaves \ {s}
    /\ savedValues' = [savedValues EXCEPT ![s.field] = s.id]
    /\ LET old == RowsOf("index_settings")
           new == IF old = {}
                    THEN {[id |-> s.id, table |-> "index_settings", gen |-> s.gen,
                           crossed |-> s.crossed, value |-> [s.existing EXCEPT ![s.field] = s.id]]}
                    ELSE {Upserted(r, s) : r \in old}
       IN  tableRows' = (tableRows \ old) \cup new
    /\ UNCHANGED <<liveIndex, generations, writes, deletions, writeCount, spoiled>>

IndexRowsNext ==
    \/ CreateIndex \/ BeginDelete \/ DeleteUnanswered
    \/ \E d \in deletions : ClearTable(d) \/ CommitDelete(d) \/ AbortDelete(d)
    \/ \E t \in RowTables : BeginWrite(t)
    \/ \E w \in writes : InsertRow(w)
    \/ \E f \in SettingFields : BeginSave(f)
    \/ \E s \in settingSaves : SaveReadsIndex(s) \/ SaveReadsSettings(s) \/ SaveIndexConfig(s)

IndexRowsSpec == IndexRowsInit /\ [][IndexRowsNext]_indexRowsVars

-----------------------------------------------------------------------------
(* Properties *)

\* An index created again under an old name inherits nothing: every row is of the
\* life Quickwit has now, or its deletion is still clearing, or its writer crossed
\* a deletion, or the deletion of that life failed half-way (a second DELETE then
\* stops at Quickwit's 404), or it is an ingest key created while there was no index
\* (createApiKey does not look for one).
NothingInherited ==
    \A r \in tableRows :
        \/ r.gen = liveIndex
        \/ r.crossed
        \/ r.gen \in spoiled
        \/ \E d \in deletions : d.gen = r.gen
        \/ r.gen = 0 /\ r.table = "api_key"

\* Saves of different settings never undo each other, however they overlap, and a
\* first save starts from the defaults: the row holds the last value saved of every
\* setting, unless a deletion was under way during one of the saves.
SettingsLand ==
    \A r \in RowsOf("index_settings") : r.crossed \/ r.value = savedValues

=============================================================================
