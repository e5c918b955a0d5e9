----------------------------- MODULE WebProofs -----------------------------
(***************************************************************************)
(* Proofs about the parts of the web app, each by an invariant of its own, *)
(* and about the parts together (MCWeb).                                   *)
(*                                                                         *)
(*   Preferences   PrefsInv: numbers of saves order what is stored, and    *)
(*                 every value on its way to a row was chosen for it;      *)
(*   SavedViews    ViewsInv: ids and tokens are apart, and the list        *)
(*                 differs from the table by what is under way;            *)
(*   FieldValues   PanelInv: a request that counts is for what is on       *)
(*                 screen, and there is at most one;                       *)
(*   ListPaging    PagingInv: the rows are as many of the scope's first    *)
(*                 spans as the offset says;                               *)
(*   TraceView     TraceInv: documents come by their start; WalkInv and    *)
(*                 SweepInv are invariants of the two loops over a trace;  *)
(*   ContextLoader see ContextLoaderProofs.                                *)
(***************************************************************************)
EXTENDS MCWeb, ContextLoaderProofs, Counting, FiniteSetTheorems, SequenceTheorems, TLAPS

-----------------------------------------------------------------------------
(* Display preferences *)

Own(i, s) == s.fields \in own[i] \/ i \in hasty

\* Numbers of saves: the timer has the newest, and no two PUTs have the same.
NumbersInv ==
    /\ \A i \in PrefIndexes : last[i].seq <= prefSaveSeq
    /\ prefSave # NoSave =>
          /\ prefSave.seq = prefSaveSeq
          /\ last[prefSave.index] = [seq |-> prefSave.seq, value |-> prefSave.value]
          /\ \A p \in puts : p.seq # prefSave.seq
    /\ \A p \in puts :
          /\ p.seq <= prefSaveSeq
          /\ p.seq = last[p.index].seq => p.value = last[p.index].value
    /\ \A p, q \in puts : p.seq = q.seq => p = q

\* Whatever is, or is about to be, stored for an index was chosen for it.
OwnInv ==
    /\ \A i \in PrefIndexes : Defaults \in own[i]
    /\ prefSave # NoSave => Own(prefSave.index, prefSave.value)
    /\ \A p \in puts : Own(p.index, p.value)
    /\ IF load = NoLoad
         THEN Own(selected, panel) /\ Own(selected, confirmed)
         ELSE /\ load.read => Own(selected, load.value)
              /\ load.seq <= prefSaveSeq
              /\ prefSaveSeq # load.seq => selected \in hasty

\* As long as nothing overlapped: a load is alone, a settled panel shows the row,
\* and an edit under way is one save that would be rolled back to the row.
CalmInv ==
    ~overlapped /\ ~failed =>
        IF load # NoLoad
          THEN /\ ~Saving(selected)
               /\ prefSaveSeq = load.seq
               /\ load.read => load.value = row[selected]
          ELSE /\ \A p, q \in InFlight(selected) : p = q
               /\ Pending(selected) => InFlight(selected) = {} /\ panel = prefSave.value
               /\ \A p \in InFlight(selected) :
                     p.mine /\ p.seq = prefSaveSeq /\ panel = p.value
               /\ IF \E p \in InFlight(selected) : p.stored
                    THEN row[selected] = panel
                    ELSE /\ confirmed = row[selected]
                         /\ ~Saving(selected) => panel = row[selected]

PrefsInv ==
    /\ PrefsTypeOK
    /\ NumbersInv
    /\ OwnInv
    /\ CalmInv
    /\ EditsLandWhereMade

-----------------------------------------------------------------------------

LEMMA DefaultsTyped == DEFAULT_PREFS \in Settings /\ NewLoad.read = FALSE /\ NewLoad.seq = prefSaveSeq
BY DEF DEFAULT_PREFS, Settings, NewLoad

LEMMA NewLoadTyped == ASSUME prefSaveSeq \in Nat PROVE NewLoad \in Load
BY DefaultsTyped DEF NewLoad, Load

LEMMA PrefsInit_Inv == PrefsInit => PrefsInv
<1> SUFFICES ASSUME PrefsInit PROVE PrefsInv
  OBVIOUS
<1>1. PrefsTypeOK
  <2>1. row \in [PrefIndexes -> Settings]
    BY DEF PrefsInit
  <2>2. last \in [PrefIndexes -> [seq : Nat, value : Settings]]
    BY <2>1 DEF PrefsInit
  <2>3. own \in [PrefIndexes -> SUBSET (Columns \cup {Defaults})]
    BY <2>1 DEF PrefsInit, Settings
  <2>4. load \in Load \cup {NoLoad}
    BY NewLoadTyped DEF PrefsInit
  <2>5. overlapped \in BOOLEAN /\ failed \in BOOLEAN
    BY DEF PrefsInit
  <2> QED BY <2>1, <2>2, <2>3, <2>4, <2>5, DefaultsTyped DEF PrefsInit, PrefsTypeOK
<1>2. NumbersInv
  BY DEF PrefsInit, NumbersInv
<1>3. OwnInv
  BY NewLoadTyped, DefaultsTyped, PreferencesAssumption DEF PrefsInit, OwnInv
<1>4. CalmInv
  BY NewLoadTyped, DefaultsTyped, PreferencesAssumption
     DEF PrefsInit, CalmInv, Saving, Pending, InFlight
<1>5. EditsLandWhereMade
  BY DEF PrefsInit, EditsLandWhereMade, EditsLand, RowsAreOwn
<1> QED BY <1>1, <1>2, <1>3, <1>4, <1>5 DEF PrefsInv

LEMMA ReadRow_Inv == ASSUME PrefsInv, ReadRow PROVE PrefsInv'
<1> USE DEF ReadRow
<1> DEFINE l == [load EXCEPT !.read = TRUE, !.value = row[selected]]
<1>1. /\ load \in Load /\ l \in Load /\ l # NoLoad
      /\ l.seq = load.seq /\ l.read /\ l.value = row[selected]
  BY PreferencesAssumption DEF PrefsInv, PrefsTypeOK, Load
<1>2. load' = l
  OBVIOUS
<1> HIDE DEF l
<1>3. PrefsTypeOK'
  BY <1>1, <1>2 DEF PrefsInv, PrefsTypeOK
<1>4. NumbersInv'
  BY DEF PrefsInv, NumbersInv
<1>5. OwnInv'
  BY <1>1, <1>2 DEF PrefsInv, PrefsTypeOK, OwnInv, Own, EditsLandWhereMade, RowsAreOwn
<1>6. CalmInv'
  BY <1>1, <1>2 DEF PrefsInv, CalmInv, Saving, Pending, InFlight
<1>7. EditsLandWhereMade'
  BY DEF PrefsInv, EditsLandWhereMade, EditsLand, RowsAreOwn, Unsaved, Pending, InFlight
<1> QED BY <1>3, <1>4, <1>5, <1>6, <1>7 DEF PrefsInv

\* A load ends with the settings it has read, or with the defaults: those of a row,
\* as far as the index has no other, unless the load failed.
LEMMA Show_Inv ==
    ASSUME PrefsInv, load # NoLoad, NEW prefs \in Settings, Show(prefs),
           prefs.fields = Defaults \/ Own(selected, prefs),
           failed' \/ (failed' = failed /\ load.read /\ prefs = load.value),
           failed' \in BOOLEAN
    PROVE  PrefsInv'
<1> USE DEF Show
<1>1. PrefsTypeOK'
  BY DEF PrefsInv, PrefsTypeOK
<1>2. NumbersInv'
  BY DEF PrefsInv, NumbersInv
<1>3. OwnInv'
  BY DEF PrefsInv, PrefsTypeOK, OwnInv, Own
<1>4. CalmInv'
  BY DEF PrefsInv, CalmInv, Saving, Pending, InFlight
<1>5. EditsLandWhereMade'
  BY DEF PrefsInv, EditsLandWhereMade, EditsLand, RowsAreOwn, Unsaved, Pending, InFlight
<1> QED BY <1>1, <1>2, <1>3, <1>4, <1>5 DEF PrefsInv

LEMMA Loaded_Inv == ASSUME PrefsInv, Loaded PROVE PrefsInv'
<1>1. load # NoLoad /\ load.read /\ load.value \in Settings /\ Own(selected, load.value)
  BY DEF PrefsInv, PrefsTypeOK, Load, OwnInv, Loaded
<1>2. failed' = failed /\ failed \in BOOLEAN /\ Show(load.value)
  BY DEF PrefsInv, PrefsTypeOK, Loaded
<1> QED BY <1>1, <1>2, Show_Inv

LEMMA LoadFailed_Inv == ASSUME PrefsInv, LoadFailed PROVE PrefsInv'
<1>1. DEFAULT_PREFS.fields = Defaults
  BY DEF DEFAULT_PREFS
<1>2. load # NoLoad /\ Show(DEFAULT_PREFS) /\ failed' /\ failed' \in BOOLEAN
  BY DEF LoadFailed
<1> QED BY <1>1, <1>2, DefaultsTyped, Show_Inv

\* An edit: another value of the panel, whose columns now belong to the index.
LEMMA SavePrefs_Inv ==
    ASSUME PrefsInv, NEW v \in Settings, SavePrefs(v), \A i \in PrefIndexes : own[i] \subseteq own'[i],
           v.fields \in own'[selected] \/ (v.fields = panel.fields /\ own' = own),
           own' \in [PrefIndexes -> SUBSET (Columns \cup {Defaults})]
    PROVE  PrefsInv'
<1> DEFINE s == [index |-> selected, seq |-> prefSaveSeq + 1, value |-> v]
           e == [seq |-> prefSaveSeq + 1, value |-> v]
<1> USE DEF SavePrefs
<1>1. /\ s \in Save /\ s # NoSave /\ e \in [seq : Nat, value : Settings]
      /\ s.index = selected /\ s.seq = prefSaveSeq + 1 /\ s.value = v
      /\ e.seq = prefSaveSeq + 1 /\ e.value = v /\ e = [seq |-> s.seq, value |-> s.value]
      /\ prefSaveSeq \in Nat /\ selected \in PrefIndexes
  BY PreferencesAssumption DEF PrefsInv, PrefsTypeOK, Save
<1>2. /\ prefSave' = s /\ panel' = v /\ prefSaveSeq' = prefSaveSeq + 1
      /\ last' = [last EXCEPT ![selected] = e]
      /\ UNCHANGED <<row, selected, confirmed, load, puts, failed>>
  OBVIOUS
<1>3. last'[selected] = e /\ \A i \in PrefIndexes : i # selected => last'[i] = last[i]
  BY <1>1, <1>2 DEF PrefsInv, PrefsTypeOK
<1>4. /\ \A i \in PrefIndexes : last[i].seq \in Nat /\ last[i].seq <= prefSaveSeq
      /\ \A p \in puts : p.seq \in Nat /\ p.seq <= prefSaveSeq /\ p.index \in PrefIndexes
  BY DEF PrefsInv, PrefsTypeOK, Put, NumbersInv
<1> HIDE DEF s, e
<1>5. PrefsTypeOK'
  <2>1. /\ last' \in [PrefIndexes -> [seq : Nat, value : Settings]]
        /\ prefSave' \in Save \cup {NoSave} /\ prefSaveSeq' \in Nat
    BY <1>1, <1>2 DEF PrefsInv, PrefsTypeOK
  <2>2. hasty' \in SUBSET PrefIndexes /\ excused' \in SUBSET PrefIndexes /\ acts' \in Nat
    BY <1>1 DEF PrefsInv, PrefsTypeOK, Save
  <2>3. overlapped' \in BOOLEAN
    OBVIOUS
  <2> QED BY <1>2, <2>1, <2>2, <2>3 DEF PrefsInv, PrefsTypeOK
<1>6. NumbersInv'
  <2>1. \A i \in PrefIndexes : last'[i].seq <= prefSaveSeq'
    BY <1>1, <1>2, <1>3, <1>4
  <2>2. \A p \in puts : p.seq <= prefSaveSeq' /\ p.seq # prefSaveSeq'
    BY <1>1, <1>2, <1>4
  <2>3. \A p \in puts : p.seq = last'[p.index].seq => p.value = last'[p.index].value
    BY <1>1, <1>2, <1>3, <1>4, <2>2 DEF PrefsInv, NumbersInv
  <2> QED BY <1>1, <1>2, <1>3, <2>1, <2>2, <2>3 DEF PrefsInv, NumbersInv
<1>7. OwnInv'
  <2>1. \A i \in PrefIndexes, x \in Settings : Own(i, x) => Own(i, x)'
    BY DEF Own
  <2>2. load = NoLoad => Own(selected, v)'
    BY DEF PrefsInv, OwnInv, Own
  <2>3. load # NoLoad => selected \in hasty'
    OBVIOUS
  <2>4. Own(prefSave.index, prefSave.value)'
    BY <1>1, <1>2, <2>2, <2>3 DEF Own
  <2>5. \A p \in puts : Own(p.index, p.value)'
    BY <2>1 DEF PrefsInv, OwnInv, PrefsTypeOK, Put
  <2>6. \A i \in PrefIndexes : Defaults \in own'[i]
    BY DEF PrefsInv, OwnInv
  <2>7. load = NoLoad => Own(selected, panel)' /\ Own(selected, confirmed)'
    BY <1>1, <1>2, <2>1, <2>2 DEF PrefsInv, OwnInv, PrefsTypeOK
  <2>8. load # NoLoad => /\ load.read => Own(selected, load.value)'
                         /\ load.seq <= prefSaveSeq'
    BY <1>1, <1>2, <2>1 DEF PrefsInv, OwnInv, PrefsTypeOK, Load
  <2> QED BY <1>2, <2>3, <2>4, <2>5, <2>6, <2>7, <2>8 DEF OwnInv
<1>8. CalmInv'
  <2> SUFFICES ASSUME ~overlapped', ~failed' PROVE CalmInv'
    BY DEF CalmInv
  <2>1. ~overlapped /\ ~failed /\ load = NoLoad /\ InFlight(selected) = {}
    OBVIOUS
  <2>2. confirmed = row[selected]
    BY <2>1 DEF PrefsInv, CalmInv
  <2> QED BY <1>1, <1>2, <2>1, <2>2 DEF CalmInv, Saving, Pending, InFlight
<1>9. EditsLandWhereMade'
  <2>1. \A i \in PrefIndexes : row'[i] = last'[i].value \/ Unsaved(i)' \/ i \in excused'
    <3>1. Unsaved(selected)'
      BY <1>1, <1>2 DEF Unsaved, Pending
    <3>2. ASSUME NEW i \in PrefIndexes, i # selected, Unsaved(i) PROVE Unsaved(i)' \/ i \in excused'
      BY <1>2, <1>3, <3>2 DEF Unsaved, Pending, InFlight
    <3> QED BY <1>2, <1>3, <3>1, <3>2 DEF PrefsInv, EditsLandWhereMade, EditsLand
  <2>2. RowsAreOwn'
    BY DEF PrefsInv, EditsLandWhereMade, RowsAreOwn
  <2> QED BY <2>1, <2>2 DEF EditsLandWhereMade, EditsLand
<1> QED BY <1>5, <1>6, <1>7, <1>8, <1>9 DEF PrefsInv

LEMMA SetActiveFields_Inv ==
    ASSUME PrefsInv, NEW columns \in Columns, SetActiveFields(columns) PROVE PrefsInv'
<1> DEFINE v == [panel EXCEPT !.fields = columns]
<1>1. v \in Settings /\ v.fields = columns
  BY DEF PrefsInv, PrefsTypeOK, Settings
<1>2. SavePrefs(v) /\ own' = [own EXCEPT ![selected] = @ \cup {columns}]
  BY DEF SetActiveFields
<1>3. /\ own' \in [PrefIndexes -> SUBSET (Columns \cup {Defaults})]
      /\ \A i \in PrefIndexes : own[i] \subseteq own'[i]
      /\ columns \in own'[selected]
  BY <1>2 DEF PrefsInv, PrefsTypeOK
<1> HIDE DEF v
<1> QED BY <1>1, <1>2, <1>3, SavePrefs_Inv

LEMMA SetLineWrap_Inv ==
    ASSUME PrefsInv, NEW wrap \in BOOLEAN, SetLineWrap(wrap) PROVE PrefsInv'
<1> DEFINE v == [panel EXCEPT !.wrap = wrap]
<1>1. v \in Settings /\ v.fields = panel.fields
  BY DEF PrefsInv, PrefsTypeOK, Settings
<1>2. SavePrefs(v) /\ own' = own /\ own \in [PrefIndexes -> SUBSET (Columns \cup {Defaults})]
  BY DEF SetLineWrap, PrefsInv, PrefsTypeOK
<1> HIDE DEF v
<1> QED BY <1>1, <1>2, SavePrefs_Inv

\* What a commit sends is the last edit of its index.
LEMMA NewPutIs ==
    ASSUME PrefsInv, prefSave # NoSave, NEW alive \in BOOLEAN
    PROVE  /\ NewPut(alive) \in Put
           /\ NewPut(alive).index = prefSave.index /\ NewPut(alive).index \in PrefIndexes
           /\ NewPut(alive).seq = prefSaveSeq /\ NewPut(alive).value = prefSave.value
           /\ last[prefSave.index].seq = prefSaveSeq
           /\ last[prefSave.index].value = prefSave.value
           /\ ~NewPut(alive).stored /\ NewPut(alive).mine = alive
           /\ Own(prefSave.index, prefSave.value)
           /\ \A p \in puts : p.seq # prefSaveSeq /\ p.seq <= prefSaveSeq
BY DEF PrefsInv, PrefsTypeOK, NumbersInv, OwnInv, NewPut, Save, Put

LEMMA Commit_Inv == ASSUME PrefsInv, Commit PROVE PrefsInv'
<1> DEFINE n == NewPut(TRUE)
<1>1. prefSave # NoSave /\ prefSave' = NoSave /\ puts' = puts \cup {n}
  BY DEF Commit
<1>2. UNCHANGED <<row, selected, panel, confirmed, prefSaveSeq, load, acts, last, own, hasty,
                  excused, overlapped, failed>>
  BY DEF Commit
<1>3. /\ n \in Put /\ n.index = prefSave.index /\ n.seq = prefSaveSeq /\ n.value = prefSave.value
      /\ n.index \in PrefIndexes
      /\ last[prefSave.index].seq = prefSaveSeq /\ last[prefSave.index].value = prefSave.value
      /\ ~n.stored /\ n.mine /\ Own(prefSave.index, prefSave.value)
      /\ \A p \in puts : p.seq # prefSaveSeq /\ p.seq <= prefSaveSeq
  BY <1>1, NewPutIs
<1> HIDE DEF n
<1>4. PrefsTypeOK'
  BY <1>1, <1>2, <1>3 DEF PrefsInv, PrefsTypeOK
<1>5. NumbersInv'
  <2>1. prefSaveSeq \in Nat
    BY DEF PrefsInv, PrefsTypeOK
  <2>2. \A p \in puts' : /\ p.seq <= prefSaveSeq
                         /\ p.seq = last[p.index].seq => p.value = last[p.index].value
    BY <1>1, <1>3, <2>1 DEF PrefsInv, NumbersInv
  <2>3. \A p, q \in puts' : p.seq = q.seq => p = q
    BY <1>1, <1>3 DEF PrefsInv, NumbersInv
  <2> QED BY <1>1, <1>2, <2>2, <2>3 DEF PrefsInv, NumbersInv
<1>6. OwnInv'
  BY <1>1, <1>2, <1>3 DEF PrefsInv, OwnInv, Own
<1>7. CalmInv'
  <2> SUFFICES ASSUME ~overlapped, ~failed PROVE CalmInv'
    BY <1>2 DEF CalmInv
  <2>1. CASE load # NoLoad
    BY <1>1, <1>2, <1>3, <2>1 DEF PrefsInv, CalmInv, Saving, Pending, InFlight
  <2>2. CASE load = NoLoad /\ n.index # selected
    <3>1. InFlight(selected)' = InFlight(selected) /\ ~Pending(selected) /\ ~Pending(selected)'
      BY <1>1, <1>2, <1>3, <2>2 DEF Pending, InFlight
    <3> QED BY <1>1, <1>2, <2>2, <3>1 DEF PrefsInv, CalmInv, Saving
  <2>3. CASE load = NoLoad /\ n.index = selected
    <3>1. InFlight(selected)' = {n} /\ ~Pending(selected)' /\ panel = n.value /\ confirmed = row[selected]
      BY <1>1, <1>2, <1>3, <2>3 DEF PrefsInv, CalmInv, Pending, InFlight
    <3> QED BY <1>1, <1>2, <1>3, <2>3, <3>1 DEF CalmInv, Saving
  <2> QED BY <2>1, <2>2, <2>3
<1>8. EditsLandWhereMade'
  BY <1>1, <1>2, <1>3 DEF PrefsInv, EditsLandWhereMade, EditsLand, RowsAreOwn, Unsaved, Pending, InFlight
<1> QED BY <1>4, <1>5, <1>6, <1>7, <1>8 DEF PrefsInv

LEMMA StorePut_Inv == ASSUME PrefsInv, NEW p \in puts, StorePut(p) PROVE PrefsInv'
<1> DEFINE n == [p EXCEPT !.stored = TRUE]
<1>1. /\ p \in Put /\ n \in Put /\ n.index = p.index /\ n.seq = p.seq /\ n.value = p.value
      /\ n.stored /\ n.mine = p.mine /\ p.index \in PrefIndexes /\ p.value \in Settings
  BY DEF PrefsInv, PrefsTypeOK, Put
<1>2. /\ ~p.stored
      /\ row' = [row EXCEPT ![p.index] = p.value]
      /\ puts' = (puts \ {p}) \cup {n}
      /\ excused' = IF p.seq = last[p.index].seq \/ Unsaved(p.index)
                      THEN excused ELSE excused \cup {p.index}
      /\ UNCHANGED <<selected, panel, confirmed, prefSaveSeq, prefSave, load, acts, last, own,
                     hasty, overlapped, failed>>
  BY DEF StorePut
<1>3. row'[p.index] = p.value /\ \A i \in PrefIndexes : i # p.index => row'[i] = row[i]
  BY <1>1, <1>2 DEF PrefsInv, PrefsTypeOK
<1>4. Own(p.index, p.value)
  BY DEF PrefsInv, OwnInv
<1> HIDE DEF n
<1>5. PrefsTypeOK'
  BY <1>1, <1>2 DEF PrefsInv, PrefsTypeOK
<1>6. NumbersInv'
  BY <1>1, <1>2 DEF PrefsInv, NumbersInv
<1>7. OwnInv'
  BY <1>1, <1>2, <1>4 DEF PrefsInv, OwnInv, Own
<1>8. CalmInv'
  <2> SUFFICES ASSUME ~overlapped, ~failed PROVE CalmInv'
    BY <1>2 DEF CalmInv
  <2>1. CASE p.index # selected
    <3>1. InFlight(selected)' = InFlight(selected) /\ (Pending(selected)' <=> Pending(selected))
      BY <1>1, <1>2, <2>1 DEF Pending, InFlight
    <3>2. row'[selected] = row[selected]
      BY <1>3, <2>1 DEF PrefsInv, PrefsTypeOK
    <3> QED BY <1>2, <3>1, <3>2 DEF PrefsInv, CalmInv, Saving
  <2>2. CASE p.index = selected
    <3>1. p \in InFlight(selected) /\ load = NoLoad
      BY <2>2 DEF PrefsInv, CalmInv, InFlight, Saving
    <3>2. /\ InFlight(selected) = {p} /\ ~Pending(selected)
          /\ p.mine /\ p.seq = prefSaveSeq /\ panel = p.value
      BY <3>1 DEF PrefsInv, CalmInv
    <3>3. InFlight(selected)' = {n} /\ ~Pending(selected)'
      BY <1>1, <1>2, <2>2, <3>2 DEF Pending, InFlight
    <3>4. row'[selected'] = panel'
      BY <1>2, <1>3, <2>2, <3>2
    <3> QED BY <1>1, <1>2, <3>1, <3>2, <3>3, <3>4 DEF CalmInv, Saving
  <2> QED BY <2>1, <2>2
<1>9. EditsLandWhereMade'
  <2>1. ASSUME NEW i \in PrefIndexes, i # p.index
        PROVE  row'[i] = last'[i].value \/ Unsaved(i)' \/ i \in excused'
    <3>1. Unsaved(i)' <=> Unsaved(i)
      BY <1>1, <1>2, <2>1 DEF Unsaved, Pending, InFlight
    <3> QED BY <1>2, <1>3, <2>1, <3>1 DEF PrefsInv, EditsLandWhereMade, EditsLand
  <2>2. \/ row'[p.index] = last'[p.index].value
        \/ Unsaved(p.index)'
        \/ p.index \in excused'
    <3>1. CASE p.seq = last[p.index].seq
      BY <1>1, <1>2, <1>3, <3>1 DEF PrefsInv, NumbersInv
    <3>2. CASE p.seq # last[p.index].seq /\ Unsaved(p.index)
      BY <1>1, <1>2, <3>2 DEF Unsaved, Pending, InFlight
    <3>3. CASE p.seq # last[p.index].seq /\ ~Unsaved(p.index)
      BY <1>2, <3>3
    <3> QED BY <3>1, <3>2, <3>3
  <2>3. RowsAreOwn'
    BY <1>1, <1>2, <1>3, <1>4 DEF PrefsInv, EditsLandWhereMade, RowsAreOwn, Own
  <2> QED BY <2>1, <2>2, <2>3 DEF EditsLandWhereMade, EditsLand
<1> QED BY <1>5, <1>6, <1>7, <1>8, <1>9 DEF PrefsInv

LEMMA PutAnswered_Inv == ASSUME PrefsInv, NEW p \in puts, PutAnswered(p) PROVE PrefsInv'
<1>1. /\ p.stored /\ puts' = puts \ {p}
      /\ confirmed' = IF Newest(p) THEN p.value ELSE confirmed
      /\ UNCHANGED <<row, selected, panel, prefSaveSeq, prefSave, load, acts, last, own, hasty,
                     excused, overlapped, failed>>
  BY DEF PutAnswered
<1>2. p.value \in Settings /\ Own(p.index, p.value)
  BY DEF PrefsInv, PrefsTypeOK, Put, OwnInv
<1>3. PrefsTypeOK'
  BY <1>1, <1>2 DEF PrefsInv, PrefsTypeOK
<1>4. NumbersInv'
  BY <1>1 DEF PrefsInv, NumbersInv
<1>5. OwnInv'
  BY <1>1, <1>2 DEF PrefsInv, OwnInv, Own, Newest
<1>6. CalmInv'
  <2> SUFFICES ASSUME ~overlapped, ~failed PROVE CalmInv'
    BY <1>1 DEF CalmInv
  <2>1. CASE p.index # selected
    <3>1. /\ InFlight(selected)' = InFlight(selected) /\ (Pending(selected)' <=> Pending(selected))
          /\ confirmed' = confirmed
      BY <1>1, <2>1 DEF Pending, InFlight, Newest
    <3> QED BY <1>1, <3>1 DEF PrefsInv, CalmInv, Saving
  <2>2. CASE p.index = selected
    <3>1. p \in InFlight(selected) /\ load = NoLoad
      BY <2>2 DEF PrefsInv, CalmInv, InFlight, Saving
    <3>2. /\ InFlight(selected) = {p} /\ ~Pending(selected)
          /\ p.mine /\ p.seq = prefSaveSeq /\ panel = p.value
          /\ row[selected] = panel
      BY <1>1, <3>1 DEF PrefsInv, CalmInv
    <3>3. InFlight(selected)' = {} /\ ~Pending(selected)'
      BY <1>1, <2>2, <3>2 DEF Pending, InFlight
    <3>4. confirmed' = panel
      BY <1>1, <2>2, <3>2 DEF Newest
    <3> QED BY <1>1, <3>1, <3>2, <3>3, <3>4 DEF CalmInv, Saving
  <2> QED BY <2>1, <2>2
<1>7. EditsLandWhereMade'
  BY <1>1 DEF PrefsInv, EditsLandWhereMade, EditsLand, RowsAreOwn, Unsaved, Pending, InFlight
<1> QED BY <1>3, <1>4, <1>5, <1>6, <1>7 DEF PrefsInv

LEMMA PutFailed_Inv == ASSUME PrefsInv, NEW p \in puts, PutFailed(p) PROVE PrefsInv'
<1>1. /\ puts' = puts \ {p}
      /\ panel' = IF Newest(p) THEN confirmed ELSE panel
      /\ excused' = IF p.stored \/ p.seq # last[p.index].seq THEN excused
                     ELSE excused \cup {p.index}
      /\ UNCHANGED <<row, selected, confirmed, prefSaveSeq, prefSave, load, acts, last, own, hasty,
                     overlapped>>
  BY DEF PutFailed, RollBack
<1>2. failed' \in BOOLEAN /\ (~failed' => ~failed /\ ~(p.stored /\ p.index = selected))
  BY DEF PutFailed
<1>3. p \in Put /\ p.index \in PrefIndexes
  BY DEF PrefsInv, PrefsTypeOK, Put
<1>4. PrefsTypeOK'
  BY <1>1, <1>2, <1>3 DEF PrefsInv, PrefsTypeOK
<1>5. NumbersInv'
  BY <1>1 DEF PrefsInv, NumbersInv
<1>6. OwnInv'
  BY <1>1 DEF PrefsInv, OwnInv, Own
<1>7. CalmInv'
  <2> SUFFICES ASSUME ~overlapped, ~failed' PROVE CalmInv'
    BY <1>1 DEF CalmInv
  <2>1. CASE p.index # selected
    <3>1. /\ InFlight(selected)' = InFlight(selected) /\ (Pending(selected)' <=> Pending(selected))
          /\ panel' = panel
      BY <1>1, <2>1 DEF Pending, InFlight, Newest
    <3> QED BY <1>1, <1>2, <3>1 DEF PrefsInv, CalmInv, Saving
  <2>2. CASE p.index = selected
    <3>1. p \in InFlight(selected) /\ load = NoLoad /\ ~p.stored
      BY <1>2, <2>2 DEF PrefsInv, CalmInv, InFlight, Saving
    <3>2. /\ InFlight(selected) = {p} /\ ~Pending(selected)
          /\ p.mine /\ p.seq = prefSaveSeq
      BY <1>2, <3>1 DEF PrefsInv, CalmInv
    <3>3. confirmed = row[selected]
      BY <1>2, <3>1, <3>2 DEF PrefsInv, CalmInv
    <3>4. InFlight(selected)' = {} /\ ~Pending(selected)'
      BY <1>1, <2>2, <3>2 DEF Pending, InFlight
    <3>5. panel' = confirmed
      BY <1>1, <2>2, <3>2 DEF Newest
    <3> QED BY <1>1, <3>1, <3>3, <3>4, <3>5 DEF CalmInv, Saving
  <2> QED BY <2>1, <2>2
<1>8. EditsLandWhereMade'
  <2>1. ASSUME NEW i \in PrefIndexes PROVE row[i] = last[i].value \/ Unsaved(i)' \/ i \in excused'
    <3>1. Unsaved(i) => Unsaved(i)' \/ i \in excused'
      BY <1>1 DEF Unsaved, Pending, InFlight
    <3> QED BY <1>1, <3>1 DEF PrefsInv, EditsLandWhereMade, EditsLand
  <2>2. RowsAreOwn'
    BY <1>1 DEF PrefsInv, EditsLandWhereMade, RowsAreOwn
  <2> QED BY <1>1, <2>1, <2>2 DEF EditsLandWhereMade, EditsLand
<1> QED BY <1>4, <1>5, <1>6, <1>7, <1>8 DEF PrefsInv

\* Another index is looked at: its load begins, and nothing else about it is known.
LEMMA FreshLoad ==
    ASSUME prefSaveSeq \in Nat, load' = NewLoad, prefSaveSeq' = prefSaveSeq
    PROVE  load' \in Load /\ load' # NoLoad /\ ~load'.read /\ load'.seq = prefSaveSeq
BY NewLoadTyped, DefaultsTyped, PreferencesAssumption

LEMMA SelectIndex_Inv ==
    ASSUME PrefsInv, NEW i \in PrefIndexes, SelectIndex(i) PROVE PrefsInv'
<1>1. /\ selected' = i /\ overlapped' = Saving(i) /\ failed' = FALSE
      /\ acts' = acts + 1
      /\ UNCHANGED <<row, panel, confirmed, prefSaveSeq, prefSave, puts, last, own, hasty, excused>>
  BY DEF SelectIndex
<1>2. /\ load' \in Load /\ load' # NoLoad /\ ~load'.read /\ load'.seq = prefSaveSeq
      /\ prefSaveSeq \in Nat
  BY FreshLoad DEF SelectIndex, PrefsInv, PrefsTypeOK
<1>3. PrefsTypeOK'
  <2>1. overlapped' \in BOOLEAN /\ failed' \in BOOLEAN
    BY <1>1 DEF Saving, Pending
  <2> QED BY <1>1, <1>2, <2>1 DEF PrefsInv, PrefsTypeOK
<1>4. NumbersInv'
  BY <1>1 DEF PrefsInv, NumbersInv
<1>5. OwnInv'
  BY <1>1, <1>2 DEF PrefsInv, OwnInv, Own
<1>6. CalmInv'
  BY <1>1, <1>2 DEF CalmInv, Saving, Pending, InFlight
<1>7. EditsLandWhereMade'
  BY <1>1 DEF PrefsInv, EditsLandWhereMade, EditsLand, RowsAreOwn, Unsaved, Pending, InFlight
<1> QED BY <1>3, <1>4, <1>5, <1>6, <1>7 DEF PrefsInv

Orphan(p) == [p EXCEPT !.mine = FALSE]

LEMMA OrphanIs ==
    ASSUME NEW p \in Put
    PROVE  /\ Orphan(p) \in Put /\ Orphan(p).index = p.index /\ Orphan(p).seq = p.seq
           /\ Orphan(p).value = p.value /\ Orphan(p).stored = p.stored
BY DEF Orphan, Put

LEMMA Reopen_Inv == ASSUME PrefsInv, NEW i \in PrefIndexes, Reopen(i) PROVE PrefsInv'
<1> DEFINE n == NewPut(FALSE)
<1>1. /\ selected' = i /\ overlapped' = Saving(i) /\ failed' = FALSE
      /\ panel' = DEFAULT_PREFS /\ confirmed' = DEFAULT_PREFS /\ prefSave' = NoSave
      /\ acts' = acts + 1
      /\ UNCHANGED <<row, prefSaveSeq, last, own, hasty, excused>>
  BY DEF Reopen
<1>2. /\ load' \in Load /\ load' # NoLoad /\ ~load'.read /\ load'.seq = prefSaveSeq
      /\ prefSaveSeq \in Nat
  BY FreshLoad DEF Reopen, PrefsInv, PrefsTypeOK
<1>3. /\ \A q \in puts' : \/ \E p \in puts : q = Orphan(p)
                          \/ prefSave # NoSave /\ q = n
      /\ \A p \in puts : Orphan(p) \in puts'
      /\ prefSave # NoSave => n \in puts'
  BY DEF Reopen, Flush, Orphans, Orphan
<1>4. prefSave # NoSave =>
      /\ n \in Put /\ n.index = prefSave.index /\ n.seq = prefSaveSeq /\ n.value = prefSave.value
      /\ last[prefSave.index].seq = prefSaveSeq /\ last[prefSave.index].value = prefSave.value
      /\ ~n.stored /\ Own(prefSave.index, prefSave.value)
      /\ \A p \in puts : p.seq # prefSaveSeq
  BY NewPutIs
<1>5. \A p \in puts : /\ Orphan(p) \in Put /\ Orphan(p).index = p.index /\ Orphan(p).seq = p.seq
                      /\ Orphan(p).value = p.value /\ Orphan(p).stored = p.stored
                      /\ p.seq \in Nat /\ p.seq <= prefSaveSeq
  BY OrphanIs DEF PrefsInv, PrefsTypeOK, NumbersInv, Put
<1> HIDE DEF n
<1>6. PrefsTypeOK'
  <2>1. overlapped' \in BOOLEAN /\ failed' \in BOOLEAN
    BY <1>1 DEF Saving, Pending
  <2>2. puts' \in SUBSET Put
    BY <1>3, <1>4, <1>5
  <2> QED BY <1>1, <1>2, <2>1, <2>2, DefaultsTyped DEF PrefsInv, PrefsTypeOK
<1>7. NumbersInv'
  <2>1. \A q \in puts' : /\ q.seq <= prefSaveSeq
                         /\ q.seq = last[q.index].seq => q.value = last[q.index].value
    BY <1>2, <1>3, <1>4, <1>5 DEF PrefsInv, NumbersInv
  <2>2. ASSUME NEW p \in puts', NEW q \in puts', p.seq = q.seq PROVE p = q
    BY <1>3, <1>4, <1>5, <2>2 DEF PrefsInv, NumbersInv
  <2> QED BY <1>1, <2>1, <2>2 DEF PrefsInv, NumbersInv
<1>8. OwnInv'
  <2>1. \A q \in puts' : Own(q.index, q.value)
    BY <1>3, <1>4, <1>5 DEF PrefsInv, OwnInv
  <2> QED BY <1>1, <1>2, <2>1 DEF PrefsInv, OwnInv, Own
<1>9. CalmInv'
  <2> SUFFICES ASSUME ~overlapped' PROVE ~Saving(selected)'
    BY <1>1, <1>2 DEF CalmInv
  <2>1. prefSave # NoSave => prefSave.index # i
    BY <1>1 DEF Saving, Pending
  <2>2. \A p \in puts : p.index # i
    BY <1>1 DEF Saving, InFlight
  <2> QED BY <1>1, <1>3, <1>4, <1>5, <2>1, <2>2 DEF Saving, Pending, InFlight
<1>10. EditsLandWhereMade'
  <2>1. ASSUME NEW j \in PrefIndexes, Unsaved(j) PROVE Unsaved(j)'
    <3>1. CASE Pending(j)
      BY <1>1, <1>3, <1>4, <3>1 DEF Unsaved, Pending, InFlight
    <3>2. CASE \E p \in InFlight(j) : p.seq = last[j].seq /\ ~p.stored
      BY <1>1, <1>3, <1>5, <3>2 DEF Unsaved, InFlight
    <3> QED BY <2>1, <3>1, <3>2 DEF Unsaved
  <2> QED BY <1>1, <2>1 DEF PrefsInv, EditsLandWhereMade, EditsLand, RowsAreOwn
<1> QED BY <1>6, <1>7, <1>8, <1>9, <1>10 DEF PrefsInv

\* The invariant is inductive.
LEMMA PrefsNext_Inv == PrefsInv /\ [PrefsNext]_prefsVars => PrefsInv'
<1> SUFFICES ASSUME PrefsInv, [PrefsNext]_prefsVars PROVE PrefsInv'
  OBVIOUS
<1>1. CASE ReadRow \/ Loaded \/ LoadFailed \/ Commit
  BY <1>1, ReadRow_Inv, Loaded_Inv, LoadFailed_Inv, Commit_Inv
<1>2. ASSUME NEW c \in Columns, SetActiveFields(c) PROVE PrefsInv'
  BY <1>2, SetActiveFields_Inv
<1>3. ASSUME NEW b \in BOOLEAN, SetLineWrap(b) PROVE PrefsInv'
  BY <1>3, SetLineWrap_Inv
<1>4. ASSUME NEW p \in puts, StorePut(p) \/ PutAnswered(p) \/ PutFailed(p) PROVE PrefsInv'
  BY <1>4, StorePut_Inv, PutAnswered_Inv, PutFailed_Inv
<1>5. ASSUME NEW i \in PrefIndexes, SelectIndex(i) \/ Reopen(i) PROVE PrefsInv'
  BY <1>5, SelectIndex_Inv, Reopen_Inv
<1>6. CASE UNCHANGED prefsVars
  <2>1. UNCHANGED <<row, selected, panel, confirmed, prefSaveSeq, prefSave, load, puts, acts, last,
                    own, hasty, excused, overlapped, failed>>
    BY <1>6 DEF prefsVars
  <2> QED BY <2>1 DEF PrefsInv, PrefsTypeOK, NumbersInv, OwnInv, Own, CalmInv, EditsLandWhereMade,
                      EditsLand, RowsAreOwn, Unsaved, Saving, Pending, InFlight
<1> QED BY <1>1, <1>2, <1>3, <1>4, <1>5, <1>6 DEF PrefsNext

\* For any number of indexes, edits and visits: an edit is never silently lost or
\* filed under the wrong index.
THEOREM EditsLandThere == PrefsSpec => []EditsLandWhereMade
<1>1. PrefsInv => EditsLandWhereMade
  BY DEF PrefsInv
<1> QED BY <1>1, PrefsInit_Inv, PrefsNext_Inv, PTL DEF PrefsSpec

\* A panel at rest shows the stored row, for any number of indexes, edits and visits.
THEOREM RestShowsStored == PrefsSpec => []SettledShowsStored
<1>1. PrefsInv => SettledShowsStored
  BY DEF PrefsInv, CalmInv, SettledShowsStored, Saving
<1> QED BY <1>1, PrefsInit_Inv, PrefsNext_Inv, PTL DEF PrefsSpec

\* Every reachable state of the preferences is well typed.
THEOREM PrefsTypeCorrect == PrefsSpec => []PrefsTypeOK
<1>1. PrefsInv => PrefsTypeOK
  BY DEF PrefsInv
<1> QED BY <1>1, PrefsInit_Inv, PrefsNext_Inv, PTL DEF PrefsSpec

-----------------------------------------------------------------------------
(* Views *)

OfIndex == {v \in viewTable : v.index = viewIndex}

\* Rows of view are apart by their ids, which are not used again.
RowIdsInv ==
    /\ viewActs \in Nat
    /\ \A a, b \in viewTable : a.id = b.id => a = b
    /\ \A v \in viewTable \cup items : v.id < viewActs
    /\ \A l \in lists : \A v \in l.rows : v.id < viewActs
    /\ \A s \in saves : s.row.id < viewActs
    /\ \A s, t \in saves : s.form = t.form => s = t
    /\ \A s \in saves : s.form = "create" /\ s.state = "sent" =>
          \A v \in viewTable : v.id # s.row.id

\* The loads of the list are apart by their tokens; the one that counts is of the
\* selected index.
ListsInv ==
    /\ \A l \in lists : l.token <= refreshGuard
    /\ \A l \in lists : l.token = refreshGuard => l.index = viewIndex
    /\ \A l, m \in lists : l.token = m.token => l = m

\* The saves that are under way while nothing is mixed.
SavesInv ==
    ~mixed =>
        /\ lists # {} => saves = {}
        /\ \A s \in saves : s.row.index = viewIndex
        /\ \A s, t \in saves : s.row.id = t.row.id => s = t
        /\ \A s \in saves : s.state = "stored" =>
              IF s.form = "delete" THEN \A v \in viewTable : v.id # s.row.id
                                   ELSE s.row \in viewTable

\* A stored save accounts for what the list still has, or has not yet.
StillHas(v) == \E s \in saves : s.state = "stored" /\ s.form # "create" /\ s.row.id = v.id
HasNotYet(v) == \E s \in saves : s.state = "stored" /\ s.form # "delete" /\ s.row = v

ItemsInv ==
    /\ \A v \in items : v \in OfIndex \/ StillHas(v)
    /\ listed => \A v \in OfIndex : v \in items \/ HasNotYet(v)
    /\ listed => \A s \in saves : s.form \in {"rename", "overwrite"} =>
          \E v \in items : v.id = s.row.id

\* While nothing is mixed, the list is right, or the load under way will make it so.
ListInv ==
    ~mixed =>
        /\ \A l \in lists : l.token = refreshGuard /\ l.read => l.rows = OfIndex
        /\ \/ listError
           \/ \E l \in lists : l.token = refreshGuard
           \/ ItemsInv

ViewsInv ==
    /\ ViewsTypeOK
    /\ RowIdsInv
    /\ ListsInv
    /\ SavesInv
    /\ ListInv

-----------------------------------------------------------------------------

LEMMA ViewsInit_Inv == ViewsInit => ViewsInv
<1> SUFFICES ASSUME ViewsInit PROVE ViewsInv
  OBVIOUS
<1>1. ViewsTypeOK
  <2>1. {listError, listLoading, listed, mixed} \subseteq BOOLEAN
    BY DEF ViewsInit
  <2> QED BY <2>1 DEF ViewsInit, ViewsTypeOK
<1>2. RowIdsInv /\ ListsInv /\ SavesInv
  BY DEF ViewsInit, RowIdsInv, ListsInv, SavesInv
<1>3. ListInv
  BY DEF ViewsInit, ListInv, ItemsInv
<1> QED BY <1>1, <1>2, <1>3 DEF ViewsInv

\* What the types say of the numbers.
LEMMA ViewNumbers ==
    ASSUME ViewsInv
    PROVE  /\ refreshGuard \in Nat /\ viewActs \in Nat
           /\ \A l \in lists : l.token \in Nat /\ l.token <= refreshGuard
           /\ \A v \in viewTable \cup items : v.id \in Nat /\ v.id < viewActs
           /\ \A l \in lists : \A v \in l.rows : v.id \in Nat /\ v.id < viewActs
           /\ \A s \in saves : s.row.id \in Nat /\ s.row.id < viewActs
<1>1. \A l \in lists : l.token \in Nat /\ l.rows \subseteq SavedView
  BY DEF ViewsInv, ViewsTypeOK, ViewList
<1>2. \A s \in saves : s.row \in SavedView
  BY DEF ViewsInv, ViewsTypeOK, ViewSave
<1>3. \A v \in SavedView : v.id \in Nat
  BY DEF SavedView
<1>4. viewTable \subseteq SavedView /\ items \subseteq SavedView /\ refreshGuard \in Nat
  BY DEF ViewsInv, ViewsTypeOK
<1> QED BY <1>1, <1>2, <1>3, <1>4 DEF ViewsInv, RowIdsInv, ListsInv

LEMMA Refresh_Inv == ASSUME ViewsInv, Refresh PROVE ViewsInv'
<1> DEFINE new == [token |-> refreshGuard + 1, index |-> viewIndex, read |-> FALSE, rows |-> {}]
<1> USE DEF ViewsInv
<1>1. /\ new \in ViewList /\ refreshGuard \in Nat /\ viewActs \in Nat
      /\ new.token = refreshGuard + 1 /\ new.index = viewIndex /\ ~new.read /\ new.rows = {}
      /\ \A l \in lists : l.token \in Nat /\ l.token <= refreshGuard
  <2>1. viewIndex \in ViewIndexes /\ refreshGuard + 1 \in Nat
    BY ViewNumbers DEF ViewsTypeOK
  <2> QED BY <2>1, ViewNumbers DEF ViewList
<1>2. /\ refreshGuard' = refreshGuard + 1 /\ lists' = lists \cup {new} /\ listError' = FALSE
      /\ listLoading' = TRUE /\ mixed' = (saves # {}) /\ viewActs' = viewActs + 1
      /\ UNCHANGED <<viewTable, viewIndex, items, appliedId, saves, listed>>
  BY DEF Refresh, ViewAct
<1> HIDE DEF new
<1>3. ViewsTypeOK'
  <2>1. {listError', listLoading', listed', mixed'} \subseteq BOOLEAN
    BY <1>2 DEF ViewsTypeOK
  <2> QED BY <1>1, <1>2, <2>1 DEF ViewsTypeOK
<1>4. RowIdsInv'
  BY <1>1, <1>2, ViewNumbers DEF RowIdsInv
<1>5. ListsInv'
  BY <1>1, <1>2 DEF ListsInv
<1>6. SavesInv'
  BY <1>2 DEF SavesInv
<1>7. ListInv'
  BY <1>1, <1>2 DEF ListInv
<1> QED BY <1>3, <1>4, <1>5, <1>6, <1>7

LEMMA ReadViews_Inv == ASSUME ViewsInv, NEW l \in lists, ReadViews(l) PROVE ViewsInv'
<1> DEFINE m == [l EXCEPT !.read = TRUE, !.rows = {v \in viewTable : v.index = l.index}]
<1> USE DEF ViewsInv
<1>1. /\ m \in ViewList /\ m.token = l.token /\ m.index = l.index
      /\ m.rows = {v \in viewTable : v.index = l.index}
  BY DEF ViewsTypeOK, ViewList
<1>2. /\ lists' = (lists \ {l}) \cup {m}
      /\ UNCHANGED <<viewTable, viewIndex, items, appliedId, listError, listLoading, refreshGuard,
                     saves, viewActs, listed, mixed>>
  BY DEF ReadViews
<1> HIDE DEF m
<1>3. ViewsTypeOK'
  BY <1>1, <1>2 DEF ViewsTypeOK
<1>4. RowIdsInv'
  BY <1>1, <1>2 DEF RowIdsInv
<1>5. ListsInv'
  BY <1>1, <1>2 DEF ListsInv
<1>6. SavesInv'
  BY <1>1, <1>2 DEF SavesInv
<1>7. ListInv'
  <2> SUFFICES ASSUME ~mixed PROVE ListInv'
    BY <1>2 DEF ListInv
  <2>1. \A k \in lists' : k.token = refreshGuard /\ k.read => k.rows = OfIndex
    BY <1>1, <1>2 DEF ListInv, ListsInv, OfIndex
  <2>2. (\E k \in lists : k.token = refreshGuard) => \E k \in lists' : k.token = refreshGuard
    BY <1>1, <1>2
  <2> QED BY <1>2, <2>1, <2>2 DEF ListInv, ItemsInv, OfIndex, StillHas, HasNotYet
<1> QED BY <1>3, <1>4, <1>5, <1>6, <1>7

LEMMA ListArrives_Inv == ASSUME ViewsInv, NEW l \in lists, ListArrives(l) PROVE ViewsInv'
<1> USE DEF ViewsInv
<1>1. /\ l \in ViewList /\ l.read /\ lists' = lists \ {l}
      /\ IF l.token = refreshGuard
           THEN items' = l.rows /\ listLoading' = FALSE /\ listed' = TRUE
           ELSE UNCHANGED <<items, listLoading, listed>>
      /\ UNCHANGED <<viewTable, viewIndex, appliedId, listError, refreshGuard, saves, viewActs, mixed>>
  BY DEF ListArrives, ViewsTypeOK
<1>2. ViewsTypeOK'
  BY <1>1 DEF ViewsTypeOK, ViewList
<1>3. RowIdsInv'
  BY <1>1 DEF RowIdsInv
<1>4. ListsInv'
  BY <1>1 DEF ListsInv
<1>5. SavesInv'
  BY <1>1 DEF SavesInv
<1>6. ListInv'
  <2> SUFFICES ASSUME ~mixed PROVE ListInv'
    BY <1>1 DEF ListInv
  <2>1. saves = {}
    BY DEF SavesInv
  <2>2. CASE l.token = refreshGuard
    BY <1>1, <2>1, <2>2 DEF ListInv, ItemsInv, OfIndex
  <2>3. CASE l.token # refreshGuard
    BY <1>1, <2>1, <2>3 DEF ListInv, ItemsInv, OfIndex, StillHas, HasNotYet
  <2> QED BY <2>2, <2>3
<1> QED BY <1>2, <1>3, <1>4, <1>5, <1>6

LEMMA ListFails_Inv == ASSUME ViewsInv, NEW l \in lists, ListFails(l) PROVE ViewsInv'
<1> USE DEF ViewsInv
<1>1. /\ l \in ViewList /\ lists' = lists \ {l}
      /\ IF l.token = refreshGuard
           THEN items' = {} /\ listLoading' = FALSE /\ listError' = TRUE
           ELSE UNCHANGED <<items, listLoading, listError>>
      /\ UNCHANGED <<viewTable, viewIndex, appliedId, refreshGuard, saves, viewActs, listed, mixed>>
  BY DEF ListFails, ViewsTypeOK
<1>2. ViewsTypeOK'
  BY <1>1 DEF ViewsTypeOK, ViewList
<1>3. RowIdsInv'
  BY <1>1 DEF RowIdsInv
<1>4. ListsInv'
  BY <1>1 DEF ListsInv
<1>5. SavesInv'
  BY <1>1 DEF SavesInv
<1>6. ListInv'
  BY <1>1 DEF ListInv, ItemsInv, OfIndex, StillHas, HasNotYet
<1> QED BY <1>2, <1>3, <1>4, <1>5, <1>6

LEMMA SwitchViews_Inv == ASSUME ViewsInv, NEW i \in ViewIndexes, SwitchViews(i) PROVE ViewsInv'
<1> USE DEF ViewsInv
<1>1. /\ viewIndex' = i /\ refreshGuard' = refreshGuard + 1 /\ items' = {} /\ appliedId' = NoViewId
      /\ listed' = FALSE /\ mixed' = (saves # {}) /\ viewActs' = viewActs + 1
      /\ UNCHANGED <<viewTable, listError, listLoading, lists, saves>>
  BY DEF SwitchViews, DisownLoads, ViewAct
<1>2. /\ refreshGuard \in Nat /\ viewActs \in Nat
      /\ \A l \in lists : l.token \in Nat /\ l.token <= refreshGuard
  BY ViewNumbers
<1>3. ViewsTypeOK'
  <2>1. {listError', listLoading', listed', mixed'} \subseteq BOOLEAN
    BY <1>1 DEF ViewsTypeOK
  <2> QED BY <1>1, <1>2, <2>1 DEF ViewsTypeOK
<1>4. RowIdsInv'
  BY <1>1, <1>2, ViewNumbers DEF RowIdsInv
<1>5. ListsInv'
  BY <1>1, <1>2 DEF ListsInv
<1>6. SavesInv'
  BY <1>1 DEF SavesInv
<1>7. ListInv'
  BY <1>1, <1>2 DEF ListInv, ItemsInv
<1> QED BY <1>3, <1>4, <1>5, <1>6, <1>7

\* A save is sent: a new row with the next id, or a row that the list has.
LEMMA SendSave_Inv ==
    ASSUME ViewsInv, NEW form \in Forms, NEW r \in SavedView, Send(form, r), r.index = viewIndex,
           IF form = "create" THEN r.id = viewActs ELSE \E v \in items : v.id = r.id
    PROVE  ViewsInv'
<1> DEFINE s == [form |-> form, row |-> r, state |-> "sent"]
<1> USE DEF ViewsInv
<1>1. s \in ViewSave /\ s.form = form /\ s.row = r /\ s.state = "sent"
  BY DEF ViewSave
<1>2. /\ saves' = saves \cup {s} /\ viewActs' = viewActs + 1
      /\ \A t \in saves : t.form # form
      /\ mixed' = (mixed \/ lists # {} \/ \E t \in saves : t.row.id = r.id)
      /\ UNCHANGED <<viewTable, viewIndex, items, appliedId, listError, listLoading, refreshGuard,
                     lists, listed>>
  BY DEF Send, ViewAct, FreeForm
<1> HIDE DEF s
<1>3. r.id \in Nat /\ r.id <= viewActs
  BY ViewNumbers
<1>4. ViewsTypeOK'
  <2>1. {listError', listLoading', listed', mixed'} \subseteq BOOLEAN
    BY <1>2 DEF ViewsTypeOK
  <2> QED BY <1>1, <1>2, <2>1 DEF ViewsTypeOK
<1>5. RowIdsInv'
  <2>1. /\ viewActs' \in Nat
        /\ \A v \in viewTable \cup items : v.id < viewActs'
        /\ \A l \in lists : \A v \in l.rows : v.id < viewActs'
        /\ \A t \in saves' : t.row.id < viewActs'
    BY <1>1, <1>2, <1>3, ViewNumbers
  <2>2. /\ \A t, u \in saves' : t.form = u.form => t = u
        /\ \A a, b \in viewTable : a.id = b.id => a = b
    BY <1>1, <1>2 DEF RowIdsInv
  <2>3. \A t \in saves' : t.form = "create" /\ t.state = "sent" =>
          \A v \in viewTable : v.id # t.row.id
    BY <1>1, <1>2, ViewNumbers DEF RowIdsInv
  <2> QED BY <1>2, <2>1, <2>2, <2>3 DEF RowIdsInv
<1>6. ListsInv'
  BY <1>2 DEF ListsInv
<1>7. SavesInv'
  BY <1>1, <1>2 DEF SavesInv
<1>8. ListInv'
  <2> SUFFICES ASSUME ~mixed' PROVE ListInv'
    BY DEF ListInv
  <2>1. ~mixed /\ lists = {}
    BY <1>2
  <2>2. ItemsInv => ItemsInv'
    BY <1>1, <1>2 DEF ItemsInv, OfIndex, StillHas, HasNotYet
  <2> QED BY <1>2, <2>1, <2>2 DEF ListInv
<1> QED BY <1>4, <1>5, <1>6, <1>7, <1>8

LEMMA CreateView_Inv == ASSUME ViewsInv, NEW name \in ViewNames, CreateView(name) PROVE ViewsInv'
<1> DEFINE r == [id |-> viewActs, index |-> viewIndex, name |-> name, rev |-> 0]
<1>1. r \in SavedView /\ r.index = viewIndex /\ r.id = viewActs /\ "create" \in Forms
  BY DEF ViewsInv, ViewsTypeOK, RowIdsInv, SavedView, Forms
<1>2. Send("create", r)
  BY DEF CreateView
<1> HIDE DEF r
<1> QED BY <1>1, <1>2, SendSave_Inv

LEMMA EditView_Inv ==
    ASSUME ViewsInv, NEW v \in items,
           \/ \E name \in ViewNames : RenameView(v, name)
           \/ OverwriteView(v)
           \/ DeleteView(v)
    PROVE  ViewsInv'
<1>1. v \in SavedView /\ viewIndex \in ViewIndexes /\ viewActs \in Nat
  BY DEF ViewsInv, ViewsTypeOK, RowIdsInv
<1>2. {"rename", "overwrite", "delete"} \subseteq Forms
  BY DEF Forms
<1>3. ASSUME NEW name \in ViewNames, RenameView(v, name) PROVE ViewsInv'
  <2> DEFINE r == [v EXCEPT !.index = viewIndex, !.name = name]
  <2>1. r \in SavedView /\ r.index = viewIndex /\ r.id = v.id
    BY <1>1 DEF SavedView
  <2>2. Send("rename", r)
    BY <1>3 DEF RenameView
  <2> HIDE DEF r
  <2> QED BY <1>2, <2>1, <2>2, SendSave_Inv
<1>4. CASE OverwriteView(v)
  <2> DEFINE r == [v EXCEPT !.index = viewIndex, !.rev = viewActs]
  <2>1. r \in SavedView /\ r.index = viewIndex /\ r.id = v.id
    BY <1>1 DEF SavedView
  <2>2. Send("overwrite", r)
    BY <1>4 DEF OverwriteView
  <2> HIDE DEF r
  <2> QED BY <1>2, <2>1, <2>2, SendSave_Inv
<1>5. CASE DeleteView(v)
  <2> DEFINE r == [v EXCEPT !.index = viewIndex]
  <2>1. r \in SavedView /\ r.index = viewIndex /\ r.id = v.id
    BY <1>1 DEF SavedView
  <2>2. Send("delete", r)
    BY <1>5 DEF DeleteView
  <2> HIDE DEF r
  <2> QED BY <1>2, <2>1, <2>2, SendSave_Inv
<1> QED BY <1>3, <1>4, <1>5

LEMMA ApplyView_Inv == ASSUME ViewsInv, NEW v \in items, ApplyView(v) PROVE ViewsInv'
<1> USE DEF ViewsInv
<1>1. /\ appliedId' = v.id /\ viewActs' = viewActs + 1
      /\ UNCHANGED <<viewTable, viewIndex, items, listError, listLoading, refreshGuard, lists, saves,
                     listed, mixed>>
  BY DEF ApplyView, ViewAct
<1>2. ViewsTypeOK'
  BY <1>1, ViewNumbers DEF ViewsTypeOK
<1>3. RowIdsInv'
  BY <1>1, ViewNumbers DEF RowIdsInv
<1>4. ListsInv' /\ SavesInv' /\ ListInv'
  BY <1>1 DEF ListsInv, SavesInv, ListInv, ItemsInv, OfIndex, StillHas, HasNotYet
<1> QED BY <1>2, <1>3, <1>4

LEMMA SaveFails_Inv == ASSUME ViewsInv, NEW s \in saves, SaveFails(s) PROVE ViewsInv'
<1> USE DEF ViewsInv
<1>1. /\ saves' = saves \ {s} /\ mixed' = (mixed \/ s.state = "stored")
      /\ UNCHANGED <<viewTable, viewIndex, items, appliedId, listError, listLoading, refreshGuard,
                     lists, viewActs, listed>>
  BY DEF SaveFails
<1>2. ViewsTypeOK'
  <2>1. {listError', listLoading', listed', mixed'} \subseteq BOOLEAN
    BY <1>1 DEF ViewsTypeOK
  <2> QED BY <1>1, <2>1 DEF ViewsTypeOK
<1>3. RowIdsInv' /\ ListsInv'
  BY <1>1 DEF RowIdsInv, ListsInv
<1>4. SavesInv'
  BY <1>1 DEF SavesInv
<1>5. ListInv'
  <2> SUFFICES ASSUME ~mixed' PROVE ListInv'
    BY DEF ListInv
  <2>1. ~mixed /\ s.state # "stored" /\ lists = {}
    BY <1>1 DEF SavesInv
  <2>2. \A v \in SavedView : StillHas(v) => StillHas(v)'
    BY <1>1, <2>1 DEF StillHas
  <2>3. \A v \in SavedView : HasNotYet(v) => HasNotYet(v)'
    BY <1>1, <2>1 DEF HasNotYet
  <2>4. ItemsInv => ItemsInv'
    BY <1>1, <2>2, <2>3 DEF ItemsInv, OfIndex, ViewsTypeOK
  <2> QED BY <1>1, <2>1, <2>4 DEF ListInv
<1> QED BY <1>2, <1>3, <1>4, <1>5

\* What storing a save does: the save is refused, or it stores the row it has in the
\* end, in the place of the row with its id.
LEMMA StoreView_Does ==
    ASSUME ViewsInv, NEW s \in saves, StoreView(s)
    PROVE  \E s2 \in ViewSave :
              /\ saves' = (saves \ {s}) \cup {s2}
              /\ s.state = "sent" /\ s2.form = s.form
              /\ s2.row.id = s.row.id /\ s2.row.index = s.row.index
              /\ \/ s2.state = "refused" /\ viewTable' = viewTable
                 \/ /\ s2.state = "stored" /\ s.form = "create"
                    /\ \A v \in viewTable : v.id # s2.row.id
                    /\ \A v \in viewTable : v.index = s2.row.index => v.name # s2.row.name
                    /\ viewTable' = viewTable \cup {s2.row}
                 \/ /\ s2.state = "stored" /\ s.form = "delete"
                    /\ s2.row \in viewTable
                    /\ viewTable' = viewTable \ {s2.row}
                 \/ /\ s2.state = "stored" /\ s.form \in {"rename", "overwrite"}
                    /\ \E v \in viewTable :
                          /\ v.id = s2.row.id /\ v.index = s2.row.index
                          /\ \A w \in viewTable : w # v /\ w.index = v.index => w.name # s2.row.name
                          /\ viewTable' = (viewTable \ {v}) \cup {s2.row}
<1> USE DEF ViewsInv
<1> DEFINE target == Target(s.row)
           written == CASE s.form = "create" -> {s.row}
                        [] s.form = "delete" -> target
                        [] OTHER -> {Patched(v, s) : v \in target}
           refused == \/ s.form # "create" /\ target = {}
                      \/ s.form \in {"create", "rename"} /\ Taken(s.row)
<1>1. /\ s \in ViewSave /\ s.state = "sent" /\ s.form \in Forms /\ s.row \in SavedView
      /\ IF refused
           THEN /\ saves' = (saves \ {s}) \cup {[s EXCEPT !.state = "refused"]}
                /\ UNCHANGED viewTable
           ELSE /\ saves' = (saves \ {s}) \cup {[s EXCEPT !.state = "stored", !.row = r] : r \in written}
                /\ viewTable' = (viewTable \ target) \cup (IF s.form = "delete" THEN {} ELSE written)
  BY DEF StoreView, ViewsTypeOK, ViewSave
<1>2. CASE refused
  <2>1. /\ [s EXCEPT !.state = "refused"] \in ViewSave
        /\ [s EXCEPT !.state = "refused"].form = s.form
        /\ [s EXCEPT !.state = "refused"].row = s.row
        /\ [s EXCEPT !.state = "refused"].state = "refused"
    BY <1>1 DEF ViewSave
  <2>2. saves' = (saves \ {s}) \cup {[s EXCEPT !.state = "refused"]} /\ viewTable' = viewTable
    BY <1>1, <1>2
  <2> QED BY <1>1, <2>1, <2>2
<1>3. \A r \in SavedView : /\ [s EXCEPT !.state = "stored", !.row = r] \in ViewSave
                           /\ [s EXCEPT !.state = "stored", !.row = r].form = s.form
                           /\ [s EXCEPT !.state = "stored", !.row = r].row = r
                           /\ [s EXCEPT !.state = "stored", !.row = r].state = "stored"
  BY <1>1 DEF ViewSave
<1>4. CASE ~refused /\ s.form = "create"
  <2>1. \A v \in viewTable : v.id # s.row.id
    BY <1>1, <1>4 DEF RowIdsInv
  <2>2. target = {} /\ written = {s.row}
    BY <1>4, <2>1 DEF Target
  <2>3. \A v \in viewTable : v.index = s.row.index => v.name # s.row.name
    BY <1>4, <2>1 DEF Taken
  <2>4. saves' = (saves \ {s}) \cup {[s EXCEPT !.state = "stored", !.row = s.row]}
    BY <1>1, <1>4, <2>2
  <2>5. viewTable' = viewTable \cup {s.row}
    BY <1>1, <1>4, <2>2
  <2> DEFINE s2 == [s EXCEPT !.state = "stored", !.row = s.row]
  <2>6. s2 \in ViewSave /\ s2.form = s.form /\ s2.row = s.row /\ s2.state = "stored"
    BY <1>1, <1>3
  <2>7. saves' = (saves \ {s}) \cup {s2} /\ viewTable' = viewTable \cup {s2.row}
    BY <2>4, <2>5, <2>6
  <2> HIDE DEF target, written, refused, s2
  <2> QED BY <1>1, <1>4, <2>1, <2>3, <2>6, <2>7
<1>5. ASSUME ~refused, s.form # "create"
      PROVE  \E t \in viewTable : t.id = s.row.id /\ t.index = s.row.index /\ target = {t}
  <2>1. PICK t \in viewTable : t.id = s.row.id /\ t.index = s.row.index
    BY <1>5 DEF Target
  <2>2. target = {t}
    BY <2>1 DEF Target, RowIdsInv
  <2> QED BY <2>1, <2>2
<1>6. CASE ~refused /\ s.form = "delete"
  <2>1. PICK t \in viewTable : t.id = s.row.id /\ t.index = s.row.index /\ target = {t}
    BY <1>5, <1>6
  <2>2. written = {t}
    BY <1>6, <2>1
  <2>3. saves' = (saves \ {s}) \cup {[s EXCEPT !.state = "stored", !.row = t]}
    BY <1>1, <1>6, <2>2
  <2>4. viewTable' = viewTable \ {t} /\ t \in SavedView
    BY <1>1, <1>6, <2>1 DEF ViewsTypeOK
  <2> DEFINE s2 == [s EXCEPT !.state = "stored", !.row = t]
  <2>5. s2 \in ViewSave /\ s2.form = s.form /\ s2.row = t /\ s2.state = "stored"
    BY <1>3, <2>4
  <2>6. saves' = (saves \ {s}) \cup {s2} /\ viewTable' = viewTable \ {s2.row}
    BY <2>3, <2>4, <2>5
  <2> HIDE DEF target, written, refused, s2
  <2> QED BY <1>1, <1>6, <2>1, <2>5, <2>6
<1>7. CASE ~refused /\ s.form \in {"rename", "overwrite"}
  <2>1. PICK t \in viewTable : t.id = s.row.id /\ t.index = s.row.index /\ target = {t}
    BY <1>5, <1>7
  <2> DEFINE p == Patched(t, s)
  <2>2. written = {p}
    BY <1>7, <2>1
  <2>3. p \in SavedView /\ p.id = t.id /\ p.index = t.index
    BY <1>1, <2>1 DEF Patched, ViewsTypeOK, SavedView
  <2>4. p.name = IF s.form = "rename" THEN s.row.name ELSE t.name
    BY <1>1, <2>1 DEF Patched, ViewsTypeOK, SavedView
  <2>5. saves' = (saves \ {s}) \cup {[s EXCEPT !.state = "stored", !.row = p]}
    BY <1>1, <1>7, <2>2
  <2>6. viewTable' = (viewTable \ {t}) \cup {p}
    BY <1>1, <1>7, <2>1, <2>2
  <2>7. \A w \in viewTable : w # t /\ w.index = t.index => w.name # p.name
    <3>1. CASE s.form = "rename"
      BY <1>7, <2>1, <2>4, <3>1 DEF Taken, RowIdsInv
    <3>2. CASE s.form = "overwrite"
      BY <1>7, <2>1, <2>4, <3>2 DEF ViewsTypeOK
    <3> QED BY <1>7, <3>1, <3>2
  <2> DEFINE s2 == [s EXCEPT !.state = "stored", !.row = p]
  <2>8. s2 \in ViewSave /\ s2.form = s.form /\ s2.row = p /\ s2.state = "stored"
    BY <1>3, <2>3
  <2>9. saves' = (saves \ {s}) \cup {s2} /\ viewTable' = (viewTable \ {t}) \cup {s2.row}
    BY <2>5, <2>6, <2>8
  <2> HIDE DEF target, written, refused, p, s2
  <2>10. /\ t.id = s2.row.id /\ t.index = s2.row.index
         /\ \A w \in viewTable : w # t /\ w.index = t.index => w.name # s2.row.name
         /\ s2.row.id = s.row.id /\ s2.row.index = s.row.index
    BY <2>1, <2>3, <2>7, <2>8
  <2> QED BY <1>1, <1>7, <2>1, <2>8, <2>9, <2>10
<1> QED BY <1>1, <1>2, <1>4, <1>6, <1>7 DEF Forms

LEMMA StoreView_Inv == ASSUME ViewsInv, NEW s \in saves, StoreView(s) PROVE ViewsInv'
<1> USE DEF ViewsInv
<1>1. PICK s2 \in ViewSave :
              /\ saves' = (saves \ {s}) \cup {s2}
              /\ s.state = "sent" /\ s2.form = s.form
              /\ s2.row.id = s.row.id /\ s2.row.index = s.row.index
              /\ \/ s2.state = "refused" /\ viewTable' = viewTable
                 \/ /\ s2.state = "stored" /\ s.form = "create"
                    /\ \A v \in viewTable : v.id # s2.row.id
                    /\ \A v \in viewTable : v.index = s2.row.index => v.name # s2.row.name
                    /\ viewTable' = viewTable \cup {s2.row}
                 \/ /\ s2.state = "stored" /\ s.form = "delete"
                    /\ s2.row \in viewTable
                    /\ viewTable' = viewTable \ {s2.row}
                 \/ /\ s2.state = "stored" /\ s.form \in {"rename", "overwrite"}
                    /\ \E v \in viewTable :
                          /\ v.id = s2.row.id /\ v.index = s2.row.index
                          /\ \A w \in viewTable : w # v /\ w.index = v.index => w.name # s2.row.name
                          /\ viewTable' = (viewTable \ {v}) \cup {s2.row}
  BY StoreView_Does
<1>2. UNCHANGED <<viewIndex, items, appliedId, listError, listLoading, refreshGuard, lists, viewActs,
                  listed, mixed>>
  BY DEF StoreView
<1>3. /\ s2.row \in SavedView /\ s.form \in Forms /\ s.row.id \in Nat /\ s.row.id < viewActs
      /\ viewActs \in Nat
  BY ViewNumbers DEF ViewsTypeOK, ViewSave
<1>4. viewTable' \subseteq viewTable \cup {s2.row}
  BY <1>1
<1>5. ViewsTypeOK'
  <2>1. \A a, b \in viewTable' : a.index = b.index /\ a.name = b.name => a = b
    BY <1>1 DEF ViewsTypeOK
  <2>2. {listError', listLoading', listed', mixed'} \subseteq BOOLEAN
    BY <1>2 DEF ViewsTypeOK
  <2> QED BY <1>1, <1>2, <1>3, <1>4, <2>1, <2>2 DEF ViewsTypeOK
<1>6. RowIdsInv'
  <2>1. \A a, b \in viewTable' : a.id = b.id => a = b
    BY <1>1 DEF RowIdsInv
  <2>2. \A v \in viewTable' : v.id < viewActs
    BY <1>1, <1>3, <1>4, ViewNumbers
  <2>3. \A t, u \in saves' : t.form = u.form => t = u
    BY <1>1 DEF RowIdsInv
  <2>4. \A t \in saves' : t.form = "create" /\ t.state = "sent" => \A v \in viewTable' : v.id # t.row.id
    BY <1>1 DEF RowIdsInv
  <2>5. \A t \in saves' : t.row.id < viewActs
    BY <1>1, <1>3, ViewNumbers
  <2> QED BY <1>2, <2>1, <2>2, <2>3, <2>4, <2>5, ViewNumbers DEF RowIdsInv
<1>7. ListsInv'
  BY <1>2 DEF ListsInv
<1>8. SavesInv'
  <2> SUFFICES ASSUME ~mixed PROVE SavesInv'
    BY <1>2 DEF SavesInv
  <2>1. /\ lists = {} /\ \A t \in saves' : t.row.index = viewIndex
        /\ \A t, u \in saves' : t.row.id = u.row.id => t = u
    BY <1>1, <1>2 DEF SavesInv
  <2>2. \A t \in saves : t # s => t.row.id # s.row.id
    BY DEF SavesInv
  <2>3. \A t \in saves' : t # s2 /\ t.state = "stored" =>
           IF t.form = "delete" THEN \A v \in viewTable' : v.id # t.row.id
                                ELSE t.row \in viewTable'
    BY <1>1, <2>2 DEF SavesInv
  <2>4. s2.state = "stored" =>
           IF s2.form = "delete" THEN \A v \in viewTable' : v.id # s2.row.id
                                 ELSE s2.row \in viewTable'
    BY <1>1 DEF RowIdsInv
  <2> QED BY <1>2, <2>1, <2>3, <2>4 DEF SavesInv
<1>9. ListInv'
  <2> SUFFICES ASSUME ~mixed PROVE ListInv'
    BY <1>2 DEF ListInv
  <2>1. lists = {} /\ s.row.index = viewIndex
    BY DEF SavesInv
  <2>2. \A v \in SavedView : StillHas(v) => StillHas(v)'
    BY <1>1 DEF StillHas
  <2>3. \A v \in SavedView : HasNotYet(v) => HasNotYet(v)'
    BY <1>1 DEF HasNotYet
  <2>4. ItemsInv => ItemsInv'
    <3> SUFFICES ASSUME ItemsInv PROVE ItemsInv'
      OBVIOUS
    <3>1. \A v \in items : v \in OfIndex' \/ StillHas(v)'
      <4>1. \A v \in viewTable : v \in viewTable' \/ StillHas(v)'
        BY <1>1 DEF StillHas
      <4> QED BY <1>2, <2>2, <4>1 DEF ItemsInv, OfIndex, ViewsTypeOK
    <3>2. listed => \A v \in OfIndex' : v \in items \/ HasNotYet(v)'
      <4>1. \A v \in viewTable' : v \in viewTable \/ HasNotYet(v)'
        BY <1>1 DEF HasNotYet
      <4> QED BY <1>2, <2>3, <4>1 DEF ItemsInv, OfIndex, ViewsTypeOK
    <3>3. listed => \A t \in saves' : t.form \in {"rename", "overwrite"} => \E v \in items : v.id = t.row.id
      BY <1>1 DEF ItemsInv
    <3> QED BY <1>2, <3>1, <3>2, <3>3 DEF ItemsInv
  <2> QED BY <1>2, <2>1, <2>4 DEF ListInv
<1> QED BY <1>5, <1>6, <1>7, <1>8, <1>9

LEMMA SaveAnswered_Inv == ASSUME ViewsInv, NEW s \in saves, SaveAnswered(s) PROVE ViewsInv'
<1> USE DEF ViewsInv
<1>1. /\ s.state = "stored" /\ saves' = saves \ {s} /\ items' = ItemsAfter(s)
      /\ UNCHANGED <<viewTable, viewIndex, listError, listLoading, refreshGuard, lists, viewActs,
                     listed, mixed>>
  BY DEF SaveAnswered
<1>2. /\ s.form \in Forms /\ s.row \in SavedView /\ s.row.id \in Nat /\ s.row.id < viewActs
  BY ViewNumbers DEF ViewsTypeOK, ViewSave
<1>3. items' \subseteq items \cup {s.row}
  BY <1>1 DEF ItemsAfter
<1>4. ViewsTypeOK'
  <2>1. appliedId' \in Nat \cup {NoViewId}
    BY <1>2 DEF SaveAnswered, ViewsTypeOK
  <2>2. {listError', listLoading', listed', mixed'} \subseteq BOOLEAN
    BY <1>1 DEF ViewsTypeOK
  <2> QED BY <1>1, <1>2, <1>3, <2>1, <2>2 DEF ViewsTypeOK
<1>5. RowIdsInv'
  BY <1>1, <1>2, <1>3 DEF RowIdsInv
<1>6. ListsInv' /\ SavesInv'
  BY <1>1 DEF ListsInv, SavesInv
<1>7. ListInv'
  <2> SUFFICES ASSUME ~mixed PROVE ListInv'
    BY <1>1 DEF ListInv
  <2>1. /\ lists = {} /\ s.row.index = viewIndex
        /\ \A t \in saves : t.row.id = s.row.id => t = s
        /\ IF s.form = "delete" THEN \A v \in viewTable : v.id # s.row.id ELSE s.row \in viewTable
    BY <1>1 DEF SavesInv
  <2>2. \A v \in SavedView : StillHas(v) => v.id = s.row.id \/ StillHas(v)'
    BY <1>1, <2>1 DEF StillHas
  <2>3. \A v \in SavedView : HasNotYet(v) => v = s.row \/ HasNotYet(v)'
    BY <1>1, <2>1 DEF HasNotYet
  <2>4. ItemsInv => ItemsInv'
    <3> SUFFICES ASSUME ItemsInv PROVE ItemsInv'
      OBVIOUS
    <3>1. CASE s.form = "create"
      <4>1. items' = items \cup {s.row}
        BY <1>1, <3>1 DEF ItemsAfter
      <4>2. \A v \in SavedView : StillHas(v) => StillHas(v)'
        BY <1>1, <3>1 DEF StillHas
      <4>3. \A v \in items' : v \in OfIndex' \/ StillHas(v)'
        BY <1>1, <2>1, <3>1, <4>1, <4>2 DEF ItemsInv, OfIndex, ViewsTypeOK
      <4>4. listed => \A v \in OfIndex' : v \in items' \/ HasNotYet(v)'
        BY <1>1, <2>3, <4>1 DEF ItemsInv, OfIndex, ViewsTypeOK
      <4>5. listed => \A t \in saves' : t.form \in {"rename", "overwrite"} =>
                         \E v \in items' : v.id = t.row.id
        BY <1>1, <4>1 DEF ItemsInv
      <4> QED BY <1>1, <4>3, <4>4, <4>5 DEF ItemsInv
    <3>2. CASE s.form = "delete"
      <4>1. items' = {v \in items : v.id # s.row.id}
        BY <1>1, <3>2 DEF ItemsAfter
      <4>2. \A v \in items' : v \in OfIndex' \/ StillHas(v)'
        BY <1>1, <2>2, <4>1 DEF ItemsInv, OfIndex, ViewsTypeOK
      <4>3. \A v \in SavedView : HasNotYet(v) => HasNotYet(v)'
        BY <1>1, <3>2 DEF HasNotYet
      <4>4. listed => \A v \in OfIndex' : v \in items' \/ HasNotYet(v)'
        BY <1>1, <2>1, <3>2, <4>1, <4>3 DEF ItemsInv, OfIndex, ViewsTypeOK
      <4>5. listed => \A t \in saves' : t.form \in {"rename", "overwrite"} =>
                         \E v \in items' : v.id = t.row.id
        BY <1>1, <2>1, <4>1 DEF ItemsInv
      <4> QED BY <1>1, <4>2, <4>4, <4>5 DEF ItemsInv
    <3>3. CASE s.form \in {"rename", "overwrite"}
      <4>1. items' = {IF v.id = s.row.id THEN s.row ELSE v : v \in items}
        BY <1>1, <3>3 DEF ItemsAfter
      <4>7. \A v \in items : v.id # s.row.id => v \in items'
        BY <4>1
      <4>8. \A v \in items' : v = s.row \/ (v \in items /\ v.id # s.row.id)
        BY <4>1
      <4>9. (\E v \in items : v.id = s.row.id) => s.row \in items'
        BY <4>1
      <4>2. /\ \A v \in items : v.id # s.row.id => v \in items'
            /\ \A v \in items' : v = s.row \/ (v \in items /\ v.id # s.row.id)
            /\ (\E v \in items : v.id = s.row.id) => s.row \in items'
        BY <4>7, <4>8, <4>9
      <4>3. \A v \in items' : v \in OfIndex' \/ StillHas(v)'
        <5>1. \A v \in items : v.id # s.row.id => v \in OfIndex \/ StillHas(v)'
          BY <2>2 DEF ItemsInv, ViewsTypeOK
        <5> QED BY <1>1, <2>1, <3>3, <4>2, <5>1 DEF OfIndex
      <4>4. ASSUME listed, NEW v \in OfIndex PROVE v \in items' \/ HasNotYet(v)'
        <5>0. v \in SavedView /\ v \in viewTable
          BY DEF OfIndex, ViewsTypeOK
        <5>1. CASE v.id = s.row.id
          <6>1. v = s.row
            BY <2>1, <3>3, <5>0, <5>1 DEF RowIdsInv
          <6>2. s.row \in items'
            BY <3>3, <4>2, <4>4 DEF ItemsInv
          <6> QED BY <6>1, <6>2
        <5>2. CASE v.id # s.row.id
          BY <2>3, <4>2, <4>4, <5>0, <5>2 DEF ItemsInv
        <5> QED BY <5>1, <5>2
      <4>5. listed => \A t \in saves' : t.form \in {"rename", "overwrite"} =>
                         \E v \in items' : v.id = t.row.id
        BY <1>1, <2>1, <4>2 DEF ItemsInv
      <4>6. OfIndex' = OfIndex
        BY <1>1 DEF OfIndex
      <4> QED BY <1>1, <4>3, <4>4, <4>5, <4>6 DEF ItemsInv
    <3> QED BY <1>2, <3>1, <3>2, <3>3 DEF Forms
  <2> QED BY <1>1, <2>1, <2>4 DEF ListInv
<1> QED BY <1>4, <1>5, <1>6, <1>7

LEMMA ViewsNext_Inv == ViewsInv /\ [ViewsNext]_viewsVars => ViewsInv'
<1> SUFFICES ASSUME ViewsInv, [ViewsNext]_viewsVars PROVE ViewsInv'
  OBVIOUS
<1>1. CASE Refresh
  BY <1>1, Refresh_Inv
<1>2. CASE \E l \in lists : ReadViews(l) \/ ListArrives(l) \/ ListFails(l)
  BY <1>2, ReadViews_Inv, ListArrives_Inv, ListFails_Inv
<1>3. CASE \E i \in ViewIndexes : SwitchViews(i)
  BY <1>3, SwitchViews_Inv
<1>4. CASE \E name \in ViewNames : CreateView(name)
  BY <1>4, CreateView_Inv
<1>5. CASE \E v \in items, name \in ViewNames : RenameView(v, name)
  BY <1>5, EditView_Inv
<1>6. CASE \E v \in items : OverwriteView(v) \/ DeleteView(v) \/ ApplyView(v)
  BY <1>6, EditView_Inv, ApplyView_Inv
<1>7. CASE \E s \in saves : StoreView(s) \/ SaveAnswered(s) \/ SaveFails(s)
  BY <1>7, StoreView_Inv, SaveAnswered_Inv, SaveFails_Inv
<1>8. CASE UNCHANGED viewsVars
  BY <1>8 DEF viewsVars, ViewsInv, ViewsTypeOK, RowIdsInv, ListsInv, SavesInv, ListInv, ItemsInv,
     OfIndex, StillHas, HasNotYet
<1> QED BY <1>1, <1>2, <1>3, <1>4, <1>5, <1>6, <1>7, <1>8 DEF ViewsNext

\* The invariant of the views holds in every state.
THEOREM ViewsInvHolds == ViewsSpec => []ViewsInv
  BY ViewsInit_Inv, ViewsNext_Inv, PTL DEF ViewsSpec

\* Once all is answered and nothing was mixed, the dropdown lists the stored views of
\* the selected index, whatever loads and indexes were overtaken.
THEOREM ListShowsStored == ViewsSpec => []ListIsStored
<1>1. ViewsInv => ListIsStored
  BY DEF ViewsInv, ListInv, ItemsInv, OfIndex, StillHas, HasNotYet, ListIsStored
<1> QED BY <1>1, ViewsInvHolds, PTL

\* The types, with the names of an index that are apart in the table.
THEOREM ViewsTypeCorrect == ViewsSpec => []ViewsTypeOK
<1>1. ViewsInv => ViewsTypeOK
  BY DEF ViewsInv
<1> QED BY <1>1, ViewsInvHolds, PTL

-----------------------------------------------------------------------------
(* The field panel *)

ScreenTypeOK ==
    /\ view \in PanelViews
    /\ filters \subseteq PanelFields
    /\ open \in [PanelIndexes -> SUBSET PanelFields]
    /\ fields.known \subseteq PanelFields
    /\ fields.load \in {"loading", "ready", "failed"}
    /\ timer \in BOOLEAN
    /\ loadingFields \cup errorByField \subseteq PanelFields

\* A request that counts was sent for what is on screen now, and nothing has changed
\* since; there is one of them at most.
FetchesInv ==
    /\ \A x \in fetches :
          /\ x.aborted \in BOOLEAN /\ x.pending # {} /\ DOMAIN x.keys = x.pending
          /\ x.pending \subseteq PanelFields
    /\ \A x \in fetches : ~x.aborted =>
          /\ ~timer /\ fieldsReady
          /\ x.asked = Asked(view, filters)
          /\ x.pending \subseteq eligibleOpen
          /\ \A f \in x.pending : x.keys[f] = FieldCacheKey(f)
    /\ \A x, y \in fetches : ~x.aborted /\ ~y.aborted => x = y

\* Values are kept under the key of what the server was asked, and a field with a
\* spinner has none.
StoredInv ==
    /\ \A f \in PanelFields : valuesByField[f].key = valuesByField[f].values
    /\ \A f \in loadingFields : valuesByField[f].key = NoKey

\* Once the debounce has ended, an open field has its values, an error or a request.
CurrentInv ==
    ~timer /\ fieldsReady =>
        \A f \in eligibleOpen :
            \/ f \in errorByField
            \/ valuesByField[f].key = FieldCacheKey(f)
            \/ \E x \in fetches : ~x.aborted /\ f \in x.pending

PanelInv ==
    /\ ScreenTypeOK
    /\ FetchesInv
    /\ StoredInv
    /\ CurrentInv
    /\ SpinnersEnd

-----------------------------------------------------------------------------

LEMMA PanelInit_Inv == PanelInit => PanelInv
<1> SUFFICES ASSUME PanelInit PROVE PanelInv
  OBVIOUS
<1>1. ScreenTypeOK
  BY DEF PanelInit, ScreenTypeOK
<1>2. FetchesInv /\ CurrentInv /\ SpinnersEnd
  BY DEF PanelInit, FetchesInv, CurrentInv, SpinnersEnd
<1>3. StoredInv
  BY DEF PanelInit, StoredInv, NoValues
<1> QED BY <1>1, <1>2, <1>3 DEF PanelInv

\* What is on screen changes: the effect either reruns, and disowns the request under
\* way, or what the request was sent for is what it was.
LEMMA Effect_Inv ==
    ASSUME PanelInv, Effect,
           view' \in PanelViews, filters' \subseteq PanelFields,
           open' \in [PanelIndexes -> SUBSET PanelFields],
           fields'.known \subseteq PanelFields, fields'.load \in {"loading", "ready", "failed"},
           UNCHANGED <<valuesByField, loadingFields, errorByField>>
    PROVE  PanelInv'
<1> USE DEF PanelInv
<1>1. ScreenTypeOK'
  BY DEF Effect, ScreenTypeOK
<1>2. StoredInv'
  BY DEF StoredInv
<1>3. CASE timer' = TRUE /\ fetches' = Aborted(fetches)
  <2>1. \A x \in fetches' : \E y \in fetches : x = [y EXCEPT !.aborted = TRUE]
    BY <1>3 DEF Aborted
  <2>2. ASSUME NEW x \in fetches'
        PROVE  /\ x.aborted = TRUE /\ x.pending # {} /\ DOMAIN x.keys = x.pending
               /\ x.pending \subseteq PanelFields
    <3>1. PICK y \in fetches : x = [y EXCEPT !.aborted = TRUE]
      BY <2>1
    <3> QED BY <3>1 DEF FetchesInv
  <2>3. FetchesInv'
    BY <2>2 DEF FetchesInv
  <2> QED BY <1>1, <1>2, <1>3, <2>3 DEF CurrentInv, SpinnersEnd
<1>4. CASE /\ <<triggerKey, fieldsReady>>' = <<triggerKey, fieldsReady>>
           /\ UNCHANGED <<timer, fetches>>
  <2>1. /\ view' = view /\ filters' = filters /\ eligibleOpen' = eligibleOpen
        /\ fieldsReady' = fieldsReady
    BY <1>4 DEF triggerKey
  <2>2. \A f : FieldCacheKey(f)' = FieldCacheKey(f)
    BY <2>1 DEF FieldCacheKey, Asked
  <2>3. Asked(view, filters)' = Asked(view, filters)
    BY <2>1
  <2>4. FetchesInv'
    BY <1>4, <2>1, <2>2, <2>3 DEF FetchesInv
  <2>5. CurrentInv' /\ SpinnersEnd'
    BY <1>4, <2>1, <2>2 DEF CurrentInv, SpinnersEnd
  <2> QED BY <1>1, <1>2, <2>4, <2>5
<1> QED BY <1>3, <1>4 DEF Effect

\* Any act of the user, and the end of a load of the fields.
LEMMA ScreenChanges_Inv ==
    ASSUME PanelInv,
           \/ \E v \in PanelViews : ChangeView(v)
           \/ \E f \in PanelFields : ToggleFilter(f) \/ ToggleOpen(f)
           \/ ReloadFields
           \/ \E ok \in BOOLEAN : FieldsLoaded(ok)
    PROVE  PanelInv'
<1>1. /\ view \in PanelViews /\ filters \subseteq PanelFields
      /\ open \in [PanelIndexes -> SUBSET PanelFields]
      /\ fields.known \subseteq PanelFields /\ fields.load \in {"loading", "ready", "failed"}
      /\ view.index \in PanelIndexes
  BY DEF PanelInv, ScreenTypeOK, PanelViews
<1>2. [fields EXCEPT !.load = "loading"].known \subseteq PanelFields
  BY <1>1
<1>3. [fields EXCEPT !.load = "loading"].load \in {"loading", "ready", "failed"}
  <2>1. CASE "load" \in DOMAIN fields
    BY <2>1
  <2>2. CASE "load" \notin DOMAIN fields
    BY <1>1, <2>2
  <2> QED BY <2>1, <2>2
<1>4. CASE \E v \in PanelViews : ChangeView(v)
  <2>1. PICK v \in PanelViews : ChangeView(v)
    BY <1>4
  <2>2. filters' \subseteq PanelFields /\ open' = open /\ view' \in PanelViews
    BY <1>1, <2>1 DEF ChangeView
  <2>3. fields'.known \subseteq PanelFields /\ fields'.load \in {"loading", "ready", "failed"}
    BY <1>1, <1>2, <1>3, <2>1 DEF ChangeView
  <2> QED BY <1>1, <2>1, <2>2, <2>3, Effect_Inv DEF ChangeView
<1>5. CASE \E f \in PanelFields : ToggleFilter(f)
  BY <1>1, <1>5, Effect_Inv DEF ToggleFilter
<1>6. CASE \E f \in PanelFields : ToggleOpen(f)
  <2>1. PICK f \in PanelFields : ToggleOpen(f)
    BY <1>6
  <2>2. open' \in [PanelIndexes -> SUBSET PanelFields]
    BY <1>1, <2>1 DEF ToggleOpen
  <2> QED BY <1>1, <2>1, <2>2, Effect_Inv DEF ToggleOpen
<1>7. CASE ReloadFields
  BY <1>1, <1>2, <1>3, <1>7, Effect_Inv DEF ReloadFields
<1>8. CASE \E ok \in BOOLEAN : FieldsLoaded(ok)
  <2>1. PICK ok \in BOOLEAN : FieldsLoaded(ok)
    BY <1>8
  <2>2. fields'.known \subseteq PanelFields /\ fields'.load \in {"loading", "ready", "failed"}
    BY <1>1, <2>1, FieldValuesAssumption DEF FieldsLoaded
  <2> QED BY <1>1, <2>1, <2>2, Effect_Inv DEF FieldsLoaded
<1> QED BY <1>4, <1>5, <1>6, <1>7, <1>8

\* No values are kept under the key of a field without any.
LEMMA KeyIsSome ==
    ASSUME PanelInv, NEW f PROVE FieldCacheKey(f) # NoKey
<1>1. view \in PanelViews /\ filters \ {f} \in SUBSET PanelFields
  BY DEF PanelInv, ScreenTypeOK
<1>2. FieldCacheKey(f) \in [view : PanelViews, filters : SUBSET PanelFields]
  BY <1>1 DEF FieldCacheKey, Asked
<1> QED BY <1>2, FieldValuesAssumption

LEMMA RunOrchestrator_Inv == ASSUME PanelInv, RunOrchestrator PROVE PanelInv'
<1> DEFINE kept == {f \in eligibleOpen : valuesByField[f].key = FieldCacheKey(f)}
           pending == MissingFields(kept)
           new == [pending |-> pending, asked |-> Asked(view, filters),
                   keys |-> [f \in pending |-> FieldCacheKey(f)], aborted |-> FALSE]
<1> USE DEF PanelInv
<1>1. /\ timer /\ timer' = FALSE
      /\ UNCHANGED <<view, filters, open, fields, panelActs>>
  BY DEF RunOrchestrator
<1>2. /\ fieldsReady' = fieldsReady /\ eligibleOpen' = eligibleOpen
      /\ \A f : FieldCacheKey(f)' = FieldCacheKey(f)
      /\ Asked(view, filters)' = Asked(view, filters)
  BY <1>1 DEF fieldsReady, eligibleOpen, FieldCacheKey, Asked
<1>3. \A x \in fetches : x.aborted
  BY <1>1 DEF FetchesInv
<1>4. eligibleOpen \subseteq PanelFields
  BY DEF eligibleOpen, ScreenTypeOK
<1>5. CASE ~fieldsReady
  <2>1. UNCHANGED <<fetches, valuesByField, loadingFields, errorByField>>
    BY <1>5 DEF RunOrchestrator
  <2>2. ScreenTypeOK' /\ StoredInv'
    BY <1>1, <2>1 DEF ScreenTypeOK, StoredInv
  <2>3. FetchesInv'
    BY <1>3, <2>1 DEF FetchesInv
  <2>4. CurrentInv' /\ SpinnersEnd'
    BY <1>2, <1>5 DEF CurrentInv, SpinnersEnd
  <2> QED BY <2>2, <2>3, <2>4
<1>6. CASE fieldsReady
  <2>1. /\ valuesByField' = [f \in PanelFields |-> IF f \in kept THEN valuesByField[f] ELSE NoValues]
        /\ loadingFields' = (loadingFields \cap eligibleOpen) \cup pending
        /\ errorByField' = {}
        /\ IF pending = {} THEN fetches' = fetches ELSE fetches' = fetches \cup {new}
    BY <1>6 DEF RunOrchestrator
  <2>2. /\ new.pending = pending /\ new.asked = Asked(view, filters) /\ new.aborted = FALSE
        /\ DOMAIN new.keys = pending /\ \A f \in pending : new.keys[f] = FieldCacheKey(f)
    OBVIOUS
  <2>3. /\ pending \subseteq eligibleOpen
        /\ \A f \in eligibleOpen : f \in kept \/ f \in pending
        /\ \A f \in pending : f \notin kept
        /\ \A f \in kept : f \in eligibleOpen /\ valuesByField[f].key = FieldCacheKey(f)
    BY DEF MissingFields
  <2> HIDE DEF new, pending, kept
  <2>4. \A f \in loadingFields' : f \notin kept
    BY <2>1, <2>3, KeyIsSome DEF StoredInv
  <2>5. ScreenTypeOK'
    BY <1>1, <1>4, <2>1, <2>3 DEF ScreenTypeOK
  <2>6. \A f \in PanelFields : valuesByField'[f] = IF f \in kept THEN valuesByField[f] ELSE NoValues
    BY <2>1
  <2>7. loadingFields' \subseteq PanelFields
    BY <1>4, <2>1, <2>3
  <2>8. StoredInv'
    BY <2>4, <2>6, <2>7 DEF StoredInv, NoValues
  <2>9. FetchesInv'
    <3>1. \A x \in fetches' : x \in fetches \/ (x = new /\ pending # {})
      BY <2>1
    <3>2. \A x \in fetches' : /\ x.aborted \in BOOLEAN /\ x.pending # {} /\ DOMAIN x.keys = x.pending
                              /\ x.pending \subseteq PanelFields
      <4>1. pending # {} => /\ new.aborted \in BOOLEAN /\ new.pending # {}
                            /\ DOMAIN new.keys = new.pending /\ new.pending \subseteq PanelFields
        BY <1>4, <2>2, <2>3
      <4> QED BY <3>1, <4>1 DEF FetchesInv
    <3>3. \A x \in fetches' : ~x.aborted => x = new
      BY <1>3, <3>1
    <3>4. ~timer' /\ fieldsReady' /\ new.pending \subseteq eligibleOpen'
      BY <1>1, <1>2, <1>6, <2>2, <2>3
    <3>5. new.asked = Asked(view, filters)' /\ \A f \in new.pending : new.keys[f] = FieldCacheKey(f)'
      BY <1>2, <2>2
    <3> QED BY <3>2, <3>3, <3>4, <3>5 DEF FetchesInv
  <2>10. \A f \in pending : \E x \in fetches' : ~x.aborted /\ f \in x.pending
    BY <2>1, <2>2
  <2>11. CurrentInv'
    <3>1. \A f \in eligibleOpen : f \in kept => valuesByField'[f].key = FieldCacheKey(f)'
      BY <1>2, <1>4, <2>3, <2>6
    <3> QED BY <1>2, <2>3, <2>10, <3>1 DEF CurrentInv
  <2>12. SpinnersEnd'
    BY <1>2, <2>3, <2>4, <2>10 DEF SpinnersEnd
  <2> QED BY <2>5, <2>8, <2>9, <2>11, <2>12
<1> QED BY <1>5, <1>6

LEMMA FetchEnds_Inv ==
    ASSUME PanelInv, NEW x \in fetches, NEW ok \in BOOLEAN, FetchEnds(x, ok)
    PROVE  PanelInv'
<1> USE DEF PanelInv
<1>1. fetches' = fetches \ {x} /\ UNCHANGED <<view, filters, open, fields, timer, panelActs>>
  BY DEF FetchEnds
<1>2. /\ fieldsReady' = fieldsReady /\ eligibleOpen' = eligibleOpen
      /\ \A f : FieldCacheKey(f)' = FieldCacheKey(f)
      /\ Asked(view, filters)' = Asked(view, filters)
  BY <1>1 DEF fieldsReady, eligibleOpen, FieldCacheKey, Asked
<1>3. FetchesInv'
  BY <1>1, <1>2 DEF FetchesInv
<1>4. CASE x.aborted
  <2>1. UNCHANGED <<valuesByField, loadingFields, errorByField>>
    BY <1>4 DEF FetchEnds
  <2>2. ScreenTypeOK' /\ StoredInv'
    BY <1>1, <2>1 DEF ScreenTypeOK, StoredInv
  <2>3. \A y \in fetches : ~y.aborted => y \in fetches'
    BY <1>1, <1>4
  <2>4. CurrentInv'
    BY <1>1, <1>2, <2>1, <2>3 DEF CurrentInv
  <2>5. SpinnersEnd'
    BY <1>1, <1>2, <2>1, <2>3 DEF SpinnersEnd
  <2> QED BY <1>3, <2>2, <2>4, <2>5
<1>5. CASE ~x.aborted
  <2>1. /\ loadingFields' = loadingFields \ x.pending
        /\ errorByField' = IF ok THEN errorByField \ x.pending ELSE errorByField \cup x.pending
        /\ valuesByField' = [f \in PanelFields |->
                IF ok /\ f \in x.pending
                  THEN [key |-> x.keys[f], values |-> FieldValuesBulk(x.asked, f)]
                  ELSE valuesByField[f]]
    BY <1>5 DEF FetchEnds
  <2>2. /\ x.asked = Asked(view, filters) /\ x.pending \subseteq PanelFields
        /\ \A f \in x.pending : x.keys[f] = FieldCacheKey(f)
    BY <1>5 DEF FetchesInv
  <2>3. \A f : FieldValuesBulk(x.asked, f) = FieldCacheKey(f)
    <3>1. \A f : FieldValuesBulk(x.asked, f) = Asked(view, EffectiveFilters(filters, f))
      BY <2>2 DEF FieldValuesBulk, Asked
    <3>2. \A f : EffectiveFilters(filters, f) = filters \ {f}
      BY DEF EffectiveFilters
    <3> QED BY <3>1, <3>2 DEF FieldCacheKey
  <2>4. \A f \in PanelFields :
            IF ok /\ f \in x.pending
              THEN valuesByField'[f].key = FieldCacheKey(f) /\ valuesByField'[f].values = FieldCacheKey(f)
              ELSE valuesByField'[f] = valuesByField[f]
    BY <2>1, <2>2, <2>3
  <2>5. ScreenTypeOK'
    BY <1>1, <2>1, <2>2 DEF ScreenTypeOK
  <2>6. StoredInv'
    BY <2>1, <2>4, <2>5 DEF StoredInv, ScreenTypeOK
  <2>7. \A y \in fetches : ~y.aborted => y = x
    BY <1>5 DEF FetchesInv
  <2>8. eligibleOpen \subseteq PanelFields
    BY DEF eligibleOpen, ScreenTypeOK
  <2>9. CurrentInv'
    <3> SUFFICES ASSUME ~timer, fieldsReady, NEW f \in eligibleOpen
                 PROVE  f \in errorByField' \/ valuesByField'[f].key = FieldCacheKey(f)'
      BY <1>1, <1>2 DEF CurrentInv
    <3>1. CASE f \in x.pending
      BY <1>2, <2>1, <2>4, <2>8, <3>1
    <3>2. CASE f \notin x.pending
      BY <1>2, <2>1, <2>4, <2>7, <2>8, <3>2 DEF CurrentInv
    <3> QED BY <3>1, <3>2
  <2>10. SpinnersEnd'
    BY <1>1, <1>2, <2>1, <2>7 DEF SpinnersEnd
  <2> QED BY <1>3, <2>5, <2>6, <2>9, <2>10
<1> QED BY <1>4, <1>5

LEMMA PanelNext_Inv == PanelInv /\ [PanelNext]_panelVars => PanelInv'
<1> SUFFICES ASSUME PanelInv, [PanelNext]_panelVars PROVE PanelInv'
  OBVIOUS
<1>1. CASE UNCHANGED panelVars
  <2>1. /\ fieldsReady' = fieldsReady /\ eligibleOpen' = eligibleOpen
        /\ \A f : FieldCacheKey(f)' = FieldCacheKey(f)
        /\ Asked(view, filters)' = Asked(view, filters)
    BY <1>1 DEF panelVars, fieldsReady, eligibleOpen, FieldCacheKey, Asked
  <2> QED BY <1>1, <2>1 DEF panelVars, PanelInv, ScreenTypeOK, FetchesInv, StoredInv, CurrentInv,
      SpinnersEnd
<1> QED BY <1>1, ScreenChanges_Inv, RunOrchestrator_Inv, FetchEnds_Inv DEF PanelNext

\* The invariant of the panel holds in every state.
THEOREM PanelInvHolds == PanelSpec => []PanelInv
  BY PanelInit_Inv, PanelNext_Inv, PTL DEF PanelSpec

\* When nothing is under way every open field shows an error, or the values of what
\* is on screen.
THEOREM ValuesStayCurrent == PanelSpec => []ValuesAreCurrent
<1>1. PanelInv => ValuesAreCurrent
  <2> SUFFICES ASSUME PanelInv, PanelSettled, NEW f \in eligibleOpen
               PROVE  f \in errorByField \/ valuesByField[f].values = Asked(view, filters \ {f})
    BY DEF ValuesAreCurrent
  <2>1. f \in PanelFields
    BY DEF eligibleOpen, PanelInv, ScreenTypeOK
  <2> QED BY <2>1 DEF PanelSettled, PanelInv, CurrentInv, StoredInv, FieldCacheKey
<1> QED BY <1>1, PanelInvHolds, PTL

\* No spinner outlives the request that was to end it.
THEOREM PanelSpinnersEnd == PanelSpec => []SpinnersEnd
<1>1. PanelInv => SpinnersEnd
  BY DEF PanelInv
<1> QED BY <1>1, PanelInvHolds, PTL

\* The types, with one request at most that has not been aborted.
THEOREM PanelTypeCorrect == PanelSpec => []PanelTypeOK
<1>1. PanelInv => PanelTypeOK
  <2> SUFFICES ASSUME PanelInv PROVE PanelTypeOK
    OBVIOUS
  <2> DEFINE counting == {x \in fetches : ~x.aborted}
  <2>1. Cardinality(counting) <= 1
    <3>1. CASE counting = {}
      BY <3>1, FS_EmptySet
    <3>2. ASSUME NEW x \in counting PROVE Cardinality(counting) = 1
      <4>1. counting = {x}
        BY DEF PanelInv, FetchesInv
      <4> QED BY <4>1, FS_Singleton
    <3> QED BY <3>1, <3>2
  <2> QED BY <2>1 DEF PanelInv, ScreenTypeOK, FetchesInv, PanelTypeOK
<1> QED BY <1>1, PanelInvHolds, PTL

-----------------------------------------------------------------------------
(* Paging of the lists *)

\* Of two spans the earlier one has fewer before it.
LEMMA BeforeIsMonotonic ==
    ASSUME NEW S \in SUBSET Nat, IsFiniteSet(S), NEW k \in Nat, NEW j \in Nat, k <= j
    PROVE  /\ Before(k, S) \in Nat /\ Before(j, S) \in Nat
           /\ Before(k, S) <= Before(j, S)
           /\ k \in S /\ k # j => Before(k, S) < Before(j, S)
<1> DEFINE K == {i \in S : i < k}
           J == {i \in S : i < j}
<1>0. \A i \in S : i \in Nat /\ (i < k => i < j)
  OBVIOUS
<1>1. K \in SUBSET J /\ J \in SUBSET S
  BY <1>0
<1>2. IsFiniteSet(J) /\ IsFiniteSet(K) /\ Cardinality(J) \in Nat /\ Cardinality(K) \in Nat
  BY <1>1, FS_Subset, FS_CardinalityType
<1>3. Cardinality(K) <= Cardinality(J) /\ (Cardinality(J) = Cardinality(K) => J = K)
  BY <1>1, <1>2, FS_Subset
<1>4. k \in S /\ k # j => J # K
  OBVIOUS
<1> QED BY <1>2, <1>3, <1>4 DEF Before

LEMMA BeforeGrows ==
    ASSUME NEW S \in SUBSET Nat, IsFiniteSet(S), NEW T \in SUBSET S, NEW k \in Nat
    PROVE  Before(k, T) <= Before(k, S) /\ Before(k, T) \in Nat /\ Before(k, S) \in Nat
<1> DEFINE K == {i \in S : i < k}
           J == {i \in T : i < k}
<1>1. J \in SUBSET K /\ K \in SUBSET S
  OBVIOUS
<1>2. IsFiniteSet(K) /\ IsFiniteSet(J) /\ Cardinality(J) <= Cardinality(K)
  BY <1>1, FS_Subset
<1> QED BY <1>2, FS_CardinalityType DEF Before

\* The numbers of members before each are the numbers below the size, one each.
LEMMA EachHasItsPlace ==
    ASSUME NEW S \in SUBSET Nat, IsFiniteSet(S)
    PROVE  /\ Cardinality(S) \in Nat
           /\ \A k \in S : Before(k, S) \in 0..(Cardinality(S) - 1)
           /\ \A j, k \in S : Before(j, S) = Before(k, S) => j = k
           /\ \A i \in 1..Cardinality(S) : \E k \in S : Before(k, S) = i - 1
<1> DEFINE n == Cardinality(S)
           rank == [k \in S |-> Before(k, S)]
<1>1. n \in Nat
  BY FS_CardinalityType
<1>2. \A k \in S : Before(k, S) \in 0..(n - 1)
  <2> SUFFICES ASSUME NEW k \in S PROVE Before(k, S) \in 0..(n - 1)
    OBVIOUS
  <2>1. {i \in S : i < k} \in SUBSET S /\ k \notin {i \in S : i < k} 
    OBVIOUS
  <2>2. Before(k, S) <= n /\ Before(k, S) # n /\ Before(k, S) \in Nat
    BY <2>1, FS_Subset, FS_CardinalityType DEF Before
  <2> QED BY <1>1, <2>2
<1>3. rank \in Injection(S, 0..(n - 1))
  <2>1. rank \in [S -> 0..(n - 1)]
    BY <1>2
  <2>2. ASSUME NEW k \in S, NEW j \in S, rank[k] = rank[j] PROVE k = j
    <3>1. k \in Nat /\ j \in Nat /\ Before(k, S) = Before(j, S)
      BY <2>2
    <3>2. CASE k <= j
      BY <3>1, <3>2, BeforeIsMonotonic
    <3>3. CASE j <= k
      BY <3>1, <3>3, BeforeIsMonotonic
    <3> QED BY <3>1, <3>2, <3>3
  <2> QED BY <2>1, <2>2 DEF Injection, IsInjective
<1>4. IsFiniteSet(0..(n - 1)) /\ Cardinality(0..(n - 1)) = n
  <2>1. 0 \in Int /\ n - 1 \in Int /\ (IF 0 > n - 1 THEN 0 ELSE n - 1 - 0 + 1) = n
    BY <1>1
  <2> HIDE DEF n
  <2> QED BY <2>1, FS_Interval
<1>5. rank \in Surjection(S, 0..(n - 1))
  BY <1>3, <1>4, FS_Injection
<1>6. \A i \in 1..n : \E k \in S : Before(k, S) = i - 1
  <2> SUFFICES ASSUME NEW i \in 1..n PROVE \E k \in S : Before(k, S) = i - 1
    OBVIOUS
  <2>1. i - 1 \in 0..(n - 1)
    BY <1>1
  <2> QED BY <1>5, <2>1 DEF Surjection
<1>7. \A j, k \in S : Before(j, S) = Before(k, S) => j = k
  BY <1>3 DEF Injection, IsInjective
<1> QED BY <1>1, <1>2, <1>6, <1>7

\* A set in order: each member once, and no others.
LEMMA InOrderLists ==
    ASSUME NEW S \in SUBSET Nat, IsFiniteSet(S)
    PROVE  /\ InOrder(S) \in Seq(S)
           /\ ToSet(InOrder(S)) = S
           /\ \A a, b \in DOMAIN InOrder(S) : InOrder(S)[a] = InOrder(S)[b] => a = b
<1> DEFINE n == Cardinality(S)
<1>1. n \in Nat /\ \A k \in S : Before(k, S) \in 0..(n - 1)
  BY EachHasItsPlace
<1>2. \A j, k \in S : Before(j, S) = Before(k, S) => j = k
  BY EachHasItsPlace
<1>3. \A i \in 1..n : \E k \in S : Before(k, S) = i - 1
  BY EachHasItsPlace
<1>4. \A i \in 1..n : InOrder(S)[i] \in S /\ Before(InOrder(S)[i], S) = i - 1
  BY <1>3 DEF InOrder
<1>5. DOMAIN InOrder(S) = 1..n
  BY DEF InOrder
<1>6. InOrder(S) \in Seq(S)
  <2>1. InOrder(S) \in [1..n -> S]
    BY <1>4 DEF InOrder
  <2> QED BY <1>1, <2>1, SeqDef
<1>7. \A k \in S : \E i \in 1..n : InOrder(S)[i] = k
  <2> SUFFICES ASSUME NEW k \in S PROVE \E i \in 1..n : InOrder(S)[i] = k
    OBVIOUS
  <2>1. Before(k, S) + 1 \in 1..n
    BY <1>1
  <2>2. /\ InOrder(S)[Before(k, S) + 1] \in S
        /\ Before(InOrder(S)[Before(k, S) + 1], S) = Before(k, S)
    BY <1>1, <1>4, <2>1
  <2>3. InOrder(S)[Before(k, S) + 1] = k
    BY <1>2, <2>2
  <2> QED BY <2>1, <2>3
<1>8. ToSet(InOrder(S)) = S
  BY <1>4, <1>5, <1>7 DEF ToSet
<1>9. \A a, b \in DOMAIN InOrder(S) : InOrder(S)[a] = InOrder(S)[b] => a = b
  BY <1>1, <1>4, <1>5
<1> QED BY <1>6, <1>8, <1>9

-----------------------------------------------------------------------------

IsRows(sq) == \A a, b \in DOMAIN sq : sq[a] = sq[b] => a = b

\* Requests are apart by their tokens, and the one that counts is for what the list
\* is about to show: the next page, or page 0 of other filters in the explorer.
RequestsInv ==
    /\ \A r \in asked : r.token <= guard
    /\ \A r, q \in asked : r.token = q.token => r = q
    /\ \A r \in asked : r.token = guard =>
          /\ r.scope = scope
          /\ r.offset = offset \/ (r.offset = 0 /\ list = "explorer")
          /\ r.offset <= MAX_EXPLORE_OFFSET
          /\ failure = "none"
          /\ pageLoading \/ pageMore
    /\ scope # NoScope /\ (pageLoading \/ pageMore) => \E r \in asked : r.token = guard

\* A list that is not at its end has an offset that may be asked for.
OffsetInv ==
    /\ scope = NoScope => asked = {} /\ rows = <<>> /\ offset = 0
    /\ failure # "none" => offset <= MAX_EXPLORE_OFFSET
    /\ list = "errors" /\ ~atEndFlag => offset <= MAX_EXPLORE_OFFSET
    /\ list = "errors" /\ offset = 0 => rows = <<>>

\* Rows of other filters are there in the explorer only, until page 0 answers.
DimmedInv ==
    rowsOf # scope =>
        /\ list = "explorer"
        /\ \/ scope = NoScope
           \/ pageLoading /\ \A r \in asked : r.token = guard => r.offset = 0
           \/ failure # "none" /\ offset = 0

\* The rows are apart.  A span there was at page 0 is listed once the offset is past
\* it, however many have arrived before it, and before any span that comes after it.
RowsInv ==
    /\ IsRows(rows)
    /\ \A k \in seen0, j \in ToSet(rows) : k < j => k \in ToSet(rows)
    /\ rowsOf \in Scopes =>
          /\ \A k \in seen0 : Before(k, spans[rowsOf]) < offset => k \in ToSet(rows)
          /\ offset # 0 => seen0 \subseteq spans[rowsOf]

PagingInv ==
    /\ PagingTypeOK
    /\ \A s \in Scopes : IsFiniteSet(spans[s])
    /\ RequestsInv
    /\ OffsetInv
    /\ DimmedInv
    /\ RowsInv

-----------------------------------------------------------------------------

LEMMA AppendRows ==
    ASSUME NEW S, NEW sq \in Seq(S), NEW tq \in Seq(S)
    PROVE  /\ sq \o tq \in Seq(S)
           /\ ToSet(sq \o tq) = ToSet(sq) \cup ToSet(tq)
           /\ IsRows(sq) /\ IsRows(tq) /\ ToSet(sq) \cap ToSet(tq) = {} => IsRows(sq \o tq)
<1>1. sq \o tq \in Seq(S) /\ Len(sq \o tq) = Len(sq) + Len(tq)
  OBVIOUS
<1>2. /\ Len(sq) \in Nat /\ Len(tq) \in Nat
      /\ DOMAIN sq = 1..Len(sq) /\ DOMAIN tq = 1..Len(tq)
      /\ DOMAIN (sq \o tq) = 1..(Len(sq) + Len(tq))
  BY <1>1
<1>3. \A i \in DOMAIN (sq \o tq) : (sq \o tq)[i] = IF i <= Len(sq) THEN sq[i] ELSE tq[i - Len(sq)]
  BY <1>2
<1>4. \A i \in DOMAIN (sq \o tq) : IF i <= Len(sq) THEN i \in DOMAIN sq ELSE i - Len(sq) \in DOMAIN tq
  BY <1>2
<1>5. \A i \in DOMAIN sq : i \in DOMAIN (sq \o tq) /\ (sq \o tq)[i] = sq[i]
  BY <1>2, <1>3
<1>6. \A i \in DOMAIN tq : Len(sq) + i \in DOMAIN (sq \o tq) /\ (sq \o tq)[Len(sq) + i] = tq[i]
  BY <1>2, <1>3
<1>7. ToSet(sq \o tq) = ToSet(sq) \cup ToSet(tq)
  <2>1. \A x \in ToSet(sq \o tq) : x \in ToSet(sq) \cup ToSet(tq)
    BY <1>3, <1>4 DEF ToSet
  <2>2. \A x \in ToSet(sq) : x \in ToSet(sq \o tq)
    BY <1>5 DEF ToSet
  <2>3. \A x \in ToSet(tq) : x \in ToSet(sq \o tq)
    BY <1>6 DEF ToSet
  <2> QED BY <2>1, <2>2, <2>3
<1>8. ASSUME IsRows(sq), IsRows(tq), ToSet(sq) \cap ToSet(tq) = {}
      PROVE  IsRows(sq \o tq)
  <2> SUFFICES ASSUME NEW a \in DOMAIN (sq \o tq), NEW b \in DOMAIN (sq \o tq),
                      (sq \o tq)[a] = (sq \o tq)[b]
               PROVE  a = b
    BY DEF IsRows
  <2>1. \A i \in DOMAIN sq, j \in DOMAIN tq : sq[i] # tq[j]
    BY <1>8 DEF ToSet
  <2>2. a \in Nat /\ b \in Nat
    BY <1>2
  <2>3. CASE a <= Len(sq) /\ b <= Len(sq)
    BY <1>3, <1>4, <1>8, <2>3 DEF IsRows
  <2>4. CASE ~(a <= Len(sq)) /\ ~(b <= Len(sq))
    <3>1. a - Len(sq) = b - Len(sq)
      BY <1>3, <1>4, <1>8, <2>4 DEF IsRows
    <3> QED BY <1>2, <2>2, <3>1
  <2>5. CASE (a <= Len(sq)) # (b <= Len(sq))
    BY <1>3, <1>4, <2>1, <2>5
  <2> QED BY <2>3, <2>4, <2>5
<1> QED BY <1>1, <1>7, <1>8

-----------------------------------------------------------------------------

LEMMA PagingInit_Inv == PagingInit => PagingInv
<1> SUFFICES ASSUME PagingInit PROVE PagingInv
  OBVIOUS
<1>1. PagingTypeOK
  <2>1. {atEndFlag, pageLoading, pageMore} \subseteq BOOLEAN
    BY DEF PagingInit
  <2>2. offset \in 0..(MAX_EXPLORE_OFFSET + EXPLORE_PAGE_SIZE)
    BY ListPagingAssumption DEF PagingInit
  <2> QED BY <2>1, <2>2 DEF PagingInit, PagingTypeOK, Kinds, Failures
<1>2. \A s \in Scopes : IsFiniteSet(spans[s])
  BY ListPagingAssumption DEF PagingInit
<1>3. RequestsInv /\ DimmedInv
  BY DEF PagingInit, RequestsInv, DimmedInv
<1>4. OffsetInv
  BY DEF PagingInit, OffsetInv
<1>5. RowsInv
  BY DEF PagingInit, RowsInv, IsRows
<1> QED BY <1>1, <1>2, <1>3, <1>4, <1>5 DEF PagingInv

\* What the types say of the numbers and of the requests.
LEMMA PagingNumbers ==
    ASSUME PagingInv
    PROVE  /\ offset \in Nat /\ guard \in Nat /\ MAX_EXPLORE_OFFSET \in Nat
           /\ EXPLORE_PAGE_SIZE \in Nat /\ EXPLORE_PAGE_SIZE > 0
           /\ \A r \in asked : r \in PageRequest /\ r.token \in Nat /\ r.offset \in Nat
                                 /\ r.scope \in Scopes
           /\ \A s \in Scopes : spans[s] \in SUBSET Nat
           /\ \A k \in seen0 : k \in Nat
           /\ \A k \in ToSet(rows) : k \in Nat
           /\ FirstSpans \cup LateSpans \subseteq Nat
<1>1. offset \in Nat /\ guard \in Nat /\ MAX_EXPLORE_OFFSET \in Nat /\ EXPLORE_PAGE_SIZE \in Nat
      /\ EXPLORE_PAGE_SIZE > 0
  BY ListPagingAssumption DEF PagingInv, PagingTypeOK
<1>2. \A r \in asked : r \in PageRequest
  BY DEF PagingInv, PagingTypeOK
<1>3. \A k \in ToSet(rows) : k \in Nat
  BY ListPagingAssumption DEF PagingInv, PagingTypeOK, ToSet
<1>4. (\A s \in Scopes : spans[s] \in SUBSET Nat) /\ (\A k \in seen0 : k \in Nat)
  BY ListPagingAssumption DEF PagingInv, PagingTypeOK
<1> QED BY <1>1, <1>2, <1>3, <1>4, ListPagingAssumption DEF PageRequest

LEMMA ChangeScope_Inv ==
    ASSUME PagingInv, NEW kind \in Kinds, NEW s \in Scopes, ChangeScope(kind, s)
    PROVE  PagingInv'
<1> DEFINE new == [token |-> guard + 1, scope |-> s, offset |-> 0]
<1> USE DEF PagingInv
<1>1. /\ new \in PageRequest /\ new.token = guard + 1 /\ new.scope = s /\ new.offset = 0
  BY PagingNumbers DEF PageRequest
<1>2. /\ scope # s /\ (scope # NoScope => kind = list)
      /\ list' = kind /\ scope' = s /\ pageLoading' = TRUE /\ pageMore' = FALSE
      /\ guard' = guard + 1 /\ failure' = "none" /\ asked' = asked \cup {new}
      /\ IF kind = "errors"
           THEN atEndFlag' = FALSE /\ offset' = 0 /\ rows' = <<>> /\ rowsOf' = s
           ELSE UNCHANGED <<atEndFlag, offset, rows, rowsOf>>
      /\ UNCHANGED <<spans, total, seen0>>
  BY DEF ChangeScope, FetchPage
<1> HIDE DEF new
<1>3. s # NoScope
  BY ListPagingAssumption
<1>4. PagingTypeOK'
  <2>1. {atEndFlag', pageLoading', pageMore'} \subseteq BOOLEAN
    <3>1. atEndFlag' = FALSE \/ atEndFlag' = atEndFlag
      BY <1>2
    <3> QED BY <1>2, <3>1 DEF PagingTypeOK
  <2>2. offset' \in 0..(MAX_EXPLORE_OFFSET + EXPLORE_PAGE_SIZE)
    BY <1>2, PagingNumbers DEF PagingTypeOK
  <2>3. guard' \in Nat /\ rows' \in Seq(FirstSpans \cup LateSpans)
    <3>1. rows' = <<>> \/ rows' = rows
      BY <1>2
    <3>2. <<>> \in Seq(FirstSpans \cup LateSpans)
      OBVIOUS
    <3>3. rows \in Seq(FirstSpans \cup LateSpans)
      BY DEF PagingTypeOK
    <3>4. guard' \in Nat
      BY <1>2, PagingNumbers
    <3>5. rows' \in Seq(FirstSpans \cup LateSpans)
      <4>1. CASE rows' = <<>>
        BY <3>2, <4>1
      <4>2. CASE rows' = rows
        BY <3>3, <4>2
      <4> QED BY <3>1, <4>1, <4>2
    <3> QED BY <3>4, <3>5
  <2> QED BY <1>1, <1>2, <2>1, <2>2, <2>3 DEF PagingTypeOK, Failures
<1>5. RequestsInv'
  <2>1. \A r \in asked : r.token \in Nat /\ r.token <= guard
    BY PagingNumbers DEF RequestsInv
  <2>2. \A r \in asked' : r.token = guard' => r = new
    BY <1>2, <2>1, PagingNumbers
  <2>3. \A r \in asked' : r.token <= guard'
    BY <1>1, <1>2, <2>1, PagingNumbers
  <2>4. \A r, q \in asked' : r.token = q.token => r = q
    BY <1>1, <1>2, <2>1, PagingNumbers DEF RequestsInv
  <2>5. new.offset = offset' \/ (new.offset = 0 /\ list' = "explorer")
    BY <1>1, <1>2 DEF Kinds
  <2> QED BY <1>1, <1>2, <2>2, <2>3, <2>4, <2>5, PagingNumbers DEF RequestsInv
<1>6. OffsetInv'
  BY <1>2, <1>3, PagingNumbers DEF OffsetInv
<1>7. DimmedInv'
  <2>1. \A r \in asked' : r.token = guard' => r = new
    BY <1>2, PagingNumbers DEF RequestsInv
  <2> QED BY <1>1, <1>2, <2>1 DEF DimmedInv, Kinds
<1>8. RowsInv'
  <2>1. CASE kind = "errors"
    <3>1. rows' = <<>> /\ ToSet(rows') = {} /\ offset' = 0 /\ rowsOf' = s
      BY <1>2, <2>1 DEF ToSet
    <3>2. \A k \in seen0 : Before(k, spans[s]) \in Nat
      BY PagingNumbers, BeforeIsMonotonic
    <3> QED BY <1>2, <3>1, <3>2 DEF RowsInv, IsRows
  <2>2. CASE kind # "errors"
    BY <1>2, <2>2 DEF RowsInv
  <2> QED BY <2>1, <2>2
<1>9. \A t \in Scopes : IsFiniteSet(spans'[t])
  BY <1>2
<1> QED BY <1>4, <1>5, <1>6, <1>7, <1>8, <1>9

LEMMA LoadPage_Inv == ASSUME PagingInv, LoadPage PROVE PagingInv'
<1> DEFINE new == [token |-> guard + 1, scope |-> scope, offset |-> offset]
<1> USE DEF PagingInv
<1>1. scope # NoScope /\ (MoreEnabled \/ RetryEnabled)
  BY DEF LoadPage
<1>2. /\ pageLoading' = (pageLoading \/ offset = 0) /\ pageMore' = (pageMore \/ offset # 0)
      /\ guard' = guard + 1 /\ failure' = "none" /\ asked' = asked \cup {new}
      /\ UNCHANGED <<list, spans, scope, rows, rowsOf, total, atEndFlag, offset, seen0>>
  BY DEF LoadPage, FetchPage
<1>3. new \in PageRequest /\ new.token = guard + 1 /\ new.scope = scope /\ new.offset = offset
  <2>1. scope \in Scopes
    BY <1>1 DEF PagingTypeOK
  <2> QED BY <2>1, PagingNumbers DEF PageRequest
<1> HIDE DEF new
<1>4. offset <= MAX_EXPLORE_OFFSET
  <2>1. CASE RetryEnabled
    BY <2>1 DEF RetryEnabled, OffsetInv
  <2>2. CASE MoreEnabled
    BY <2>2, PagingNumbers DEF MoreEnabled, atEnd, OffsetInv, PagingTypeOK
  <2> QED BY <1>1, <2>1, <2>2
<1>5. PagingTypeOK'
  <2>1. {atEndFlag', pageLoading', pageMore'} \subseteq BOOLEAN
    BY <1>2 DEF PagingTypeOK
  <2> QED BY <1>2, <1>3, <2>1 DEF PagingTypeOK, Failures
<1>6. \A r \in asked' : r.token = guard' => r = new
  BY <1>2, PagingNumbers DEF RequestsInv
<1>7. RequestsInv'
  <2>1. \A r \in asked : r.token \in Nat /\ r.token <= guard
    BY PagingNumbers DEF RequestsInv
  <2>2. \A r \in asked' : r.token <= guard'
    BY <1>2, <1>3, <2>1, PagingNumbers
  <2>3. \A r, q \in asked' : r.token = q.token => r = q
    BY <1>2, <1>3, <2>1, PagingNumbers DEF RequestsInv
  <2>4. pageLoading' \/ pageMore'
    BY <1>2
  <2> QED BY <1>2, <1>3, <1>4, <1>6, <2>2, <2>3, <2>4 DEF RequestsInv
<1>8. OffsetInv'
  BY <1>1, <1>2, <1>4 DEF OffsetInv
<1>9. DimmedInv'
  <2> SUFFICES ASSUME rowsOf # scope PROVE DimmedInv'
    BY <1>2 DEF DimmedInv
  <2>1. list = "explorer" /\ (pageLoading \/ (failure # "none" /\ offset = 0))
    BY <1>1 DEF DimmedInv
  <2>2. offset = 0
    <3>1. CASE failure # "none"
      BY <3>1, <2>1, <1>1 DEF DimmedInv, RequestsInv
    <3>2. CASE failure = "none"
      BY <1>1, <2>1, <3>2 DEF MoreEnabled, RetryEnabled
    <3> QED BY <3>1, <3>2
  <2> QED BY <1>2, <1>3, <1>6, <2>1, <2>2 DEF DimmedInv
<1>10. RowsInv' /\ \A t \in Scopes : IsFiniteSet(spans'[t])
  BY <1>2 DEF RowsInv
<1> QED BY <1>5, <1>7, <1>8, <1>9, <1>10

LEMMA Arrive_Inv ==
    ASSUME PagingInv, NEW s \in Scopes, NEW k \in LateSpans, Arrive(s, k) PROVE PagingInv'
<1> USE DEF PagingInv
<1>1. /\ spans' = [spans EXCEPT ![s] = @ \cup {k}]
      /\ UNCHANGED <<list, scope, rows, rowsOf, total, atEndFlag, offset, pageLoading, pageMore,
                     failure, guard, asked, seen0>>
  BY DEF Arrive
<1>2. PagingTypeOK'
  BY <1>1 DEF PagingTypeOK
<1>3. ASSUME NEW t \in Scopes
      PROVE  spans[t] \in SUBSET spans'[t] /\ IsFiniteSet(spans'[t])
  <2>1. spans'[t] = IF t = s THEN spans[s] \cup {k} ELSE spans[t]
    BY <1>1 DEF PagingTypeOK
  <2>2. IsFiniteSet(spans[s] \cup {k})
    BY FS_AddElement
  <2> QED BY <2>1, <2>2
<1>4. RequestsInv' /\ OffsetInv' /\ DimmedInv'
  BY <1>1 DEF RequestsInv, OffsetInv, DimmedInv
<1>5. RowsInv'
  <2>1. ASSUME rowsOf \in Scopes, NEW j \in seen0, Before(j, spans'[rowsOf]) < offset
        PROVE  j \in ToSet(rows)
    <3>1. spans'[rowsOf] \in SUBSET Nat
      BY <1>2, <2>1, ListPagingAssumption DEF PagingTypeOK
    <3>2. Before(j, spans[rowsOf]) <= Before(j, spans'[rowsOf]) /\ Before(j, spans[rowsOf]) \in Nat
          /\ Before(j, spans'[rowsOf]) \in Nat
      BY <1>3, <2>1, <3>1, BeforeGrows, PagingNumbers
    <3>3. Before(j, spans[rowsOf]) < offset
      BY <2>1, <3>2, PagingNumbers
    <3> QED BY <2>1, <3>3 DEF RowsInv
  <2> QED BY <1>1, <1>3, <2>1 DEF RowsInv
<1> QED BY <1>2, <1>3, <1>4, <1>5

\* The page that arrives: the rows the list has with it.
LEMMA PageArrives_Rows ==
    ASSUME PagingInv, NEW r \in asked, PageArrives(r)
    PROVE  /\ rows' \in Seq(FirstSpans \cup LateSpans)
           /\ RowsInv'
<1> DEFINE found == spans[r.scope]
           have == IF list = "explorer" /\ r.offset = 0 THEN <<>> ELSE rows
           more == Unseen(Result(r), have)
<1> USE DEF PagingInv
<1>0. offset \in Nat /\ EXPLORE_PAGE_SIZE \in Nat /\ EXPLORE_PAGE_SIZE > 0
  BY PagingNumbers
<1>1. /\ r.token = guard /\ r.scope = scope /\ scope \in Scopes /\ r.offset \in Nat
      /\ rows' = have \o InOrder(more) /\ rowsOf' = scope /\ offset' = r.offset + EXPLORE_PAGE_SIZE
      /\ seen0' = IF r.offset = 0 THEN found ELSE seen0
      /\ spans' = spans
  BY PagingNumbers DEF PageArrives, CurrentRequest, ApplyPage, RequestsInv
<1>2. found \in SUBSET Nat /\ IsFiniteSet(found) /\ found \subseteq FirstSpans \cup LateSpans
  BY <1>1, PagingNumbers DEF PagingTypeOK
<1>3. more \in SUBSET found /\ more \in SUBSET Nat /\ IsFiniteSet(more)
  <2>1. more \in SUBSET found
    BY DEF Unseen, Result
  <2> QED BY <1>2, <2>1, FS_Subset
<1>4. /\ InOrder(more) \in Seq(FirstSpans \cup LateSpans) /\ ToSet(InOrder(more)) = more
      /\ IsRows(InOrder(more))
  <2>1. more \subseteq FirstSpans \cup LateSpans
    BY <1>2, <1>3
  <2>2. InOrder(more) \in Seq(more)
    BY <1>3, InOrderLists
  <2>3. InOrder(more) \in Seq(FirstSpans \cup LateSpans)
    <3> HIDE DEF more
    <3> QED BY <2>1, <2>2
  <2> QED BY <1>3, <2>3, InOrderLists DEF IsRows
<1>5. /\ have \in Seq(FirstSpans \cup LateSpans) /\ IsRows(have)
      /\ ToSet(have) \cap more = {}
  BY DEF PagingTypeOK, RowsInv, IsRows, Unseen
<1>6. /\ rows' \in Seq(FirstSpans \cup LateSpans) /\ IsRows(rows')
      /\ ToSet(rows') = ToSet(have) \cup more
  <2> HIDE DEF have, more
  <2> QED BY <1>1, <1>4, <1>5, AppendRows
<1>7. Result(r) \subseteq ToSet(rows')
  BY <1>6 DEF Unseen
<1>8. \A k \in Nat : Before(k, found) \in Nat
  BY <1>2, BeforeIsMonotonic
<1>9. ASSUME r.offset = 0 PROVE ToSet(have) = {}
  <2>1. have = <<>>
    <3>1. CASE list = "explorer"
      BY <1>9, <3>1
    <3>2. CASE list = "errors"
      <4>1. offset = 0
        BY <1>1, <1>9, <3>2 DEF RequestsInv
      <4> QED BY <3>2, <4>1 DEF OffsetInv
    <3> QED BY <3>1, <3>2 DEF PagingTypeOK, Kinds
  <2> QED BY <2>1 DEF ToSet
<1>10. ASSUME r.offset # 0 PROVE have = rows /\ r.offset = offset /\ rowsOf = scope
  BY <1>1, <1>10 DEF RequestsInv, DimmedInv, PagingTypeOK, OffsetInv
<1>11. ASSUME NEW k \in seen0', Before(k, found) < r.offset + EXPLORE_PAGE_SIZE
       PROVE  k \in ToSet(rows')
  <2>1. k \in Nat /\ Before(k, found) \in Nat
    BY <1>1, <1>2, <1>8, PagingNumbers
  <2>2. CASE r.offset = 0
    <3>1. k \in found /\ Before(k, found) \in r.offset..(r.offset + EXPLORE_PAGE_SIZE - 1)
      BY <1>1, <1>11, <2>1, <2>2, PagingNumbers
    <3> QED BY <1>7, <3>1 DEF Result
  <2>3. CASE r.offset # 0
    <3>1. k \in seen0
      BY <1>1, <2>3
    <3>2. rowsOf \in Scopes /\ Before(k, spans[rowsOf]) < offset + EXPLORE_PAGE_SIZE /\ r.offset = offset
      BY <1>1, <1>10, <1>11, <2>3
    <3>3. CASE Before(k, found) < offset
      BY <1>1, <1>6, <1>10, <2>3, <3>1, <3>2, <3>3 DEF RowsInv
    <3>4. CASE ~(Before(k, found) < offset)
      <4>1. Before(k, found) \in r.offset..(r.offset + EXPLORE_PAGE_SIZE - 1)
        BY <1>11, <2>1, <3>2, <3>4, PagingNumbers
      <4>2. k \in found
        BY <1>1, <1>10, <2>3, <3>1 DEF RowsInv
      <4> QED BY <1>7, <4>1, <4>2 DEF Result
    <3> QED BY <3>3, <3>4
  <2> QED BY <2>2, <2>3
<1>12. ASSUME NEW k \in seen0', NEW j \in ToSet(rows'), k < j PROVE k \in ToSet(rows')
  <2>1. k \in Nat
    BY <1>1, <1>2, PagingNumbers
  <2>2. CASE j \in more
    <3>1. j \in Nat /\ j \in Result(r)
      BY <1>3, <2>2 DEF Unseen
    <3>2. Before(j, found) < r.offset + EXPLORE_PAGE_SIZE
      <4>1. Before(j, found) \in r.offset..(r.offset + EXPLORE_PAGE_SIZE - 1)
        BY <3>1 DEF Result
      <4> QED BY <1>0, <1>1, <4>1
    <3>3. Before(k, found) <= Before(j, found)
      BY <1>2, <1>12, <2>1, <3>1, BeforeIsMonotonic
    <3>4. Before(k, found) < r.offset + EXPLORE_PAGE_SIZE
      <4>1. Before(k, found) \in Nat /\ Before(j, found) \in Nat
        BY <1>8, <2>1, <3>1
      <4>2. r.offset + EXPLORE_PAGE_SIZE \in Nat
        BY <1>0, <1>1
      <4> HIDE DEF found
      <4> QED BY <3>2, <3>3, <4>1, <4>2
    <3> QED BY <1>11, <3>4
  <2>3. CASE j \in ToSet(have)
    BY <1>1, <1>6, <1>9, <1>10, <1>12, <2>3 DEF RowsInv
  <2> QED BY <1>6, <2>2, <2>3
<1>13. \A k \in seen0' : Before(k, spans'[rowsOf']) < offset' => k \in ToSet(rows')
  BY <1>1, <1>11
<1>14. seen0' \subseteq spans'[rowsOf']
  BY <1>1, <1>10 DEF RowsInv
<1> QED BY <1>6, <1>12, <1>13, <1>14 DEF RowsInv

LEMMA PageArrives_Inv == ASSUME PagingInv, NEW r \in asked, PageArrives(r) PROVE PagingInv'
<1> USE DEF PagingInv
<1>1. /\ r.token = guard /\ r.scope = scope /\ scope \in Scopes /\ r.offset <= MAX_EXPLORE_OFFSET
      /\ r.offset \in Nat /\ failure = "none"
  BY PagingNumbers DEF PageArrives, CurrentRequest, RequestsInv
<1>2. /\ asked' = asked \ {r} /\ rowsOf' = scope /\ offset' = r.offset + EXPLORE_PAGE_SIZE
      /\ seen0' = IF r.offset = 0 THEN spans[r.scope] ELSE seen0
      /\ IF list = "errors"
           THEN /\ atEndFlag' = (Cardinality(Result(r)) < EXPLORE_PAGE_SIZE
                                     \/ r.offset + EXPLORE_PAGE_SIZE > MAX_EXPLORE_OFFSET)
                /\ UNCHANGED total
           ELSE /\ total' = IF r.offset = 0 THEN Cardinality(spans[r.scope]) ELSE total
                /\ UNCHANGED atEndFlag
      /\ pageLoading' = FALSE /\ pageMore' = FALSE
      /\ UNCHANGED <<list, spans, scope, failure, guard>>
  BY <1>1 DEF PageArrives, ApplyPage
<1>3. PagingTypeOK'
  <2>1. {atEndFlag', pageLoading', pageMore'} \subseteq BOOLEAN
    <3>1. atEndFlag' \in BOOLEAN
      BY <1>2 DEF PagingTypeOK
    <3> QED BY <1>2, <3>1
  <2>2. offset' \in 0..(MAX_EXPLORE_OFFSET + EXPLORE_PAGE_SIZE)
    BY <1>1, <1>2, PagingNumbers
  <2>3. total' \in Nat
    BY <1>1, <1>2, FS_CardinalityType DEF PagingTypeOK
  <2>4. seen0' \subseteq FirstSpans \cup LateSpans
    BY <1>1, <1>2 DEF PagingTypeOK
  <2>5. rows' \in Seq(FirstSpans \cup LateSpans)
    BY PageArrives_Rows
  <2> QED BY <1>1, <1>2, <2>1, <2>2, <2>3, <2>4, <2>5 DEF PagingTypeOK
<1>4. RequestsInv'
  BY <1>1, <1>2 DEF RequestsInv
<1>5. OffsetInv'
  <2>1. scope # NoScope /\ offset' # 0
    BY <1>1, <1>2, PagingNumbers, ListPagingAssumption
  <2>2. list = "errors" /\ ~atEndFlag' => ~(r.offset + EXPLORE_PAGE_SIZE > MAX_EXPLORE_OFFSET)
    BY <1>2
  <2>3. list = "errors" /\ ~atEndFlag' => offset' <= MAX_EXPLORE_OFFSET
    BY <1>1, <1>2, <2>2, PagingNumbers
  <2> QED BY <1>1, <1>2, <2>1, <2>3 DEF OffsetInv
<1>6. DimmedInv' /\ \A t \in Scopes : IsFiniteSet(spans'[t])
  BY <1>2 DEF DimmedInv
<1> QED BY <1>3, <1>4, <1>5, <1>6, PageArrives_Rows

LEMMA PageFails_Inv ==
    ASSUME PagingInv, NEW r \in asked, NEW how \in {"query", "other"}, PageFails(r, how)
    PROVE  PagingInv'
<1> USE DEF PagingInv
<1>1. /\ r.token = guard /\ r.offset <= MAX_EXPLORE_OFFSET /\ r.offset \in Nat
      /\ r.offset = offset \/ (r.offset = 0 /\ list = "explorer")
  BY PagingNumbers DEF PageFails, CurrentRequest, RequestsInv
<1>2. /\ asked' = asked \ {r} /\ failure' = how
      /\ offset' = IF list = "explorer" /\ r.offset = 0 THEN 0 ELSE offset
      /\ pageLoading' = FALSE /\ pageMore' = FALSE
      /\ UNCHANGED <<list, spans, scope, rows, rowsOf, total, atEndFlag, guard, seen0>>
  BY DEF PageFails, OffsetAfterFailure
<1>3. offset' \in Nat /\ offset' <= MAX_EXPLORE_OFFSET /\ (offset' = offset \/ offset' = 0)
  BY <1>1, <1>2, PagingNumbers
<1>4. PagingTypeOK'
  <2>1. {atEndFlag', pageLoading', pageMore'} \subseteq BOOLEAN
    BY <1>2 DEF PagingTypeOK
  <2>2. offset' \in 0..(MAX_EXPLORE_OFFSET + EXPLORE_PAGE_SIZE)
    BY <1>3, PagingNumbers
  <2>3. failure' \in Failures
    BY <1>2 DEF Failures
  <2> QED BY <1>2, <2>1, <2>2, <2>3 DEF PagingTypeOK
<1>5. RequestsInv'
  BY <1>1, <1>2 DEF RequestsInv
<1>6. OffsetInv'
  BY <1>2, <1>3 DEF OffsetInv
<1>7. DimmedInv'
  BY <1>1, <1>2 DEF DimmedInv, OffsetInv, RequestsInv
<1>8. RowsInv'
  <2>1. \A k \in seen0 : rowsOf \in Scopes => Before(k, spans[rowsOf]) \in Nat
    BY PagingNumbers, BeforeIsMonotonic
  <2> QED BY <1>2, <1>3, <2>1 DEF RowsInv
<1> QED BY <1>2, <1>4, <1>5, <1>6, <1>7, <1>8

LEMMA PageIgnored_Inv == ASSUME PagingInv, NEW r \in asked, PageIgnored(r) PROVE PagingInv'
<1> USE DEF PagingInv
<1>1. /\ r.token # guard /\ asked' = asked \ {r}
      /\ UNCHANGED <<list, spans, scope, rows, rowsOf, total, atEndFlag, offset, pageLoading,
                     pageMore, failure, guard, seen0>>
  BY DEF PageIgnored, CurrentRequest
<1>2. PagingTypeOK'
  BY <1>1 DEF PagingTypeOK
<1>3. RequestsInv'
  BY <1>1 DEF RequestsInv
<1>4. OffsetInv' /\ DimmedInv'
  BY <1>1 DEF OffsetInv, DimmedInv
<1>5. RowsInv'
  BY <1>1 DEF RowsInv
<1> QED BY <1>1, <1>2, <1>3, <1>4, <1>5

LEMMA PagingNext_Inv == PagingInv /\ [PagingNext]_pagingVars => PagingInv'
<1> SUFFICES ASSUME PagingInv, [PagingNext]_pagingVars PROVE PagingInv'
  OBVIOUS
<1>1. CASE UNCHANGED pagingVars
  BY <1>1 DEF pagingVars, PagingInv, PagingTypeOK, RequestsInv, OffsetInv, DimmedInv, RowsInv
<1> QED BY <1>1, ChangeScope_Inv, LoadPage_Inv, Arrive_Inv, PageArrives_Inv, PageIgnored_Inv,
       PageFails_Inv DEF PagingNext

\* The invariant of the lists holds in every state.
THEOREM PagingInvHolds == PagingSpec => []PagingInv
  BY PagingInit_Inv, PagingNext_Inv, PTL DEF PagingSpec

\* The list is the first pages of what the filters in the URL select: no row of other
\* filters at full strength, none twice, and none skipped that was there at page 0.
THEOREM ListIsPagesOfScope == PagingSpec => []PagesOfScope
<1>1. PagingInv => PagesOfScope
  <2> SUFFICES ASSUME PagingInv PROVE PagesOfScope
    OBVIOUS
  <2>1. RowsOfScope
    BY DEF PagingInv, DimmedInv, OffsetInv, RowsOfScope
  <2>2. EachSpanOnce
    BY DEF PagingInv, RowsInv, IsRows, EachSpanOnce
  <2> QED BY <2>1, <2>2 DEF PagesOfScope
<1> QED BY <1>1, PagingInvHolds, PTL

\* A list shows a spinner exactly while a request that counts is under way.
THEOREM PagingBusyHolds == PagingSpec => []PagingBusy
<1>1. PagingInv => PagingBusy
  BY DEF PagingInv, RequestsInv, PagingBusy, CurrentRequest
<1> QED BY <1>1, PagingInvHolds, PTL

\* The types, with the bound on the offset.
THEOREM PagingTypeCorrect == PagingSpec => []PagingTypeOK
<1>1. PagingInv => PagingTypeOK
  BY DEF PagingInv
<1> QED BY <1>1, PagingInvHolds, PTL

-----------------------------------------------------------------------------
(* One trace *)

\* The readable documents come by their start.
TraceInv ==
    /\ documents \in Seq(Document \cup {Unreadable})
    /\ Len(documents) <= MAX_TRACE_SPANS
    /\ \A j, k \in DOMAIN documents :
          j < k /\ Readable(documents[j]) /\ Readable(documents[k])
            => documents[j].start <= documents[k].start

\* No documents.
LEMMA TraceInit_Inv == TraceInit => TraceInv
  BY TraceViewAssumption DEF TraceInit, TraceInv

\* A document is found that starts no earlier than those there are.
LEMMA TraceNext_Inv == TraceInv /\ [TraceNext]_traceVars => TraceInv'
<1> SUFFICES ASSUME TraceInv, [TraceNext]_traceVars PROVE TraceInv'
  OBVIOUS
<1>1. ASSUME NEW d \in Document \cup {Unreadable}, Found(d) PROVE TraceInv'
  <2>1. /\ Len(documents) < MAX_TRACE_SPANS /\ documents' = Append(documents, d)
        /\ Readable(d) => \A k \in DOMAIN documents :
                            Readable(documents[k]) => documents[k].start <= d.start
    BY <1>1 DEF Found
  <2>2. /\ documents \in Seq(Document \cup {Unreadable}) /\ MAX_TRACE_SPANS \in Nat
        /\ DOMAIN documents = 1..Len(documents) /\ Len(documents) \in Nat
    BY TraceViewAssumption DEF TraceInv
  <2>3. /\ documents' \in Seq(Document \cup {Unreadable}) /\ Len(documents') = Len(documents) + 1
        /\ DOMAIN documents' = 1..(Len(documents) + 1)
        /\ documents'[Len(documents) + 1] = d
        /\ \A k \in DOMAIN documents : documents'[k] = documents[k]
    BY <2>1, <2>2
  <2>4. ASSUME NEW j \in DOMAIN documents', NEW k \in DOMAIN documents', j < k,
               Readable(documents'[j]), Readable(documents'[k])
        PROVE  documents'[j].start <= documents'[k].start
    <3>1. j \in DOMAIN documents
      BY <2>2, <2>3, <2>4
    <3>2. CASE k \in DOMAIN documents
      BY <2>3, <2>4, <3>1, <3>2 DEF TraceInv
    <3>3. CASE k \notin DOMAIN documents
      <4>1. k = Len(documents) + 1
        BY <2>2, <2>3, <3>3
      <4> QED BY <2>1, <2>3, <2>4, <3>1, <4>1
    <3> QED BY <3>2, <3>3
  <2> QED BY <2>1, <2>2, <2>3, <2>4 DEF TraceInv
<1>2. CASE UNCHANGED traceVars
  BY <1>2 DEF traceVars, TraceInv
<1> QED BY <1>1, <1>2 DEF TraceNext

-----------------------------------------------------------------------------
(* Orders *)

\* A strict order between any two members of S.
OrdersAll(before, S) ==
    /\ \A a \in S : <<a, a>> \notin before
    /\ \A a, b \in S : a # b => <<a, b>> \in before \/ <<b, a>> \in before
    /\ \A a, b, c \in S : <<a, b>> \in before /\ <<b, c>> \in before => <<a, c>> \in before

\* Every member once, each after those that come before it.
ListsInOrder(s, S, before) ==
    /\ s \in [1..Cardinality(S) -> S]
    /\ \A m, n \in DOMAIN s : m < n => <<s[m], s[n]>> \in before

\* Members of a finite set have a place each: the number of those before them.
LEMMA SortedExists ==
    ASSUME NEW S, IsFiniteSet(S), NEW before, OrdersAll(before, S)
    PROVE  \E s : ListsInOrder(s, S, before)
<1> DEFINE size == Cardinality(S)
           Lower(k) == {i \in S : <<i, k>> \in before}
           rank == [k \in S |-> Cardinality(Lower(k))]
<1>1. size \in Nat
  BY FS_CardinalityType
<1>2. \A k \in S : IsFiniteSet(Lower(k)) /\ rank[k] \in Nat
  BY FS_Subset, FS_CardinalityType
<1>3. ASSUME NEW k \in S
      PROVE  rank[k] \in 0..(size - 1)
  <2>1. Lower(k) \in SUBSET S /\ Lower(k) # S
    BY DEF OrdersAll
  <2>2. Cardinality(Lower(k)) <= size /\ Cardinality(Lower(k)) # size
    BY <2>1, FS_Subset
  <2> QED BY <1>1, <1>2, <2>2
<1>4. ASSUME NEW j \in S, NEW k \in S, <<j, k>> \in before
      PROVE  rank[j] < rank[k]
  <2>1. Lower(j) \in SUBSET Lower(k) /\ j \in Lower(k) /\ j \notin Lower(j)
    BY <1>4 DEF OrdersAll
  <2>2. Cardinality(Lower(j)) <= Cardinality(Lower(k)) /\ Cardinality(Lower(j)) # Cardinality(Lower(k))
    BY <1>2, <2>1, FS_Subset
  <2> QED BY <1>2, <2>2
<1>5. rank \in Injection(S, 0..(size - 1))
  <2>1. ASSUME NEW j \in S, NEW k \in S, rank[j] = rank[k]
        PROVE  j = k
    <3> SUFFICES ASSUME j # k PROVE FALSE
      OBVIOUS
    <3>1. rank[j] < rank[k] \/ rank[k] < rank[j]
      <4> HIDE DEF rank
      <4> QED BY <1>4 DEF OrdersAll
    <3> QED BY <1>2, <2>1, <3>1
  <2> QED BY <1>3, <2>1 DEF Injection, IsInjective
<1>6. rank \in Surjection(S, 0..(size - 1))
  <2>1. IsFiniteSet(0..(size - 1)) /\ Cardinality(0..(size - 1)) = size
    <3>1. 0 \in Int /\ size - 1 \in Int /\ (IF 0 > size - 1 THEN 0 ELSE size - 1 - 0 + 1) = size
      BY <1>1
    <3> HIDE DEF size
    <3> QED BY <3>1, FS_Interval
  <2> HIDE DEF rank
  <2> QED BY <1>5, <2>1, FS_Injection
<1> DEFINE s == [n \in 1..size |-> CHOOSE k \in S : rank[k] = n - 1]
<1>7. ASSUME NEW n \in 1..size
      PROVE  s[n] \in S /\ rank[s[n]] = n - 1
  <2>1. n - 1 \in 0..(size - 1)
    BY <1>1
  <2> HIDE DEF rank
  <2>2. \E k \in S : rank[k] = n - 1
    BY <1>6, <2>1 DEF Surjection
  <2> QED BY <2>2
<1>8. s \in [1..size -> S]
  <2> HIDE DEF rank
  <2>1. \A n \in 1..size : s[n] \in S
    BY <1>7
  <2> QED BY <2>1
<1>9. ASSUME NEW m \in 1..size, NEW n \in 1..size, m < n
      PROVE  <<s[m], s[n]>> \in before
  <2> HIDE DEF s, rank
  <2>1. s[m] \in S /\ s[n] \in S /\ rank[s[m]] = m - 1 /\ rank[s[n]] = n - 1
    BY <1>7
  <2>2. s[m] # s[n]
    BY <1>1, <1>9, <2>1
  <2>3. ~(<<s[n], s[m]>> \in before)
    <3> SUFFICES ASSUME <<s[n], s[m]>> \in before PROVE FALSE
      OBVIOUS
    <3>1. rank[s[n]] < rank[s[m]]
      BY <1>4, <2>1
    <3> QED BY <1>1, <1>9, <2>1, <3>1
  <2> QED BY <2>1, <2>2, <2>3 DEF OrdersAll
<1> HIDE DEF s
<1> QED BY <1>8, <1>9 DEF ListsInOrder

\* A sorted set has every member once, the least of them first.
LEMMA SortedIs ==
    ASSUME NEW S, IsFiniteSet(S), NEW before, OrdersAll(before, S)
    PROVE  /\ Cardinality(S) \in Nat
           /\ Sorted(S, before) \in Seq(S) /\ Len(Sorted(S, before)) = Cardinality(S)
           /\ \A m, n \in 1..Cardinality(S) :
                 m < n => <<Sorted(S, before)[m], Sorted(S, before)[n]>> \in before
           /\ \A m, n \in 1..Cardinality(S) :
                 Sorted(S, before)[m] = Sorted(S, before)[n] => m = n
           /\ \A k \in S : \E n \in 1..Cardinality(S) : k = Sorted(S, before)[n]
<1> DEFINE size == Cardinality(S)
           s == Sorted(S, before)
<1>1. ListsInOrder(s, S, before)
  <2>1. \E x \in [1..size -> S] : \A m, n \in DOMAIN x : m < n => <<x[m], x[n]>> \in before
    BY SortedExists DEF ListsInOrder
  <2> QED BY <2>1 DEF Sorted, ListsInOrder
<1>2. size \in Nat
  BY FS_CardinalityType
<1> HIDE DEF s
<1>3. s \in [1..size -> S] /\ DOMAIN s = 1..size
  BY <1>1 DEF ListsInOrder
<1>4. \A m, n \in 1..size : m < n => <<s[m], s[n]>> \in before
  BY <1>1, <1>3 DEF ListsInOrder
<1> HIDE DEF size
<1>5. s \in Seq(S) /\ Len(s) = size
  BY <1>2, <1>3, IsASeq, LenProperties
<1>6. \A m, n \in 1..size : s[m] = s[n] => m = n
  <2> SUFFICES ASSUME NEW m \in 1..size, NEW n \in 1..size, s[m] = s[n], m # n
               PROVE  FALSE
    OBVIOUS
  <2>1. s[m] \in S /\ (m < n \/ n < m)
    BY <1>2, <1>3
  <2>2. <<s[m], s[m]>> \in before
    BY <1>4, <2>1
  <2> QED BY <2>1, <2>2 DEF OrdersAll
<1>7. s \in Surjection(1..size, S)
  <2>1. s \in Injection(1..size, S)
    BY <1>3, <1>6 DEF Injection, IsInjective
  <2>2. IsFiniteSet(1..size) /\ Cardinality(1..size) = size
    <3>1. 1 \in Int /\ size \in Int /\ (IF 1 > size THEN 0 ELSE size - 1 + 1) = size
      BY <1>2
    <3> QED BY <3>1, FS_Interval
  <2> QED BY <2>1, <2>2, FS_Injection DEF size
<1>8. \A k \in S : \E n \in 1..size : k = s[n]
  BY <1>3, <1>7 DEF Surjection
<1> QED BY <1>2, <1>4, <1>5, <1>6, <1>8 DEF s, size

-----------------------------------------------------------------------------
(* The spans of a trace *)

\* A span of the response.
Span == [id : SpanIds, parent : SpanIds \cup {NoSpanId}, start : Nat, duration : Nat]

\* The places of the documents kept, in their order.
LEMMA KeptInOrder ==
    ASSUME TraceInv
    PROVE  LET kept == {k \in DOMAIN documents : Kept(k)}
               order == Sorted(kept, AsTheyCame(DOMAIN documents))
           IN  /\ Len(documents) \in Nat /\ DOMAIN documents = 1..Len(documents)
               /\ \A k \in kept : documents[k] \in Document /\ Readable(documents[k])
               /\ order \in Seq(kept)
               /\ \A m, n \in DOMAIN order : m < n => order[m] < order[n]
               /\ \A k \in kept : \E n \in DOMAIN order : k = order[n]
<1> DEFINE kept == {k \in DOMAIN documents : Kept(k)}
           before == AsTheyCame(DOMAIN documents)
           order == Sorted(kept, before)
<1>1. /\ documents \in Seq(Document \cup {Unreadable})
      /\ DOMAIN documents = 1..Len(documents) /\ Len(documents) \in Nat
  BY DEF TraceInv
<1>2. IsFiniteSet(kept)
  <2>1. IsFiniteSet(1..Len(documents))
    BY <1>1, FS_Interval
  <2>2. kept \in SUBSET (1..Len(documents))
    BY <1>1
  <2> QED BY <2>1, <2>2, FS_Subset
<1>3. \A k \in kept : documents[k] \in Document /\ Readable(documents[k])
  BY <1>1 DEF Kept, Readable
<1>4. \A a, b \in DOMAIN documents : <<a, b>> \in before <=> a < b
  BY DEF AsTheyCame
<1>5. kept \in SUBSET DOMAIN documents /\ \A a \in DOMAIN documents : a \in Nat
  BY <1>1
<1> HIDE DEF kept, before
<1>6. OrdersAll(before, kept)
  BY <1>4, <1>5 DEF OrdersAll
<1>7. /\ Cardinality(kept) \in Nat /\ order \in Seq(kept) /\ Len(order) = Cardinality(kept)
      /\ \A m, n \in 1..Cardinality(kept) : m < n => <<order[m], order[n]>> \in before
      /\ \A k \in kept : \E n \in 1..Cardinality(kept) : k = order[n]
  BY <1>2, <1>6, SortedIs
<1> HIDE DEF order
<1>8. DOMAIN order = 1..Cardinality(kept) /\ \A n \in DOMAIN order : order[n] \in kept
  BY <1>7
<1>9. \A m, n \in DOMAIN order : m < n => order[m] < order[n]
  BY <1>4, <1>5, <1>7, <1>8
<1> QED BY <1>1, <1>3, <1>7, <1>8, <1>9 DEF kept, before, order

\* Some document is the first with the id of another, and the first is kept.
LEMMA FirstIsKept ==
    ASSUME TraceInv, NEW k \in DOMAIN documents, Readable(documents[k])
    PROVE  \E j \in DOMAIN documents : Kept(j) /\ documents[j].id = documents[k].id
<1> DEFINE same == {j \in DOMAIN documents : Readable(documents[j]) /\ documents[j].id = documents[k].id}
           before == AsTheyCame(DOMAIN documents)
<1>1. Len(documents) \in Nat /\ DOMAIN documents = 1..Len(documents)
  BY DEF TraceInv
<1>2. same \in SUBSET (1..Len(documents)) /\ k \in same
  BY <1>1
<1>3. IsFiniteSet(same)
  <2>1. IsFiniteSet(1..Len(documents))
    BY <1>1, FS_Interval
  <2> HIDE DEF same
  <2> QED BY <1>2, <2>1, FS_Subset
<1>4. \A a, b \in 1..Len(documents) : <<a, b>> \in before <=> a < b
  BY <1>1 DEF AsTheyCame
<1> HIDE DEF same, before
<1>5. OrdersAll(before, same)
  BY <1>1, <1>2, <1>4 DEF OrdersAll
<1> DEFINE s == Sorted(same, before)
           size == Cardinality(same)
<1>6. /\ size \in Nat /\ s \in Seq(same) /\ Len(s) = size
      /\ \A m, n \in 1..size : m < n => <<s[m], s[n]>> \in before
      /\ \A j \in same : \E n \in 1..size : j = s[n]
  BY <1>3, <1>5, SortedIs
<1> HIDE DEF s, size
<1>7. 1 \in 1..size
  BY <1>2, <1>6
<1>8. s[1] \in same
  BY <1>6, <1>7
<1>9. ASSUME NEW j \in same
      PROVE  ~(j < s[1])
  <2>1. PICK n \in 1..size : j = s[n]
    BY <1>6
  <2>2. CASE n = 1
    BY <1>1, <1>2, <1>8, <2>1, <2>2
  <2>3. CASE n # 1
    <3>1. <<s[1], s[n]>> \in before
      BY <1>6, <1>7, <2>3
    <3>2. s[1] < j
      BY <1>2, <1>4, <1>8, <2>1, <3>1
    <3> QED BY <1>1, <1>2, <1>8, <3>2
  <2> QED BY <2>2, <2>3
<1>10. ASSUME NEW j \in 1..(s[1] - 1), Readable(documents[j])
       PROVE  documents[j].id # documents[s[1]].id
  <2>1. j \in DOMAIN documents /\ j < s[1]
    BY <1>1, <1>2, <1>8
  <2>2. j \notin same
    BY <1>9, <2>1
  <2> QED BY <1>8, <1>10, <2>1, <2>2 DEF same
<1> QED BY <1>8, <1>10 DEF Kept, same

\* The spans are typed, and of all the ids unless documents are missing.
LEMMA SpansOfTrace ==
    ASSUME TraceInv
    PROVE  /\ Spans \in Seq(Span)
           /\ ~Truncated => {documents[k].id : k \in DOMAIN documents} = {Spans[k].id : k \in DOMAIN Spans}
<1> DEFINE kept == {k \in DOMAIN documents : Kept(k)}
           order == Sorted(kept, AsTheyCame(DOMAIN documents))
<1>1. /\ Len(documents) \in Nat /\ DOMAIN documents = 1..Len(documents)
      /\ \A k \in kept : documents[k] \in Document /\ Readable(documents[k])
      /\ order \in Seq(kept)
      /\ \A m, n \in DOMAIN order : m < n => order[m] < order[n]
      /\ \A k \in kept : \E n \in DOMAIN order : k = order[n]
  BY KeptInOrder
<1>2. Spans = [k \in DOMAIN order |->
                 [id |-> documents[order[k]].id,
                  parent |-> documents[order[k]].parent,
                  start |-> documents[order[k]].start - documents[order[1]].start,
                  duration |-> Duration(documents[order[k]])]]
  BY DEF Spans
<1>3. kept \in SUBSET DOMAIN documents /\ \A k \in kept : k \in Nat
  BY <1>1
<1>4. \A k \in kept : Kept(k)
  OBVIOUS
<1>5. ASSUME NEW k \in DOMAIN documents, Kept(k)
      PROVE  k \in kept
  BY <1>5
<1> HIDE DEF kept, order
<1>6. Len(order) \in Nat /\ DOMAIN order = 1..Len(order) /\ \A k \in DOMAIN order : order[k] \in kept
  BY <1>1
<1>7. ASSUME NEW k \in DOMAIN order
      PROVE  Spans[k] \in Span
  <2>1. 1 \in DOMAIN order /\ k \in Nat /\ (k = 1 \/ 1 < k)
    BY <1>6
  <2>2. /\ documents[order[k]] \in Document /\ documents[order[1]] \in Document
        /\ Readable(documents[order[k]]) /\ Readable(documents[order[1]])
        /\ order[k] \in DOMAIN documents /\ order[1] \in DOMAIN documents
    BY <1>1, <1>3, <1>6, <2>1
  <2>3. /\ documents[order[k]].start \in Nat /\ documents[order[1]].start \in Nat
        /\ documents[order[k]].end \in Nat
        /\ documents[order[k]].id \in SpanIds /\ documents[order[k]].parent \in SpanIds \cup {NoSpanId}
    BY <2>2, TraceViewAssumption DEF Document
  <2>4. documents[order[1]].start <= documents[order[k]].start
    <3>1. CASE k = 1
      BY <2>3, <3>1
    <3>2. CASE 1 < k
      BY <1>1, <2>1, <2>2, <3>2 DEF TraceInv
    <3> QED BY <2>1, <3>1, <3>2
  <2>5. documents[order[k]].start - documents[order[1]].start \in Nat
    BY <2>3, <2>4
  <2>6. Duration(documents[order[k]]) \in Nat
    BY <2>3 DEF Duration
  <2> QED BY <1>2, <2>3, <2>5, <2>6 DEF Span
<1>8. Spans \in Seq(Span)
  <2>1. Spans \in [1..Len(order) -> Span]
    BY <1>2, <1>6, <1>7
  <2> QED BY <1>6, <2>1
<1>9. \A k \in DOMAIN Spans : Spans[k].id = documents[order[k]].id /\ order[k] \in DOMAIN documents
  BY <1>2, <1>3, <1>6
<1>10. ASSUME ~Truncated, NEW k \in DOMAIN documents
       PROVE  \E m \in DOMAIN Spans : Spans[m].id = documents[k].id
  <2>1. PICK j \in DOMAIN documents : Kept(j) /\ documents[j].id = documents[k].id
    BY <1>10, FirstIsKept DEF Truncated
  <2>2. PICK m \in DOMAIN order : j = order[m]
    BY <1>1, <1>5, <2>1
  <2> QED BY <1>2, <1>9, <2>1, <2>2
<1>11. ASSUME ~Truncated
       PROVE  {documents[k].id : k \in DOMAIN documents} = {Spans[k].id : k \in DOMAIN Spans}
  <2>1. \A k \in DOMAIN documents : \E m \in DOMAIN Spans : Spans[m].id = documents[k].id
    BY <1>10, <1>11
  <2>2. \A m \in DOMAIN Spans : \E k \in DOMAIN documents : Spans[m].id = documents[k].id
    BY <1>9
  <2> QED BY <2>1, <2>2
<1> QED BY <1>8, <1>11

\* The spans are relative to the first document, which starts no later than theirs.
LEMMA TraceInv_Types == ASSUME TraceInv PROVE TraceTypeOK
<1>1. Spans \in Seq(Span)
  BY SpansOfTrace
<1>2. \A k \in DOMAIN Spans : Spans[k] \in Span
  BY <1>1
<1>3. \A k \in DOMAIN Spans : Spans[k].start \in Nat /\ Spans[k].duration \in Nat
  BY <1>2 DEF Span
<1> QED BY <1>3 DEF TraceInv, TraceTypeOK

-----------------------------------------------------------------------------
(* The tree *)

\* A tree as it is made of spans: of the parents nothing is known but that they are
\* spans or none.
IsTree(tree) ==
    LET places == 1..Len(tree.spans) IN
    /\ tree.spans \in Seq(Span)
    /\ tree.parent \in [places -> places \cup {0}]
    /\ tree.roots = Roots(tree.parent)
    /\ tree.children = [k \in places |-> {j \in places \ tree.roots : tree.parent[j] = k}]

\* The places of its spans.
Places(tree) == 1..Len(tree.spans)

\* TreeOf makes a tree of any spans.
LEMMA TreeOfSpans ==
    ASSUME NEW given \in Seq(Span)
    PROVE  IsTree(TreeOf(given)) /\ TreeOf(given).spans = given
<1> DEFINE parent == [k \in DOMAIN given |-> Parent(given, k)]
           roots == Roots(parent)
<1>1. DOMAIN given = 1..Len(given)
  OBVIOUS
<1>2. ASSUME NEW k \in DOMAIN given
      PROVE  Parent(given, k) \in DOMAIN given \cup {0}
  <2> DEFINE p == {j \in DOMAIN given : given[j].id = given[k].parent /\ j # k}
  <2>1. p # {} => (CHOOSE j \in p : TRUE) \in p
    OBVIOUS
  <2>2. Parent(given, k) = IF p = {} THEN 0 ELSE CHOOSE j \in p : TRUE
    BY DEF Parent
  <2> QED BY <2>1, <2>2
<1>3. parent \in [DOMAIN given -> DOMAIN given \cup {0}]
  BY <1>2
<1>4. TreeOf(given) =
        [spans |-> given, parent |-> parent, roots |-> roots,
         children |-> [k \in DOMAIN given |-> {j \in DOMAIN given \ roots : parent[j] = k}]]
  BY DEF TreeOf
<1> HIDE DEF parent, roots
<1>5. /\ TreeOf(given).spans = given /\ TreeOf(given).parent = parent /\ TreeOf(given).roots = roots
      /\ TreeOf(given).children = [k \in DOMAIN given |-> {j \in DOMAIN given \ roots : parent[j] = k}]
  BY <1>4
<1> QED BY <1>1, <1>3, <1>5 DEF IsTree, roots

\* What the definition of IsTree says of its parts.
LEMMA TreeParts ==
    ASSUME NEW tree, IsTree(tree)
    PROVE  /\ Len(tree.spans) \in Nat /\ DOMAIN tree.spans = Places(tree) /\ IsFiniteSet(Places(tree))
           /\ DOMAIN tree.parent = Places(tree)
           /\ \A k \in Places(tree) : k \in Nat /\ tree.parent[k] \in Places(tree) \cup {0}
           /\ tree.roots \in SUBSET Places(tree) /\ Parentless(tree.parent) \in SUBSET tree.roots
           /\ \A k \in Places(tree) :
                 tree.children[k] = {j \in Places(tree) \ tree.roots : tree.parent[j] = k}
           /\ \A k \in Places(tree) : tree.spans[k] \in Span /\ tree.spans[k].start \in Nat
<1>1. tree.spans \in Seq(Span)
  BY DEF IsTree
<1>2. /\ Len(tree.spans) \in Nat /\ DOMAIN tree.spans = Places(tree)
      /\ \A k \in Places(tree) : tree.spans[k] \in Span
  BY <1>1 DEF Places
<1>3. IsFiniteSet(Places(tree))
  BY <1>2, FS_Interval DEF Places
<1>4. \A k \in Places(tree) : tree.spans[k].start \in Nat
  BY <1>2 DEF Span
<1>5. tree.parent \in [Places(tree) -> Places(tree) \cup {0}]
  BY DEF IsTree, Places
<1>6. tree.roots = Roots(tree.parent)
  BY DEF IsTree
<1>7. tree.roots \in SUBSET Places(tree) /\ Parentless(tree.parent) \in SUBSET tree.roots
  BY <1>5, <1>6 DEF Roots, Parentless
<1>8. \A k \in Places(tree) : k \in Nat
  BY <1>2 DEF Places
<1>9. \A k \in Places(tree) :
         tree.children[k] = {j \in Places(tree) \ tree.roots : tree.parent[j] = k}
  BY DEF IsTree, Places
<1> QED BY <1>2, <1>3, <1>4, <1>5, <1>7, <1>8, <1>9

\* A sequence with every member of S once.
Lists(s, S) ==
    /\ s \in Seq(S)
    /\ \A m, n \in 1..Len(s) : s[m] = s[n] => m = n
    /\ \A k \in S : \E n \in 1..Len(s) : k = s[n]

\* Starts, and places where they are equal, order spans and intervals.
LEMMA ByStartOrders ==
    ASSUME NEW f, \A k \in DOMAIN f : k \in Nat /\ f[k].start \in Nat,
           NEW S \in SUBSET DOMAIN f
    PROVE  OrdersAll(ByStart(f), S)
<1>1. \A a, b \in S :
         <<a, b>> \in ByStart(f) <=> f[a].start < f[b].start \/ (f[a].start = f[b].start /\ a < b)
  BY DEF ByStart
<1> QED BY <1>1 DEF OrdersAll

\* Siblings are in their order, each once.
LEMMA SiblingsListed ==
    ASSUME NEW tree, IsTree(tree), NEW S \in SUBSET Places(tree)
    PROVE  Lists(Siblings(tree, S), S)
<1>1. OrdersAll(ByStart(tree.spans), S)
  BY TreeParts, ByStartOrders
<1>2. IsFiniteSet(S)
  BY TreeParts, FS_Subset
<1> QED BY <1>1, <1>2, SortedIs DEF Siblings, Lists

\* So are the roots.
LEMMA RootsListed ==
    ASSUME NEW tree, IsTree(tree)
    PROVE  Lists(RootOrder(tree), tree.roots)
<1> DEFINE start(k) == tree.spans[k].start
           cyclic == {k \in tree.roots : tree.parent[k] # 0}
           before == {p \in tree.roots \X tree.roots :
                        \/ start(p[1]) < start(p[2])
                        \/ /\ start(p[1]) = start(p[2])
                           /\ \/ p[1] \notin cyclic /\ p[2] \in cyclic
                              \/ (p[1] \in cyclic <=> p[2] \in cyclic) /\ p[1] < p[2]}
<1>1. RootOrder(tree) = Sorted(tree.roots, before)
  BY DEF RootOrder
<1>2. \A a, b \in tree.roots :
         <<a, b>> \in before <=>
           \/ start(a) < start(b)
           \/ /\ start(a) = start(b)
              /\ \/ a \notin cyclic /\ b \in cyclic
                 \/ (a \in cyclic <=> b \in cyclic) /\ a < b
  OBVIOUS
<1>3. \A a \in tree.roots : a \in Nat /\ start(a) \in Nat
  BY TreeParts
<1> HIDE DEF start, cyclic, before
<1>4. OrdersAll(before, tree.roots)
  BY <1>2, <1>3 DEF OrdersAll
<1>5. IsFiniteSet(tree.roots)
  BY TreeParts, FS_Subset
<1> QED BY <1>1, <1>4, <1>5, SortedIs DEF Lists

-----------------------------------------------------------------------------
(* What is below a span *)

\* A span is below itself, and with a span its children are.
LEMMA BelowIsClosed ==
    ASSUME NEW parent, NEW k \in DOMAIN parent
    PROVE  /\ Below(parent, k) \in SUBSET DOMAIN parent /\ k \in Below(parent, k)
           /\ \A j \in DOMAIN parent : parent[j] \in Below(parent, k) => j \in Below(parent, k)
BY DEF Below

\* Nothing else is.
LEMMA BelowIsLeast ==
    ASSUME NEW parent, NEW k \in DOMAIN parent, NEW S, k \in S,
           \A j \in DOMAIN parent : parent[j] \in S => j \in S
    PROVE  Below(parent, k) \subseteq S
<1> DEFINE T == S \cap DOMAIN parent
<1>1. T \in SUBSET DOMAIN parent /\ k \in T
  OBVIOUS
<1>2. CASE \A j \in DOMAIN parent : parent[j] \in T => j \in T
  BY <1>1, <1>2 DEF Below
<1>3. \A j \in DOMAIN parent : parent[j] \in T => j \in T
  OBVIOUS
<1> QED BY <1>2, <1>3

\* What is below a span is the span or has its parent below the span.
LEMMA BelowByParent ==
    ASSUME NEW parent, NEW k \in DOMAIN parent, NEW j \in Below(parent, k), j # k
    PROVE  parent[j] \in Below(parent, k)
<1> DEFINE S == {k} \cup {i \in Below(parent, k) : parent[i] \in Below(parent, k)}
<1>1. \A i \in DOMAIN parent : parent[i] \in S => i \in S
  BY BelowIsClosed
<1>2. Below(parent, k) \subseteq S
  <2> HIDE DEF S
  <2>1. k \in S
    BY DEF S
  <2> QED BY <1>1, <2>1, BelowIsLeast
<1> QED BY <1>2

-----------------------------------------------------------------------------
(* The walk *)

\* The walk before its first turn.
FirstWalk(tree) == [shown |-> <<>>, pending |-> RootOrder(tree)]

\* The equation of the walk, up to its turn n.
WalksTo(tree, walk, n) ==
    \A m \in 0..n : walk[m] = IF m = 0 THEN FirstWalk(tree) ELSE Turn(tree, walk[m - 1])

\* The walk is what its equation says: the equation has a solution.
LEMMA WalkExists ==
    ASSUME NEW tree, Len(tree.spans) \in Nat
    PROVE  \E walk : /\ WalksTo(tree, walk, Len(tree.spans) + 1)
                     /\ TreeOrder(tree) = walk[Len(tree.spans) + 1].shown
<1> DEFINE top == Len(tree.spans) + 1
           Step(walk) == [n \in 0..top |-> IF n = 0 THEN FirstWalk(tree) ELSE Turn(tree, walk[n - 1])]
           Upto(n) == \E walk : walk = [m \in 0..top |-> walk[m]] /\ WalksTo(tree, walk, n)
           Good == {n \in Nat : n <= top => Upto(n)}
<1>1. top \in Nat
  OBVIOUS
<1> HIDE DEF top
<1>2. 0 \in Good
  <2> DEFINE walk == [m \in 0..top |-> FirstWalk(tree)]
  <2>1. walk = [m \in 0..top |-> walk[m]] /\ walk[0] = FirstWalk(tree)
    BY <1>1
  <2> HIDE DEF walk
  <2>2. WalksTo(tree, walk, 0)
    BY <2>1 DEF WalksTo
  <2> QED BY <2>1, <2>2
<1>3. ASSUME NEW n \in Nat, n \in Good
      PROVE  n + 1 \in Good
  <2> SUFFICES ASSUME n + 1 <= top PROVE Upto(n + 1)
    OBVIOUS
  <2>1. PICK old : old = [m \in 0..top |-> old[m]] /\ WalksTo(tree, old, n)
    BY <1>1, <1>3
  <2> DEFINE walk == [m \in 0..top |-> IF m = n + 1 THEN Turn(tree, old[n]) ELSE old[m]]
  <2>2. /\ walk = [m \in 0..top |-> walk[m]]
        /\ walk[n + 1] = Turn(tree, old[n])
        /\ \A m \in 0..n : walk[m] = old[m]
    BY <1>1
  <2> HIDE DEF walk
  <2>3. ASSUME NEW m \in 0..(n + 1)
        PROVE  walk[m] = IF m = 0 THEN FirstWalk(tree) ELSE Turn(tree, walk[m - 1])
    <3>1. CASE m = n + 1
      <4>1. m # 0 /\ m - 1 = n /\ n \in 0..n
        BY <3>1
      <4> QED BY <2>2, <3>1, <4>1
    <3>2. CASE m \in 0..n
      <4>1. m = 0 \/ m - 1 \in 0..n
        OBVIOUS
      <4> QED BY <2>1, <2>2, <3>2, <4>1 DEF WalksTo
    <3> QED BY <3>1, <3>2
  <2>4. WalksTo(tree, walk, n + 1)
    BY <2>3 DEF WalksTo
  <2> QED BY <2>2, <2>4
<1>4. Upto(top)
  <2> HIDE DEF Good
  <2>1. top \in Good
    BY <1>1, <1>2, <1>3, CountingUp
  <2> QED BY <1>1, <2>1 DEF Good
<1>5. \E walk : walk = Step(walk)
  <2>1. PICK walk : walk = [m \in 0..top |-> walk[m]] /\ WalksTo(tree, walk, top)
    BY <1>4
  <2>2. walk = Step(walk)
    BY <2>1 DEF WalksTo
  <2> QED BY <2>2
<1>6. TreeOrder(tree) = (CHOOSE walk : walk = Step(walk))[top].shown
  BY DEF TreeOrder, FirstWalk, top
<1>7. PICK walk : walk = Step(walk) /\ TreeOrder(tree) = walk[top].shown
  <2> HIDE DEF Step
  <2> QED BY <1>5, <1>6
<1>8. WalksTo(tree, walk, top)
  BY <1>1, <1>7 DEF WalksTo
<1> QED BY <1>7, <1>8 DEF top

\* What hangs below a span in the tree: of a cycle, down to its root.
TreeParent(tree) == [k \in Places(tree) |-> IF k \in tree.roots THEN 0 ELSE tree.parent[k]]
Under(tree, k) == Below(TreeParent(tree), k)

\* What is under a span: with a span its children, and besides the span itself only
\* what its parent led to.
LEMMA UnderIs ==
    ASSUME NEW tree, IsTree(tree), NEW k \in Places(tree)
    PROVE  /\ Under(tree, k) \in SUBSET Places(tree) /\ k \in Under(tree, k)
           /\ \A j \in Places(tree) \ tree.roots :
                 tree.parent[j] \in Under(tree, k) => j \in Under(tree, k)
           /\ \A j \in Under(tree, k) \ {k} :
                 j \notin tree.roots /\ tree.parent[j] \in Under(tree, k)
           /\ Under(tree, k) \subseteq Below(tree.parent, k)
<1> DEFINE up == TreeParent(tree)
<1>1. /\ DOMAIN up = Places(tree) /\ 0 \notin Places(tree)
      /\ \A j \in Places(tree) : up[j] = IF j \in tree.roots THEN 0 ELSE tree.parent[j]
  BY TreeParts DEF TreeParent, Places
<1>2. Under(tree, k) = Below(up, k)
  BY DEF Under
<1> HIDE DEF up
<1>3. /\ Below(up, k) \in SUBSET Places(tree) /\ k \in Below(up, k)
      /\ \A j \in Places(tree) : up[j] \in Below(up, k) => j \in Below(up, k)
  BY <1>1, BelowIsClosed
<1>4. \A j \in Below(up, k) : j # k => up[j] \in Below(up, k)
  BY <1>1, BelowByParent
<1>5. \A j \in Under(tree, k) \ {k} : j \notin tree.roots /\ tree.parent[j] \in Under(tree, k)
  BY <1>1, <1>2, <1>3, <1>4
<1>6. Under(tree, k) \subseteq Below(tree.parent, k)
  <2>1. DOMAIN tree.parent = Places(tree)
    BY TreeParts
  <2>2. /\ Below(tree.parent, k) \in SUBSET Places(tree) /\ k \in Below(tree.parent, k)
        /\ \A j \in Places(tree) : tree.parent[j] \in Below(tree.parent, k) => j \in Below(tree.parent, k)
    BY <2>1, BelowIsClosed
  <2>3. \A j \in DOMAIN up : up[j] \in Below(tree.parent, k) => j \in Below(tree.parent, k)
    BY <1>1, <2>2
  <2> QED BY <1>1, <1>2, <2>2, <2>3, BelowIsLeast
<1> QED BY <1>1, <1>2, <1>3, <1>5, <1>6

\* The spans that were shown, and those that wait to be.
Shown(walk) == {walk.shown[n] : n \in 1..Len(walk.shown)}
Waiting(walk) == {walk.pending[n] : n \in 1..Len(walk.pending)}

\* No span is shown or pending twice.
ShownOnce(tree, walk) ==
    /\ walk.shown \in Seq(Places(tree)) /\ walk.pending \in Seq(Places(tree))
    /\ \A m, n \in 1..Len(walk.shown) : walk.shown[m] = walk.shown[n] => m = n
    /\ \A m, n \in 1..Len(walk.pending) : walk.pending[m] = walk.pending[n] => m = n
    /\ Shown(walk) \cap Waiting(walk) = {}

\* The walk came to a span from its parent, and goes from a span to its children.
LedThere(tree, walk) ==
    /\ \A k \in Shown(walk) \cup Waiting(walk) : k \in tree.roots \/ tree.parent[k] \in Shown(walk)
    /\ tree.roots \subseteq Shown(walk) \cup Waiting(walk)
    /\ \A k \in Places(tree) \ tree.roots :
          tree.parent[k] \in Shown(walk) => k \in Shown(walk) \cup Waiting(walk)

\* While a span below the one shown at b is pending, only spans below that one were
\* shown since, and only such are pending before it.
OneBranch(tree, walk) ==
    \A b \in 1..Len(walk.shown) : \A i \in 1..Len(walk.pending) :
       walk.pending[i] \in Under(tree, walk.shown[b]) =>
         /\ \A n \in 1..Len(walk.shown) : b < n => walk.shown[n] \in Under(tree, walk.shown[b])
         /\ \A h \in 1..Len(walk.pending) : h < i => walk.pending[h] \in Under(tree, walk.shown[b])

\* A span was shown after its parent, with only spans below the parent in between.
BelowParent(tree, walk) ==
    \A a, b \in 1..Len(walk.shown) :
       walk.shown[a] \notin tree.roots /\ walk.shown[b] = tree.parent[walk.shown[a]] =>
         /\ b < a
         /\ \A n \in (b + 1)..a : walk.shown[n] \in Under(tree, walk.shown[b])

\* The invariant of the walk.
WalkInv(tree, walk) ==
    /\ ShownOnce(tree, walk)
    /\ LedThere(tree, walk)
    /\ OneBranch(tree, walk)
    /\ BelowParent(tree, walk)

\* Before the first turn the roots are pending.
LEMMA FirstWalk_Inv ==
    ASSUME NEW tree, IsTree(tree)
    PROVE  WalkInv(tree, FirstWalk(tree))
<1> DEFINE w == FirstWalk(tree)
<1>1. w.shown = <<>> /\ w.pending = RootOrder(tree)
  BY DEF FirstWalk
<1>2. Lists(w.pending, tree.roots)
  BY <1>1, RootsListed
<1>3. tree.roots \in SUBSET Places(tree)
  BY TreeParts
<1> HIDE DEF w
<1>4. Len(w.shown) = 0 /\ w.shown \in Seq(Places(tree)) /\ 1..Len(w.shown) = {}
  BY <1>1
<1>5. Shown(w) = {}
  BY <1>4 DEF Shown
<1>6. w.pending \in Seq(tree.roots) /\ Waiting(w) = tree.roots
  <2>1. w.pending \in Seq(tree.roots)
    BY <1>2 DEF Lists
  <2>2. \A n \in 1..Len(w.pending) : w.pending[n] \in tree.roots
    BY <2>1
  <2>3. \A k \in tree.roots : \E n \in 1..Len(w.pending) : k = w.pending[n]
    BY <1>2 DEF Lists
  <2> QED BY <2>1, <2>2, <2>3 DEF Waiting
<1>7. w.pending \in Seq(Places(tree))
  BY <1>3, <1>6
<1>8. ShownOnce(tree, w)
  BY <1>2, <1>4, <1>5, <1>7 DEF ShownOnce, Lists
<1>9. LedThere(tree, w)
  BY <1>5, <1>6 DEF LedThere
<1>10. OneBranch(tree, w) /\ BelowParent(tree, w)
  BY <1>4 DEF OneBranch, BelowParent
<1> QED BY <1>8, <1>9, <1>10 DEF WalkInv, w

\* One turn, place by place.
TurnTo(tree, w, v, x, kids) ==
    /\ x = w.pending[1] /\ x \in Places(tree) /\ Len(w.shown) \in Nat /\ Len(w.pending) \in Nat
    /\ 1 <= Len(w.pending) /\ Len(kids) \in Nat
    /\ v.shown \in Seq(Places(tree)) /\ v.pending \in Seq(Places(tree))
    /\ Len(v.shown) = Len(w.shown) + 1 /\ v.shown[Len(w.shown) + 1] = x
    /\ \A n \in 1..Len(w.shown) : v.shown[n] = w.shown[n]
    /\ Len(v.pending) = Len(kids) + Len(w.pending) - 1
    /\ \A n \in 1..Len(kids) : v.pending[n] = kids[n]
    /\ \A n \in (Len(kids) + 1)..Len(v.pending) : v.pending[n] = w.pending[n - Len(kids) + 1]
    /\ Lists(kids, tree.children[x])

\* A turn of the loop is such a one.
LEMMA TurnIs ==
    ASSUME NEW tree, IsTree(tree), NEW w, ShownOnce(tree, w), w.pending # <<>>
    PROVE  \E x, kids : TurnTo(tree, w, Turn(tree, w), x, kids)
<1> DEFINE x == Head(w.pending)
           kids == Siblings(tree, tree.children[x])
           rest == Tail(w.pending)
           v == Turn(tree, w)
<1>1. w.shown \in Seq(Places(tree)) /\ w.pending \in Seq(Places(tree))
  BY DEF ShownOnce
<1>2. /\ Len(w.shown) \in Nat /\ Len(w.pending) \in Nat /\ 1 <= Len(w.pending)
      /\ x = w.pending[1] /\ x \in Places(tree)
  <2>1. w.pending[1] \in Places(tree) /\ Len(w.pending) \in Nat /\ 1 <= Len(w.pending)
    <3>1. Len(w.pending) \in Nat /\ Len(w.pending) # 0
      BY <1>1, EmptySeq
    <3> QED BY <1>1, <3>1
  <2> QED BY <1>1, <2>1
<1>3. /\ rest \in Seq(Places(tree)) /\ Len(rest) = Len(w.pending) - 1
      /\ \A n \in 1..Len(rest) : rest[n] = w.pending[n + 1]
  BY <1>1, <1>2
<1>4. tree.children[x] \in SUBSET Places(tree)
  <2> HIDE DEF x
  <2>1. tree.children[x] = {j \in Places(tree) \ tree.roots : tree.parent[j] = x}
    BY <1>2, TreeParts
  <2> QED BY <2>1
<1>5. Lists(kids, tree.children[x])
  BY <1>4, SiblingsListed
<1>6. kids \in Seq(Places(tree)) /\ Len(kids) \in Nat
  <2>1. kids \in Seq(tree.children[x])
    BY <1>5 DEF Lists
  <2> HIDE DEF kids, x
  <2> QED BY <1>4, <2>1
<1>7. v.shown = Append(w.shown, x) /\ v.pending = kids \o rest
  BY DEF Turn
<1> HIDE DEF x, kids, rest, v
<1>8. /\ v.shown \in Seq(Places(tree))
      /\ Len(v.shown) = Len(w.shown) + 1 /\ v.shown[Len(w.shown) + 1] = x
      /\ \A n \in 1..Len(w.shown) : v.shown[n] = w.shown[n]
  BY <1>1, <1>2, <1>7, AppendProperties
<1>9. /\ v.pending \in Seq(Places(tree)) /\ Len(v.pending) = Len(kids) + Len(rest)
      /\ \A n \in 1..(Len(kids) + Len(rest)) :
            v.pending[n] = IF n <= Len(kids) THEN kids[n] ELSE rest[n - Len(kids)]
  <2>1. /\ kids \o rest \in Seq(Places(tree)) /\ Len(kids \o rest) = Len(kids) + Len(rest)
        /\ \A n \in 1..(Len(kids) + Len(rest)) :
              (kids \o rest)[n] = IF n <= Len(kids) THEN kids[n] ELSE rest[n - Len(kids)]
    BY <1>3, <1>6, ConcatProperties
  <2> QED BY <1>7, <2>1
<1>10. ASSUME NEW n \in 1..Len(kids)
       PROVE  v.pending[n] = kids[n]
  <2>1. Len(rest) \in Nat
    BY <1>2, <1>3
  <2>2. n \in 1..(Len(kids) + Len(rest)) /\ n <= Len(kids)
    BY <1>6, <2>1
  <2> QED BY <1>9, <2>2
<1>11. ASSUME NEW n \in (Len(kids) + 1)..Len(v.pending)
       PROVE  v.pending[n] = w.pending[n - Len(kids) + 1]
  <2>1. n \in 1..(Len(kids) + Len(rest)) /\ ~(n <= Len(kids)) /\ n - Len(kids) \in 1..Len(rest)
    BY <1>2, <1>3, <1>6, <1>9
  <2> QED BY <1>3, <1>9, <2>1
<1>12. TurnTo(tree, w, v, x, kids)
  BY <1>1, <1>2, <1>3, <1>5, <1>6, <1>8, <1>9, <1>10, <1>11 DEF TurnTo
<1> QED BY <1>12 DEF v

\* One turn, as sets: the span is shown now, and its children are new.
LEMMA TurnMoves ==
    ASSUME NEW tree, IsTree(tree), NEW w, WalkInv(tree, w), NEW v, NEW x, NEW kids,
           TurnTo(tree, w, v, x, kids)
    PROVE  /\ x \in Waiting(w) /\ x \notin Shown(w)
           /\ tree.children[x] = {j \in Places(tree) \ tree.roots : tree.parent[j] = x}
           /\ tree.children[x] \cap (Shown(w) \cup Waiting(w)) = {}
           /\ Shown(v) = Shown(w) \cup {x}
           /\ Waiting(v) = (Waiting(w) \ {x}) \cup tree.children[x]
<1> DEFINE L == Len(w.shown)
           P == Len(w.pending)
           K == Len(kids)
<1>1. /\ x = w.pending[1] /\ x \in Places(tree) /\ L \in Nat /\ P \in Nat /\ 1 <= P /\ K \in Nat
      /\ Len(v.shown) = L + 1 /\ v.shown[L + 1] = x
      /\ \A n \in 1..L : v.shown[n] = w.shown[n]
      /\ Len(v.pending) = K + P - 1
      /\ \A n \in 1..K : v.pending[n] = kids[n]
      /\ \A n \in (K + 1)..(K + P - 1) : v.pending[n] = w.pending[n - K + 1]
  BY DEF TurnTo
<1>2. Lists(kids, tree.children[x])
  BY DEF TurnTo
<1>3. ShownOnce(tree, w) /\ LedThere(tree, w)
  BY DEF WalkInv
<1>4. tree.children[x] = {j \in Places(tree) \ tree.roots : tree.parent[j] = x}
  <2>1. x \in Places(tree)
    BY <1>1
  <2>2. \A k \in Places(tree) :
           tree.children[k] = {j \in Places(tree) \ tree.roots : tree.parent[j] = k}
    BY TreeParts
  <2> QED BY <2>1, <2>2
<1>5. x \in Waiting(w) /\ x \notin Shown(w)
  <2>1. 1 \in 1..Len(w.pending) /\ x = w.pending[1]
    BY <1>1
  <2>2. x \in Waiting(w)
    BY <2>1 DEF Waiting
  <2> QED BY <1>3, <2>2 DEF ShownOnce
<1>6. ASSUME NEW c \in tree.children[x]
      PROVE  c \notin Shown(w) \cup Waiting(w)
  <2>1. c \notin tree.roots /\ tree.parent[c] = x
    BY <1>4
  <2> QED BY <1>3, <1>5, <2>1 DEF LedThere
<1> HIDE DEF L, P, K
<1>7. Shown(v) = Shown(w) \cup {x}
  <2>1. \A n \in 1..(L + 1) : n \in 1..L \/ n = L + 1
    BY <1>1
  <2>2. L + 1 \in 1..(L + 1) /\ \A n \in 1..L : n \in 1..(L + 1)
    BY <1>1
  <2>3. Shown(v) = {v.shown[n] : n \in 1..(L + 1)} /\ Shown(w) = {w.shown[n] : n \in 1..L}
    BY <1>1 DEF Shown, L
  <2> QED BY <1>1, <2>1, <2>2, <2>3
<1>8. ASSUME NEW k \in Waiting(v)
      PROVE  k \in (Waiting(w) \ {x}) \cup tree.children[x]
  <2>1. PICK n \in 1..(K + P - 1) : k = v.pending[n]
    BY <1>1, <1>8 DEF Waiting
  <2>2. CASE n \in 1..K
    <3>1. kids[n] \in tree.children[x]
      BY <1>2, <2>2 DEF Lists, K
    <3> QED BY <1>1, <2>1, <2>2, <3>1
  <2>3. CASE n \in (K + 1)..(K + P - 1)
    <3>1. n - K + 1 \in 1..P /\ n - K + 1 # 1 /\ 1 \in 1..P
      BY <1>1, <2>3
    <3>2. k = w.pending[n - K + 1]
      BY <1>1, <2>1, <2>3
    <3>3. k \in Waiting(w)
      BY <3>1, <3>2 DEF Waiting, P
    <3>4. k # x
      BY <1>1, <1>3, <3>1, <3>2 DEF ShownOnce, P
    <3> QED BY <3>3, <3>4
  <2> QED BY <1>1, <2>2, <2>3
<1>9. ASSUME NEW k \in Waiting(w) \ {x}
      PROVE  k \in Waiting(v)
  <2>1. PICK n \in 1..P : k = w.pending[n]
    BY <1>9 DEF Waiting, P
  <2>2. n # 1
    BY <1>1, <1>9, <2>1
  <2>3. /\ n + K - 1 \in (K + 1)..(K + P - 1) /\ n + K - 1 \in 1..(K + P - 1)
        /\ (n + K - 1) - K + 1 = n
    BY <1>1, <2>2
  <2>4. v.pending[n + K - 1] = k
    BY <1>1, <2>1, <2>3
  <2> QED BY <1>1, <2>3, <2>4 DEF Waiting
<1>10. ASSUME NEW k \in tree.children[x]
       PROVE  k \in Waiting(v)
  <2>1. PICK n \in 1..K : k = kids[n]
    BY <1>2 DEF Lists, K
  <2>2. n \in 1..(K + P - 1)
    BY <1>1
  <2> QED BY <1>1, <2>1, <2>2 DEF Waiting
<1>11. Waiting(v) = (Waiting(w) \ {x}) \cup tree.children[x]
  BY <1>8, <1>9, <1>10
<1> QED BY <1>4, <1>5, <1>6, <1>7, <1>11

\* What a turn adds to the pending is neither shown nor pending.
LEMMA Turn_ShownOnce ==
    ASSUME NEW tree, IsTree(tree), NEW w, WalkInv(tree, w), NEW v, NEW x, NEW kids,
           TurnTo(tree, w, v, x, kids)
    PROVE  ShownOnce(tree, v)
<1> DEFINE L == Len(w.shown)
           P == Len(w.pending)
           K == Len(kids)
<1>1. /\ x = w.pending[1] /\ x \in Places(tree) /\ L \in Nat /\ P \in Nat /\ 1 <= P /\ K \in Nat
      /\ v.shown \in Seq(Places(tree)) /\ v.pending \in Seq(Places(tree))
      /\ Len(v.shown) = L + 1 /\ v.shown[L + 1] = x
      /\ \A n \in 1..L : v.shown[n] = w.shown[n]
      /\ Len(v.pending) = K + P - 1
      /\ \A n \in 1..K : v.pending[n] = kids[n]
      /\ \A n \in (K + 1)..(K + P - 1) : v.pending[n] = w.pending[n - K + 1]
      /\ Lists(kids, tree.children[x])
  BY DEF TurnTo
<1>2. /\ x \in Waiting(w) /\ x \notin Shown(w)
      /\ tree.children[x] \cap (Shown(w) \cup Waiting(w)) = {}
      /\ Shown(v) = Shown(w) \cup {x}
      /\ Waiting(v) = (Waiting(w) \ {x}) \cup tree.children[x]
  BY TurnMoves
<1>3. /\ \A m, n \in 1..L : w.shown[m] = w.shown[n] => m = n
      /\ \A m, n \in 1..P : w.pending[m] = w.pending[n] => m = n
      /\ Shown(w) \cap Waiting(w) = {}
      /\ \A n \in 1..L : w.shown[n] \in Shown(w)
      /\ \A n \in 1..P : w.pending[n] \in Waiting(w)
  BY DEF WalkInv, ShownOnce, Shown, Waiting
<1>4. \A m, n \in 1..K : kids[m] = kids[n] => m = n
  BY <1>1 DEF Lists
<1>5. \A n \in 1..K : kids[n] \in tree.children[x]
  BY <1>1 DEF Lists
<1> HIDE DEF L, P, K
<1>6. ASSUME NEW m \in 1..(L + 1), NEW n \in 1..(L + 1), v.shown[m] = v.shown[n]
      PROVE  m = n
  <2>1. m \in 1..L \/ m = L + 1
    BY <1>1
  <2>2. n \in 1..L \/ n = L + 1
    BY <1>1
  <2>3. \A i \in 1..L : v.shown[i] \in Shown(w) /\ v.shown[i] # x
    BY <1>1, <1>2, <1>3
  <2> QED BY <1>1, <1>3, <1>6, <2>1, <2>2, <2>3
<1>7. ASSUME NEW m \in 1..(K + P - 1), NEW n \in 1..(K + P - 1), v.pending[m] = v.pending[n]
      PROVE  m = n
  <2>1. m \in 1..K \/ m \in (K + 1)..(K + P - 1)
    BY <1>1
  <2>2. n \in 1..K \/ n \in (K + 1)..(K + P - 1)
    BY <1>1
  <2>3. \A i \in 1..K : v.pending[i] = kids[i] /\ v.pending[i] \notin Waiting(w)
    BY <1>1, <1>2, <1>5
  <2>4. \A i \in (K + 1)..(K + P - 1) :
           i - K + 1 \in 1..P /\ v.pending[i] = w.pending[i - K + 1] /\ v.pending[i] \in Waiting(w)
    BY <1>1, <1>3
  <2>5. CASE m \in 1..K /\ n \in 1..K
    BY <1>4, <1>7, <2>3, <2>5
  <2>6. CASE m \in (K + 1)..(K + P - 1) /\ n \in (K + 1)..(K + P - 1)
    <3>1. m - K + 1 = n - K + 1
      BY <1>3, <1>7, <2>4, <2>6
    <3> QED BY <1>1, <3>1
  <2> QED BY <1>7, <2>1, <2>2, <2>3, <2>4, <2>5, <2>6
<1>8. Shown(v) \cap Waiting(v) = {}
  BY <1>2, <1>3
<1> QED BY <1>1, <1>6, <1>7, <1>8 DEF ShownOnce

\* It is led to by the span that the turn shows.
LEMMA Turn_LedThere ==
    ASSUME NEW tree, IsTree(tree), NEW w, WalkInv(tree, w), NEW v, NEW x, NEW kids,
           TurnTo(tree, w, v, x, kids)
    PROVE  LedThere(tree, v)
<1>1. /\ x \in Waiting(w)
      /\ tree.children[x] = {j \in Places(tree) \ tree.roots : tree.parent[j] = x}
      /\ Shown(v) = Shown(w) \cup {x}
      /\ Waiting(v) = (Waiting(w) \ {x}) \cup tree.children[x]
  BY TurnMoves
<1>2. LedThere(tree, w)
  BY DEF WalkInv
<1> QED BY <1>1, <1>2 DEF LedThere

\* Nothing below a span that is still pending was shown.
LEMMA BelowPendingUnshown ==
    ASSUME NEW tree, IsTree(tree), NEW w, LedThere(tree, w),
           NEW x \in Places(tree), x \notin Shown(w)
    PROVE  Under(tree, x) \cap Shown(w) = {}
<1> DEFINE up == TreeParent(tree)
           S == Places(tree) \ Shown(w)
<1>1. /\ DOMAIN up = Places(tree) /\ 0 \notin Places(tree)
      /\ \A j \in Places(tree) : up[j] = IF j \in tree.roots THEN 0 ELSE tree.parent[j]
  BY TreeParts DEF TreeParent, Places
<1> HIDE DEF up
<1>2. ASSUME NEW j \in DOMAIN up, up[j] \in S
      PROVE  j \in S
  <2>1. j \notin tree.roots /\ tree.parent[j] \notin Shown(w)
    BY <1>1, <1>2
  <2> QED BY <1>1, <2>1 DEF LedThere
<1>3. x \in S
  OBVIOUS
<1> HIDE DEF S
<1>4. Below(up, x) \subseteq S
  BY <1>1, <1>2, <1>3, BelowIsLeast
<1> QED BY <1>4 DEF Under, up, S

\* It is before all else that is pending, so that a branch is finished first.
LEMMA Turn_OneBranch ==
    ASSUME NEW tree, IsTree(tree), NEW w, WalkInv(tree, w), NEW v, NEW x, NEW kids,
           TurnTo(tree, w, v, x, kids)
    PROVE  OneBranch(tree, v)
<1> DEFINE L == Len(w.shown)
           P == Len(w.pending)
           K == Len(kids)
<1>1. /\ x = w.pending[1] /\ x \in Places(tree) /\ L \in Nat /\ P \in Nat /\ 1 <= P /\ K \in Nat
      /\ w.shown \in Seq(Places(tree))
      /\ Len(v.shown) = L + 1 /\ v.shown[L + 1] = x
      /\ \A n \in 1..L : v.shown[n] = w.shown[n]
      /\ Len(v.pending) = K + P - 1
      /\ \A n \in 1..K : v.pending[n] = kids[n]
      /\ \A n \in (K + 1)..(K + P - 1) : v.pending[n] = w.pending[n - K + 1]
      /\ \A n \in 1..K : kids[n] \in tree.children[x]
  <2>1. kids \in Seq(tree.children[x])
    BY DEF TurnTo, Lists
  <2>2. \A n \in 1..K : kids[n] \in tree.children[x]
    BY <2>1
  <2> QED BY <2>2 DEF TurnTo, WalkInv, ShownOnce
<1>2. /\ x \in Waiting(w) /\ x \notin Shown(w)
      /\ tree.children[x] = {j \in Places(tree) \ tree.roots : tree.parent[j] = x}
      /\ tree.children[x] \cap (Shown(w) \cup Waiting(w)) = {}
  BY TurnMoves
<1>3. /\ LedThere(tree, w) /\ OneBranch(tree, w)
      /\ \A n \in 1..L : w.shown[n] \in Shown(w) /\ w.shown[n] \in Places(tree)
      /\ \A n \in 1..P : w.pending[n] \in Waiting(w)
      /\ Shown(w) \cap Waiting(w) = {}
  <2>1. LedThere(tree, w) /\ OneBranch(tree, w) /\ Shown(w) \cap Waiting(w) = {}
    BY DEF WalkInv, ShownOnce
  <2>2. \A n \in 1..L : w.shown[n] \in Places(tree)
    BY <1>1
  <2> QED BY <2>1, <2>2 DEF Shown, Waiting
<1>4. \A b \in 1..L : \A i \in 1..P : w.pending[i] \in Under(tree, w.shown[b]) =>
         /\ \A n \in 1..L : b < n => w.shown[n] \in Under(tree, w.shown[b])
         /\ \A h \in 1..P : h < i => w.pending[h] \in Under(tree, w.shown[b])
  BY <1>3 DEF OneBranch
<1> HIDE DEF L, P, K
<1>5. \A i \in (K + 1)..(K + P - 1) : i - K + 1 \in 1..P /\ 1 < i - K + 1
  BY <1>1
<1> SUFFICES ASSUME NEW b \in 1..(L + 1), NEW i \in 1..(K + P - 1),
                    v.pending[i] \in Under(tree, v.shown[b])
             PROVE  /\ \A n \in 1..(L + 1) : b < n => v.shown[n] \in Under(tree, v.shown[b])
                    /\ \A h \in 1..(K + P - 1) : h < i => v.pending[h] \in Under(tree, v.shown[b])
  BY <1>1 DEF OneBranch
<1>6. CASE b = L + 1
  <2>1. /\ \A j \in Under(tree, x) \ {x} : j \notin tree.roots /\ tree.parent[j] \in Under(tree, x)
        /\ x \in Under(tree, x)
        /\ \A j \in Places(tree) \ tree.roots : tree.parent[j] \in Under(tree, x) => j \in Under(tree, x)
    BY <1>1, UnderIs
  <2>2. Under(tree, x) \cap Shown(w) = {}
    BY <1>1, <1>2, <1>3, BelowPendingUnshown
  <2>3. i \in 1..K
    <3> SUFFICES ASSUME i \in (K + 1)..(K + P - 1) PROVE FALSE
      BY <1>1
    <3> DEFINE m == i - K + 1
    <3>1. m \in 1..P /\ m # 1 /\ v.pending[i] = w.pending[m]
      BY <1>1, <1>5
    <3> HIDE DEF m
    <3>2. w.pending[m] # x
      <4>1. 1 \in 1..P
        BY <1>1
      <4> QED BY <1>1, <3>1, <4>1 DEF WalkInv, ShownOnce, P
    <3>3. w.pending[m] \in Under(tree, x) \ {x}
      BY <1>1, <1>6, <3>1, <3>2
    <3>4. tree.parent[w.pending[m]] \in Shown(w)
      BY <1>3, <2>1, <3>1, <3>3 DEF LedThere
    <3> QED BY <2>1, <2>2, <3>3, <3>4
  <2>4. \A h \in 1..K : v.pending[h] \in Under(tree, x)
    BY <1>1, <1>2, <2>1
  <2> QED BY <1>1, <1>6, <2>3, <2>4
<1>7. CASE b \in 1..L
  <2> DEFINE y == w.shown[b]
  <2>1. y \in Places(tree) /\ y \in Shown(w) /\ v.shown[b] = y
    BY <1>1, <1>3, <1>7
  <2> HIDE DEF y
  <2>2. /\ \A j \in Under(tree, y) \ {y} : j \notin tree.roots /\ tree.parent[j] \in Under(tree, y)
        /\ \A j \in Places(tree) \ tree.roots : tree.parent[j] \in Under(tree, y) => j \in Under(tree, y)
    BY <2>1, UnderIs
  <2>3. \A m \in 1..P : w.pending[m] \in Under(tree, y) =>
           /\ \A n \in 1..L : b < n => w.shown[n] \in Under(tree, y)
           /\ \A h \in 1..P : h < m => w.pending[h] \in Under(tree, y)
    BY <1>4, <1>7 DEF y
  <2>4. 1 \in 1..P
    BY <1>1
  <2>5. x \in Under(tree, y)
    <3>1. CASE i \in 1..K
      <4>1. v.pending[i] \in tree.children[x] /\ v.pending[i] # y
        BY <1>1, <1>2, <2>1, <3>1
      <4> QED BY <1>2, <2>1, <2>2, <4>1
    <3>2. CASE i \in (K + 1)..(K + P - 1)
      BY <1>1, <1>5, <2>1, <2>3, <2>4, <3>2
    <3> QED BY <1>1, <3>1, <3>2
  <2>6. ASSUME NEW n \in 1..(L + 1), b < n
        PROVE  v.shown[n] \in Under(tree, y)
    <3>1. CASE n = L + 1
      BY <1>1, <2>5, <3>1
    <3>2. CASE n \in 1..L
      BY <1>1, <2>3, <2>4, <2>5, <2>6, <3>2
    <3> QED BY <1>1, <3>1, <3>2
  <2>7. ASSUME NEW h \in 1..(K + P - 1), h < i
        PROVE  v.pending[h] \in Under(tree, y)
    <3>1. CASE h \in 1..K
      BY <1>1, <1>2, <2>2, <2>5, <3>1
    <3>2. CASE h \in (K + 1)..(K + P - 1)
      <4>1. i \in (K + 1)..(K + P - 1)
        BY <1>1, <2>7, <3>2
      <4>2. h - K + 1 < i - K + 1
        BY <1>1, <2>7
      <4>3. w.pending[i - K + 1] \in Under(tree, y)
        BY <1>1, <2>1, <4>1
      <4> QED BY <1>1, <1>5, <2>3, <3>2, <4>1, <4>2, <4>3
    <3> QED BY <1>1, <3>1, <3>2
  <2> QED BY <2>1, <2>6, <2>7
<1> QED BY <1>1, <1>6, <1>7

\* The parent of the span shown is open: all that came since is below it.
LEMMA Turn_BelowParent ==
    ASSUME NEW tree, IsTree(tree), NEW w, WalkInv(tree, w), NEW v, NEW x, NEW kids,
           TurnTo(tree, w, v, x, kids)
    PROVE  BelowParent(tree, v)
<1> DEFINE L == Len(w.shown)
           P == Len(w.pending)
<1>1. /\ x = w.pending[1] /\ x \in Places(tree) /\ L \in Nat /\ P \in Nat /\ 1 <= P
      /\ w.shown \in Seq(Places(tree))
      /\ Len(v.shown) = L + 1 /\ v.shown[L + 1] = x
      /\ \A n \in 1..L : v.shown[n] = w.shown[n]
  BY DEF TurnTo, WalkInv, ShownOnce
<1>2. x \in Waiting(w) /\ x \notin Shown(w)
  BY TurnMoves
<1>3. /\ \A k \in Shown(w) \cup Waiting(w) : k \in tree.roots \/ tree.parent[k] \in Shown(w)
      /\ \A n \in 1..L : w.shown[n] \in Shown(w) /\ w.shown[n] \in Places(tree)
  BY <1>1 DEF WalkInv, LedThere, Shown
<1>4. \A b \in 1..L : \A i \in 1..P : w.pending[i] \in Under(tree, w.shown[b]) =>
         \A n \in 1..L : b < n => w.shown[n] \in Under(tree, w.shown[b])
  BY DEF WalkInv, OneBranch
<1>5. \A a, b \in 1..L :
         w.shown[a] \notin tree.roots /\ w.shown[b] = tree.parent[w.shown[a]] =>
           b < a /\ \A n \in (b + 1)..a : w.shown[n] \in Under(tree, w.shown[b])
  BY DEF WalkInv, BelowParent
<1> HIDE DEF L, P
<1> SUFFICES ASSUME NEW a \in 1..(L + 1), NEW b \in 1..(L + 1),
                    v.shown[a] \notin tree.roots, v.shown[b] = tree.parent[v.shown[a]]
             PROVE  b < a /\ \A n \in (b + 1)..a : v.shown[n] \in Under(tree, v.shown[b])
  BY <1>1 DEF BelowParent
<1>6. tree.parent[v.shown[a]] \in Shown(w)
  <2>1. a \in 1..L \/ a = L + 1
    BY <1>1
  <2>2. v.shown[a] \in Shown(w) \cup Waiting(w)
    BY <1>1, <1>2, <1>3, <2>1
  <2> QED BY <1>3, <2>2
<1>7. b \in 1..L
  <2>1. b # L + 1
    BY <1>1, <1>2, <1>6
  <2> QED BY <1>1, <2>1
<1>8. CASE a \in 1..L
  <2>1. b < a /\ \A n \in (b + 1)..a : w.shown[n] \in Under(tree, w.shown[b])
    BY <1>1, <1>5, <1>7, <1>8
  <2>2. \A n \in (b + 1)..a : n \in 1..L
    BY <1>1, <1>7, <1>8
  <2> QED BY <1>1, <1>7, <2>1, <2>2
<1>9. CASE a = L + 1
  <2> DEFINE y == w.shown[b]
  <2>1. y \in Places(tree) /\ v.shown[b] = y /\ tree.parent[x] = y /\ x \notin tree.roots
    BY <1>1, <1>3, <1>7, <1>9
  <2>2. x \in Under(tree, y)
    <3> HIDE DEF y
    <3>1. /\ y \in Under(tree, y)
          /\ \A j \in Places(tree) \ tree.roots : tree.parent[j] \in Under(tree, y) => j \in Under(tree, y)
      BY <2>1, UnderIs
    <3> QED BY <1>1, <2>1, <3>1
  <2>3. 1 \in 1..P
    BY <1>1
  <2>4. \A n \in 1..L : b < n => w.shown[n] \in Under(tree, y)
    BY <1>1, <1>4, <1>7, <2>2, <2>3
  <2>5. \A n \in (b + 1)..(L + 1) : n = L + 1 \/ (n \in 1..L /\ b < n)
    BY <1>1, <1>7
  <2> HIDE DEF y
  <2>6. \A n \in (b + 1)..(L + 1) : v.shown[n] \in Under(tree, y)
    BY <1>1, <2>2, <2>4, <2>5
  <2>7. b < L + 1
    BY <1>1, <1>7
  <2> QED BY <1>9, <2>1, <2>6, <2>7
<1> QED BY <1>1, <1>8, <1>9

\* Together: a turn keeps the invariant and shows one more span.
LEMMA Turn_Inv ==
    ASSUME NEW tree, IsTree(tree), NEW w, WalkInv(tree, w), w.pending # <<>>
    PROVE  WalkInv(tree, Turn(tree, w)) /\ Len(Turn(tree, w).shown) = Len(w.shown) + 1
<1> DEFINE v == Turn(tree, w)
<1>1. ShownOnce(tree, w)
  BY DEF WalkInv
<1>2. PICK x, kids : TurnTo(tree, w, v, x, kids)
  BY <1>1, TurnIs
<1> HIDE DEF v
<1>3. WalkInv(tree, v)
  BY <1>2, Turn_ShownOnce, Turn_LedThere, Turn_OneBranch, Turn_BelowParent DEF WalkInv
<1>4. Len(v.shown) = Len(w.shown) + 1
  BY <1>2 DEF TurnTo
<1> QED BY <1>3, <1>4 DEF v

\* Each turn shows a span, or there is none left.
LEMMA WalkAlong ==
    ASSUME NEW tree, IsTree(tree), NEW top \in Nat, NEW walk, WalksTo(tree, walk, top)
    PROVE  /\ WalkInv(tree, walk[top])
           /\ walk[top].pending = <<>> \/ Len(walk[top].shown) = top
<1> DEFINE Fine(n) == /\ WalkInv(tree, walk[n])
                      /\ walk[n].pending = <<>> \/ Len(walk[n].shown) = n
           Good == {n \in Nat : n <= top => Fine(n)}
<1>1. \A m \in 0..top : walk[m] = IF m = 0 THEN FirstWalk(tree) ELSE Turn(tree, walk[m - 1])
  BY DEF WalksTo
<1>2. 0 \in Good
  <2>1. walk[0] = FirstWalk(tree)
    BY <1>1
  <2>2. Len(FirstWalk(tree).shown) = 0
    BY DEF FirstWalk
  <2> QED BY <2>1, <2>2, FirstWalk_Inv
<1>3. ASSUME NEW n \in Nat, n \in Good
      PROVE  n + 1 \in Good
  <2> SUFFICES ASSUME n + 1 <= top PROVE Fine(n + 1)
    OBVIOUS
  <2>1. Fine(n)
    BY <1>3
  <2>2. walk[n + 1] = Turn(tree, walk[n])
    BY <1>1
  <2>3. CASE walk[n].pending = <<>>
    <3>1. walk[n + 1] = walk[n]
      BY <2>2, <2>3 DEF Turn
    <3> QED BY <2>1, <2>3, <3>1
  <2>4. CASE walk[n].pending # <<>>
    BY <2>1, <2>2, <2>4, Turn_Inv
  <2> QED BY <2>3, <2>4
<1> HIDE DEF Good
<1>4. top \in Good
  BY <1>2, <1>3, CountingUp
<1> QED BY <1>4 DEF Good

\* A sequence without repetitions is no longer than there are members.
LEMMA NoLonger ==
    ASSUME NEW n \in Nat, NEW s \in Seq(1..n), \A i, j \in 1..Len(s) : s[i] = s[j] => i = j
    PROVE  Len(s) \in Nat /\ Len(s) <= n /\ ({s[i] : i \in 1..Len(s)} = 1..n => Len(s) = n)
<1>1. Len(s) \in Nat /\ s \in [1..Len(s) -> 1..n]
  BY LenProperties
<1>2. s \in Injection(1..Len(s), 1..n)
  BY <1>1 DEF Injection, IsInjective
<1>3. \A m \in Nat : IsFiniteSet(1..m) /\ Cardinality(1..m) = m
  <2> TAKE m \in Nat
  <2>1. 1 \in Int /\ m \in Int /\ (IF 1 > m THEN 0 ELSE m - 1 + 1) = m
    OBVIOUS
  <2> QED BY <2>1, FS_Interval
<1>4. /\ Cardinality(1..Len(s)) <= Cardinality(1..n)
      /\ Cardinality(1..Len(s)) = Cardinality(1..n) <=> s \in Surjection(1..Len(s), 1..n)
  BY <1>2, <1>3, FS_Injection
<1>5. {s[i] : i \in 1..Len(s)} = 1..n => s \in Surjection(1..Len(s), 1..n)
  BY <1>1 DEF Surjection
<1> QED BY <1>1, <1>3, <1>4, <1>5

\* When nothing is pending every span was shown: whatever is below a root was, and a
\* span that is not is a root.
LEMMA NothingPending ==
    ASSUME NEW tree, IsTree(tree), NEW w, WalkInv(tree, w), w.pending = <<>>
    PROVE  Shown(w) = Places(tree)
<1> DEFINE S == Shown(w)
           Good == {n \in Nat : \A k \in Places(tree) : k <= n => k \in S}
<1>1. Waiting(w) = {} /\ S \in SUBSET Places(tree)
  BY DEF WalkInv, ShownOnce, Shown, Waiting
<1>2. /\ tree.roots \subseteq S
      /\ \A k \in Places(tree) \ tree.roots : tree.parent[k] \in S => k \in S
  BY <1>1 DEF WalkInv, LedThere
<1>3. /\ DOMAIN tree.parent = Places(tree) /\ tree.roots = Roots(tree.parent)
      /\ Parentless(tree.parent) \in SUBSET tree.roots
      /\ \A k \in Places(tree) : k \in Nat /\ 1 <= k
  <2>1. DOMAIN tree.parent = Places(tree) /\ Parentless(tree.parent) \in SUBSET tree.roots
    BY TreeParts
  <2>2. tree.roots = Roots(tree.parent)
    BY DEF IsTree
  <2>3. \A k \in Places(tree) : k \in Nat /\ 1 <= k
    BY DEF Places
  <2> QED BY <2>1, <2>2, <2>3
<1>4. ASSUME NEW j \in Places(tree), j \in S
      PROVE  Below(tree.parent, j) \subseteq S
  <2>1. \A k \in DOMAIN tree.parent : tree.parent[k] \in S => k \in S
    BY <1>2, <1>3
  <2> HIDE DEF S
  <2> QED BY <1>3, <1>4, <2>1, BelowIsLeast
<1> HIDE DEF S
<1>5. 0 \in Good
  BY <1>3
<1>6. ASSUME NEW n \in Nat, n \in Good
      PROVE  n + 1 \in Good
  <2> SUFFICES ASSUME NEW k \in Places(tree), k <= n + 1
               PROVE  k \in S
    OBVIOUS
  <2>1. \A j \in Places(tree) : j < k => j \in S
    BY <1>3, <1>6
  <2>2. CASE k \in tree.roots
    BY <1>2, <2>2
  <2>3. CASE k \notin tree.roots
    <3>1. PICK j \in Parentless(tree.parent) \cup {j \in DOMAIN tree.parent : j < k} :
             k \in Below(tree.parent, j)
      BY <1>3, <2>3 DEF Roots
    <3>2. j \in S /\ j \in Places(tree)
      BY <1>1, <1>2, <1>3, <2>1, <3>1
    <3> QED BY <1>4, <3>1, <3>2
  <2> QED BY <2>2, <2>3
<1>7. \A n \in Nat : n \in Good
  <2> HIDE DEF Good
  <2> QED BY <1>5, <1>6, CountingUp
<1>8. \A k \in Places(tree) : k \in S
  BY <1>3, <1>7
<1> QED BY <1>1, <1>8 DEF S

\* In tree order every span of a tree is once, after its parent, with only spans below
\* the parent in between.
LEMMA TreeInOrder ==
    ASSUME NEW tree, IsTree(tree)
    PROVE  LET order == TreeOrder(tree) IN
           /\ order \in Seq(Places(tree)) /\ Len(order) = Len(tree.spans)
           /\ {order[n] : n \in 1..Len(order)} = Places(tree)
           /\ \A a, b \in 1..Len(order) :
                 order[a] \notin tree.roots /\ order[b] = tree.parent[order[a]] =>
                   b < a /\ \A n \in (b + 1)..a : order[n] \in Under(tree, order[b])
<1> DEFINE top == Len(tree.spans) + 1
<1>1. Len(tree.spans) \in Nat
  BY TreeParts
<1>2. PICK walk : WalksTo(tree, walk, top) /\ TreeOrder(tree) = walk[top].shown
  BY <1>1, WalkExists
<1> DEFINE w == walk[top]
<1>3. WalkInv(tree, w) /\ (w.pending = <<>> \/ Len(w.shown) = top)
  <2> HIDE DEF w
  <2>1. top \in Nat
    BY <1>1
  <2> HIDE DEF top
  <2> QED BY <1>2, <2>1, WalkAlong DEF w
<1> HIDE DEF w
<1>4. /\ w.shown \in Seq(1..Len(tree.spans))
      /\ \A m, n \in 1..Len(w.shown) : w.shown[m] = w.shown[n] => m = n
  BY <1>3 DEF WalkInv, ShownOnce, Places
<1>5. /\ Len(w.shown) \in Nat /\ Len(w.shown) <= Len(tree.spans)
      /\ Shown(w) = 1..Len(tree.spans) => Len(w.shown) = Len(tree.spans)
  BY <1>1, <1>4, NoLonger DEF Shown
<1>6. w.pending = <<>>
  BY <1>1, <1>3, <1>5
<1>7. Shown(w) = Places(tree)
  BY <1>3, <1>6, NothingPending
<1>8. BelowParent(tree, w)
  BY <1>3 DEF WalkInv
<1> QED BY <1>2, <1>4, <1>5, <1>7, <1>8 DEF w, Shown, BelowParent, Places

\* Whatever the documents, the waterfall has all their spans, in tree order.
LEMMA TraceInv_Waterfall == ASSUME TraceInv PROVE WaterfallComplete
<1> DEFINE given == Spans
           tree == TreeOf(given)
           order == TreeOrder(tree)
<1>1. /\ given \in Seq(Span)
      /\ ~Truncated => {documents[k].id : k \in DOMAIN documents} = {given[k].id : k \in DOMAIN given}
  BY SpansOfTrace
<1> HIDE DEF given
<1>2. IsTree(tree) /\ tree.spans = given
  BY <1>1, TreeOfSpans
<1> HIDE DEF tree
<1>3. /\ order \in Seq(Places(tree)) /\ Len(order) = Len(given)
      /\ {order[n] : n \in 1..Len(order)} = Places(tree)
      /\ \A a, b \in 1..Len(order) :
            order[a] \notin tree.roots /\ order[b] = tree.parent[order[a]] =>
              b < a /\ \A n \in (b + 1)..a : order[n] \in Under(tree, order[b])
  BY <1>2, TreeInOrder
<1> HIDE DEF order
<1>4. DOMAIN order = 1..Len(order) /\ DOMAIN given = Places(tree)
  BY <1>1, <1>2, <1>3 DEF Places
<1>5. EverySpanShown
  BY <1>1, <1>3, <1>4 DEF EverySpanShown, ToSet, order, tree, given
<1>6. ASSUME NEW a \in DOMAIN order, NEW b \in DOMAIN order,
             NEW r \in Parentless(tree.parent), order[a] \in Below(tree.parent, r),
             order[b] = tree.parent[order[a]]
      PROVE  b < a /\ \A n \in (b + 1)..a : order[n] \in Below(tree.parent, order[b])
  <2>1. order[a] \in Places(tree) /\ order[b] \in Places(tree)
    BY <1>3, <1>4
  <2>2. /\ DOMAIN tree.parent = Places(tree) /\ 0 \notin Places(tree)
        /\ tree.roots = Roots(tree.parent)
    BY <1>2, TreeParts DEF Places, IsTree
  <2>3. order[a] \notin tree.roots
    BY <1>6, <2>1, <2>2 DEF Roots, Parentless
  <2>4. Under(tree, order[b]) \subseteq Below(tree.parent, order[b])
    BY <1>2, <2>1, UnderIs
  <2> QED BY <1>3, <1>4, <1>6, <2>3, <2>4
<1>7. ShownBelowParent
  <2>1. \A a, b \in DOMAIN order :
           order[a] \in UNION {Below(tree.parent, r) : r \in Parentless(tree.parent)}
             /\ order[b] = tree.parent[order[a]] =>
               b < a /\ \A n \in (b + 1)..a : order[n] \in Below(tree.parent, order[b])
    BY <1>6
  <2> QED BY <2>1 DEF ShownBelowParent, order, tree, given
<1> QED BY <1>5, <1>7 DEF WaterfallComplete

-----------------------------------------------------------------------------
(* The sweep *)

Interval == {i \in [start : Nat, end : Nat] : i.start < i.end}

\* The whole numbers from the start of an interval to before its end.
Micros(i) == i.start..(i.end - 1)

\* Intervals as the loop takes them.
Ascending(intervals) ==
    /\ intervals \in Seq(Interval) /\ Len(intervals) \in Nat \ {0}
    /\ \A m, n \in 1..Len(intervals) : m < n => intervals[m].start <= intervals[n].start

\* The equation of the sweep, up to its interval n.
SweepsTo(intervals, swept, n) ==
    \A m \in 1..n :
       swept[m] = IF m = 1 THEN [covered |-> 0, start |-> intervals[1].start, end |-> intervals[1].end]
                  ELSE Merge(swept[m - 1], intervals[m])

\* The sweep is what its equation says: the equation has a solution.
LEMMA SweepExists ==
    ASSUME NEW intervals, DOMAIN intervals = 1..Len(intervals), Len(intervals) \in Nat
    PROVE  \E swept : /\ SweepsTo(intervals, swept, Len(intervals))
                      /\ Sweep(intervals) = swept[Len(intervals)]
<1> DEFINE top == Len(intervals)
           first == [covered |-> 0, start |-> intervals[1].start, end |-> intervals[1].end]
           Step(swept) == [n \in DOMAIN intervals |->
                             IF n = 1 THEN first ELSE Merge(swept[n - 1], intervals[n])]
           Upto(n) == \E swept : swept = [m \in 1..top |-> swept[m]] /\ SweepsTo(intervals, swept, n)
           Good == {n \in Nat : n <= top => Upto(n)}
<1>1. top \in Nat /\ DOMAIN intervals = 1..top
  OBVIOUS
<1> HIDE DEF top, first
<1>2. 0 \in Good
  <2> DEFINE swept == [m \in 1..top |-> first]
  <2>1. swept = [m \in 1..top |-> swept[m]]
    OBVIOUS
  <2> HIDE DEF swept
  <2>2. SweepsTo(intervals, swept, 0)
    BY DEF SweepsTo
  <2> QED BY <2>1, <2>2
<1>3. ASSUME NEW n \in Nat, n \in Good
      PROVE  n + 1 \in Good
  <2> SUFFICES ASSUME n + 1 <= top PROVE Upto(n + 1)
    OBVIOUS
  <2>1. PICK old : old = [m \in 1..top |-> old[m]] /\ SweepsTo(intervals, old, n)
    BY <1>1, <1>3
  <2> DEFINE next == IF n = 0 THEN first ELSE Merge(old[n], intervals[n + 1])
             swept == [m \in 1..top |-> IF m = n + 1 THEN next ELSE old[m]]
  <2> HIDE DEF next
  <2>2. /\ swept = [m \in 1..top |-> swept[m]]
        /\ swept[n + 1] = next
        /\ \A m \in 1..n : swept[m] = old[m]
    BY <1>1
  <2> HIDE DEF swept
  <2>3. ASSUME NEW m \in 1..(n + 1)
        PROVE  swept[m] = IF m = 1 THEN first ELSE Merge(swept[m - 1], intervals[m])
    <3>1. CASE m = n + 1 /\ n = 0
      BY <2>2, <3>1 DEF next
    <3>2. CASE m = n + 1 /\ n # 0
      <4>1. m # 1 /\ m - 1 = n /\ n \in 1..n
        BY <3>2
      <4>2. swept[m] = Merge(old[n], intervals[n + 1])
        BY <2>2, <3>2 DEF next
      <4> QED BY <2>2, <3>2, <4>1, <4>2
    <3>3. CASE m \in 1..n
      <4>1. m = 1 \/ m - 1 \in 1..n
        OBVIOUS
      <4> QED BY <2>1, <2>2, <3>3, <4>1 DEF SweepsTo, first
    <3> QED BY <3>1, <3>2, <3>3
  <2>4. SweepsTo(intervals, swept, n + 1)
    BY <2>3 DEF SweepsTo, first
  <2> QED BY <2>2, <2>4
<1>4. Upto(top)
  <2> HIDE DEF Good
  <2>1. top \in Good
    BY <1>1, <1>2, <1>3, CountingUp
  <2> QED BY <1>1, <2>1 DEF Good
<1>5. \E swept : swept = Step(swept)
  <2>1. PICK swept : swept = [m \in 1..top |-> swept[m]] /\ SweepsTo(intervals, swept, top)
    BY <1>4
  <2>2. swept = Step(swept)
    BY <1>1, <2>1 DEF SweepsTo, first
  <2> QED BY <2>2
<1>6. Sweep(intervals) = (CHOOSE swept : swept = Step(swept))[top]
  BY DEF Sweep, top, first
<1>7. PICK swept : swept = Step(swept) /\ Sweep(intervals) = swept[top]
  <2> HIDE DEF Step
  <2> QED BY <1>5, <1>6
<1>8. SweepsTo(intervals, swept, top)
  BY <1>1, <1>7 DEF SweepsTo, first
<1> QED BY <1>7, <1>8 DEF top

\* What the first n intervals cover together.
Covered(intervals, n) == UNION {Micros(intervals[m]) : m \in 1..n}

\* What the loop has added up and what it still has open is what the intervals so
\* far cover, and nothing of it is after the open one.
SweepInv(intervals, acc, n) ==
    /\ acc \in [covered : Nat, start : Nat, end : Nat]
    /\ acc.start < acc.end /\ acc.start <= intervals[n].start
    /\ Covered(intervals, n) \in SUBSET Nat
    /\ \A x \in Covered(intervals, n) : x < acc.end
    /\ Micros(acc) \subseteq Covered(intervals, n)
    /\ IsFiniteSet(Covered(intervals, n))
    /\ Cardinality(Covered(intervals, n)) = acc.covered + (acc.end - acc.start)

\* The size of an interval of whole numbers.
LEMMA WithinSize ==
    ASSUME NEW a \in Nat, NEW b \in Nat, a <= b
    PROVE  IsFiniteSet(a..(b - 1)) /\ Cardinality(a..(b - 1)) = b - a
<1>1. b - 1 \in Int /\ a \in Int /\ (IF a > b - 1 THEN 0 ELSE b - 1 - a + 1) = b - a
  OBVIOUS
<1> QED BY <1>1, FS_Interval

\* A set and an interval that has nothing of it.
LEMMA WithMore ==
    ASSUME NEW S, IsFiniteSet(S), NEW a \in Nat, NEW b \in Nat, a <= b,
           S \cap (a..(b - 1)) = {}
    PROVE  /\ IsFiniteSet(S \cup (a..(b - 1)))
           /\ Cardinality(S \cup (a..(b - 1))) = Cardinality(S) + (b - a)
<1> DEFINE T == a..(b - 1)
<1>1. IsFiniteSet(T) /\ Cardinality(T) = b - a
  BY WithinSize
<1>2. Cardinality(S \cap T) = 0 /\ Cardinality(S) \in Nat
  BY FS_EmptySet, FS_CardinalityType
<1> HIDE DEF T
<1>3. /\ IsFiniteSet(S \cup T)
      /\ Cardinality(S \cup T) = Cardinality(S) + Cardinality(T) - Cardinality(S \cap T)
  BY <1>1, FS_Union
<1> QED BY <1>1, <1>2, <1>3 DEF T

\* One turn of the loop.
LEMMA Merge_Inv ==
    ASSUME NEW intervals, Ascending(intervals), NEW n \in Nat, n \in 1..Len(intervals),
           n + 1 \in 1..Len(intervals), NEW acc, SweepInv(intervals, acc, n)
    PROVE  SweepInv(intervals, Merge(acc, intervals[n + 1]), n + 1)
<1> DEFINE i == intervals[n + 1]
           v == Merge(acc, i)
           U == Covered(intervals, n)
           V == Covered(intervals, n + 1)
<1> SUFFICES SweepInv(intervals, v, n + 1)
  OBVIOUS
<1>1. /\ i.start \in Nat /\ i.end \in Nat /\ i.start < i.end
      /\ intervals[n].start \in Nat /\ intervals[n].start <= i.start
  <2>1. i \in Interval /\ intervals[n] \in Interval
    BY DEF Ascending
  <2>2. intervals[n].start <= i.start
    BY DEF Ascending
  <2> HIDE DEF i
  <2> QED BY <2>1, <2>2 DEF Interval
<1>2. V = U \cup Micros(i)
  <2>1. 1..(n + 1) = (1..n) \cup {n + 1}
    OBVIOUS
  <2> QED BY <2>1 DEF Covered
<1>3. /\ acc = [covered |-> acc.covered, start |-> acc.start, end |-> acc.end]
      /\ acc.covered \in Nat /\ acc.start \in Nat /\ acc.end \in Nat
      /\ acc.start < acc.end /\ acc.start <= intervals[n].start
  BY DEF SweepInv
<1>4. /\ U \in SUBSET Nat /\ \A x \in U : x < acc.end
      /\ acc.start..(acc.end - 1) \subseteq U
      /\ IsFiniteSet(U) /\ Cardinality(U) = acc.covered + (acc.end - acc.start)
  BY DEF SweepInv, Micros
<1>5. v = IF i.start > acc.end
            THEN [covered |-> acc.covered + acc.end - acc.start, start |-> i.start, end |-> i.end]
            ELSE [acc EXCEPT !.end = IF i.end > @ THEN i.end ELSE @]
  BY DEF Merge
<1>6. Micros(i) = i.start..(i.end - 1) /\ Micros(v) = v.start..(v.end - 1)
  BY DEF Micros
<1>7. ASSUME v \in [covered : Nat, start : Nat, end : Nat], v.start < v.end, v.start <= i.start,
             \A x \in V : x \in Nat /\ x < v.end, Micros(v) \subseteq V,
             IsFiniteSet(V), Cardinality(V) = v.covered + (v.end - v.start)
      PROVE  SweepInv(intervals, v, n + 1)
  <2>1. V \in SUBSET Nat /\ \A x \in V : x < v.end
    BY <1>7
  <2> HIDE DEF v
  <2> QED BY <1>7, <2>1 DEF SweepInv
<1> HIDE DEF i, v, U, V
<1>8. acc.start <= i.start
  BY <1>1, <1>3
<1>9. CASE i.start > acc.end
  <2>1. /\ v = [covered |-> acc.covered + acc.end - acc.start, start |-> i.start, end |-> i.end]
        /\ v.covered = acc.covered + acc.end - acc.start /\ v.start = i.start /\ v.end = i.end
    BY <1>5, <1>9
  <2>2. v \in [covered : Nat, start : Nat, end : Nat]
    BY <1>1, <1>3, <2>1
  <2>3. U \cap (i.start..(i.end - 1)) = {} /\ i.start <= i.end
    BY <1>1, <1>3, <1>4, <1>9
  <2>4. IsFiniteSet(V) /\ Cardinality(V) = Cardinality(U) + (i.end - i.start)
    <3>1. IsFiniteSet(U) /\ V = U \cup (i.start..(i.end - 1))
      BY <1>2, <1>4, <1>6
    <3> QED BY <1>1, <2>3, <3>1, WithMore
  <2>5. \A x \in V : x \in Nat /\ x < v.end
    BY <1>1, <1>2, <1>3, <1>4, <1>6, <1>9, <2>1
  <2>6. Micros(v) \subseteq V
    BY <1>2, <1>6, <2>1
  <2>7. Cardinality(V) = v.covered + (v.end - v.start)
    BY <1>1, <1>3, <1>4, <2>1, <2>4
  <2>8. v.start < v.end /\ v.start <= i.start
    BY <1>1, <2>1
  <2> QED BY <1>7, <2>2, <2>4, <2>5, <2>6, <2>7, <2>8
<1>10. CASE i.start <= acc.end /\ i.end > acc.end
  <2>1. v = [acc EXCEPT !.end = i.end]
    BY <1>1, <1>3, <1>5, <1>10
  <2>2. v = [covered |-> acc.covered, start |-> acc.start, end |-> i.end]
    BY <1>3, <2>1
  <2>3. /\ v.covered = acc.covered /\ v.start = acc.start /\ v.end = i.end
        /\ v \in [covered : Nat, start : Nat, end : Nat]
    BY <1>1, <1>3, <2>2
  <2>4. U \cap (acc.end..(i.end - 1)) = {} /\ acc.end <= i.end
    BY <1>1, <1>3, <1>4, <1>10
  <2>5. V = U \cup (acc.end..(i.end - 1))
    <3>1. ASSUME NEW x \in i.start..(i.end - 1)
          PROVE  x \in acc.start..(acc.end - 1) \/ x \in acc.end..(i.end - 1)
      <4>1. x \in Int /\ acc.start <= x /\ x <= i.end - 1
        BY <1>1, <1>3, <1>8
      <4> QED BY <1>1, <1>3, <4>1
    <3>2. \A x \in acc.end..(i.end - 1) : x \in i.start..(i.end - 1)
      BY <1>1, <1>3, <1>10
    <3> QED BY <1>2, <1>4, <1>6, <3>1, <3>2
  <2>6. IsFiniteSet(V) /\ Cardinality(V) = Cardinality(U) + (i.end - acc.end)
    BY <1>1, <1>3, <1>4, <2>4, <2>5, WithMore
  <2>7. \A x \in V : x \in Nat /\ x < v.end
    BY <1>1, <1>3, <1>4, <1>10, <2>3, <2>5
  <2>8. Micros(v) \subseteq V
    <3>1. ASSUME NEW x \in acc.start..(i.end - 1)
          PROVE  x \in acc.start..(acc.end - 1) \/ x \in acc.end..(i.end - 1)
      BY <1>1, <1>3
    <3> QED BY <1>4, <1>6, <2>3, <2>5, <3>1
  <2>9. Cardinality(V) = v.covered + (v.end - v.start)
    BY <1>1, <1>3, <1>4, <2>3, <2>6
  <2>10. v.start < v.end /\ v.start <= i.start
    BY <1>1, <1>3, <1>8, <1>10, <2>3
  <2> QED BY <1>7, <2>3, <2>6, <2>7, <2>8, <2>9, <2>10
<1>11. CASE i.start <= acc.end /\ i.end <= acc.end
  <2>1. v = acc
    <3>1. ~(i.start > acc.end) /\ ~(i.end > acc.end)
      BY <1>1, <1>3, <1>11
    <3>2. v = [acc EXCEPT !.end = acc.end]
      BY <1>5, <3>1
    <3> QED BY <1>3, <3>2
  <2>2. ASSUME NEW x \in i.start..(i.end - 1)
        PROVE  x \in acc.start..(acc.end - 1)
    <3>1. x \in Int /\ acc.start <= x /\ x <= i.end - 1
      BY <1>1, <1>3, <1>8
    <3> QED BY <1>1, <1>3, <1>11, <3>1
  <2>3. V = U
    BY <1>2, <1>4, <1>6, <2>2
  <2>4. v \in [covered : Nat, start : Nat, end : Nat]
    BY <1>3, <2>1
  <2>5. Micros(v) \subseteq V
    BY <1>4, <1>6, <2>1, <2>3
  <2> QED BY <1>3, <1>4, <1>7, <1>8, <2>1, <2>3, <2>4, <2>5
<1>12. \/ i.start > acc.end
       \/ i.start <= acc.end /\ i.end > acc.end
       \/ i.start <= acc.end /\ i.end <= acc.end
  BY <1>1, <1>3
<1> QED BY <1>9, <1>10, <1>11, <1>12

\* The sweep adds up what the intervals cover.
LEMMA SweepAddsUp ==
    ASSUME NEW intervals, Ascending(intervals)
    PROVE  SweepInv(intervals, Sweep(intervals), Len(intervals))
<1> DEFINE top == Len(intervals)
<1>1. top \in Nat /\ 1 <= top /\ DOMAIN intervals = 1..top
  BY DEF Ascending
<1>2. PICK swept : SweepsTo(intervals, swept, top) /\ Sweep(intervals) = swept[top]
  BY <1>1, SweepExists
<1> HIDE DEF top
<1> DEFINE Good == {n \in Nat : n + 1 <= top => SweepInv(intervals, swept[n + 1], n + 1)}
<1>3. 0 \in Good
  <2> DEFINE i == intervals[1]
             acc == [covered |-> 0, start |-> i.start, end |-> i.end]
  <2>1. swept[1] = acc
    BY <1>1, <1>2 DEF SweepsTo
  <2>2. i \in Interval
    BY <1>1 DEF Ascending, top
  <2>3. Covered(intervals, 1) = Micros(i)
    BY DEF Covered
  <2> HIDE DEF i
  <2>4. i.start \in Nat /\ i.end \in Nat /\ i.start < i.end
    BY <2>2 DEF Interval
  <2>5. /\ Micros(i) = i.start..(i.end - 1)
        /\ IsFiniteSet(Micros(i)) /\ Cardinality(Micros(i)) = i.end - i.start
    BY <2>4, WithinSize DEF Micros
  <2>6. acc.covered = 0 /\ acc.start = i.start /\ acc.end = i.end /\ acc \in [covered : Nat, start : Nat, end : Nat]
    BY <2>4
  <2> HIDE DEF acc
  <2>7. Micros(acc) = Micros(i)
    BY <2>6 DEF Micros
  <2>8. \A x \in Micros(i) : x \in Nat /\ x < i.end
    BY <2>4, <2>5
  <2>9. i.end - i.start = 0 + (i.end - i.start)
    BY <2>4
  <2>10. SweepInv(intervals, acc, 1)
    BY <2>3, <2>4, <2>5, <2>6, <2>7, <2>8, <2>9 DEF SweepInv, i
  <2>11. 0 + 1 = 1
    OBVIOUS
  <2> QED BY <2>1, <2>10, <2>11
<1>4. ASSUME NEW n \in Nat, n \in Good
      PROVE  n + 1 \in Good
  <2> SUFFICES ASSUME n + 1 + 1 <= top
               PROVE  SweepInv(intervals, swept[n + 1 + 1], n + 1 + 1)
    OBVIOUS
  <2>1. n + 1 \in 1..top /\ n + 1 + 1 \in 1..top /\ n + 1 \in Nat
    BY <1>1
  <2>2. SweepInv(intervals, swept[n + 1], n + 1)
    BY <1>1, <1>4
  <2>3. n + 1 + 1 # 1 /\ n + 1 + 1 - 1 = n + 1
    OBVIOUS
  <2>4. swept[n + 1 + 1] = Merge(swept[n + 1], intervals[n + 1 + 1])
    BY <1>2, <2>1, <2>3 DEF SweepsTo
  <2> QED BY <2>1, <2>2, <2>4, Merge_Inv DEF top
<1>5. SweepInv(intervals, swept[top], top)
  <2> HIDE DEF Good
  <2>1. top - 1 \in Good /\ top - 1 \in Nat
    BY <1>1, <1>3, <1>4, CountingUp
  <2>2. top - 1 + 1 = top
    BY <1>1
  <2> QED BY <1>1, <2>1, <2>2 DEF Good
<1> QED BY <1>2, <1>5 DEF top

\* A child clamped to a span is what it has in common with the span.
LEMMA ClampIs ==
    ASSUME NEW tree, IsTree(tree), NEW k \in Places(tree), NEW c \in Places(tree)
    PROVE  LET i == Clamp(tree.spans, k, c) IN
           /\ i.start \in Nat /\ i.end \in Nat /\ i \in [start : Nat, end : Nat]
           /\ Micros(i) = Microseconds(tree.spans[k]) \cap Microseconds(tree.spans[c])
<1> DEFINE s == tree.spans[k].start
           d == tree.spans[k].duration
           t == tree.spans[c].start
           e == tree.spans[c].duration
           i == Clamp(tree.spans, k, c)
<1>1. s \in Nat /\ d \in Nat /\ t \in Nat /\ e \in Nat
  <2>1. tree.spans[k] \in Span /\ tree.spans[c] \in Span
    BY TreeParts
  <2> QED BY <2>1 DEF Span
<1>2. i = [start |-> IF t > s THEN t ELSE s, end |-> IF t + e < s + d THEN t + e ELSE s + d]
  BY DEF Clamp
<1>3. /\ Microseconds(tree.spans[k]) = s..(s + d - 1)
      /\ Microseconds(tree.spans[c]) = t..(t + e - 1)
      /\ Micros(i) = i.start..(i.end - 1)
  BY DEF Microseconds, Micros
<1> HIDE DEF s, d, t, e, i
<1>4. /\ i.start = (IF t > s THEN t ELSE s)
      /\ i.end = (IF t + e < s + d THEN t + e ELSE s + d)
  BY <1>2
<1>5. i.start \in Nat /\ i.end \in Nat /\ i \in [start : Nat, end : Nat]
  <2>1. i.start \in Nat /\ i.end \in Nat
    BY <1>1, <1>4
  <2>2. i = [start |-> i.start, end |-> i.end]
    BY <1>2, <1>4
  <2> QED BY <2>1, <2>2
<1>6. \A x \in Int : x \in i.start..(i.end - 1) <=> x \in s..(s + d - 1) /\ x \in t..(t + e - 1)
  <2> TAKE x \in Int
  <2>1. (i.start <= x <=> s <= x /\ t <= x) /\ (x < i.end <=> x < s + d /\ x < t + e)
    BY <1>1, <1>4
  <2>2. i.end \in Int /\ s + d \in Int /\ t + e \in Int
    BY <1>1, <1>5
  <2>3. \A y \in Int : x < y <=> x <= y - 1
    OBVIOUS
  <2> QED BY <1>1, <1>5, <2>1, <2>2, <2>3
<1>7. Micros(i) = Microseconds(tree.spans[k]) \cap Microseconds(tree.spans[c])
  <2>1. \A x : x \in i.start..(i.end - 1) => x \in Int
    BY <1>5
  <2>2. \A x : x \in s..(s + d - 1) => x \in Int
    BY <1>1
  <2> QED BY <1>3, <1>6, <2>1, <2>2
<1> QED BY <1>5, <1>7 DEF i

\* The self time of a span is the microseconds of it that no child covers.
LEMMA SelfMicrosIs ==
    ASSUME NEW tree, IsTree(tree), NEW k \in Places(tree)
    PROVE  SelfMicros(tree, k) =
             Cardinality(Microseconds(tree.spans[k])
                             \ UNION {Microseconds(tree.spans[c]) : c \in tree.children[k]})
<1>1. tree.children[k] \in SUBSET Places(tree) /\ IsFiniteSet(tree.children[k])
  <2>1. \A x \in Places(tree) : tree.children[x] = {j \in Places(tree) \ tree.roots : tree.parent[j] = x}
    BY TreeParts
  <2>2. tree.children[k] \in SUBSET Places(tree)
    BY <2>1
  <2> QED BY <2>2, TreeParts, FS_Subset
<1>2. /\ tree.spans[k].duration \in Nat /\ IsFiniteSet(Microseconds(tree.spans[k]))
      /\ Cardinality(Microseconds(tree.spans[k])) = tree.spans[k].duration
  <2> DEFINE s == tree.spans[k].start
             d == tree.spans[k].duration
             e == s + d
  <2>1. s \in Nat /\ d \in Nat
    <3>1. tree.spans[k] \in Span
      BY TreeParts
    <3> QED BY <3>1 DEF Span
  <2>2. Microseconds(tree.spans[k]) = s..(s + d - 1)
    BY DEF Microseconds
  <2> HIDE DEF s, d
  <2>3. e \in Nat /\ s <= e /\ e - s = d
    BY <2>1
  <2> HIDE DEF e
  <2>4. IsFiniteSet(s..(e - 1)) /\ Cardinality(s..(e - 1)) = d
    BY <2>1, <2>3, WithinSize
  <2> QED BY <2>1, <2>2, <2>4 DEF d, e
<1>3. ASSUME NEW c \in tree.children[k]
      PROVE  /\ c \in Nat /\ Clamp(tree.spans, k, c).start \in Nat /\ Clamp(tree.spans, k, c).end \in Nat
             /\ Clamp(tree.spans, k, c) \in [start : Nat, end : Nat]
             /\ Micros(Clamp(tree.spans, k, c)) = Microseconds(tree.spans[k]) \cap Microseconds(tree.spans[c])
  <2>1. c \in Places(tree)
    BY <1>1
  <2> QED BY <2>1, ClampIs, TreeParts
<1> DEFINE kids == tree.children[k]
           duration == tree.spans[k].duration
           clamped == [c \in kids |-> Clamp(tree.spans, k, c)]
           overlapping == {c \in DOMAIN clamped : clamped[c].end > clamped[c].start}
           sorted == Sorted(overlapping, ByStart(clamped))
           intervals == [n \in DOMAIN sorted |-> clamped[sorted[n]]]
           swept == Sweep(intervals)
           covered == swept.covered + swept.end - swept.start
           mine == Microseconds(tree.spans[k])
           theirs == UNION {Microseconds(tree.spans[c]) : c \in kids}
<1>4. SelfMicros(tree, k) =
        IF overlapping = {} THEN duration ELSE IF covered > duration THEN 0 ELSE duration - covered
  BY DEF SelfMicros
<1>5. /\ duration \in Nat /\ IsFiniteSet(mine) /\ Cardinality(mine) = duration
       /\ IsFiniteSet(kids)
  BY <1>1, <1>2
<1>6. DOMAIN clamped = kids /\ overlapping \in SUBSET kids
  OBVIOUS
<1>7. ASSUME NEW c \in kids
      PROVE  /\ c \in Nat /\ clamped[c].start \in Nat /\ clamped[c].end \in Nat
             /\ clamped[c] \in [start : Nat, end : Nat]
             /\ Micros(clamped[c]) = mine \cap Microseconds(tree.spans[c])
  <2>1. clamped[c] = Clamp(tree.spans, k, c)
    OBVIOUS
  <2> HIDE DEF clamped
  <2> QED BY <1>3, <2>1
<1>8. \A c \in kids : c \in overlapping <=> clamped[c].start < clamped[c].end
  <2>1. \A c \in kids : c \in overlapping <=> clamped[c].end > clamped[c].start
    OBVIOUS
  <2> HIDE DEF clamped, overlapping, kids
  <2> QED BY <1>7, <2>1
<1>9. theirs = UNION {Microseconds(tree.spans[c]) : c \in kids}
  OBVIOUS
<1> SUFFICES SelfMicros(tree, k) = Cardinality(mine \ theirs)
  OBVIOUS
<1> HIDE DEF kids, clamped, overlapping, mine, theirs, duration
<1>10. mine \cap theirs = UNION {Micros(clamped[c]) : c \in overlapping}
  <2>1. mine \cap theirs = UNION {Micros(clamped[c]) : c \in kids}
    BY <1>7, <1>9
  <2>2. \A c \in kids \ overlapping : Micros(clamped[c]) = {}
    BY <1>7, <1>8 DEF Micros
  <2> QED BY <1>6, <2>1, <2>2
<1>11. CASE overlapping = {}
  <2>1. mine \ theirs = mine
    BY <1>10, <1>11
  <2> QED BY <1>4, <1>5, <1>11, <2>1
<1>12. CASE overlapping # {}
  <2>1. IsFiniteSet(overlapping)
    BY <1>6, <1>5, FS_Subset
  <2>2. OrdersAll(ByStart(clamped), overlapping)
    BY <1>7, <1>6, ByStartOrders
  <2> DEFINE size == Cardinality(overlapping)
  <2>3. /\ size \in Nat /\ sorted \in Seq(overlapping) /\ Len(sorted) = size
        /\ \A m, n \in 1..size : m < n => <<sorted[m], sorted[n]>> \in ByStart(clamped)
        /\ \A c \in overlapping : \E n \in 1..size : c = sorted[n]
    BY <2>1, <2>2, SortedIs
  <2>4. size # 0
    BY <1>12, <2>1, FS_EmptySet
  <2> HIDE DEF size, sorted
  <2>5. DOMAIN sorted = 1..size /\ \A n \in 1..size : sorted[n] \in overlapping
    BY <2>3
  <2>6. \A n \in 1..size : intervals[n] = clamped[sorted[n]]
    BY <2>5
  <2>7. \A n \in 1..size : intervals[n] \in Interval
    <3>1. \A c \in overlapping : clamped[c] \in Interval
      BY <1>7, <1>6, <1>8 DEF Interval
    <3> HIDE DEF intervals
    <3> QED BY <2>5, <2>6, <3>1
  <2>8. intervals \in Seq(Interval) /\ Len(intervals) = size
    <3>1. intervals \in [1..size -> Interval]
      BY <2>5, <2>7
    <3> HIDE DEF intervals
    <3> QED BY <2>3, <3>1, IsASeq, LenProperties
  <2> HIDE DEF intervals
  <2>9. ASSUME NEW m \in 1..size, NEW n \in 1..size, m < n
        PROVE  intervals[m].start <= intervals[n].start
    <3>1. <<sorted[m], sorted[n]>> \in ByStart(clamped)
      BY <2>3, <2>9
    <3>2. clamped[sorted[m]].start < clamped[sorted[n]].start \/ clamped[sorted[m]].start = clamped[sorted[n]].start
      BY <3>1 DEF ByStart
    <3>3. clamped[sorted[m]].start \in Nat /\ clamped[sorted[n]].start \in Nat
      BY <1>7, <1>6, <2>5
    <3> QED BY <2>6, <3>2, <3>3
  <2>10. Ascending(intervals)
    BY <2>3, <2>4, <2>8, <2>9 DEF Ascending
  <2>11. SweepInv(intervals, swept, size)
    BY <2>8, <2>10, SweepAddsUp
  <2>12. Covered(intervals, size) = mine \cap theirs
    <3>1. Covered(intervals, size) = UNION {Micros(intervals[n]) : n \in 1..size}
      BY DEF Covered
    <3>2. UNION {Micros(intervals[n]) : n \in 1..size} = UNION {Micros(clamped[c]) : c \in overlapping}
      BY <2>3, <2>5, <2>6
    <3> QED BY <1>10, <3>1, <3>2
  <2> HIDE DEF swept
  <2>13. /\ swept.covered \in Nat /\ swept.start \in Nat /\ swept.end \in Nat
         /\ Cardinality(mine \cap theirs) = swept.covered + (swept.end - swept.start)
    BY <2>11, <2>12 DEF SweepInv
  <2>14. Cardinality(mine \cap theirs) = covered
    BY <2>13
  <2>15. Cardinality(mine \cap theirs) \in Nat /\ Cardinality(mine \cap theirs) <= duration
    <3>1. mine \cap theirs \in SUBSET mine
      OBVIOUS
    <3> QED BY <1>5, <3>1, FS_Subset, FS_CardinalityType
  <2>16. Cardinality(mine \ theirs) = duration - Cardinality(mine \cap theirs)
    BY <1>5, FS_Difference
  <2> QED BY <1>4, <1>5, <1>12, <2>14, <2>15, <2>16
<1> QED BY <1>11, <1>12

\* Whatever the documents, self times are what no child covers.
LEMMA TraceInv_SelfTimes == ASSUME TraceInv PROVE SelfTimeIsUncovered
<1> DEFINE tree == TreeOf(Spans)
<1>1. IsTree(tree)
  BY SpansOfTrace, TreeOfSpans
<1>2. DOMAIN tree.spans = Places(tree)
  BY <1>1, TreeParts
<1> HIDE DEF tree
<1>3. \A k \in DOMAIN tree.spans :
         SelfMicros(tree, k) =
           Cardinality(Microseconds(tree.spans[k])
                           \ UNION {Microseconds(tree.spans[c]) : c \in tree.children[k]})
  BY <1>1, <1>2, SelfMicrosIs
<1> QED BY <1>3 DEF SelfTimeIsUncovered, tree

-----------------------------------------------------------------------------
(* What is made of any trace *)

\* Documents come by their start in every state.
LEMMA TraceInvHolds == TraceSpec => []TraceInv
<1> QED BY TraceInit_Inv, TraceNext_Inv, PTL DEF TraceSpec

\* A trace is whole documents by their start, and of its spans none starts before the
\* first or lasts less than no time.
THEOREM TraceTypeCorrect == TraceSpec => []TraceTypeOK
  BY TraceInvHolds, TraceInv_Types, PTL

\* At any length of the answer, the waterfall of what it has shows every span once,
\* whatever parents are missing, are their own or form a cycle, and every span that
\* a root leads to below its parent (trace-model.ts and span-stats.ts).
THEOREM WaterfallIsComplete == TraceSpec => []WaterfallComplete
  BY TraceInvHolds, TraceInv_Waterfall, PTL

\* The self time of a span is the time of it that none of its children covers,
\* however they overlap it and each other (selfMicros of span-stats.ts).
THEOREM SelfTimesUncovered == TraceSpec => []SelfTimeIsUncovered
  BY TraceInvHolds, TraceInv_SelfTimes, PTL

-----------------------------------------------------------------------------
(* The parts together *)

\* Each part behaves as it does alone, so what is proved of a part is proved here.
LEMMA PartsAreThemselves ==
    WebSpec => PrefsSpec /\ CtxSpec /\ PagingSpec /\ ViewsSpec /\ TraceSpec /\ PanelSpec
<1>1. WebInit => PrefsInit /\ CtxInit /\ PagingInit /\ ViewsInit /\ TraceInit /\ PanelInit
  BY DEF WebInit
<1>2. [WebNext]_webVars => [PrefsNext]_prefsVars /\ [CtxNext]_ctxVars /\ [PagingNext]_pagingVars
  BY DEF WebNext, webVars
<1>3. [WebNext]_webVars => [ViewsNext]_viewsVars /\ [TraceNext]_traceVars /\ [PanelNext]_panelVars
  BY DEF WebNext, webVars
<1> QED BY <1>1, <1>2, <1>3, PTL
        DEF WebSpec, PrefsSpec, CtxSpec, PagingSpec, ViewsSpec, TraceSpec, PanelSpec

\* In the context pane, in both lists and under the open fields a spinner has a
\* request that will end it.
THEOREM SpinnersHaveRequests == WebSpec => []NoSpinnerForever
<1>1. WebSpec => []CtxBusyIffLoading
  BY PartsAreThemselves, ContextBusyIsLoading, PTL
<1>2. WebSpec => []PagingBusy
  BY PartsAreThemselves, PagingBusyHolds, PTL
<1>3. WebSpec => []SpinnersEnd
  BY PartsAreThemselves, PanelSpinnersEnd, PTL
<1> QED BY <1>1, <1>2, <1>3, PTL DEF NoSpinnerForever

\* Every part of the web app is well typed.
THEOREM WebTypeCorrect == WebSpec => []WebTypeOK
<1>1. WebSpec => [](PrefsTypeOK /\ CtxTypeOK /\ PagingTypeOK)
  BY PartsAreThemselves, PrefsTypeCorrect, ContextTypeCorrect, PagingTypeCorrect, PTL
<1>2. WebSpec => [](ViewsTypeOK /\ TraceTypeOK /\ PanelTypeOK)
  BY PartsAreThemselves, ViewsTypeCorrect, TraceTypeCorrect, PanelTypeCorrect, PTL
<1>3. PrefsTypeOK /\ CtxTypeOK /\ PagingTypeOK /\ ViewsTypeOK /\ TraceTypeOK /\ PanelTypeOK
        => WebTypeOK
  BY DEF WebTypeOK
<1> QED BY <1>1, <1>2, <1>3, PTL

=============================================================================
