----------------------------- MODULE ApiProofs -----------------------------
(***************************************************************************)
(* Proofs about the parts of the API that share no state, each by an       *)
(* invariant of its own, and about the parts together (MCApi).             *)
(*                                                                         *)
(*   PersonalKeys      KeysInv, for any members, service accounts, keys    *)
(*                     and requests;                                       *)
(*   Boot              BootInv, for any processes, boots and outages;      *)
(*   ProviderSessions  ProviderInv, for any identities, people, sign-ins   *)
(*                     and changes;                                        *)
(*   IngestProxy       ProxyInv, for batches of any size and any number of *)
(*                     attempts;                                           *)
(*   IndexRows         RowsOfIndexInv, the rows the API keeps for an index *)
(*                     through any number of its lives;                    *)
(*   IndexConfig       ConfigInv, the config and the source that Quickwit  *)
(*                     keeps, for any overlapping requests on them;        *)
(*   ServiceHealth     HealthInv, for any spans, sources and limits.       *)
(***************************************************************************)
EXTENDS MCApi, Counting, SequenceTheorems, TLAPS

-----------------------------------------------------------------------------
(* PersonalKeys *)

Key == [owner : Owners, logs : BOOLEAN]

RowsTyped == keyRow \in [KeyIds -> Key \cup {NoKeyRow}]

ReadersTyped ==
    reader \in [Readers -> [pc : {"idle", "verified", "in"}, owner : Owners \cup {NoOwner}]]

AdminsTyped ==
    admin \in [KeyAdmins -> [pc : {"idle", "creating", "deleting"}, owner : Owners \cup {NoOwner},
                             key : KeyIds \cup {NoKeyId}]]

\* The key an admin is about to delete was given out, and is a service account's
\* for as long as its row is there: ids are not reused.
DoomedKeys ==
    \A a \in KeyAdmins : admin[a].pc = "deleting" =>
        /\ admin[a].key \in used
        /\ admin[a].key \in Rows => keyRow[admin[a].key].owner \in ServiceAccounts

KeysInv ==
    /\ present \subseteq Owners
    /\ RowsTyped
    /\ ReadersTyped
    /\ AdminsTyped
    /\ Rows \subseteq used
    /\ NoKeyWithoutOwner
    /\ DoomedKeys
    /\ RemovedOwnerKeptOut
    /\ OnlyServiceKeysRevoked

-----------------------------------------------------------------------------
(* Lemmas on the table of keys *)

\* A row is a row of an owner.
LEMMA RowOwner ==
    ASSUME RowsTyped
    PROVE  \A k \in Rows : k \in KeyIds /\ keyRow[k] \in Key
BY DEF RowsTyped, Rows, NoKeyRow

\* Deleting rows leaves the others as they are.
LEMMA RowsWithout ==
    ASSUME RowsTyped, NEW ks, keyRow' = Without(ks)
    PROVE  /\ RowsTyped'
           /\ Rows' = Rows \ ks
           /\ \A k \in Rows' : keyRow'[k] = keyRow[k]
BY DEF RowsTyped, Rows, Without, NoKeyRow

\* A new key is one more row, of its owner; the key ids given out grow by it.
LEMMA RowsInsert ==
    ASSUME RowsTyped, Rows \subseteq used, NEW k \in KeyIds, NEW u \in Owners, InsertKey(k, u, TRUE)
    PROVE  /\ RowsTyped'
           /\ k \notin used
           /\ used' = used \cup {k}
           /\ Rows' = Rows \cup {k}
           /\ keyRow'[k].owner = u
           /\ \A j \in Rows : keyRow'[j] = keyRow[j]
<1>1. keyRow'[k] = [owner |-> u, logs |-> TRUE] /\ \A j \in KeyIds \ {k} : keyRow'[j] = keyRow[j]
  BY DEF InsertKey, RowsTyped
<1>2. RowsTyped'
  BY DEF InsertKey, RowsTyped, Key
<1>3. u # NoOwner
  BY PersonalKeysAssumption
<1> QED BY <1>1, <1>2, <1>3 DEF InsertKey, Rows, NoKeyRow

-----------------------------------------------------------------------------
(* The invariant *)

LEMMA KeysInit_Inv == KeysInit => KeysInv
BY DEF KeysInit, KeysInv, RowsTyped, ReadersTyped, AdminsTyped, Rows, NoKeyRow, IdleReader, IdleAdmin,
       NoKeyWithoutOwner, DoomedKeys, RemovedOwnerKeptOut, OnlyServiceKeysRevoked

\* Steps that delete some rows, and no account.
LEMMA DeletedRows ==
    ASSUME KeysInv, NEW ks, keyRow' = Without(ks),
           UNCHANGED <<present, reader, used, misled>>,
           AdminsTyped', OnlyServiceKeysRevoked',
           \A a \in KeyAdmins : admin'[a].pc = "deleting" => admin'[a] = admin[a]
    PROVE  KeysInv'
<1>1. RowsTyped' /\ Rows' = Rows \ ks /\ \A k \in Rows' : keyRow'[k] = keyRow[k]
  BY RowsWithout DEF KeysInv
<1>2. NoKeyWithoutOwner'
  BY <1>1 DEF KeysInv, NoKeyWithoutOwner
<1>3. DoomedKeys'
  BY <1>1 DEF KeysInv, DoomedKeys
<1> QED BY <1>1, <1>2, <1>3 DEF KeysInv, ReadersTyped, RemovedOwnerKeptOut

\* Steps that insert a row of an account that is there.
LEMMA InsertedRow ==
    ASSUME KeysInv, NEW k \in KeyIds, NEW u \in present, InsertKey(k, u, TRUE),
           UNCHANGED <<present, reader, revoked, misled>>,
           AdminsTyped',
           \A a \in KeyAdmins : admin'[a].pc = "deleting" => admin'[a] = admin[a]
    PROVE  KeysInv'
<1>1. u \in Owners
  BY DEF KeysInv
<1>2. /\ RowsTyped'
      /\ k \notin used
      /\ used' = used \cup {k}
      /\ Rows' = Rows \cup {k}
      /\ keyRow'[k].owner = u
      /\ \A j \in Rows : keyRow'[j] = keyRow[j]
  BY <1>1, RowsInsert DEF KeysInv
<1>3. NoKeyWithoutOwner'
  BY <1>2 DEF KeysInv, NoKeyWithoutOwner
<1>4. DoomedKeys'
  BY <1>2 DEF KeysInv, DoomedKeys
<1> QED BY <1>2, <1>3, <1>4 DEF KeysInv, ReadersTyped, RemovedOwnerKeptOut, OnlyServiceKeysRevoked

\* Steps that change neither rows nor accounts.
LEMMA SameRows ==
    ASSUME KeysInv, UNCHANGED <<present, keyRow, used, revoked>>,
           ReadersTyped', AdminsTyped', DoomedKeys', RemovedOwnerKeptOut'
    PROVE  KeysInv'
BY DEF KeysInv, RowsTyped, Rows, NoKeyWithoutOwner, OnlyServiceKeysRevoked

LEMMA KeysNext_Inv == KeysInv /\ [KeysNext]_keyVars => KeysInv'
<1> SUFFICES ASSUME KeysInv, [KeysNext]_keyVars PROVE KeysInv'
  OBVIOUS
<1> USE DEF KeysInv
<1>1. ASSUME NEW k \in KeyIds, DeleteOwnKey(k) PROVE KeysInv'
  BY <1>1, DeletedRows DEF DeleteOwnKey, AdminsTyped, OnlyServiceKeysRevoked
<1>2. ASSUME NEW k \in KeyIds, NEW u \in Members, MakeOwnKey(u, k) PROVE KeysInv'
  BY <1>2, InsertedRow DEF MakeOwnKey, AdminsTyped
<1>3. ASSUME NEW a \in KeyAdmins, NEW u \in ServiceAccounts, FindServiceAccount(a, u) PROVE KeysInv'
  <2>1. AdminsTyped' /\ DoomedKeys'
    BY <1>3 DEF FindServiceAccount, AdminsTyped, DoomedKeys, Rows, IdleAdmin, Owners
  <2> QED BY <1>3, <2>1, SameRows DEF FindServiceAccount, ReadersTyped, RemovedOwnerKeptOut
<1>4. ASSUME NEW a \in KeyAdmins, NEW k \in KeyIds, CreateServiceAccountKey(a, k) PROVE KeysInv'
  <2>1. AdminsTyped' /\ \A b \in KeyAdmins : admin'[b].pc = "deleting" => admin'[b] = admin[b]
    BY <1>4 DEF CreateServiceAccountKey, AdminsTyped, IdleAdmin
  <2> QED BY <1>4, <2>1, InsertedRow DEF CreateServiceAccountKey, HasUserRow
<1>5. ASSUME NEW a \in KeyAdmins, NEW k \in KeyIds, FindKeyToDelete(a, k) PROVE KeysInv'
  <2>1. AdminsTyped' /\ DoomedKeys'
    BY <1>5 DEF FindKeyToDelete, IsServiceAccountKey, AdminsTyped, DoomedKeys, Rows, IdleAdmin
  <2> QED BY <1>5, <2>1, SameRows DEF FindKeyToDelete, ReadersTyped, RemovedOwnerKeptOut
<1>6. ASSUME NEW a \in KeyAdmins, DeleteServiceAccountKey(a) PROVE KeysInv'
  <2>1. AdminsTyped' /\ \A b \in KeyAdmins : admin'[b].pc = "deleting" => admin'[b] = admin[b]
    BY <1>6 DEF DeleteServiceAccountKey, AdminsTyped, IdleAdmin
  <2>2. OnlyServiceKeysRevoked'
    BY <1>6 DEF DeleteServiceAccountKey, DoomedKeys, OnlyServiceKeysRevoked
  <2> QED BY <1>6, <2>1, <2>2, DeletedRows DEF DeleteServiceAccountKey
<1>7. ASSUME NEW a \in KeyAdmins, AdminFails(a) PROVE KeysInv'
  <2>1. AdminsTyped' /\ DoomedKeys'
    BY <1>7 DEF AdminFails, AdminsTyped, DoomedKeys, Rows, IdleAdmin
  <2> QED BY <1>7, <2>1, SameRows DEF AdminFails, ReadersTyped, RemovedOwnerKeptOut
<1>8. ASSUME NEW u \in Owners, RemoveOwner(u) PROVE KeysInv'
  <2>1. /\ RowsTyped' /\ Rows' = Rows \ KeysOf(u)
        /\ \A k \in Rows' : keyRow'[k] = keyRow[k]
    BY <1>8, RowsWithout DEF RemoveOwner
  <2>2. NoKeyWithoutOwner'
    BY <1>8, <2>1 DEF RemoveOwner, KeysOf, NoKeyWithoutOwner
  <2>3. DoomedKeys'
    BY <1>8, <2>1 DEF RemoveOwner, DoomedKeys
  <2> QED BY <1>8, <2>1, <2>2, <2>3 DEF RemoveOwner, ReadersTyped, AdminsTyped, RemovedOwnerKeptOut,
                                          OnlyServiceKeysRevoked
<1>9. ASSUME NEW r \in Readers, LetIn(r) PROVE KeysInv'
  <2>1. ReadersTyped'
    BY <1>9 DEF LetIn, ReadersTyped
  <2>2. RemovedOwnerKeptOut'
    BY <1>9 DEF LetIn, OwnerFound, RemovedOwnerKeptOut
  <2> QED BY <1>9, <2>1, <2>2, SameRows DEF LetIn, AdminsTyped, DoomedKeys, Rows
<1>10. ASSUME NEW r \in Readers, ReaderEnds(r) PROVE KeysInv'
  <2>1. ReadersTyped'
    BY <1>10 DEF ReaderEnds, ReadersTyped, IdleReader
  <2> QED BY <1>10, <2>1, SameRows DEF ReaderEnds, AdminsTyped, DoomedKeys, Rows, RemovedOwnerKeptOut
<1>11. ASSUME NEW r \in Readers, NEW k \in KeyIds, VerifyKey(r, k) PROVE KeysInv'
  <2>1. keyRow[k].owner \in Owners
    BY <1>11, RowOwner DEF VerifyKey, Key
  <2>2. ReadersTyped'
    BY <1>11, <2>1 DEF VerifyKey, ReadersTyped
  <2> QED BY <1>11, <2>2, SameRows DEF VerifyKey, AdminsTyped, DoomedKeys, Rows, RemovedOwnerKeptOut
<1>12. CASE UNCHANGED keyVars
  BY <1>12 DEF keyVars, RowsTyped, ReadersTyped, AdminsTyped, Rows, NoKeyWithoutOwner, DoomedKeys,
               RemovedOwnerKeptOut, OnlyServiceKeysRevoked
<1> QED BY <1>1, <1>2, <1>3, <1>4, <1>5, <1>6, <1>7, <1>8, <1>9, <1>10, <1>11, <1>12 DEF KeysNext

\* KeysInv is an invariant of the specification.
THEOREM KeysInvariant == KeysSpec => []KeysInv
<1> QED BY KeysInit_Inv, KeysNext_Inv, PTL DEF KeysSpec

-----------------------------------------------------------------------------
(* What follows from it *)

\* Every reachable state is well typed.
THEOREM KeysTypeCorrect == KeysSpec => []KeysTypeOK
<1>1. KeysInv => KeysTypeOK
  BY DEF KeysInv, KeysTypeOK, RowsTyped, ReadersTyped, AdminsTyped, Key, Rows, NoKeyRow
<1> QED BY <1>1, KeysInvariant, PTL

\* No account that is removed leaves a key behind, whatever was being created.
THEOREM KeysHaveOwners == KeysSpec => []NoKeyWithoutOwner
<1>1. KeysInv => NoKeyWithoutOwner
  BY DEF KeysInv
<1> QED BY <1>1, KeysInvariant, PTL

\* No request is let in for an account that is gone when its owner is read.
THEOREM OwnersLetIn == KeysSpec => []RemovedOwnerKeptOut
<1>1. KeysInv => RemovedOwnerKeptOut
  BY DEF KeysInv
<1> QED BY <1>1, KeysInvariant, PTL

\* The routes of service accounts delete keys of service accounts only.
THEOREM AdminsDeleteServiceKeys == KeysSpec => []OnlyServiceKeysRevoked
<1>1. KeysInv => OnlyServiceKeysRevoked
  BY DEF KeysInv
<1> QED BY <1>1, KeysInvariant, PTL

\* Keys go with their owners, let in nobody else, and are deleted by whoever may.
THEOREM KeysAreRightful == KeysSpec => []KeysRightful
<1> QED BY KeysHaveOwners, OwnersLetIn, AdminsDeleteServiceKeys, PTL DEF KeysRightful

-----------------------------------------------------------------------------
(* Boot *)

Running == {"probing", "initializing", "listening"}
Places == Running \cup {"stopped", "connecting", "connected", "migrating", "migrated", "reading"}

SettingsRow == [key : BOOLEAN, value : Generated \cup {NoSecret}]
RowTyped == row \in SettingsRow /\ (row.key <=> row.value # NoSecret)

Process == [pc : Places, attempts : Nat, behind : BOOLEAN,
            secret : Generated \cup {NoSecret, EnvSecret}]

\* Where one process can be, given the row: one that reads the row was told
\* by a conflict that there is one; one past the secret has the row's, or the
\* variable's.
PlacedAt(p, s) ==
    /\ s \in Process
    /\ s.attempts < IF s.pc = "connecting" THEN CONNECT_RETRY_COUNT ELSE PROBE_RETRY
    /\ s.pc # "stopped" => boots[p] > 0
    /\ s.pc = "reading" => row.key /\ p \notin env
    /\ s.pc \in Running => IF p \in env THEN s.secret = EnvSecret
                                        ELSE row.key /\ s.secret = row.value

BootInv ==
    /\ env \in {{}, Processes}
    /\ boots \in [Processes -> 0..MaxBoots]
    /\ RowTyped
    /\ DOMAIN process = Processes
    /\ \A p \in Processes : PlacedAt(p, process[p])

-----------------------------------------------------------------------------

LEMMA StoppedPlaced == ASSUME NEW p PROVE PlacedAt(p, Stopped)
BY BootAssumption DEF PlacedAt, Stopped, Process, Places, Running

LEMMA BootInit_Inv == BootInit => BootInv
<1> SUFFICES ASSUME BootInit PROVE BootInv
  OBVIOUS
<1>1. RowTyped
  BY DEF BootInit, RowTyped, SettingsRow
<1>2. boots \in [Processes -> 0..MaxBoots]
  BY BootAssumption DEF BootInit
<1> QED BY <1>1, <1>2, StoppedPlaced DEF BootInit, BootInv

\* A step of one process that leaves the row and the boots alone keeps the
\* invariant when it puts the process where it may be.
LEMMA OneMoves ==
    ASSUME BootInv, NEW p \in Processes, NEW s,
           process' = [process EXCEPT ![p] = s],
           UNCHANGED <<env, row, boots>>,
           PlacedAt(p, s)
    PROVE  BootInv'
BY DEF BootInv, PlacedAt, RowTyped

\* Where a process is that goes on to its next step.
LEMMA GoesTo ==
    ASSUME BootInv, NEW p \in Processes, NEW pc \in Places, GoTo(p, pc),
           UNCHANGED <<env, row, boots>>,
           ~At(p, "stopped"),
           pc = "reading" => row.key /\ p \notin env,
           pc \in Running => process[p].pc \in Running
    PROVE  BootInv'
<1> DEFINE s == [process[p] EXCEPT !.pc = pc, !.attempts = 0]
<1>1. process' = [process EXCEPT ![p] = s]
  BY DEF GoTo, BootInv
<1>2. PlacedAt(p, process[p])
  BY DEF BootInv
<1>3. /\ s \in Process
      /\ s.pc = pc /\ s.attempts = 0 /\ s.secret = process[p].secret
  BY <1>2 DEF PlacedAt, Process
<1> HIDE DEF s
<1>4. PlacedAt(p, s)
  BY <1>2, <1>3, BootAssumption DEF PlacedAt, At
<1> QED BY <1>1, <1>4, OneMoves

\* ... and of one that tries again or gives up.
LEMMA Retries ==
    ASSUME BootInv, NEW p \in Processes, NEW n \in Nat, Retry(p, n),
           UNCHANGED <<env, row, boots>>,
           n = IF At(p, "connecting") THEN CONNECT_RETRY_COUNT ELSE PROBE_RETRY
    PROVE  BootInv'
<1>1. PlacedAt(p, process[p])
  BY DEF BootInv
<1>2. CASE process[p].attempts + 1 < n
  <2> DEFINE s == [process[p] EXCEPT !.attempts = @ + 1]
  <2>1. process' = [process EXCEPT ![p] = s]
    BY <1>2 DEF Retry, BootInv
  <2>2. /\ s \in Process
        /\ s.pc = process[p].pc /\ s.attempts = process[p].attempts + 1
        /\ s.secret = process[p].secret
    BY <1>1 DEF PlacedAt, Process
  <2> HIDE DEF s
  <2>3. PlacedAt(p, s)
    BY <1>1, <1>2, <2>2 DEF PlacedAt, At
  <2> QED BY <2>1, <2>3, OneMoves
<1>3. CASE ~(process[p].attempts + 1 < n)
  <2>1. process' = [process EXCEPT ![p] = Stopped]
    BY <1>3 DEF Retry, BootInv
  <2> QED BY <2>1, OneMoves, StoppedPlaced
<1> QED BY <1>2, <1>3

\* A step that changes neither the row, the boots nor a process.
LEMMA NoneMoves ==
    ASSUME BootInv, UNCHANGED <<env, row, boots, process>>
    PROVE  BootInv'
BY DEF BootInv, PlacedAt, RowTyped

LEMMA StartMoves ==
    ASSUME BootInv, NEW p \in Processes, Start(p)
    PROVE  BootInv'
<1> PICK s : s = [process[p] EXCEPT !.pc = "connecting", !.attempts = 0]
  OBVIOUS
<1>1. process' = [process EXCEPT ![p] = s]
  BY DEF Start, GoTo, BootInv
<1>2. PlacedAt(p, process[p])
  BY DEF BootInv
<1>3. s \in Process /\ s.pc = "connecting" /\ s.attempts = 0
  BY <1>2 DEF PlacedAt, Process, Places
<1>4. boots[p] \in 0..MaxBoots /\ boots[p] < MaxBoots /\ MaxBoots \in Nat
  BY BootAssumption DEF Start, BootInv
<1>5. boots[p] + 1 \in 0..MaxBoots /\ boots[p] + 1 > 0
  BY <1>4
<1>6. /\ boots' \in [Processes -> 0..MaxBoots]
      /\ boots'[p] > 0
      /\ \A q \in Processes \ {p} : boots'[q] = boots[q]
  BY <1>5 DEF Start, BootInv
<1>7. process'[p] = s /\ UNCHANGED <<env, row>>
  BY <1>1 DEF BootInv, Start
<1>8. PlacedAt(p, process[p])'
  BY <1>3, <1>6, <1>7, BootAssumption DEF PlacedAt, Running
<1>9. \A q \in Processes \ {p} : PlacedAt(q, process[q])'
  BY <1>1, <1>6, <1>7 DEF PlacedAt, BootInv
<1> QED BY <1>1, <1>6, <1>7, <1>8, <1>9 DEF BootInv, RowTyped

LEMMA InsertMoves ==
    ASSUME BootInv, NEW p \in Processes, InsertSecret(p)
    PROVE  BootInv'
<1>1. CASE row.key
  BY <1>1, GoesTo DEF InsertSecret, KeepsRow, At, Places, Running
<1>2. CASE ~row.key
  <2> DEFINE t == <<p, boots[p]>>
             s == [process[p] EXCEPT !.pc = "probing", !.secret = t]
  <2>1. /\ process' = [process EXCEPT ![p] = s]
        /\ row' = [key |-> TRUE, value |-> t]
        /\ UNCHANGED <<env, boots>>
        /\ p \notin env
        /\ process[p].pc = "migrated"
    BY <1>2 DEF InsertSecret, KeepsRow, At, BootInv
  <2>2. PlacedAt(p, process[p])
    BY DEF BootInv
  <2>3. t \in Generated
    BY <2>1, <2>2 DEF BootInv, PlacedAt, Generated
  <2>4. /\ s \in Process
        /\ s.pc = "probing" /\ s.secret = t /\ s.attempts = process[p].attempts
    BY <2>2, <2>3 DEF PlacedAt, Process, Places, Running
  <2>5. t # NoSecret
    BY <2>3, BootAssumption DEF Generated
  <2> HIDE DEF s, t
  <2>6. RowTyped'
    BY <2>1, <2>3, <2>5 DEF RowTyped, SettingsRow
  <2>7. \A q \in Processes : q \notin env =>
            /\ process[q].pc # "reading"
            /\ process[q].pc \notin Running
    BY <1>2 DEF BootInv, PlacedAt
  <2>8. \A q \in Processes \ {p} : PlacedAt(q, process[q])'
    BY <2>1, <2>7 DEF PlacedAt, BootInv
  <2>9. process'[p] = s
    BY <2>1 DEF BootInv
  <2>10. PlacedAt(p, process[p])'
    BY <2>1, <2>2, <2>4, <2>9 DEF PlacedAt, Running
  <2> QED BY <2>1, <2>6, <2>8, <2>10 DEF BootInv
<1> QED BY <1>1, <1>2

\* Taking the secret from the variable, or from the row.
LEMMA SecretMoves ==
    ASSUME BootInv, NEW p \in Processes, UseEnvSecret(p) \/ ReadSecret(p)
    PROVE  BootInv'
<1>1. PlacedAt(p, process[p])
  BY DEF BootInv
<1>2. CASE UseEnvSecret(p)
  <2> DEFINE s == [process[p] EXCEPT !.pc = "probing", !.attempts = 0, !.secret = EnvSecret]
  <2>1. /\ process' = [process EXCEPT ![p] = s]
        /\ p \in env /\ process[p].pc = "migrated"
        /\ UNCHANGED <<env, row, boots>>
    BY <1>2 DEF UseEnvSecret, At, BootInv
  <2>2. /\ s \in Process
        /\ s.pc = "probing" /\ s.secret = EnvSecret /\ s.attempts = 0
    BY <1>1, <2>1 DEF PlacedAt, Process, Places, Running
  <2> HIDE DEF s
  <2>3. PlacedAt(p, s)
    BY <1>1, <2>1, <2>2, BootAssumption DEF PlacedAt
  <2> QED BY <2>1, <2>3, OneMoves
<1>3. CASE ReadSecret(p)
  <2>1. /\ process[p].pc = "reading" /\ p \notin env /\ row.key
        /\ UNCHANGED <<env, row, boots>>
    BY <1>1, <1>3 DEF ReadSecret, At, PlacedAt
  <2> DEFINE s == [process[p] EXCEPT !.pc = "probing", !.secret = row.value]
  <2>2. process' = [process EXCEPT ![p].pc = "probing", ![p].secret = row.value]
    BY <1>3 DEF ReadSecret, StoredSecret
  <2>3. row.value \in Generated \cup {NoSecret}
    BY DEF BootInv, RowTyped, SettingsRow
  <2>4. process' = [process EXCEPT ![p] = s]
    BY <2>2 DEF BootInv
  <2>5. /\ s \in Process
        /\ s.pc = "probing" /\ s.secret = row.value /\ s.attempts = process[p].attempts
    BY <1>1, <2>3 DEF PlacedAt, Process, Places, Running
  <2> HIDE DEF s
  <2>6. PlacedAt(p, s)
    BY <1>1, <2>1, <2>5 DEF PlacedAt
  <2> QED BY <2>1, <2>4, <2>6, OneMoves
<1> QED BY <1>2, <1>3

LEMMA ReadMigrationsMoves ==
    ASSUME BootInv, NEW p \in Processes, ReadMigrations(p)
    PROVE  BootInv'
<1> DEFINE b == ~migrated
           s == [process[p] EXCEPT !.pc = "migrating", !.behind = b]
<1>1. PlacedAt(p, process[p])
  BY DEF BootInv
<1>2. /\ process' = [process EXCEPT ![p] = s]
      /\ process[p].pc = "connected"
      /\ UNCHANGED <<env, row, boots>>
  BY DEF ReadMigrations, At, BootInv
<1>3. b \in BOOLEAN
  OBVIOUS
<1> HIDE DEF b
<1>4. /\ s \in Process
      /\ s.pc = "migrating" /\ s.attempts = process[p].attempts
  BY <1>1, <1>3 DEF PlacedAt, Process, Places, Running
<1> HIDE DEF s
<1>5. PlacedAt(p, s)
  BY <1>1, <1>2, <1>4 DEF PlacedAt, Running
<1> QED BY <1>2, <1>5, OneMoves

LEMMA BootNext_Inv == BootInv /\ [BootNext]_bootVars => BootInv'
<1> SUFFICES ASSUME BootInv, [BootNext]_bootVars PROVE BootInv'
  OBVIOUS
<1>1. ASSUME NEW p \in Processes, Start(p) PROVE BootInv'
  BY <1>1, StartMoves
<1>2. ASSUME NEW p \in Processes, Stop(p) PROVE BootInv'
  BY <1>2, OneMoves, StoppedPlaced DEF Stop
<1>3. ASSUME NEW p \in Processes, Connect(p) PROVE BootInv'
  <2>1. CASE "postgres" \in up
    BY <1>3, <2>1, GoesTo DEF Connect, At, Places, Running
  <2>2. CASE "postgres" \notin up
    BY <1>3, <2>2, Retries, BootAssumption DEF Connect
  <2> QED BY <2>1, <2>2
<1>4. ASSUME NEW p \in Processes, ReadMigrations(p) PROVE BootInv'
  BY <1>4, ReadMigrationsMoves
<1>5. ASSUME NEW p \in Processes, Migrate(p) PROVE BootInv'
  <2>1. CASE process[p].behind /\ migrated
    BY <1>5, <2>1, OneMoves, StoppedPlaced DEF Migrate
  <2>2. CASE ~(process[p].behind /\ migrated)
    BY <1>5, <2>2, GoesTo DEF Migrate, At, Places, Running
  <2> QED BY <2>1, <2>2
<1>6. ASSUME NEW p \in Processes, UseEnvSecret(p) \/ ReadSecret(p) PROVE BootInv'
  BY <1>6, SecretMoves
<1>7. ASSUME NEW p \in Processes, InsertSecret(p) PROVE BootInv'
  BY <1>7, InsertMoves
<1>8. ASSUME NEW p \in Processes, Probe(p) PROVE BootInv'
  <2>1. CASE "quickwit" \in up
    BY <1>8, <2>1, GoesTo DEF Probe, At, Places, Running
  <2>2. CASE "quickwit" \notin up
    BY <1>8, <2>2, Retries, BootAssumption DEF Probe, At
  <2> QED BY <2>1, <2>2
<1>9. ASSUME NEW p \in Processes, InitAuth(p) PROVE BootInv'
  BY <1>9, GoesTo DEF InitAuth, At, Places, Running
<1>10. ASSUME NEW x, Outage(x) \/ Recovery(x) PROVE BootInv'
  BY <1>10, NoneMoves DEF Outage, Recovery
<1>11. CASE UNCHANGED bootVars
  BY <1>11, NoneMoves DEF bootVars
<1> QED BY <1>1, <1>2, <1>3, <1>4, <1>5, <1>6, <1>7, <1>8, <1>9, <1>10, <1>11 DEF BootNext

\* BootInv is an invariant of the specification.
THEOREM BootInvariant == BootSpec => []BootInv
<1> QED BY BootInit_Inv, BootNext_Inv, PTL DEF BootSpec

-----------------------------------------------------------------------------
(* What follows from it *)

\* Every reachable state is well typed, and no step is tried more often than
\* its limit.
THEOREM BootTypeCorrect == BootSpec => []BootTypeOK
<1>1. BootInv => BootTypeOK
  BY DEF BootInv, BootTypeOK, RowTyped, SettingsRow, PlacedAt, Process, At
<1> QED BY <1>1, BootInvariant, PTL

\* All processes that listen sign with one secret, for any number of
\* processes that boot and stop in any order.
THEOREM SecretShared == BootSpec => []OneSecret
<1>1. BootInv => OneSecret
  BY DEF BootInv, OneSecret, PlacedAt, Running, At
<1> QED BY <1>1, BootInvariant, PTL

\* No boot replaces the secret that a process which listens was given.
THEOREM SecretStays == BootSpec => []SecretKept
<1>1. BootInv => SecretKept
  BY DEF BootInv, SecretKept, PlacedAt, Running, At
<1> QED BY <1>1, BootInvariant, PTL

\* There is one secret, for good.
THEOREM SecretForGood == BootSpec => []OneSecretKept
<1> QED BY SecretShared, SecretStays, PTL DEF OneSecretKept

-----------------------------------------------------------------------------
(* ProviderSessions *)

\* The account of a session, or the one a callback has come to, is the person
\* its own identity denotes, under the issuer that is signing in, and under
\* the same client but for an overlap.
Denotes(a) == a.user = Person[a.via]
Matches(a, x) ==
    /\ Denotes(a)
    /\ a.via.issuer = x.via.issuer
    /\ a.via = x.via \/ x.stale \/ a.stale

IsCurrent(x) == x.via = Effective \/ x.stale

AccountsInv == \A a \in oidcAccounts : Denotes(a) /\ IsCurrent(a)

CallbacksInv ==
    \A c \in callbacks :
        /\ IsCurrent(c)
        /\ c.account # NoOne => /\ Matches(c.account, c)
                                /\ c.account \in oidcAccounts \/ c.stale

\* A session that did not overlap a change is linked: the next change ends it.
SessionsInv ==
    \A s \in oidcSessions :
        /\ IsCurrent(s)
        /\ s.user = s.account.user
        /\ Matches(s.account, s)
        /\ s.account \in oidcAccounts \/ s.stale

\* An open transaction either keeps the identity or catches everybody who did
\* not sign in across it; the environment's identity is never changed by one.
ChangeInv ==
    change # NoChange =>
        /\ envOidc = NoIdentity
        /\ ~change.unlinks => change.to = savedOidc
        /\ change.unlinks => /\ \A c \in callbacks : c.stale
                             /\ \A s \in oidcSessions : s.stale \/ s \in change.doomed

ProviderInv ==
    /\ ProviderTypeOK
    /\ AccountsInv
    /\ CallbacksInv
    /\ SessionsInv
    /\ ChangeInv
    /\ envIdentity = envOidc
    /\ NothingToRevive

-----------------------------------------------------------------------------

LEMMA ProviderInit_Inv == ProviderInit => ProviderInv
BY ProviderSessionsAssumption
   DEF ProviderInit, ProviderInv, ProviderTypeOK, AccountsInv, CallbacksInv, SessionsInv, ChangeInv,
       NothingToRevive

\* A callback replaced by another of the same sign-in.
LEMMA CallbackGoesOn ==
    ASSUME ProviderInv, NEW c \in callbacks, NEW d \in Callback,
           d.via = c.via, d.stale = c.stale,
           d.account # NoOne => /\ Matches(d.account, d)
                                /\ d.account \in oidcAccounts' \/ d.stale,
           callbacks' = (callbacks \ {c}) \cup {d},
           oidcAccounts \subseteq oidcAccounts', oidcAccounts' \subseteq Account,
           \A a \in oidcAccounts' \ oidcAccounts : Denotes(a) /\ IsCurrent(a),
           UNCHANGED <<savedOidc, envOidc, envIdentity, liveOidc, oidcSessions, change, signIns, changes>>
    PROVE  ProviderInv'
<1> USE DEF ProviderInv
<1>1. ProviderTypeOK'
  BY DEF ProviderTypeOK
<1>2. AccountsInv'
  BY DEF AccountsInv, Denotes, IsCurrent, Effective
<1>3. CallbacksInv'
  BY DEF CallbacksInv, Denotes, IsCurrent, Effective, Matches
<1>4. SessionsInv'
  BY DEF SessionsInv, Denotes, IsCurrent, Effective, Matches
<1>5. ChangeInv'
  BY DEF ChangeInv
<1> QED BY <1>1, <1>2, <1>3, <1>4, <1>5 DEF NothingToRevive

LEMMA BeginCallback_Inv == ASSUME ProviderInv, BeginCallback PROVE ProviderInv'
<1> PICK b \in BOOLEAN : b <=> change # NoChange \/ liveOidc # Effective
  OBVIOUS
<1> DEFINE c == [id |-> signIns + 1, via |-> liveOidc, found |-> FALSE, account |-> NoOne, stale |-> b]
<1>1. callbacks' = callbacks \cup {c}
  BY DEF BeginCallback
<1>2. c \in Callback /\ signIns' \in 0..MaxSignIns
  BY ProviderSessionsAssumption DEF BeginCallback, ServesCallbacks, ProviderInv, ProviderTypeOK, Callback
<1>3. c.via = liveOidc /\ c.stale = b /\ c.account = NoOne
  OBVIOUS
<1> HIDE DEF c
<1> USE DEF ProviderInv
<1>4. ProviderTypeOK'
  BY <1>1, <1>2 DEF ProviderTypeOK, BeginCallback
<1>5. CallbacksInv'
  BY <1>1, <1>3 DEF CallbacksInv, IsCurrent, Effective, Matches, Denotes, BeginCallback
<1>6. ChangeInv'
  BY <1>1, <1>3 DEF ChangeInv, BeginCallback
<1> QED BY <1>4, <1>5, <1>6 DEF BeginCallback, AccountsInv, SessionsInv, IsCurrent, Effective, Matches,
                                Denotes, NothingToRevive

LEMMA FindAccount_Inv == ASSUME ProviderInv, NEW c \in callbacks, FindAccount(c) PROVE ProviderInv'
<1>1. PICK a \in oidcAccounts \cup {NoOne} :
          /\ a # NoOne => SameSubject(a, c.via)
          /\ callbacks' = (callbacks \ {c}) \cup {[c EXCEPT !.found = TRUE, !.account = a]}
  BY DEF FindAccount
<1> DEFINE d == [c EXCEPT !.found = TRUE, !.account = a]
<1>2. c \in Callback /\ a \in Account \cup {NoOne}
  BY DEF ProviderInv, ProviderTypeOK
<1>3. d \in Callback /\ d.via = c.via /\ d.stale = c.stale /\ d.account = a
  BY <1>2 DEF Callback
<1> HIDE DEF d
<1>4. callbacks' = (callbacks \ {c}) \cup {d}
  BY <1>1 DEF d
<1>5. a # NoOne => Matches(a, d) /\ a \in oidcAccounts
  BY <1>1, <1>3 DEF ProviderInv, AccountsInv, CallbacksInv, IsCurrent, Matches, SameSubject
<1> QED BY <1>3, <1>4, <1>5, CallbackGoesOn DEF FindAccount, ProviderInv, ProviderTypeOK

LEMMA LinkAccount_Inv == ASSUME ProviderInv, NEW c \in callbacks, LinkAccount(c) PROVE ProviderInv'
<1> DEFINE a == [user |-> Person[c.via], via |-> c.via, stale |-> c.stale]
           d == [c EXCEPT !.account = a]
<1>1. c \in Callback
  BY DEF ProviderInv, ProviderTypeOK
<1>2. /\ a \in Account
      /\ a.user = Person[c.via] /\ a.via = c.via /\ a.stale = c.stale
  BY <1>1, ProviderSessionsAssumption DEF Callback, Account
<1>3. oidcAccounts' = oidcAccounts \cup {a} /\ callbacks' = (callbacks \ {c}) \cup {d}
  BY DEF LinkAccount
<1> HIDE DEF a
<1>4. d \in Callback /\ d.via = c.via /\ d.stale = c.stale /\ d.account = a
  BY <1>1, <1>2 DEF Callback
<1> HIDE DEF d
<1>5. Denotes(a) /\ IsCurrent(a) /\ Matches(a, d)
  BY <1>2, <1>4 DEF Denotes, IsCurrent, Matches, ProviderInv, CallbacksInv
<1> QED BY <1>2, <1>3, <1>4, <1>5, CallbackGoesOn DEF LinkAccount, ProviderInv, ProviderTypeOK

LEMMA InsertSession_Inv == ASSUME ProviderInv, NEW c \in callbacks, InsertSession(c) PROVE ProviderInv'
<1> DEFINE s == [id |-> c.id, user |-> c.account.user, via |-> c.via, stale |-> c.stale,
                 account |-> c.account]
<1>1. c \in Callback /\ c.account \in Account
  BY DEF ProviderInv, ProviderTypeOK, Callback, InsertSession
<1>2. /\ s \in Session
      /\ s.user = c.account.user /\ s.via = c.via /\ s.stale = c.stale /\ s.account = c.account
  BY <1>1 DEF Callback, Account, Session
<1>3. callbacks' = callbacks \ {c} /\ oidcSessions' = oidcSessions \cup {s}
  BY DEF InsertSession
<1> HIDE DEF s
<1> USE DEF ProviderInv
<1>4. ProviderTypeOK'
  BY <1>2, <1>3 DEF ProviderTypeOK, InsertSession
<1>5. CallbacksInv' /\ AccountsInv'
  BY <1>3 DEF InsertSession, CallbacksInv, AccountsInv, IsCurrent, Effective, Matches, Denotes
<1>6. SessionsInv'
  BY <1>2, <1>3 DEF InsertSession, CallbacksInv, SessionsInv, IsCurrent, Effective, Matches, Denotes
<1>7. ChangeInv'
  BY <1>2, <1>3 DEF InsertSession, ChangeInv
<1> QED BY <1>4, <1>5, <1>6, <1>7 DEF InsertSession, NothingToRevive

\* Who is linked when a change begins, or the environment is another one:
\* everybody whose sign-in did not overlap a change.
LEMMA LinkedOrStale == ASSUME ProviderInv PROVE \A s \in oidcSessions : s.stale \/ s \in LinkedSessions
BY DEF ProviderInv, ProviderTypeOK, SessionsInv, LinkedSessions

LEMMA BeginChange_Inv ==
    ASSUME ProviderInv, NEW to \in Identities \cup {NoIdentity}, BeginChange(to)
    PROVE  ProviderInv'
<1> PICK unlinks \in BOOLEAN : unlinks <=> (IF to = NoIdentity THEN TRUE ELSE IdentityChanged(to))
  OBVIOUS
<1> PICK doomed : doomed = IF unlinks THEN LinkedSessions ELSE {}
  OBVIOUS
<1>1. /\ change' = [to |-> to, unlinks |-> unlinks, doomed |-> doomed]
      /\ callbacks' = IF unlinks THEN {[c EXCEPT !.stale = TRUE] : c \in callbacks} ELSE callbacks
  BY DEF BeginChange
<1>2. change' \in Change
  BY <1>1 DEF Change, LinkedSessions, ProviderInv, ProviderTypeOK
<1>3. /\ change'.to = to /\ change'.unlinks = unlinks /\ change'.doomed = doomed
  BY <1>1
<1>4. \A d \in callbacks' : \E c \in callbacks :
          /\ d \in Callback
          /\ d.via = c.via /\ d.account = c.account
          /\ c.stale \/ unlinks => d.stale
  <2>1. \A c \in callbacks : LET d == [c EXCEPT !.stale = TRUE]
                             IN  d \in Callback /\ d.via = c.via /\ d.account = c.account /\ d.stale
    BY DEF Callback, ProviderInv, ProviderTypeOK
  <2> QED BY <1>1, <2>1 DEF ProviderInv, ProviderTypeOK
<1> USE DEF ProviderInv
<1>5. ProviderTypeOK'
  <2>1. changes' \in 0..MaxChanges
    BY ProviderSessionsAssumption DEF ProviderTypeOK, BeginChange
  <2>2. UNCHANGED <<savedOidc, envOidc, envIdentity, liveOidc, oidcAccounts, oidcSessions, signIns>>
    BY DEF BeginChange
  <2>3. callbacks' \subseteq Callback
    BY <1>4
  <2> QED BY <1>2, <2>1, <2>2, <2>3 DEF ProviderTypeOK
<1>6. CallbacksInv'
  BY <1>4 DEF BeginChange, CallbacksInv, IsCurrent, Effective, Matches, Denotes
<1>7. AccountsInv' /\ SessionsInv'
  BY DEF BeginChange, AccountsInv, SessionsInv, IsCurrent, Effective, Matches, Denotes
<1>8. ChangeInv'
  <2>1. unlinks => \A c \in callbacks' : c.stale
    BY <1>4
  <2>2. ~unlinks => to = savedOidc
    BY DEF IdentityChanged
  <2> QED BY <1>3, <2>1, <2>2, LinkedOrStale DEF BeginChange, ChangeInv
<1> QED BY <1>5, <1>6, <1>7, <1>8 DEF BeginChange, NothingToRevive

LEMMA CommitChange_Inv == ASSUME ProviderInv, CommitChange PROVE ProviderInv'
<1> USE DEF ProviderInv
<1>1. change \in Change /\ change.to \in Identities \cup {NoIdentity}
  BY DEF CommitChange, ProviderTypeOK, Change
<1>2. ProviderTypeOK'
  BY <1>1 DEF CommitChange, ProviderTypeOK
<1>3. CASE change.unlinks
  <2>1. AccountsInv' /\ SessionsInv' /\ CallbacksInv'
    BY <1>3 DEF CommitChange, ChangeInv, AccountsInv, SessionsInv, CallbacksInv, IsCurrent, Matches, Denotes
  <2> QED BY <1>2, <2>1 DEF CommitChange, ChangeInv, NothingToRevive
<1>4. CASE ~change.unlinks
  <2>1. UNCHANGED <<savedOidc, envOidc, envIdentity, oidcAccounts, callbacks>> /\ oidcSessions' \subseteq oidcSessions
    BY <1>4 DEF CommitChange, ChangeInv
  <2>2. AccountsInv' /\ SessionsInv' /\ CallbacksInv'
    BY <2>1 DEF AccountsInv, SessionsInv, CallbacksInv, IsCurrent, Effective, Matches, Denotes
  <2> QED BY <1>2, <2>1, <2>2 DEF CommitChange, ChangeInv, NothingToRevive
<1> QED BY <1>3, <1>4

LEMMA Restart_Inv ==
    ASSUME ProviderInv, NEW given \in Identities \cup {NoIdentity}, Restart(given)
    PROVE  ProviderInv'
<1> USE DEF ProviderInv
<1>1. ProviderTypeOK'
  BY ProviderSessionsAssumption DEF Restart, SavedAfterBoot, ProviderTypeOK
<1>2. CallbacksInv' /\ ChangeInv'
  BY DEF Restart, CallbacksInv, ChangeInv
<1>3. CASE envIdentity = given
  BY <1>1, <1>2, <1>3 DEF Restart, SavedAfterBoot, AccountsInv, SessionsInv, IsCurrent, Effective,
                          Matches, Denotes, NothingToRevive
<1>4. CASE envIdentity # given
  <2>1. oidcAccounts' = {} /\ oidcSessions' \subseteq oidcSessions /\ \A s \in oidcSessions' : s.stale
    BY <1>4, LinkedOrStale DEF Restart
  <2>2. AccountsInv' /\ SessionsInv'
    BY <2>1 DEF AccountsInv, SessionsInv, IsCurrent, Matches, Denotes
  <2> QED BY <1>1, <1>2, <2>2 DEF Restart, SavedAfterBoot, NothingToRevive
<1> QED BY <1>3, <1>4

LEMMA Quiet_Inv ==
    ASSUME ProviderInv, liveOidc' \in Identities \cup {NoIdentity},
           UNCHANGED <<savedOidc, envOidc, envIdentity, oidcAccounts, oidcSessions, callbacks, change,
                       signIns, changes>>
    PROVE  ProviderInv'
BY DEF ProviderInv, ProviderTypeOK, AccountsInv, CallbacksInv, SessionsInv, ChangeInv, IsCurrent,
       Effective, Matches, Denotes, NothingToRevive

LEMMA ProviderNext_Inv == ProviderInv /\ [ProviderNext]_providerVars => ProviderInv'
<1> SUFFICES ASSUME ProviderInv, [ProviderNext]_providerVars PROVE ProviderInv'
  OBVIOUS
<1>1. CASE BeginCallback
  BY <1>1, BeginCallback_Inv
<1>2. ASSUME NEW c \in callbacks, FindAccount(c) \/ LinkAccount(c) \/ InsertSession(c) PROVE ProviderInv'
  BY <1>2, FindAccount_Inv, LinkAccount_Inv, InsertSession_Inv
<1>3. ASSUME NEW to \in Identities \cup {NoIdentity}, BeginChange(to) PROVE ProviderInv'
  BY <1>3, BeginChange_Inv
<1>4. CASE CommitChange
  BY <1>4, CommitChange_Inv
<1>5. CASE Reload
  BY <1>5, Quiet_Inv DEF Reload, Effective, ProviderInv, ProviderTypeOK
<1>6. ASSUME NEW given \in Identities \cup {NoIdentity}, Restart(given) PROVE ProviderInv'
  BY <1>6, Restart_Inv
<1>7. CASE UNCHANGED providerVars
  BY <1>7, Quiet_Inv DEF providerVars, ProviderInv, ProviderTypeOK
<1> QED BY <1>1, <1>2, <1>3, <1>4, <1>5, <1>6, <1>7 DEF ProviderNext

\* ProviderInv is an invariant of the specification.
THEOREM ProviderInvariant == ProviderSpec => []ProviderInv
<1> QED BY ProviderInit_Inv, ProviderNext_Inv, PTL DEF ProviderSpec

-----------------------------------------------------------------------------
(* What follows from it *)

\* Every reachable state is well typed.
THEOREM ProviderTypeCorrect == ProviderSpec => []ProviderTypeOK
<1>1. ProviderInv => ProviderTypeOK
  BY DEF ProviderInv
<1> QED BY <1>1, ProviderInvariant, PTL

\* What was opened or linked under an identity ends with it, but for sign-ins
\* that overlapped the change.
THEOREM IdentityEnds == ProviderSpec => []OldIdentityOut
<1>1. ProviderInv => OldIdentityOut
  BY DEF ProviderInv, OldIdentityOut, AccountsInv, SessionsInv, IsCurrent
<1> QED BY <1>1, ProviderInvariant, PTL

\* Nobody is signed in as somebody else, but for an overlap of two clients of
\* one issuer.
THEOREM SignedInAsThemselves == ProviderSpec => []RightPerson
<1>1. ProviderInv => RightPerson
  BY DEF ProviderInv, RightPerson, SessionsInv, Matches, Denotes
<1> QED BY <1>1, ProviderInvariant, PTL

\* No saved provider waits behind the environment's.
THEOREM NothingRevives == ProviderSpec => []NothingToRevive
<1>1. ProviderInv => NothingToRevive
  BY DEF ProviderInv
<1> QED BY <1>1, ProviderInvariant, PTL

\* An identity that was changed neither stays behind nor comes back.
THEOREM OldIdentityEnds == ProviderSpec => []NothingOfOldIdentity
<1> QED BY IdentityEnds, NothingRevives, PTL DEF NothingOfOldIdentity

-----------------------------------------------------------------------------
(* IngestProxy *)

AttemptsInv ==
    /\ \A a \in attempts : a.id \in 1..sent
    /\ \A a, b \in attempts : a.id = b.id => a = b
    /\ \A a \in attempts : IF a.awaited THEN a.id = sent /\ exporter = "sending"
                                        ELSE a.id \in unheard
    /\ \A a \in attempts : a.stage # "received" => Refusal = 0
    /\ \A a \in attempts : a.stage = "abandoned" => ~a.awaited

\* What a stored attempt will report adds up with what it stored, and what was
\* stored for an attempt before the last went unheard.
DeliveredInv ==
    /\ \A a \in attempts : a.stage = "stored" =>
          \/ batch.body = "chunked"
          \/ \E d \in delivered : d.attempt = a.id /\ d.count + a.rejected = BatchSize
    /\ \A d \in delivered :
          \/ d.attempt \in unheard
          \/ d.attempt = sent /\ exporter = "acked"
          \/ d.attempt = sent /\ \E a \in attempts : a.id = sent /\ a.awaited /\ a.stage = "stored"

ProxyInv ==
    /\ ProxyTypeOK
    /\ AttemptsInv
    /\ DeliveredInv
    /\ BatchesAccountedFor

-----------------------------------------------------------------------------

LEMMA ProxyInit_Inv == ProxyInit => ProxyInv
<1> SUFFICES ASSUME ProxyInit PROVE ProxyInv
  OBVIOUS
<1>1. ProxyTypeOK
  <2>1. refused \in BOOLEAN
    BY DEF ProxyInit
  <2> QED BY <2>1, IngestProxyAssumption DEF ProxyInit, ProxyTypeOK
<1>2. AttemptsInv /\ DeliveredInv
  BY DEF ProxyInit, AttemptsInv, DeliveredInv
<1>3. BatchesAccountedFor
  BY DEF ProxyInit, BatchesAccountedFor, AckedIsStored, DroppedForCause, SignalsStayApart,
         StoredTwiceForCause
<1> QED BY <1>1, <1>2, <1>3 DEF ProxyInv

LEMMA RefusalStays == ASSUME batch' = batch PROVE Refusal' = Refusal
BY DEF Refusal, Otlp, WrongStore, EmptyBody

LEMMA Send_Inv == ASSUME ProxyInv, Send PROVE ProxyInv'
<1> DEFINE new == [id |-> sent + 1, awaited |-> TRUE, rejected |-> 0, stage |-> "received"]
<1> USE DEF ProxyInv, Send
<1>1. new \in Attempt /\ sent + 1 \in Nat
  BY IngestProxyAssumption DEF Attempt, ProxyTypeOK
<1>2. ProxyTypeOK'
  <2>1. refused' \in BOOLEAN
    BY DEF ProxyTypeOK
  <2>2. unheard \subseteq 1..sent' /\ unread \subseteq 1..sent' /\ sent' \in 0..MaxAttempts
    BY IngestProxyAssumption DEF ProxyTypeOK
  <2> QED BY <1>1, <2>1, <2>2, IngestProxyAssumption DEF ProxyTypeOK
<1>3. AttemptsInv'
  <2>1. \A a \in attempts : ~a.awaited
    BY DEF Awaited
  <2>2. \A a \in attempts : a.id \in 1..sent
    BY DEF AttemptsInv
  <2>3. new.id = sent' /\ new.awaited /\ new.stage = "received"
    OBVIOUS
  <2>4. /\ \A a \in attempts' : a.id \in 1..sent'
        /\ \A a, b \in attempts' : a.id = b.id => a = b
    <3>1. sent' = sent + 1 /\ sent \in Nat /\ \A a \in attempts' : a \in attempts \/ a = new
      BY IngestProxyAssumption DEF ProxyTypeOK
    <3> HIDE DEF new
    <3> QED BY <2>2, <2>3, <3>1 DEF AttemptsInv
  <2>5. \A a \in attempts' : IF a.awaited THEN a.id = sent' /\ exporter' = "sending"
                                             ELSE a.id \in unheard'
    <3>1. \A a \in attempts' : a \in attempts \/ a = new
      OBVIOUS
    <3>2. exporter' = "sending" /\ unheard' = unheard
      OBVIOUS
    <3> QED BY <2>1, <2>3, <3>1, <3>2 DEF AttemptsInv
  <2>6. \A a \in attempts' : /\ a.stage # "received" => Refusal' = 0
                             /\ a.stage = "abandoned" => ~a.awaited
    BY <2>3, RefusalStays DEF AttemptsInv
  <2> QED BY <2>4, <2>5, <2>6 DEF AttemptsInv
<1>4. DeliveredInv'
  <2>1. \A a \in attempts' : a.stage = "stored" => a \in attempts
    OBVIOUS
  <2>2. \A d \in delivered : d.attempt \in unheard
    BY DEF Awaited, DeliveredInv
  <2> QED BY <2>1, <2>2 DEF DeliveredInv
<1>5. BatchesAccountedFor'
  BY RefusalStays DEF BatchesAccountedFor, AckedIsStored, DroppedForCause, SignalsStayApart,
         StoredTwiceForCause
<1> QED BY <1>2, <1>3, <1>4, <1>5

\* Properties that a step keeps when the batch stays and it stores nothing.
LEMMA StoresNothing ==
    ASSUME ProxyInv, UNCHANGED <<batch, delivered>>, unheard \subseteq unheard',
           unread \subseteq unread', refused => refused',
           exporter' # "acked" \/ UNCHANGED <<exporter, reported>>,
           exporter' = "dropped" => exporter = "dropped" \/ Refusal # 0 \/ refused'
    PROVE  BatchesAccountedFor'
BY RefusalStays DEF ProxyInv, BatchesAccountedFor, AckedIsStored, DroppedForCause, SignalsStayApart,
       StoredTwiceForCause

\* A step that answers an attempt, or loses it, and stores nothing.
LEMMA AttemptEnds ==
    ASSUME ProxyInv, NEW a \in attempts, attempts' = attempts \ {a},
           UNCHANGED <<batch, sent, delivered>>, unheard \subseteq unheard',
           ~a.awaited => UNCHANGED exporter,
           a.stage = "stored" /\ a.awaited => exporter' = "acked" \/ a.id \in unheard'
    PROVE  AttemptsInv' /\ DeliveredInv'
<1> USE DEF ProxyInv
<1>1. AttemptsInv'
  BY RefusalStays DEF AttemptsInv
<1>2. DeliveredInv'
  <2>1. \A b \in attempts' : b.stage = "stored" =>
          \/ batch.body = "chunked"
          \/ \E d \in delivered : d.attempt = b.id /\ d.count + b.rejected = BatchSize
    BY DEF DeliveredInv
  <2>2. ASSUME NEW d \in delivered, d.attempt \notin unheard'
        PROVE  \/ d.attempt = sent /\ exporter' = "acked"
               \/ d.attempt = sent /\ \E b \in attempts' : b.id = sent /\ b.awaited /\ b.stage = "stored"
    BY <2>2 DEF DeliveredInv, AttemptsInv
  <2> QED BY <2>1, <2>2 DEF DeliveredInv
<1> QED BY <1>1, <1>2

\* A step that moves an attempt on, and stores nothing.
LEMMA AttemptMoves ==
    ASSUME ProxyInv, NEW a \in attempts, NEW b \in Attempt, attempts' = (attempts \ {a}) \cup {b},
           b.id = a.id, b.stage # "received" => Refusal = 0, b.stage = "abandoned" => ~b.awaited,
           b.stage = "stored" => a.stage = "stored" /\ b.rejected = a.rejected,
           IF b.awaited THEN a.awaited /\ a.stage # "stored" /\ exporter' = exporter
                        ELSE a.id \in unheard',
           a.awaited \/ exporter' = exporter,
           UNCHANGED <<batch, sent, delivered>>, unheard \subseteq unheard'
    PROVE  AttemptsInv' /\ DeliveredInv'
<1> USE DEF ProxyInv
<1>1. AttemptsInv'
  BY RefusalStays DEF AttemptsInv
<1>2. DeliveredInv'
  <2>1. \A c \in attempts' : c.stage = "stored" =>
          \/ batch.body = "chunked"
          \/ \E d \in delivered : d.attempt = c.id /\ d.count + c.rejected = BatchSize
    BY DEF DeliveredInv
  <2>2. ASSUME NEW d \in delivered, d.attempt \notin unheard'
        PROVE  \/ d.attempt = sent /\ exporter' = "acked"
               \/ d.attempt = sent /\ \E c \in attempts' : c.id = sent /\ c.awaited /\ c.stage = "stored"
    BY <2>2 DEF DeliveredInv, AttemptsInv
  <2> QED BY <2>1, <2>2 DEF DeliveredInv
<1> QED BY <1>1, <1>2


LEMMA StopWaiting_Inv == ASSUME ProxyInv, NEW a \in attempts, StopWaiting(a) PROVE ProxyInv'
<1> DEFINE b == [a EXCEPT !.awaited = FALSE]
<1> USE DEF StopWaiting
<1>1. b \in Attempt /\ a.id \in 1..sent
  BY DEF ProxyInv, ProxyTypeOK, Attempt, AttemptsInv
<1>2. /\ b.id = a.id /\ ~b.awaited /\ b.rejected = a.rejected /\ b.stage = a.stage
      /\ b.stage # "received" => Refusal = 0
  BY DEF ProxyInv, ProxyTypeOK, Attempt, AttemptsInv
<1>3. AttemptsInv' /\ DeliveredInv'
  BY <1>1, <1>2, AttemptMoves
<1>4. ProxyTypeOK'
  BY <1>1 DEF ProxyInv, ProxyTypeOK
<1>5. BatchesAccountedFor'
  BY StoresNothing DEF ProxyInv
<1> QED BY <1>3, <1>4, <1>5 DEF ProxyInv

LEMMA Forward_Inv == ASSUME ProxyInv, NEW a \in attempts, Forward(a) PROVE ProxyInv'
<1> DEFINE b == [a EXCEPT !.stage = "upstream"]
<1> USE DEF Forward
<1>1. b \in Attempt /\ b.id = a.id /\ b.awaited = a.awaited /\ b.stage = "upstream"
  BY DEF ProxyInv, ProxyTypeOK, Attempt
<1>2. ~a.awaited => a.id \in unheard
  BY DEF ProxyInv, AttemptsInv
<1>3. AttemptsInv' /\ DeliveredInv'
  BY <1>1, <1>2, AttemptMoves
<1>4. ProxyTypeOK'
  BY <1>1 DEF ProxyInv, ProxyTypeOK
<1>5. BatchesAccountedFor'
  BY StoresNothing DEF ProxyInv
<1> QED BY <1>3, <1>4, <1>5 DEF ProxyInv

\* What an exporter makes of an error status.
LEMMA HearsError ==
    ASSUME ProxyInv, NEW a \in attempts, NEW status, status # 200, Hears(a, status, 0)
    PROVE  /\ exporter' \in {"sending", "acked", "dropped"} /\ reported' \in 0..BatchSize
           /\ ~a.awaited => UNCHANGED exporter
           /\ exporter' # "acked" \/ UNCHANGED <<exporter, reported>>
           /\ exporter' = "dropped" => exporter = "dropped" \/ ~Retryable(status)
<1>1. 0 \in 0..BatchSize
  BY IngestProxyAssumption
<1> QED BY <1>1 DEF Hears, ProxyInv, ProxyTypeOK

LEMMA Refuse_Inv == ASSUME ProxyInv, NEW a \in attempts, Refuse(a) PROVE ProxyInv'
<1> USE DEF Refuse
<1>1. Refusal # 200
  BY DEF Refusal
<1>2. AttemptsInv' /\ DeliveredInv'
  BY <1>1, HearsError, AttemptEnds DEF ProxyInv, AttemptsInv
<1>3. ProxyTypeOK'
  BY <1>1, HearsError DEF ProxyInv, ProxyTypeOK
<1>4. BatchesAccountedFor'
  BY <1>1, HearsError, StoresNothing DEF ProxyInv
<1> QED BY <1>2, <1>3, <1>4 DEF ProxyInv

LEMMA KeyLookupFails_Inv == ASSUME ProxyInv, NEW a \in attempts, KeyLookupFails(a) PROVE ProxyInv'
<1> USE DEF KeyLookupFails
<1>1. InternalStatus # 200 /\ Retryable(InternalStatus)
  BY DEF InternalStatus, Retryable
<1>2. AttemptsInv' /\ DeliveredInv'
  BY <1>1, HearsError, AttemptEnds DEF ProxyInv
<1>3. ProxyTypeOK'
  BY <1>1, HearsError DEF ProxyInv, ProxyTypeOK
<1>4. BatchesAccountedFor'
  BY <1>1, HearsError, StoresNothing DEF ProxyInv
<1> QED BY <1>2, <1>3, <1>4 DEF ProxyInv

LEMMA QuickwitRefuses_Inv ==
    ASSUME ProxyInv, NEW a \in attempts, NEW status \in {400, 404, 413, 429, 500, 502},
           QuickwitRefuses(a, status)
    PROVE  ProxyInv'
<1> USE DEF QuickwitRefuses
<1>1. ProxiedStatus(status) # 200
  BY DEF ProxiedStatus
<1>2. Retryable(ProxiedStatus(status)) \/ refused'
  <2>1. status \in {429, 500, 502} => Retryable(ProxiedStatus(status))
    BY DEF ProxiedStatus, Retryable
  <2>2. status \in {400, 404, 413} => refused'
    OBVIOUS
  <2> QED BY <2>1, <2>2
<1>3. refused' \in BOOLEAN /\ (refused => refused')
  BY DEF ProxyInv, ProxyTypeOK
<1>4. AttemptsInv' /\ DeliveredInv'
  BY <1>1, HearsError, AttemptEnds DEF ProxyInv
<1>5. ProxyTypeOK'
  BY <1>1, <1>3, HearsError DEF ProxyInv, ProxyTypeOK
<1>6. BatchesAccountedFor'
  BY <1>1, <1>2, <1>3, HearsError, StoresNothing DEF ProxyInv
<1> QED BY <1>4, <1>5, <1>6 DEF ProxyInv

LEMMA UpstreamLost_Inv == ASSUME ProxyInv, NEW a \in attempts, UpstreamLost(a) PROVE ProxyInv'
<1> DEFINE b == [a EXCEPT !.stage = "abandoned", !.awaited = FALSE]
<1> USE DEF UpstreamLost
<1>1. b \in Attempt /\ b.id = a.id /\ ~b.awaited /\ b.stage = "abandoned"
  BY DEF ProxyInv, ProxyTypeOK, Attempt
<1>2. a.id \in 1..sent /\ Refusal = 0 /\ Retryable(503)
  BY DEF ProxyInv, AttemptsInv, Retryable
<1>3. attempts' = attempts \ {a} \/ attempts' = (attempts \ {a}) \cup {b}
  OBVIOUS
<1>4. AttemptsInv' /\ DeliveredInv'
  <2>1. CASE attempts' = attempts \ {a}
    BY <2>1, HearsError, AttemptEnds
  <2>2. CASE attempts' = (attempts \ {a}) \cup {b}
    <3> HIDE DEF b
    <3> QED BY <1>1, <1>2, <2>2, HearsError, AttemptMoves
  <2> QED BY <1>3, <2>1, <2>2
<1>5. ProxyTypeOK'
  BY <1>1, <1>2, <1>3, HearsError DEF ProxyInv, ProxyTypeOK
<1>6. BatchesAccountedFor'
  BY <1>2, HearsError, StoresNothing DEF ProxyInv
<1> QED BY <1>4, <1>5, <1>6 DEF ProxyInv

\* An answer that leaves rejected records out is noted, and reports none.
LEMMA StoredAnswered_Inv ==
    ASSUME ProxyInv, NEW a \in attempts, NEW body \in AnswerBodies, StoredAnswered(a, body)
    PROVE  ProxyInv'
<1> USE DEF StoredAnswered, SuccessStatus, Hears
<1>1. a \in Attempt /\ a.id \in 1..sent /\ unread \subseteq unread' /\ unread' \subseteq unread \cup {a.id}
  BY DEF ProxyInv, ProxyTypeOK, AttemptsInv
<1>r. \/ Reported(a, body) = a.rejected
      \/ Reported(a, body) = 0 /\ a.id \in unread'
  BY DEF Reported
<1>0. Reported(a, body) \in 0..BatchSize
  BY <1>1, <1>r, IngestProxyAssumption DEF Attempt
<1> HIDE DEF StoredAnswered
<1>s. /\ a.stage = "stored" /\ attempts' = attempts \ {a}
      /\ UNCHANGED <<batch, sent, delivered, unheard, refused>>
      /\ ~a.awaited => UNCHANGED <<exporter, reported>>
      /\ a.awaited => exporter' = "acked" /\ reported' = Reported(a, body)
  BY DEF StoredAnswered
<1>2. AttemptsInv' /\ DeliveredInv'
  BY <1>s, AttemptEnds
<1>3. ProxyTypeOK'
  <2>1. reported' \in 0..BatchSize /\ exporter' \in {"sending", "acked", "dropped"}
    BY <1>0, <1>s DEF ProxyInv, ProxyTypeOK
  <2> QED BY <1>1, <1>s, <2>1 DEF ProxyInv, ProxyTypeOK
<1>4. BatchesAccountedFor'
  <2>1. CASE ~a.awaited
    BY <1>1, <1>s, <2>1, StoresNothing DEF ProxyInv
  <2>2. CASE a.awaited
    <3>1. AckedIsStored'
      <4>1. \/ batch.body = "chunked"
            \/ \E d \in delivered : d.attempt = a.id /\ d.count + a.rejected = BatchSize
        BY <1>s DEF ProxyInv, DeliveredInv
      <4> QED BY <1>r, <1>s, <2>2, <4>1 DEF AckedIsStored
    <3>2. (DroppedForCause /\ SignalsStayApart /\ StoredTwiceForCause)'
      BY <1>s, <2>2, RefusalStays DEF ProxyInv, BatchesAccountedFor, DroppedForCause, SignalsStayApart,
                                StoredTwiceForCause
    <3> QED BY <3>1, <3>2 DEF BatchesAccountedFor
  <2> QED BY <2>1, <2>2
<1> QED BY <1>2, <1>3, <1>4 DEF ProxyInv


LEMMA QuickwitStores_Inv ==
    ASSUME ProxyInv, NEW a \in attempts, NEW rejected \in 0..BatchSize, QuickwitStores(a, rejected)
    PROVE  ProxyInv'
<1> DEFINE d == [attempt |-> a.id, index |-> Destination, count |-> Records - rejected]
           b == [a EXCEPT !.stage = "stored", !.rejected = rejected]
<1> USE DEF QuickwitStores
<1>1. /\ a \in Attempt /\ a.id \in 1..sent /\ Refusal = 0 /\ batch \in Batch
      /\ a.awaited => a.id = sent /\ exporter = "sending"
      /\ ~a.awaited => a.id \in unheard
      /\ a.stage = "abandoned" => ~a.awaited
  BY DEF ProxyInv, ProxyTypeOK, AttemptsInv
<1>2. b \in Attempt /\ b.id = a.id /\ b.awaited = a.awaited /\ b.stage = "stored" /\ b.rejected = rejected
  BY <1>1 DEF Attempt
<1>3. /\ d \in Delivery /\ d.attempt = a.id
      /\ d.count + rejected = BatchSize \/ batch.body = "chunked"
      /\ d.index = "traceIndex" <=> batch.signal = "traces"
  BY <1>1, IngestProxyAssumption
     DEF Delivery, Destination, Records, Refusal, WrongStore, EmptyBody, Otlp, Batch, Attempt
<1>4. /\ delivered' = delivered \cup {d}
      /\ \/ attempts' = attempts \ {a} /\ a.stage = "abandoned"
         \/ attempts' = (attempts \ {a}) \cup {b}
      /\ UNCHANGED <<batch, exporter, reported, sent, unheard, unread, refused>>
  OBVIOUS
<1> HIDE DEF b, d, QuickwitStores
<1>5. ProxyTypeOK'
  BY <1>2, <1>3, <1>4 DEF ProxyInv, ProxyTypeOK
<1>6. AttemptsInv'
  BY <1>1, <1>2, <1>4, RefusalStays DEF ProxyInv, AttemptsInv
<1>7. DeliveredInv'
  <2>1. \A c \in attempts' : c.stage = "stored" =>
          \/ batch.body = "chunked"
          \/ \E e \in delivered' : e.attempt = c.id /\ e.count + c.rejected = BatchSize
    BY <1>2, <1>3, <1>4 DEF ProxyInv, DeliveredInv
  <2>2. \A c \in attempts : c.stage = "stored" => c \in attempts'
    BY <1>4 DEF QuickwitStores
  <2>3. ASSUME NEW e \in delivered, e.attempt \notin unheard
        PROVE  /\ e.attempt = sent
               /\ \/ exporter = "acked"
                  \/ \E c \in attempts' : c.id = sent /\ c.awaited /\ c.stage = "stored"
    BY <2>2, <2>3 DEF ProxyInv, DeliveredInv
  <2>4. \/ d.attempt \in unheard
        \/ d.attempt = sent /\ \E c \in attempts' : c.id = sent /\ c.awaited /\ c.stage = "stored"
    BY <1>1, <1>2, <1>3, <1>4
  <2>5. ASSUME NEW e \in delivered'
        PROVE  \/ e.attempt \in unheard
               \/ e.attempt = sent /\ exporter = "acked"
               \/ e.attempt = sent /\ \E c \in attempts' : c.id = sent /\ c.awaited /\ c.stage = "stored"
    <3>1. CASE e \in delivered
      BY <2>3, <3>1
    <3>2. CASE e = d
      BY <2>4, <3>2
    <3> QED BY <1>4, <3>1, <3>2
  <2> QED BY <1>4, <2>1, <2>5 DEF DeliveredInv
<1>8. BatchesAccountedFor'
  <2>1. AckedIsStored' /\ DroppedForCause'
    BY <1>4, RefusalStays DEF ProxyInv, BatchesAccountedFor, AckedIsStored, DroppedForCause
  <2>2. SignalsStayApart'
    BY <1>3, <1>4 DEF ProxyInv, BatchesAccountedFor, SignalsStayApart
  <2>3. StoredTwiceForCause'
    <3>1. \A e \in delivered : e.attempt \in unheard \/ e.attempt = sent
      BY DEF ProxyInv, DeliveredInv
    <3>2. ASSUME NEW e \in delivered, e.attempt < d.attempt PROVE e.attempt \in unheard
      BY <1>1, <1>3, <3>1, <3>2, IngestProxyAssumption DEF ProxyInv, ProxyTypeOK
    <3>3. ASSUME NEW e \in delivered, d.attempt < e.attempt PROVE d.attempt \in unheard
      <4>1. sent \in Nat /\ \A n \in unheard : n \in Nat /\ n <= sent
        BY IngestProxyAssumption DEF ProxyInv, ProxyTypeOK
      <4>2. a.id \in Nat /\ a.id <= sent /\ (a.id = sent \/ a.id \in unheard)
        BY <1>1, <4>1
      <4>3. e.attempt \in Nat /\ e.attempt <= sent
        BY <3>1, <4>1
      <4> QED BY <1>3, <3>3, <4>1, <4>2, <4>3
    <3> QED BY <1>3, <1>4, <3>2, <3>3 DEF ProxyInv, BatchesAccountedFor, StoredTwiceForCause, Delivery
  <2> QED BY <2>1, <2>2, <2>3 DEF BatchesAccountedFor
<1> QED BY <1>5, <1>6, <1>7, <1>8 DEF ProxyInv

\* The invariant is inductive.
LEMMA ProxyNext_Inv == ProxyInv /\ [ProxyNext]_proxyVars => ProxyInv'
<1> SUFFICES ASSUME ProxyInv, [ProxyNext]_proxyVars PROVE ProxyInv'
  OBVIOUS
<1>1. CASE Send
  BY <1>1, Send_Inv
<1>2. ASSUME NEW a \in attempts,
             StopWaiting(a) \/ Refuse(a) \/ KeyLookupFails(a) \/ Forward(a)
      PROVE  ProxyInv'
  BY <1>2, StopWaiting_Inv, Refuse_Inv, KeyLookupFails_Inv, Forward_Inv
<1>3. ASSUME NEW a \in attempts, NEW rejected \in 0..BatchSize, QuickwitStores(a, rejected)
      PROVE  ProxyInv'
  BY <1>3, QuickwitStores_Inv
<1>4. ASSUME NEW a \in attempts, NEW status \in {400, 404, 413, 429, 500, 502},
             QuickwitRefuses(a, status)
      PROVE  ProxyInv'
  BY <1>4, QuickwitRefuses_Inv
<1>5. ASSUME NEW a \in attempts,
             (\E body \in AnswerBodies : StoredAnswered(a, body)) \/ UpstreamLost(a)
      PROVE  ProxyInv'
  BY <1>5, StoredAnswered_Inv, UpstreamLost_Inv
<1>6. CASE UNCHANGED proxyVars
  <2>1. UNCHANGED <<batch, exporter, reported, attempts, sent, delivered, unheard, unread,
                    refused>>
    BY <1>6 DEF proxyVars
  <2> QED BY <2>1, RefusalStays
          DEF ProxyInv, ProxyTypeOK, AttemptsInv, DeliveredInv, BatchesAccountedFor, AckedIsStored,
              DroppedForCause, SignalsStayApart, StoredTwiceForCause
<1> QED BY <1>1, <1>2, <1>3, <1>4, <1>5, <1>6 DEF ProxyNext

\* For batches of any size and any number of attempts: a batch is acknowledged only
\* when every record is stored or reported, but for an empty body sent in chunks and
\* for an answer readPartialSuccess cannot read (AckedIsStored); it is dropped only for
\* what it is, never filed aside, and stored twice only if an answer was lost.
THEOREM BatchesAccounted == ProxySpec => []BatchesAccountedFor
<1>1. ProxyInv => BatchesAccountedFor
  BY DEF ProxyInv
<1> QED BY <1>1, ProxyInit_Inv, ProxyNext_Inv, PTL DEF ProxySpec

\* Every reachable state of the proxy and its exporter is well typed.
THEOREM ProxyTypeCorrect == ProxySpec => []ProxyTypeOK
<1>1. ProxyInv => ProxyTypeOK
  BY DEF ProxyInv
<1> QED BY <1>1, ProxyInit_Inv, ProxyNext_Inv, PTL DEF ProxySpec

-----------------------------------------------------------------------------
(* The rows of an index *)

OneRow(table) == \A q, r \in RowsOf(table) : q = r

TypeInv ==
    /\ liveIndex \in 0..generations
    /\ generations \in 0..MaxGenerations
    /\ tableRows \subseteq IndexRow
    /\ writes \subseteq Write
    /\ settingSaves \subseteq SettingsSave
    /\ deletions \subseteq Deletion
    /\ writeCount \in 0..MaxWrites
    /\ savedValues \in Values
    /\ spoiled \subseteq 1..generations

\* A row written for no index is an ingest key's.
Bare(x) == x.gen = 0 => x.table = "api_key"

\* Whoever is about to write for a life that is over has crossed its end.
WritesInv == \A w \in writes : Bare(w) /\ (w.gen # 0 => w.gen = liveIndex \/ w.crossed)

\* A save that no deletion crossed has read the defaults, or there is a row
\* that it will update.
SavesInv ==
    \A s \in settingSaves :
        /\ s.gen # NotRead => s.gen # 0 /\ (s.gen = liveIndex \/ s.crossed)
        /\ deletions # {} => s.crossed
        /\ \/ s.crossed
           \/ s.existing \in {NotRead, DEFAULT_SETTINGS}
           \/ RowsOf("index_settings") # {}

RowsInv ==
    \A r \in tableRows :
        /\ Bare(r)
        /\ r.gen # 0 => \/ r.gen = liveIndex
                        \/ r.crossed
                        \/ r.gen \in spoiled
                        \/ \E d \in deletions : d.gen = r.gen

\* A deletion is of a life that is over, and has every row of it that was
\* there, but for the tables it has yet to clear.
DeletionsInv ==
    \A d \in deletions :
        /\ d.gen \in 1..generations
        /\ d.gen # liveIndex
        /\ \A r \in tableRows : r.gen = d.gen =>
              \/ r.crossed
              \/ r \in d.cleared
              \/ \E i \in 1..7 : i > d.done /\ ClearedTables[i] = r.table

SettingsInv ==
    /\ OneRow("index_settings")
    /\ OneRow("user_preference")
    /\ RowsOf("index_settings") = {} => savedValues = DEFAULT_SETTINGS
    /\ SettingsLand

RowsOfIndexInv ==
    /\ TypeInv
    /\ WritesInv
    /\ SavesInv
    /\ RowsInv
    /\ DeletionsInv
    /\ SettingsInv

-----------------------------------------------------------------------------
(* Lemmas on the tables *)

LEMMA Defaults == DEFAULT_SETTINGS \in Values
BY DEF DEFAULT_SETTINGS, Values

\* Every table of the index is among those deleteIndex clears.
LEMMA AllCleared ==
    /\ Len(ClearedTables) = 7
    /\ \A t \in Tables : \E i \in 1..7 : ClearedTables[i] = t
<1>1. Len(ClearedTables) = 7
  BY DEF ClearedTables
<1>2. /\ ClearedTables[1] = "index_settings" /\ ClearedTables[2] = "index_stats_snapshot"
      /\ ClearedTables[3] = "user_preference" /\ ClearedTables[4] = "view"
      /\ ClearedTables[5] = "share" /\ ClearedTables[6] = "api_key"
      /\ ClearedTables[7] = "search_audit"
  BY DEF ClearedTables
<1> QED BY <1>1, <1>2 DEF Tables

LEMMA AtMostOne == ASSUME NEW t, OneRow(t) PROVE Cardinality(RowsOf(t)) <= 1
<1>1. CASE RowsOf(t) = {}
  BY <1>1, FS_EmptySet
<1>2. CASE RowsOf(t) # {}
  <2>1. PICK r : r \in RowsOf(t)
    BY <1>2
  <2>2. RowsOf(t) = {r}
    BY <2>1 DEF OneRow
  <2> QED BY <2>2, FS_Singleton
<1> QED BY <1>1, <1>2

-----------------------------------------------------------------------------
(* The invariant *)

LEMMA IndexRowsInit_Inv == IndexRowsInit => RowsOfIndexInv
BY IndexRowsAssumption, Defaults
   DEF IndexRowsInit, RowsOfIndexInv, TypeInv, WritesInv, SavesInv, RowsInv, DeletionsInv, SettingsInv,
       OneRow, RowsOf, SettingsLand

LEMMA CreateIndex_Inv == ASSUME RowsOfIndexInv, CreateIndex PROVE RowsOfIndexInv'
<1> USE DEF RowsOfIndexInv
<1>1. /\ generations \in Nat /\ generations' = generations + 1 /\ generations' <= MaxGenerations
      /\ liveIndex = 0 /\ liveIndex' = generations + 1
      /\ UNCHANGED <<tableRows, writes, settingSaves, deletions, writeCount, savedValues, spoiled>>
  BY IndexRowsAssumption DEF CreateIndex, TypeInv
<1>2. TypeInv'
  BY <1>1 DEF TypeInv
<1>3. WritesInv' /\ SavesInv' /\ RowsInv'
  BY <1>1 DEF WritesInv, SavesInv, RowsInv, Bare, RowsOf
<1>4. DeletionsInv'
  BY <1>1 DEF DeletionsInv
<1>5. SettingsInv'
  BY <1>1 DEF SettingsInv, OneRow, RowsOf, SettingsLand
<1> QED BY <1>2, <1>3, <1>4, <1>5

\* Dropping the index crosses every request under way.
LEMMA Drops ==
    ASSUME TypeInv, DropIndex
    PROVE  /\ writes' \subseteq Write /\ settingSaves' \subseteq SettingsSave
           /\ \A w \in writes' : w.crossed /\ \E v \in writes : w.gen = v.gen /\ w.table = v.table
           /\ \A s \in settingSaves' : s.crossed /\ \E q \in settingSaves : s.gen = q.gen
<1>1. \A w \in writes : LET v == [w EXCEPT !.crossed = TRUE]
                        IN  v \in Write /\ v.crossed /\ v.gen = w.gen /\ v.table = w.table
  BY DEF TypeInv, Write
<1>2. \A s \in settingSaves : LET q == [s EXCEPT !.crossed = TRUE]
                              IN  q \in SettingsSave /\ q.crossed /\ q.gen = s.gen
  BY DEF TypeInv, SettingsSave
<1>3. \A w \in writes' : \E v \in writes : w = [v EXCEPT !.crossed = TRUE]
  BY DEF DropIndex, Crossed
<1>4. \A s \in settingSaves' : \E q \in settingSaves : s = [q EXCEPT !.crossed = TRUE]
  BY DEF DropIndex, Crossed
<1>5. /\ writes' \subseteq Write
      /\ \A w \in writes' : w.crossed /\ \E v \in writes : w.gen = v.gen /\ w.table = v.table
  <2>1. ASSUME NEW w \in writes'
        PROVE  w \in Write /\ w.crossed /\ \E v \in writes : w.gen = v.gen /\ w.table = v.table
    <3>1. PICK v \in writes : w = [v EXCEPT !.crossed = TRUE]
      BY <1>3
    <3>2. w \in Write /\ w.crossed /\ w.gen = v.gen /\ w.table = v.table
      BY <1>1, <3>1
    <3> QED BY <3>2
  <2> QED BY <2>1
<1>6. /\ settingSaves' \subseteq SettingsSave
      /\ \A s \in settingSaves' : s.crossed /\ \E q \in settingSaves : s.gen = q.gen
  BY <1>2, <1>4
<1> QED BY <1>5, <1>6

LEMMA BeginDelete_Inv == ASSUME RowsOfIndexInv, BeginDelete PROVE RowsOfIndexInv'
<1> USE DEF RowsOfIndexInv
<1> DEFINE d == [gen |-> liveIndex, done |-> 0, cleared |-> {}]
<1>1. /\ d \in Deletion /\ d.gen = liveIndex /\ d.done = 0
      /\ liveIndex \in 1..generations /\ generations \in Nat
  BY IndexRowsAssumption DEF Deletion, TypeInv, BeginDelete, DropIndex
<1>2. deletions' = deletions \cup {d}
  BY DEF BeginDelete
<1> HIDE DEF d
<1>3. /\ liveIndex' = 0
      /\ UNCHANGED <<generations, tableRows, writeCount, savedValues, spoiled>>
  BY DEF BeginDelete, DropIndex
<1>4. TypeInv'
  BY <1>1, <1>2, <1>3, Drops DEF TypeInv, BeginDelete
<1>5. WritesInv' /\ SavesInv'
  BY Drops DEF WritesInv, SavesInv, Bare, BeginDelete
<1>6. RowsInv'
  BY <1>1, <1>2, <1>3 DEF RowsInv, Bare
<1>7. DeletionsInv'
  <2>1. \A r \in tableRows : \E i \in 1..7 : i > 0 /\ ClearedTables[i] = r.table
    BY AllCleared DEF TypeInv, IndexRow
  <2> QED BY <1>1, <1>2, <1>3, <2>1 DEF DeletionsInv
<1>8. SettingsInv'
  BY <1>3 DEF SettingsInv, OneRow, RowsOf, SettingsLand
<1> QED BY <1>4, <1>5, <1>6, <1>7, <1>8

LEMMA DeleteUnanswered_Inv == ASSUME RowsOfIndexInv, DeleteUnanswered PROVE RowsOfIndexInv'
<1> USE DEF RowsOfIndexInv
<1>1. /\ liveIndex \in 1..generations /\ generations \in Nat
      /\ liveIndex' = 0
      /\ spoiled' = spoiled \cup {liveIndex}
      /\ UNCHANGED <<generations, tableRows, deletions, writeCount, savedValues>>
  BY IndexRowsAssumption DEF DeleteUnanswered, DropIndex, TypeInv
<1>2. TypeInv'
  BY <1>1, Drops DEF TypeInv, DeleteUnanswered
<1>3. WritesInv' /\ SavesInv'
  BY Drops DEF WritesInv, SavesInv, Bare, DeleteUnanswered
<1>4. RowsInv' /\ DeletionsInv'
  BY <1>1 DEF RowsInv, DeletionsInv, Bare
<1>5. SettingsInv'
  BY <1>1 DEF SettingsInv, OneRow, RowsOf, SettingsLand
<1> QED BY <1>2, <1>3, <1>4, <1>5

LEMMA ClearTable_Inv ==
    ASSUME RowsOfIndexInv, NEW d \in deletions, ClearTable(d)
    PROVE  RowsOfIndexInv'
<1> USE DEF RowsOfIndexInv
<1> PICK n \in Nat : n = d.done + 1
  BY DEF TypeInv, Deletion
<1> PICK rows : rows = d.cleared \cup RowsOf(ClearedTables[n])
  OBVIOUS
<1> DEFINE e == [d EXCEPT !.done = n, !.cleared = rows]
<1>1. deletions' = (deletions \ {d}) \cup {e}
  BY DEF ClearTable
<1>2. d \in Deletion /\ rows \subseteq IndexRow
  BY DEF TypeInv, Deletion, RowsOf
<1>3. e \in Deletion /\ e.gen = d.gen /\ e.done = n /\ e.cleared = rows
  BY <1>2 DEF Deletion
<1> HIDE DEF e
<1>4. UNCHANGED <<liveIndex, generations, tableRows, writes, settingSaves, writeCount, savedValues, spoiled>>
  BY DEF ClearTable
<1>5. TypeInv' /\ WritesInv'
  BY <1>1, <1>3, <1>4 DEF TypeInv, WritesInv, Bare
<1>6. SavesInv'
  BY <1>4 DEF SavesInv, RowsOf
<1>7. RowsInv'
  BY <1>1, <1>3, <1>4 DEF RowsInv, Bare
<1>8. \A r \in tableRows : r.gen = d.gen =>
          r.crossed \/ r \in rows \/ \E i \in 1..7 : i > n /\ ClearedTables[i] = r.table
  <2> SUFFICES ASSUME NEW r \in tableRows, r.gen = d.gen, ~r.crossed, r \notin rows
               PROVE  \E i \in 1..7 : i > n /\ ClearedTables[i] = r.table
    OBVIOUS
  <2>1. PICK i \in 1..7 : i > d.done /\ ClearedTables[i] = r.table
    BY DEF DeletionsInv
  <2>2. i # n
    BY <2>1 DEF RowsOf
  <2>3. i > n
    BY <2>1, <2>2, <1>2 DEF Deletion
  <2> QED BY <2>1, <2>3
<1>9. DeletionsInv'
  BY <1>1, <1>3, <1>4, <1>8 DEF DeletionsInv
<1>10. SettingsInv'
  BY <1>4 DEF SettingsInv, OneRow, RowsOf, SettingsLand
<1> QED BY <1>5, <1>6, <1>7, <1>9, <1>10

LEMMA CommitDelete_Inv ==
    ASSUME RowsOfIndexInv, NEW d \in deletions, CommitDelete(d)
    PROVE  RowsOfIndexInv'
<1> USE DEF RowsOfIndexInv
<1> DEFINE Rest(c) == [c EXCEPT !.cleared = @ \ d.cleared]
<1>1. /\ tableRows' = tableRows \ d.cleared
      /\ UNCHANGED <<liveIndex, generations, writes, settingSaves, writeCount, spoiled>>
  BY DEF CommitDelete
<1>2. \A e \in deletions' : \E c \in deletions \ {d} :
          /\ e \in Deletion
          /\ e.gen = c.gen /\ e.done = c.done /\ e.cleared = c.cleared \ d.cleared
  <2>1. \A c \in deletions : /\ Rest(c) \in Deletion /\ Rest(c).gen = c.gen /\ Rest(c).done = c.done
                             /\ Rest(c).cleared = c.cleared \ d.cleared
    BY DEF TypeInv, Deletion
  <2>2. \A e \in deletions' : \E c \in deletions \ {d} : e = Rest(c)
    BY DEF CommitDelete
  <2> HIDE DEF Rest
  <2> QED BY <2>1, <2>2
<1>3. \A c \in deletions \ {d} : \E e \in deletions' : e.gen = c.gen
  <2>1. \A c \in deletions \ {d} : Rest(c) \in deletions'
    BY DEF CommitDelete
  <2>2. \A c \in deletions : Rest(c).gen = c.gen
    BY DEF TypeInv, Deletion
  <2> HIDE DEF Rest
  <2> QED BY <2>1, <2>2
<1>4. TypeInv'
  <2>1. savedValues' \in Values
    BY Defaults DEF CommitDelete, TypeInv
  <2> QED BY <1>1, <1>2, <2>1 DEF TypeInv
<1>5. WritesInv' /\ SavesInv'
  BY <1>1 DEF WritesInv, SavesInv, Bare
<1>6. \A r \in tableRows' : r.gen = d.gen => r.crossed
  BY <1>1, AllCleared DEF CommitDelete, DeletionsInv
<1>7. RowsInv'
  BY <1>1, <1>3, <1>6 DEF RowsInv, Bare
<1>8. DeletionsInv'
  BY <1>1, <1>2 DEF DeletionsInv
<1>9. SettingsInv'
  <2>1. CASE d.cleared \cap RowsOf("index_settings") # {}
    BY <1>1, <2>1 DEF CommitDelete, SettingsInv, OneRow, RowsOf, SettingsLand
  <2>2. CASE d.cleared \cap RowsOf("index_settings") = {}
    <3>1. savedValues' = savedValues /\ RowsOf("index_settings")' = RowsOf("index_settings")
      BY <1>1, <2>2 DEF CommitDelete, RowsOf
    <3> QED BY <1>1, <3>1 DEF SettingsInv, OneRow, RowsOf, SettingsLand
  <2> QED BY <2>1, <2>2
<1> QED BY <1>4, <1>5, <1>7, <1>8, <1>9

LEMMA AbortDelete_Inv ==
    ASSUME RowsOfIndexInv, NEW d \in deletions, AbortDelete(d)
    PROVE  RowsOfIndexInv'
<1> USE DEF RowsOfIndexInv
<1>1. /\ deletions' = deletions \ {d} /\ spoiled' = spoiled \cup {d.gen}
      /\ UNCHANGED <<liveIndex, generations, tableRows, writes, settingSaves, writeCount, savedValues>>
  BY DEF AbortDelete
<1>2. TypeInv'
  BY <1>1 DEF TypeInv, DeletionsInv
<1>3. WritesInv' /\ SavesInv'
  BY <1>1 DEF WritesInv, SavesInv, Bare, RowsOf
<1>4. RowsInv' /\ DeletionsInv'
  BY <1>1 DEF RowsInv, DeletionsInv, Bare
<1>5. SettingsInv'
  BY <1>1 DEF SettingsInv, OneRow, RowsOf, SettingsLand
<1> QED BY <1>2, <1>3, <1>4, <1>5

LEMMA BeginWrite_Inv ==
    ASSUME RowsOfIndexInv, NEW table \in RowTables, BeginWrite(table)
    PROVE  RowsOfIndexInv'
<1> USE DEF RowsOfIndexInv
<1> PICK b \in BOOLEAN : b <=> deletions # {}
  OBVIOUS
<1> DEFINE w == [id |-> writeCount + 1, table |-> table, gen |-> liveIndex, crossed |-> b]
<1>1. writes' = writes \cup {w}
  BY DEF BeginWrite
<1>2. w \in Write /\ w.gen = liveIndex /\ w.table = table /\ writeCount' \in 0..MaxWrites
  BY IndexRowsAssumption DEF BeginWrite, Write, TypeInv
<1> HIDE DEF w
<1>3. /\ UNCHANGED <<liveIndex, generations, tableRows, settingSaves, deletions, savedValues, spoiled>>
      /\ liveIndex = 0 => table = "api_key"
  BY DEF BeginWrite, AskingTables
<1>4. TypeInv'
  BY <1>1, <1>2, <1>3 DEF TypeInv
<1>5. WritesInv'
  BY <1>1, <1>2, <1>3 DEF WritesInv, Bare
<1> QED BY <1>3, <1>4, <1>5 DEF SavesInv, RowsInv, DeletionsInv, SettingsInv, OneRow, RowsOf, SettingsLand, Bare

LEMMA InsertRow_Inv ==
    ASSUME RowsOfIndexInv, NEW w \in writes, InsertRow(w)
    PROVE  RowsOfIndexInv'
<1> USE DEF RowsOfIndexInv
<1> DEFINE n == [id |-> w.id, table |-> w.table, gen |-> w.gen, crossed |-> w.crossed,
                 value |-> DEFAULT_SETTINGS]
<1>1. /\ tableRows' = (tableRows \ Replaced(w)) \cup {n}
      /\ writes' = writes \ {w}
      /\ UNCHANGED <<liveIndex, generations, settingSaves, deletions, writeCount, savedValues, spoiled>>
  BY DEF InsertRow
<1>2. w \in Write
  BY DEF TypeInv
<1>3. /\ n \in IndexRow
      /\ n.gen = w.gen /\ n.crossed = w.crossed /\ n.table = w.table
  BY <1>2, Defaults DEF Write, IndexRow, RowTables
<1>4. n.table # "index_settings"
  BY <1>2, <1>3 DEF Write, RowTables
<1> HIDE DEF n
<1>5. TypeInv'
  BY <1>1, <1>3 DEF TypeInv
<1>6. WritesInv'
  BY <1>1 DEF WritesInv, Bare
<1>7. RowsOf("index_settings")' = RowsOf("index_settings")
  BY <1>1, <1>3, <1>4 DEF RowsOf, Replaced
<1>8. SavesInv'
  BY <1>1, <1>7 DEF SavesInv
<1>9. Bare(n) /\ (n.gen # 0 => n.gen = liveIndex \/ n.crossed)
  BY <1>3 DEF WritesInv, Bare
<1>10. RowsInv'
  BY <1>1, <1>9 DEF RowsInv, Bare
<1>11. DeletionsInv'
  <2>1. \A d \in deletions : n.gen = d.gen => n.crossed
    BY <1>9 DEF DeletionsInv
  <2> QED BY <1>1, <2>1 DEF DeletionsInv
<1>12. OneRow("user_preference")'
  BY <1>1, <1>3 DEF SettingsInv, OneRow, RowsOf, Replaced
<1>13. SettingsInv'
  BY <1>1, <1>7, <1>12 DEF SettingsInv, OneRow, SettingsLand
<1> QED BY <1>5, <1>6, <1>8, <1>10, <1>11, <1>13

LEMMA BeginSave_Inv ==
    ASSUME RowsOfIndexInv, NEW field \in SettingFields, BeginSave(field)
    PROVE  RowsOfIndexInv'
<1> USE DEF RowsOfIndexInv
<1> PICK b \in BOOLEAN : b <=> deletions # {}
  OBVIOUS
<1> DEFINE s == [id |-> writeCount + 1, field |-> field, crossed |-> b, gen |-> NotRead,
                 existing |-> NotRead]
<1>1. settingSaves' = settingSaves \cup {s}
  BY DEF BeginSave
<1>2. /\ s \in SettingsSave /\ s.gen = NotRead /\ s.existing = NotRead /\ s.crossed = b
      /\ writeCount' \in 0..MaxWrites
  BY IndexRowsAssumption DEF BeginSave, SettingsSave, TypeInv
<1> HIDE DEF s
<1>3. UNCHANGED <<liveIndex, generations, tableRows, writes, deletions, savedValues, spoiled>>
  BY DEF BeginSave
<1>4. TypeInv'
  BY <1>1, <1>2, <1>3 DEF TypeInv
<1>5. SavesInv'
  BY <1>1, <1>2, <1>3 DEF SavesInv, RowsOf
<1> QED BY <1>3, <1>4, <1>5 DEF WritesInv, RowsInv, DeletionsInv, SettingsInv, OneRow, RowsOf, SettingsLand, Bare

\* A save that has read the index, or its settings.
LEMMA SaveReads_Inv ==
    ASSUME RowsOfIndexInv, NEW s \in settingSaves, SaveReadsIndex(s) \/ SaveReadsSettings(s)
    PROVE  RowsOfIndexInv'
<1> USE DEF RowsOfIndexInv
<1>1. UNCHANGED <<liveIndex, generations, tableRows, writes, deletions, writeCount, savedValues, spoiled>>
  BY DEF SaveReadsIndex, SaveReadsSettings
<1>2. s \in SettingsSave
  BY DEF TypeInv
<1>3. settingSaves' \subseteq SettingsSave /\ SavesInv'
  <2>1. CASE SaveReadsIndex(s)
    <3> DEFINE q == [s EXCEPT !.gen = liveIndex]
    <3>1. q \in SettingsSave /\ q.gen = liveIndex /\ q.crossed = s.crossed /\ q.existing = s.existing
      BY <1>2, IndexRowsAssumption DEF SettingsSave, TypeInv
    <3>2. settingSaves' \subseteq settingSaves \cup (IF liveIndex = 0 THEN {} ELSE {q})
      BY <2>1 DEF SaveReadsIndex
    <3> HIDE DEF q
    <3> QED BY <1>1, <3>1, <3>2 DEF SavesInv, RowsOf, TypeInv
  <2>2. CASE SaveReadsSettings(s)
    <3> DEFINE found == {r.value : r \in RowsOf("index_settings")}
    <3>1. PICK v \in IF found = {} THEN {DEFAULT_SETTINGS} ELSE found :
              settingSaves' = (settingSaves \ {s}) \cup {[s EXCEPT !.existing = v]}
      BY <2>2 DEF SaveReadsSettings
    <3> DEFINE q == [s EXCEPT !.existing = v]
    <3>2. v \in Values /\ (RowsOf("index_settings") = {} => v = DEFAULT_SETTINGS)
      BY <3>1, Defaults DEF RowsOf, TypeInv, IndexRow
    <3>3. q \in SettingsSave /\ q.gen = s.gen /\ q.crossed = s.crossed /\ q.existing = v
      BY <1>2, <3>2 DEF SettingsSave
    <3>4. settingSaves' \subseteq settingSaves \cup {q}
      BY <3>1
    <3> HIDE DEF q
    <3> QED BY <1>1, <3>2, <3>3, <3>4 DEF SavesInv, RowsOf, TypeInv
  <2> QED BY <2>1, <2>2
<1> QED BY <1>1, <1>3 DEF TypeInv, WritesInv, RowsInv, DeletionsInv, SettingsInv, OneRow, RowsOf, SettingsLand, Bare

\* The row a save leaves: a new one, or the old one with its field set.
LEMMA SavedRow ==
    ASSUME RowsOfIndexInv, NEW s \in settingSaves, SaveIndexConfig(s)
    PROVE  /\ savedValues' \in Values
           /\ \E n \in IndexRow :
                 /\ tableRows' = (tableRows \ RowsOf("index_settings")) \cup {n}
                 /\ n.table = "index_settings"
                 /\ IF RowsOf("index_settings") = {}
                      THEN /\ n.gen = s.gen
                           /\ n.crossed = s.crossed
                           /\ n.value = [s.existing EXCEPT ![s.field] = s.id]
                      ELSE \E r \in RowsOf("index_settings") :
                              /\ n.gen = r.gen
                              /\ r.crossed \/ s.crossed => n.crossed
                              /\ n.value = [r.value EXCEPT ![s.field] = s.id]
<1>1. s \in SettingsSave /\ s.gen \in Nat /\ s.existing \in Values
  <2>1. s \in SettingsSave /\ s.gen # NotRead /\ s.existing # NotRead
    BY DEF RowsOfIndexInv, TypeInv, SaveIndexConfig
  <2> QED BY <2>1 DEF SettingsSave
<1>2. \A v \in Values : [v EXCEPT ![s.field] = s.id] \in Values
  BY <1>1 DEF Values, SettingsSave
<1>3. savedValues' \in Values
  BY <1>2 DEF SaveIndexConfig, RowsOfIndexInv, TypeInv
<1>4. CASE RowsOf("index_settings") = {}
  <2> DEFINE v == [s.existing EXCEPT ![s.field] = s.id]
             n == [id |-> s.id, table |-> "index_settings", gen |-> s.gen, crossed |-> s.crossed,
                   value |-> v]
  <2>1. tableRows' = (tableRows \ RowsOf("index_settings")) \cup {n}
    BY <1>4 DEF SaveIndexConfig
  <2>2. v \in Values
    BY <1>1, <1>2
  <2> HIDE DEF v
  <2>3. /\ n \in IndexRow /\ n.table = "index_settings" /\ n.gen = s.gen
        /\ n.crossed = s.crossed /\ n.value = v
    BY <1>1, <2>2 DEF SettingsSave, IndexRow, Tables
  <2> HIDE DEF n
  <2> QED BY <1>3, <1>4, <2>1, <2>3 DEF v
<1>5. CASE RowsOf("index_settings") # {}
  <2>1. PICK r : r \in RowsOf("index_settings")
    BY <1>5
  <2>2. RowsOf("index_settings") = {r}
    BY <2>1 DEF RowsOfIndexInv, SettingsInv, OneRow
  <2>3. r \in IndexRow /\ r.table = "index_settings"
    BY <2>1 DEF RowsOf, RowsOfIndexInv, TypeInv
  <2> PICK b \in BOOLEAN : b <=> r.crossed \/ s.crossed
    OBVIOUS
  <2> DEFINE v == [r.value EXCEPT ![s.field] = s.id]
             n == [r EXCEPT !.value = v, !.crossed = b]
  <2>4. n = Upserted(r, s)
    BY <2>3 DEF Upserted, IndexRow
  <2>5. v \in Values
    BY <1>2, <2>3 DEF IndexRow
  <2> HIDE DEF v
  <2>6. /\ n \in IndexRow /\ n.table = "index_settings" /\ n.gen = r.gen
        /\ n.crossed = b /\ n.value = v
    BY <2>3, <2>5 DEF IndexRow
  <2> HIDE DEF n
  <2>7. tableRows' = (tableRows \ RowsOf("index_settings")) \cup {n}
    BY <1>5, <2>2, <2>4 DEF SaveIndexConfig
  <2> QED BY <1>3, <1>5, <2>1, <2>6, <2>7 DEF v
<1> QED BY <1>4, <1>5

LEMMA SaveIndexConfig_Inv ==
    ASSUME RowsOfIndexInv, NEW s \in settingSaves, SaveIndexConfig(s)
    PROVE  RowsOfIndexInv'
<1> USE DEF RowsOfIndexInv
<1>1. PICK n \in IndexRow :
         /\ tableRows' = (tableRows \ RowsOf("index_settings")) \cup {n}
         /\ n.table = "index_settings"
         /\ IF RowsOf("index_settings") = {}
              THEN /\ n.gen = s.gen
                   /\ n.crossed = s.crossed
                   /\ n.value = [s.existing EXCEPT ![s.field] = s.id]
              ELSE \E r \in RowsOf("index_settings") :
                      /\ n.gen = r.gen
                      /\ r.crossed \/ s.crossed => n.crossed
                      /\ n.value = [r.value EXCEPT ![s.field] = s.id]
  BY SavedRow
<1>2. /\ settingSaves' = settingSaves \ {s}
      /\ savedValues' = [savedValues EXCEPT ![s.field] = s.id]
      /\ UNCHANGED <<liveIndex, generations, writes, deletions, writeCount, spoiled>>
      /\ s.gen # NotRead /\ s.existing # NotRead
      /\ ~Waits("index_settings")
  BY DEF SaveIndexConfig
<1>3. RowsOf("index_settings")' = {n}
  BY <1>1 DEF RowsOf
<1>4. TypeInv'
  BY <1>1, <1>2, SavedRow DEF TypeInv
<1>5. WritesInv' /\ SavesInv'
  BY <1>2, <1>3 DEF WritesInv, SavesInv, Bare
<1>6. Bare(n) /\ (n.gen # 0 => \/ n.gen = liveIndex
                               \/ n.crossed
                               \/ n.gen \in spoiled
                               \/ \E d \in deletions : d.gen = n.gen)
  <2>1. CASE RowsOf("index_settings") = {}
    BY <1>1, <1>2, <2>1 DEF SavesInv, Bare
  <2>2. CASE RowsOf("index_settings") # {}
    BY <1>1, <2>2 DEF RowsInv, RowsOf, Bare
  <2> QED BY <2>1, <2>2
<1>7. RowsInv'
  BY <1>1, <1>2, <1>6 DEF RowsInv, Bare
<1>8. \A d \in deletions : n.gen = d.gen =>
          n.crossed \/ \E i \in 1..7 : i > d.done /\ ClearedTables[i] = n.table
  <2>1. CASE RowsOf("index_settings") = {}
    BY <1>1, <1>2, <2>1 DEF SavesInv
  <2>2. CASE RowsOf("index_settings") # {}
    <3>1. PICK r \in RowsOf("index_settings") : n.gen = r.gen /\ (r.crossed => n.crossed)
      BY <1>1, <2>2
    <3>2. \A d \in deletions : r \notin d.cleared
      BY <1>2, <3>1 DEF Waits
    <3>3. r \in tableRows /\ r.table = n.table
      BY <1>1, <3>1 DEF RowsOf
    <3> QED BY <3>1, <3>2, <3>3 DEF DeletionsInv
  <2> QED BY <2>1, <2>2
<1>9. DeletionsInv'
  BY <1>1, <1>2, <1>8 DEF DeletionsInv
<1>10. n.crossed \/ n.value = savedValues'
  <2>1. CASE RowsOf("index_settings") = {}
    BY <1>1, <1>2, <2>1 DEF SavesInv, SettingsInv
  <2>2. CASE RowsOf("index_settings") # {}
    BY <1>1, <1>2, <2>2 DEF SettingsInv, SettingsLand
  <2> QED BY <2>1, <2>2
<1>11. RowsOf("user_preference")' = RowsOf("user_preference")
  BY <1>1 DEF RowsOf
<1>12. SettingsInv'
  BY <1>3, <1>10, <1>11 DEF SettingsInv, OneRow, SettingsLand
<1> QED BY <1>4, <1>5, <1>7, <1>9, <1>12

LEMMA IndexRowsNext_Inv == RowsOfIndexInv /\ [IndexRowsNext]_indexRowsVars => RowsOfIndexInv'
<1> SUFFICES ASSUME RowsOfIndexInv, [IndexRowsNext]_indexRowsVars PROVE RowsOfIndexInv'
  OBVIOUS
<1>1. CASE CreateIndex \/ BeginDelete \/ DeleteUnanswered
  BY <1>1, CreateIndex_Inv, BeginDelete_Inv, DeleteUnanswered_Inv
<1>2. ASSUME NEW d \in deletions, ClearTable(d) \/ CommitDelete(d) \/ AbortDelete(d)
      PROVE  RowsOfIndexInv'
  BY <1>2, ClearTable_Inv, CommitDelete_Inv, AbortDelete_Inv
<1>3. ASSUME NEW t \in RowTables, BeginWrite(t) PROVE RowsOfIndexInv'
  BY <1>3, BeginWrite_Inv
<1>4. ASSUME NEW w \in writes, InsertRow(w) PROVE RowsOfIndexInv'
  BY <1>4, InsertRow_Inv
<1>5. ASSUME NEW f \in SettingFields, BeginSave(f) PROVE RowsOfIndexInv'
  BY <1>5, BeginSave_Inv
<1>6. ASSUME NEW s \in settingSaves, SaveReadsIndex(s) \/ SaveReadsSettings(s) \/ SaveIndexConfig(s)
      PROVE  RowsOfIndexInv'
  BY <1>6, SaveReads_Inv, SaveIndexConfig_Inv
<1>7. CASE UNCHANGED indexRowsVars
  BY <1>7 DEF indexRowsVars, RowsOfIndexInv, TypeInv, WritesInv, SavesInv, RowsInv, DeletionsInv,
              SettingsInv, OneRow, RowsOf, SettingsLand, Bare
<1> QED BY <1>1, <1>2, <1>3, <1>4, <1>5, <1>6, <1>7 DEF IndexRowsNext

\* RowsOfIndexInv is an invariant of the specification.
THEOREM IndexRowsInvariant == IndexRowsSpec => []RowsOfIndexInv
<1> QED BY IndexRowsInit_Inv, IndexRowsNext_Inv, PTL DEF IndexRowsSpec

-----------------------------------------------------------------------------
(* What follows from it *)

\* Every reachable state is well typed, with one row of settings and of
\* preferences at most.
THEOREM IndexRowsTypeCorrect == IndexRowsSpec => []IndexRowsTypeOK
<1>1. RowsOfIndexInv => IndexRowsTypeOK
  BY AtMostOne DEF RowsOfIndexInv, TypeInv, SettingsInv, IndexRowsTypeOK
<1> QED BY <1>1, IndexRowsInvariant, PTL

\* An index inherits no row of one deleted before it, but for the rows of
\* writers that crossed the deletion, of deletions that failed half-way, and
\* ingest keys created while there was no index.
THEOREM NothingIsInherited == IndexRowsSpec => []NothingInherited
<1>1. RowsOfIndexInv => NothingInherited
  BY DEF RowsOfIndexInv, RowsInv, NothingInherited, Bare
<1> QED BY <1>1, IndexRowsInvariant, PTL

\* Saves of different settings do not undo each other.
THEOREM SettingsAreKept == IndexRowsSpec => []SettingsLand
<1>1. RowsOfIndexInv => SettingsLand
  BY DEF RowsOfIndexInv, SettingsInv
<1> QED BY <1>1, IndexRowsInvariant, PTL

-----------------------------------------------------------------------------
(* The config and the source of an index *)

NoTwice(sq) == \A a, b \in DOMAIN sq : sq[a] = sq[b] => a = b

\* What the forms and Quickwit agree on: without a dynamic mode there is no mapping,
\* and the limit of partitions is changed with a partition key only.
Plain(c) ==
    /\ c.mode = "lenient" => c.dynamic = Unset
    /\ c.partition # "tenant" => c.maxPartitions # 50

\* The form as it opens, and with a part changed: Quickwit's mode and its mapping
\* agree in it.
GoodForm(form) ==
    /\ form \in Form /\ IsFiniteSet(form.newFields)
    /\ form.mode = "lenient" => form.dynamic = Unset

\* Every config, stored or read, has a field once; what an update has read has none
\* of the fields it adds.
FieldsInv ==
    /\ NoTwice(qwConfig.fields) /\ Plain(qwConfig)
    /\ \A u \in updates :
          /\ GoodForm(u.form)
          /\ u.read # NotFetched =>
                /\ NoTwice(u.read.fields) /\ Plain(u.read)
                /\ u.form.newFields \cap ToSet(u.read.fields) = {}
    /\ ~configRaced => accepted \subseteq ToSet(qwConfig.fields)

\* No source, stored or read, has the mask for a secret; until requests overlap,
\* the one update under way has read what is stored.
SourcesInv ==
    /\ source # NoSource => source.secret # Mask
    /\ source = NoSource <=> wanted = NoSource
    /\ \A u \in sourceUpdates : u.read \in Source /\ u.read.secret # Mask
    /\ ~sourceRaced => source = wanted /\ \A u \in sourceUpdates : u.read = source

ConfigInv == ConfigTypeOK /\ FieldsInv /\ SourcesInv

-----------------------------------------------------------------------------

\* A finite set as a sequence: each member once.
LEMMA SetAsSeq ==
    ASSUME NEW S, IsFiniteSet(S)
    PROVE  SetToSeq(S) \in Seq(S) /\ ToSet(SetToSeq(S)) = S /\ NoTwice(SetToSeq(S))
<1>1. PICK n \in Nat : ExistsBijection(1..n, S)
  BY FS_NatBijection
<1>2. Cardinality(S) = n
  BY <1>1, FS_CountingElements
<1>3. PICK f \in Bijection(1..n, S) : TRUE
  BY <1>1 DEF ExistsBijection
<1>4. f \in [1..n -> S] /\ IsInjective(f)
  BY <1>3 DEF Bijection, Injection
<1>5. SetToSeq(S) \in [1..n -> S] /\ IsInjective(SetToSeq(S))
  <2>1. \E g \in [1..Cardinality(S) -> S] : IsInjective(g)
    BY <1>2, <1>4
  <2>2. SetToSeq(S) \in [1..Cardinality(S) -> S] /\ IsInjective(SetToSeq(S))
    BY <2>1 DEF SetToSeq
  <2> QED BY <1>2, <2>2
<1>6. SetToSeq(S) \in Injection(1..n, S)
  BY <1>5 DEF Injection
<1>7. IsFiniteSet(1..n) /\ Cardinality(1..n) = n
  BY FS_Interval
<1>8. SetToSeq(S) \in Surjection(1..n, S)
  BY <1>2, <1>6, <1>7, FS_Injection
<1>9. ToSet(SetToSeq(S)) = S
  BY <1>5, <1>8 DEF Surjection, ToSet
<1>10. SetToSeq(S) \in Seq(S)
  BY <1>1, <1>5, SeqDef
<1> QED BY <1>5, <1>9, <1>10 DEF NoTwice, IsInjective

\* Two sequences one after the other.
LEMMA AppendFields ==
    ASSUME NEW S, NEW sq \in Seq(S), NEW tq \in Seq(S)
    PROVE  /\ sq \o tq \in Seq(S)
           /\ ToSet(sq \o tq) = ToSet(sq) \cup ToSet(tq)
           /\ NoTwice(sq) /\ NoTwice(tq) /\ ToSet(sq) \cap ToSet(tq) = {} => NoTwice(sq \o tq)
<1>1. sq \o tq \in Seq(S) /\ Len(sq \o tq) = Len(sq) + Len(tq)
  OBVIOUS
<1>2. /\ Len(sq) \in Nat /\ Len(tq) \in Nat
      /\ DOMAIN sq = 1..Len(sq) /\ DOMAIN tq = 1..Len(tq)
      /\ DOMAIN (sq \o tq) = 1..(Len(sq) + Len(tq))
  BY <1>1
<1>3. \A i \in DOMAIN (sq \o tq) : (sq \o tq)[i] = IF i <= Len(sq) THEN sq[i] ELSE tq[i - Len(sq)]
  BY <1>2
<1>4. \A i \in DOMAIN (sq \o tq) : IF i <= Len(sq) THEN i \in DOMAIN sq ELSE i - Len(sq) \in DOMAIN tq
  BY <1>2
<1>5. \A i \in DOMAIN sq : i \in DOMAIN (sq \o tq) /\ (sq \o tq)[i] = sq[i]
  BY <1>2, <1>3
<1>6. \A i \in DOMAIN tq : Len(sq) + i \in DOMAIN (sq \o tq) /\ (sq \o tq)[Len(sq) + i] = tq[i]
  BY <1>2, <1>3
<1>7. ToSet(sq \o tq) = ToSet(sq) \cup ToSet(tq)
  <2>1. \A x \in ToSet(sq \o tq) : x \in ToSet(sq) \cup ToSet(tq)
    BY <1>3, <1>4 DEF ToSet
  <2>2. \A x \in ToSet(sq) : x \in ToSet(sq \o tq)
    BY <1>5 DEF ToSet
  <2>3. \A x \in ToSet(tq) : x \in ToSet(sq \o tq)
    BY <1>6 DEF ToSet
  <2> QED BY <2>1, <2>2, <2>3
<1>8. ASSUME NoTwice(sq), NoTwice(tq), ToSet(sq) \cap ToSet(tq) = {}
      PROVE  NoTwice(sq \o tq)
  <2> SUFFICES ASSUME NEW a \in DOMAIN (sq \o tq), NEW b \in DOMAIN (sq \o tq),
                      (sq \o tq)[a] = (sq \o tq)[b]
               PROVE  a = b
    BY DEF NoTwice
  <2>1. \A i \in DOMAIN sq, j \in DOMAIN tq : sq[i] # tq[j]
    BY <1>8 DEF ToSet
  <2>2. a \in Nat /\ b \in Nat
    BY <1>2
  <2>3. CASE a <= Len(sq) /\ b <= Len(sq)
    BY <1>3, <1>4, <1>8, <2>3 DEF NoTwice
  <2>4. CASE ~(a <= Len(sq)) /\ ~(b <= Len(sq))
    <3>1. a - Len(sq) = b - Len(sq)
      BY <1>3, <1>4, <1>8, <2>4 DEF NoTwice
    <3> QED BY <1>2, <2>2, <3>1
  <2>5. CASE (a <= Len(sq)) # (b <= Len(sq))
    BY <1>3, <1>4, <2>1, <2>5
  <2> QED BY <2>3, <2>4, <2>5
<1> QED BY <1>1, <1>7, <1>8

\* Fields of which none is twice are as many as there are names.
LEMMA FieldsCount ==
    ASSUME NEW S, NEW sq \in Seq(S), NoTwice(sq) PROVE Cardinality(ToSet(sq)) = Len(sq)
<1>1. Len(sq) \in Nat /\ DOMAIN sq = 1..Len(sq)
  OBVIOUS
<1>2. [k \in 1..Len(sq) |-> sq[k]] \in Bijection(1..Len(sq), ToSet(sq))
  BY <1>1 DEF Bijection, Injection, Surjection, IsInjective, ToSet, NoTwice
<1>3. ExistsBijection(1..Len(sq), ToSet(sq))
  BY <1>2 DEF ExistsBijection
<1> QED BY <1>1, <1>3, FS_CountingElements

-----------------------------------------------------------------------------

\* A config by its parts.
ConfigOf(fields, mode, dynamic, partition, limit, retention) ==
    [fields |-> fields, mode |-> mode, dynamic |-> dynamic, partition |-> partition,
     maxPartitions |-> limit, retention |-> retention]

LEMMA ConfigParts ==
    ASSUME NEW c \in Config
    PROVE  /\ c.fields \in Seq(FieldNames) /\ c.mode \in Modes \cup {Unset}
           /\ c.dynamic \in DynamicMappings \cup {Unset}
           /\ c.partition \in {Unset, "", "tenant"} /\ c.maxPartitions \in {Unset, 50, 200}
           /\ c.retention \in Retentions \cup {Unset}
           /\ c = ConfigOf(c.fields, c.mode, c.dynamic, c.partition, c.maxPartitions, c.retention)
BY DEF Config, ConfigOf

LEMMA FormParts ==
    ASSUME NEW form \in Form
    PROVE  /\ form.newFields \in SUBSET NewFields /\ form.mode \in Modes
           /\ form.dynamic \in {"default", "custom", Unset}
           /\ form.partition \in {Unset, "tenant"} /\ form.maxPartitions \in {Unset, 50, 200}
           /\ form.retention \in Retentions \cup {Unset}
BY DEF Form

\* Parts of a config replaced, one after the other.
LEMMA ConfigExcept ==
    ASSUME NEW c \in Config, NEW fields, NEW mode, NEW dynamic, NEW partition, NEW limit, NEW doc,
           doc = [c EXCEPT !.fields = fields, !.mode = mode, !.dynamic = dynamic,
                           !.partition = partition, !.maxPartitions = limit]
    PROVE  doc = ConfigOf(fields, mode, dynamic, partition, limit, c.retention)
<1>1. PICK x1 : x1 = [c EXCEPT !.fields = fields]
  OBVIOUS
<1>2. PICK x2 : x2 = [x1 EXCEPT !.mode = mode]
  OBVIOUS
<1>3. PICK x3 : x3 = [x2 EXCEPT !.dynamic = dynamic]
  OBVIOUS
<1>4. PICK x4 : x4 = [x3 EXCEPT !.partition = partition]
  OBVIOUS
<1>5. PICK x5 : x5 = [x4 EXCEPT !.maxPartitions = limit]
  OBVIOUS
<1>6. doc = x5
  BY <1>1, <1>2, <1>3, <1>4, <1>5
<1>7. c = ConfigOf(c.fields, c.mode, c.dynamic, c.partition, c.maxPartitions, c.retention)
  BY ConfigParts
<1>8. x1 = ConfigOf(fields, c.mode, c.dynamic, c.partition, c.maxPartitions, c.retention)
  BY <1>1, <1>7 DEF ConfigOf
<1>9. x2 = ConfigOf(fields, mode, c.dynamic, c.partition, c.maxPartitions, c.retention)
  BY <1>2, <1>8 DEF ConfigOf
<1>10. x3 = ConfigOf(fields, mode, dynamic, c.partition, c.maxPartitions, c.retention)
  BY <1>3, <1>9 DEF ConfigOf
<1>11. x4 = ConfigOf(fields, mode, dynamic, partition, c.maxPartitions, c.retention)
  BY <1>4, <1>10 DEF ConfigOf
<1>12. x5 = ConfigOf(fields, mode, dynamic, partition, limit, c.retention)
  BY <1>5, <1>11 DEF ConfigOf
<1> QED BY <1>6, <1>12

\* The mapping and the limit an update writes.
DynamicOf(c, form) ==
    IF ~DynamicChanged(c, form) /\ form.mode = "dynamic" THEN c.dynamic
    ELSE IF form.dynamic \in {Unset, "default"} THEN Unset ELSE form.dynamic
LimitOf(form) == IF form.partition = Unset THEN Unset ELSE form.maxPartitions

\* What an update writes, part by part.
LEMMA UpdateIs ==
    ASSUME NEW c \in Config, NEW form \in Form, IsFiniteSet(form.newFields)
    PROVE  /\ DocChanged(c, form) =>
                /\ UpdateRequest(c, form).fields = c.fields \o SetToSeq(form.newFields)
                /\ UpdateRequest(c, form).mode = form.mode
                /\ UpdateRequest(c, form).dynamic = DynamicOf(c, form)
                /\ UpdateRequest(c, form).partition = form.partition
                /\ UpdateRequest(c, form).maxPartitions = LimitOf(form)
           /\ ~DocChanged(c, form) =>
                UpdateRequest(c, form) =
                  ConfigOf(c.fields, c.mode, c.dynamic, c.partition, c.maxPartitions,
                           form.retention)
           /\ UpdateRequest(c, form) \in Config
<1>1. PICK added : added = c.fields \o SetToSeq(form.newFields)
  OBVIOUS
<1>2. added \in Seq(FieldNames)
  <2>1. SetToSeq(form.newFields) \in Seq(form.newFields)
    BY SetAsSeq
  <2>2. form.newFields \subseteq FieldNames
    BY FormParts DEF FieldNames
  <2>3. SetToSeq(form.newFields) \in Seq(FieldNames)
    BY <2>1, <2>2
  <2>4. c.fields \in Seq(FieldNames)
    BY ConfigParts
  <2>5. c.fields \o SetToSeq(form.newFields) \in Seq(FieldNames)
    BY <2>3, <2>4
  <2> QED BY <1>1, <2>5
<1>3. PICK dynamic : dynamic = DynamicOf(c, form)
  OBVIOUS
<1>4. dynamic \in DynamicMappings \cup {Unset}
  <2>1. c.dynamic \in DynamicMappings \cup {Unset}
    BY ConfigParts
  <2>2. form.dynamic \notin {Unset, "default"} => form.dynamic \in DynamicMappings
    BY FormParts DEF DynamicMappings
  <2> QED BY <1>3, <2>1, <2>2 DEF DynamicOf
<1>5. PICK limit : limit = LimitOf(form)
  OBVIOUS
<1>6. limit \in {Unset, 50, 200}
  BY <1>5, FormParts DEF LimitOf
<1>7. form.mode \in Modes \cup {Unset} /\ form.retention \in Retentions \cup {Unset}
      /\ form.partition \in {Unset, "", "tenant"}
  BY FormParts
<1>8. PICK doc : doc = [c EXCEPT !.fields = added, !.mode = form.mode, !.dynamic = dynamic,
                                 !.partition = form.partition, !.maxPartitions = limit]
  OBVIOUS
<1>9. PICK base : base = IF DocChanged(c, form) THEN doc ELSE c
  OBVIOUS
<1>10. UpdateRequest(c, form) = [base EXCEPT !.retention = form.retention]
  BY <1>1, <1>3, <1>5, <1>8, <1>9 DEF UpdateRequest, DynamicOf, LimitOf
<1>11. CASE DocChanged(c, form)
  <2>1. base = ConfigOf(added, form.mode, dynamic, form.partition, limit, c.retention)
    <3>1. base = doc
      BY <1>9, <1>11
    <3>2. doc = ConfigOf(added, form.mode, dynamic, form.partition, limit, c.retention)
      BY <1>8, ConfigExcept, Zenon
    <3> QED BY <3>1, <3>2
  <2>2. [base EXCEPT !.retention = form.retention] =
          ConfigOf(added, form.mode, dynamic, form.partition, limit, form.retention)
    BY <2>1 DEF ConfigOf
  <2>3. UpdateRequest(c, form) =
          ConfigOf(added, form.mode, dynamic, form.partition, limit, form.retention)
    BY <1>10, <2>2
  <2>4. UpdateRequest(c, form) \in Config
    <3>1. PICK mode \in Modes \cup {Unset}, partition \in {Unset, "", "tenant"},
               retention \in Retentions \cup {Unset} :
            mode = form.mode /\ partition = form.partition /\ retention = form.retention
      BY <1>7
    <3>2. ConfigOf(added, mode, dynamic, partition, limit, retention) \in Config
      BY <1>2, <1>4, <1>6 DEF Config, ConfigOf
    <3> QED BY <2>3, <3>1, <3>2
  <2>5. /\ UpdateRequest(c, form).fields = added
        /\ UpdateRequest(c, form).mode = form.mode
        /\ UpdateRequest(c, form).dynamic = dynamic
        /\ UpdateRequest(c, form).partition = form.partition
        /\ UpdateRequest(c, form).maxPartitions = limit
    BY <2>3 DEF ConfigOf
  <2> QED BY <1>1, <1>3, <1>5, <1>11, <2>4, <2>5
<1>12. CASE ~DocChanged(c, form)
  <2>1. base = ConfigOf(c.fields, c.mode, c.dynamic, c.partition, c.maxPartitions, c.retention)
    BY <1>9, <1>12, ConfigParts
  <2>2. [base EXCEPT !.retention = form.retention] =
          ConfigOf(c.fields, c.mode, c.dynamic, c.partition, c.maxPartitions, form.retention)
    BY <2>1 DEF ConfigOf
  <2>3. UpdateRequest(c, form) =
          ConfigOf(c.fields, c.mode, c.dynamic, c.partition, c.maxPartitions, form.retention)
    BY <1>10, <2>2
  <2>4. UpdateRequest(c, form) \in Config
    <3>1. PICK retention \in Retentions \cup {Unset} : retention = form.retention
      BY <1>7
    <3>2. ConfigOf(c.fields, c.mode, c.dynamic, c.partition, c.maxPartitions, retention) \in Config
      BY ConfigParts DEF Config, ConfigOf
    <3> QED BY <2>3, <3>1, <3>2
  <2> QED BY <1>12, <2>3, <2>4
<1> QED BY <1>11, <1>12

LEMMA FormOfIs ==
    ASSUME NEW c \in Config
    PROVE  /\ GoodForm(FormOf(c)) /\ FormOf(c).newFields = {}
           /\ FormOf(c).mode = OrElse(c.mode, "dynamic")
           /\ FormOf(c).dynamic = IF FormOf(c).mode = "dynamic" THEN Comparable(c.dynamic) ELSE Unset
           /\ FormOf(c).partition = ShownPartition(c)
           /\ FormOf(c).maxPartitions = IF c.partition = "tenant" THEN c.maxPartitions ELSE Unset
           /\ FormOf(c).retention = c.retention
<1> DEFINE mode == OrElse(c.mode, "dynamic")
           dynamic == IF mode = "dynamic" THEN Comparable(c.dynamic) ELSE Unset
           partition == ShownPartition(c)
           limit == IF c.partition = "tenant" THEN c.maxPartitions ELSE Unset
<1>1. FormOf(c) = [newFields |-> {}, mode |-> mode, dynamic |-> dynamic, partition |-> partition,
                   maxPartitions |-> limit, retention |-> c.retention]
  BY DEF FormOf, Comparable
<1>2. mode \in Modes
  BY ConfigParts DEF OrElse, Modes
<1>3. dynamic \in {"default", "custom", Unset}
  BY ConfigParts DEF Comparable, DynamicMappings
<1>4. partition \in {Unset, "tenant"}
  BY ConfigParts DEF ShownPartition
<1>5. limit \in {Unset, 50, 200}
  BY ConfigParts
<1>6. mode = "lenient" => dynamic = Unset
  OBVIOUS
<1>7. PICK retention \in Retentions \cup {Unset} : retention = c.retention
  <2>1. c.retention \in Retentions \cup {Unset}
    BY ConfigParts
  <2> QED BY <2>1
<1>8. PICK d : d = dynamic
  OBVIOUS
<1>9. PICK m : m = mode
  OBVIOUS
<1>10. PICK p : p = partition
  OBVIOUS
<1>11. PICK l : l = limit
  OBVIOUS
<1>12. FormOf(c) = [newFields |-> {}, mode |-> m, dynamic |-> d, partition |-> p,
                    maxPartitions |-> l, retention |-> retention]
  BY <1>1, <1>7, <1>8, <1>9, <1>10, <1>11
<1>13. m \in Modes /\ d \in {"default", "custom", Unset} /\ p \in {Unset, "tenant"}
       /\ l \in {Unset, 50, 200} /\ (m = "lenient" => d = Unset)
  BY <1>2, <1>3, <1>4, <1>5, <1>6, <1>8, <1>9, <1>10, <1>11
<1>14. FormOf(c) \in Form
  BY <1>12, <1>13 DEF Form
<1>15. GoodForm(FormOf(c))
  BY <1>12, <1>13, <1>14, FS_EmptySet DEF GoodForm
<1>16. FormOf(c).newFields = {} /\ FormOf(c).mode = mode /\ FormOf(c).dynamic = dynamic
       /\ FormOf(c).partition = partition /\ FormOf(c).maxPartitions = limit
       /\ FormOf(c).retention = c.retention
  BY <1>7, <1>8, <1>9, <1>10, <1>11, <1>12
<1> QED BY <1>15, <1>16

LEMMA EditedIs ==
    ASSUME NEW form, GoodForm(form), NEW g \in Edited(form)
    PROVE  GoodForm(g)
<1>1. form \in Form /\ IsFiniteSet(form.newFields) /\ (form.mode = "lenient" => form.dynamic = Unset)
  BY DEF GoodForm
<1>2. ASSUME NEW f \in NewFields, g = [form EXCEPT !.newFields = {f}]
      PROVE  GoodForm(g)
  <2>1. g \in Form /\ g.newFields = {f} /\ g.mode = form.mode /\ g.dynamic = form.dynamic
    BY <1>1, <1>2 DEF Form
  <2> QED BY <1>1, <2>1, FS_Singleton DEF GoodForm
<1>3. ASSUME NEW r \in Retentions \cup {Unset}, g = [form EXCEPT !.retention = r]
      PROVE  GoodForm(g)
  <2>1. g \in Form /\ g.newFields = form.newFields /\ g.mode = form.mode /\ g.dynamic = form.dynamic
    BY <1>1, <1>3 DEF Form
  <2> QED BY <1>1, <2>1 DEF GoodForm
<1>4. CASE g = [form EXCEPT !.mode = "lenient", !.dynamic = Unset]
  <2>1. g \in Form /\ g.newFields = form.newFields /\ g.dynamic = Unset
    BY <1>1, <1>4 DEF Form, Modes
  <2> QED BY <1>1, <2>1 DEF GoodForm
<1>5. CASE g = [form EXCEPT !.mode = "dynamic", !.dynamic = "custom"]
  <2>1. g \in Form /\ g.newFields = form.newFields /\ g.mode = "dynamic"
    BY <1>1, <1>5 DEF Form, Modes
  <2> QED BY <1>1, <2>1 DEF GoodForm
<1>6. CASE g = [form EXCEPT !.partition = Unset, !.maxPartitions = Unset]
  <2>1. g \in Form /\ g.newFields = form.newFields /\ g.mode = form.mode /\ g.dynamic = form.dynamic
    BY <1>1, <1>6 DEF Form
  <2> QED BY <1>1, <2>1 DEF GoodForm
<1>7. CASE g = [form EXCEPT !.partition = "tenant", !.maxPartitions = 50]
  <2>1. g \in Form /\ g.newFields = form.newFields /\ g.mode = form.mode /\ g.dynamic = form.dynamic
    BY <1>1, <1>7 DEF Form
  <2> QED BY <1>1, <2>1 DEF GoodForm
<1> QED BY <1>2, <1>3, <1>4, <1>5, <1>6, <1>7 DEF Edited

\* An update adds its fields and nothing twice, and what it writes is plain again.
LEMMA UpdateKeeps ==
    ASSUME NEW c \in Config, NoTwice(c.fields), Plain(c), NEW form, GoodForm(form),
           form.newFields \cap ToSet(c.fields) = {}
    PROVE  /\ UpdateRequest(c, form) \in Config
           /\ NoTwice(UpdateRequest(c, form).fields) /\ Plain(UpdateRequest(c, form))
           /\ ToSet(UpdateRequest(c, form).fields) = ToSet(c.fields) \cup form.newFields
<1>1. form \in Form /\ IsFiniteSet(form.newFields) /\ (form.mode = "lenient" => form.dynamic = Unset)
  BY DEF GoodForm
<1>2. UpdateRequest(c, form) \in Config
  BY <1>1, UpdateIs
<1>3. CASE DocChanged(c, form)
  <2>1. /\ UpdateRequest(c, form).fields = c.fields \o SetToSeq(form.newFields)
        /\ UpdateRequest(c, form).mode = form.mode
        /\ UpdateRequest(c, form).dynamic = DynamicOf(c, form)
        /\ UpdateRequest(c, form).partition = form.partition
        /\ UpdateRequest(c, form).maxPartitions = LimitOf(form)
    BY <1>1, <1>3, UpdateIs
  <2>2. form.mode = "lenient" => DynamicOf(c, form) = Unset
    BY <1>1 DEF DynamicOf
  <2>3. form.partition # "tenant" => LimitOf(form) # 50
    <3>1. form.partition \in {Unset, "tenant"}
      BY <1>1, FormParts
    <3> QED BY <3>1, IndexConfigAssumption DEF LimitOf
  <2>4. c.fields \in Seq(FieldNames)
    BY ConfigParts
  <2>5. SetToSeq(form.newFields) \in Seq(form.newFields) /\ NoTwice(SetToSeq(form.newFields))
        /\ ToSet(SetToSeq(form.newFields)) = form.newFields
    BY <1>1, SetAsSeq
  <2>6. form.newFields \subseteq FieldNames
    BY <1>1, FormParts DEF FieldNames
  <2>7. PICK added : added = SetToSeq(form.newFields)
    OBVIOUS
  <2>8. added \in Seq(FieldNames)
    BY <2>5, <2>6, <2>7
  <2>9. ToSet(c.fields) \cap ToSet(added) = {} /\ NoTwice(added) /\ ToSet(added) = form.newFields
    BY <2>5, <2>7
  <2>10. ToSet(c.fields \o added) = ToSet(c.fields) \cup ToSet(added) /\ NoTwice(c.fields \o added)
    BY <2>4, <2>8, <2>9, AppendFields
  <2>11. Plain(UpdateRequest(c, form))
    BY <2>1, <2>2, <2>3 DEF Plain
  <2>12. UpdateRequest(c, form).fields = c.fields \o added
    BY <2>1, <2>7
  <2> QED BY <1>2, <2>9, <2>10, <2>11, <2>12
<1>4. CASE ~DocChanged(c, form)
  <2>1. UpdateRequest(c, form) =
          ConfigOf(c.fields, c.mode, c.dynamic, c.partition, c.maxPartitions, form.retention)
    BY <1>1, <1>4, UpdateIs
  <2>2. /\ UpdateRequest(c, form).fields = c.fields
        /\ UpdateRequest(c, form).mode = c.mode /\ UpdateRequest(c, form).dynamic = c.dynamic
        /\ UpdateRequest(c, form).partition = c.partition
        /\ UpdateRequest(c, form).maxPartitions = c.maxPartitions
    BY <2>1 DEF ConfigOf
  <2>3. form.newFields = {}
    BY <1>4 DEF DocChanged
  <2>4. Plain(UpdateRequest(c, form))
    BY <2>2 DEF Plain
  <2> QED BY <1>2, <2>2, <2>3, <2>4
<1> QED BY <1>3, <1>4

\* What the form shows is what it would write: nothing in it counts as changed.
LEMMA FormShows ==
    ASSUME NEW c \in Config, Plain(c)
    PROVE  /\ ~DynamicChanged(c, FormOf(c))
           /\ OrElse(FormOf(c).partition, "") = OrElse(c.partition, "")
           /\ OrElse(FormOf(c).maxPartitions, 200) = OrElse(c.maxPartitions, 200)
           /\ OrElse(LimitOf(FormOf(c)), 200) = OrElse(c.maxPartitions, 200)
           /\ FormOf(c).mode = OrElse(c.mode, "dynamic")
<1>1. c.mode \in {"dynamic", "lenient", Unset} /\ c.dynamic \in {"default", "foreign", "custom", Unset}
      /\ c.partition \in {Unset, "", "tenant"} /\ c.maxPartitions \in {Unset, 50, 200}
  BY ConfigParts DEF Modes, DynamicMappings
<1>2. /\ FormOf(c).mode = OrElse(c.mode, "dynamic")
      /\ FormOf(c).dynamic = IF FormOf(c).mode = "dynamic" THEN Comparable(c.dynamic) ELSE Unset
      /\ FormOf(c).partition = ShownPartition(c)
      /\ FormOf(c).maxPartitions = IF c.partition = "tenant" THEN c.maxPartitions ELSE Unset
  BY FormOfIs
<1>3. Unset \notin {"dynamic", "lenient", "default", "foreign", "custom", "", "tenant"}
      /\ Unset \notin {50, 200}
  BY IndexConfigAssumption
<1>4. ~DynamicChanged(c, FormOf(c))
  <2>1. CASE FormOf(c).mode = "dynamic"
    <3>1. FormOf(c).dynamic = Comparable(c.dynamic)
      BY <1>2, <2>1
    <3>2. Comparable(c.dynamic) # Unset
      BY <1>1, <1>3 DEF Comparable
    <3> QED BY <3>1, <3>2 DEF DynamicChanged, OrElse
  <2>2. CASE FormOf(c).mode # "dynamic"
    <3>1. c.mode = "lenient"
      BY <1>1, <1>2, <2>2 DEF OrElse
    <3>2. c.dynamic = Unset
      BY <3>1 DEF Plain
    <3>3. FormOf(c).dynamic = Unset
      BY <1>2, <2>2
    <3> QED BY <3>2, <3>3 DEF DynamicChanged, Comparable, OrElse
  <2> QED BY <2>1, <2>2
<1>5. OrElse(FormOf(c).partition, "") = OrElse(c.partition, "")
  <2>1. CASE c.partition = ""
    <3>1. FormOf(c).partition = Unset
      BY <1>2, <2>1 DEF ShownPartition
    <3> QED BY <2>1, <3>1 DEF OrElse
  <2>2. CASE c.partition # ""
    BY <1>2, <2>2 DEF ShownPartition
  <2> QED BY <2>1, <2>2
<1>6. OrElse(FormOf(c).maxPartitions, 200) = OrElse(c.maxPartitions, 200)
  <2>1. CASE c.partition = "tenant"
    BY <1>2, <2>1
  <2>2. CASE c.partition # "tenant"
    <3>1. FormOf(c).maxPartitions = Unset /\ c.maxPartitions \in {Unset, 200}
      BY <1>1, <1>2, <2>2 DEF Plain
    <3> QED BY <3>1 DEF OrElse
  <2> QED BY <2>1, <2>2
<1>7. OrElse(LimitOf(FormOf(c)), 200) = OrElse(c.maxPartitions, 200)
  <2>1. CASE c.partition = "tenant"
    <3>1. LimitOf(FormOf(c)) = c.maxPartitions
      BY <1>2, <1>3, <2>1 DEF LimitOf, ShownPartition
    <3> QED BY <3>1
  <2>2. CASE c.partition # "tenant"
    <3>1. LimitOf(FormOf(c)) = Unset
      BY <1>1, <1>2, <2>2 DEF LimitOf, ShownPartition
    <3>2. c.maxPartitions \in {Unset, 200}
      BY <1>1, <2>2 DEF Plain
    <3> QED BY <3>1, <3>2 DEF OrElse
  <2> QED BY <2>1, <2>2
<1> QED BY <1>2, <1>4, <1>5, <1>6, <1>7

\* So the untouched form writes nothing, and a field added to it nothing else.
LEMMA FormKeeps ==
    ASSUME NEW c \in Config, Plain(c)
    PROVE  /\ UpdateRequest(c, FormOf(c)) = c
           /\ \A f \in NewFields :
                LET r == UpdateRequest(c, [FormOf(c) EXCEPT !.newFields = {f}])
                IN  /\ OrElse(r.dynamic, "default") = OrElse(c.dynamic, "default")
                    /\ OrElse(r.partition, "") = OrElse(c.partition, "")
                    /\ OrElse(r.maxPartitions, 200) = OrElse(c.maxPartitions, 200)
<1>1. PICK form : form = FormOf(c)
  OBVIOUS
<1>2. form \in Form /\ IsFiniteSet(form.newFields) /\ form.newFields = {}
      /\ (form.mode = "lenient" => form.dynamic = Unset) /\ form.retention = c.retention
  BY <1>1, FormOfIs DEF GoodForm
<1>3. /\ ~DynamicChanged(c, form)
      /\ OrElse(form.partition, "") = OrElse(c.partition, "")
      /\ OrElse(form.maxPartitions, 200) = OrElse(c.maxPartitions, 200)
      /\ OrElse(LimitOf(form), 200) = OrElse(c.maxPartitions, 200)
      /\ form.mode = OrElse(c.mode, "dynamic")
  BY <1>1, FormShows
<1>4. UpdateRequest(c, form) = c
  <2>1. ~DocChanged(c, form)
    BY <1>2, <1>3 DEF DocChanged, PartitioningChanged
  <2>2. UpdateRequest(c, form) =
          ConfigOf(c.fields, c.mode, c.dynamic, c.partition, c.maxPartitions, form.retention)
    BY <1>2, <2>1, UpdateIs
  <2>3. UpdateRequest(c, form) =
          ConfigOf(c.fields, c.mode, c.dynamic, c.partition, c.maxPartitions, c.retention)
    BY <1>2, <2>2
  <2> QED BY <2>3, ConfigParts
<1>5. ASSUME NEW f \in NewFields, NEW g, g = [form EXCEPT !.newFields = {f}],
             NEW r, r = UpdateRequest(c, g)
      PROVE  /\ OrElse(r.dynamic, "default") = OrElse(c.dynamic, "default")
             /\ OrElse(r.partition, "") = OrElse(c.partition, "")
             /\ OrElse(r.maxPartitions, 200) = OrElse(c.maxPartitions, 200)
  <2>1. g \in Form /\ g.newFields = {f} /\ g.mode = form.mode /\ g.dynamic = form.dynamic
        /\ g.partition = form.partition /\ g.maxPartitions = form.maxPartitions
    BY <1>2, <1>5 DEF Form
  <2>2. DocChanged(c, g)
    BY <2>1 DEF DocChanged
  <2>3. r.dynamic = DynamicOf(c, g) /\ r.partition = g.partition /\ r.maxPartitions = LimitOf(g)
    <3>1. IsFiniteSet(g.newFields)
      BY <2>1, FS_Singleton
    <3> QED BY <1>5, <2>1, <2>2, <3>1, UpdateIs
  <2>4. LimitOf(g) = LimitOf(form) /\ ~DynamicChanged(c, g)
    BY <1>3, <2>1 DEF LimitOf, DynamicChanged
  <2>5. DynamicOf(c, g) = c.dynamic
    <3>1. CASE g.mode = "dynamic"
      BY <2>4, <3>1 DEF DynamicOf
    <3>2. CASE g.mode # "dynamic"
      <4>1. form.mode = "lenient"
        BY <1>2, <2>1, <3>2, FormParts DEF Modes
      <4>2. g.dynamic = Unset
        BY <1>2, <2>1, <4>1
      <4>3. c.mode = "lenient"
        <5>1. c.mode \in {"dynamic", "lenient", Unset}
          BY ConfigParts DEF Modes
        <5> QED BY <1>3, <4>1, <5>1 DEF OrElse
      <4> QED BY <3>2, <4>2, <4>3 DEF Plain, DynamicOf
    <3> QED BY <3>1, <3>2
  <2> QED BY <1>3, <2>1, <2>3, <2>4, <2>5
<1> QED BY <1>1, <1>4, <1>5

-----------------------------------------------------------------------------

\* Parts of their types make a configuration.
LEMMA ConfigOfParts ==
    ASSUME NEW c, c.fields \in Seq(FieldNames), c.mode \in Modes \cup {Unset},
           c.dynamic \in DynamicMappings \cup {Unset}, c.partition \in {Unset, "", "tenant"},
           c.maxPartitions \in {Unset, 50, 200}, c.retention \in Retentions \cup {Unset},
           c = ConfigOf(c.fields, c.mode, c.dynamic, c.partition, c.maxPartitions, c.retention)
    PROVE  c \in Config
<1>1. [fields |-> c.fields, mode |-> c.mode, dynamic |-> c.dynamic, partition |-> c.partition,
       maxPartitions |-> c.maxPartitions, retention |-> c.retention] \in Config
  BY DEF Config
<1> QED BY <1>1 DEF ConfigOf

LEMMA ConfigInit_Inv == ConfigInit => ConfigInv
<1> SUFFICES ASSUME ConfigInit PROVE ConfigInv
  OBVIOUS
<1>1. /\ qwConfig.fields \in {<<"timestamp">>} /\ qwConfig.mode \in Modes \cup {Unset}
      /\ qwConfig.dynamic \in DynamicMappings \cup {Unset}
      /\ qwConfig.partition \in {Unset, "", "tenant"} /\ qwConfig.maxPartitions \in {Unset, 50, 200}
      /\ qwConfig.retention \in Retentions \cup {Unset}
      /\ qwConfig = ConfigOf(qwConfig.fields, qwConfig.mode, qwConfig.dynamic, qwConfig.partition,
                             qwConfig.maxPartitions, qwConfig.retention)
      /\ qwConfig.mode = "lenient" => qwConfig.dynamic = Unset
      /\ qwConfig.partition # "tenant" => qwConfig.maxPartitions # 50
  BY DEF ConfigInit, ConfigOf
<1>2. PICK one : one = <<"timestamp">>
  OBVIOUS
<1>3. one \in Seq(FieldNames) /\ NoTwice(one)
  <2>1. "timestamp" \in FieldNames
    BY DEF FieldNames
  <2>2. <<"timestamp">> \in Seq(FieldNames) /\ DOMAIN <<"timestamp">> = {1}
    BY <2>1
  <2>3. one \in Seq(FieldNames) /\ DOMAIN one = {1}
    BY <1>2, <2>2
  <2> QED BY <2>3 DEF NoTwice
<1>4. qwConfig \in Config
  <2>1. qwConfig.fields \in Seq(FieldNames)
    <3>1. qwConfig.fields \in {<<"timestamp">>}
      BY <1>1
    <3>2. qwConfig.fields = one
      BY <1>2, <3>1, Zenon
    <3> QED BY <1>3, <3>2
  <2>2. /\ qwConfig.mode \in Modes \cup {Unset} /\ qwConfig.dynamic \in DynamicMappings \cup {Unset}
        /\ qwConfig.partition \in {Unset, "", "tenant"} /\ qwConfig.maxPartitions \in {Unset, 50, 200}
        /\ qwConfig.retention \in Retentions \cup {Unset}
    BY <1>1
  <2> QED BY <1>1, <2>1, <2>2, ConfigOfParts
<1>5. NoTwice(qwConfig.fields) /\ Plain(qwConfig)
  <2>1. NoTwice(qwConfig.fields)
    BY <1>1, <1>2, <1>3
  <2> QED BY <1>1, <2>1 DEF Plain
<1>6. updates = {} /\ sourceUpdates = {} /\ source = NoSource /\ wanted = NoSource /\ configActs = 0
      /\ accepted = {} /\ configRaced = FALSE /\ sourceRaced = FALSE
  BY DEF ConfigInit
<1>7. ConfigTypeOK
  BY <1>4, <1>6 DEF ConfigTypeOK
<1>8. FieldsInv
  BY <1>5, <1>6 DEF FieldsInv
<1>9. SourcesInv
  BY <1>6 DEF SourcesInv
<1> QED BY <1>7, <1>8, <1>9 DEF ConfigInv

\* What QuickwitConfigNext leaves alone of the source keeps its invariant, and the
\* other way round.
LEMMA SourceStays ==
    ASSUME ConfigInv, UNCHANGED <<source, sourceUpdates, wanted, sourceRaced>>
    PROVE  SourcesInv'
<1>1. SourcesInv
  BY DEF ConfigInv
<1>2. source' = source /\ sourceUpdates' = sourceUpdates /\ wanted' = wanted
      /\ sourceRaced' = sourceRaced
  OBVIOUS
<1> QED BY <1>1, <1>2 DEF SourcesInv

LEMMA ConfigStays ==
    ASSUME ConfigInv, UNCHANGED <<qwConfig, updates, accepted, configRaced>>
    PROVE  FieldsInv'
<1>1. FieldsInv
  BY DEF ConfigInv
<1>2. qwConfig' = qwConfig /\ updates' = updates /\ accepted' = accepted
      /\ configRaced' = configRaced
  OBVIOUS
<1> QED BY <1>1, <1>2 DEF FieldsInv

\* The parts of the type invariant.
LEMMA TypeParts ==
    ASSUME ConfigTypeOK
    PROVE  /\ qwConfig \in Config /\ updates \subseteq ConfigUpdate
           /\ source \in Source \cup {NoSource} /\ sourceUpdates \subseteq SourceUpdate
           /\ configActs \in Nat /\ accepted \subseteq NewFields
           /\ wanted \in Source \cup {NoSource}
           /\ configRaced \in BOOLEAN /\ sourceRaced \in BOOLEAN
BY DEF ConfigTypeOK

LEMMA OpenForm_Inv ==
    ASSUME ConfigInv, OpenForm
    PROVE  ConfigInv'
<1>1. ConfigTypeOK /\ FieldsInv
  BY DEF ConfigInv
<1>2. PICK form \in Edited(FormOf(qwConfig)) :
        updates' = updates \cup {[form |-> form, known |-> NotFetched, read |-> NotFetched]}
  BY DEF OpenForm
<1>3. /\ qwConfig' = qwConfig /\ source' = source /\ sourceUpdates' = sourceUpdates
      /\ accepted' = accepted /\ wanted' = wanted /\ configRaced' = configRaced
      /\ sourceRaced' = sourceRaced /\ configActs' = configActs + 1
  BY DEF OpenForm, ConfigAct
<1>4. GoodForm(form)
  <2>1. GoodForm(FormOf(qwConfig))
    BY <1>1, TypeParts, FormOfIs
  <2> QED BY <2>1, EditedIs
<1>5. PICK u : u = [form |-> form, known |-> NotFetched, read |-> NotFetched]
  OBVIOUS
<1>6. u \in ConfigUpdate /\ u.form = form /\ u.read = NotFetched
  <2>1. form \in Form
    BY <1>4 DEF GoodForm
  <2> QED BY <1>5, <2>1 DEF ConfigUpdate
<1>7. updates' = updates \cup {u}
  BY <1>2, <1>5
<1>8. ConfigTypeOK'
  BY <1>1, <1>3, <1>6, <1>7 DEF ConfigTypeOK
<1>9. FieldsInv'
  <2>1. \A v \in updates' : v \in updates \/ v = u
    BY <1>7
  <2> QED BY <1>1, <1>3, <1>4, <1>6, <2>1 DEF FieldsInv
<1>10. SourcesInv'
  BY <1>3, SourceStays
<1> QED BY <1>8, <1>9, <1>10 DEF ConfigInv

LEMMA FetchMeta_Inv ==
    ASSUME ConfigInv, NEW u \in updates, FetchMeta(u)
    PROVE  ConfigInv'
<1>1. ConfigTypeOK /\ FieldsInv
  BY DEF ConfigInv
<1>2. PICK v : v = [u EXCEPT !.known = ToSet(qwConfig.fields)]
  OBVIOUS
<1>3. /\ updates' = (updates \ {u}) \cup {v}
      /\ qwConfig' = qwConfig /\ source' = source /\ sourceUpdates' = sourceUpdates
      /\ accepted' = accepted /\ wanted' = wanted /\ configRaced' = configRaced
      /\ sourceRaced' = sourceRaced /\ configActs' = configActs
  BY <1>2 DEF FetchMeta
<1>4. u \in ConfigUpdate
  BY <1>1, TypeParts
<1>5. ToSet(qwConfig.fields) \subseteq FieldNames
  <2>1. qwConfig.fields \in Seq(FieldNames)
    BY <1>1, TypeParts, ConfigParts
  <2> QED BY <2>1 DEF ToSet
<1>6. v \in ConfigUpdate /\ v.form = u.form /\ v.read = u.read
  BY <1>2, <1>4, <1>5 DEF ConfigUpdate
<1>7. ConfigTypeOK'
  BY <1>1, <1>3, <1>6 DEF ConfigTypeOK
<1>8. FieldsInv'
  <2>1. \A w \in updates' : w \in updates \/ w = v
    BY <1>3
  <2> QED BY <1>1, <1>3, <1>6, <2>1 DEF FieldsInv
<1>9. SourcesInv'
  BY <1>3, SourceStays
<1> QED BY <1>7, <1>8, <1>9 DEF ConfigInv

LEMMA FetchConfig_Inv ==
    ASSUME ConfigInv, NEW u \in updates, FetchConfig(u)
    PROVE  ConfigInv'
<1>1. ConfigTypeOK /\ FieldsInv
  BY DEF ConfigInv
<1>2. PICK v : v = [u EXCEPT !.read = qwConfig]
  OBVIOUS
<1>3. /\ updates' = (updates \ {u}) \cup (IF Collisions(u, qwConfig) = {} THEN {v} ELSE {})
      /\ qwConfig' = qwConfig /\ source' = source /\ sourceUpdates' = sourceUpdates
      /\ accepted' = accepted /\ wanted' = wanted /\ configRaced' = configRaced
      /\ sourceRaced' = sourceRaced /\ configActs' = configActs
  BY <1>2 DEF FetchConfig
<1>4. u \in ConfigUpdate /\ qwConfig \in Config
  BY <1>1, TypeParts
<1>5. v \in ConfigUpdate /\ v.form = u.form /\ v.read = qwConfig
  BY <1>2, <1>4 DEF ConfigUpdate
<1>6. \A w \in updates' : w \in updates \/ (w = v /\ Collisions(u, qwConfig) = {})
  BY <1>3
<1>7. Collisions(u, qwConfig) = {} => v.form.newFields \cap ToSet(v.read.fields) = {}
  BY <1>5 DEF Collisions
<1>8. ConfigTypeOK'
  BY <1>1, <1>3, <1>5, <1>6 DEF ConfigTypeOK
<1>9. FieldsInv'
  BY <1>1, <1>3, <1>5, <1>6, <1>7 DEF FieldsInv
<1>10. SourcesInv'
  BY <1>3, SourceStays
<1> QED BY <1>8, <1>9, <1>10 DEF ConfigInv

LEMMA UpdateIndexConfig_Inv ==
    ASSUME ConfigInv, NEW u \in updates, UpdateIndexConfig(u)
    PROVE  ConfigInv'
<1>1. ConfigTypeOK /\ FieldsInv
  BY DEF ConfigInv
<1>2. /\ u.read # NotFetched
      /\ updates' = updates \ {u} /\ accepted' = accepted \cup u.form.newFields
      /\ source' = source /\ sourceUpdates' = sourceUpdates
      /\ wanted' = wanted /\ sourceRaced' = sourceRaced /\ configActs' = configActs
  BY DEF UpdateIndexConfig
<1>3. PICK r : r = UpdateRequest(u.read, u.form)
  OBVIOUS
<1>4. qwConfig' = r
  BY <1>3 DEF UpdateIndexConfig
<1>5. PICK raced \in BOOLEAN : raced = (configRaced \/ u.read # qwConfig)
  OBVIOUS
<1>6. configRaced' = raced
  BY <1>5 DEF UpdateIndexConfig
<1>7. /\ u \in ConfigUpdate /\ GoodForm(u.form) /\ u.form \in Form
      /\ NoTwice(u.read.fields) /\ Plain(u.read) /\ u.form.newFields \cap ToSet(u.read.fields) = {}
  BY <1>1, <1>2, TypeParts DEF FieldsInv, GoodForm
<1>8. u.read \in Config
  BY <1>2, <1>7 DEF ConfigUpdate
<1>9. r \in Config /\ NoTwice(r.fields) /\ Plain(r)
      /\ ToSet(r.fields) = ToSet(u.read.fields) \cup u.form.newFields
  BY <1>3, <1>7, <1>8, UpdateKeeps
<1>10. u.form.newFields \subseteq NewFields
  BY <1>7, FormParts
<1>11. ConfigTypeOK'
  BY <1>1, <1>2, <1>4, <1>6, <1>9, <1>10 DEF ConfigTypeOK
<1>12. ~raced => accepted \cup u.form.newFields \subseteq ToSet(r.fields)
  <2>1. ~raced => accepted \subseteq ToSet(qwConfig.fields) /\ u.read = qwConfig
    BY <1>1, <1>5 DEF FieldsInv
  <2> QED BY <1>9, <2>1
<1>13. FieldsInv'
  BY <1>1, <1>2, <1>4, <1>6, <1>9, <1>12 DEF FieldsInv
<1>14. SourcesInv'
  BY <1>2, SourceStays
<1> QED BY <1>11, <1>13, <1>14 DEF ConfigInv

LEMMA UpdateFails_Inv ==
    ASSUME ConfigInv, NEW u \in updates, UpdateFails(u)
    PROVE  ConfigInv'
<1>1. ConfigTypeOK /\ FieldsInv
  BY DEF ConfigInv
<1>2. /\ updates' = updates \ {u}
      /\ qwConfig' = qwConfig /\ source' = source /\ sourceUpdates' = sourceUpdates
      /\ accepted' = accepted /\ wanted' = wanted /\ configRaced' = configRaced
      /\ sourceRaced' = sourceRaced /\ configActs' = configActs
  BY DEF UpdateFails
<1>3. ConfigTypeOK'
  BY <1>1, <1>2 DEF ConfigTypeOK
<1>4. FieldsInv'
  BY <1>1, <1>2 DEF FieldsInv
<1>5. SourcesInv'
  BY <1>2, SourceStays
<1> QED BY <1>3, <1>4, <1>5 DEF ConfigInv

-----------------------------------------------------------------------------

LEMMA CreateSource_Inv ==
    ASSUME ConfigInv, CreateSource
    PROVE  ConfigInv'
<1>1. ConfigTypeOK /\ SourcesInv
  BY DEF ConfigInv
<1>2. PICK secret \in Secrets \cup {Unset} : source' = [enabled |-> TRUE, secret |-> secret]
  BY DEF CreateSource
<1>3. /\ wanted' = source' /\ configActs' = configActs + 1
      /\ qwConfig' = qwConfig /\ updates' = updates /\ sourceUpdates' = sourceUpdates
      /\ accepted' = accepted /\ configRaced' = configRaced
  BY DEF CreateSource, ConfigAct
<1>4. PICK raced \in BOOLEAN : raced = (sourceUpdates # {})
  OBVIOUS
<1>5. sourceRaced' = raced
  BY <1>4 DEF CreateSource
<1>6. source' \in Source /\ source'.secret # Mask
  BY <1>2, IndexConfigAssumption DEF Source
<1>7. source' # NoSource
  BY <1>6, IndexConfigAssumption DEF Source
<1>8. ConfigTypeOK'
  BY <1>1, <1>3, <1>5, <1>6 DEF ConfigTypeOK
<1>9. SourcesInv'
  <2>1. ~raced => sourceUpdates = {}
    BY <1>4
  <2> QED BY <1>1, <1>3, <1>5, <1>6, <1>7, <2>1 DEF SourcesInv
<1>10. FieldsInv'
  BY <1>3, ConfigStays
<1> QED BY <1>8, <1>9, <1>10 DEF ConfigInv

LEMMA SetSourceEnabled_Inv ==
    ASSUME ConfigInv, NEW b \in BOOLEAN, SetSourceEnabled(b)
    PROVE  ConfigInv'
<1>1. ConfigTypeOK /\ SourcesInv
  BY DEF ConfigInv
<1>2. /\ source # NoSource
      /\ source' = [source EXCEPT !.enabled = b] /\ wanted' = [wanted EXCEPT !.enabled = b]
      /\ configActs' = configActs + 1
      /\ qwConfig' = qwConfig /\ updates' = updates /\ sourceUpdates' = sourceUpdates
      /\ accepted' = accepted /\ configRaced' = configRaced
  BY DEF SetSourceEnabled, ConfigAct
<1>3. PICK raced \in BOOLEAN : raced = (sourceRaced \/ sourceUpdates # {})
  OBVIOUS
<1>4. sourceRaced' = raced
  BY <1>3 DEF SetSourceEnabled, OthersRaced
<1>5. wanted # NoSource /\ source.secret # Mask
  BY <1>1, <1>2 DEF SourcesInv
<1>6. source \in Source /\ wanted \in Source
  BY <1>1, <1>2, <1>5, TypeParts
<1>7. source' \in Source /\ wanted' \in Source /\ source'.secret = source.secret
  BY <1>2, <1>6 DEF Source
<1>8. source' # NoSource /\ wanted' # NoSource
  BY <1>7, IndexConfigAssumption DEF Source
<1>9. ConfigTypeOK'
  BY <1>1, <1>2, <1>4, <1>7 DEF ConfigTypeOK
<1>10. ~raced => source' = wanted' /\ sourceUpdates = {}
  BY <1>1, <1>2, <1>3 DEF SourcesInv
<1>11. SourcesInv'
  BY <1>1, <1>2, <1>4, <1>5, <1>7, <1>8, <1>10 DEF SourcesInv
<1>12. FieldsInv'
  BY <1>2, ConfigStays
<1> QED BY <1>9, <1>11, <1>12 DEF ConfigInv

LEMMA DeleteSource_Inv ==
    ASSUME ConfigInv, DeleteSource
    PROVE  ConfigInv'
<1>1. ConfigTypeOK /\ SourcesInv
  BY DEF ConfigInv
<1>2. /\ source' = NoSource /\ wanted' = NoSource /\ configActs' = configActs + 1
      /\ qwConfig' = qwConfig /\ updates' = updates /\ sourceUpdates' = sourceUpdates
      /\ accepted' = accepted /\ configRaced' = configRaced
  BY DEF DeleteSource, ConfigAct
<1>3. PICK raced \in BOOLEAN : raced = (sourceRaced \/ sourceUpdates # {})
  OBVIOUS
<1>4. sourceRaced' = raced
  BY <1>3 DEF DeleteSource, OthersRaced
<1>5. ConfigTypeOK'
  BY <1>1, <1>2, <1>4 DEF ConfigTypeOK
<1>6. SourcesInv'
  BY <1>1, <1>2, <1>3, <1>4 DEF SourcesInv
<1>7. FieldsInv'
  BY <1>2, ConfigStays
<1> QED BY <1>5, <1>6, <1>7 DEF ConfigInv

LEMMA BeginUpdateSource_Inv ==
    ASSUME ConfigInv, NEW secret \in Secrets \cup {Unset, Mask}, BeginUpdateSource(secret)
    PROVE  ConfigInv'
<1>1. ConfigTypeOK /\ SourcesInv
  BY DEF ConfigInv
<1>2. PICK u : u = [id |-> configActs, secret |-> secret, read |-> source]
  OBVIOUS
<1>3. /\ source # NoSource /\ sourceUpdates' = sourceUpdates \cup {u}
      /\ configActs' = configActs + 1
      /\ qwConfig' = qwConfig /\ updates' = updates /\ source' = source /\ wanted' = wanted
      /\ accepted' = accepted /\ configRaced' = configRaced /\ sourceRaced' = sourceRaced
  BY <1>2 DEF BeginUpdateSource, ConfigAct
<1>4. source \in Source /\ configActs \in Nat
  BY <1>1, <1>3, TypeParts
<1>5. u \in SourceUpdate /\ u.read = source
  BY <1>2, <1>4 DEF SourceUpdate
<1>6. ConfigTypeOK'
  BY <1>1, <1>3, <1>5 DEF ConfigTypeOK
<1>7. SourcesInv'
  <2>1. \A v \in sourceUpdates' : v \in sourceUpdates \/ v = u
    BY <1>3
  <2> QED BY <1>1, <1>3, <1>4, <1>5, <2>1 DEF SourcesInv
<1>8. FieldsInv'
  BY <1>3, ConfigStays
<1> QED BY <1>6, <1>7, <1>8 DEF ConfigInv

LEMMA UpdateSource_Inv ==
    ASSUME ConfigInv, NEW u \in sourceUpdates, UpdateSource(u)
    PROVE  ConfigInv'
<1>1. ConfigTypeOK /\ SourcesInv
  BY DEF ConfigInv
<1>2. /\ sourceUpdates' = sourceUpdates \ {u}
      /\ qwConfig' = qwConfig /\ updates' = updates /\ configActs' = configActs
      /\ accepted' = accepted /\ configRaced' = configRaced
  BY DEF UpdateSource
<1>3. FieldsInv'
  BY <1>2, ConfigStays
<1>4. CASE source = NoSource
  <2>1. source' = source /\ wanted' = wanted /\ sourceRaced' = sourceRaced
    BY <1>4 DEF UpdateSource
  <2>2. ConfigTypeOK'
    BY <1>1, <1>2, <2>1 DEF ConfigTypeOK
  <2>3. SourcesInv'
    BY <1>1, <1>2, <2>1 DEF SourcesInv
  <2> QED BY <1>3, <2>2, <2>3 DEF ConfigInv
<1>5. CASE source # NoSource
  <2>1. PICK secret : secret = RestoreSecrets(u.secret, u.read.secret)
    OBVIOUS
  <2>2. source' = [enabled |-> u.read.enabled, secret |-> secret]
    BY <1>5, <2>1 DEF UpdateSource, SourceRequest
  <2>3. PICK asked : asked = IF u.secret = Mask THEN wanted.secret ELSE u.secret
    OBVIOUS
  <2>4. wanted' = [wanted EXCEPT !.secret = asked]
    BY <1>5, <2>3 DEF UpdateSource
  <2>5. PICK raced \in BOOLEAN : raced = (sourceRaced \/ sourceUpdates # {u})
    OBVIOUS
  <2>6. sourceRaced' = raced
    BY <1>5, <2>5 DEF UpdateSource
  <2>7. u \in SourceUpdate /\ u.read \in Source /\ u.read.secret # Mask
    BY <1>1, TypeParts DEF SourcesInv
  <2>8. u.secret \in Secrets \cup {Unset, Mask} /\ u.read.enabled \in BOOLEAN
        /\ u.read.secret \in Secrets \cup {Unset, Mask}
    BY <2>7 DEF SourceUpdate, Source
  <2>9. secret \in Secrets \cup {Unset, Mask} /\ secret # Mask
    BY <2>1, <2>7, <2>8 DEF RestoreSecrets
  <2>10. wanted # NoSource /\ wanted \in Source
    BY <1>1, <1>5, TypeParts DEF SourcesInv
  <2>11. asked \in Secrets \cup {Unset, Mask}
    BY <2>3, <2>8, <2>10 DEF Source
  <2>12. source' \in Source /\ source'.secret # Mask
    BY <2>2, <2>8, <2>9 DEF Source
  <2>13. wanted' \in Source
    BY <2>4, <2>10, <2>11 DEF Source
  <2>14. source' # NoSource /\ wanted' # NoSource
    BY <2>12, <2>13, IndexConfigAssumption DEF Source
  <2>15. ASSUME ~raced PROVE source' = wanted' /\ sourceUpdates' = {}
    <3>1. ~sourceRaced /\ sourceUpdates = {u}
      BY <2>5, <2>15
    <3>2. wanted = source /\ u.read = source
      BY <1>1, <3>1 DEF SourcesInv
    <3>3. secret = asked
      BY <2>1, <2>3, <3>2 DEF RestoreSecrets
    <3>4. wanted' = [enabled |-> wanted.enabled, secret |-> asked]
      BY <2>4, <2>10 DEF Source
    <3> QED BY <1>2, <2>2, <3>1, <3>2, <3>3, <3>4
  <2>16. ConfigTypeOK'
    BY <1>1, <1>2, <2>6, <2>12, <2>13 DEF ConfigTypeOK
  <2>17. SourcesInv'
    BY <1>1, <1>2, <2>6, <2>12, <2>14, <2>15 DEF SourcesInv
  <2> QED BY <1>3, <2>16, <2>17 DEF ConfigInv
<1> QED BY <1>4, <1>5

-----------------------------------------------------------------------------

LEMMA ConfigNext_Inv == ConfigInv /\ [ConfigNext]_configVars => ConfigInv'
<1> SUFFICES ASSUME ConfigInv, [ConfigNext]_configVars PROVE ConfigInv'
  OBVIOUS
<1>1. CASE QuickwitConfigNext
  BY <1>1, OpenForm_Inv, FetchMeta_Inv, FetchConfig_Inv, UpdateIndexConfig_Inv, UpdateFails_Inv
  DEF QuickwitConfigNext
<1>2. CASE SourceNext
  BY <1>2, CreateSource_Inv, DeleteSource_Inv, SetSourceEnabled_Inv, BeginUpdateSource_Inv,
     UpdateSource_Inv
  DEF SourceNext
<1>3. CASE UNCHANGED configVars
  <2>1. /\ qwConfig' = qwConfig /\ updates' = updates /\ source' = source
        /\ sourceUpdates' = sourceUpdates /\ configActs' = configActs /\ accepted' = accepted
        /\ wanted' = wanted /\ configRaced' = configRaced /\ sourceRaced' = sourceRaced
    BY <1>3 DEF configVars
  <2>2. ConfigTypeOK'
    BY <2>1 DEF ConfigInv, ConfigTypeOK
  <2> QED BY <2>1, <2>2, SourceStays, ConfigStays DEF ConfigInv
<1> QED BY <1>1, <1>2, <1>3 DEF ConfigNext

THEOREM ConfigInvHolds == ConfigSpec => []ConfigInv
<1> QED BY ConfigInit_Inv, ConfigNext_Inv, PTL DEF ConfigSpec

\* The configs, forms and sources keep their shapes.
THEOREM ConfigTypeCorrect == ConfigSpec => []ConfigTypeOK
<1>1. ConfigInv => ConfigTypeOK
  BY DEF ConfigInv
<1> QED BY <1>1, ConfigInvHolds, PTL

\* No field is mapped twice, however the read-and-write-back updates overlap, and a
\* field that was accepted stays mapped until two of them do.
THEOREM FieldsStayMapped == ConfigSpec => []FieldsMappedOnce
<1>1. ConfigInv => FieldsMappedOnce
  <2> SUFFICES ASSUME ConfigInv PROVE FieldsMappedOnce
    OBVIOUS
  <2>1. qwConfig.fields \in Seq(FieldNames)
    BY TypeParts, ConfigParts DEF ConfigInv
  <2>2. NoTwice(qwConfig.fields) /\ (~configRaced => accepted \subseteq ToSet(qwConfig.fields))
    BY DEF ConfigInv, FieldsInv
  <2>3. Cardinality(ToSet(qwConfig.fields)) = Len(qwConfig.fields)
    BY <2>1, <2>2, FieldsCount
  <2> QED BY <2>2, <2>3 DEF FieldsMappedOnce
<1> QED BY <1>1, ConfigInvHolds, PTL

\* The settings form sent back untouched writes the config Quickwit has, whatever
\* that is, and a form that only adds a field leaves the rest as it reads.
THEOREM UntouchedKeeps == ConfigSpec => []UntouchedFormKeeps
<1>1. ConfigInv => UntouchedFormKeeps
  BY TypeParts, FormKeeps DEF ConfigInv, FieldsInv, UntouchedFormKeeps
<1> QED BY <1>1, ConfigInvHolds, PTL

\* A source never gets the mask for a secret, and until requests overlap it is what
\* they asked for.
THEOREM SourceIsAsAsked == ConfigSpec => []SourceAsAsked
<1>1. ConfigInv => SourceAsAsked
  BY DEF ConfigInv, SourcesInv, SourceAsAsked
<1> QED BY <1>1, ConfigInvHolds, PTL

-----------------------------------------------------------------------------
(* ServiceHealth *)

\* An answer is what its search finds among spans that were stored by then: among
\* all that are stored now if none arrived.
SeenInv ==
    \A q \in Searches : answers[q] # Unanswered =>
        \E seen \in SUBSET stored :
            answers[q] = AnswerTo(q, seen) /\ (~arrived => seen = stored)

\* A page that is sent has every answer.
HealthInv ==
    /\ stored \subseteq AllSpans /\ IsFiniteSet(stored)
    /\ service \in Services \cup {AllServices}
    /\ page \in {"waiting", "sent", "failed"}
    /\ arrived \in BOOLEAN
    /\ DOMAIN answers = Searches
    /\ page = "sent" => \A q \in Searches : answers[q] # Unanswered
    /\ SeenInv

\* The searches do not change, for the service does not.
LEMMA SearchesStay == ASSUME service' = service PROVE Searches' = Searches
BY DEF Searches, SearchesOf, TimeSearches, ServiceSearches, EndpointSearches

\* What a search finds among given spans does not change.
LEMMA AnswersStay ==
    ASSUME service' = service, NEW q, NEW seen
    PROVE  AnswerTo(q, seen)' = AnswerTo(q, seen)
BY DEF AnswerTo, Searched, Scope, FirstSource, EndpointBuckets, TimeCounts, ServiceCounts, CountBy,
       OthersRow

\* The invariant holds at first and is kept.
LEMMA HealthInv_Init == HealthInit => HealthInv
<1> SUFFICES ASSUME HealthInit PROVE HealthInv
  OBVIOUS
<1>1. stored \subseteq AllSpans /\ IsFiniteSet(stored)
  BY ServiceHealthAssumption DEF HealthInit, AllSpans
<1>2. DOMAIN answers = Searches /\ \A q \in Searches : answers[q] = Unanswered
  BY DEF HealthInit, Searches
<1> QED BY <1>1, <1>2 DEF HealthInit, HealthInv, SeenInv

\* A span that arrives leaves the answers as they are, and from then on they need
\* not be of all the spans; an answer is of what is stored when it is given.
LEMMA HealthInv_Next == HealthInv /\ [HealthNext]_healthVars => HealthInv'
<1> SUFFICES ASSUME HealthInv, [HealthNext]_healthVars
             PROVE  HealthInv'
  OBVIOUS
<1>1. ASSUME NEW s \in LateSpansOf, SpanArrives(s)
      PROVE  HealthInv'
  <2>1. Searches' = Searches
    BY <1>1, SearchesStay DEF SpanArrives
  <2>2. stored \subseteq stored' /\ arrived' = TRUE /\ stored' \subseteq AllSpans /\ IsFiniteSet(stored')
    BY <1>1, FS_AddElement DEF SpanArrives, HealthInv, AllSpans
  <2>3. SeenInv'
    <3> SUFFICES ASSUME NEW q \in Searches, answers[q] # Unanswered
                 PROVE  \E seen \in SUBSET (stored') : answers[q] = AnswerTo(q, seen)'
      BY <1>1, <2>1, <2>2 DEF SeenInv, SpanArrives
    <3>1. PICK seen \in SUBSET stored : answers[q] = AnswerTo(q, seen)
      BY DEF HealthInv, SeenInv
    <3>2. AnswerTo(q, seen)' = AnswerTo(q, seen)
      BY <1>1, AnswersStay DEF SpanArrives
    <3> QED BY <2>2, <3>1, <3>2
  <2> QED BY <1>1, <2>1, <2>2, <2>3 DEF SpanArrives, HealthInv
<1>2. ASSUME NEW q \in Searches, SearchAnswered(q)
      PROVE  HealthInv'
  <2>1. Searches' = Searches
    BY <1>2, SearchesStay DEF SearchAnswered
  <2>2. SeenInv'
    <3> SUFFICES ASSUME NEW p \in Searches, answers'[p] # Unanswered
                 PROVE  \E seen \in SUBSET stored :
                          answers'[p] = AnswerTo(p, seen)' /\ (~arrived => seen = stored)
      BY <1>2, <2>1 DEF SeenInv, SearchAnswered
    <3>1. \A seen : AnswerTo(p, seen)' = AnswerTo(p, seen)
      BY <1>2, AnswersStay DEF SearchAnswered
    <3>2. CASE p = q
      <4>1. answers'[p] = AnswerTo(p, stored)
        BY <1>2, <3>2 DEF SearchAnswered, HealthInv
      <4> QED BY <3>1, <4>1
    <3>3. CASE p # q
      <4>1. answers'[p] = answers[p]
        BY <1>2, <3>3 DEF SearchAnswered, HealthInv
      <4> QED BY <3>1, <4>1 DEF HealthInv, SeenInv
    <3> QED BY <3>2, <3>3
  <2> QED BY <1>2, <2>1, <2>2 DEF SearchAnswered, HealthInv
<1>3. ASSUME page' \in {"failed", "sent"}, UNCHANGED <<stored, service, answers, arrived>>,
             page' = "sent" => \A q \in Searches : answers[q] # Unanswered
      PROVE  HealthInv'
  <2>1. Searches' = Searches
    BY <1>3, SearchesStay
  <2>2. SeenInv'
    <3> SUFFICES ASSUME NEW q \in Searches, answers[q] # Unanswered
                 PROVE  \E seen \in SUBSET stored :
                          answers[q] = AnswerTo(q, seen)' /\ (~arrived => seen = stored)
      BY <1>3, <2>1 DEF SeenInv
    <3> QED BY <1>3, AnswersStay DEF HealthInv, SeenInv
  <2> QED BY <1>3, <2>1, <2>2 DEF HealthInv
<1>4. ASSUME UNCHANGED healthVars
      PROVE  HealthInv'
  <2>1. Searches' = Searches
    BY <1>4, SearchesStay DEF healthVars
  <2>2. SeenInv'
    <3> SUFFICES ASSUME NEW q \in Searches, answers[q] # Unanswered
                 PROVE  \E seen \in SUBSET stored :
                          answers[q] = AnswerTo(q, seen)' /\ (~arrived => seen = stored)
      BY <1>4, <2>1 DEF SeenInv, healthVars
    <3> QED BY <1>4, AnswersStay DEF HealthInv, SeenInv, healthVars
  <2> QED BY <1>4, <2>1, <2>2 DEF HealthInv, healthVars
<1> QED BY <1>1, <1>2, <1>3, <1>4 DEF HealthNext, SearchRefused, SendPage

\* The invariant of a request for a page.
LEMMA HealthInvHolds == HealthSpec => []HealthInv
  BY HealthInv_Init, HealthInv_Next, PTL DEF HealthSpec

-----------------------------------------------------------------------------
(* Totals and tops *)

\* A total of natural numbers is one.
LEMMA TotalNatural ==
    ASSUME NEW field, NEW rows, IsFiniteSet(rows), \A r \in rows : r[field] \in Nat
    PROVE  Total(field, rows) \in Nat
BY SumNatural DEF Total

\* The total of no rows.
LEMMA TotalOfNone == ASSUME NEW field PROVE Total(field, {}) = 0
BY SumOfNone DEF Total

\* The total of one row.
LEMMA TotalOfOne ==
    ASSUME NEW field, NEW r, r[field] \in Nat
    PROVE  Total(field, {r}) = r[field]
<1> DEFINE f == [x \in {r} |-> x[field]]
<1>1. IsFiniteSet({r}) /\ {r} \ {r} = {}
  BY FS_Singleton
<1>2. \A x \in {r} : f[x] \in Nat
  OBVIOUS
<1>3. f[r] = r[field]
  OBVIOUS
<1> HIDE DEF f
<1>4. SumFunctionOnSet(f, {r}) = f[r] + SumFunctionOnSet(f, {r} \ {r})
  BY <1>1, <1>2, SumBy
<1>5. SumFunctionOnSet(f, {r}) = r[field] + 0
  BY <1>1, <1>3, <1>4, SumOfNone
<1> QED BY <1>5 DEF Total, f

\* The total of the sizes of disjoint sets of spans.
LEMMA TotalOfSizes ==
    ASSUME NEW field, NEW rows, IsFiniteSet(rows), NEW X, IsFiniteSet(X),
           NEW p \in [rows -> SUBSET X], \A a, b \in rows : a # b => p[a] \cap p[b] = {},
           \A r \in rows : r[field] = Cardinality(p[r])
    PROVE  Total(field, rows) = Cardinality(UNION {p[r] : r \in rows})
<1> DEFINE f == [r \in rows |-> r[field]]
<1>1. \A r \in rows : f[r] = Cardinality(p[r])
  OBVIOUS
<1> HIDE DEF f
<1>2. SumFunctionOnSet(f, rows) = Cardinality(UNION {p[r] : r \in rows})
  BY <1>1, SumOfSizes
<1> QED BY <1>2 DEF Total, f

\* The total of numbers no larger than the sizes of disjoint sets of spans.
LEMMA TotalWithin ==
    ASSUME NEW field, NEW rows, IsFiniteSet(rows), NEW X, IsFiniteSet(X),
           NEW p \in [rows -> SUBSET X], \A a, b \in rows : a # b => p[a] \cap p[b] = {},
           \A r \in rows : r[field] \in Nat /\ r[field] <= Cardinality(p[r])
    PROVE  Total(field, rows) <= Cardinality(X)
<1> DEFINE f == [r \in rows |-> r[field]]
<1>1. \A r \in rows : f[r] \in Nat /\ f[r] <= Cardinality(p[r])
  OBVIOUS
<1> HIDE DEF f
<1>2. SumFunctionOnSet(f, rows) <= Cardinality(X)
  BY <1>1, SumWithinSizes
<1> QED BY <1>2 DEF Total, f

\* The time of spans.
LEMMA MillisNatural ==
    ASSUME NEW spans, IsFiniteSet(spans), spans \subseteq AllSpans
    PROVE  Millis(spans) \in Nat
<1>1. \A s \in spans : s["millis"] \in Nat
  BY ServiceHealthAssumption
<1> QED BY <1>1, TotalNatural DEF Millis

\* The top has as many values as asked for, if there are so many, and no other value
\* has more weight than one of them.
LEMMA TopIs ==
    ASSUME NEW D, IsFiniteSet(D), NEW k \in Nat, NEW time, DOMAIN time = D,
           \A x \in D : time[x] \in Nat
    PROVE  /\ Top(k, time) \in SUBSET D
           /\ Cardinality(Top(k, time)) = IF k <= Cardinality(D) THEN k ELSE Cardinality(D)
           /\ \A v \in Top(k, time), w \in D \ Top(k, time) : time[v] >= time[w]
<1> DEFINE Is(top) == /\ Cardinality(top) = Min({k, Cardinality(DOMAIN time)})
                      /\ \A v \in top, w \in DOMAIN time \ top : time[v] >= time[w]
<1>1. Min({k, Cardinality(D)}) = IF k <= Cardinality(D) THEN k ELSE Cardinality(D)
  BY FS_CardinalityType, MinIs
<1>2. \E top \in SUBSET D : Is(top)
  BY <1>1, HasTop
<1>3. Top(k, time) = CHOOSE top \in SUBSET D : Is(top)
  BY DEF Top
<1> HIDE DEF Is
<1>4. Top(k, time) \in SUBSET D /\ Is(Top(k, time))
  BY <1>2, <1>3
<1> QED BY <1>1, <1>4 DEF Is

\* All of a set that has room at the top.
LEMMA TopIsAll ==
    ASSUME NEW D, IsFiniteSet(D), NEW k \in Nat, NEW time, DOMAIN time = D,
           \A x \in D : time[x] \in Nat, Cardinality(D) <= k
    PROVE  Top(k, time) = D
<1>1. Top(k, time) \in SUBSET D /\ Cardinality(Top(k, time)) = Cardinality(D)
  BY TopIs, FS_CardinalityType
<1> QED BY <1>1, FS_Subset

-----------------------------------------------------------------------------
(* Answers *)

\* A set of spans as a search runs over it.
SpansTyped(spans) == IsFiniteSet(spans) /\ spans \subseteq AllSpans

\* Spans have finitely many keys.
LEMMA KeysFinite ==
    ASSUME NEW spans, IsFiniteSet(spans), NEW field
    PROVE  IsFiniteSet(SpanKeys(spans, field))
<1> DEFINE f == [s \in spans |-> s[field]]
<1>1. SpanKeys(spans, field) = {f[s] : s \in spans}
  BY DEF SpanKeys
<1> HIDE DEF f
<1> QED BY <1>1, ImageFinite

\* A count has a row for each key, with its spans.
LEMMA CountRows ==
    ASSUME NEW spans, IsFiniteSet(spans), NEW field, NEW keys, IsFiniteSet(keys)
    PROVE  /\ IsFiniteSet(CountBy(spans, field, keys))
           /\ \A r \in CountBy(spans, field, keys) :
                 /\ r.id \in keys
                 /\ r.requests = Cardinality(Keyed(spans, field, r.id))
                 /\ r.requests \in Nat
           /\ \A k \in keys : \E r \in CountBy(spans, field, keys) : r.id = k
           /\ \A r, x \in CountBy(spans, field, keys) : r.id = x.id => r = x
<1> DEFINE Row(k) == [id |-> k, requests |-> Cardinality(Keyed(spans, field, k))]
           f == [k \in keys |-> Row(k)]
<1>1. CountBy(spans, field, keys) = {f[k] : k \in keys}
  BY DEF CountBy
<1>2. IsFiniteSet({f[k] : k \in keys})
  <2> HIDE DEF f
  <2> QED BY ImageFinite
<1>3. \A k : Cardinality(Keyed(spans, field, k)) \in Nat
  BY FS_Subset, FS_CardinalityType DEF Keyed
<1>4. \A r \in CountBy(spans, field, keys) : \E k \in keys : r = Row(k)
  BY <1>1
<1>5. \A k \in keys : Row(k) \in CountBy(spans, field, keys)
  BY <1>1
<1>6. \A k : /\ Row(k).id = k
             /\ Row(k).requests = Cardinality(Keyed(spans, field, k))
             /\ Row(k).requests \in Nat
  BY <1>3
<1>7. IsFiniteSet(CountBy(spans, field, keys))
  BY <1>1, <1>2
<1> HIDE DEF Row, f
<1> QED BY <1>4, <1>5, <1>6, <1>7

\* A histogram has a bucket for each time, with its spans.
LEMMA TimeCountRows ==
    ASSUME NEW spans, IsFiniteSet(spans)
    PROVE  /\ IsFiniteSet(TimeCounts(spans))
           /\ \A r \in TimeCounts(spans) :
                 r.requests = Cardinality(Keyed(spans, "time", r.id)) /\ r.requests \in Nat
           /\ \A s \in spans : \E r \in TimeCounts(spans) : r.id = s["time"]
           /\ \A r, x \in TimeCounts(spans) : r.id = x.id => r = x
<1> DEFINE keys == SpanKeys(spans, "time")
<1>1. IsFiniteSet(keys) /\ \A s \in spans : s["time"] \in keys
  BY KeysFinite DEF SpanKeys
<1>2. TimeCounts(spans) = CountBy(spans, "time", keys)
  BY DEF TimeCounts
<1> HIDE DEF keys
<1> QED BY <1>1, <1>2, CountRows

\* The services of a top: all of them if and only if there is room, and none busier
\* than they are.
LEMMA BusiestAre ==
    ASSUME NEW spans, IsFiniteSet(spans)
    PROVE  LET D == SpanKeys(spans, "service")
           IN  /\ Busiest(spans) \subseteq D
               /\ IsFiniteSet(D) /\ IsFiniteSet(Busiest(spans))
               /\ Busiest(spans) = D <=> Cardinality(D) <= SERVICE_LIMIT
               /\ \A v \in Busiest(spans), w \in D \ Busiest(spans) :
                     Cardinality(Keyed(spans, "service", v)) >= Cardinality(Keyed(spans, "service", w))
<1> DEFINE D == SpanKeys(spans, "service")
           count == [v \in D |-> Cardinality(Keyed(spans, "service", v))]
<1>1. IsFiniteSet(D) /\ SERVICE_LIMIT \in Nat
  BY KeysFinite, ServiceHealthAssumption
<1>2. Busiest(spans) = Top(SERVICE_LIMIT, count)
  BY DEF Busiest
<1>3. DOMAIN count = D /\ \A v \in D : count[v] \in Nat
  BY FS_Subset, FS_CardinalityType DEF Keyed
<1>4. \A v \in D : count[v] = Cardinality(Keyed(spans, "service", v))
  OBVIOUS
<1> HIDE DEF count, D
<1>5. /\ Busiest(spans) \in SUBSET D
      /\ Cardinality(Busiest(spans)) =
            IF SERVICE_LIMIT <= Cardinality(D) THEN SERVICE_LIMIT ELSE Cardinality(D)
      /\ \A v \in Busiest(spans), w \in D \ Busiest(spans) : count[v] >= count[w]
  BY <1>1, <1>2, <1>3, TopIs
<1>6. Cardinality(D) <= SERVICE_LIMIT => Busiest(spans) = D
  BY <1>1, <1>2, <1>3, TopIsAll
<1>7. Busiest(spans) = D => Cardinality(D) <= SERVICE_LIMIT
  BY <1>1, <1>5, FS_CardinalityType
<1>8. IsFiniteSet(Busiest(spans))
  BY <1>1, <1>5, FS_Subset
<1> QED BY <1>1, <1>4, <1>5, <1>6, <1>7, <1>8 DEF D

\* A search by service has a row for each of its top, and one of all the others.
LEMMA ServiceCountRows ==
    ASSUME NEW spans, SpansTyped(spans)
    PROVE  /\ IsFiniteSet(ServiceCounts(spans))
           /\ \A r \in ServiceCounts(spans) :
                 /\ r.requests \in Nat
                 /\ r.id # Others =>
                       /\ r.id \in Busiest(spans)
                       /\ r.requests = Cardinality(Keyed(spans, "service", r.id))
                 /\ r.id = Others => r = OthersRow(spans)
           /\ \A v \in Busiest(spans) : \E r \in ServiceCounts(spans) : r.id = v
           /\ OthersRow(spans) \in ServiceCounts(spans) /\ OthersRow(spans).id = Others
           /\ Others \notin Busiest(spans)
           /\ \A r, x \in ServiceCounts(spans) : r.id = x.id => r = x
<1> DEFINE rows == CountBy(spans, "service", Busiest(spans))
           others == OthersRow(spans)
<1>1. IsFiniteSet(spans) /\ IsFiniteSet(Busiest(spans))
  BY BusiestAre DEF SpansTyped
<1>2. /\ IsFiniteSet(rows)
      /\ \A r \in rows : /\ r.id \in Busiest(spans)
                         /\ r.requests = Cardinality(Keyed(spans, "service", r.id))
                         /\ r.requests \in Nat
      /\ \A v \in Busiest(spans) : \E r \in rows : r.id = v
      /\ \A r, x \in rows : r.id = x.id => r = x
  BY <1>1, CountRows
<1>3. others.id = Others /\ others.requests \in Nat
  <2>1. {s \in spans : s.service \notin Busiest(spans)} \in SUBSET spans
    OBVIOUS
  <2>2. Cardinality({s \in spans : s.service \notin Busiest(spans)}) \in Nat
    BY <1>1, <2>1, FS_Subset, FS_CardinalityType
  <2> QED BY <2>2 DEF OthersRow
<1>4. Others \notin Busiest(spans)
  <2>1. \A v \in Busiest(spans) : \E s \in spans : v = s.service
    BY <1>1, BusiestAre DEF SpanKeys
  <2> QED BY <2>1, ServiceHealthAssumption DEF SpansTyped
<1>5. ServiceCounts(spans) = rows \cup {others}
  BY DEF ServiceCounts
<1>6. IsFiniteSet(rows \cup {others})
  BY <1>2, FS_AddElement
<1> HIDE DEF rows, others
<1>7. \A r \in ServiceCounts(spans) :
         /\ r.requests \in Nat
         /\ (r.id # Others => r \in rows)
         /\ (r.id = Others => r = others)
  BY <1>2, <1>3, <1>4, <1>5
<1>8. \A r, x \in ServiceCounts(spans) : r.id = x.id => r = x
  BY <1>2, <1>7
<1> QED BY <1>2, <1>3, <1>4, <1>5, <1>6, <1>7, <1>8 DEF others

\* The labels of spans for a source.
LabelsOf(spans, i) == {s.label[i] : s \in spans}

\* Finitely many spans have finitely many labels.
LEMMA LabelsFinite ==
    ASSUME NEW spans, IsFiniteSet(spans), NEW i
    PROVE  IsFiniteSet(LabelsOf(spans, i))
<1> DEFINE f == [s \in spans |-> s.label[i]]
<1>1. LabelsOf(spans, i) = {f[s] : s \in spans}
  BY DEF LabelsOf
<1> HIDE DEF f
<1> QED BY <1>1, ImageFinite

\* The spans of a value and of a name are spans of the search.
LEMMA NamedTyped ==
    ASSUME NEW spans, SpansTyped(spans), NEW i, NEW v, NEW n
    PROVE  /\ SpansTyped(Having(spans, i, v)) /\ SpansTyped(Named(spans, i, v, n))
           /\ Millis(Having(spans, i, v)) \in Nat /\ Millis(Named(spans, i, v, n)) \in Nat
<1>1. SpansTyped(Having(spans, i, v)) /\ SpansTyped(Named(spans, i, v, n))
  BY FS_Subset DEF SpansTyped, Having, Named
<1> QED BY <1>1, MillisNatural DEF SpansTyped

\* The values of a search are labels of its spans, all of them if there is room.
LEMMA ValuesAre ==
    ASSUME NEW spans, SpansTyped(spans), NEW i
    PROVE  LET D == LabelsOf(spans, i) \ {Absent}
           IN  /\ ValuesOf(spans, i) \subseteq D
               /\ IsFiniteSet(D) /\ IsFiniteSet(ValuesOf(spans, i))
               /\ Cardinality(ValuesOf(spans, i)) =
                     IF CANDIDATES <= Cardinality(D) THEN CANDIDATES ELSE Cardinality(D)
               /\ Cardinality(D) <= CANDIDATES => ValuesOf(spans, i) = D
<1> DEFINE D == LabelsOf(spans, i) \ {Absent}
           time == [v \in D |-> Millis(Having(spans, i, v))]
<1>1. IsFiniteSet(D)
  BY LabelsFinite, FS_Subset DEF SpansTyped
<1>2. ValuesOf(spans, i) = Top(CANDIDATES, time)
  BY DEF ValuesOf, LabelsOf
<1>3. DOMAIN time = D /\ \A v \in D : time[v] \in Nat
  BY NamedTyped
<1>4. CANDIDATES \in Nat
  BY ServiceHealthAssumption
<1> HIDE DEF time, D
<1>5. /\ ValuesOf(spans, i) \in SUBSET D
      /\ Cardinality(ValuesOf(spans, i)) =
            IF CANDIDATES <= Cardinality(D) THEN CANDIDATES ELSE Cardinality(D)
  BY <1>1, <1>2, <1>3, <1>4, TopIs
<1>6. Cardinality(D) <= CANDIDATES => ValuesOf(spans, i) = D
  BY <1>1, <1>2, <1>3, <1>4, TopIsAll
<1>7. IsFiniteSet(ValuesOf(spans, i))
  BY <1>1, <1>5, FS_Subset
<1> QED BY <1>1, <1>5, <1>6, <1>7 DEF D

\* The names of a value are names of its spans, all of them if there is room.
LEMMA NamesAre ==
    ASSUME NEW spans, SpansTyped(spans), NEW i \in Sources \ {SourceCount}, NEW v
    PROVE  LET D == LabelsOf(Having(spans, i, v), SourceCount)
           IN  /\ NamesOf(spans, i, v) \subseteq D
               /\ IsFiniteSet(D) /\ IsFiniteSet(NamesOf(spans, i, v))
               /\ Cardinality(NamesOf(spans, i, v)) =
                     IF NAMES <= Cardinality(D) THEN NAMES ELSE Cardinality(D)
               /\ Cardinality(D) <= NAMES => NamesOf(spans, i, v) = D
<1> DEFINE D == LabelsOf(Having(spans, i, v), SourceCount)
           time == [n \in D |-> Millis(Named(spans, i, v, n))]
<1>1. IsFiniteSet(D)
  BY NamedTyped, LabelsFinite DEF SpansTyped
<1>2. NamesOf(spans, i, v) = Top(NAMES, time)
  BY DEF NamesOf, LabelsOf
<1>3. DOMAIN time = D /\ \A n \in D : time[n] \in Nat
  BY NamedTyped
<1>4. NAMES \in Nat
  BY ServiceHealthAssumption
<1> HIDE DEF time, D
<1>5. /\ NamesOf(spans, i, v) \in SUBSET D
      /\ Cardinality(NamesOf(spans, i, v)) =
            IF NAMES <= Cardinality(D) THEN NAMES ELSE Cardinality(D)
  BY <1>1, <1>2, <1>3, <1>4, TopIs
<1>6. Cardinality(D) <= NAMES => NamesOf(spans, i, v) = D
  BY <1>1, <1>2, <1>3, <1>4, TopIsAll
<1>7. IsFiniteSet(NamesOf(spans, i, v))
  BY <1>1, <1>5, FS_Subset
<1> QED BY <1>1, <1>5, <1>6, <1>7 DEF D

\* The rows of a source are finite, typed, of its own and told apart by their ids.
LEMMA BucketRows ==
    ASSUME NEW spans, SpansTyped(spans), NEW i \in Sources
    PROVE  /\ IsFiniteSet(EndpointBuckets(spans, i))
           /\ \A r \in EndpointBuckets(spans, i) :
                 \E v \in ValuesOf(spans, i) : \E n \in NamesOf(spans, i, v) :
                    r = EndpointRow(spans, i, v, n)
           /\ \A r \in EndpointBuckets(spans, i) : r.requests \in Nat /\ r.total \in Nat
           /\ \A r, x \in EndpointBuckets(spans, i) : r.id = x.id => r = x
<1> DEFINE OfValue(v) == {EndpointRow(spans, i, v, n) : n \in NamesOf(spans, i, v)}
           f == [v \in ValuesOf(spans, i) |-> OfValue(v)]
<1>1. \A v : IsFiniteSet(NamesOf(spans, i, v))
  BY NamesAre, FS_Singleton DEF NamesOf
<1>2. ASSUME NEW v
      PROVE  IsFiniteSet(OfValue(v))
  <2> DEFINE g == [n \in NamesOf(spans, i, v) |-> EndpointRow(spans, i, v, n)]
  <2>1. OfValue(v) = {g[n] : n \in NamesOf(spans, i, v)}
    OBVIOUS
  <2> HIDE DEF g, OfValue
  <2> QED BY <1>1, <2>1, ImageFinite
<1>3. EndpointBuckets(spans, i) = UNION {f[v] : v \in ValuesOf(spans, i)}
  BY DEF EndpointBuckets
<1>4. \A S \in {f[v] : v \in ValuesOf(spans, i)} : IsFiniteSet(S)
  BY <1>2
<1>5. IsFiniteSet(EndpointBuckets(spans, i))
  <2> HIDE DEF f
  <2>1. IsFiniteSet({f[v] : v \in ValuesOf(spans, i)})
    BY ValuesAre, ImageFinite
  <2> QED BY <1>3, <1>4, <2>1, FS_UNION
<1>6. \A r \in EndpointBuckets(spans, i) :
         \E v \in ValuesOf(spans, i) : \E n \in NamesOf(spans, i, v) :
            r = EndpointRow(spans, i, v, n)
  BY DEF EndpointBuckets
<1>7. \A v, n : /\ EndpointRow(spans, i, v, n).requests \in Nat
                /\ EndpointRow(spans, i, v, n).total \in Nat
  BY NamedTyped, FS_CardinalityType DEF EndpointRow, SpansTyped
<1>8. \A v, n, w, m : EndpointRow(spans, i, v, n).id = EndpointRow(spans, i, w, m).id
                         => v = w /\ n = m
  BY DEF EndpointRow, EndpointId
<1> QED BY <1>5, <1>6, <1>7, <1>8

-----------------------------------------------------------------------------
(* Rows with their failures *)

\* A row of rows with the failures of its id, never more than its requests.
IsMerged(m, rows, failing) ==
    /\ \E r \in rows : m.id = r.id /\ m.requests = r.requests
    /\ m.requests \in Nat /\ m.errors \in Nat /\ m.errors <= m.requests
    /\ \/ \E f \in failing : f.id = m.id /\ m.errors = Min({m.requests, f.requests})
       \/ (\A f \in failing : f.id # m.id) /\ m.errors = 0

\* Merging keeps the ids of the rows and makes no two rows of one.
LEMMA MergedRows ==
    ASSUME NEW rows, IsFiniteSet(rows), \A r \in rows : r.requests \in Nat,
           NEW failing, IsFiniteSet(failing), \A f \in failing : f.requests \in Nat,
           \A f, x \in failing : f.id = x.id => f = x
    PROVE  /\ IsFiniteSet(Merged(rows, failing))
           /\ \A m \in Merged(rows, failing) : IsMerged(m, rows, failing)
           /\ \A r \in rows : \E m \in Merged(rows, failing) : m.id = r.id
           /\ (\A r, x \in rows : r.id = x.id => r = x)
                 => \A m, n \in Merged(rows, failing) : m.id = n.id => m = n
<1> DEFINE Of(k) == {f \in failing : f.id = k}
           Row(r) == [id |-> r.id, requests |-> r.requests,
                      errors |-> Errors(r.requests, Total("requests", Of(r.id)))]
           g == [r \in rows |-> Row(r)]
<1>1. Merged(rows, failing) = {g[r] : r \in rows}
  BY DEF Merged
<1>2. IsFiniteSet(Merged(rows, failing))
  <2> HIDE DEF g
  <2> QED BY <1>1, ImageFinite
<1>3. ASSUME NEW r \in rows
      PROVE  /\ Row(r).id = r.id /\ Row(r).requests = r.requests
             /\ Row(r).errors \in Nat /\ Row(r).errors <= Row(r).requests
             /\ \/ \E f \in failing : f.id = r.id /\ Row(r).errors = Min({r.requests, f.requests})
                \/ (\A f \in failing : f.id # r.id) /\ Row(r).errors = 0
  <2> DEFINE sum == Total("requests", Of(r.id))
  <2>1. Row(r).id = r.id /\ Row(r).requests = r.requests /\ Row(r).errors = Min({r.requests, sum})
    BY DEF Errors
  <2>2. sum \in Nat
    <3>1. IsFiniteSet(Of(r.id)) /\ \A f \in Of(r.id) : f["requests"] \in Nat
      BY FS_Subset
    <3> HIDE DEF Of
    <3> QED BY <3>1, TotalNatural
  <2>3. CASE \A f \in failing : f.id # r.id
    <3>1. Of(r.id) = {}
      BY <2>3
    <3>2. sum = 0
      BY <3>1, TotalOfNone
    <3> HIDE DEF Row, sum
    <3> QED BY <2>1, <2>3, <3>2, MinIs
  <2>4. CASE \E f \in failing : f.id = r.id
    <3>1. PICK f \in failing : f.id = r.id
      BY <2>4
    <3>2. Of(r.id) = {f} /\ f["requests"] \in Nat
      BY <3>1
    <3>3. sum = f.requests
      BY <3>2, TotalOfOne
    <3> HIDE DEF Row, sum
    <3>4. Row(r).errors = Min({r.requests, f.requests})
      BY <2>1, <3>3
    <3>5. Row(r).errors \in Nat /\ Row(r).errors <= r.requests
      BY <3>4, MinIs
    <3> QED BY <2>1, <3>1, <3>4, <3>5
  <2> QED BY <2>3, <2>4
<1>4. \A m \in Merged(rows, failing) : \E r \in rows : m = Row(r)
  BY <1>1
<1>5. \A r \in rows : Row(r) \in Merged(rows, failing)
  BY <1>1
<1> HIDE DEF Row, g
<1>6. \A m \in Merged(rows, failing) : IsMerged(m, rows, failing)
  <2> TAKE m \in Merged(rows, failing)
  <2>1. PICK r \in rows : m = Row(r)
    BY <1>4
  <2>2. /\ m.id = r.id /\ m.requests = r.requests
        /\ m.errors \in Nat /\ m.errors <= m.requests
        /\ \/ \E f \in failing : f.id = r.id /\ m.errors = Min({r.requests, f.requests})
           \/ (\A f \in failing : f.id # r.id) /\ m.errors = 0
    BY <1>3, <2>1
  <2>3. \/ \E f \in failing : f.id = m.id /\ m.errors = Min({m.requests, f.requests})
        \/ (\A f \in failing : f.id # m.id) /\ m.errors = 0
    BY <2>2
  <2>4. m.requests \in Nat
    BY <2>2
  <2> QED BY <2>2, <2>3, <2>4 DEF IsMerged
<1>7. (\A r, x \in rows : r.id = x.id => r = x)
         => \A m, n \in Merged(rows, failing) : m.id = n.id => m = n
  BY <1>3, <1>4
<1>8. \A r \in rows : \E m \in Merged(rows, failing) : m.id = r.id
  BY <1>3, <1>5
<1> QED BY <1>2, <1>6, <1>7, <1>8

\* The buckets of a histogram count every span once, and every failure.
LEMMA CountedByTime ==
    ASSUME NEW S, IsFiniteSet(S), NEW F \in SUBSET S
    PROVE  LET M == Merged(TimeCounts(S), TimeCounts(F))
           IN  /\ Total("requests", M) = Cardinality(S)
               /\ Total("errors", M) = Cardinality(F)
<1> DEFINE A == TimeCounts(S)
           B == TimeCounts(F)
           M == Merged(A, B)
           P(m) == Keyed(S, "time", m.id)
           Q(m) == Keyed(F, "time", m.id)
<1>1. IsFiniteSet(F)
  BY FS_Subset
<1>2. /\ IsFiniteSet(A)
      /\ \A r \in A : r.requests = Cardinality(Keyed(S, "time", r.id)) /\ r.requests \in Nat
      /\ \A s \in S : \E r \in A : r.id = s["time"]
      /\ \A r, x \in A : r.id = x.id => r = x
  BY TimeCountRows
<1>3. /\ IsFiniteSet(B)
      /\ \A r \in B : r.requests = Cardinality(Keyed(F, "time", r.id)) /\ r.requests \in Nat
      /\ \A s \in F : \E r \in B : r.id = s["time"]
      /\ \A r, x \in B : r.id = x.id => r = x
  BY <1>1, TimeCountRows
<1> HIDE DEF A, B
<1>a. (\A r \in A : r.requests \in Nat) /\ (\A f \in B : f.requests \in Nat)
  BY <1>2, <1>3
<1>b. (\A r, x \in A : r.id = x.id => r = x) /\ (\A f, x \in B : f.id = x.id => f = x)
  BY <1>2, <1>3
<1>c. IsFiniteSet(A) /\ IsFiniteSet(B)
  BY <1>2, <1>3
<1>d. /\ IsFiniteSet(Merged(A, B))
      /\ \A m \in Merged(A, B) : IsMerged(m, A, B)
      /\ \A r \in A : \E m \in Merged(A, B) : m.id = r.id
      /\ \A m, n \in Merged(A, B) : m.id = n.id => m = n
  BY <1>a, <1>b, <1>c, MergedRows
<1>4. /\ IsFiniteSet(M)
      /\ \A m \in M :
            /\ \E r \in A : m.id = r.id /\ m.requests = r.requests
            /\ m.requests \in Nat
            /\ \/ \E f \in B : f.id = m.id /\ m.errors = Min({m.requests, f.requests})
               \/ (\A f \in B : f.id # m.id) /\ m.errors = 0
      /\ \A r \in A : \E m \in M : m.id = r.id
      /\ \A m, n \in M : m.id = n.id => m = n
  BY <1>d DEF IsMerged
<1> HIDE DEF M
<1>5. \A m \in M : m.requests = Cardinality(P(m))
  BY <1>2, <1>4
<1>6. ASSUME NEW m \in M
      PROVE  m.errors = Cardinality(Q(m))
  <2>1. /\ Cardinality(Q(m)) \in Nat /\ Cardinality(P(m)) \in Nat
        /\ Cardinality(Q(m)) <= Cardinality(P(m))
    <3>1. P(m) \in SUBSET S /\ Q(m) \in SUBSET P(m)
      BY DEF Keyed
    <3>2. IsFiniteSet(P(m)) /\ IsFiniteSet(Q(m))
      BY <3>1, FS_Subset
    <3> QED BY <3>1, <3>2, FS_Subset, FS_CardinalityType
  <2>2. CASE \E f \in B : f.id = m.id /\ m.errors = Min({m.requests, f.requests})
    <3>1. PICK f \in B : f.id = m.id /\ m.errors = Min({m.requests, f.requests})
      BY <2>2
    <3>2. f.requests = Cardinality(Q(m))
      BY <1>3, <3>1
    <3>3. m.errors = Min({Cardinality(P(m)), Cardinality(Q(m))})
      BY <1>5, <3>1, <3>2
    <3> HIDE DEF P, Q
    <3> QED BY <2>1, <3>3, MinIs
  <2>3. CASE (\A f \in B : f.id # m.id) /\ m.errors = 0
    <3>1. Q(m) = {}
      BY <1>3, <2>3 DEF Keyed
    <3> QED BY <2>3, <3>1, FS_EmptySet
  <2> QED BY <1>4, <2>2, <2>3
<1>7. UNION {P(m) : m \in M} = S /\ UNION {Q(m) : m \in M} = F
  BY <1>2, <1>4 DEF Keyed
<1> DEFINE p == [m \in M |-> P(m)]
           q == [m \in M |-> Q(m)]
<1>8. /\ p \in [M -> SUBSET S] /\ q \in [M -> SUBSET F]
      /\ \A a, b \in M : a # b => p[a] \cap p[b] = {} /\ q[a] \cap q[b] = {}
  BY <1>4 DEF Keyed
<1>9. \A m \in M : m["requests"] = Cardinality(p[m]) /\ m["errors"] = Cardinality(q[m])
  BY <1>5, <1>6
<1>10. UNION {p[m] : m \in M} = S /\ UNION {q[m] : m \in M} = F
  BY <1>7
<1> HIDE DEF p, q
<1>11. Total("requests", M) = Cardinality(S)
  BY <1>4, <1>8, <1>9, <1>10, TotalOfSizes
<1>12. Total("errors", M) = Cardinality(F)
  BY <1>1, <1>4, <1>8, <1>9, <1>10, TotalOfSizes
<1> QED BY <1>11, <1>12 DEF M, A, B

-----------------------------------------------------------------------------
(* A page that is sent *)

\* The spans in the scope of a base, and those an endpoint search runs over.
InScope(base, seen) == {s \in seen : Scope(s, base)}
OfSource(base, i, seen) == {s \in InScope(base, seen) : FirstSource(s, i)}

\* What a search by time or by service answered.
LEMMA CountAnswered ==
    ASSUME HealthInv, page = "sent", NEW base \in {"scope", "errors"}, NEW of \in {"time", "service"},
           of = "service" => service = AllServices
    PROVE  \E seen \in SUBSET stored :
              /\ answers[Search(of, base, 0)] =
                    IF of = "time" THEN TimeCounts(InScope(base, seen))
                                   ELSE ServiceCounts(InScope(base, seen))
              /\ ~arrived => seen = stored
<1> DEFINE q == Search(of, base, 0)
<1>1. q \in Searches
  BY DEF Searches, SearchesOf, TimeSearches, ServiceSearches
<1>2. PICK seen \in SUBSET stored : answers[q] = AnswerTo(q, seen) /\ (~arrived => seen = stored)
  BY <1>1 DEF HealthInv, SeenInv
<1>3. q.of = of /\ q.base = base
  BY DEF Search
<1>4. AnswerTo(q, seen) = IF of = "time" THEN TimeCounts(InScope(base, seen))
                                         ELSE ServiceCounts(InScope(base, seen))
  <2>1. Searched(q, seen) = InScope(base, seen)
    BY <1>3 DEF Searched, InScope
  <2> QED BY <1>3, <2>1 DEF AnswerTo
<1> QED BY <1>2, <1>4

\* What a search of a source answered.
LEMMA EndpointAnswered ==
    ASSUME HealthInv, page = "sent", service # AllServices, ENDPOINT_LIMIT > 0,
           NEW base \in {"scope", "errors"}, NEW i \in Sources
    PROVE  \E seen \in SUBSET stored :
              /\ answers[Search("endpoint", base, i)] = EndpointBuckets(OfSource(base, i, seen), i)
              /\ ~arrived => seen = stored
<1> DEFINE q == Search("endpoint", base, i)
<1>1. q \in Searches
  BY ServiceHealthAssumption DEF Searches, SearchesOf, EndpointSearches
<1>2. PICK seen \in SUBSET stored : answers[q] = AnswerTo(q, seen) /\ (~arrived => seen = stored)
  BY <1>1 DEF HealthInv, SeenInv
<1>3. q.of = "endpoint" /\ q.base = base /\ q.source = i
  BY DEF Search
<1>4. AnswerTo(q, seen) = EndpointBuckets(OfSource(base, i, seen), i)
  <2>1. Searched(q, seen) = OfSource(base, i, seen)
    BY <1>3 DEF Searched, InScope, OfSource
  <2> QED BY <1>3, <2>1 DEF AnswerTo
<1> QED BY <1>2, <1>4

\* The spans in the scope of a base that a row's link lists.
LinkedIn(base, r, seen) == {s \in InScope(base, seen) : Linked(r, s)}

\* The ids of endpoint rows.
IsId(k) == k.source \in Sources /\ k.value # Absent /\ k = EndpointId(k.source, k.value, k.operation)

\* What a search of a source found: rows of its own with the spans they link to.
LEMMA RowLinks ==
    ASSUME HealthInv, service # AllServices, NEW base, NEW i \in Sources, NEW seen \in SUBSET stored
    PROVE  /\ SpansTyped(OfSource(base, i, seen))
           /\ \A r \in EndpointBuckets(OfSource(base, i, seen), i) :
                 /\ r.id.source = i /\ IsId(r.id)
                 /\ r.requests = Cardinality(LinkedIn(base, r, seen))
<1> DEFINE spans == OfSource(base, i, seen)
<1>1. SpansTyped(spans)
  BY FS_Subset DEF SpansTyped, OfSource, InScope, HealthInv
<1>2. ASSUME NEW r \in EndpointBuckets(spans, i)
      PROVE  /\ r.id.source = i /\ IsId(r.id)
             /\ r.requests = Cardinality(LinkedIn(base, r, seen))
  <2>a. PICK v \in ValuesOf(spans, i) :
           \E n \in NamesOf(spans, i, v) : r = EndpointRow(spans, i, v, n)
    BY <1>1, BucketRows
  <2>1. PICK n \in NamesOf(spans, i, v) : r = EndpointRow(spans, i, v, n)
    BY <2>a
  <2>2. r.id.source = i /\ r.id.value = v /\ r.id.operation = n
    BY <2>1 DEF EndpointRow, EndpointId
  <2>3. v # Absent
    BY <1>1, ValuesAre
  <2>4. IsId(r.id)
    BY <2>1, <2>2, <2>3 DEF IsId, EndpointRow
  <2>5. Named(spans, i, v, n) = LinkedIn(base, r, seen)
    BY <2>2 DEF Named, Having, LinkedIn, Linked, OfSource, InScope, Scope
  <2> QED BY <2>1, <2>2, <2>4, <2>5 DEF EndpointRow
<1> QED BY <1>1, <1>2

\* All the rows of a base.
LEMMA AllRows ==
    ASSUME HealthInv, page = "sent", service # AllServices, ENDPOINT_LIMIT > 0,
           NEW base \in {"scope", "errors"}
    PROVE  /\ IsFiniteSet(EndpointAnswers(base))
           /\ \A r \in EndpointAnswers(base) :
                 /\ IsId(r.id) /\ r.requests \in Nat /\ r.total \in Nat
                 /\ r.requests <= Cardinality(LinkedIn(base, r, stored))
                 /\ ~arrived => r.requests = Cardinality(LinkedIn(base, r, stored))
           /\ \A r, x \in EndpointAnswers(base) : r.id = x.id => r = x
<1> DEFINE AnswerOf(i) == answers[Search("endpoint", base, i)]
<1>1. ASSUME NEW i \in Sources
      PROVE  /\ IsFiniteSet(AnswerOf(i))
             /\ \A r \in AnswerOf(i) :
                   /\ IsId(r.id) /\ r.id.source = i
                   /\ r.requests \in Nat /\ r.total \in Nat
                   /\ r.requests <= Cardinality(LinkedIn(base, r, stored))
                   /\ ~arrived => r.requests = Cardinality(LinkedIn(base, r, stored))
             /\ \A r, x \in AnswerOf(i) : r.id = x.id => r = x
  <2>1. PICK seen \in SUBSET stored :
           AnswerOf(i) = EndpointBuckets(OfSource(base, i, seen), i) /\ (~arrived => seen = stored)
    BY EndpointAnswered
  <2> DEFINE rows == EndpointBuckets(OfSource(base, i, seen), i)
  <2>a. /\ SpansTyped(OfSource(base, i, seen))
        /\ \A r \in rows : /\ r.id.source = i /\ IsId(r.id)
                            /\ r.requests = Cardinality(LinkedIn(base, r, seen))
    BY RowLinks
  <2>2. /\ SpansTyped(OfSource(base, i, seen))
        /\ \A r \in AnswerOf(i) :
              /\ r.id.source = i /\ IsId(r.id)
              /\ r.requests = Cardinality(LinkedIn(base, r, seen))
    BY <2>1, <2>a
  <2>3. /\ IsFiniteSet(AnswerOf(i))
        /\ \A r \in AnswerOf(i) : r.requests \in Nat /\ r.total \in Nat
        /\ \A r, x \in AnswerOf(i) : r.id = x.id => r = x
    BY <2>1, <2>2, BucketRows
  <2>4. \A r : Cardinality(LinkedIn(base, r, seen)) <= Cardinality(LinkedIn(base, r, stored))
    <3> TAKE r
    <3>1. LinkedIn(base, r, seen) \in SUBSET LinkedIn(base, r, stored)
      BY DEF LinkedIn, InScope
    <3>2. IsFiniteSet(LinkedIn(base, r, stored))
      BY FS_Subset DEF LinkedIn, InScope, HealthInv
    <3> QED BY <3>1, <3>2, FS_Subset
  <2> QED BY <2>1, <2>2, <2>3, <2>4
<1>2. EndpointAnswers(base) = UNION {AnswerOf(i) : i \in Sources}
  BY DEF EndpointAnswers
<1>3. IsFiniteSet(EndpointAnswers(base))
  <2> DEFINE f == [i \in Sources |-> AnswerOf(i)]
  <2>1. {AnswerOf(i) : i \in Sources} = {f[i] : i \in Sources}
    OBVIOUS
  <2>2. IsFiniteSet(Sources)
    <3>1. SourceCount \in Int
      BY ServiceHealthAssumption
    <3> QED BY <3>1, FS_Interval DEF Sources
  <2>3. IsFiniteSet({f[i] : i \in Sources})
    <3> HIDE DEF f
    <3> QED BY <2>2, ImageFinite
  <2>4. \A S \in {AnswerOf(i) : i \in Sources} : IsFiniteSet(S)
    BY <1>1
  <2> QED BY <1>2, <2>1, <2>3, <2>4, FS_UNION
<1>4. ASSUME NEW r \in EndpointAnswers(base)
      PROVE  \E i \in Sources : r \in AnswerOf(i)
  BY <1>2
<1>5. ASSUME NEW r \in EndpointAnswers(base), NEW x \in EndpointAnswers(base), r.id = x.id
      PROVE  r = x
  <2>1. PICK i \in Sources : r \in AnswerOf(i)
    BY <1>4
  <2>2. PICK j \in Sources : x \in AnswerOf(j)
    BY <1>4
  <2>3. r.id.source = i
    BY <1>1, <2>1
  <2>4. x.id.source = j
    BY <1>1, <2>2
  <2>5. x \in AnswerOf(i)
    BY <1>5, <2>2, <2>3, <2>4
  <2> QED BY <1>1, <1>5, <2>1, <2>5
<1>6. ASSUME NEW r \in EndpointAnswers(base)
      PROVE  /\ IsId(r.id) /\ r.requests \in Nat /\ r.total \in Nat
             /\ r.requests <= Cardinality(LinkedIn(base, r, stored))
             /\ ~arrived => r.requests = Cardinality(LinkedIn(base, r, stored))
  <2>1. PICK i \in Sources : r \in AnswerOf(i)
    BY <1>4
  <2> QED BY <1>1, <2>1
<1> QED BY <1>3, <1>5, <1>6

\* No span is linked from two rows.
LEMMA LinkedOnce ==
    ASSUME NEW r, NEW x, IsId(r.id), IsId(x.id), NEW s, Linked(r, s), Linked(x, s)
    PROVE  r.id = x.id
<1>1. r.id.source = x.id.source
  <2>1. ASSUME r.id.source < x.id.source
        PROVE  FALSE
    <3>1. r.id.source \in 1..(x.id.source - 1)
      BY <2>1, ServiceHealthAssumption DEF IsId, Sources
    <3> QED BY <3>1 DEF Linked, FirstSource, IsId
  <2>2. ASSUME x.id.source < r.id.source
        PROVE  FALSE
    <3>1. x.id.source \in 1..(r.id.source - 1)
      BY <2>2, ServiceHealthAssumption DEF IsId, Sources
    <3> QED BY <3>1 DEF Linked, FirstSource, IsId
  <2>3. r.id.source \in Int /\ x.id.source \in Int
    BY ServiceHealthAssumption DEF IsId, Sources
  <2> QED BY <2>1, <2>2, <2>3
<1>2. r.id.value = x.id.value /\ r.id.operation = x.id.operation
  BY <1>1 DEF Linked
<1> QED BY <1>1, <1>2 DEF IsId

\* What a search answers is finite, whenever it is answered.
LEMMA AnswerTyped ==
    ASSUME HealthInv, NEW q \in Searches, answers[q] # Unanswered
    PROVE  IsFiniteSet(answers[q]) /\ \A r, x \in answers[q] : r.id = x.id => r = x
<1>1. PICK seen \in SUBSET stored : answers[q] = AnswerTo(q, seen)
  BY DEF HealthInv, SeenInv
<1>2. SpansTyped(Searched(q, seen))
  BY FS_Subset DEF SpansTyped, Searched, HealthInv
<1>3. CASE q.of = "endpoint"
  <2>1. q.source \in Sources
    BY <1>3 DEF Searches, SearchesOf, EndpointSearches, TimeSearches, ServiceSearches, Search
  <2> QED BY <1>1, <1>2, <1>3, <2>1, BucketRows DEF AnswerTo
<1>4. CASE q.of = "time"
  <2>1. answers[q] = TimeCounts(Searched(q, seen))
    BY <1>1, <1>4 DEF AnswerTo
  <2> QED BY <1>2, <2>1, TimeCountRows DEF SpansTyped
<1>5. CASE q.of = "service"
  <2>1. answers[q] = ServiceCounts(Searched(q, seen))
    BY <1>1, <1>5 DEF AnswerTo
  <2> QED BY <1>2, <2>1, ServiceCountRows
<1>6. q.of \in {"endpoint", "time", "service"}
  BY DEF Searches, SearchesOf, EndpointSearches, TimeSearches, ServiceSearches, Search
<1> QED BY <1>3, <1>4, <1>5, <1>6

\* The invariant types the variables.
LEMMA HealthInv_Types == HealthInv => HealthTypeOK
<1> SUFFICES ASSUME HealthInv PROVE HealthTypeOK
  OBVIOUS
<1>1. \A q \in Searches : answers[q] # Unanswered =>
         IsFiniteSet(answers[q]) /\ \A r, x \in answers[q] : r.id = x.id => r = x
  BY AnswerTyped
<1> QED BY <1>1 DEF HealthInv, HealthTypeOK

-----------------------------------------------------------------------------
(* The endpoint table *)

\* A sent page with an endpoint table, and the rows picked for it.
HasTable == page = "sent" /\ service # AllServices /\ ENDPOINT_LIMIT > 0

NamedRows == {r \in EndpointAnswers("scope") : ~Nameless(r)}

Shown == Top(ENDPOINT_LIMIT, [r \in NamedRows |-> r.total])

\* They are rows found that have a name, all of them if there is room.
LEMMA ShownRows ==
    ASSUME HealthInv, HasTable
    PROVE  /\ Shown \in SUBSET NamedRows
           /\ Cardinality(EndpointAnswers("scope")) <= ENDPOINT_LIMIT => Shown = NamedRows
<1> DEFINE rows == NamedRows
           time == [r \in rows |-> r.total]
<1>1. /\ IsFiniteSet(rows) /\ \A r \in rows : r.total \in Nat
      /\ Cardinality(rows) <= Cardinality(EndpointAnswers("scope"))
      /\ Cardinality(rows) \in Nat /\ Cardinality(EndpointAnswers("scope")) \in Nat
  BY AllRows, FS_Subset, FS_CardinalityType DEF HasTable, NamedRows
<1>2. DOMAIN time = rows /\ \A r \in rows : time[r] \in Nat
  BY <1>1
<1>3. ENDPOINT_LIMIT \in Nat
  BY ServiceHealthAssumption
<1>4. Shown = Top(ENDPOINT_LIMIT, time)
  BY DEF Shown
<1> HIDE DEF time, rows
<1>5. Top(ENDPOINT_LIMIT, time) \in SUBSET rows
  BY <1>1, <1>2, <1>3, TopIs
<1>6. Cardinality(rows) <= ENDPOINT_LIMIT => Top(ENDPOINT_LIMIT, time) = rows
  BY <1>1, <1>2, <1>3, TopIsAll
<1> QED BY <1>1, <1>3, <1>4, <1>5, <1>6 DEF rows

\* A row of the table is one of the rows found, with the failures found.
LEMMA TableRows ==
    ASSUME HealthInv, HasTable
    PROVE  /\ IsFiniteSet(Endpoints)
           /\ \A m \in Endpoints :
                 /\ IsMerged(m, Shown, EndpointAnswers("errors")) /\ IsId(m.id) /\ ~Nameless(m)
                 /\ m.requests \in Nat /\ m.requests <= Cardinality(LinkedIn("scope", m, stored))
                 /\ ~arrived => m.requests = Cardinality(LinkedIn("scope", m, stored))
           /\ \A r \in Shown : \E m \in Endpoints : m.id = r.id
           /\ \A m, n \in Endpoints : m.id = n.id => m = n
<1> DEFINE rows == EndpointAnswers("scope")
           failing == EndpointAnswers("errors")
<1>1. /\ IsFiniteSet(rows)
      /\ \A r \in rows :
            /\ IsId(r.id) /\ r.requests \in Nat
            /\ r.requests <= Cardinality(LinkedIn("scope", r, stored))
            /\ ~arrived => r.requests = Cardinality(LinkedIn("scope", r, stored))
      /\ \A r, x \in rows : r.id = x.id => r = x
  BY AllRows DEF HasTable
<1>2. IsFiniteSet(failing) /\ \A f \in failing : f.requests \in Nat
  BY AllRows DEF HasTable
<1>3. \A f, x \in failing : f.id = x.id => f = x
  BY AllRows DEF HasTable
<1>4. IsFiniteSet(Shown) /\ Shown \subseteq rows /\ \A r \in Shown : ~Nameless(r)
  BY <1>1, ShownRows, FS_Subset DEF NamedRows
<1>5. Endpoints = Merged(Shown, failing)
  BY DEF Endpoints, Shown, NamedRows
<1> HIDE DEF rows, failing
<1>6. (\A r \in Shown : r.requests \in Nat) /\ (\A r, x \in Shown : r.id = x.id => r = x)
  BY <1>1, <1>4
<1>7. /\ IsFiniteSet(Merged(Shown, failing))
      /\ \A m \in Merged(Shown, failing) : IsMerged(m, Shown, failing)
      /\ \A r \in Shown : \E m \in Merged(Shown, failing) : m.id = r.id
      /\ \A m, n \in Merged(Shown, failing) : m.id = n.id => m = n
  BY <1>2, <1>3, <1>4, <1>6, MergedRows
<1>8. ASSUME NEW m \in Endpoints
      PROVE  /\ IsMerged(m, Shown, failing) /\ IsId(m.id) /\ ~Nameless(m)
             /\ m.requests \in Nat /\ m.requests <= Cardinality(LinkedIn("scope", m, stored))
             /\ ~arrived => m.requests = Cardinality(LinkedIn("scope", m, stored))
  <2>1. PICK r \in Shown : m.id = r.id /\ m.requests = r.requests
    BY <1>5, <1>7 DEF IsMerged
  <2>2. LinkedIn("scope", m, stored) = LinkedIn("scope", r, stored) /\ ~Nameless(m)
    BY <1>4, <2>1 DEF LinkedIn, Linked, Nameless
  <2> QED BY <1>1, <1>4, <1>5, <1>7, <2>1, <2>2
<1> QED BY <1>5, <1>7, <1>8 DEF failing

\* The spans of two rows are disjoint.
LEMMA TableParts ==
    ASSUME HealthInv, HasTable
    PROVE  LET p == [m \in Endpoints |-> LinkedIn("scope", m, stored)]
           IN  /\ p \in [Endpoints -> SUBSET EntrySpans]
               /\ \A a, b \in Endpoints : a # b => p[a] \cap p[b] = {}
<1>1. \A m : LinkedIn("scope", m, stored) \in SUBSET EntrySpans
  BY DEF LinkedIn, InScope, EntrySpans
<1>2. ASSUME NEW a \in Endpoints, NEW b \in Endpoints, NEW s,
             s \in LinkedIn("scope", a, stored), s \in LinkedIn("scope", b, stored)
      PROVE  a = b
  <2>1. IsId(a.id) /\ IsId(b.id) /\ Linked(a, s) /\ Linked(b, s)
    BY <1>2, TableRows DEF LinkedIn
  <2>2. a.id = b.id
    BY <2>1, LinkedOnce
  <2> QED BY <2>2, TableRows
<1> QED BY <1>1, <1>2

\* The requests stored are finitely many.
LEMMA EntrySpansFinite ==
    ASSUME HealthInv
    PROVE  IsFiniteSet(EntrySpans)
BY FS_Subset DEF HealthInv, EntrySpans

\* The spans of the rows are disjoint, and a row counts no more than it links to.
LEMMA CountedOnceHolds == HealthInv => CountedOnce
<1> SUFFICES ASSUME HealthInv, HasTable
             PROVE  Requests(Endpoints) <= Cardinality(EntrySpans)
  BY DEF CountedOnce, HasTable
<1> DEFINE p == [m \in Endpoints |-> LinkedIn("scope", m, stored)]
<1>1. p \in [Endpoints -> SUBSET EntrySpans] /\ \A a, b \in Endpoints : a # b => p[a] \cap p[b] = {}
  BY TableParts
<1>2. \A m \in Endpoints : m["requests"] \in Nat /\ m["requests"] <= Cardinality(p[m])
  BY TableRows
<1>3. IsFiniteSet(Endpoints) /\ IsFiniteSet(EntrySpans)
  BY TableRows, EntrySpansFinite
<1> HIDE DEF p
<1>4. Total("requests", Endpoints) <= Cardinality(EntrySpans)
  BY <1>1, <1>2, <1>3, TotalWithin
<1> QED BY <1>4 DEF Requests

-----------------------------------------------------------------------------
(* The chart and the list of services *)

\* What is in scope is finite and typed.
LEMMA ScopeTyped ==
    ASSUME HealthInv, NEW base, NEW seen \in SUBSET stored
    PROVE  SpansTyped(InScope(base, seen))
BY FS_Subset DEF SpansTyped, InScope, HealthInv

\* The chart is merged from two histograms.
LEMMA ChartRows ==
    ASSUME HealthInv, page = "sent"
    PROVE  /\ \A r \in Buckets : r.errors <= r.requests
           /\ ~arrived => /\ Requests(Buckets) = Cardinality(InScope("scope", stored))
                          /\ Total("errors", Buckets) = Cardinality(InScope("errors", stored))
<1>1. PICK seen \in SUBSET stored :
         /\ answers[Search("time", "scope", 0)] = TimeCounts(InScope("scope", seen))
         /\ ~arrived => seen = stored
  BY CountAnswered
<1>2. PICK later \in SUBSET stored :
         /\ answers[Search("time", "errors", 0)] = TimeCounts(InScope("errors", later))
         /\ ~arrived => later = stored
  BY CountAnswered
<1> DEFINE A == TimeCounts(InScope("scope", seen))
           B == TimeCounts(InScope("errors", later))
<1>3. Buckets = Merged(A, B)
  BY <1>1, <1>2 DEF Buckets
<1>4. IsFiniteSet(InScope("scope", seen)) /\ IsFiniteSet(InScope("errors", later))
  BY ScopeTyped DEF SpansTyped
<1>5. IsFiniteSet(A) /\ \A r \in A : r.requests \in Nat
  BY <1>4, TimeCountRows
<1>6. IsFiniteSet(B) /\ (\A r \in B : r.requests \in Nat) /\ \A r, x \in B : r.id = x.id => r = x
  BY <1>4, TimeCountRows
<1>7. \A r \in Merged(A, B) : r.errors <= r.requests
  <2> HIDE DEF A, B
  <2>1. \A r \in Merged(A, B) : IsMerged(r, A, B)
    BY <1>5, <1>6, MergedRows
  <2> QED BY <2>1 DEF IsMerged
<1>8. ~arrived => /\ Total("requests", Merged(A, B)) = Cardinality(InScope("scope", stored))
                  /\ Total("errors", Merged(A, B)) = Cardinality(InScope("errors", stored))
  <2> SUFFICES ASSUME ~arrived
               PROVE  /\ Total("requests", Merged(A, B)) = Cardinality(InScope("scope", stored))
                      /\ Total("errors", Merged(A, B)) = Cardinality(InScope("errors", stored))
    OBVIOUS
  <2>1. seen = stored /\ later = stored
    BY <1>1, <1>2
  <2>2. InScope("errors", stored) \in SUBSET InScope("scope", stored)
    BY DEF InScope, Scope
  <2> QED BY <1>4, <2>1, <2>2, CountedByTime
<1> QED BY <1>3, <1>7, <1>8 DEF Requests

\* The list is merged from two counts by service.
LEMMA ListRows ==
    ASSUME HealthInv, page = "sent", service = AllServices
    PROVE  LET A == answers[Search("service", "scope", 0)]
               B == answers[Search("service", "errors", 0)]
           IN  /\ IsFiniteSet(ServiceRows)
               /\ \A m \in ServiceRows : IsMerged(m, A, B) /\ m.id \notin {Empty, Others}
               /\ \A r \in A : r.id \notin {Empty, Others} => \E m \in ServiceRows : m.id = r.id
               /\ \A m, n \in ServiceRows : m.id = n.id => m = n
<1> DEFINE A == answers[Search("service", "scope", 0)]
           B == answers[Search("service", "errors", 0)]
<1>1. PICK seen \in SUBSET stored : A = ServiceCounts(InScope("scope", seen))
  BY CountAnswered
<1>2. PICK later \in SUBSET stored : B = ServiceCounts(InScope("errors", later))
  BY CountAnswered
<1>3. /\ IsFiniteSet(A) /\ \A r \in A : r.requests \in Nat
      /\ \A r, x \in A : r.id = x.id => r = x
  BY <1>1, ScopeTyped, ServiceCountRows
<1>4. /\ IsFiniteSet(B) /\ \A r \in B : r.requests \in Nat
      /\ \A r, x \in B : r.id = x.id => r = x
  BY <1>2, ScopeTyped, ServiceCountRows
<1>5. ServiceRows = {m \in Merged(A, B) : m.id \notin {Empty, Others}}
  BY DEF ServiceRows
<1> HIDE DEF A, B
<1>6. /\ IsFiniteSet(Merged(A, B))
      /\ \A m \in Merged(A, B) : IsMerged(m, A, B)
      /\ \A r \in A : \E m \in Merged(A, B) : m.id = r.id
      /\ \A m, n \in Merged(A, B) : m.id = n.id => m = n
  BY <1>3, <1>4, MergedRows
<1>7. IsFiniteSet(ServiceRows)
  BY <1>5, <1>6, FS_Subset
<1>8. \A m \in ServiceRows : m \in Merged(A, B) /\ m.id \notin {Empty, Others}
  BY <1>5
<1>9. \A r \in A : r.id \notin {Empty, Others} => \E m \in ServiceRows : m.id = r.id
  BY <1>5, <1>6
<1> QED BY <1>6, <1>7, <1>8, <1>9 DEF A, B

\* A page of services to which no span arrived, its failures, and its two counts.
IsList == page = "sent" /\ service = AllServices /\ ~arrived

FailingSpans == {s \in EntrySpans : s.error}

LEMMA ListCounts ==
    ASSUME HealthInv, IsList
    PROVE  /\ SpansTyped(EntrySpans) /\ SpansTyped(FailingSpans)
           /\ FailingSpans \in SUBSET EntrySpans
           /\ answers[Search("service", "scope", 0)] = ServiceCounts(EntrySpans)
           /\ answers[Search("service", "errors", 0)] = ServiceCounts(FailingSpans)
           /\ EntrySpans = InScope("scope", stored) /\ FailingSpans = InScope("errors", stored)
<1>1. EntrySpans = InScope("scope", stored) /\ FailingSpans = InScope("errors", stored)
  BY DEF EntrySpans, FailingSpans, InScope, Scope
<1>2. answers[Search("service", "scope", 0)] = ServiceCounts(InScope("scope", stored))
  BY CountAnswered DEF IsList
<1>3. answers[Search("service", "errors", 0)] = ServiceCounts(InScope("errors", stored))
  BY CountAnswered DEF IsList
<1>4. SpansTyped(EntrySpans) /\ SpansTyped(FailingSpans)
  BY <1>1, ScopeTyped
<1> QED BY <1>1, <1>2, <1>3, <1>4 DEF FailingSpans

\* The failures of a service are failing spans of it, and among its requests.
LEMMA FailuresKeyed ==
    ASSUME HealthInv, IsList, NEW v
    PROVE  /\ FailuresOf(v) = Keyed(FailingSpans, "service", v)
           /\ Cardinality(FailuresOf(v)) \in Nat /\ Cardinality(OfService(v)) \in Nat
           /\ Cardinality(FailuresOf(v)) <= Cardinality(OfService(v))
<1>1. FailuresOf(v) = Keyed(FailingSpans, "service", v)
  BY DEF FailuresOf, OfService, Keyed, FailingSpans
<1>2. FailuresOf(v) \in SUBSET OfService(v) /\ OfService(v) \in SUBSET EntrySpans
  BY DEF FailuresOf, OfService, Keyed
<1>3. IsFiniteSet(OfService(v)) /\ IsFiniteSet(FailuresOf(v))
  BY <1>2, ListCounts, FS_Subset DEF SpansTyped
<1> QED BY <1>1, <1>2, <1>3, FS_Subset, FS_CardinalityType

\* An aggregation leaves a request out when a service is missing from its top.
LEMMA CutShows ==
    ASSUME HealthInv, IsList, NEW base, NEW spans, SpansTyped(spans),
           answers[Search("service", base, 0)] = ServiceCounts(spans)
    PROVE  LeftOut(base) <=> \E s \in spans : s.service \notin Busiest(spans)
<1> DEFINE cut == {s \in spans : s.service \notin Busiest(spans)}
<1>1. IsFiniteSet(cut) /\ Cardinality(cut) \in Nat /\ (Cardinality(cut) = 0 <=> cut = {})
  BY FS_Subset, FS_CardinalityType, FS_EmptySet DEF SpansTyped
<1>2. OthersRow(spans).requests = Cardinality(cut)
  BY DEF OthersRow
<1>3. LeftOut(base) <=> OthersRow(spans).requests > 0
  BY ServiceCountRows DEF LeftOut
<1> QED BY <1>1, <1>2, <1>3

\* A row of the list has its requests, and its failures or none of those cut.
LEMMA ListRowExact ==
    ASSUME HealthInv, IsList, NEW m \in ServiceRows
    PROVE  /\ m.id \in Busiest(EntrySpans)
           /\ m.requests = Cardinality(OfService(m.id))
           /\ \/ m.errors = Cardinality(FailuresOf(m.id))
              \/ m.errors = 0 /\ LeftOut("errors")
<1> DEFINE A == ServiceCounts(EntrySpans)
           B == ServiceCounts(FailingSpans)
<1>1. IsMerged(m, A, B) /\ m.id \notin {Empty, Others}
  BY ListRows, ListCounts DEF IsList
<1>2. PICK r \in A : m.id = r.id /\ m.requests = r.requests
  BY <1>1 DEF IsMerged
<1>3. m.id \in Busiest(EntrySpans) /\ m.requests = Cardinality(OfService(m.id))
  <2>1. r.id \in Busiest(EntrySpans) /\ r.requests = Cardinality(Keyed(EntrySpans, "service", r.id))
    BY <1>1, <1>2, ListCounts, ServiceCountRows
  <2> QED BY <1>2, <2>1 DEF OfService
<1>4. /\ FailuresOf(m.id) = Keyed(FailingSpans, "service", m.id)
      /\ Cardinality(FailuresOf(m.id)) \in Nat /\ Cardinality(OfService(m.id)) \in Nat
      /\ Cardinality(FailuresOf(m.id)) <= Cardinality(OfService(m.id))
  BY FailuresKeyed
<1>5. CASE \E f \in B : f.id = m.id /\ m.errors = Min({m.requests, f.requests})
  <2>1. PICK f \in B : f.id = m.id /\ m.errors = Min({m.requests, f.requests})
    BY <1>5
  <2>2. f.requests = Cardinality(FailuresOf(m.id))
    BY <1>1, <1>4, <2>1, ListCounts, ServiceCountRows
  <2>3. m.errors = Min({Cardinality(OfService(m.id)), Cardinality(FailuresOf(m.id))})
    BY <1>3, <2>1, <2>2
  <2>4. m.errors = Cardinality(FailuresOf(m.id))
    BY <1>4, <2>3, MinIs
  <2> QED BY <1>3, <2>4
<1>6. CASE (\A f \in B : f.id # m.id) /\ m.errors = 0
  <2>1. m.id \notin Busiest(FailingSpans)
    BY <1>6, ListCounts, ServiceCountRows
  <2>2. CASE FailuresOf(m.id) = {}
    BY <1>3, <1>6, <2>2, FS_EmptySet
  <2>3. CASE FailuresOf(m.id) # {}
    <3>1. \E s \in FailingSpans : s.service \notin Busiest(FailingSpans)
      BY <1>4, <2>1, <2>3 DEF Keyed
    <3>2. LeftOut("errors")
      BY <3>1, ListCounts, CutShows
    <3> QED BY <1>3, <1>6, <3>2
  <2> QED BY <2>2, <2>3
<1> QED BY <1>1, <1>5, <1>6 DEF IsMerged

\* A service of the top with a name is listed.
LEMMA BusiestListed ==
    ASSUME HealthInv, IsList, NEW v \in Busiest(EntrySpans), v # Empty
    PROVE  \E m \in ServiceRows : m.id = v
<1>1. v # Others /\ \E r \in ServiceCounts(EntrySpans) : r.id = v
  BY ListCounts, ServiceCountRows
<1> QED BY <1>1, ListRows, ListCounts DEF IsList

\* A service that is not listed is no busier than one that is.
LEMMA ListedBusiest ==
    ASSUME HealthInv, IsList, NEW m \in ServiceRows, NEW s \in OfNamedServices
    PROVE  \/ \E x \in ServiceRows : x.id = s.service
           \/ m.requests >= Cardinality(OfService(s.service))
<1>1. s \in EntrySpans /\ s.service # Empty /\ s.service \in SpanKeys(EntrySpans, "service")
  BY DEF OfNamedServices, SpanKeys
<1>2. CASE s.service \in Busiest(EntrySpans)
  BY <1>1, <1>2, BusiestListed
<1>3. CASE s.service \notin Busiest(EntrySpans)
  <2>1. m.id \in Busiest(EntrySpans) /\ m.requests = Cardinality(OfService(m.id))
    BY ListRowExact
  <2>2. Cardinality(OfService(m.id)) >= Cardinality(OfService(s.service))
    BY <1>1, <1>3, <2>1, ListCounts, BusiestAre DEF SpansTyped, OfService
  <2> QED BY <2>1, <2>2
<1> QED BY <1>2, <1>3

\* Where every service fits, every failing one does.
LEMMA WholeList ==
    ASSUME HealthInv, IsList, ~servicesTruncated
    PROVE  /\ Busiest(EntrySpans) = SpanKeys(EntrySpans, "service")
           /\ ~LeftOut("errors")
<1> DEFINE D == SpanKeys(EntrySpans, "service")
           E == SpanKeys(FailingSpans, "service")
<1>1. IsFiniteSet(EntrySpans) /\ IsFiniteSet(FailingSpans) /\ FailingSpans \in SUBSET EntrySpans
  BY ListCounts DEF SpansTyped
<1>2. \A s \in EntrySpans : s.service \in Busiest(EntrySpans)
  BY ListCounts, CutShows DEF servicesTruncated
<1>3. Busiest(EntrySpans) = D
  BY <1>1, <1>2, BusiestAre DEF SpanKeys
<1>4. IsFiniteSet(D) /\ IsFiniteSet(E) /\ Cardinality(D) <= SERVICE_LIMIT
  BY <1>1, <1>3, BusiestAre
<1>5. E \in SUBSET D
  BY <1>1 DEF SpanKeys
<1> HIDE DEF D, E
<1>6. Cardinality(E) <= SERVICE_LIMIT
  <2>1. Cardinality(E) <= Cardinality(D)
    BY <1>4, <1>5, FS_Subset
  <2>2. Cardinality(E) \in Nat /\ Cardinality(D) \in Nat /\ SERVICE_LIMIT \in Nat
    BY <1>4, FS_CardinalityType, ServiceHealthAssumption
  <2> QED BY <1>4, <2>1, <2>2
<1>7. Busiest(FailingSpans) = E
  BY <1>1, <1>6, BusiestAre DEF E
<1>8. \A s \in FailingSpans : s.service \in Busiest(FailingSpans)
  BY <1>7 DEF E, SpanKeys
<1>9. ~LeftOut("errors")
  BY <1>8, ListCounts, CutShows
<1> QED BY <1>3, <1>9 DEF D

\* A list that is not truncated counts every request and every failure once.
LEMMA WholeListCounts ==
    ASSUME HealthInv, IsList, ~servicesTruncated
    PROVE  /\ Requests(ServiceRows) = Cardinality(OfNamedServices)
           /\ Total("errors", ServiceRows) = Cardinality({s \in OfNamedServices : s.error})
<1> DEFINE M == ServiceRows
           Failing == {s \in OfNamedServices : s.error}
           p == [m \in M |-> OfService(m.id)]
           q == [m \in M |-> FailuresOf(m.id)]
<1>1. IsFiniteSet(M) /\ IsFiniteSet(OfNamedServices) /\ IsFiniteSet(Failing)
  <2>1. IsFiniteSet(OfNamedServices)
    BY ListCounts, FS_Subset DEF SpansTyped, OfNamedServices
  <2> QED BY <2>1, ListRows, FS_Subset DEF IsList
<1>2. \A m \in M : m.id # Empty
  BY ListRows DEF IsList
<1>3. \A m, n \in M : m.id = n.id => m = n
  BY ListRows DEF IsList
<1>4. /\ p \in [M -> SUBSET OfNamedServices] /\ q \in [M -> SUBSET Failing]
      /\ \A a, b \in M : a # b => p[a] \cap p[b] = {} /\ q[a] \cap q[b] = {}
  BY <1>2, <1>3 DEF OfService, FailuresOf, Keyed, OfNamedServices
<1>5. \A m \in M : m["requests"] = Cardinality(p[m]) /\ m["errors"] = Cardinality(q[m])
  BY ListRowExact, WholeList
<1>6. ASSUME NEW s \in OfNamedServices
      PROVE  \E m \in M : s \in p[m] /\ (s.error => s \in q[m])
  <2>1. s \in EntrySpans /\ s.service # Empty /\ s.service \in Busiest(EntrySpans)
    BY WholeList DEF OfNamedServices, SpanKeys
  <2>2. PICK m \in M : m.id = s.service
    BY <2>1, BusiestListed
  <2> QED BY <2>1, <2>2 DEF OfService, FailuresOf, Keyed
<1> HIDE DEF p, q, M
<1>7. UNION {p[m] : m \in M} = OfNamedServices /\ UNION {q[m] : m \in M} = Failing
  BY <1>4, <1>6
<1>8. Total("requests", M) = Cardinality(OfNamedServices)
  <2> HIDE DEF Failing
  <2> QED BY <1>1, <1>4, <1>5, <1>7, TotalOfSizes
<1>9. Total("errors", M) = Cardinality(Failing)
  <2> HIDE DEF Failing
  <2> QED BY <1>1, <1>4, <1>5, <1>7, TotalOfSizes
<1> QED BY <1>8, <1>9 DEF Requests, M

\* The chart is exact, and the list is for what it lists.
LEMMA ListMatchesChartHolds == HealthInv => ListMatchesChart
<1> SUFFICES ASSUME HealthInv, IsList
             PROVE  /\ Requests(Buckets) = Cardinality(EntrySpans)
                    /\ Total("errors", Buckets) = Cardinality(FailingSpans)
                    /\ \A r \in ServiceRows :
                          /\ r.requests = Cardinality(OfService(r.id))
                          /\ \/ r.errors = Cardinality(FailuresOf(r.id))
                             \/ r.errors = 0 /\ LeftOut("errors")
                          /\ \A s \in OfNamedServices :
                                \/ \E x \in ServiceRows : x.id = s.service
                                \/ r.requests >= Cardinality(OfService(s.service))
                    /\ ~servicesTruncated =>
                          /\ Requests(ServiceRows) = Cardinality(OfNamedServices)
                          /\ Total("errors", ServiceRows) =
                                Cardinality({s \in OfNamedServices : s.error})
  BY DEF ListMatchesChart, IsList, FailingSpans
<1>1. /\ Requests(Buckets) = Cardinality(EntrySpans)
      /\ Total("errors", Buckets) = Cardinality(FailingSpans)
  BY ChartRows, ListCounts DEF IsList
<1> QED BY <1>1, ListRowExact, ListedBusiest, WholeListCounts

\* A merged row shows no more failures than requests.
LEMMA ErrorsWithinRequestsHolds == HealthInv => ErrorsWithinRequests
<1> SUFFICES ASSUME HealthInv, page = "sent"
             PROVE  /\ \A r \in Buckets : r.errors <= r.requests
                    /\ service = AllServices => \A r \in ServiceRows : r.errors <= r.requests
                    /\ service # AllServices /\ ENDPOINT_LIMIT > 0 =>
                          \A r \in Endpoints : r.errors <= r.requests
  BY DEF ErrorsWithinRequests
<1>1. \A r \in Buckets : r.errors <= r.requests
  BY ChartRows
<1>2. service = AllServices => \A r \in ServiceRows : r.errors <= r.requests
  BY ListRows DEF IsMerged
<1>3. HasTable => \A r \in Endpoints : r.errors <= r.requests
  BY TableRows DEF IsMerged
<1> QED BY <1>1, <1>2, <1>3 DEF HasTable

-----------------------------------------------------------------------------
(* The endpoint table is exact *)

\* The values and the operations of the rows of a search.
LEMMA BucketKeys ==
    ASSUME NEW spans, SpansTyped(spans), NEW i \in Sources
    PROVE  LET F == EndpointBuckets(spans, i)
           IN  /\ \A v \in ValuesOf(spans, i) : \A n \in NamesOf(spans, i, v) :
                     \E x \in F : x.id = EndpointId(i, v, n)
               /\ \A x \in F : /\ x.id.value \in ValuesOf(spans, i)
                               /\ x.id.operation \in NamesOf(spans, i, x.id.value)
<1> DEFINE F == EndpointBuckets(spans, i)
<1>1. ASSUME NEW v \in ValuesOf(spans, i), NEW n \in NamesOf(spans, i, v)
      PROVE  \E x \in F : x.id = EndpointId(i, v, n)
  <2>1. EndpointRow(spans, i, v, n) \in F
    BY DEF EndpointBuckets
  <2> QED BY <2>1 DEF EndpointRow
<1>2. ASSUME NEW x \in F
      PROVE  x.id.value \in ValuesOf(spans, i) /\ x.id.operation \in NamesOf(spans, i, x.id.value)
  <2>1. PICK v \in ValuesOf(spans, i) : \E n \in NamesOf(spans, i, v) : x = EndpointRow(spans, i, v, n)
    BY BucketRows
  <2>2. PICK n \in NamesOf(spans, i, v) : x = EndpointRow(spans, i, v, n)
    BY <2>1
  <2>3. x.id.value = v /\ x.id.operation = n
    BY <2>2 DEF EndpointRow, EndpointId
  <2> QED BY <2>3
<1> QED BY <1>1, <1>2

\* A span that no row of its search counts has a value or a name that was cut.
LEMMA CutOff ==
    ASSUME NEW spans, SpansTyped(spans), NEW i \in Sources, NEW s \in spans,
           s.label[i] # Absent,
           \A f \in EndpointBuckets(spans, i) :
              f.id # EndpointId(i, s.label[i], s.label[SourceCount])
    PROVE  LET F == EndpointBuckets(spans, i)
           IN  \/ Cardinality({x.id.value : x \in F}) = CANDIDATES
               \/ Cardinality({x.id.operation : x \in {y \in F : y.id.value = s.label[i]}}) = NAMES
<1> DEFINE F == EndpointBuckets(spans, i)
           D == LabelsOf(spans, i) \ {Absent}
           v == s.label[i]
           n == s.label[SourceCount]
           Cut == \/ Cardinality({x.id.value : x \in F}) = CANDIDATES
                  \/ Cardinality({x.id.operation : x \in {y \in F : y.id.value = v}}) = NAMES
<1>1. /\ \A w \in ValuesOf(spans, i) : \A m \in NamesOf(spans, i, w) :
            \E x \in F : x.id = EndpointId(i, w, m)
      /\ \A x \in F : /\ x.id.value \in ValuesOf(spans, i)
                      /\ x.id.operation \in NamesOf(spans, i, x.id.value)
  BY BucketKeys
<1>2. \A w, m : EndpointId(i, w, m).value = w /\ EndpointId(i, w, m).operation = m
  BY DEF EndpointId
<1>3. /\ ValuesOf(spans, i) \subseteq D
      /\ IsFiniteSet(D)
      /\ Cardinality(ValuesOf(spans, i)) =
            IF CANDIDATES <= Cardinality(D) THEN CANDIDATES ELSE Cardinality(D)
      /\ Cardinality(D) <= CANDIDATES => ValuesOf(spans, i) = D
  BY ValuesAre
<1>4. v \in D
  BY DEF LabelsOf
<1>5. CANDIDATES \in Nat /\ NAMES \in Nat /\ Cardinality(D) \in Nat
  BY <1>3, FS_CardinalityType, ServiceHealthAssumption
<1>6. \A x \in F : x.id # EndpointId(i, v, n)
  OBVIOUS
<1>7. i # SourceCount =>
         /\ n \in LabelsOf(Having(spans, i, v), SourceCount)
         /\ IsFiniteSet(LabelsOf(Having(spans, i, v), SourceCount))
         /\ Cardinality(NamesOf(spans, i, v)) =
               IF NAMES <= Cardinality(LabelsOf(Having(spans, i, v), SourceCount))
               THEN NAMES ELSE Cardinality(LabelsOf(Having(spans, i, v), SourceCount))
         /\ Cardinality(LabelsOf(Having(spans, i, v), SourceCount)) <= NAMES
               => NamesOf(spans, i, v) = LabelsOf(Having(spans, i, v), SourceCount)
  <2>1. n \in LabelsOf(Having(spans, i, v), SourceCount)
    BY DEF LabelsOf, Having
  <2> QED BY <2>1, NamesAre
<1>8. i = SourceCount => \A w : NamesOf(spans, i, w) = {w}
  BY DEF NamesOf
<1> HIDE DEF F, D
<1>9. CASE v \in ValuesOf(spans, i)
  <2>1. n \notin NamesOf(spans, i, v)
    BY <1>1, <1>6, <1>9
  <2>2. i # SourceCount
    BY <1>8, <2>1
  <2>3. Cardinality(NamesOf(spans, i, v)) = NAMES
    <3> DEFINE E == LabelsOf(Having(spans, i, v), SourceCount)
    <3>1. Cardinality(E) \in Nat
      BY <1>7, <2>2, FS_CardinalityType
    <3>2. ~(Cardinality(E) <= NAMES)
      BY <1>7, <2>1, <2>2
    <3>3. Cardinality(NamesOf(spans, i, v)) = IF NAMES <= Cardinality(E) THEN NAMES ELSE Cardinality(E)
      BY <1>7, <2>2
    <3> HIDE DEF E
    <3> QED BY <1>5, <3>1, <3>2, <3>3
  <2>4. {x.id.operation : x \in {y \in F : y.id.value = v}} = NamesOf(spans, i, v)
    BY <1>1, <1>2, <1>9
  <2> QED BY <2>3, <2>4 DEF F
<1>10. CASE v \notin ValuesOf(spans, i)
  <2>1. Cardinality(ValuesOf(spans, i)) = CANDIDATES
    BY <1>3, <1>4, <1>5, <1>10
  <2>2. CASE \A w \in ValuesOf(spans, i) : NamesOf(spans, i, w) # {}
    <3>1. {x.id.value : x \in F} = ValuesOf(spans, i)
      BY <1>1, <1>2, <2>2
    <3> QED BY <2>1, <3>1 DEF F
  <2>3. CASE \E w \in ValuesOf(spans, i) : NamesOf(spans, i, w) = {}
    <3>1. PICK w \in ValuesOf(spans, i) : NamesOf(spans, i, w) = {}
      BY <2>3
    <3>2. i # SourceCount
      BY <1>8, <3>1
    <3>3. NAMES = 0
      <4> DEFINE E == LabelsOf(Having(spans, i, w), SourceCount)
      <4>1. /\ IsFiniteSet(E)
            /\ Cardinality(NamesOf(spans, i, w)) = IF NAMES <= Cardinality(E) THEN NAMES ELSE Cardinality(E)
        BY <3>2, NamesAre
      <4>2. PICK t \in spans : t.label[i] = w
        BY <1>3, <3>1 DEF D, LabelsOf
      <4>3. t.label[SourceCount] \in E
        BY <4>2 DEF LabelsOf, Having
      <4> HIDE DEF E
      <4>4. Cardinality(E) \in Nat /\ Cardinality(E) # 0
        BY <4>1, <4>3, FS_CardinalityType, FS_EmptySet
      <4>5. Cardinality(NamesOf(spans, i, w)) = 0
        BY <3>1, FS_EmptySet
      <4> QED BY <1>5, <4>1, <4>4, <4>5
    <3>4. {y \in F : y.id.value = v} = {}
      BY <1>1, <1>10
    <3>5. Cardinality({x.id.operation : x \in {y \in F : y.id.value = v}}) = 0
      <4>1. {x.id.operation : x \in {y \in F : y.id.value = v}} = {}
        BY <3>4
      <4> QED BY <4>1, FS_EmptySet
    <3> QED BY <3>3, <3>5 DEF F
  <2> QED BY <2>2, <2>3
<1> QED BY <1>9, <1>10

\* What a table shows of a row when nothing arrived.
LEMMA RowsExact ==
    ASSUME HealthInv, EndpointsComplete, NEW m \in Endpoints
    PROVE  /\ m.requests = Cardinality(SpansOf(m))
           /\ \/ m.errors = Cardinality(FailingOf(m))
              \/ m.errors = 0 /\ (ValuesCut(m) \/ NamesCut(m))
<1>1. /\ IsMerged(m, Shown, EndpointAnswers("errors")) /\ IsId(m.id)
      /\ m.requests = Cardinality(LinkedIn("scope", m, stored))
  BY TableRows DEF HasTable, EndpointsComplete
<1>2. SpansOf(m) = LinkedIn("scope", m, stored) /\ FailingOf(m) = LinkedIn("errors", m, stored)
  BY DEF SpansOf, FailingOf, LinkedIn, InScope, Scope, Linked
<1>3. FailingOf(m) \in SUBSET SpansOf(m) /\ IsFiniteSet(SpansOf(m)) /\ IsFiniteSet(FailingOf(m))
  BY FS_Subset DEF FailingOf, SpansOf, HealthInv
<1>4. CASE \E f \in EndpointAnswers("errors") : f.id = m.id /\ m.errors = Min({m.requests, f.requests})
  <2>1. PICK f \in EndpointAnswers("errors") : f.id = m.id /\ m.errors = Min({m.requests, f.requests})
    BY <1>4
  <2>2. f.requests = Cardinality(LinkedIn("errors", f, stored))
    BY AllRows DEF EndpointsComplete
  <2>3. LinkedIn("errors", f, stored) = LinkedIn("errors", m, stored)
    BY <2>1 DEF LinkedIn, Linked
  <2>4. Cardinality(FailingOf(m)) <= Cardinality(SpansOf(m))
        /\ Cardinality(FailingOf(m)) \in Nat /\ Cardinality(SpansOf(m)) \in Nat
    BY <1>3, FS_Subset, FS_CardinalityType
  <2>5. m.errors = Min({Cardinality(SpansOf(m)), Cardinality(FailingOf(m))})
    BY <1>1, <1>2, <2>1, <2>2, <2>3
  <2> QED BY <1>1, <1>2, <2>4, <2>5, MinIs
<1>5. CASE (\A f \in EndpointAnswers("errors") : f.id # m.id) /\ m.errors = 0
  <2>1. CASE FailingOf(m) = {}
    BY <1>1, <1>2, <1>5, <2>1, FS_EmptySet
  <2>2. CASE FailingOf(m) # {}
    <3> DEFINE i == m.id.source
               spans == OfSource("errors", i, stored)
    <3>1. PICK s \in FailingOf(m) : TRUE
      BY <2>2
    <3>2. i \in Sources /\ m.id = EndpointId(i, m.id.value, m.id.operation) /\ m.id.value # Absent
      BY <1>1 DEF IsId
    <3>3. s \in spans /\ s.label[i] = m.id.value /\ s.label[SourceCount] = m.id.operation
      BY <1>2, <3>1 DEF LinkedIn, Linked, OfSource, InScope
    <3>4. FailuresFound(m) = EndpointBuckets(spans, i)
      BY <3>2, EndpointAnswered DEF FailuresFound, EndpointsComplete
    <3>5. FailuresFound(m) \subseteq EndpointAnswers("errors")
      BY <3>2 DEF FailuresFound, EndpointAnswers
    <3>6. SpansTyped(spans)
      BY <3>2, RowLinks DEF EndpointsComplete
    <3> HIDE DEF i, spans
    <3>7. \A f \in EndpointBuckets(spans, i) : f.id # EndpointId(i, s.label[i], s.label[SourceCount])
      BY <1>5, <3>2, <3>3, <3>4, <3>5
    <3>8. LET F == EndpointBuckets(spans, i)
          IN  \/ Cardinality({x.id.value : x \in F}) = CANDIDATES
              \/ Cardinality({x.id.operation : x \in {y \in F : y.id.value = s.label[i]}}) = NAMES
      BY <3>2, <3>3, <3>6, <3>7, CutOff
    <3>9. ValuesCut(m) \/ NamesCut(m)
      BY <3>3, <3>4, <3>8 DEF ValuesCut, NamesCut
    <3> QED BY <1>1, <1>2, <1>5, <3>9
  <2> QED BY <2>1, <2>2
<1> QED BY <1>1, <1>2, <1>4, <1>5 DEF IsMerged

\* Every row found counts a span.
LEMMA RowsCount ==
    ASSUME HealthInv, EndpointsComplete, NEW r \in EndpointAnswers("scope")
    PROVE  \E s \in EntrySpans : Linked(r, s)
<1>1. PICK i \in Sources : r \in answers[Search("endpoint", "scope", i)]
  BY DEF EndpointAnswers
<1> DEFINE spans == OfSource("scope", i, stored)
<1>2. r \in EndpointBuckets(spans, i)
  BY <1>1, EndpointAnswered DEF EndpointsComplete
<1>3. SpansTyped(spans) /\ r.id.source = i
  BY <1>2, RowLinks DEF EndpointsComplete
<1>4. PICK v \in ValuesOf(spans, i) : \E n \in NamesOf(spans, i, v) : r = EndpointRow(spans, i, v, n)
  BY <1>2, <1>3, BucketRows
<1>5. PICK n \in NamesOf(spans, i, v) : r = EndpointRow(spans, i, v, n)
  BY <1>4
<1>6. r.id.value = v /\ r.id.operation = n
  BY <1>5 DEF EndpointRow, EndpointId
<1>7. v \in LabelsOf(spans, i)
  BY <1>3, ValuesAre
<1>8. \E s \in spans : s.label[i] = v /\ s.label[SourceCount] = n
  <2>1. CASE i = SourceCount
    <3>1. n = v
      BY <2>1 DEF NamesOf
    <3> QED BY <1>7, <2>1, <3>1 DEF LabelsOf
  <2>2. CASE i # SourceCount
    <3>1. n \in LabelsOf(Having(spans, i, v), SourceCount)
      BY <1>3, <2>2, NamesAre
    <3> QED BY <3>1 DEF LabelsOf, Having
  <2> QED BY <2>1, <2>2
<1>9. PICK s \in spans : s.label[i] = v /\ s.label[SourceCount] = n
  BY <1>8
<1>10. s \in EntrySpans /\ Linked(r, s)
  BY <1>3, <1>6, <1>9 DEF EntrySpans, Linked, OfSource, InScope, Scope, EndpointsComplete
<1> QED BY <1>10

\* The labels of the requests stored.
EntryLabels == {s.label : s \in EntrySpans}

\* There are no more rows than labels, for a label tells its row.
LEMMA RowsByLabel ==
    ASSUME HealthInv, EndpointsComplete
    PROVE  /\ IsFiniteSet(EntryLabels) /\ Cardinality(EntryLabels) \in Nat
           /\ Cardinality(EndpointAnswers("scope")) <= Cardinality(EntryLabels)
<1> DEFINE rows == EndpointAnswers("scope")
           Tells(l, r) == \E s \in EntrySpans : s.label = l /\ Linked(r, s)
           g == [l \in EntryLabels |-> CHOOSE r \in rows : Tells(l, r)]
           Image == {g[l] : l \in EntryLabels}
<1>1. IsFiniteSet(EntryLabels) /\ Cardinality(EntryLabels) \in Nat
  <2> DEFINE f == [s \in EntrySpans |-> s.label]
  <2>1. EntryLabels = {f[s] : s \in EntrySpans}
    BY DEF EntryLabels
  <2> HIDE DEF f
  <2> QED BY <2>1, EntrySpansFinite, ImageFinite, FS_CardinalityType
<1>2. IsFiniteSet(rows) /\ \A r \in rows : IsId(r.id) /\ \A x \in rows : r.id = x.id => r = x
  BY AllRows DEF EndpointsComplete
<1>3. ASSUME NEW r \in rows
      PROVE  r \in Image
  <2>1. PICK s \in EntrySpans : Linked(r, s)
    BY RowsCount
  <2>2. s.label \in EntryLabels /\ Tells(s.label, r)
    BY <2>1 DEF EntryLabels
  <2>3. PICK x \in rows : x = g[s.label] /\ Tells(s.label, x)
    BY <2>2
  <2>4. PICK t \in EntrySpans : t.label = s.label /\ Linked(x, t)
    BY <2>3
  <2>5. Linked(r, t)
    BY <2>1, <2>4 DEF Linked, FirstSource
  <2>6. r.id = x.id
    BY <1>2, <2>4, <2>5, LinkedOnce
  <2>7. r = x
    BY <1>2, <2>6
  <2> QED BY <2>2, <2>3, <2>7
<1> HIDE DEF g
<1>4. IsFiniteSet(Image) /\ Cardinality(Image) <= Cardinality(EntryLabels)
  BY <1>1, ImageFinite
<1>5. rows \in SUBSET Image
  BY <1>3
<1> HIDE DEF Image
<1>6. Cardinality(rows) <= Cardinality(Image)
  BY <1>4, <1>5, FS_Subset
<1>7. Cardinality(rows) \in Nat /\ Cardinality(Image) \in Nat
  BY <1>2, <1>4, FS_CardinalityType
<1> HIDE DEF rows
<1>8. Cardinality(rows) <= Cardinality(EntryLabels)
  BY <1>1, <1>4, <1>6, <1>7
<1> QED BY <1>1, <1>8 DEF rows

\* So are the values of a source, and the names of a value.
LEMMA KeysByLabel ==
    ASSUME HealthInv, service # AllServices, NEW S \in SUBSET EntrySpans, NEW i
    PROVE  Cardinality(LabelsOf(S, i)) <= Cardinality(EntryLabels)
<1> DEFINE Image == {l[i] : l \in EntryLabels}
           f == [l \in EntryLabels |-> l[i]]
<1>1. IsFiniteSet(EntryLabels)
  <2> DEFINE h == [s \in EntrySpans |-> s.label]
  <2>1. EntryLabels = {h[s] : s \in EntrySpans}
    BY DEF EntryLabels
  <2> HIDE DEF h
  <2> QED BY <2>1, EntrySpansFinite, ImageFinite
<1>2. Image = {f[l] : l \in EntryLabels}
  OBVIOUS
<1> HIDE DEF f
<1>3. IsFiniteSet(Image) /\ Cardinality(Image) <= Cardinality(EntryLabels)
  <2> HIDE DEF Image
  <2> QED BY <1>1, <1>2, ImageFinite
<1>4. LabelsOf(S, i) \in SUBSET Image
  BY DEF LabelsOf, EntryLabels
<1> HIDE DEF Image
<1>5. IsFiniteSet(LabelsOf(S, i)) /\ Cardinality(LabelsOf(S, i)) <= Cardinality(Image)
  BY <1>3, <1>4, FS_Subset
<1>6. /\ Cardinality(LabelsOf(S, i)) \in Nat /\ Cardinality(Image) \in Nat
      /\ Cardinality(EntryLabels) \in Nat
  BY <1>1, <1>3, <1>5, FS_CardinalityType
<1> QED BY <1>3, <1>5, <1>6

\* A span has a first label.
LEMMA HasFirstSource ==
    ASSUME NEW s \in AllSpans
    PROVE  \E i \in Sources : s.label[i] # Absent /\ FirstSource(s, i)
<1> DEFINE S == {i \in Sources : s.label[i] # Absent}
           w == [i \in Sources |-> SourceCount - i]
<1>1. IsFiniteSet(S) /\ SourceCount \in S /\ SourceCount \in Nat
  <2>1. SourceCount \in Nat \ {0} /\ s.label[SourceCount] # Absent
    BY ServiceHealthAssumption
  <2>2. IsFiniteSet(Sources) /\ SourceCount \in Sources
    BY <2>1, FS_Interval DEF Sources
  <2>3. S \in SUBSET Sources
    OBVIOUS
  <2>4. IsFiniteSet(S)
    BY <2>2, <2>3, FS_Subset
  <2> QED BY <2>1, <2>2, <2>4
<1>2. \A i \in S : w[i] \in Nat
  BY <1>1 DEF Sources
<1>3. PICK i \in S : \A j \in S : w[i] >= w[j]
  <2> HIDE DEF w, S
  <2> QED BY <1>1, <1>2, HasLargest
<1>4. \A j \in 1..(i - 1) : s.label[j] = Absent
  <2> SUFFICES ASSUME NEW j \in 1..(i - 1), s.label[j] # Absent
               PROVE  FALSE
    OBVIOUS
  <2>1. j \in S /\ i \in 1..SourceCount
    BY <1>1 DEF Sources
  <2> QED BY <1>1, <1>3, <2>1 DEF Sources
<1> QED BY <1>4 DEF FirstSource

\* With room for every value, name and row, a span that has a name for its row is
\* linked from it.
LEMMA RoomForAll ==
    ASSUME HealthInv, EndpointsComplete,
           Cardinality(EntryLabels) <= CANDIDATES, Cardinality(EntryLabels) <= NAMES,
           Cardinality(EntryLabels) <= ENDPOINT_LIMIT, NEW s \in EntrySpans, ~Unnamed(s)
    PROVE  \E m \in Endpoints : Linked(m, s)
<1>1. s \in AllSpans /\ service # AllServices
  BY DEF EntrySpans, HealthInv, EndpointsComplete
<1>2. PICK i \in Sources : s.label[i] # Absent /\ FirstSource(s, i)
  BY <1>1, HasFirstSource
<1> DEFINE spans == OfSource("scope", i, stored)
           v == s.label[i]
           n == s.label[SourceCount]
           D == LabelsOf(spans, i)
           E == LabelsOf(Having(spans, i, v), SourceCount)
<1>3. SpansTyped(spans)
  BY <1>1, RowLinks
<1>4. s \in spans /\ spans \in SUBSET EntrySpans /\ Having(spans, i, v) \in SUBSET EntrySpans
  BY <1>2 DEF EntrySpans, OfSource, InScope, Having
<1>5. /\ Cardinality(D) <= Cardinality(EntryLabels) /\ Cardinality(E) <= Cardinality(EntryLabels)
  BY <1>1, <1>4, KeysByLabel
<1>6. /\ IsFiniteSet(D) /\ IsFiniteSet(E) /\ Cardinality(D) \in Nat /\ Cardinality(E) \in Nat
      /\ Cardinality(EntryLabels) \in Nat
      /\ {CANDIDATES, NAMES, ENDPOINT_LIMIT} \subseteq Nat
  BY <1>3, LabelsFinite, NamedTyped, RowsByLabel, FS_CardinalityType, ServiceHealthAssumption DEF SpansTyped
<1>7. v \in ValuesOf(spans, i)
  <2>1. v \in D \ {Absent}
    BY <1>2, <1>4 DEF LabelsOf
  <2>2. IsFiniteSet(D \ {Absent}) /\ Cardinality(D \ {Absent}) <= Cardinality(D)
    BY <1>6, FS_Subset
  <2>3. Cardinality(D \ {Absent}) \in Nat
    BY <2>2, FS_CardinalityType
  <2>4. Cardinality(D \ {Absent}) <= CANDIDATES
    <3> HIDE DEF D
    <3> QED BY <1>5, <1>6, <2>2, <2>3
  <2>5. ValuesOf(spans, i) = D \ {Absent}
    <3> HIDE DEF spans
    <3> QED BY <1>3, <2>4, ValuesAre
  <2> QED BY <2>1, <2>5
<1>8. n \in NamesOf(spans, i, v)
  <2>1. CASE i = SourceCount
    BY <2>1 DEF NamesOf
  <2>2. CASE i # SourceCount
    <3>1. n \in E
      BY <1>4 DEF LabelsOf, Having
    <3>2. Cardinality(E) <= NAMES
      <4> HIDE DEF E
      <4> QED BY <1>5, <1>6
    <3>3. NamesOf(spans, i, v) = E
      <4> HIDE DEF spans
      <4> QED BY <1>3, <2>2, <3>2, NamesAre
    <3> QED BY <3>1, <3>3
  <2> QED BY <2>1, <2>2
<1>9. PICK r \in EndpointBuckets(spans, i) : r.id = EndpointId(i, v, n)
  <2> HIDE DEF spans, v, n
  <2> QED BY <1>3, <1>7, <1>8, BucketKeys
<1>10. r \in EndpointAnswers("scope")
  <2>1. answers[Search("endpoint", "scope", i)] = EndpointBuckets(spans, i)
    BY EndpointAnswered DEF EndpointsComplete
  <2> QED BY <2>1 DEF EndpointAnswers
<1>11. Shown = NamedRows
  <2>1. IsFiniteSet(EndpointAnswers("scope"))
    BY AllRows DEF EndpointsComplete
  <2>2. /\ Cardinality(EndpointAnswers("scope")) \in Nat
        /\ Cardinality(EndpointAnswers("scope")) <= Cardinality(EntryLabels)
    BY <2>1, RowsByLabel, FS_CardinalityType
  <2>3. Cardinality(EndpointAnswers("scope")) <= ENDPOINT_LIMIT
    BY <1>6, <2>2
  <2> QED BY <2>3, ShownRows DEF HasTable, EndpointsComplete
<1>n. r \in NamedRows
  <2>1. ~Nameless(r)
    BY <1>2, <1>9 DEF Nameless, Unnamed, EndpointId
  <2> QED BY <1>10, <2>1 DEF NamedRows
<1>12. PICK m \in Endpoints : m.id = r.id
  BY <1>n, <1>11, TableRows DEF HasTable, EndpointsComplete
<1>13. m.id.source = i /\ m.id.value = v /\ m.id.operation = n
  BY <1>9, <1>12 DEF EndpointId
<1>14. Linked(m, s)
  BY <1>1, <1>2, <1>13 DEF Linked, EntrySpans, Scope
<1> QED BY <1>14

\* A span linked from a row of the table has a name for it.
LEMMA LinkedIsNamed ==
    ASSUME NEW r, IsId(r.id), ~Nameless(r), NEW s, Linked(r, s)
    PROVE  ~Unnamed(s)
<1> SUFFICES ASSUME Unnamed(s) PROVE FALSE
  OBVIOUS
<1>1. PICK i \in Sources : FirstSource(s, i) /\ s.label[i] = Empty /\ s.label[SourceCount] = Empty
  BY DEF Unnamed
<1> DEFINE x == [id |-> EndpointId(i, Empty, Empty)]
<1>2. x.id.source = i /\ x.id.value = Empty /\ x.id.operation = Empty
  BY DEF EndpointId
<1>3. IsId(x.id)
  BY <1>2, ServiceHealthAssumption DEF IsId
<1>4. Linked(x, s)
  BY <1>1, <1>2 DEF Linked
<1> HIDE DEF x
<1>5. r.id = x.id
  BY <1>3, <1>4, LinkedOnce
<1> QED BY <1>2, <1>5 DEF Nameless

\* A row is right, and with room for all labels every request with a name has one.
LEMMA EndpointsExactHolds == HealthInv => EndpointsExact
<1> DEFINE Rowed == {s \in EntrySpans : ~Unnamed(s)}
<1> SUFFICES ASSUME HealthInv, EndpointsComplete
             PROVE  /\ \A r \in Endpoints :
                          /\ r.requests = Cardinality(SpansOf(r))
                          /\ \/ r.errors = Cardinality(FailingOf(r))
                             \/ r.errors = 0 /\ (ValuesCut(r) \/ NamesCut(r))
                    /\ Cardinality(EntryLabels) <= Min({CANDIDATES, NAMES, ENDPOINT_LIMIT})
                          => Requests(Endpoints) = Cardinality(Rowed)
  BY DEF EndpointsExact, EntryLabels
<1>1. ASSUME Cardinality(EntryLabels) <= Min({CANDIDATES, NAMES, ENDPOINT_LIMIT})
      PROVE  Requests(Endpoints) = Cardinality(Rowed)
  <2> DEFINE p == [m \in Endpoints |-> LinkedIn("scope", m, stored)]
  <2>1. Cardinality(EntryLabels) \in Nat /\ {CANDIDATES, NAMES, ENDPOINT_LIMIT} \subseteq Nat
    BY RowsByLabel, ServiceHealthAssumption
  <2>2. /\ Cardinality(EntryLabels) <= CANDIDATES /\ Cardinality(EntryLabels) <= NAMES
        /\ Cardinality(EntryLabels) <= ENDPOINT_LIMIT
    BY <1>1, <2>1, MinIsOfThree
  <2>3. \A s \in Rowed : \E m \in Endpoints : Linked(m, s)
    BY <2>2, RoomForAll
  <2>4. p \in [Endpoints -> SUBSET EntrySpans] /\ \A a, b \in Endpoints : a # b => p[a] \cap p[b] = {}
    BY TableParts DEF HasTable, EndpointsComplete
  <2>5. \A m \in Endpoints : m["requests"] = Cardinality(p[m])
    BY TableRows DEF HasTable, EndpointsComplete
  <2>6. IsFiniteSet(Endpoints) /\ IsFiniteSet(EntrySpans)
    BY TableRows, EntrySpansFinite DEF HasTable, EndpointsComplete
  <2>7. Rowed = UNION {p[m] : m \in Endpoints}
    <3>1. ASSUME NEW s \in Rowed
          PROVE  \E m \in Endpoints : s \in p[m]
      <4>1. PICK m \in Endpoints : Linked(m, s)
        BY <2>3
      <4>2. s \in p[m]
        BY <4>1 DEF LinkedIn, InScope, EntrySpans
      <4> QED BY <4>2
    <3>2. ASSUME NEW m \in Endpoints, NEW s \in p[m]
          PROVE  s \in Rowed
      <4>1. s \in EntrySpans /\ Linked(m, s)
        BY DEF LinkedIn, InScope, EntrySpans
      <4>2. IsId(m.id) /\ ~Nameless(m)
        BY TableRows DEF HasTable, EndpointsComplete
      <4> QED BY <4>1, <4>2, LinkedIsNamed
    <3> HIDE DEF p
    <3> QED BY <3>1, <3>2
  <2> HIDE DEF p
  <2>8. Total("requests", Endpoints) = Cardinality(UNION {p[m] : m \in Endpoints})
    BY <2>4, <2>5, <2>6, TotalOfSizes
  <2> QED BY <2>7, <2>8 DEF Requests
<1> QED BY <1>1, RowsExact

\* The numbers of a page fit together.
LEMMA HealthInv_NumbersAddUp == HealthInv => NumbersAddUp
BY CountedOnceHolds, ErrorsWithinRequestsHolds, EndpointsExactHolds, ListMatchesChartHolds
   DEF NumbersAddUp

\* A search answers finite rows with ids of their own, whenever it is answered
\* (searches, service-health.service.ts).
THEOREM HealthTypeCorrect == HealthSpec => []HealthTypeOK
  BY HealthInvHolds, HealthInv_Types, PTL

\* The numbers of a page fit together, for any spans, sources and limits and any
\* order of answers and arrivals: no request is counted twice, nothing fails more
\* often than it is called, and when nothing arrives meanwhile the chart is exact, the
\* endpoint table and the list of services are exact for what they list, but for
\* failures their limits cut, and a list that does not say it is truncated has every
\* request of a service with a name.
THEOREM NumbersHold == HealthSpec => []NumbersAddUp
  BY HealthInvHolds, HealthInv_NumbersAddUp, PTL

-----------------------------------------------------------------------------
(* The parts together *)

\* Each part behaves as it does alone, so what is proved of a part is proved here.
LEMMA ApiPartsAlone ==
    ApiSpec => /\ KeysSpec /\ BootSpec /\ ProviderSpec
               /\ IndexRowsSpec /\ ConfigSpec /\ ProxySpec /\ HealthSpec
<1>1. ApiInit => /\ KeysInit /\ BootInit /\ ProviderInit
                 /\ IndexRowsInit /\ ConfigInit /\ ProxyInit /\ HealthInit
  BY DEF ApiInit
<1>2. [ApiNext]_apiVars => [KeysNext]_keyVars /\ [BootNext]_bootVars /\ [ProviderNext]_providerVars
  BY DEF ApiNext, apiVars
<1>3. [ApiNext]_apiVars => [IndexRowsNext]_indexRowsVars /\ [ConfigNext]_configVars
  BY DEF ApiNext, apiVars, ConfigNext
<1>4. [ApiNext]_apiVars => [ProxyNext]_proxyVars /\ [HealthNext]_healthVars
  BY DEF ApiNext, apiVars
<1> QED BY <1>1, <1>2, <1>3, <1>4, PTL
        DEF ApiSpec, KeysSpec, BootSpec, ProviderSpec, IndexRowsSpec, ConfigSpec, ProxySpec, HealthSpec

\* Every part of the API is well typed; in particular no boot tries a step more often
\* than its limit (BootTypeOK), and an index has one row of settings and one of stats
\* (IndexRowsTypeOK).
THEOREM ApiTypeCorrect == ApiSpec => []ApiTypeOK
<1>1. ApiSpec => [](KeysTypeOK /\ BootTypeOK /\ ProviderTypeOK)
  BY ApiPartsAlone, KeysTypeCorrect, BootTypeCorrect, ProviderTypeCorrect, PTL
<1>2. ApiSpec => [](IndexRowsTypeOK /\ ConfigTypeOK)
  BY ApiPartsAlone, IndexRowsTypeCorrect, ConfigTypeCorrect, PTL
<1>3. ApiSpec => [](ProxyTypeOK /\ HealthTypeOK)
  BY ApiPartsAlone, ProxyTypeCorrect, HealthTypeCorrect, PTL
<1>4. KeysTypeOK /\ BootTypeOK /\ ProviderTypeOK /\ IndexRowsTypeOK /\ ConfigTypeOK
      /\ ProxyTypeOK /\ HealthTypeOK => ApiTypeOK
  BY DEF ApiTypeOK
<1> QED BY <1>1, <1>2, <1>3, <1>4, PTL

=============================================================================
