---------------------------- MODULE PersonalKeys ----------------------------
(***************************************************************************)
(* Service accounts and the keys that read logs in somebody's name         *)
(* (services/service-account.service.ts, the removals of user.service.ts,  *)
(* middleware/require-user-or-personal-key.ts, db/auth.schema.ts).         *)
(*                                                                         *)
(* A person makes and deletes keys of their own, an admin those of service *)
(* accounts.  A request with a key is let in by two reads: the key, then   *)
(* its owner.  Creating a key reads the owner and inserts the key later,   *)
(* and deleting one reads the key and deletes it later.                    *)
(*                                                                         *)
(* Abstractions.  Ids and tokens are never reused.  A key's permissions    *)
(* are whether they hold logs:read.  Better Auth's plugin finds a key by   *)
(* its hash; its update of lastRequest, made later, finds the row or not.  *)
(***************************************************************************)
EXTENDS FiniteSets

CONSTANTS
    Members,        \* people with an account
    ServiceAccounts,
    KeyIds,
    Readers,        \* requests that carry a key
    KeyAdmins,      \* requests of an admin to the routes of service accounts
    NoOwner,
    NoKeyId

Owners == Members \cup ServiceAccounts

ASSUME PersonalKeysAssumption ==
    /\ Members \cap ServiceAccounts = {}
    /\ NoOwner \notin Owners
    /\ NoKeyId \notin KeyIds

VARIABLES
    present,    \* the user rows
    keyRow,     \* apikey rows: none, or owner and permission
    reader,     \* the requests with a key
    admin,      \* the creations and deletions under way
    \* History, read by the properties only:
    used,       \* key ids that were given out
    revoked,    \* owners of the keys an admin deleted
    misled      \* a request was let in whose owner was gone before its last read

keyVars == <<present, keyRow, reader, admin, used, revoked, misled>>

NoKeyRow == [owner |-> NoOwner, logs |-> FALSE]
IdleReader == [pc |-> "idle", owner |-> NoOwner]
IdleAdmin == [pc |-> "idle", owner |-> NoOwner, key |-> NoKeyId]

Rows == {k \in KeyIds : keyRow[k].owner # NoOwner}
KeysOf(u) == {k \in Rows : keyRow[k].owner = u}

Without(ks) == [k \in KeyIds |-> IF k \in ks THEN NoKeyRow ELSE keyRow[k]]

KeysInit ==
    /\ present = Owners
    /\ keyRow = [k \in KeyIds |-> NoKeyRow]
    /\ reader = [r \in Readers |-> IdleReader]
    /\ admin = [a \in KeyAdmins |-> IdleAdmin]
    /\ used = {} /\ revoked = {} /\ misled = FALSE

-----------------------------------------------------------------------------
(* Keys *)

\* The foreign key of apikey.reference_id.
HasUserRow(u) == u \in present

InsertKey(k, u, logs) ==
    /\ k \notin used
    /\ used' = used \cup {k}
    /\ keyRow' = [keyRow EXCEPT ![k] = [owner |-> u, logs |-> logs]]

\* A person makes a key: always with the default permissions.
MakeOwnKey(u, k) ==
    /\ u \in Members \cap present
    /\ InsertKey(k, u, TRUE)
    /\ UNCHANGED <<present, reader, admin, revoked, misled>>

\* A person deletes a key of their own.
DeleteOwnKey(k) ==
    /\ k \in Rows
    /\ keyRow[k].owner \in Members
    /\ keyRow' = Without({k})
    /\ UNCHANGED <<present, reader, admin, used, revoked, misled>>

\* createServiceAccountKey finds the account.
FindServiceAccount(a, u) ==
    /\ admin[a].pc = "idle"
    /\ u \in ServiceAccounts \cap present
    /\ admin' = [admin EXCEPT ![a] = [IdleAdmin EXCEPT !.pc = "creating", !.owner = u]]
    /\ UNCHANGED <<present, keyRow, reader, used, revoked, misled>>

\* The plugin inserts the key, unless the account is gone.
CreateServiceAccountKey(a, k) ==
    /\ admin[a].pc = "creating"
    /\ HasUserRow(admin[a].owner)
    /\ InsertKey(k, admin[a].owner, TRUE)
    /\ admin' = [admin EXCEPT ![a] = IdleAdmin]
    /\ UNCHANGED <<present, reader, revoked, misled>>

\* The join of deleteServiceAccountKey.
IsServiceAccountKey(k) == k \in Rows /\ keyRow[k].owner \in ServiceAccounts

FindKeyToDelete(a, k) ==
    /\ admin[a].pc = "idle"
    /\ IsServiceAccountKey(k)
    /\ admin' = [admin EXCEPT ![a] = [IdleAdmin EXCEPT !.pc = "deleting", !.key = k]]
    /\ UNCHANGED <<present, keyRow, reader, used, revoked, misled>>

\* The second one to delete it finds nothing.
DeleteServiceAccountKey(a) ==
    /\ admin[a].pc = "deleting"
    /\ keyRow' = Without({admin[a].key})
    /\ revoked' = revoked \cup {keyRow[k].owner : k \in {admin[a].key} \cap Rows}
    /\ admin' = [admin EXCEPT ![a] = IdleAdmin]
    /\ UNCHANGED <<present, reader, used, misled>>

\* The insert is refused, or the request dies.
AdminFails(a) ==
    /\ admin[a].pc # "idle"
    /\ admin' = [admin EXCEPT ![a] = IdleAdmin]
    /\ UNCHANGED <<present, keyRow, reader, used, revoked, misled>>

\* removeServiceAccount and removeUser: the keys go with the user row.
RemoveOwner(u) ==
    /\ u \in present
    /\ present' = present \ {u}
    /\ keyRow' = Without(KeysOf(u))
    /\ UNCHANGED <<reader, admin, used, revoked, misled>>

-----------------------------------------------------------------------------
(* Requests with a key *)

\* verifyApiKey: the row is there and has the permission the route requires.
VerifyKey(r, k) ==
    /\ reader[r].pc = "idle"
    /\ k \in Rows
    /\ keyRow[k].logs
    /\ reader' = [reader EXCEPT ![r] = [pc |-> "verified", owner |-> keyRow[k].owner]]
    /\ UNCHANGED <<present, keyRow, admin, used, revoked, misled>>

\* Mutation: the owner is taken from the key.
OwnerOfKey(u) == TRUE

\* The SELECT of the owner.
OwnerFound(u) == u \in present

\* The request goes on as a plain user, whatever the owner's role.
LetIn(r) ==
    /\ reader[r].pc = "verified"
    /\ OwnerFound(reader[r].owner)
    /\ misled' = (misled \/ reader[r].owner \notin present)
    /\ reader' = [reader EXCEPT ![r].pc = "in"]
    /\ UNCHANGED <<present, keyRow, admin, used, revoked>>

\* 401, or the request is served.
ReaderEnds(r) ==
    /\ reader[r].pc # "idle"
    /\ reader[r].pc = "verified" => ~OwnerFound(reader[r].owner)
    /\ reader' = [reader EXCEPT ![r] = IdleReader]
    /\ UNCHANGED <<present, keyRow, admin, used, revoked, misled>>

KeysNext ==
    \/ \E k \in KeyIds : DeleteOwnKey(k) \/ \E u \in Members : MakeOwnKey(u, k)
    \/ \E a \in KeyAdmins :
          \/ \E u \in ServiceAccounts : FindServiceAccount(a, u)
          \/ \E k \in KeyIds : CreateServiceAccountKey(a, k) \/ FindKeyToDelete(a, k)
          \/ DeleteServiceAccountKey(a) \/ AdminFails(a)
    \/ \E u \in Owners : RemoveOwner(u)
    \/ \E r \in Readers : LetIn(r) \/ ReaderEnds(r) \/ \E k \in KeyIds : VerifyKey(r, k)

KeysSpec == KeysInit /\ [][KeysNext]_keyVars

-----------------------------------------------------------------------------
(* Properties *)

KeysTypeOK ==
    /\ present \subseteq Owners
    /\ \A k \in KeyIds : keyRow[k] = NoKeyRow \/ keyRow[k] \in [owner : Owners, logs : BOOLEAN]
    /\ \A r \in Readers : reader[r].pc \in {"idle", "verified", "in"}
    /\ \A a \in KeyAdmins : admin[a].pc \in {"idle", "creating", "deleting"}
    /\ Rows \subseteq used

\* A removed account leaves no key behind, not even one that was being created
\* when it went: nobody could see or delete it ("deleting the owner removes the
\* key", api-keys.test.ts).
NoKeyWithoutOwner == \A k \in Rows : keyRow[k].owner \in present

\* A request is let in only for an account that is still there when its owner
\* is read, although the key was verified before
\* (middleware/require-user-or-personal-key.ts).
RemovedOwnerKeptOut == ~misled

\* KeyAdmins delete the keys of service accounts only: a person's key is never
\* among them (deleteServiceAccountKey).
OnlyServiceKeysRevoked == revoked \subseteq ServiceAccounts

\* Keys go with their owners, let in nobody else, and are deleted by whoever may.
KeysRightful ==
    /\ NoKeyWithoutOwner
    /\ RemovedOwnerKeptOut
    /\ OnlyServiceKeysRevoked

=============================================================================
