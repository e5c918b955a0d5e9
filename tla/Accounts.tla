------------------------------ MODULE Accounts ------------------------------
(***************************************************************************)
(* Human accounts: the first admin, roles, invites, passwords and sessions *)
(* (services/auth.service.ts, services/user.service.ts, routes/auth.ts,    *)
(* routes/users.ts, middleware/require-admin.ts).                          *)
(*                                                                         *)
(* A request is authorised from the session's user row and acts later.     *)
(* Transactions run at READ COMMITTED: a DELETE or UPDATE touches the rows *)
(* its own snapshot saw, so a transaction that issues an invite is split   *)
(* into its begin, the snapshot of its DELETE and its commit, and other    *)
(* transactions may commit in between.  A transaction of which only the    *)
(* outcome can be seen by others is one step.                              *)
(*                                                                         *)
(* Abstractions.  Tokens and account ids are random and never reused.  A   *)
(* password is whether there is one; sign-in is Better Auth's: it checks   *)
(* the password and inserts the session in a later step.  Password sign-in *)
(* is enabled (resetPassword refuses otherwise).                           *)
(***************************************************************************)
EXTENDS Naturals

CONSTANTS
    Users,         \* account ids
    Tokens,        \* invite tokens
    Calls,         \* requests to the users routes
    Setups,        \* requests to /auth/setup-admin
    Redeemers,     \* requests to /auth/setup-password
    NoUser,
    NoToken,
    MaxResets      \* bound on the password resets of a user, for model checking

ASSUME AccountsAssumption ==
    /\ NoUser \notin Users
    /\ NoToken \notin Tokens
    /\ MaxResets \in Nat

Roles == {"user", "admin"}

VARIABLES
    claimed,      \* the first_admin_claimed row exists
    role,         \* user rows: a role, or why there is none
    invite,       \* invite_token rows: token -> owner and state
    credential,   \* account rows of providerId 'credential'
    sessions,     \* session rows of each user, by the resets they knew
    setup,        \* /setup-admin requests
    call,         \* users-route requests
    redeem,       \* /setup-password requests
    signin,       \* password sign-ins between check and insert
    linking,      \* users whose provider account is created, invite not yet consumed
    \* History, read by the properties only:
    resets,       \* completed password resets of each user
    firstAdmins,  \* accounts created through /setup-admin
    dead,         \* invites that must not be redeemed any more
    stale,        \* a role or account was changed by somebody no longer admin
    late          \* what got past a reset because it was under way while the reset ran

vars == <<claimed, role, invite, credential, sessions, setup, call, redeem,
          signin, linking, resets, firstAdmins, dead, stale, late>>

ghosts == <<resets, firstAdmins, dead, stale, late>>

-----------------------------------------------------------------------------
(* Types and initial state *)

Invite == [owner : Users \cup {NoUser}, state : {"unissued", "live", "expired", "gone"}]

\* row tells one credential row from the next; gen is the resets it knew.
Credential == [row : Nat, set : BOOLEAN, gen : Nat]

\* older: invites live when the request began; seen: the rows the DELETE of
\* replaceInviteToken will remove; row, revoked: what a reset will clear.
Call == [pc : {"idle", "authorized", "issuing", "replacing"},
         actor : Users \cup {NoUser}, user : Users \cup {NoUser}, reset : BOOLEAN,
         older : SUBSET Tokens, seen : SUBSET Tokens, row : Nat, revoked : SUBSET Nat]

IdleCall == [pc |-> "idle", actor |-> NoUser, user |-> NoUser, reset |-> FALSE,
             older |-> {}, seen |-> {}, row |-> 0, revoked |-> {}]

TypeOK ==
    /\ claimed \in BOOLEAN
    /\ role \in [Users -> Roles \cup {"absent", "removed"}]
    /\ invite \in [Tokens -> Invite]
    /\ credential \in [Users -> Credential]
    /\ sessions \in [Users -> SUBSET Nat]
    /\ setup \in [Setups -> {"idle", "unclaimed"}]
    /\ call \in [Calls -> Call]
    /\ redeem \in [Redeemers -> Tokens \cup {NoToken}]
    /\ signin \in [Users -> SUBSET Nat]
    /\ linking \in SUBSET Users
    /\ resets \in [Users -> Nat]
    /\ firstAdmins \in Nat
    /\ dead \in SUBSET Tokens
    /\ stale \in BOOLEAN
    /\ late \in [Users -> SUBSET {"session", "password"}]

NoCredential == [row |-> 0, set |-> FALSE, gen |-> 0]

Init ==
    /\ claimed = FALSE
    /\ role = [u \in Users |-> "absent"]
    /\ invite = [t \in Tokens |-> [owner |-> NoUser, state |-> "unissued"]]
    /\ credential = [u \in Users |-> NoCredential]
    /\ sessions = [u \in Users |-> {}]
    /\ setup = [s \in Setups |-> "idle"]
    /\ call = [c \in Calls |-> IdleCall]
    /\ redeem = [s \in Redeemers |-> NoToken]
    /\ signin = [u \in Users |-> {}]
    /\ linking = {}
    /\ resets = [u \in Users |-> 0]
    /\ firstAdmins = 0
    /\ dead = {}
    /\ stale = FALSE
    /\ late = [u \in Users |-> {}]

Exists(u) == role[u] \in Roles
Admins == {u \in Users : role[u] = "admin"}
LiveInvites(u) == {t \in Tokens : invite[t].owner = u /\ invite[t].state = "live"}
InviteRows(u) == {t \in Tokens : invite[t].owner = u /\ invite[t].state \in {"live", "expired"}}

\* These rows leave invite_token.
Drop(rows) ==
    [t \in Tokens |-> IF t \in rows THEN [owner |-> invite[t].owner, state |-> "gone"] ELSE invite[t]]

\* The credential row a redemption or a setup inserts.
NextCredential(u) == [row |-> credential[u].row + 1, set |-> TRUE, gen |-> resets[u]]

-----------------------------------------------------------------------------
(* The first admin *)

\* isSetupCompleted says no.
CheckSetup(s) ==
    /\ setup[s] = "idle"
    /\ ~claimed
    /\ setup' = [setup EXCEPT ![s] = "unclaimed"]
    /\ UNCHANGED <<claimed, role, invite, credential, sessions, call, redeem, signin, linking>>
    /\ UNCHANGED ghosts

\* Mutation: the insert of the claim is not looked at.
CreateFirstAdminUnclaimed(s, u) ==
    /\ setup[s] = "unclaimed"
    /\ role[u] = "absent"
    /\ setup' = [setup EXCEPT ![s] = "idle"]
    /\ claimed' = TRUE
    /\ role' = [role EXCEPT ![u] = "admin"]
    /\ credential' = [credential EXCEPT ![u] = NextCredential(u)]
    /\ firstAdmins' = firstAdmins + 1
    /\ UNCHANGED <<invite, sessions, call, redeem, signin, linking, resets, dead, stale, late>>

\* createFirstAdmin after the hash: claim and account in one transaction, or 409.
CreateFirstAdmin(s, u) ==
    /\ setup[s] = "unclaimed"
    /\ role[u] = "absent"
    /\ setup' = [setup EXCEPT ![s] = "idle"]
    /\ IF claimed
         THEN UNCHANGED <<claimed, role, credential, firstAdmins>>
         ELSE /\ claimed' = TRUE
              /\ role' = [role EXCEPT ![u] = "admin"]
              /\ credential' = [credential EXCEPT ![u] = NextCredential(u)]
              /\ firstAdmins' = firstAdmins + 1
    /\ UNCHANGED <<invite, sessions, call, redeem, signin, linking, resets, dead, stale, late>>

-----------------------------------------------------------------------------
(* The users routes *)

\* requireUser and requireAdmin let a request of a pass.
Authorize(c, a) ==
    /\ call[c].pc = "idle"
    /\ sessions[a] # {}
    /\ role[a] = "admin"
    /\ call' = [call EXCEPT ![c] = [IdleCall EXCEPT !.pc = "authorized", !.actor = a]]
    /\ UNCHANGED <<claimed, role, invite, credential, sessions, setup, redeem, signin, linking>>
    /\ UNCHANGED ghosts

\* Mutation: an admin may act on their own account.
MayActOnAnyone(c, u) == call[c].pc = "authorized" /\ Exists(u)

\* The self-checks of removeUser, setUserRole and resetPassword, and the 404.
MayActOn(c, u) == call[c].pc = "authorized" /\ call[c].actor # u /\ Exists(u)

SetUserRole(c, u, r) ==
    /\ MayActOn(c, u)
    /\ role' = [role EXCEPT ![u] = r]
    /\ stale' = (stale \/ role[call[c].actor] # "admin")
    /\ call' = [call EXCEPT ![c] = IdleCall]
    /\ UNCHANGED <<claimed, invite, credential, sessions, setup, redeem, signin, linking,
                   resets, firstAdmins, dead, late>>

\* Mutation: the row is kept and marked.
RemoveUserSoftly(c, u) ==
    /\ MayActOn(c, u)
    /\ role' = [role EXCEPT ![u] = "deleted"]
    /\ call' = [call EXCEPT ![c] = IdleCall]
    /\ UNCHANGED <<claimed, invite, credential, sessions, setup, redeem, signin, linking>>
    /\ UNCHANGED ghosts

\* Everything that hangs on the user row goes with it.
RemoveUser(c, u) ==
    /\ MayActOn(c, u)
    /\ role' = [role EXCEPT ![u] = "removed"]
    /\ invite' = Drop(InviteRows(u))
    /\ credential' = [credential EXCEPT ![u] = NoCredential]
    /\ sessions' = [sessions EXCEPT ![u] = {}]
    /\ dead' = dead \cup InviteRows(u)
    /\ stale' = (stale \/ role[call[c].actor] # "admin")
    /\ call' = [call EXCEPT ![c] = IdleCall]
    /\ UNCHANGED <<claimed, setup, redeem, signin, linking, resets, firstAdmins, late>>

\* createUser: nobody can see the new user before the commit.
CreateUser(c, u, r, t) ==
    /\ call[c].pc = "authorized"
    /\ role[u] = "absent"
    /\ invite[t].state = "unissued"
    /\ role' = [role EXCEPT ![u] = r]
    /\ invite' = [invite EXCEPT ![t] = [owner |-> u, state |-> "live"]]
    /\ call' = [call EXCEPT ![c] = IdleCall]
    /\ UNCHANGED <<claimed, credential, sessions, setup, redeem, signin, linking>>
    /\ UNCHANGED ghosts

\* reissueInvite: ensureHumanUser finds the user.
BeginReissue(c, u) ==
    /\ call[c].pc = "authorized"
    /\ Exists(u)
    /\ call' = [call EXCEPT ![c] = [IdleCall EXCEPT !.pc = "issuing", !.user = u,
                                                   !.older = InviteRows(u)]]
    /\ UNCHANGED <<claimed, role, invite, credential, sessions, setup, redeem, signin, linking>>
    /\ UNCHANGED ghosts

\* Mutation: the reset leaves the sessions alone.
BeginResetKeepSessions(c, u) ==
    /\ MayActOn(c, u)
    /\ resets[u] < MaxResets
    /\ call' = [call EXCEPT ![c] = [IdleCall EXCEPT !.pc = "issuing", !.user = u, !.reset = TRUE,
                  !.older = InviteRows(u), !.row = credential[u].row]]
    /\ UNCHANGED <<claimed, role, invite, credential, sessions, setup, redeem, signin, linking>>
    /\ UNCHANGED ghosts

\* resetPassword up to its UPDATE: the sessions and the credential row it saw.
BeginReset(c, u) ==
    /\ MayActOn(c, u)
    /\ resets[u] < MaxResets
    /\ call' = [call EXCEPT ![c] = [IdleCall EXCEPT !.pc = "issuing", !.user = u, !.reset = TRUE,
                  !.older = InviteRows(u), !.row = credential[u].row, !.revoked = sessions[u]]]
    /\ UNCHANGED <<claimed, role, invite, credential, sessions, setup, redeem, signin, linking>>
    /\ UNCHANGED ghosts

\* The DELETE of replaceInviteToken takes its snapshot.  It may then wait for
\* the locks of a redemption that commits first and leaves it less to delete.
SeeInvites(c) ==
    /\ call[c].pc = "issuing"
    /\ call' = [call EXCEPT ![c] = [call[c] EXCEPT !.pc = "replacing",
                                                   !.seen = InviteRows(call[c].user)]]
    /\ UNCHANGED <<claimed, role, invite, credential, sessions, setup, redeem, signin, linking>>
    /\ UNCHANGED ghosts

\* The INSERT and the commit.  The DELETEs and the UPDATE took what was still
\* there of the rows they saw; a row inserted since is none of theirs.
CommitInvite(c, t) ==
    LET u == call[c].user
        reset == call[c].reset
    IN  /\ call[c].pc = "replacing"
        /\ Exists(u)
        /\ invite[t].state = "unissued"
        /\ invite' = [Drop(call[c].seen \cap InviteRows(u))
                        EXCEPT ![t] = [owner |-> u, state |-> "live"]]
        /\ sessions' = [sessions EXCEPT ![u] = @ \ call[c].revoked]
        /\ credential' = IF reset /\ credential[u].row = call[c].row
                            THEN [credential EXCEPT ![u] = [@ EXCEPT !.set = FALSE]]
                            ELSE credential
        /\ resets' = [resets EXCEPT ![u] = IF reset THEN @ + 1 ELSE @]
        /\ dead' = dead \cup call[c].older
        /\ call' = [call EXCEPT ![c] = IdleCall]
        /\ UNCHANGED <<claimed, role, setup, redeem, signin, linking, firstAdmins, stale, late>>

\* The user is gone: the foreign key refuses the invite and all is rolled back.
\* A request may also die with its process, or its transaction abort.
CallFails(c) ==
    /\ call[c].pc # "idle"
    /\ call' = [call EXCEPT ![c] = IdleCall]
    /\ UNCHANGED <<claimed, role, invite, credential, sessions, setup, redeem, signin, linking>>
    /\ UNCHANGED ghosts

-----------------------------------------------------------------------------
(* Invites and sign-in *)

Resetting(u) == \E c \in Calls : call[c].pc # "idle" /\ call[c].user = u /\ call[c].reset

\* setupPassword: validateInviteToken finds the token, and the hash begins.
ValidateInvite(s, t) ==
    /\ redeem[s] = NoToken
    /\ invite[t].state = "live"
    /\ redeem' = [redeem EXCEPT ![s] = t]
    /\ UNCHANGED <<claimed, role, invite, credential, sessions, setup, call, signin, linking>>
    /\ UNCHANGED ghosts

\* Mutation: the transaction trusts the validation.
ConsumableOnceValidated(t) == Exists(invite[t].owner)

\* DELETE ... WHERE token AND expires_at > now RETURNING.
Consumable(t) == invite[t].state = "live"

\* The transaction of setupPassword.
RedeemInvite(s) ==
    LET t == redeem[s]
        u == invite[t].owner
    IN  /\ redeem[s] # NoToken
        /\ Consumable(t)
        /\ invite' = Drop({t})
        /\ credential' = [credential EXCEPT ![u] = NextCredential(u)]
        /\ dead' = dead \cup {t}
        /\ redeem' = [redeem EXCEPT ![s] = NoToken]
        /\ late' = [late EXCEPT ![u] = IF Resetting(u) THEN @ \cup {"password"} ELSE @]
        /\ UNCHANGED <<claimed, role, sessions, setup, call, signin, linking, resets,
                       firstAdmins, stale>>

\* INVITE_INVALID after all, or the request dies.
RedeemFails(s) ==
    /\ redeem[s] # NoToken
    /\ redeem' = [redeem EXCEPT ![s] = NoToken]
    /\ UNCHANGED <<claimed, role, invite, credential, sessions, setup, call, signin, linking>>
    /\ UNCHANGED ghosts

\* expires_at passes.
ExpireInvite(t) ==
    /\ invite[t].state = "live"
    /\ invite' = [invite EXCEPT ![t].state = "expired"]
    /\ dead' = dead \cup {t}
    /\ UNCHANGED <<claimed, role, credential, sessions, setup, call, redeem, signin, linking,
                   resets, firstAdmins, stale, late>>

\* An account row of an external provider is created for an invited user ...
LinkProvider(u) ==
    /\ Exists(u)
    /\ InviteRows(u) # {}
    /\ u \notin linking
    /\ linking' = linking \cup {u}
    /\ UNCHANGED <<claimed, role, invite, credential, sessions, setup, call, redeem, signin>>
    /\ UNCHANGED ghosts

\* ... and the hook after it consumes the invite.
ConsumeInvites(u) ==
    /\ u \in linking
    /\ linking' = linking \ {u}
    /\ invite' = Drop(InviteRows(u))
    /\ dead' = dead \cup InviteRows(u)
    /\ UNCHANGED <<claimed, role, credential, sessions, setup, call, redeem, signin,
                   resets, firstAdmins, stale, late>>

\* /sign-in/email: the password matches ...
CheckPassword(u) ==
    /\ credential[u].set
    /\ signin' = [signin EXCEPT ![u] = @ \cup {resets[u]}]
    /\ UNCHANGED <<claimed, role, invite, credential, sessions, setup, call, redeem, linking>>
    /\ UNCHANGED ghosts

\* ... and the session is inserted, if the user row is still there.
CreateSession(u, g) ==
    /\ g \in signin[u]
    /\ signin' = [signin EXCEPT ![u] = @ \ {g}]
    /\ sessions' = [sessions EXCEPT ![u] = IF Exists(u) THEN @ \cup {g} ELSE @]
    /\ late' = [late EXCEPT ![u] =
                   IF g < resets[u] \/ Resetting(u) THEN @ \cup {"session"} ELSE @]
    /\ UNCHANGED <<claimed, role, invite, credential, setup, call, redeem, linking,
                   resets, firstAdmins, dead, stale>>

Next ==
    \/ \E s \in Setups : CheckSetup(s) \/ \E u \in Users : CreateFirstAdmin(s, u)
    \/ \E c \in Calls, u \in Users :
          \/ Authorize(c, u)
          \/ \E r \in Roles : SetUserRole(c, u, r) \/ \E t \in Tokens : CreateUser(c, u, r, t)
          \/ RemoveUser(c, u)
          \/ BeginReissue(c, u)
          \/ BeginReset(c, u)
    \/ \E c \in Calls :
          SeeInvites(c) \/ CallFails(c) \/ \E t \in Tokens : CommitInvite(c, t)
    \/ \E s \in Redeemers :
          RedeemInvite(s) \/ RedeemFails(s) \/ \E t \in Tokens : ValidateInvite(s, t)
    \/ \E t \in Tokens : ExpireInvite(t)
    \/ \E u \in Users :
          \/ LinkProvider(u) \/ ConsumeInvites(u) \/ CheckPassword(u)
          \/ \E g \in signin[u] : CreateSession(u, g)

Spec == Init /\ [][Next]_vars

-----------------------------------------------------------------------------
(* Properties *)

\* /setup-admin creates one account, and the claim that closes it for good is
\* taken only together with that account: two racing setups do not both win,
\* and a failed one does not lock the instance (auth.service.ts, createFirstAdmin).
FirstAdminOnce == firstAdmins = IF claimed THEN 1 ELSE 0

\* Once claimed the instance has an admin, unless a request changed a role or
\* an account after its own actor had stopped being one: the self-checks of
\* user.service.ts are what keeps the last admin, one request at a time.
AdminRemains == claimed => Admins # {} \/ stale

\* No password is set with an invite that was redeemed, expired, consumed by a
\* provider sign-in, removed with its user, or live when a reissue or reset
\* that has committed since began (invite.test.ts: "single-use", "reissuing an
\* invite invalidates the previous token").
DeadInviteRefused ==
    [][\A s \in Redeemers : RedeemInvite(s) => redeem[s] \notin dead]_vars

\* "password reset revokes sessions and replaces the credential"
\* (invite.test.ts): after a reset neither a session nor a password from before
\* it opens the account, unless the session's sign-in was between check and
\* insert, or the password's redemption committed, while the reset ran.
ResetEndsAccess ==
    \A u \in Users :
        /\ "session" \notin late[u] => \A g \in sessions[u] : g = resets[u]
        /\ "password" \notin late[u] /\ credential[u].set => credential[u].gen = resets[u]

\* "reissuing an invite invalidates the previous token" (invite.test.ts): a
\* user never has two invites that both open the account.
OneLiveInvite == \A u \in Users : \A t1, t2 \in LiveInvites(u) : t1 = t2

=============================================================================
