--------------------------- MODULE AccountsProofs ---------------------------
(***************************************************************************)
(* Proofs about Accounts for every set of accounts, invites and requests.  *)
(***************************************************************************)
EXTENDS Accounts, TLAPS

-----------------------------------------------------------------------------
(* Types *)

LEMMA IdleCallType == IdleCall \in Call
  BY DEF IdleCall, Call

LEMMA DropType ==
  ASSUME TypeOK, NEW rows
  PROVE  Drop(rows) \in [Tokens -> Invite]
  BY DEF TypeOK, Drop, Invite

LEMMA NextCredentialType ==
  ASSUME TypeOK, NEW u \in Users
  PROVE  NextCredential(u) \in Credential /\ NoCredential \in Credential
  BY DEF TypeOK, NextCredential, NoCredential, Credential

\* Every step of a users route leaves a well-formed request.
LEMMA CallType ==
  ASSUME TypeOK, NEW c \in Calls,
         \/ \E u \in Users : Authorize(c, u) \/ BeginReissue(c, u) \/ BeginReset(c, u)
         \/ SeeInvites(c)
         \/ call' = [call EXCEPT ![c] = IdleCall]
  PROVE  call' \in [Calls -> Call]
<1>1. ASSUME NEW u \in Users, Authorize(c, u) PROVE call' \in [Calls -> Call]
  <2>1. [IdleCall EXCEPT !.pc = "authorized", !.actor = u] \in Call
    BY DEF IdleCall, Call
  <2> QED
    BY <1>1, <2>1 DEF Authorize, TypeOK
<1>2. ASSUME NEW u \in Users, BeginReissue(c, u) PROVE call' \in [Calls -> Call]
  <2>1. [IdleCall EXCEPT !.pc = "issuing", !.user = u, !.older = InviteRows(u)] \in Call
    BY DEF IdleCall, Call, InviteRows
  <2> QED
    BY <1>2, <2>1 DEF BeginReissue, TypeOK
<1>3. ASSUME NEW u \in Users, BeginReset(c, u) PROVE call' \in [Calls -> Call]
  <2>1. [IdleCall EXCEPT !.pc = "issuing", !.user = u, !.reset = TRUE,
           !.older = InviteRows(u), !.row = credential[u].row, !.revoked = sessions[u]] \in Call
    BY DEF IdleCall, Call, InviteRows, TypeOK, Credential
  <2> QED
    BY <1>3, <2>1 DEF BeginReset, TypeOK
<1>4. CASE SeeInvites(c)
  <2>1. InviteRows(call[c].user) \in SUBSET Tokens
    BY DEF InviteRows
  <2>2. call[c] \in Call
    BY DEF TypeOK
  <2>3. ASSUME NEW k \in Call, NEW x \in SUBSET Tokens
        PROVE  [k EXCEPT !.pc = "replacing", !.seen = x] \in Call
    BY DEF Call
  <2>4. [call[c] EXCEPT !.pc = "replacing", !.seen = InviteRows(call[c].user)] \in Call
    BY <2>1, <2>2, <2>3
  <2> QED
    BY <1>4, <2>4 DEF SeeInvites, TypeOK
<1>5. CASE call' = [call EXCEPT ![c] = IdleCall]
  BY <1>5, IdleCallType DEF TypeOK
<1> QED
  BY <1>1, <1>2, <1>3, <1>4, <1>5

LEMMA SetupTypes ==
  ASSUME TypeOK, NEW s \in Setups, CheckSetup(s) \/ (\E u \in Users : CreateFirstAdmin(s, u))
  PROVE  TypeOK'
<1>1. CASE CheckSetup(s)
  BY <1>1 DEF CheckSetup, ghosts, TypeOK
<1>2. ASSUME NEW u \in Users, CreateFirstAdmin(s, u) PROVE TypeOK'
  <2>1. role' \in [Users -> Roles \cup {"absent", "removed"}]
    BY <1>2 DEF CreateFirstAdmin, TypeOK, Roles
  <2>2. credential' \in [Users -> Credential]
    BY <1>2, NextCredentialType DEF CreateFirstAdmin, TypeOK
  <2>3. firstAdmins' \in Nat
    BY <1>2 DEF CreateFirstAdmin, TypeOK
  <2>5. claimed' \in BOOLEAN
    BY <1>2, Zenon DEF CreateFirstAdmin, TypeOK
  <2>4. setup' \in [Setups -> {"idle", "unclaimed"}]
    BY <1>2 DEF CreateFirstAdmin, TypeOK
  <2> QED
    BY <1>2, <2>1, <2>2, <2>3, <2>4, <2>5 DEF CreateFirstAdmin, TypeOK
<1> QED
  BY <1>1, <1>2

\* The users routes, action by action.
UsersRoute(c) ==
    \/ \E u \in Users :
          \/ Authorize(c, u)
          \/ \E r \in Roles : SetUserRole(c, u, r) \/ \E t \in Tokens : CreateUser(c, u, r, t)
          \/ RemoveUser(c, u)
          \/ BeginReissue(c, u)
          \/ BeginReset(c, u)
    \/ SeeInvites(c) \/ CallFails(c) \/ \E t \in Tokens : CommitInvite(c, t)

LEMMA UsersRouteTypes == ASSUME TypeOK, NEW c \in Calls, UsersRoute(c) PROVE TypeOK'
<1>1. CASE \/ \E u \in Users : Authorize(c, u) \/ BeginReissue(c, u) \/ BeginReset(c, u)
           \/ SeeInvites(c) \/ CallFails(c)
  <2>1. call' \in [Calls -> Call]
    BY <1>1, CallType DEF CallFails
  <2> QED
    BY <1>1, <2>1 DEF Authorize, BeginReissue, BeginReset, SeeInvites, CallFails, ghosts, TypeOK
<1>2. ASSUME NEW u \in Users, NEW r \in Roles, SetUserRole(c, u, r) PROVE TypeOK'
  <2>1. call' \in [Calls -> Call]
    BY <1>2, CallType DEF SetUserRole
  <2>2. role' \in [Users -> Roles \cup {"absent", "removed"}]
    BY <1>2 DEF SetUserRole, TypeOK
  <2>3. stale' \in BOOLEAN
    BY <1>2 DEF SetUserRole, TypeOK
  <2> QED
    BY <1>2, <2>1, <2>2, <2>3 DEF SetUserRole, TypeOK
<1>3. ASSUME NEW u \in Users, NEW r \in Roles, NEW t \in Tokens, CreateUser(c, u, r, t)
      PROVE  TypeOK'
  <2>1. call' \in [Calls -> Call]
    BY <1>3, CallType DEF CreateUser
  <2>2. role' \in [Users -> Roles \cup {"absent", "removed"}]
    BY <1>3 DEF CreateUser, TypeOK
  <2>3. invite' \in [Tokens -> Invite]
    BY <1>3 DEF CreateUser, TypeOK, Invite
  <2> QED
    BY <1>3, <2>1, <2>2, <2>3 DEF CreateUser, ghosts, TypeOK
<1>4. ASSUME NEW u \in Users, RemoveUser(c, u) PROVE TypeOK'
  <2>1. call' \in [Calls -> Call]
    BY <1>4, CallType DEF RemoveUser
  <2>2. /\ role' \in [Users -> Roles \cup {"absent", "removed"}]
        /\ sessions' \in [Users -> SUBSET Nat]
        /\ stale' \in BOOLEAN
    BY <1>4 DEF RemoveUser, TypeOK
  <2>3. invite' \in [Tokens -> Invite] /\ dead' \in SUBSET Tokens
    BY <1>4, DropType DEF RemoveUser, InviteRows, TypeOK
  <2>4. credential' \in [Users -> Credential]
    BY <1>4, NextCredentialType DEF RemoveUser, TypeOK
  <2> QED
    BY <1>4, <2>1, <2>2, <2>3, <2>4 DEF RemoveUser, TypeOK
<1>5. ASSUME NEW t \in Tokens, CommitInvite(c, t) PROVE TypeOK'
  <2> DEFINE u == call[c].user
  <2>1. call' \in [Calls -> Call]
    BY <1>5, CallType DEF CommitInvite
  <2>2. u \in Users \cup {NoUser} /\ call[c].older \in SUBSET Tokens
    BY DEF TypeOK, Call
  <2>3. invite' \in [Tokens -> Invite]
    <3>1. [owner |-> u, state |-> "live"] \in Invite
      BY <2>2 DEF Invite
    <3> QED
      BY <1>5, <3>1, DropType DEF CommitInvite
  <2>4. sessions' \in [Users -> SUBSET Nat]
    <3>1. \A v \in Users : sessions[v] \ call[c].revoked \in SUBSET Nat
      BY DEF TypeOK
    <3> QED
      BY <1>5, <3>1 DEF CommitInvite, TypeOK
  <2>5. credential' \in [Users -> Credential]
    <3>1. \A v \in Users : [credential[v] EXCEPT !.set = FALSE] \in Credential
      BY DEF TypeOK, Credential
    <3> QED
      BY <1>5, <3>1 DEF CommitInvite, TypeOK
  <2>6. resets' \in [Users -> Nat]
    <3>1. \A v \in Users : resets[v] + 1 \in Nat
      BY DEF TypeOK
    <3>2. resets' = [resets EXCEPT ![u] = IF call[c].reset THEN @ + 1 ELSE @]
      BY <1>5 DEF CommitInvite
    <3>3. CASE call[c].reset
      BY <3>1, <3>2, <3>3 DEF TypeOK
    <3>4. CASE ~call[c].reset
      BY <3>2, <3>4 DEF TypeOK
    <3> QED
      BY <3>3, <3>4
  <2>7. dead' \in SUBSET Tokens
    BY <1>5, <2>2 DEF CommitInvite, TypeOK
  <2> QED
    BY <1>5, <2>1, <2>3, <2>4, <2>5, <2>6, <2>7 DEF CommitInvite, TypeOK
<1> QED
  BY <1>1, <1>2, <1>3, <1>4, <1>5 DEF UsersRoute

LEMMA RedeemTypes ==
  ASSUME TypeOK, NEW s \in Redeemers,
         RedeemInvite(s) \/ RedeemFails(s) \/ (\E t \in Tokens : ValidateInvite(s, t))
  PROVE  TypeOK'
<1>1. CASE RedeemInvite(s)
  <2>1. redeem[s] \in Tokens
    BY <1>1 DEF RedeemInvite, TypeOK
  <2>2. invite' \in [Tokens -> Invite] /\ dead' \in SUBSET Tokens
    BY <1>1, <2>1, DropType DEF RedeemInvite, TypeOK
  <2>3. credential' \in [Users -> Credential]
    BY <1>1, NextCredentialType DEF RedeemInvite, TypeOK, NextCredential, Credential
  <2>4. redeem' \in [Redeemers -> Tokens \cup {NoToken}]
    BY <1>1 DEF RedeemInvite, TypeOK
  <2>5. late' \in [Users -> SUBSET {"session", "password"}]
    BY <1>1 DEF RedeemInvite, TypeOK
  <2> QED
    BY <1>1, <2>2, <2>3, <2>4, <2>5 DEF RedeemInvite, TypeOK
<1>2. CASE RedeemFails(s)
  BY <1>2 DEF RedeemFails, ghosts, TypeOK
<1>3. ASSUME NEW t \in Tokens, ValidateInvite(s, t) PROVE TypeOK'
  BY <1>3 DEF ValidateInvite, ghosts, TypeOK
<1> QED
  BY <1>1, <1>2, <1>3

LEMMA SignInTypes ==
  ASSUME TypeOK,
         \/ \E t \in Tokens : ExpireInvite(t)
         \/ \E u \in Users : \/ LinkProvider(u) \/ ConsumeInvites(u) \/ CheckPassword(u)
                             \/ \E g \in signin[u] : CreateSession(u, g)
  PROVE  TypeOK'
<1>1. ASSUME NEW t \in Tokens, ExpireInvite(t) PROVE TypeOK'
  <2>1. invite' \in [Tokens -> Invite] /\ dead' \in SUBSET Tokens
    BY <1>1 DEF ExpireInvite, TypeOK, Invite
  <2> QED
    BY <1>1, <2>1 DEF ExpireInvite, TypeOK
<1>2. ASSUME NEW u \in Users, LinkProvider(u) PROVE TypeOK'
  BY <1>2 DEF LinkProvider, ghosts, TypeOK
<1>3. ASSUME NEW u \in Users, ConsumeInvites(u) PROVE TypeOK'
  <2>1. invite' \in [Tokens -> Invite] /\ dead' \in SUBSET Tokens
    BY <1>3, DropType DEF ConsumeInvites, TypeOK, InviteRows
  <2> QED
    BY <1>3, <2>1 DEF ConsumeInvites, TypeOK
<1>4. ASSUME NEW u \in Users, CheckPassword(u) PROVE TypeOK'
  <2>1. signin' \in [Users -> SUBSET Nat]
    BY <1>4 DEF CheckPassword, TypeOK
  <2> QED
    BY <1>4, <2>1 DEF CheckPassword, ghosts, TypeOK
<1>5. ASSUME NEW u \in Users, NEW g \in signin[u], CreateSession(u, g) PROVE TypeOK'
  <2>1. signin' \in [Users -> SUBSET Nat]
    BY <1>5 DEF CreateSession, TypeOK
  <2>2. sessions' \in [Users -> SUBSET Nat]
    BY <1>5 DEF CreateSession, TypeOK
  <2>3. late' \in [Users -> SUBSET {"session", "password"}]
    BY <1>5 DEF CreateSession, TypeOK
  <2> QED
    BY <1>5, <2>1, <2>2, <2>3 DEF CreateSession, TypeOK
<1> QED
  BY <1>1, <1>2, <1>3, <1>4, <1>5

\* The other steps of Next, named for the case splits below.
SetupStep == \E s \in Setups : CheckSetup(s) \/ \E u \in Users : CreateFirstAdmin(s, u)
RouteStep == \E c \in Calls : UsersRoute(c)
RedeemStep ==
    \E s \in Redeemers :
        RedeemInvite(s) \/ RedeemFails(s) \/ (\E t \in Tokens : ValidateInvite(s, t))
SignInStep ==
    \/ \E t \in Tokens : ExpireInvite(t)
    \/ \E u \in Users : \/ LinkProvider(u) \/ ConsumeInvites(u) \/ CheckPassword(u)
                        \/ \E g \in signin[u] : CreateSession(u, g)

LEMMA Split == ASSUME Next PROVE SetupStep \/ RouteStep \/ RedeemStep \/ SignInStep
  BY DEF Next, SetupStep, RouteStep, UsersRoute, RedeemStep, SignInStep

LEMMA TypeInit == ASSUME Init PROVE TypeOK
<1>1. NoCredential \in Credential
  BY DEF NoCredential, Credential
<1> QED
  BY <1>1, IdleCallType DEF Init, TypeOK, Invite

LEMMA TypeStep == ASSUME TypeOK, [Next]_vars PROVE TypeOK'
<1>1. CASE UNCHANGED vars
  BY <1>1 DEF vars, TypeOK
<1>2. CASE Next
  BY <1>2, Split, SetupTypes, UsersRouteTypes, RedeemTypes, SignInTypes
  DEF SetupStep, RouteStep, RedeemStep, SignInStep
<1> QED
  BY <1>1, <1>2

\* Every reachable state is well typed.
THEOREM TypeCorrect == Spec => []TypeOK
<1>1. Init => TypeOK
  BY TypeInit
<1>2. TypeOK /\ [Next]_vars => TypeOK'
  BY TypeStep
<1> QED
  BY <1>1, <1>2, PTL DEF Spec

-----------------------------------------------------------------------------
(* The first admin and the last one *)

\* createFirstAdmin creates one account and claims the instance together with
\* it, however many setups race.
THEOREM OneFirstAdmin == Spec => []FirstAdminOnce
<1>1. Init => FirstAdminOnce
  BY DEF Init, FirstAdminOnce
<1>2. TypeOK /\ FirstAdminOnce /\ [Next]_vars => FirstAdminOnce'
  <2> SUFFICES ASSUME TypeOK, FirstAdminOnce, [Next]_vars PROVE FirstAdminOnce'
    OBVIOUS
  <2>1. CASE UNCHANGED vars
    BY <2>1 DEF vars, FirstAdminOnce
  <2>2. ASSUME NEW s \in Setups, NEW u \in Users, CreateFirstAdmin(s, u) PROVE FirstAdminOnce'
    BY <2>2 DEF CreateFirstAdmin, FirstAdminOnce
  <2>3. (UNCHANGED <<claimed, firstAdmins>>) => FirstAdminOnce'
    BY DEF FirstAdminOnce
  <2>4. ASSUME NEW s \in Setups, CheckSetup(s) PROVE FirstAdminOnce'
    BY <2>3, <2>4 DEF CheckSetup, ghosts
  <2>5. CASE RouteStep
    <3>1. PICK c \in Calls : UsersRoute(c)
      BY <2>5 DEF RouteStep
    <3>2. ASSUME NEW t \in Tokens, CommitInvite(c, t) PROVE UNCHANGED <<claimed, firstAdmins>>
      BY <3>2 DEF CommitInvite
    <3>3. UNCHANGED <<claimed, firstAdmins>>
      BY <3>1, <3>2 DEF UsersRoute, Authorize, SetUserRole, CreateUser, RemoveUser,
         BeginReissue, BeginReset, SeeInvites, CallFails, ghosts
    <3> QED
      BY <2>3, <3>3
  <2>6. CASE RedeemStep
    BY <2>3, <2>6 DEF RedeemStep, RedeemInvite, RedeemFails, ValidateInvite, ghosts
  <2>7. CASE SignInStep
    BY <2>3, <2>7 DEF SignInStep, ExpireInvite, LinkProvider, ConsumeInvites, CheckPassword,
       CreateSession, ghosts
  <2> QED
    BY <2>1, <2>2, <2>4, <2>5, <2>6, <2>7, Split DEF SetupStep
<1> QED
  BY <1>1, <1>2, TypeCorrect, PTL DEF Spec

\* An authorised request knows its actor.
ActorKnown == \A c \in Calls : call[c].pc = "authorized" => call[c].actor \in Users

LEMMA ActorStep == ASSUME TypeOK, ActorKnown, [Next]_vars PROVE ActorKnown'
<1>1. CASE UNCHANGED call
  BY <1>1 DEF ActorKnown
<1>2. ASSUME NEW c \in Calls, NEW k, call' = [call EXCEPT ![c] = k],
             k.pc = "authorized" => k.actor \in Users
      PROVE  ActorKnown'
  BY <1>2 DEF ActorKnown, TypeOK
<1>3. ASSUME NEW c \in Calls, UsersRoute(c) PROVE ActorKnown'
  <2>1. CASE call' = [call EXCEPT ![c] = IdleCall]
    BY <1>2, <2>1 DEF IdleCall
  <2>2. ASSUME NEW u \in Users, Authorize(c, u) PROVE ActorKnown'
    BY <1>2, <2>2 DEF Authorize, IdleCall
  <2>3. ASSUME NEW u \in Users, BeginReissue(c, u) \/ BeginReset(c, u) PROVE ActorKnown'
    BY <1>2, <2>3 DEF BeginReissue, BeginReset, IdleCall
  <2>4. CASE SeeInvites(c)
    <3>1. [call[c] EXCEPT !.pc = "replacing", !.seen = InviteRows(call[c].user)].pc = "replacing"
      BY DEF TypeOK, Call
    <3> QED
      BY <1>2, <2>4, <3>1 DEF SeeInvites
  <2> QED
    BY <1>3, <2>1, <2>2, <2>3, <2>4
    DEF UsersRoute, SetUserRole, CreateUser, RemoveUser, CallFails, CommitInvite
<1> QED
  BY <1>1, <1>3, Split
  DEF SetupStep, RouteStep, RedeemStep, SignInStep, vars, CheckSetup, CreateFirstAdmin,
      RedeemInvite, RedeemFails, ValidateInvite, ExpireInvite, LinkProvider, ConsumeInvites,
      CheckPassword, CreateSession

LEMMA AdminRemainsStep ==
  ASSUME TypeOK, ActorKnown, AdminRemains, [Next]_vars
  PROVE  AdminRemains'
<1>1. CASE UNCHANGED <<claimed, role, stale>>
  BY <1>1 DEF AdminRemains, Admins
<1>2. ASSUME NEW s \in Setups, NEW u \in Users, CreateFirstAdmin(s, u) PROVE AdminRemains'
  <2>1. CASE claimed
    BY <1>2, <2>1 DEF CreateFirstAdmin, AdminRemains, Admins
  <2>2. CASE ~claimed
    <3>1. role'[u] = "admin"
      BY <1>2, <2>2 DEF CreateFirstAdmin, TypeOK
    <3> QED
      BY <3>1 DEF AdminRemains, Admins
  <2> QED
    BY <2>1, <2>2
\* An actor that is still an admin stays one: the target is somebody else.
<1>3. ASSUME NEW c \in Calls, NEW u \in Users, NEW r, MayActOn(c, u),
             role' = [role EXCEPT ![u] = r],
             stale' = (stale \/ role[call[c].actor] # "admin")
      PROVE  AdminRemains'
  <2>1. call[c].actor \in Users /\ call[c].actor # u
    BY <1>3 DEF ActorKnown, MayActOn
  <2>2. role'[call[c].actor] = role[call[c].actor]
    BY <1>3, <2>1 DEF TypeOK
  <2>3. CASE role[call[c].actor] = "admin"
    BY <2>1, <2>2, <2>3 DEF AdminRemains, Admins
  <2>4. CASE role[call[c].actor] # "admin"
    BY <1>3, <2>4 DEF AdminRemains
  <2> QED
    BY <2>3, <2>4
<1>4. ASSUME NEW c \in Calls, NEW u \in Users, NEW r \in Roles, NEW t \in Tokens,
             CreateUser(c, u, r, t)
      PROVE  AdminRemains'
  <2>1. \A v \in Users : role[v] = "admin" => role'[v] = "admin"
    BY <1>4 DEF CreateUser, TypeOK
  <2>2. UNCHANGED <<claimed, stale>>
    BY <1>4 DEF CreateUser, ghosts
  <2> QED
    BY <2>1, <2>2 DEF AdminRemains, Admins
<1>5. CASE RouteStep
  <2>1. PICK c \in Calls : UsersRoute(c)
    BY <1>5 DEF RouteStep
  <2>2. ASSUME NEW u \in Users, NEW r \in Roles, SetUserRole(c, u, r) PROVE AdminRemains'
    BY <1>3, <2>2 DEF SetUserRole
  <2>3. ASSUME NEW u \in Users, RemoveUser(c, u) PROVE AdminRemains'
    BY <1>3, <2>3 DEF RemoveUser
  <2> QED
    BY <1>1, <1>4, <2>1, <2>2, <2>3
    DEF UsersRoute, Authorize, BeginReissue, BeginReset, SeeInvites, CallFails, CommitInvite, ghosts
<1> QED
  BY <1>1, <1>2, <1>5, Split
  DEF SetupStep, RedeemStep, SignInStep, vars, ghosts, CheckSetup, RedeemInvite, RedeemFails,
      ValidateInvite, ExpireInvite, LinkProvider, ConsumeInvites, CheckPassword, CreateSession

\* The self-checks keep an admin as long as nobody acts on authority they have
\* lost since the request was let in.
THEOREM AnAdminRemains == Spec => []AdminRemains
<1>1. Init => ActorKnown /\ AdminRemains
  BY DEF Init, ActorKnown, AdminRemains, IdleCall
<1>2. TypeOK /\ ActorKnown /\ AdminRemains /\ [Next]_vars => ActorKnown' /\ AdminRemains'
  BY ActorStep, AdminRemainsStep
<1> QED
  BY <1>1, <1>2, TypeCorrect, PTL DEF Spec

-----------------------------------------------------------------------------
(* Dead invites *)

\* An invite only ever ages: unissued, live, expired, gone.
Ages(t) ==
    invite[t].state # "unissued" =>
        /\ invite'[t].owner = invite[t].owner
        /\ invite'[t].state # "unissued"
        /\ invite[t].state = "gone" => invite'[t].state = "gone"
        /\ invite[t].state = "expired" => invite'[t].state \in {"expired", "gone"}

LEMMA DropAges ==
  ASSUME TypeOK, NEW rows, invite' = Drop(rows)
  PROVE  /\ \A t \in Tokens : Ages(t)
         /\ \A t \in Tokens : t \in rows => invite'[t].state = "gone"
  BY DEF Drop, Ages, TypeOK, Invite

\* Issuing an unissued token after a Drop ages the others.
LEMMA IssueAges ==
  ASSUME TypeOK, NEW rows, NEW t \in Tokens, NEW u, invite[t].state = "unissued",
         invite' = [Drop(rows) EXCEPT ![t] = [owner |-> u, state |-> "live"]]
  PROVE  /\ \A x \in Tokens : Ages(x)
         /\ \A x \in Tokens : x \in rows /\ x # t => invite'[x].state = "gone"
  BY DEF Drop, Ages, TypeOK, Invite

LEMMA InvitesAge == ASSUME TypeOK, [Next]_vars PROVE \A t \in Tokens : Ages(t)
<1>1. CASE UNCHANGED invite
  BY <1>1 DEF Ages
<1>2. CASE RouteStep
  <2>1. PICK c \in Calls : UsersRoute(c)
    BY <1>2 DEF RouteStep
  <2>2. ASSUME NEW u \in Users, NEW r \in Roles, NEW t \in Tokens, CreateUser(c, u, r, t)
        PROVE  \A x \in Tokens : Ages(x)
    BY <2>2 DEF CreateUser, Ages, TypeOK, Invite
  <2>3. ASSUME NEW u \in Users, RemoveUser(c, u) PROVE \A x \in Tokens : Ages(x)
    BY <2>3, DropAges DEF RemoveUser
  <2>4. ASSUME NEW t \in Tokens, CommitInvite(c, t) PROVE \A x \in Tokens : Ages(x)
    BY <2>4, IssueAges DEF CommitInvite
  <2> QED
    BY <1>1, <2>1, <2>2, <2>3, <2>4
    DEF UsersRoute, Authorize, SetUserRole, BeginReissue, BeginReset, SeeInvites, CallFails
<1>3. ASSUME NEW t \in Tokens, ExpireInvite(t) PROVE \A x \in Tokens : Ages(x)
  BY <1>3 DEF ExpireInvite, Ages, TypeOK, Invite
<1>4. ASSUME NEW u \in Users, ConsumeInvites(u) PROVE \A x \in Tokens : Ages(x)
  BY <1>4, DropAges DEF ConsumeInvites
<1>5. ASSUME NEW s \in Redeemers, RedeemInvite(s) PROVE \A x \in Tokens : Ages(x)
  BY <1>5, DropAges DEF RedeemInvite
<1> QED
  BY <1>1, <1>2, <1>3, <1>4, <1>5, Split
  DEF SetupStep, RedeemStep, SignInStep, vars, CheckSetup, CreateFirstAdmin, RedeemFails,
      ValidateInvite, LinkProvider, CheckPassword, CreateSession

\* A dead invite has expired or is gone.
Buried == \A t \in dead : invite[t].state \in {"expired", "gone"}

\* What a request that issues an invite knows of the ones that were there when
\* it began: they are its user's, and once its DELETE has its snapshot each of
\* them is in it or already gone.
OlderKnown(k) ==
    k.pc \in {"issuing", "replacing"} =>
        \A t \in k.older :
            /\ t \in Tokens
            /\ invite[t].owner = k.user
            /\ invite[t].state # "unissued"
            /\ k.pc = "replacing" => t \in k.seen \/ invite[t].state = "gone"

CallsKnow == \A c \in Calls : OlderKnown(call[c])

LEMMA IdleKnows == OlderKnown(IdleCall)
  BY DEF OlderKnown, IdleCall

LEMMA CallsKnowStep == ASSUME TypeOK, CallsKnow, [Next]_vars PROVE CallsKnow'
<1>1. \A t \in Tokens : Ages(t)
  BY InvitesAge
<1>2. ASSUME NEW c \in Calls, call'[c] = call[c] PROVE OlderKnown(call[c])'
  BY <1>1, <1>2 DEF CallsKnow, OlderKnown, Ages
<1>3. CASE UNCHANGED call
  BY <1>2, <1>3 DEF CallsKnow
<1>4. ASSUME NEW c \in Calls, NEW k, call' = [call EXCEPT ![c] = k], OlderKnown(k)'
      PROVE  CallsKnow'
  <2>1. call'[c] = k /\ \A d \in Calls : d # c => call'[d] = call[d]
    BY <1>4 DEF TypeOK
  <2>2. OlderKnown(call[c])'
    BY <1>4, <2>1 DEF OlderKnown
  <2> QED
    BY <1>2, <2>1, <2>2 DEF CallsKnow
<1>5. ASSUME NEW c \in Calls, call' = [call EXCEPT ![c] = IdleCall] PROVE CallsKnow'
  BY <1>4, <1>5 DEF OlderKnown, IdleCall
<1>6. ASSUME NEW c \in Calls, NEW u \in Users, Authorize(c, u) PROVE CallsKnow'
  BY <1>4, <1>6 DEF Authorize, OlderKnown, IdleCall
<1>7. ASSUME NEW c \in Calls, NEW u \in Users, BeginReissue(c, u) \/ BeginReset(c, u)
      PROVE  CallsKnow'
  <2>1. \A t \in InviteRows(u) : t \in Tokens /\ invite[t].owner = u /\ invite[t].state # "unissued"
    BY DEF InviteRows
  <2>2. UNCHANGED invite
    BY <1>7 DEF BeginReissue, BeginReset
  <2>3. PICK k : /\ call' = [call EXCEPT ![c] = k]
                 /\ k.pc = "issuing" /\ k.user = u /\ k.older = InviteRows(u)
    <3> DEFINE reissue == [IdleCall EXCEPT !.pc = "issuing", !.user = u, !.older = InviteRows(u)]
               reset == [IdleCall EXCEPT !.pc = "issuing", !.user = u, !.reset = TRUE,
                  !.older = InviteRows(u), !.row = credential[u].row, !.revoked = sessions[u]]
    <3>1. reissue.pc = "issuing" /\ reissue.user = u /\ reissue.older = InviteRows(u)
      BY DEF IdleCall
    <3>2. reset.pc = "issuing" /\ reset.user = u /\ reset.older = InviteRows(u)
      BY DEF IdleCall
    <3>3. call' = [call EXCEPT ![c] = reissue] \/ call' = [call EXCEPT ![c] = reset]
      BY <1>7 DEF BeginReissue, BeginReset
    <3> HIDE DEF reissue, reset
    <3> QED
      BY <3>1, <3>2, <3>3
  <2>4. OlderKnown(k)'
    BY <2>1, <2>2, <2>3 DEF OlderKnown
  <2> QED
    BY <1>4, <2>3, <2>4
<1>8. ASSUME NEW c \in Calls, SeeInvites(c) PROVE CallsKnow'
  <2>1. PICK k : /\ call' = [call EXCEPT ![c] = k]
                 /\ k.pc = "replacing" /\ k.user = call[c].user /\ k.older = call[c].older
                 /\ k.seen = InviteRows(call[c].user)
    <3> DEFINE seeing == [call[c] EXCEPT !.pc = "replacing", !.seen = InviteRows(call[c].user)]
    <3>1. /\ seeing.pc = "replacing" /\ seeing.user = call[c].user
          /\ seeing.older = call[c].older /\ seeing.seen = InviteRows(call[c].user)
      BY DEF TypeOK, Call
    <3>2. call' = [call EXCEPT ![c] = seeing]
      BY <1>8 DEF SeeInvites
    <3> HIDE DEF seeing
    <3> QED
      BY <3>1, <3>2
  <2>2. call[c].pc = "issuing" /\ UNCHANGED invite
    BY <1>8 DEF SeeInvites
  <2>3. \A t \in call[c].older :
           /\ t \in Tokens /\ invite[t].owner = call[c].user /\ invite[t].state # "unissued"
           /\ t \in InviteRows(call[c].user) \/ invite[t].state = "gone"
    BY <2>2 DEF CallsKnow, OlderKnown, InviteRows, TypeOK, Invite
  <2>4. OlderKnown(k)'
    BY <2>1, <2>2, <2>3 DEF OlderKnown
  <2> QED
    BY <1>4, <2>1, <2>4
<1> QED
  BY <1>3, <1>5, <1>6, <1>7, <1>8, Split
  DEF SetupStep, RouteStep, UsersRoute, RedeemStep, SignInStep, vars, CheckSetup,
      CreateFirstAdmin, SetUserRole, RemoveUser, CreateUser, CallFails, CommitInvite,
      RedeemInvite, RedeemFails, ValidateInvite, ExpireInvite, LinkProvider, ConsumeInvites,
      CheckPassword, CreateSession

LEMMA BuriedStep == ASSUME TypeOK, CallsKnow, Buried, [Next]_vars PROVE Buried'
<1>1. \A t \in dead : t \in Tokens /\ invite'[t].state \in {"expired", "gone"}
  BY InvitesAge DEF Buried, Ages, TypeOK
<1>2. CASE UNCHANGED dead
  BY <1>1, <1>2 DEF Buried
<1>3. ASSUME NEW rows, dead' = dead \cup rows,
             \A t \in rows : invite'[t].state \in {"expired", "gone"}
      PROVE  Buried'
  BY <1>1, <1>3 DEF Buried
<1>4. ASSUME NEW u \in Users, invite' = Drop(InviteRows(u)), dead' = dead \cup InviteRows(u)
      PROVE  Buried'
  <2>1. \A t \in InviteRows(u) : t \in Tokens
    BY DEF InviteRows
  <2>2. \A t \in InviteRows(u) : invite'[t].state = "gone"
    BY <1>4, <2>1, DropAges
  <2> QED
    BY <1>3, <1>4, <2>2
<1>5. ASSUME NEW u \in Users, ConsumeInvites(u) \/ \E c \in Calls : RemoveUser(c, u)
      PROVE  Buried'
  BY <1>4, <1>5 DEF RemoveUser, ConsumeInvites
<1>6. ASSUME NEW s \in Redeemers, RedeemInvite(s) PROVE Buried'
  <2>1. redeem[s] \in Tokens
    BY <1>6 DEF RedeemInvite, TypeOK
  <2>2. invite' = Drop({redeem[s]}) /\ dead' = dead \cup {redeem[s]}
    BY <1>6 DEF RedeemInvite
  <2> QED
    BY <1>3, <2>1, <2>2, DropAges
<1>7. ASSUME NEW t \in Tokens, ExpireInvite(t) PROVE Buried'
  <2>1. invite'[t].state = "expired"
    BY <1>7 DEF ExpireInvite, TypeOK, Invite
  <2>2. dead' = dead \cup {t}
    BY <1>7 DEF ExpireInvite
  <2> QED
    BY <1>1, <2>1, <2>2 DEF Buried
\* The rows a commit outdates are the ones its DELETE saw, or gone before.
<1>8. ASSUME NEW c \in Calls, NEW t \in Tokens, CommitInvite(c, t) PROVE Buried'
  <2> DEFINE u == call[c].user
             rows == call[c].seen \cap InviteRows(u)
  <2>1. /\ call[c].pc = "replacing" /\ invite[t].state = "unissued"
        /\ invite' = [Drop(rows) EXCEPT ![t] = [owner |-> u, state |-> "live"]]
        /\ dead' = dead \cup call[c].older
    BY <1>8 DEF CommitInvite
  <2>2. \A x \in call[c].older :
           /\ x \in Tokens /\ invite[x].owner = u /\ invite[x].state # "unissued"
           /\ x \in call[c].seen \/ invite[x].state = "gone"
    BY <2>1 DEF CallsKnow, OlderKnown
  <2>3. \A x \in Tokens : invite[x].state \in {"unissued", "live", "expired", "gone"}
    BY DEF TypeOK, Invite
  <2>4. ASSUME NEW x \in call[c].older PROVE x \in rows \/ invite[x].state = "gone"
    BY <2>2, <2>3 DEF InviteRows
  <2>5. \A x \in Tokens : Ages(x)
    BY InvitesAge
  <2>6. \A x \in Tokens : x \in rows /\ x # t => invite'[x].state = "gone"
    <3> HIDE DEF rows, u
    <3> QED
      BY <2>1, IssueAges
  <2>7. ASSUME NEW x \in call[c].older PROVE invite'[x].state = "gone"
    <3> HIDE DEF rows, u
    <3>1. x \in Tokens /\ x # t
      BY <2>1, <2>2
    <3> QED
      BY <2>4, <2>5, <2>6, <3>1 DEF Ages
  <2> QED
    BY <1>3, <2>1, <2>7
<1> QED
  BY <1>2, <1>4, <1>5, <1>6, <1>7, <1>8, Split
  DEF SetupStep, RouteStep, UsersRoute, RedeemStep, SignInStep, vars, ghosts, CheckSetup,
      CreateFirstAdmin, Authorize, SetUserRole, CreateUser, BeginReissue, BeginReset,
      SeeInvites, CallFails, RedeemFails, ValidateInvite, LinkProvider, CheckPassword,
      CreateSession

\* setupPassword consumes its invite with a DELETE that looks again, so no
\* password is set with an invite that expired, was redeemed or was replaced
\* while the hash was computed.
THEOREM DeadInvitesRefused == Spec => DeadInviteRefused
<1>1. Init => CallsKnow /\ Buried
  BY IdleKnows DEF Init, CallsKnow, Buried
<1>2. TypeOK /\ CallsKnow /\ Buried /\ [Next]_vars => CallsKnow' /\ Buried'
  BY CallsKnowStep, BuriedStep
<1>3. Buried => [\A s \in Redeemers : RedeemInvite(s) => redeem[s] \notin dead]_vars
  BY DEF Buried, RedeemInvite, Consumable
<1> QED
  BY <1>1, <1>2, <1>3, TypeCorrect, PTL DEF Spec, DeadInviteRefused

-----------------------------------------------------------------------------
(* Password resets *)

Resets(c, u) == call[c].pc # "idle" /\ call[c].user = u /\ call[c].reset

\* While a reset runs it knows the sessions and the credential row it will
\* clear, or what it misses is noted as late.
Knows(u) ==
    /\ \A g \in signin[u] : g <= resets[u]
    /\ \A c \in Calls : Resets(c, u) => role[u] # "absent"
    /\ "session" \notin late[u] =>
          /\ \A g \in sessions[u] : g = resets[u]
          /\ \A c \in Calls : Resets(c, u) => sessions[u] \subseteq call[c].revoked
    /\ "password" \notin late[u] /\ credential[u].set =>
          /\ credential[u].gen = resets[u]
          /\ \A c \in Calls : Resets(c, u) => call[c].row = credential[u].row

ResetKnows == \A u \in Users : Knows(u)

\* No reset begins, and the ones that go on keep what they know.
NoNewReset ==
    \A c \in Calls, u \in Users :
        Resets(c, u)' => /\ Resets(c, u)
                         /\ call'[c].revoked = call[c].revoked
                         /\ call'[c].row = call[c].row

LEMMA NoNewResets ==
  ASSUME TypeOK, NEW c \in Calls,
         \/ UNCHANGED call
         \/ call' = [call EXCEPT ![c] = IdleCall]
         \/ SeeInvites(c)
         \/ \E u \in Users : Authorize(c, u) \/ BeginReissue(c, u)
  PROVE  NoNewReset
<1>1. CASE UNCHANGED call
  BY <1>1 DEF NoNewReset, Resets
<1>2. ASSUME NEW k, call' = [call EXCEPT ![c] = k], k.pc = "idle" \/ ~k.reset PROVE NoNewReset
  BY <1>2 DEF NoNewReset, Resets, TypeOK
<1>3. CASE call' = [call EXCEPT ![c] = IdleCall]
  BY <1>2, <1>3 DEF IdleCall
<1>4. CASE SeeInvites(c)
  <2>1. call[c] \in Call
    BY DEF TypeOK
  <2> DEFINE seeing == [call[c] EXCEPT !.pc = "replacing", !.seen = InviteRows(call[c].user)]
  <2>2. /\ seeing.user = call[c].user /\ seeing.reset = call[c].reset
        /\ seeing.revoked = call[c].revoked /\ seeing.row = call[c].row
    BY <2>1 DEF Call
  <2>3. call[c].pc # "idle" /\ call' = [call EXCEPT ![c] = seeing]
    BY <1>4 DEF SeeInvites
  <2> HIDE DEF seeing
  <2> QED
    BY <2>2, <2>3 DEF NoNewReset, Resets, TypeOK
<1>5. ASSUME NEW u \in Users, Authorize(c, u) PROVE NoNewReset
  <2>1. [IdleCall EXCEPT !.pc = "authorized", !.actor = u].reset = FALSE
    BY DEF IdleCall
  <2> QED
    BY <1>2, <1>5, <2>1 DEF Authorize
<1>6. ASSUME NEW u \in Users, BeginReissue(c, u) PROVE NoNewReset
  <2>1. [IdleCall EXCEPT !.pc = "issuing", !.user = u, !.older = InviteRows(u)].reset = FALSE
    BY DEF IdleCall
  <2> QED
    BY <1>2, <1>6, <2>1 DEF BeginReissue
<1> QED
  BY <1>1, <1>3, <1>4, <1>5, <1>6

\* Steps that touch neither sessions nor credentials.
LEMMA KnowsFrame ==
  ASSUME ResetKnows, NoNewReset, UNCHANGED <<sessions, credential, signin, resets, late>>,
         \A u \in Users : role[u] # "absent" => role'[u] # "absent"
  PROVE  ResetKnows'
  BY DEF ResetKnows, Knows, NoNewReset

LEMMA KnowsSetup ==
  ASSUME TypeOK, ResetKnows, NEW s \in Setups, NEW u \in Users, CreateFirstAdmin(s, u)
  PROVE  ResetKnows'
<1>1. UNCHANGED <<sessions, signin, resets, late, call>> /\ role[u] = "absent"
  BY DEF CreateFirstAdmin
<1>2. \A v \in Users : v # u => role'[v] = role[v] /\ credential'[v] = credential[v]
  BY DEF CreateFirstAdmin, TypeOK
<1>3. \A c \in Calls : ~Resets(c, u)
  BY <1>1 DEF ResetKnows, Knows
<1>4. credential'[u] = credential[u] \/ credential'[u].gen = resets[u]
  BY DEF CreateFirstAdmin, TypeOK, NextCredential
<1>5. ASSUME NEW v \in Users PROVE Knows(v)'
  <2>1. CASE v = u
    BY <1>1, <1>3, <1>4, <2>1 DEF ResetKnows, Knows, Resets
  <2>2. CASE v # u
    BY <1>1, <1>2, <2>2 DEF ResetKnows, Knows, Resets
  <2> QED
    BY <2>1, <2>2
<1> QED
  BY <1>5 DEF ResetKnows

LEMMA KnowsRemoval ==
  ASSUME TypeOK, ResetKnows, NEW c \in Calls, NEW u \in Users, RemoveUser(c, u)
  PROVE  ResetKnows'
<1>1. UNCHANGED <<signin, resets, late>> /\ NoNewReset
  BY NoNewResets DEF RemoveUser
<1>2. /\ \A v \in Users : role[v] # "absent" => role'[v] # "absent"
      /\ \A v \in Users : sessions'[v] \subseteq sessions[v]
      /\ \A v \in Users : credential'[v] = credential[v] \/ ~credential'[v].set
  BY DEF RemoveUser, TypeOK, NoCredential
<1> QED
  BY <1>1, <1>2 DEF ResetKnows, Knows, NoNewReset

LEMMA KnowsBegin ==
  ASSUME TypeOK, ResetKnows, NEW c \in Calls, NEW u \in Users, BeginReset(c, u)
  PROVE  ResetKnows'
<1> DEFINE reset == [IdleCall EXCEPT !.pc = "issuing", !.user = u, !.reset = TRUE,
              !.older = InviteRows(u), !.row = credential[u].row, !.revoked = sessions[u]]
<1>1. /\ reset.user = u /\ reset.row = credential[u].row /\ reset.revoked = sessions[u]
  BY DEF IdleCall
<1>2. /\ call' = [call EXCEPT ![c] = reset]
      /\ UNCHANGED <<role, sessions, credential, signin, resets, late>>
      /\ role[u] # "absent"
  BY DEF BeginReset, ghosts, MayActOn, Exists, Roles
<1>3. call'[c] = reset /\ \A d \in Calls : d # c => call'[d] = call[d]
  BY <1>2 DEF TypeOK
<1> HIDE DEF reset
<1>4. ASSUME NEW v \in Users PROVE Knows(v)'
  <2>1. ASSUME NEW d \in Calls, Resets(d, v)'
        PROVE  \/ Resets(d, v) /\ call'[d] = call[d]
               \/ v = u /\ call'[d].row = credential[u].row /\ call'[d].revoked = sessions[u]
    BY <1>1, <1>3, <2>1 DEF Resets
  <2> QED
    BY <1>2, <2>1 DEF ResetKnows, Knows
<1> QED
  BY <1>4 DEF ResetKnows

\* A commit takes the sessions and the credential row its reset knew.
LEMMA KnowsCommit ==
  ASSUME TypeOK, ResetKnows, NEW c \in Calls, NEW t \in Tokens, CommitInvite(c, t)
  PROVE  ResetKnows'
<1>1. UNCHANGED <<role, signin, late>> /\ NoNewReset
  BY NoNewResets DEF CommitInvite
<1>2. call[c] \in Call
  BY DEF TypeOK
<1>3. ASSUME NEW v \in Users, ~Resets(c, v) PROVE Knows(v)'
  <2>1. resets'[v] = resets[v]
    BY <1>3 DEF CommitInvite, TypeOK, Resets
  <2>2. sessions'[v] \subseteq sessions[v]
    BY DEF CommitInvite, TypeOK
  <2>3. credential'[v] = credential[v]
    BY <1>3 DEF CommitInvite, TypeOK, Resets
  <2> QED
    BY <1>1, <2>1, <2>2, <2>3 DEF ResetKnows, Knows, NoNewReset
<1>4. ASSUME NEW v \in Users, Resets(c, v) PROVE Knows(v)'
  <2>1. resets'[v] = resets[v] + 1 /\ resets[v] \in Nat
    BY <1>4 DEF CommitInvite, TypeOK, Resets
  <2>2. sessions'[v] = sessions[v] \ call[c].revoked
    BY <1>4 DEF CommitInvite, TypeOK, Resets
  <2>3. credential[v] \in Credential
    BY DEF TypeOK
  <2>4. "password" \notin late[v] => ~credential'[v].set
    <3>1. CASE credential[v].row = call[c].row
      <4>1. credential'[v] = [credential[v] EXCEPT !.set = FALSE]
        BY <1>4, <3>1 DEF CommitInvite, TypeOK, Resets
      <4> QED
        BY <2>3, <4>1 DEF Credential
    <3>2. CASE credential[v].row # call[c].row
      <4>1. credential'[v] = credential[v]
        BY <1>4, <3>2 DEF CommitInvite, Resets
      <4> QED
        BY <1>4, <3>2, <4>1 DEF ResetKnows, Knows
    <3> QED
      BY <3>1, <3>2
  <2>5. "session" \notin late[v] => sessions'[v] = {}
    BY <1>4, <2>2 DEF ResetKnows, Knows
  <2>6. \A g \in signin[v] : g \in Nat /\ g <= resets[v]
    BY DEF ResetKnows, Knows, TypeOK
  <2>7. \A g \in signin[v] : g <= resets'[v]
    BY <2>1, <2>6
  <2> QED
    BY <1>1, <2>4, <2>5, <2>7 DEF ResetKnows, Knows, NoNewReset
<1> QED
  BY <1>3, <1>4 DEF ResetKnows

LEMMA KnowsRedeem ==
  ASSUME TypeOK, ResetKnows, NEW s \in Redeemers, RedeemInvite(s)
  PROVE  ResetKnows'
<1> DEFINE u == invite[redeem[s]].owner
<1>1. UNCHANGED <<role, sessions, signin, resets, call>>
  BY DEF RedeemInvite
<1>2. ASSUME NEW v \in Users, v # u PROVE Knows(v)'
  <2>1. credential'[v] = credential[v] /\ late'[v] = late[v]
    BY <1>2 DEF RedeemInvite, TypeOK
  <2> QED
    BY <1>1, <2>1 DEF ResetKnows, Knows, Resets
<1>3. ASSUME NEW v \in Users, v = u PROVE Knows(v)'
  <2>1. credential'[v].gen = resets[v]
    BY <1>3 DEF RedeemInvite, TypeOK, NextCredential
  <2>2. late'[v] = IF Resetting(v) THEN late[v] \cup {"password"} ELSE late[v]
    BY <1>3 DEF RedeemInvite, TypeOK
  <2>3. "password" \notin late'[v] => \A c \in Calls : ~Resets(c, v)
    BY <2>2 DEF Resetting, Resets
  <2>4. "session" \notin late'[v] => "session" \notin late[v]
    BY <2>2
  <2> QED
    BY <1>1, <2>1, <2>3, <2>4 DEF ResetKnows, Knows, Resets
<1> QED
  BY <1>2, <1>3 DEF ResetKnows

LEMMA KnowsSignIn ==
  ASSUME TypeOK, ResetKnows, NEW u \in Users,
         CheckPassword(u) \/ \E g \in signin[u] : CreateSession(u, g)
  PROVE  ResetKnows'
<1>1. CASE CheckPassword(u)
  <2>1. UNCHANGED <<role, sessions, credential, resets, late, call>>
    BY <1>1 DEF CheckPassword, ghosts
  <2>2. \A v \in Users : resets[v] \in Nat
    BY DEF TypeOK
  <2>3. \A v \in Users : \A g \in signin'[v] : g \in signin[v] \/ g = resets[v]
    BY <1>1 DEF CheckPassword, TypeOK
  <2>4. \A v \in Users : \A g \in signin'[v] : g <= resets[v]
    BY <2>2, <2>3 DEF ResetKnows, Knows
  <2> QED
    BY <2>1, <2>4 DEF ResetKnows, Knows, Resets
<1>2. ASSUME NEW g \in signin[u], CreateSession(u, g) PROVE ResetKnows'
  <2>1. UNCHANGED <<role, credential, resets, call>>
    BY <1>2 DEF CreateSession
  <2>2. \A v \in Users : signin'[v] \subseteq signin[v]
    BY <1>2 DEF CreateSession, TypeOK
  <2>3. \A v \in Users : v # u => sessions'[v] = sessions[v] /\ late'[v] = late[v]
    BY <1>2 DEF CreateSession, TypeOK
  <2>4. sessions'[u] \subseteq sessions[u] \cup {g}
    BY <1>2 DEF CreateSession, TypeOK
  <2>5. late'[u] = IF g < resets[u] \/ Resetting(u) THEN late[u] \cup {"session"} ELSE late[u]
    BY <1>2 DEF CreateSession, TypeOK
  <2>6. g \in Nat /\ resets[u] \in Nat /\ g <= resets[u]
    BY DEF ResetKnows, Knows, TypeOK
  <2>7. "session" \notin late'[u] =>
          "session" \notin late[u] /\ g = resets[u] /\ \A c \in Calls : ~Resets(c, u)
    BY <2>5, <2>6 DEF Resetting, Resets
  <2>8. "password" \notin late'[u] => "password" \notin late[u]
    BY <2>5
  <2>9. ASSUME NEW v \in Users, v # u PROVE Knows(v)'
    BY <2>1, <2>2, <2>3, <2>9 DEF ResetKnows, Knows, Resets
  <2>10. Knows(u)'
    BY <2>1, <2>2, <2>4, <2>7, <2>8 DEF ResetKnows, Knows, Resets
  <2> QED
    BY <2>9, <2>10 DEF ResetKnows
<1> QED
  BY <1>1, <1>2

LEMMA ResetKnowsStep == ASSUME TypeOK, ResetKnows, [Next]_vars PROVE ResetKnows'
<1>1. CASE UNCHANGED vars
  BY <1>1 DEF vars, ResetKnows, Knows, Resets
<1>2. CASE SetupStep
  <2>1. ASSUME NEW s \in Setups, CheckSetup(s) PROVE ResetKnows'
    BY <2>1 DEF CheckSetup, ghosts, ResetKnows, Knows, Resets
  <2> QED
    BY <1>2, <2>1, KnowsSetup DEF SetupStep
<1>3. CASE RouteStep
  <2>1. PICK c \in Calls : UsersRoute(c)
    BY <1>3 DEF RouteStep
  <2>2. ASSUME NEW u \in Users, NEW r \in Roles, SetUserRole(c, u, r) PROVE ResetKnows'
    <3>1. NoNewReset /\ UNCHANGED <<sessions, credential, signin, resets, late>>
      BY <2>2, NoNewResets DEF SetUserRole
    <3>2. \A v \in Users : role[v] # "absent" => role'[v] # "absent"
      BY <2>2 DEF SetUserRole, TypeOK, Roles
    <3> QED
      BY <3>1, <3>2, KnowsFrame
  <2>3. ASSUME NEW u \in Users, NEW r \in Roles, NEW t \in Tokens, CreateUser(c, u, r, t)
        PROVE  ResetKnows'
    <3>1. NoNewReset /\ UNCHANGED <<sessions, credential, signin, resets, late>>
      BY <2>3, NoNewResets DEF CreateUser, ghosts
    <3>2. \A v \in Users : role[v] # "absent" => role'[v] # "absent"
      BY <2>3 DEF CreateUser, TypeOK, Roles
    <3> QED
      BY <3>1, <3>2, KnowsFrame
  <2>4. CASE SeeInvites(c) \/ CallFails(c) \/ \E u \in Users : Authorize(c, u) \/ BeginReissue(c, u)
    <3>1. UNCHANGED <<role, sessions, credential, signin, resets, late>>
      BY <2>4 DEF SeeInvites, CallFails, Authorize, BeginReissue, ghosts
    <3>2. NoNewReset
      BY <2>4, NoNewResets DEF CallFails
    <3> QED
      BY <3>1, <3>2, KnowsFrame
  <2> QED
    BY <2>1, <2>2, <2>3, <2>4, KnowsRemoval, KnowsBegin, KnowsCommit DEF UsersRoute
<1>4. CASE RedeemStep
  <2>1. ASSUME NEW s \in Redeemers, RedeemFails(s) \/ \E t \in Tokens : ValidateInvite(s, t)
        PROVE  ResetKnows'
    BY <2>1 DEF RedeemFails, ValidateInvite, ghosts, ResetKnows, Knows, Resets
  <2> QED
    BY <1>4, <2>1, KnowsRedeem DEF RedeemStep
<1>5. CASE SignInStep
  <2>1. ASSUME (\E t \in Tokens : ExpireInvite(t)) \/ \E u \in Users : LinkProvider(u) \/ ConsumeInvites(u)
        PROVE  ResetKnows'
    <3>1. UNCHANGED <<role, sessions, credential, signin, resets, late, call>>
      BY <2>1 DEF ExpireInvite, LinkProvider, ConsumeInvites, ghosts
    <3> QED
      BY <3>1 DEF ResetKnows, Knows, Resets
  <2> QED
    BY <1>5, <2>1, KnowsSignIn DEF SignInStep
<1> QED
  BY <1>1, <1>2, <1>3, <1>4, <1>5, Split

\* A reset leaves no older session or password that opens the account, but for
\* a sign-in or a redemption that was under way while it ran.
THEOREM ResetsEndAccess == Spec => []ResetEndsAccess
<1>1. Init => ResetKnows
  <2> SUFFICES ASSUME Init PROVE ResetKnows
    OBVIOUS
  <2>1. \A c \in Calls, u \in Users : ~Resets(c, u)
    BY DEF Init, Resets, IdleCall
  <2>2. \A u \in Users : signin[u] = {} /\ sessions[u] = {} /\ ~credential[u].set
    BY DEF Init, NoCredential
  <2> QED
    BY <2>1, <2>2 DEF ResetKnows, Knows
<1>2. TypeOK /\ ResetKnows /\ [Next]_vars => ResetKnows'
  BY ResetKnowsStep
<1>3. ResetKnows => ResetEndsAccess
  BY DEF ResetKnows, Knows, ResetEndsAccess
<1> QED
  BY <1>1, <1>2, <1>3, TypeCorrect, PTL DEF Spec

=============================================================================
