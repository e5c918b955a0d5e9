-------------------------- MODULE ProviderSessions --------------------------
(***************************************************************************)
(* Who is signed in through OpenID Connect when its identity changes: the  *)
(* issuer or the client saved in the settings or given by the environment  *)
(* (api/services/settings.service.ts), against sign-in callbacks that the  *)
(* instance of the old identity is still serving (api/lib/auth.ts).        *)
(*                                                                         *)
(* Abstractions.  One process, one subject: "1" is somebody else under     *)
(* every issuer and client, the worst case for accounts that stay behind.  *)
(* How a rebuild reaches the issuer is the business of AuthReload.         *)
(***************************************************************************)
EXTENDS Naturals

CONSTANTS
    Identities,     \* records [issuer, client]
    People,
    Person,         \* whom the subject denotes under each identity
    NoIdentity,
    NoOne,
    NoChange,       \* no settings transaction is open
    MaxSignIns,     \* bounds, for model checking
    MaxChanges

ASSUME ProviderSessionsAssumption ==
    /\ Person \in [Identities -> People]
    /\ NoIdentity \notin Identities
    /\ NoOne \notin People
    /\ MaxSignIns \in Nat /\ MaxChanges \in Nat

\* stale tells whether the sign-in overlapped a change or was served by an
\* instance of settings that had changed.
Account == [user : People, via : Identities, stale : BOOLEAN]
Callback == [id : Nat, via : Identities, stale : BOOLEAN, found : BOOLEAN,
             account : Account \cup {NoOne}]
Session == [id : Nat, user : People, via : Identities, stale : BOOLEAN, account : Account]
Change == [to : Identities \cup {NoIdentity}, unlinks : BOOLEAN, doomed : SUBSET Session]

VARIABLES
    savedOidc,      \* OIDC_ISSUER_URL and OIDC_CLIENT_ID in app_settings
    envOidc,        \* OIDC_* of the running process
    envIdentity,    \* OIDC_ENV_IDENTITY, what the last boot saw
    liveOidc,       \* the identity the live instance was built from
    oidcAccounts,
    oidcSessions,
    callbacks,
    change,         \* the open transaction of a settings request
    signIns, changes

providerVars == <<savedOidc, envOidc, envIdentity, liveOidc, oidcAccounts, oidcSessions,
                  callbacks, change, signIns, changes>>

ProviderTypeOK ==
    /\ {savedOidc, envOidc, envIdentity, liveOidc} \subseteq Identities \cup {NoIdentity}
    /\ oidcAccounts \subseteq Account
    /\ oidcSessions \subseteq Session
    /\ callbacks \subseteq Callback
    /\ change \in Change \cup {NoChange}
    /\ signIns \in 0..MaxSignIns
    /\ changes \in 0..MaxChanges

ProviderInit ==
    /\ savedOidc = NoIdentity /\ envOidc = NoIdentity
    /\ envIdentity = NoIdentity /\ liveOidc = NoIdentity
    /\ oidcAccounts = {} /\ oidcSessions = {} /\ callbacks = {}
    /\ change = NoChange
    /\ signIns = 0 /\ changes = 0

\* loadAuthConfig: the environment wins.
Effective == IF envOidc # NoIdentity THEN envOidc ELSE savedOidc

-----------------------------------------------------------------------------
(* Signing in *)

\* The live instance has the provider only when it was configured.
ServesCallbacks == liveOidc # NoIdentity

BeginCallback ==
    /\ ServesCallbacks
    /\ signIns < MaxSignIns
    /\ signIns' = signIns + 1
    /\ callbacks' = callbacks \cup
           {[id |-> signIns + 1, via |-> liveOidc, found |-> FALSE, account |-> NoOne,
             stale |-> change # NoChange \/ liveOidc # Effective]}
    /\ UNCHANGED <<savedOidc, envOidc, envIdentity, liveOidc, oidcAccounts, oidcSessions,
                   change, changes>>

\* Mutation: the subject alone names an account.
SameSubjectAnywhere(account, via) == TRUE

\* accountSubject qualifies the subject with the issuer.
SameSubject(account, via) == account.via.issuer = via.issuer

FindAccount(c) ==
    /\ ~c.found
    /\ LET matching == {a \in oidcAccounts : SameSubject(a, c.via)}
       IN  \E a \in IF matching = {} THEN {NoOne} ELSE matching :
             callbacks' = (callbacks \ {c}) \cup {[c EXCEPT !.found = TRUE, !.account = a]}
    /\ UNCHANGED <<savedOidc, envOidc, envIdentity, liveOidc, oidcAccounts, oidcSessions,
                   change, signIns, changes>>

\* A first sign-in links the user with the verified email.
LinkAccount(c) ==
    /\ c.found
    /\ c.account = NoOne
    /\ LET account == [user |-> Person[c.via], via |-> c.via, stale |-> c.stale]
       IN  /\ oidcAccounts' = oidcAccounts \cup {account}
           /\ callbacks' = (callbacks \ {c}) \cup {[c EXCEPT !.account = account]}
    /\ UNCHANGED <<savedOidc, envOidc, envIdentity, liveOidc, oidcSessions, change,
                   signIns, changes>>

InsertSession(c) ==
    /\ c.account # NoOne
    /\ callbacks' = callbacks \ {c}
    /\ oidcSessions' = oidcSessions \cup
           {[id |-> c.id, user |-> c.account.user, via |-> c.via, stale |-> c.stale,
             account |-> c.account]}
    /\ UNCHANGED <<savedOidc, envOidc, envIdentity, liveOidc, oidcAccounts, change,
                   signIns, changes>>

-----------------------------------------------------------------------------
(* Changing the identity *)

\* Mutation: sessions outlive the link.
LinkedSessionsKept == {}

\* revokeSessionsLinkedTo.
LinkedSessions == {s \in oidcSessions : \E a \in oidcAccounts : a.user = s.user}

IdentityChanged(to) == to # savedOidc

\* putOidcAuthCredentials and deleteOidcAuthCredentials up to the DELETE of the
\* sessions; the environment's provider cannot be changed.
BeginChange(to) ==
    /\ envOidc = NoIdentity
    /\ change = NoChange
    /\ changes < MaxChanges
    /\ changes' = changes + 1
    /\ LET unlinks == IF to = NoIdentity THEN TRUE ELSE IdentityChanged(to)
       IN  /\ change' = [to |-> to, unlinks |-> unlinks,
                         doomed |-> IF unlinks THEN LinkedSessions ELSE {}]
           /\ callbacks' = IF unlinks THEN {[c EXCEPT !.stale = TRUE] : c \in callbacks} ELSE callbacks
    /\ UNCHANGED <<savedOidc, envOidc, envIdentity, liveOidc, oidcAccounts, oidcSessions, signIns>>

\* The DELETE of the accounts, the upsert and the commit.
CommitChange ==
    /\ change # NoChange
    /\ savedOidc' = change.to
    /\ oidcSessions' = oidcSessions \ change.doomed
    /\ oidcAccounts' = IF change.unlinks THEN {} ELSE oidcAccounts
    /\ change' = NoChange
    /\ UNCHANGED <<envOidc, envIdentity, liveOidc, callbacks, signIns, changes>>

\* rebuild, which may take as long as the issuer; the old instance serves meanwhile.
Reload ==
    /\ liveOidc # Effective
    /\ liveOidc' = Effective
    /\ UNCHANGED <<savedOidc, envOidc, envIdentity, oidcAccounts, oidcSessions, callbacks,
                   change, signIns, changes>>

SavedAfterBoot(env) == IF env # NoIdentity THEN NoIdentity ELSE savedOidc

\* The process restarts, perhaps with another environment: callbacks and an open
\* transaction are lost, and syncOidcEnvIdentity compares with the last boot.
Restart(env) ==
    /\ changes < MaxChanges
    /\ changes' = changes + 1
    /\ callbacks' = {}
    /\ change' = NoChange
    /\ envOidc' = env
    /\ savedOidc' = SavedAfterBoot(env)
    /\ envIdentity' = env
    /\ liveOidc' = IF env # NoIdentity THEN env ELSE savedOidc
    /\ IF envIdentity = env
         THEN UNCHANGED <<oidcAccounts, oidcSessions>>
         ELSE /\ oidcSessions' = oidcSessions \ LinkedSessions
              /\ oidcAccounts' = {}
    /\ UNCHANGED signIns

ProviderNext ==
    \/ BeginCallback
    \/ \E c \in callbacks : FindAccount(c) \/ LinkAccount(c) \/ InsertSession(c)
    \/ \E to \in Identities \cup {NoIdentity} : BeginChange(to)
    \/ CommitChange \/ Reload
    \/ \E env \in Identities \cup {NoIdentity} : Restart(env)

ProviderSpec == ProviderInit /\ [][ProviderNext]_providerVars

-----------------------------------------------------------------------------
(* Properties *)

\* A session outlives the identity it was opened under, and a link the identity it
\* was made under, only when the sign-in overlapped the change or was served by the
\* instance the change had yet to replace.
OldIdentityOut ==
    change = NoChange =>
        \A x \in oidcSessions \cup oidcAccounts : x.via = Effective \/ x.stale

\* "`sub` is unique only within an issuer. Qualifying it means a row left over from
\* a previous issuer can never match a subject from the current one" (lib/auth.ts):
\* nobody is signed in as somebody else, whatever overlaps; but for an overlap of two
\* clients of one issuer, which accountSubject does not tell apart.
RightPerson ==
    \A s \in oidcSessions :
        \/ s.user = Person[s.via]
        \/ (s.stale \/ s.account.stale) /\ s.account.via.issuer = s.via.issuer

\* "Removing the vars turns OIDC off instead of quietly reviving an older provider"
\* (settings.service.ts): while the environment sets the provider, no saved one is
\* left to come back.
NothingToRevive == envOidc # NoIdentity => savedOidc = NoIdentity

\* An identity that was changed neither stays behind nor comes back.
NothingOfOldIdentity == OldIdentityOut /\ NothingToRevive

=============================================================================
