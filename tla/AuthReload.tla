----------------------------- MODULE AuthReload -----------------------------
(***************************************************************************)
(* The live Better Auth instance of one API process and the settings it is *)
(* built from (lib/auth.ts, services/settings.service.ts,                  *)
(* services/oidc.service.ts, routes/settings.ts).                          *)
(*                                                                         *)
(* An administrator's write commits to app_settings and then awaits        *)
(* reloadAuth.  Reloads are chained on one promise: each reads the         *)
(* settings, probes the OIDC issuer, builds an instance and swaps it in.   *)
(* An issuer that does not answer leaves the instance without SSO and arms *)
(* the only retry timer, which starts another reload when it fires.        *)
(*                                                                         *)
(* Abstractions.  Of the settings the OIDC issuer is kept; every other     *)
(* key is the version, which each write increments.  An issuer is "up"     *)
(* when its discovery document passes verifyOidcIssuer in time.  A write   *)
(* whose transaction fails changes nothing and is not a step.              *)
(***************************************************************************)
EXTENDS Naturals, Sequences

CONSTANTS
    Writers,        \* requests that change settings
    Issuers,        \* OIDC issuers
    NoIssuer,       \* OIDC is not configured
    NoInstance,     \* initAuth has not finished
    NoJob,          \* this reload is not running
    Boot, Timer,    \* the reloads no settings request waits for
    MaxVersion,     \* bound on the settings writes, for model checking
    MaxQueue        \* bound on the queued reloads, for model checking

Reloads == Writers \cup {Boot, Timer}
Provider == Issuers \cup {NoIssuer}
Config == [oidc : Provider, version : Nat]
Job == [pc : {"read", "probing", "building"}, oidc : Provider, version : Nat]

ASSUME AuthReloadAssumption ==
    /\ Boot # Timer
    /\ Boot \notin Writers
    /\ Timer \notin Writers
    /\ NoIssuer \notin Issuers
    /\ NoInstance \notin Config
    /\ NoJob \notin Job
    /\ MaxVersion \in Nat
    /\ MaxQueue \in Nat

VARIABLES
    stored,    \* app_settings
    env,       \* the issuer in OIDC_*, which wins over app_settings
    up,        \* issuers whose discovery document can be fetched
    live,      \* what holder.instance was built from
    queue,     \* reloads chained on `reloading` that have not started
    running,   \* reloads inside rebuild
    retry,     \* oidcRetry is armed
    writer,    \* the settings requests
    \* History, read by the properties only:
    acked,     \* the newest version whose request was answered 204
    faulted    \* the last reload of this process failed on the database

vars == <<stored, env, up, live, queue, running, retry, writer, acked,
          faulted>>

\* A settings request: its issuer is verified, its write is committed and the
\* reload not yet called, or it awaits the reload.
Request == [pc : {"idle", "verified", "written", "waiting"},
            issuer : Provider, version : Nat]

Idle == [pc |-> "idle", issuer |-> NoIssuer, version |-> 0]

TypeOK ==
    /\ stored \in Config
    /\ env \in Provider
    /\ up \in SUBSET Issuers
    /\ live \in Config \cup {NoInstance}
    /\ queue \in Seq(Reloads)
    /\ running \in [Reloads -> Job \cup {NoJob}]
    /\ retry \in BOOLEAN
    /\ writer \in [Writers -> Request]
    /\ acked \in Nat
    /\ faulted \in BOOLEAN

\* The process starts, OIDC_* set or not; initAuth is due.
Init ==
    /\ env \in Provider
    /\ stored \in [oidc : IF env = NoIssuer THEN Provider ELSE {NoIssuer}, version : {0}]
    /\ up \in SUBSET Issuers
    /\ live = NoInstance
    /\ queue = <<Boot>>
    /\ running = [x \in Reloads |-> NoJob]
    /\ retry = FALSE
    /\ writer = [w \in Writers |-> Idle]
    /\ acked = 0
    /\ faulted = FALSE

-----------------------------------------------------------------------------
(* Settings requests *)

Serving == live # NoInstance

\* What loadAuthConfig takes for the provider.
Effective == IF env = NoIssuer THEN stored.oidc ELSE env

\* PUT /auth/oidc/credentials: assertOidcNotManagedByEnv, then verifyOidcIssuer.
VerifyIssuer(w, i) ==
    /\ Serving
    /\ writer[w].pc = "idle"
    /\ env = NoIssuer
    /\ i \in up
    /\ writer' = [writer EXCEPT ![w] = [pc |-> "verified", issuer |-> i, version |-> 0]]
    /\ UNCHANGED <<stored, env, up, live, queue, running, retry, acked, faulted>>

\* The transaction of a settings request commits with this provider.
Commit(w, oidc) ==
    /\ stored.version < MaxVersion
    /\ stored' = [oidc |-> oidc, version |-> stored.version + 1]
    /\ writer' = [writer EXCEPT ![w] = [pc |-> "written", issuer |-> NoIssuer,
                                        version |-> stored.version + 1]]
    /\ UNCHANGED <<env, up, live, queue, running, retry, acked, faulted>>

PutOidc(w) ==
    /\ writer[w].pc = "verified"
    /\ Commit(w, writer[w].issuer)

\* Every settings write without a network call first: the OIDC delete, which
\* OIDC_* forbids, and the ones that leave the issuer alone.
WriteSettings(w) ==
    /\ Serving
    /\ writer[w].pc = "idle"
    /\ \/ env = NoIssuer /\ Commit(w, NoIssuer)
       \/ Commit(w, stored.oidc)

\* Mutation: the handler answers without awaiting the reload.
CallReloadUnawaited(w) ==
    /\ writer[w].pc = "written"
    /\ queue' = Append(queue, Timer)
    /\ writer' = [writer EXCEPT ![w] = Idle]
    /\ acked' = IF writer[w].version > acked THEN writer[w].version ELSE acked
    /\ UNCHANGED <<stored, env, up, live, running, retry, faulted>>

\* The handler resumes after the commit and chains its reload.
CallReload(w) ==
    /\ writer[w].pc = "written"
    /\ Len(queue) < MaxQueue
    /\ queue' = Append(queue, w)
    /\ writer' = [writer EXCEPT ![w].pc = "waiting"]
    /\ UNCHANGED <<stored, env, up, live, running, retry, acked, faulted>>

-----------------------------------------------------------------------------
(* rebuild *)

\* Mutation: reloadAuth calls rebuild instead of chaining it.
TurnUnchained(x) == queue # <<>> /\ x = Head(queue)

\* The chain starts a reload when the one before it has settled.
Turn(x) ==
    /\ queue # <<>>
    /\ x = Head(queue)
    /\ \A y \in Reloads : running[y] = NoJob

\* The database answers loadAuthConfig.
ReadConfig(x) ==
    /\ Turn(x)
    /\ queue' = Tail(queue)
    /\ running' = [running EXCEPT ![x] = [pc |-> "read", oidc |-> Effective,
                                          version |-> stored.version]]
    /\ UNCHANGED <<stored, env, up, live, retry, writer, acked, faulted>>

\* loadAuthConfig rejects: the request gets a 500, the timer's reload is only
\* logged, and at boot the process is left without an instance.
LoadFails(x) ==
    /\ Turn(x)
    /\ queue' = Tail(queue)
    /\ writer' = [w \in Writers |-> IF w = x THEN Idle ELSE writer[w]]
    /\ faulted' = TRUE
    /\ UNCHANGED <<stored, env, up, live, running, retry, acked>>

\* The config is here: clearOidcRetry, then probe the issuer if there is one.
Resume(x) ==
    /\ running[x] # NoJob /\ running[x].pc = "read"
    /\ retry' = FALSE
    /\ running' = [running EXCEPT ![x] =
                     [pc |-> IF running[x].oidc = NoIssuer THEN "building" ELSE "probing",
                      oidc |-> running[x].oidc, version |-> running[x].version]]
    /\ UNCHANGED <<stored, env, up, live, queue, writer, acked, faulted>>

ProbeSucceeds(x) ==
    /\ running[x] # NoJob /\ running[x].pc = "probing"
    /\ running[x].oidc \in up
    /\ running' = [running EXCEPT ![x] = [pc |-> "building", oidc |-> running[x].oidc,
                                          version |-> running[x].version]]
    /\ UNCHANGED <<stored, env, up, live, queue, retry, writer, acked, faulted>>

\* Mutation: only the reload of the boot sequence arms the retry.
ProbeFailsOnce(x) ==
    /\ running[x] # NoJob /\ running[x].pc = "probing"
    /\ running[x].oidc \notin up
    /\ retry' = (x = Boot)
    /\ running' = [running EXCEPT ![x] = [pc |-> "building", oidc |-> NoIssuer,
                                          version |-> running[x].version]]
    /\ UNCHANGED <<stored, env, up, live, queue, writer, acked, faulted>>

\* scheduleOidcRetry, and go on without OIDC.
ProbeFails(x) ==
    /\ running[x] # NoJob /\ running[x].pc = "probing"
    /\ running[x].oidc \notin up
    /\ retry' = TRUE
    /\ running' = [running EXCEPT ![x] = [pc |-> "building", oidc |-> NoIssuer,
                                          version |-> running[x].version]]
    /\ UNCHANGED <<stored, env, up, live, queue, writer, acked, faulted>>

\* The plugin fetches discovery once more while $context initialises.
Skipped(x) == running[x].oidc # NoIssuer /\ running[x].oidc \notin up

\* Mutation: the reload leaves its own bookkeeping in the holder.
InstallJob(x) ==
    /\ live' = running[x]
    /\ running' = [running EXCEPT ![x] = NoJob]
    /\ writer' = [w \in Writers |-> IF w = x THEN Idle ELSE writer[w]]
    /\ acked' = IF x \in Writers /\ writer[x].version > acked THEN writer[x].version ELSE acked
    /\ faulted' = FALSE

\* The instance is swapped in, and the request that waited for it returns.
Install(x) ==
    /\ live' = [oidc |-> IF Skipped(x) THEN NoIssuer ELSE running[x].oidc,
                version |-> running[x].version]
    /\ running' = [running EXCEPT ![x] = NoJob]
    /\ writer' = [w \in Writers |-> IF w = x THEN Idle ELSE writer[w]]
    /\ acked' = IF x \in Writers /\ writer[x].version > acked THEN writer[x].version ELSE acked
    /\ faulted' = FALSE

\* Mutation: a provider the plugin skipped is dropped without a retry.
BuildSkipsQuietly(x) ==
    /\ running[x] # NoJob /\ running[x].pc = "building"
    /\ Install(x)
    /\ UNCHANGED <<stored, env, up, queue, retry>>

\* buildReadyAuth and the rest of rebuild.
Build(x) ==
    /\ running[x] # NoJob /\ running[x].pc = "building"
    /\ retry' = (retry \/ Skipped(x))
    /\ Install(x)
    /\ UNCHANGED <<stored, env, up, queue>>

\* setTimeout calls back: oidcRetry = null and one more reload.  The timer is
\* far longer than the build at boot, which reaches no network once OIDC is
\* dropped, so it fires on a process that serves.
TimerFires ==
    /\ retry
    /\ Serving
    /\ Len(queue) < MaxQueue
    /\ retry' = FALSE
    /\ queue' = Append(queue, Timer)
    /\ UNCHANGED <<stored, env, up, live, running, writer, acked, faulted>>

-----------------------------------------------------------------------------
(* The world *)

\* The process dies and starts again, perhaps with other OIDC_* variables;
\* syncOidcEnvIdentity drops the stored provider when they are set.
Restart(newEnv) ==
    /\ env' = newEnv
    /\ stored' = [oidc |-> IF newEnv = NoIssuer THEN stored.oidc ELSE NoIssuer,
                  version |-> stored.version]
    /\ live' = NoInstance
    /\ queue' = <<Boot>>
    /\ running' = [x \in Reloads |-> NoJob]
    /\ retry' = FALSE
    /\ writer' = [w \in Writers |-> Idle]
    /\ faulted' = FALSE
    /\ UNCHANGED <<up, acked>>

\* An issuer goes down or comes back.
IssuerChanges(i) ==
    /\ up' = IF i \in up THEN up \ {i} ELSE up \cup {i}
    /\ UNCHANGED <<stored, env, live, queue, running, retry, writer, acked, faulted>>

Reload(x) ==
    ReadConfig(x) \/ Resume(x) \/ ProbeSucceeds(x) \/ ProbeFails(x) \/ Build(x)

Next ==
    \/ \E w \in Writers :
          \/ \E i \in Issuers : VerifyIssuer(w, i)
          \/ PutOidc(w) \/ WriteSettings(w) \/ CallReload(w)
    \/ \E x \in Reloads : Reload(x) \/ LoadFails(x)
    \/ TimerFires
    \/ \E e \in Provider : Restart(e)
    \/ \E i \in Issuers : IssuerChanges(i)

Spec == Init /\ [][Next]_vars

\* The event loop runs a promise that can go on and a timer that is due.
Fairness ==
    /\ WF_vars(\E x \in Reloads : Reload(x))
    /\ WF_vars(TimerFires)
    /\ \A w \in Writers : WF_vars(CallReload(w))

FairSpec == Spec /\ Fairness

-----------------------------------------------------------------------------
(* Properties *)

\* A settings request that answered 204 is in force: the serving instance was
\* built from settings at least as new as its write, whatever reloads other
\* requests and the timer ran meanwhile (routes/settings.ts awaits reloadAuth).
AckedIsLive == Serving => acked <= live.version

\* "Serialized so two admin writes cannot finish their reloads out of order"
\* (lib/auth.ts): a serving instance never gives way to one built from older
\* settings.
LiveNeverOlder == [][Serving /\ Serving' => live.version <= live'.version]_vars

\* Whenever the serving instance disagrees with the configured provider (off
\* although configured, or on although removed), something is already under
\* way to repair it: the timer, a reload, or a request about to reload; unless
\* the last reload was lost to the database.
MismatchWatched ==
    Serving /\ live.oidc # Effective /\ ~faulted =>
        \/ retry
        \/ queue # <<>>
        \/ \E x \in Reloads : running[x] # NoJob
        \/ \E w \in Writers : writer[w].pc = "written"

\* "removing the vars turns OIDC off instead of quietly reviving an older
\* provider" (settings.service.ts, syncOidcEnvIdentity), whatever requests ran
\* while the variables were set.
EnvNeverRevives == [][env # NoIssuer /\ env' = NoIssuer => stored'.oidc = NoIssuer]_vars

\* Nothing older comes back: not in the serving instance, and not from under
\* an environment that is removed.
NeverBackwards == LiveNeverOlder /\ EnvNeverRevives

\* A process that stays up, with a provider that stays reachable and no reload
\* lost to the database, ends up serving exactly that provider with no further
\* settings write: the test "the retry re-enables oidc once the issuer is back".
SsoRestored ==
    <>[](Serving /\ ~faulted /\ Effective \in up \cup {NoIssuer})
        => <>[](Serving /\ live.oidc = Effective)

\* "A transient IdP outage at boot must not leave SSO off until someone
\* re-saves settings" (lib/auth.ts): while a configured provider is off, the
\* retry or a reload is on its way.
OutageNeverStrands ==
    Serving /\ Effective # NoIssuer /\ live.oidc = NoIssuer =>
        \/ retry
        \/ queue # <<>>
        \/ \E x \in Reloads : running[x] # NoJob
        \/ \E w \in Writers : writer[w].pc = "written"

=============================================================================
