-------------------------------- MODULE Boot --------------------------------
(***************************************************************************)
(* The boot of the API (app.ts, boot and main; lib/secret.ts; connectDb    *)
(* and runMigrations of lib/db.ts; probeQuickwit of lib/quickwit/client.ts)*)
(* by several processes on one database, which start, stop and start again.*)
(*                                                                         *)
(* Abstractions.  All migrations are one transaction of Drizzle's, after a *)
(* read of what has been applied; a second process that applies them again *)
(* fails at the first relation that exists.  A secret that is generated    *)
(* is the process and the boot that generated it.                          *)
(***************************************************************************)
EXTENDS Naturals

CONSTANTS
    Processes,
    EnvSecret,            \* the value of BETTER_AUTH_SECRET
    NoSecret,
    CONNECT_RETRY_COUNT,
    PROBE_RETRY,
    MaxBoots,             \* bound on the starts of a process, for model checking
    MaxOutages            \* bound on how often Postgres or Quickwit goes down

ASSUME BootAssumption ==
    /\ {CONNECT_RETRY_COUNT, PROBE_RETRY} \subseteq Nat \ {0}
    /\ {MaxBoots, MaxOutages} \subseteq Nat
    /\ NoSecret \notin {EnvSecret} \cup (Processes \X (1..MaxBoots))

\* What generateSecret can have returned.
Generated == Processes \X (1..MaxBoots)

VARIABLES
    env,        \* processes that are given BETTER_AUTH_SECRET
    migrated,   \* the schema is there
    row,        \* the app_settings row of the secret
    up,         \* the services that answer
    outages,
    boots,      \* how often each process was started
    process     \* process -> where it is

bootVars == <<env, migrated, row, up, outages, boots, process>>

Stopped == [pc |-> "stopped", attempts |-> 0, behind |-> FALSE, secret |-> NoSecret]
At(p, pc) == process[p].pc = pc
GoTo(p, pc) == process' = [process EXCEPT ![p].pc = pc, ![p].attempts = 0]

BootInit ==
    /\ env \in {{}, Processes}
    /\ migrated \in BOOLEAN
    /\ row = [key |-> FALSE, value |-> NoSecret]
    /\ up \in SUBSET {"postgres", "quickwit"}
    /\ outages = 0
    /\ boots = [p \in Processes |-> 0]
    /\ process = [p \in Processes |-> Stopped]

-----------------------------------------------------------------------------

Start(p) ==
    /\ At(p, "stopped")
    /\ boots[p] < MaxBoots
    /\ boots' = [boots EXCEPT ![p] = @ + 1]
    /\ GoTo(p, "connecting")
    /\ UNCHANGED <<env, migrated, row, up, outages>>

\* SIGTERM, a crash, or main's catch of what a step threw: no database, a
\* permanent status of the probe, a short BETTER_AUTH_SECRET.
Stop(p) ==
    /\ ~At(p, "stopped")
    /\ process' = [process EXCEPT ![p] = Stopped]
    /\ UNCHANGED <<env, migrated, row, up, outages, boots>>

\* Mutation: one attempt too many.
RetryOnceMore(p, n) ==
    IF process[p].attempts < n
      THEN process' = [process EXCEPT ![p].attempts = @ + 1]
      ELSE process' = [process EXCEPT ![p] = Stopped]

\* One more attempt of n failed: wait for the next, or throw.
Retry(p, n) ==
    IF process[p].attempts + 1 < n
      THEN process' = [process EXCEPT ![p].attempts = @ + 1]
      ELSE process' = [process EXCEPT ![p] = Stopped]

\* connectDb.
Connect(p) ==
    /\ At(p, "connecting")
    /\ IF "postgres" \in up THEN GoTo(p, "connected") ELSE Retry(p, CONNECT_RETRY_COUNT)
    /\ UNCHANGED <<env, migrated, row, up, outages, boots>>

\* migrate reads what has been applied ...
ReadMigrations(p) ==
    /\ At(p, "connected")
    /\ "postgres" \in up
    /\ process' = [process EXCEPT ![p].pc = "migrating", ![p].behind = ~migrated]
    /\ UNCHANGED <<env, migrated, row, up, outages, boots>>

\* ... and applies the rest, or fails because another process just has.
Migrate(p) ==
    /\ At(p, "migrating")
    /\ "postgres" \in up
    /\ IF process[p].behind /\ migrated
         THEN process' = [process EXCEPT ![p] = Stopped]
         ELSE GoTo(p, "migrated")
    /\ migrated' = TRUE
    /\ UNCHANGED <<env, row, up, outages, boots>>

\* getBetterAuthSecret with BETTER_AUTH_SECRET set.
UseEnvSecret(p) ==
    /\ At(p, "migrated")
    /\ p \in env
    /\ process' = [process EXCEPT ![p].pc = "probing", ![p].attempts = 0, ![p].secret = EnvSecret]
    /\ UNCHANGED <<env, migrated, row, up, outages, boots>>

\* Mutation: an upsert.
KeepsRowOverwrites == FALSE

\* onConflictDoNothing.
KeepsRow == row.key

\* The INSERT: it returns the row it made, or no row.
InsertSecret(p) ==
    /\ At(p, "migrated")
    /\ p \notin env
    /\ "postgres" \in up
    /\ IF KeepsRow
         THEN GoTo(p, "reading") /\ UNCHANGED row
         ELSE /\ row' = [key |-> TRUE, value |-> <<p, boots[p]>>]
              /\ process' = [process EXCEPT ![p].pc = "probing", ![p].secret = <<p, boots[p]>>]
    /\ UNCHANGED <<env, migrated, up, outages, boots>>

\* What the SELECT after a conflict finds.
StoredSecret(p) == row.value

ReadSecret(p) ==
    /\ At(p, "reading")
    /\ "postgres" \in up
    /\ process' = [process EXCEPT ![p].pc = "probing", ![p].secret = StoredSecret(p)]
    /\ UNCHANGED <<env, migrated, row, up, outages, boots>>

\* probeQuickwit, and initAuth after it.
Probe(p) ==
    /\ At(p, "probing")
    /\ IF "quickwit" \in up THEN GoTo(p, "initializing") ELSE Retry(p, PROBE_RETRY)
    /\ UNCHANGED <<env, migrated, row, up, outages, boots>>

InitAuth(p) ==
    /\ At(p, "initializing")
    /\ "postgres" \in up
    /\ GoTo(p, "listening")
    /\ UNCHANGED <<env, migrated, row, up, outages, boots>>

\* A service goes down, or comes back.
Outage(s) ==
    /\ s \in up
    /\ outages < MaxOutages
    /\ up' = up \ {s}
    /\ outages' = outages + 1
    /\ UNCHANGED <<env, migrated, row, boots, process>>

Recovery(s) ==
    /\ s \notin up
    /\ up' = up \cup {s}
    /\ UNCHANGED <<env, migrated, row, outages, boots, process>>

BootNext ==
    \/ \E p \in Processes :
          \/ Start(p) \/ Stop(p)
          \/ Connect(p) \/ ReadMigrations(p) \/ Migrate(p)
          \/ UseEnvSecret(p) \/ InsertSecret(p) \/ ReadSecret(p)
          \/ Probe(p) \/ InitAuth(p)
    \/ \E s \in {"postgres", "quickwit"} : Outage(s) \/ Recovery(s)

BootSpec == BootInit /\ [][BootNext]_bootVars

-----------------------------------------------------------------------------
(* Properties *)

BootTypeOK ==
    /\ env \subseteq Processes
    /\ row.key <=> row.value # NoSecret
    /\ row.value \in Generated \cup {NoSecret}
    /\ \A p \in Processes :
          /\ process[p].secret \in Generated \cup {NoSecret, EnvSecret}
          /\ process[p].attempts < IF At(p, "connecting") THEN CONNECT_RETRY_COUNT
                                                          ELSE PROBE_RETRY

\* Every process that listens signs cookies with the same secret, however
\* their boots overlapped and whatever was restarted since: a session made by
\* one of them is good at all others and after the next boot
\* (boot.test.ts: "a generated secret is persisted once and reused").
OneSecret ==
    \A p, q \in Processes :
        At(p, "listening") /\ At(q, "listening") => process[p].secret = process[q].secret

\* The secret of a process that listens is still the stored one, and no boot
\* ever replaces it.
SecretKept ==
    \A p \in Processes \ env : At(p, "listening") => process[p].secret = row.value

\* One secret, for all processes and for good.
OneSecretKept == OneSecret /\ SecretKept

=============================================================================
