----------------------------- MODULE IngestKeys -----------------------------
(***************************************************************************)
(* Ingest keys: the api_key table, the per-process cache in front of it    *)
(* (services/api-key.service.ts) and the requests requireIngestKey lets    *)
(* through (middleware/require-api-key.ts).                                *)
(*                                                                         *)
(* A lookup that misses the cache awaits a SELECT, so other requests,      *)
(* administrators and other processes run between the moment its clock is  *)
(* read, the moment the database answers and the moment the answer is      *)
(* cached.  Deleting a key commits in the database and only then, in a     *)
(* later step, empties the cache of the one process that ran the delete.   *)
(*                                                                         *)
(* Abstractions.  A verified key {id, name, indexId} is its index: id and  *)
(* name never change for a token and are never checked.  lastUsedAt is     *)
(* left out (nothing reads it back).  Calls refused before any state       *)
(* changes (no bearer, a taken name, the trace index) are not steps.       *)
(***************************************************************************)
EXTENDS Naturals, Sequences, FiniteSets

CONSTANTS
    Tokens,           \* token values a client may present
    Indexes,          \* the log indexes a key may be created for
    Users,            \* accounts that may own keys
    Instances,        \* API processes, each with its own apiKeyCache
    Requests,         \* ingest requests being served
    NoRow,            \* "no such row in api_key"
    NoKey,            \* "the row was not found"
    NoEntry,          \* "not in the Map"
    NoVerdict,        \* the last step answered nobody
    NoInstance,       \* rows removed by a cascade: no process flushes
    POSITIVE_TTL, NEGATIVE_TTL,   \* in ticks of the clock
    MAX_CACHE_ENTRIES,
    MaxTime           \* bound on the clock, for model checking

Row == [indexId : Indexes, createdByUserId : Users]
Key == Indexes \cup {NoKey}
Entry == [key : Key, expiresAt : Nat]
Verdict == [inst : Instances, token : Tokens, start : Nat, key : Key]

ASSUME IngestKeysAssumption ==
    /\ POSITIVE_TTL \in Nat \ {0}
    /\ NEGATIVE_TTL \in Nat \ {0}
    /\ MAX_CACHE_ENTRIES \in Nat \ {0}
    /\ MaxTime \in Nat
    /\ NoRow \notin Row
    /\ NoKey \notin Indexes
    /\ NoEntry \notin Entry
    /\ NoVerdict \notin Verdict
    /\ NoInstance \notin Instances

VARIABLES
    now,         \* Date.now()
    users,       \* rows of the user table
    apiKey,      \* the api_key table: token -> Row, or NoRow
    cache,       \* apiKeyCache of each process: token -> Entry, or NoEntry
    fifo,        \* the insertion order of that Map
    flush,       \* calls whose invalidateApiKeyCache is still due
    req,         \* the requests inside verifyApiKey
    verdict,     \* what the last step answered to a request, if it did
    \* History, read by the properties only:
    ledger,      \* what happened to each token, and when
    raced        \* tokens some lookup held, already dead, across a flush

vars == <<now, users, apiKey, cache, fifo, flush, req, verdict, ledger, raced>>

-----------------------------------------------------------------------------
(* Types and initial state *)

\* A call of createApiKey, deleteApiKey or deleteIndex past its database write.
Jobs == ({"create", "delete"} \X Tokens) \cup ({"index"} \X Indexes)

Idle == [pc |-> "idle"]

Lookup ==
    [pc : {"select", "answer"}, inst : Instances,
     token : Tokens, start : Nat, key : Key]

\* since: when the token entered that state.
Record ==
    [state : {"unissued", "live", "removed"}, indexId : Key,
     since : Nat, flushedBy : Instances \cup {NoInstance}]

TypeOK ==
    /\ now \in Nat
    /\ users \in SUBSET Users
    /\ apiKey \in [Tokens -> Row \cup {NoRow}]
    /\ cache \in [Instances -> [Tokens -> Entry \cup {NoEntry}]]
    /\ fifo \in [Instances -> Seq(Tokens)]
    /\ flush \in [Instances -> SUBSET Jobs]
    /\ req \in [Requests -> Lookup \cup {Idle}]
    /\ verdict \in Verdict \cup {NoVerdict}
    /\ ledger \in [Tokens -> Record]
    /\ raced \in [Instances -> SUBSET Tokens]

EmptyCache == [t \in Tokens |-> NoEntry]

Unissued == [state |-> "unissued", indexId |-> NoKey,
             since |-> 0, flushedBy |-> NoInstance]

Init ==
    /\ now = 0
    /\ users = Users
    /\ apiKey = [t \in Tokens |-> NoRow]
    /\ cache = [i \in Instances |-> EmptyCache]
    /\ fifo = [i \in Instances |-> <<>>]
    /\ flush = [i \in Instances |-> {}]
    /\ req = [r \in Requests |-> Idle]
    /\ verdict = NoVerdict
    /\ ledger = [t \in Tokens |-> Unissued]
    /\ raced = [i \in Instances |-> {}]

-----------------------------------------------------------------------------
(* verifyApiKey *)

KeyOf(row) == IF row = NoRow THEN NoKey ELSE row.indexId

\* Mutation: a cached entry is used whatever its age.
FreshForever(i, t) == cache[i][t] # NoEntry

Fresh(i, t) == cache[i][t] # NoEntry /\ now < cache[i][t].expiresAt

Silent == verdict' = NoVerdict

\* Mutation: the guard counts the entries before the insertion wrongly by one.
SetCacheEntryOffByOne(i, t, entry) ==
    LET full == cache[i][t] = NoEntry /\ Len(fifo[i]) > MAX_CACHE_ENTRIES
        kept == IF full THEN [cache[i] EXCEPT ![Head(fifo[i])] = NoEntry] ELSE cache[i]
        order == IF full THEN Tail(fifo[i]) ELSE fifo[i]
    IN  /\ cache' = [cache EXCEPT ![i] = [kept EXCEPT ![t] = entry]]
        /\ fifo' = [fifo EXCEPT ![i] = IF cache[i][t] = NoEntry THEN Append(order, t) ELSE order]

\* setCacheEntry: a token already in the Map keeps its place in the order; a
\* new one pushes out the oldest when the Map is full.
SetCacheEntry(i, t, entry) ==
    LET full == cache[i][t] = NoEntry /\ Len(fifo[i]) >= MAX_CACHE_ENTRIES
        kept == IF full THEN [cache[i] EXCEPT ![Head(fifo[i])] = NoEntry] ELSE cache[i]
        order == IF full THEN Tail(fifo[i]) ELSE fifo[i]
    IN  /\ cache' = [cache EXCEPT ![i] = [kept EXCEPT ![t] = entry]]
        /\ fifo' = [fifo EXCEPT ![i] = IF cache[i][t] = NoEntry THEN Append(order, t) ELSE order]

\* The cache answers: no await, so the clock read and the verdict are one step.
VerifyFromCache(i, t) ==
    /\ Fresh(i, t)
    /\ verdict' = [inst |-> i, token |-> t, start |-> now, key |-> cache[i][t].key]
    /\ UNCHANGED <<now, users, apiKey, cache, fifo, flush, req, ledger, raced>>

\* Nothing cached, or expired: read the clock and send the SELECT.
VerifySelect(r, i, t) ==
    /\ req[r].pc = "idle"
    /\ ~Fresh(i, t)
    /\ req' = [req EXCEPT ![r] = [pc |-> "select", inst |-> i, token |-> t,
                                  start |-> now, key |-> NoKey]]
    /\ Silent
    /\ UNCHANGED <<now, users, apiKey, cache, fifo, flush, ledger, raced>>

\* The database evaluates the SELECT.
SelectRow(r) ==
    /\ req[r].pc = "select"
    /\ req' = [req EXCEPT ![r].pc = "answer", ![r].key = KeyOf(apiKey[req[r].token])]
    /\ Silent
    /\ UNCHANGED <<now, users, apiKey, cache, fifo, flush, ledger, raced>>

\* The SELECT rejects: the request ends in a 500 and nothing is cached.
SelectFails(r) ==
    /\ req[r].pc = "select"
    /\ req' = [req EXCEPT ![r] = Idle]
    /\ Silent
    /\ UNCHANGED <<now, users, apiKey, cache, fifo, flush, ledger, raced>>

\* Mutation: the clock is read when the await resumes.
ExpiryAtResume(start, key) == now + (IF key = NoKey THEN NEGATIVE_TTL ELSE POSITIVE_TTL)

Expiry(start, key) == start + (IF key = NoKey THEN NEGATIVE_TTL ELSE POSITIVE_TTL)

\* The await resumes: cache the answer, hit or miss, and give the verdict.
VerifyFromTable(r) ==
    /\ req[r].pc = "answer"
    /\ SetCacheEntry(req[r].inst, req[r].token,
                     [key |-> req[r].key, expiresAt |-> Expiry(req[r].start, req[r].key)])
    /\ verdict' = [inst |-> req[r].inst, token |-> req[r].token,
                   start |-> req[r].start, key |-> req[r].key]
    /\ req' = [req EXCEPT ![r] = Idle]
    /\ UNCHANGED <<now, users, apiKey, flush, ledger, raced>>

-----------------------------------------------------------------------------
(* Administrators *)

\* createApiKey up to its INSERT; the foreign key needs the creator's row.
CreateApiKey(i, t, idx, u) ==
    /\ ledger[t].state = "unissued"      \* tokens are random: never reissued
    /\ u \in users
    /\ apiKey' = [apiKey EXCEPT ![t] = [indexId |-> idx, createdByUserId |-> u]]
    /\ flush' = [flush EXCEPT ![i] = @ \cup {<<"create", t>>}]
    /\ ledger' = [ledger EXCEPT ![t] = [state |-> "live", indexId |-> idx,
                                        since |-> now, flushedBy |-> NoInstance]]
    /\ Silent
    /\ UNCHANGED <<now, users, cache, fifo, req, raced>>

\* The rows of gone leave the table; process i will flush (NoInstance: nobody).
RemoveRows(gone, i) ==
    /\ apiKey' = [t \in Tokens |-> IF t \in gone THEN NoRow ELSE apiKey[t]]
    /\ ledger' = [t \in Tokens |->
                    IF t \in gone
                      THEN [state |-> "removed", indexId |-> ledger[t].indexId,
                            since |-> now, flushedBy |-> i]
                      ELSE ledger[t]]

Rows == {t \in Tokens : apiKey[t] # NoRow}

\* Mutation: deleteApiKey returns without invalidateApiKeyCache.
DeleteApiKeyUnflushed(i, t) ==
    /\ t \in Rows
    /\ RemoveRows({t}, i)
    /\ Silent
    /\ UNCHANGED <<now, users, cache, fifo, flush, req, raced>>

\* deleteApiKey up to its DELETE ... RETURNING; no row is a 404.
DeleteApiKey(i, t) ==
    /\ t \in Rows
    /\ RemoveRows({t}, i)
    /\ flush' = [flush EXCEPT ![i] = @ \cup {<<"delete", t>>}]
    /\ Silent
    /\ UNCHANGED <<now, users, cache, fifo, req, raced>>

\* The transaction of deleteIndex, as far as it concerns api_key.
DeleteIndex(i, idx) ==
    /\ <<"index", idx>> \notin flush[i]
    /\ RemoveRows({t \in Rows : apiKey[t].indexId = idx}, i)
    /\ flush' = [flush EXCEPT ![i] = @ \cup {<<"index", idx>>}]
    /\ Silent
    /\ UNCHANGED <<now, users, cache, fifo, req, raced>>

\* removeUser / removeServiceAccount: ON DELETE CASCADE takes the account's
\* keys, and no code path touches apiKeyCache.
RemoveUser(u) ==
    /\ u \in users
    /\ users' = users \ {u}
    /\ RemoveRows({t \in Rows : apiKey[t].createdByUserId = u}, NoInstance)
    /\ Silent
    /\ UNCHANGED <<now, cache, fifo, flush, req, raced>>

Dead(t) == ledger[t].state = "removed"

\* Tokens some request on i read while they were live and has yet to cache.
HeldDead(i) ==
    {t \in Tokens : Dead(t) /\ \E r \in Requests :
        req[r].pc = "answer" /\ req[r].inst = i /\ req[r].token = t /\ req[r].key # NoKey}

\* invalidateApiKeyCache, and the call that was waiting to run it returns.
InvalidateApiKeyCache(i, job) ==
    /\ job \in flush[i]
    /\ cache' = [cache EXCEPT ![i] = EmptyCache]
    /\ fifo' = [fifo EXCEPT ![i] = <<>>]
    /\ flush' = [flush EXCEPT ![i] = @ \ {job}]
    /\ raced' = [raced EXCEPT ![i] = @ \cup HeldDead(i)]
    /\ Silent
    /\ UNCHANGED <<now, users, apiKey, req, ledger>>

-----------------------------------------------------------------------------
(* Time and crashes *)

Tick ==
    /\ now < MaxTime
    /\ now' = now + 1
    /\ Silent
    /\ UNCHANGED <<users, apiKey, cache, fifo, flush, req, ledger, raced>>

\* The process dies and comes back: its memory and its requests are gone.
Restart(i) ==
    /\ cache' = [cache EXCEPT ![i] = EmptyCache]
    /\ fifo' = [fifo EXCEPT ![i] = <<>>]
    /\ flush' = [flush EXCEPT ![i] = {}]
    /\ req' = [r \in Requests |->
                 IF req[r].pc # "idle" /\ req[r].inst = i THEN Idle ELSE req[r]]
    /\ raced' = [raced EXCEPT ![i] = {}]
    /\ Silent
    /\ UNCHANGED <<now, users, apiKey, ledger>>

Next ==
    \/ \E i \in Instances, t \in Tokens : VerifyFromCache(i, t)
    \/ \E r \in Requests, i \in Instances, t \in Tokens : VerifySelect(r, i, t)
    \/ \E r \in Requests : SelectRow(r) \/ SelectFails(r) \/ VerifyFromTable(r)
    \/ \E i \in Instances, t \in Tokens, idx \in Indexes, u \in Users :
          CreateApiKey(i, t, idx, u)
    \/ \E i \in Instances :
          \/ \E t \in Tokens : DeleteApiKey(i, t)
          \/ \E idx \in Indexes : DeleteIndex(i, idx)
          \/ \E job \in Jobs : InvalidateApiKeyCache(i, job)
          \/ Restart(i)
    \/ \E u \in Users : RemoveUser(u)
    \/ Tick

Spec == Init /\ [][Next]_vars

-----------------------------------------------------------------------------
(* Safety *)

Answered == verdict # NoVerdict
Accepted == Answered /\ verdict.key # NoKey
Refused == Answered /\ verdict.key = NoKey

\* A key that was removed, however and by whichever process, is accepted only
\* from requests that arrived less than POSITIVE_TTL after its removal, and
\* always for the index it was created for: the bound the comment on
\* apiKeyCache relies on ("entries expire via TTL").
StaleAcceptBounded ==
    Accepted =>
        LET k == ledger[verdict.token]
        IN  /\ k.state # "unissued"
            /\ verdict.key = k.indexId
            /\ k.state = "removed" => verdict.start < k.since + POSITIVE_TTL

\* A live key is refused only to requests that arrived before it was created
\* or less than NEGATIVE_TTL after: a cached miss does not outlive its TTL.
StaleRefusalBounded ==
    Refused =>
        LET k == ledger[verdict.token]
        IN  k.state = "live" => verdict.start < k.since + NEGATIVE_TTL

\* Neither what a cache remembers of a dead key nor what it remembers of a
\* missing one outlives its TTL.
StalenessBounded == StaleAcceptBounded /\ StaleRefusalBounded

\* The Map never holds more than MAX_CACHE_ENTRIES tokens, and its iteration
\* order lists each cached token exactly once, so that "the oldest" evicted by
\* setCacheEntry is a token that is there.
CacheBounded ==
    \A i \in Instances :
        /\ Len(fifo[i]) <= MAX_CACHE_ENTRIES
        /\ \A m, n \in 1..Len(fifo[i]) : fifo[i][m] = fifo[i][n] => m = n
        /\ \A t \in Tokens : cache[i][t] # NoEntry <=> \E m \in 1..Len(fifo[i]) : fifo[i][m] = t

\* The state is well formed: typed, and each Map in step with its FIFO order.
WellFormed == TypeOK /\ CacheBounded

\* The table and its cache implement the bounded promise of KeyRevocation.
Authority == INSTANCE KeyRevocation WITH
    NoAnswer <- NoVerdict, PosStale <- POSITIVE_TTL, NegStale <- NEGATIVE_TTL,
    answer <- verdict,
    grants <- [t \in Tokens |-> [state |-> ledger[t].state, indexId |-> ledger[t].indexId,
                                since |-> ledger[t].since]]

\* Every step of the table, the caches and the crashes is a grant, a
\* revocation, a truthful answer or nothing at all to clients.
ImplementsRevocation == Authority!Spec

FlushDue(i, t) == <<"delete", t>> \in flush[i] \/ <<"index", ledger[t].indexId>> \in flush[i]

\* On the process that deleted a key (or its index), the cache holds the dead
\* key only until that call's flush, or when a lookup was holding the row
\* across the flush.  Nothing else keeps a revoked key alive there.
RevokedUnlessRaced ==
    \A i \in Instances, t \in Tokens :
        (Dead(t) /\ ledger[t].flushedBy = i /\ cache[i][t] # NoEntry /\ cache[i][t].key # NoKey)
            => FlushDue(i, t) \/ t \in raced[i]

\* "a deleted ingest key stops working at once, not when its cache entry
\* expires" (apps/api/tests/api-keys.test.ts): once deleteApiKey has returned,
\* no request that arrives at the same process is accepted with that key.
DeletedKeyStopsAtOnce ==
    [][\A i \in Instances, t \in Tokens :
          VerifyFromCache(i, t) /\ Dead(t) /\ ledger[t].flushedBy = i /\ ~FlushDue(i, t)
              => Refused']_vars

=============================================================================
