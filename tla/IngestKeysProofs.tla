-------------------------- MODULE IngestKeysProofs --------------------------
(***************************************************************************)
(* Proofs about IngestKeys, for any number of tokens, processes, requests, *)
(* any TTLs and any cache size.                                            *)
(*                                                                         *)
(* The argument: every answer a lookup holds, and every cache entry, was   *)
(* witnessed in the table at some moment no earlier than the instant its   *)
(* request read the clock (Witnessed).  No step of anybody can make a      *)
(* witnessed fact unwitnessed, because a key is granted once and removed   *)
(* once; and an entry expires a TTL after that instant.                    *)
(***************************************************************************)
EXTENDS IngestKeys, TLAPS

USE IngestKeysAssumption

-----------------------------------------------------------------------------
(* Type correctness *)

LEMMA InitTypeOK == Init => TypeOK
  BY DEF Init, TypeOK, EmptyCache, Unissued, Record, Key

LEMMA SetCacheEntryType ==
  ASSUME TypeOK, NEW i \in Instances, NEW t \in Tokens, NEW e \in Entry,
         SetCacheEntry(i, t, e)
  PROVE  /\ cache' \in [Instances -> [Tokens -> Entry \cup {NoEntry}]]
         /\ fifo' \in [Instances -> Seq(Tokens)]
<1> DEFINE full == cache[i][t] = NoEntry /\ Len(fifo[i]) >= MAX_CACHE_ENTRIES
           kept == IF full THEN [cache[i] EXCEPT ![Head(fifo[i])] = NoEntry] ELSE cache[i]
           order == IF full THEN Tail(fifo[i]) ELSE fifo[i]
<1>1. fifo[i] \in Seq(Tokens) /\ cache[i] \in [Tokens -> Entry \cup {NoEntry}]
  BY DEF TypeOK
<1>2. kept \in [Tokens -> Entry \cup {NoEntry}]
  BY <1>1
<1>3. order \in Seq(Tokens)
  BY <1>1
<1>4. [kept EXCEPT ![t] = e] \in [Tokens -> Entry \cup {NoEntry}]
  BY <1>2
<1>5. (IF cache[i][t] = NoEntry THEN Append(order, t) ELSE order) \in Seq(Tokens)
  BY <1>3
<1>6. /\ cache' = [cache EXCEPT ![i] = [kept EXCEPT ![t] = e]]
      /\ fifo' = [fifo EXCEPT ![i] = IF cache[i][t] = NoEntry THEN Append(order, t) ELSE order]
  BY DEF SetCacheEntry
<1> HIDE DEF kept, order, full
<1>7. QED
  BY <1>4, <1>5, <1>6 DEF TypeOK

LEMMA RemoveRowsType ==
  ASSUME TypeOK, NEW gone, NEW i \in Instances \cup {NoInstance}, RemoveRows(gone, i)
  PROVE  apiKey' \in [Tokens -> Row \cup {NoRow}] /\ ledger' \in [Tokens -> Record]
<1>1. apiKey' \in [Tokens -> Row \cup {NoRow}]
  BY DEF TypeOK, RemoveRows
<1>2. ledger' \in [Tokens -> Record]
  BY DEF TypeOK, RemoveRows, Record
<1> QED
  BY <1>1, <1>2

LEMMA NextTypeOK == TypeOK /\ [Next]_vars => TypeOK'
<1> SUFFICES ASSUME TypeOK, [Next]_vars PROVE TypeOK'
  OBVIOUS
<1> USE DEF TypeOK, Silent
<1>1. ASSUME NEW i \in Instances, NEW t \in Tokens, VerifyFromCache(i, t)
      PROVE  TypeOK'
  BY <1>1 DEF VerifyFromCache, Fresh, Verdict, Entry
<1>2. ASSUME NEW r \in Requests, NEW i \in Instances, NEW t \in Tokens, VerifySelect(r, i, t)
      PROVE  TypeOK'
  BY <1>2 DEF VerifySelect, Lookup, Key
<1>3. ASSUME NEW r \in Requests, SelectRow(r)
      PROVE  TypeOK'
  <2>1. req[r] \in Lookup
    BY <1>3 DEF SelectRow, Idle
  <2>2. KeyOf(apiKey[req[r].token]) \in Key
    BY <2>1 DEF KeyOf, Key, Row, Lookup
  <2>3. req' = [req EXCEPT ![r] = [req[r] EXCEPT !.pc = "answer", !.key = KeyOf(apiKey[req[r].token])]]
    BY <1>3 DEF SelectRow
  <2>4. req' \in [Requests -> Lookup \cup {Idle}]
    BY <2>1, <2>2, <2>3 DEF Lookup
  <2>5. QED
    BY <1>3, <2>4 DEF SelectRow
<1>4. ASSUME NEW r \in Requests, SelectFails(r)
      PROVE  TypeOK'
  BY <1>4 DEF SelectFails
<1>5. ASSUME NEW r \in Requests, VerifyFromTable(r)
      PROVE  TypeOK'
  <2>1. req[r] \in Lookup
    BY <1>5 DEF VerifyFromTable, Idle
  <2>2. [key |-> req[r].key, expiresAt |-> Expiry(req[r].start, req[r].key)] \in Entry
    BY <2>1 DEF Entry, Lookup, Expiry
  <2>3. /\ cache' \in [Instances -> [Tokens -> Entry \cup {NoEntry}]]
        /\ fifo' \in [Instances -> Seq(Tokens)]
    BY <1>5, <2>1, <2>2, SetCacheEntryType DEF VerifyFromTable, Lookup
  <2>4. QED
    BY <1>5, <2>1, <2>3 DEF VerifyFromTable, Lookup, Verdict
<1>6. ASSUME NEW i \in Instances, NEW t \in Tokens, NEW idx \in Indexes, NEW u \in Users,
             CreateApiKey(i, t, idx, u)
      PROVE  TypeOK'
  BY <1>6 DEF CreateApiKey, Row, Record, Key, Jobs
<1>7. ASSUME NEW i \in Instances, NEW t \in Tokens, DeleteApiKey(i, t)
      PROVE  TypeOK'
  BY <1>7, RemoveRowsType DEF DeleteApiKey, Jobs
<1>8. ASSUME NEW i \in Instances, NEW idx \in Indexes, DeleteIndex(i, idx)
      PROVE  TypeOK'
  BY <1>8, RemoveRowsType DEF DeleteIndex, Jobs
<1>9. ASSUME NEW i \in Instances, NEW job \in Jobs, InvalidateApiKeyCache(i, job)
      PROVE  TypeOK'
  BY <1>9 DEF InvalidateApiKeyCache, EmptyCache, HeldDead
<1>10. ASSUME NEW i \in Instances, Restart(i)
       PROVE  TypeOK'
  BY <1>10 DEF Restart, EmptyCache
<1>11. ASSUME NEW u \in Users, RemoveUser(u)
       PROVE  TypeOK'
  BY <1>11, RemoveRowsType DEF RemoveUser
<1>12. CASE Tick
  BY <1>12 DEF Tick
<1>13. CASE UNCHANGED vars
  BY <1>13 DEF vars
<1>14. QED
  BY <1>1, <1>2, <1>3, <1>4, <1>5, <1>6, <1>7, <1>8, <1>9, <1>10, <1>11, <1>12, <1>13 DEF Next

\* Every state the service can reach is well typed.
THEOREM TypeCorrect == Spec => []TypeOK
  BY InitTypeOK, NextTypeOK, PTL DEF Spec

-----------------------------------------------------------------------------
(* The staleness bounds *)

\* key was the truth about t at some moment no earlier than start.
Witnessed(t, start, key) ==
    IF key = NoKey
      THEN ledger[t].state = "live" => start <= ledger[t].since
      ELSE /\ ledger[t].state # "unissued"
           /\ key = ledger[t].indexId
           /\ ledger[t].state = "removed" => start <= ledger[t].since

TableOK ==
    \A t \in Tokens :
        /\ ledger[t].since <= now
        /\ IF apiKey[t] = NoRow
             THEN ledger[t].state # "live"
             ELSE ledger[t].state = "live" /\ ledger[t].indexId = apiKey[t].indexId

LookupsOK ==
    \A r \in Requests : req[r].pc # "idle" =>
        /\ req[r].start <= now
        /\ req[r].pc = "answer" => Witnessed(req[r].token, req[r].start, req[r].key)

CachesOK ==
    \A i \in Instances, t \in Tokens : cache[i][t] # NoEntry =>
        \E start \in Nat :
            /\ start <= now
            /\ cache[i][t].expiresAt = Expiry(start, cache[i][t].key)
            /\ Witnessed(t, start, cache[i][t].key)

IInv == TypeOK /\ TableOK /\ LookupsOK /\ CachesOK /\ StaleAcceptBounded /\ StaleRefusalBounded

\* The table and the clock move in four ways: not at all, time passes, a token
\* is granted, some rows are removed.
LEMMA Moves ==
  ASSUME TypeOK, [Next]_vars
  PROVE  \/ UNCHANGED <<now, apiKey, ledger>>
         \/ now' = now + 1 /\ UNCHANGED <<apiKey, ledger>>
         \/ \E i \in Instances, t \in Tokens, idx \in Indexes, u \in Users : CreateApiKey(i, t, idx, u)
         \/ now' = now /\ \E gone \in SUBSET Rows, i \in Instances \cup {NoInstance} :
                               RemoveRows(gone, i)
  BY DEF Next, vars, VerifyFromCache, VerifySelect, SelectRow, SelectFails, VerifyFromTable,
         DeleteApiKey, DeleteIndex, RemoveUser, InvalidateApiKeyCache, Tick, Restart, Rows

LEMMA NextTableOK == IInv /\ [Next]_vars => TableOK'
<1> SUFFICES ASSUME IInv, [Next]_vars PROVE TableOK'
  OBVIOUS
<1> USE DEF IInv, TypeOK, TableOK
<1>1. CASE UNCHANGED <<now, apiKey, ledger>>
  BY <1>1
<1>2. CASE now' = now + 1 /\ UNCHANGED <<apiKey, ledger>>
  BY <1>2 DEF Record
<1>3. ASSUME NEW i \in Instances, NEW t \in Tokens, NEW idx \in Indexes, NEW u \in Users,
             CreateApiKey(i, t, idx, u)
      PROVE  TableOK'
  BY <1>3 DEF CreateApiKey, Row
<1>4. ASSUME now' = now, NEW gone \in SUBSET Rows, NEW i \in Instances \cup {NoInstance},
             RemoveRows(gone, i)
      PROVE  TableOK'
  BY <1>4 DEF RemoveRows, Rows
<1>5. QED
  BY <1>1, <1>2, <1>3, <1>4, Moves

\* No step of anybody turns a witnessed answer into a lie.
LEMMA WitnessedStable ==
  ASSUME IInv, [Next]_vars, NEW t \in Tokens, NEW start \in Nat, NEW key \in Key,
         start <= now, Witnessed(t, start, key)
  PROVE  start <= now' /\ Witnessed(t, start, key)'
<1> USE DEF IInv, TypeOK, TableOK, Witnessed
<1>1. CASE UNCHANGED <<now, apiKey, ledger>>
  BY <1>1
<1>2. CASE now' = now + 1 /\ UNCHANGED <<apiKey, ledger>>
  BY <1>2
<1>3. ASSUME NEW i \in Instances, NEW s \in Tokens, NEW idx \in Indexes, NEW u \in Users,
             CreateApiKey(i, s, idx, u)
      PROVE  start <= now' /\ Witnessed(t, start, key)'
  BY <1>3 DEF CreateApiKey
<1>4. ASSUME now' = now, NEW gone \in SUBSET Rows, NEW i \in Instances \cup {NoInstance},
             RemoveRows(gone, i)
      PROVE  start <= now' /\ Witnessed(t, start, key)'
  BY <1>4 DEF RemoveRows, Rows
<1>5. QED
  BY <1>1, <1>2, <1>3, <1>4, Moves

LEMMA NextLookupsOK == IInv /\ [Next]_vars => LookupsOK'
<1> SUFFICES ASSUME IInv, [Next]_vars, NEW r \in Requests, req'[r].pc # "idle"
             PROVE  /\ req'[r].start <= now'
                    /\ req'[r].pc = "answer" =>
                          Witnessed(req[r].token, req[r].start, req[r].key)'
  BY DEF LookupsOK
<1>1. CASE req'[r] = req[r]
  <2>1. req[r] \in Lookup /\ now \in Nat /\ now' \in Nat
    BY <1>1, NextTypeOK DEF IInv, TypeOK, Idle
  <2>2. now <= now'
    BY <2>1, Moves DEF CreateApiKey, IInv
  <2>3. QED
    BY <1>1, <2>1, <2>2, WitnessedStable DEF IInv, LookupsOK, Lookup
<1>2. ASSUME NEW i \in Instances, NEW t \in Tokens, VerifySelect(r, i, t)
      PROVE  req'[r].start <= now' /\ req'[r].pc = "select"
  BY <1>2 DEF VerifySelect, IInv, TypeOK
<1>3. CASE SelectRow(r)
  <2>1. req[r] \in Lookup /\ now' = now /\ ledger' = ledger /\ apiKey' = apiKey
    BY <1>3 DEF SelectRow, IInv, TypeOK, Idle
  <2>2. /\ req'[r].start = req[r].start /\ req'[r].token = req[r].token
        /\ req'[r].key = KeyOf(apiKey[req[r].token])
    BY <1>3, <2>1 DEF SelectRow, IInv, TypeOK, Lookup
  <2>3. req[r].start <= now
    BY <1>3 DEF SelectRow, IInv, LookupsOK
  <2>4. Witnessed(req[r].token, req[r].start, KeyOf(apiKey[req[r].token]))
    BY <2>1, <2>3 DEF IInv, TableOK, TypeOK, KeyOf, Witnessed, Lookup, Row
  <2>5. QED
    BY <2>1, <2>2, <2>3, <2>4 DEF Witnessed
<1>4. QED
  <2>1. \/ req'[r] = req[r]
        \/ \E i \in Instances, t \in Tokens : VerifySelect(r, i, t)
        \/ SelectRow(r)
        \/ req'[r] = Idle
    BY DEF Next, vars, VerifyFromCache, VerifySelect, SelectRow, SelectFails, VerifyFromTable,
           CreateApiKey, DeleteApiKey, DeleteIndex, RemoveUser, InvalidateApiKeyCache, Tick,
           Restart, IInv, TypeOK
  <2>2. QED
    BY <1>1, <1>2, <1>3, <2>1 DEF Idle

\* A step leaves a cache entry, drops it, or caches what a lookup was told.
LEMMA CacheSteps ==
  ASSUME TypeOK, [Next]_vars, NEW i \in Instances, NEW t \in Tokens
  PROVE  \/ cache'[i][t] \in {cache[i][t], NoEntry}
         \/ \E r \in Requests :
               /\ req[r].pc = "answer" /\ req[r].inst = i /\ req[r].token = t
               /\ cache'[i][t] = [key |-> req[r].key, expiresAt |-> Expiry(req[r].start, req[r].key)]
<1>1. ASSUME NEW r \in Requests, VerifyFromTable(r)
      PROVE  \/ cache'[i][t] \in {cache[i][t], NoEntry}
             \/ /\ req[r].pc = "answer" /\ req[r].inst = i /\ req[r].token = t
                /\ cache'[i][t] = [key |-> req[r].key, expiresAt |-> Expiry(req[r].start, req[r].key)]
  <2>1. req[r] \in Lookup
    BY <1>1 DEF VerifyFromTable, TypeOK, Idle
  <2>2. CASE req[r].inst # i
    BY <1>1, <2>1, <2>2 DEF VerifyFromTable, SetCacheEntry, TypeOK, Lookup
  <2>3. CASE req[r].inst = i /\ req[r].token # t
    BY <1>1, <2>1, <2>3 DEF VerifyFromTable, SetCacheEntry, TypeOK, Lookup
  <2>4. CASE req[r].inst = i /\ req[r].token = t
    BY <1>1, <2>1, <2>4 DEF VerifyFromTable, SetCacheEntry, TypeOK, Lookup
  <2>5. QED
    BY <2>2, <2>3, <2>4
<1>2. \/ cache' = cache
      \/ \E j \in Instances : cache' = [cache EXCEPT ![j] = EmptyCache]
      \/ \E r \in Requests : VerifyFromTable(r)
  BY DEF Next, vars, VerifyFromCache, VerifySelect, SelectRow, SelectFails,
         CreateApiKey, DeleteApiKey, DeleteIndex, RemoveUser, InvalidateApiKeyCache, Tick, Restart
<1>3. CASE cache' = cache
  BY <1>3
<1>4. ASSUME NEW j \in Instances, cache' = [cache EXCEPT ![j] = EmptyCache]
      PROVE  cache'[i][t] \in {cache[i][t], NoEntry}
  BY <1>4 DEF EmptyCache, TypeOK
<1>5. QED
  BY <1>1, <1>2, <1>3, <1>4

LEMMA NextCachesOK == IInv /\ [Next]_vars => CachesOK'
<1> SUFFICES ASSUME IInv, [Next]_vars, NEW i \in Instances, NEW t \in Tokens,
                    cache'[i][t] # NoEntry
             PROVE  \E start \in Nat :
                      /\ start <= now'
                      /\ cache'[i][t].expiresAt = Expiry(start, cache'[i][t].key)
                      /\ Witnessed(t, start, cache[i][t].key)'
  BY DEF CachesOK
<1>1. CASE cache'[i][t] = cache[i][t]
  <2>1. PICK start \in Nat :
          /\ start <= now
          /\ cache[i][t].expiresAt = Expiry(start, cache[i][t].key)
          /\ Witnessed(t, start, cache[i][t].key)
    BY <1>1 DEF IInv, CachesOK
  <2>2. cache[i][t].key \in Key
    BY <1>1 DEF IInv, TypeOK, Entry
  <2>3. start <= now' /\ Witnessed(t, start, cache[i][t].key)'
    <3> DEFINE k == cache[i][t].key
    <3>1. k \in Key /\ Witnessed(t, start, k)
      BY <2>1, <2>2
    <3> HIDE DEF k
    <3>2. start <= now' /\ (k \in Key => IF k = NoKey
            THEN ledger'[t].state = "live" => start <= ledger'[t].since
            ELSE /\ ledger'[t].state # "unissued"
                 /\ k = ledger'[t].indexId
                 /\ ledger'[t].state = "removed" => start <= ledger'[t].since)
      BY <2>1, <3>1, WitnessedStable DEF Witnessed
    <3>3. QED
      BY <1>1, <3>1, <3>2 DEF Witnessed, k
  <2>4. QED
    BY <1>1, <2>1, <2>3
<1>2. ASSUME NEW r \in Requests, req[r].pc = "answer", req[r].inst = i, req[r].token = t,
             cache'[i][t] = [key |-> req[r].key, expiresAt |-> Expiry(req[r].start, req[r].key)]
      PROVE  \E start \in Nat :
                      /\ start <= now'
                      /\ cache'[i][t].expiresAt = Expiry(start, cache'[i][t].key)
                      /\ Witnessed(t, start, cache[i][t].key)'
  <2>1. req[r] \in Lookup
    BY <1>2 DEF IInv, TypeOK, Idle
  <2>2. req[r].start <= now /\ Witnessed(t, req[r].start, req[r].key)
    BY <1>2 DEF IInv, LookupsOK
  <2>3. PICK start \in Nat, key \in Key : start = req[r].start /\ key = req[r].key
    BY <2>1 DEF Lookup
  <2>4. start <= now' /\ (IF key = NoKey
            THEN ledger'[t].state = "live" => start <= ledger'[t].since
            ELSE /\ ledger'[t].state # "unissued"
                 /\ key = ledger'[t].indexId
                 /\ ledger'[t].state = "removed" => start <= ledger'[t].since)
    BY <2>2, <2>3, WitnessedStable DEF Witnessed
  <2>5. QED
    BY <1>2, <2>3, <2>4 DEF Witnessed
<1>3. \/ cache'[i][t] = cache[i][t]
      \/ \E r \in Requests :
            /\ req[r].pc = "answer" /\ req[r].inst = i /\ req[r].token = t
            /\ cache'[i][t] = [key |-> req[r].key, expiresAt |-> Expiry(req[r].start, req[r].key)]
  BY CacheSteps DEF IInv
<1>4. QED
  BY <1>1, <1>2, <1>3

\* A step that answers a client: what the answer rests on.
Answers ==
    /\ verdict' \in Verdict
    /\ UNCHANGED <<now, ledger>>
    /\ verdict'.start <= now
    /\ IF verdict'.key = NoKey
         THEN ledger[verdict'.token].state = "live" =>
                verdict'.start < ledger[verdict'.token].since + NEGATIVE_TTL
         ELSE /\ ledger[verdict'.token].state # "unissued"
              /\ verdict'.key = ledger[verdict'.token].indexId
              /\ ledger[verdict'.token].state = "removed" =>
                   verdict'.start < ledger[verdict'.token].since + POSITIVE_TTL

LEMMA VerdictWitnessed ==
  ASSUME IInv, [Next]_vars, verdict' # NoVerdict, verdict' # verdict
  PROVE  Answers
<1>0. verdict' \in Verdict
  BY NextTypeOK DEF IInv, TypeOK
<1>1. \/ \E i \in Instances, t \in Tokens : VerifyFromCache(i, t)
      \/ \E r \in Requests : VerifyFromTable(r)
  BY DEF Next, vars, VerifySelect, SelectRow, SelectFails, CreateApiKey, DeleteApiKey,
         DeleteIndex, RemoveUser, InvalidateApiKeyCache, Tick, Restart, Silent
<1>2. ASSUME NEW i \in Instances, NEW t \in Tokens, VerifyFromCache(i, t)
      PROVE  Answers
  <2>1. /\ verdict'.token = t /\ verdict'.start = now /\ verdict'.key = cache[i][t].key
        /\ UNCHANGED <<now, ledger>>
        /\ cache[i][t] # NoEntry /\ now < cache[i][t].expiresAt
    BY <1>2 DEF VerifyFromCache, Fresh
  <2>2. PICK start \in Nat :
          /\ start <= now
          /\ cache[i][t].expiresAt = Expiry(start, cache[i][t].key)
          /\ Witnessed(t, start, cache[i][t].key)
    BY <2>1 DEF IInv, CachesOK
  <2>3. now \in Nat /\ ledger[t].since \in Nat
    BY DEF IInv, TypeOK, Record
  <2>4. QED
    BY <1>0, <2>1, <2>2, <2>3 DEF Expiry, Witnessed, Answers
<1>3. ASSUME NEW r \in Requests, VerifyFromTable(r)
      PROVE  Answers
  <2>1. req[r] \in Lookup
    BY <1>3 DEF VerifyFromTable, IInv, TypeOK, Idle
  <2>2. /\ verdict'.token = req[r].token /\ verdict'.start = req[r].start
        /\ verdict'.key = req[r].key
        /\ UNCHANGED <<now, ledger>>
    BY <1>3 DEF VerifyFromTable
  <2>3. req[r].start <= now /\ Witnessed(req[r].token, req[r].start, req[r].key)
    BY <1>3 DEF VerifyFromTable, IInv, LookupsOK
  <2>4. req[r].start \in Nat /\ ledger[req[r].token].since \in Nat
    BY <2>1 DEF IInv, TypeOK, Record, Lookup
  <2>5. QED
    BY <1>0, <2>2, <2>3, <2>4 DEF Witnessed, Answers
<1>4. QED
  BY <1>1, <1>2, <1>3

\* An answer that survives a step: nothing of the table or the clock moved.
LEMMA VerdictKept ==
  ASSUME [Next]_vars, verdict' # NoVerdict
  PROVE  UNCHANGED <<now, ledger>>
  BY DEF Next, vars, VerifyFromCache, VerifySelect, SelectRow, SelectFails, VerifyFromTable,
         CreateApiKey, DeleteApiKey, DeleteIndex, RemoveUser, InvalidateApiKeyCache, Tick,
         Restart, Silent

LEMMA NextVerdictOK ==
  IInv /\ [Next]_vars => StaleAcceptBounded' /\ StaleRefusalBounded'
<1> SUFFICES ASSUME IInv, [Next]_vars PROVE StaleAcceptBounded' /\ StaleRefusalBounded'
  OBVIOUS
<1> USE DEF StaleAcceptBounded, StaleRefusalBounded, Accepted, Refused, Answered
<1>1. CASE verdict' = NoVerdict
  BY <1>1
<1>2. CASE verdict' # NoVerdict /\ verdict' = verdict
  BY <1>2, VerdictKept DEF IInv
<1>3. CASE verdict' # NoVerdict /\ verdict' # verdict
  BY <1>3, VerdictWitnessed DEF Answers
<1>4. QED
  BY <1>1, <1>2, <1>3

LEMMA InitIInv == Init => IInv
<1> SUFFICES ASSUME Init PROVE IInv
  OBVIOUS
<1>1. TypeOK
  BY InitTypeOK
<1>2. TableOK
  BY DEF Init, TableOK, Unissued
<1>3. LookupsOK
  BY DEF Init, LookupsOK, Idle
<1>4. CachesOK
  BY DEF Init, CachesOK, EmptyCache
<1>5. StaleAcceptBounded /\ StaleRefusalBounded
  BY DEF Init, StaleAcceptBounded, StaleRefusalBounded, Accepted, Refused, Answered
<1>6. QED
  BY <1>1, <1>2, <1>3, <1>4, <1>5 DEF IInv

LEMMA NextIInv == IInv /\ [Next]_vars => IInv'
  BY NextTypeOK, NextTableOK, NextLookupsOK, NextCachesOK, NextVerdictOK DEF IInv

THEOREM Invariance == Spec => []IInv
  BY InitIInv, NextIInv, PTL DEF Spec

\* A removed key is accepted only from requests that arrived less than
\* POSITIVE_TTL after its removal, whoever removed it and on whichever process,
\* and always for the index it was created for.
THEOREM StaleAccept == Spec => []StaleAcceptBounded
<1>1. IInv => StaleAcceptBounded
  BY DEF IInv
<1>2. QED
  BY Invariance, <1>1, PTL

\* A live key is refused only to requests that arrived less than NEGATIVE_TTL
\* after its creation.
THEOREM StaleRefusal == Spec => []StaleRefusalBounded
<1>1. IInv => StaleRefusalBounded
  BY DEF IInv
<1>2. QED
  BY Invariance, <1>1, PTL

-----------------------------------------------------------------------------
(* The refinement of KeyRevocation *)

LEMMA InitAuthority == Init => Authority!Init
  BY DEF Init, Authority!Init, Unissued

LEMMA NextAuthority == IInv /\ [Next]_vars => [Authority!Next]_(Authority!vars)
<1> SUFFICES ASSUME IInv, [Next]_vars PROVE [Authority!Next]_(Authority!vars)
  OBVIOUS
<1> USE DEF Authority!vars
<1>1. CASE verdict' # NoVerdict /\ verdict' = verdict
  BY <1>1, VerdictKept
<1>2. CASE verdict' # NoVerdict /\ verdict' # verdict
  <2>1. Answers
    BY <1>2, VerdictWitnessed
  <2>2. /\ verdict'.token \in Tokens /\ verdict'.start \in 0..now
        /\ verdict'.key \in Indexes \cup {NoKey}
    BY <2>1 DEF Answers, Verdict, Key, IInv, TypeOK
  <2>3. Authority!Truthful(verdict'.token, verdict'.start, verdict'.key)
    BY <2>1, <2>2 DEF Answers, Authority!Truthful
  <2>4. Authority!Answer(verdict'.token, verdict'.start, verdict'.key)
    BY <1>2, <2>1, <2>2, <2>3 DEF Answers, Authority!Answer
  <2>5. QED
    BY <2>2, <2>4 DEF Authority!Next
<1>3. CASE verdict' = NoVerdict /\ UNCHANGED <<now, apiKey, ledger>>
  BY <1>3 DEF Authority!Next, Authority!Pass, IInv, TypeOK
<1>4. CASE verdict' = NoVerdict /\ now' = now + 1 /\ UNCHANGED <<apiKey, ledger>>
  BY <1>4 DEF Authority!Next, Authority!Pass
<1>5. ASSUME NEW i \in Instances, NEW t \in Tokens, NEW idx \in Indexes, NEW u \in Users,
             CreateApiKey(i, t, idx, u)
      PROVE  Authority!Next
  <2>1. Authority!Grant(t, idx)
    BY <1>5 DEF CreateApiKey, Silent, Authority!Grant, IInv, TypeOK, Record
  <2>2. QED
    BY <2>1 DEF Authority!Next
<1>6. ASSUME verdict' = NoVerdict, now' = now, NEW gone \in SUBSET Rows,
             NEW i \in Instances \cup {NoInstance}, RemoveRows(gone, i)
      PROVE  Authority!Next
  <2>1. Authority!Revoke(gone)
    BY <1>6 DEF RemoveRows, Rows, Authority!Revoke, IInv, TableOK
  <2>2. gone \in SUBSET Tokens
    BY DEF Rows
  <2>3. QED
    BY <2>1, <2>2 DEF Authority!Next
<1>7. QED
  BY <1>1, <1>2, <1>3, <1>4, <1>5, <1>6, Moves DEF IInv

\* The table, its caches, the flushes and the crashes implement the promise of
\* KeyRevocation: one grant per token, final revocation, answers true within
\* the TTL windows.
THEOREM Implements == Spec => ImplementsRevocation
  BY InitAuthority, NextAuthority, Invariance, PTL DEF Spec, Authority!Spec, ImplementsRevocation

-----------------------------------------------------------------------------
(* Revocation on the process that ran it *)

\* Some request on i read t's row and has yet to cache it.
Held(i, t) ==
    \E r \in Requests :
        req[r].pc = "answer" /\ req[r].inst = i /\ req[r].token = t /\ req[r].key # NoKey

Cached(i, t) == cache[i][t] # NoEntry /\ cache[i][t].key # NoKey

\* The strengthening: what may still be written to the cache counts as well.
RevocationOK ==
    \A i \in Instances, t \in Tokens :
        (Dead(t) /\ ledger[t].flushedBy = i /\ (Cached(i, t) \/ Held(i, t)))
            => FlushDue(i, t) \/ t \in raced[i]

\* Nothing but a removal makes a token dead, and that is for good.
LEMMA RemovedOnce ==
  ASSUME IInv, [Next]_vars, NEW t \in Tokens, Dead(t)
  PROVE  ledger'[t] = ledger[t] /\ apiKey[t] = NoRow
<1>1. apiKey[t] = NoRow
  BY DEF IInv, TableOK, Dead
<1>2. ledger'[t] = ledger[t]
  <2>1. ASSUME NEW gone \in SUBSET Rows, NEW i \in Instances \cup {NoInstance}, RemoveRows(gone, i)
        PROVE  ledger'[t] = ledger[t]
    BY <1>1, <2>1 DEF RemoveRows, Rows
  <2>2. ASSUME NEW i \in Instances, NEW s \in Tokens, NEW idx \in Indexes, NEW u \in Users,
               CreateApiKey(i, s, idx, u)
        PROVE  ledger'[t] = ledger[t]
    BY <2>2 DEF CreateApiKey, Dead, IInv, TypeOK
  <2>3. QED
    BY <2>1, <2>2, Moves DEF IInv
<1>3. QED
  BY <1>1, <1>2

\* A dead row is never read again, so nobody starts to hold it.
LEMMA NotReadAgain ==
  ASSUME IInv, [Next]_vars, NEW i \in Instances, NEW t \in Tokens, Dead(t)
  PROVE  /\ Held(i, t)' => Held(i, t)
         /\ Cached(i, t)' => Cached(i, t) \/ Held(i, t)
<1>1. ASSUME Held(i, t)' PROVE Held(i, t)
  <2>1. PICK r \in Requests :
          req'[r].pc = "answer" /\ req'[r].inst = i /\ req'[r].token = t /\ req'[r].key # NoKey
    BY <1>1 DEF Held
  <2>2. ~SelectRow(r)
    <3>1. SUFFICES ASSUME SelectRow(r) PROVE FALSE
      OBVIOUS
    <3>2. req[r] \in Lookup
      BY <3>1 DEF SelectRow, IInv, TypeOK, Idle
    <3>3. req'[r].key = KeyOf(apiKey[req[r].token]) /\ req'[r].token = req[r].token
      BY <3>1, <3>2 DEF SelectRow, IInv, TypeOK, Lookup
    <3>4. QED
      BY <2>1, <3>3, RemovedOnce DEF KeyOf
  <2>3. ASSUME NEW j \in Instances, NEW s \in Tokens PROVE ~VerifySelect(r, j, s)
    BY <2>1 DEF VerifySelect, IInv, TypeOK
  <2>4. req'[r] = req[r] \/ req'[r] = Idle
    BY <2>2, <2>3 DEF Next, vars, VerifyFromCache, VerifySelect, SelectRow, SelectFails,
         VerifyFromTable, CreateApiKey, DeleteApiKey, DeleteIndex, RemoveUser,
         InvalidateApiKeyCache, Tick, Restart, IInv, TypeOK
  <2>5. QED
    BY <2>1, <2>4 DEF Held, Idle
<1>2. ASSUME Cached(i, t)' PROVE Cached(i, t) \/ Held(i, t)
  <2>1. cache'[i][t] # NoEntry /\ cache'[i][t].key # NoKey
    BY <1>2 DEF Cached
  <2>2. CASE cache'[i][t] \in {cache[i][t], NoEntry}
    BY <2>1, <2>2 DEF Cached
  <2>3. ASSUME NEW r \in Requests, req[r].pc = "answer", req[r].inst = i, req[r].token = t,
               cache'[i][t] = [key |-> req[r].key, expiresAt |-> Expiry(req[r].start, req[r].key)]
        PROVE  Held(i, t)
    BY <2>1, <2>3 DEF Held
  <2>4. \/ cache'[i][t] \in {cache[i][t], NoEntry}
        \/ \E r \in Requests :
              /\ req[r].pc = "answer" /\ req[r].inst = i /\ req[r].token = t
              /\ cache'[i][t] = [key |-> req[r].key, expiresAt |-> Expiry(req[r].start, req[r].key)]
    BY CacheSteps DEF IInv
  <2>5. QED
    BY <2>2, <2>3, <2>4
<1>3. QED
  BY <1>1, <1>2

LEMMA NextRevocationOK == IInv /\ RevocationOK /\ [Next]_vars => RevocationOK'
<1> SUFFICES ASSUME IInv, RevocationOK, [Next]_vars,
                    NEW i \in Instances, NEW t \in Tokens,
                    Dead(t)', ledger'[t].flushedBy = i, Cached(i, t)' \/ Held(i, t)'
             PROVE  FlushDue(i, t)' \/ t \in raced'[i]
  BY DEF RevocationOK
<1>1. CASE ~Dead(t)
  <2>1. ledger'[t] # ledger[t] /\ ledger'[t].state = "removed" /\ ledger[t].state # "removed"
    BY <1>1 DEF Dead
  <2>2. ASSUME NEW j \in Instances, NEW s \in Tokens, DeleteApiKey(j, s)
        PROVE  FlushDue(i, t)'
    <3>1. t = s /\ j = i
      BY <2>1, <2>2 DEF DeleteApiKey, RemoveRows, Rows
    <3>2. QED
      BY <2>2, <3>1 DEF DeleteApiKey, FlushDue, IInv, TypeOK
  <2>3. ASSUME NEW j \in Instances, NEW idx \in Indexes, DeleteIndex(j, idx)
        PROVE  FlushDue(i, t)'
    <3>1. t \in Rows /\ apiKey[t].indexId = idx /\ j = i
      BY <2>1, <2>3 DEF DeleteIndex, RemoveRows
    <3>2. ledger'[t].indexId = idx
      BY <2>3, <3>1 DEF DeleteIndex, RemoveRows, IInv, TableOK, Rows
    <3>3. <<"index", idx>> \in flush'[i]
      BY <2>3, <3>1 DEF DeleteIndex, IInv, TypeOK
    <3>4. QED
      BY <3>2, <3>3 DEF FlushDue
  <2>4. ASSUME NEW u \in Users, RemoveUser(u)
        PROVE  FALSE
    BY <2>1, <2>4 DEF RemoveUser, RemoveRows
  <2>5. ASSUME NEW j \in Instances, NEW s \in Tokens, NEW idx \in Indexes, NEW u \in Users,
               CreateApiKey(j, s, idx, u)
        PROVE  FALSE
    BY <2>1, <2>5 DEF CreateApiKey, IInv, TypeOK
  <2>6. QED
    BY <2>1, <2>2, <2>3, <2>4, <2>5 DEF Next, vars, VerifyFromCache, VerifySelect, SelectRow,
       SelectFails, VerifyFromTable, InvalidateApiKeyCache, Tick, Restart
<1>2. CASE Dead(t)
  <2>1. ledger'[t] = ledger[t] /\ (Cached(i, t) \/ Held(i, t))
    BY <1>2, RemovedOnce, NotReadAgain
  <2>2. FlushDue(i, t) \/ t \in raced[i]
    BY <1>2, <2>1 DEF RevocationOK
  <2>3. CASE flush[i] \subseteq flush'[i] /\ raced[i] \subseteq raced'[i]
    BY <2>1, <2>2, <2>3 DEF FlushDue
  <2>4. ASSUME NEW job \in Jobs, InvalidateApiKeyCache(i, job)
        PROVE  t \in raced'[i]
    <3>1. ~Cached(i, t)'
      BY <2>4 DEF InvalidateApiKeyCache, EmptyCache, Cached, IInv, TypeOK
    <3>2. Held(i, t)
      BY <1>2, <3>1, NotReadAgain
    <3>3. t \in HeldDead(i)
      BY <1>2, <3>2 DEF Held, HeldDead
    <3>4. QED
      BY <2>4, <3>3 DEF InvalidateApiKeyCache, IInv, TypeOK
  <2>5. ASSUME Restart(i)
        PROVE  FALSE
    <3>1. ~Cached(i, t)'
      BY <2>5 DEF Restart, EmptyCache, Cached, IInv, TypeOK
    <3>2. ~Held(i, t)'
      BY <2>5 DEF Restart, Held, Idle, IInv, TypeOK
    <3>3. QED
      BY <3>1, <3>2
  <2>6. QED
    <3>1. \/ flush[i] \subseteq flush'[i] /\ raced[i] \subseteq raced'[i]
          \/ \E job \in Jobs : InvalidateApiKeyCache(i, job)
          \/ Restart(i)
      <4>1. ASSUME NEW j \in Instances \ {i},
                   Restart(j) \/ \E job \in Jobs : InvalidateApiKeyCache(j, job)
            PROVE  flush'[i] = flush[i] /\ raced'[i] = raced[i]
        BY <4>1 DEF Restart, InvalidateApiKeyCache, IInv, TypeOK
      <4>2. ASSUME NEW j \in Instances, NEW job, flush' = [flush EXCEPT ![j] = @ \cup {job}]
            PROVE  flush[i] \subseteq flush'[i]
        BY <4>2 DEF IInv, TypeOK
      <4>3. ASSUME NEW j \in Instances, NEW s \in Tokens,
                   DeleteApiKey(j, s) \/ \E idx \in Indexes, u \in Users : CreateApiKey(j, s, idx, u)
            PROVE  flush[i] \subseteq flush'[i] /\ raced' = raced
        BY <4>2, <4>3 DEF CreateApiKey, DeleteApiKey
      <4>4. ASSUME NEW j \in Instances, NEW idx \in Indexes, DeleteIndex(j, idx)
            PROVE  flush[i] \subseteq flush'[i] /\ raced' = raced
        BY <4>2, <4>4 DEF DeleteIndex
      <4>5. CASE UNCHANGED <<flush, raced>>
        BY <4>5
      <4>6. QED
        BY <4>1, <4>3, <4>4, <4>5 DEF Next, vars, VerifyFromCache, VerifySelect, SelectRow,
           SelectFails, VerifyFromTable, RemoveUser, Tick
    <3>2. QED
      BY <2>3, <2>4, <2>5, <3>1
<1>3. QED
  BY <1>1, <1>2

\* On the process that deleted a key, the cache holds it only until the flush,
\* or because a lookup carried the row across the flush.
THEOREM Revocation == Spec => []RevokedUnlessRaced
<1>1. Init => RevocationOK
  BY DEF Init, RevocationOK, Dead, Unissued
<1>2. RevocationOK => RevokedUnlessRaced
  BY DEF RevocationOK, RevokedUnlessRaced, Cached
<1>3. QED
  BY <1>1, <1>2, NextRevocationOK, Invariance, PTL DEF Spec

-----------------------------------------------------------------------------
(* The cache is bounded and its order is the Map's *)

\* f lists without repetition exactly the tokens c holds.
Lists(f, c) ==
    /\ \A m, n \in 1..Len(f) : f[m] = f[n] => m = n
    /\ \A t \in Tokens : c[t] # NoEntry <=> \E m \in 1..Len(f) : f[m] = t

LEMMA SetCacheEntryBounded ==
  ASSUME TypeOK, CacheBounded, NEW i \in Instances, NEW t \in Tokens, NEW e \in Entry,
         SetCacheEntry(i, t, e)
  PROVE  CacheBounded'
<1> DEFINE f == fifo[i]
           c == cache[i]
           full == c[t] = NoEntry /\ Len(f) >= MAX_CACHE_ENTRIES
           kept == IF full THEN [c EXCEPT ![Head(f)] = NoEntry] ELSE c
           order == IF full THEN Tail(f) ELSE f
           newc == [kept EXCEPT ![t] = e]
           newf == IF c[t] = NoEntry THEN Append(order, t) ELSE order
<1>1. /\ f \in Seq(Tokens) /\ c \in [Tokens -> Entry \cup {NoEntry}]
      /\ Len(f) <= MAX_CACHE_ENTRIES /\ Lists(f, c)
  BY DEF TypeOK, CacheBounded, Lists
<1>2. /\ order \in Seq(Tokens) /\ kept \in [Tokens -> Entry \cup {NoEntry}]
      /\ Lists(order, kept)
      /\ c[t] = NoEntry => Len(order) < MAX_CACHE_ENTRIES /\ kept[t] = NoEntry
      /\ Len(order) <= MAX_CACHE_ENTRIES
      /\ c[t] # NoEntry => order = f /\ kept = c
  <2>1. CASE ~full
    BY <1>1, <2>1
  <2>2. CASE full
    <3>1. /\ order = Tail(f) /\ kept = [c EXCEPT ![Head(f)] = NoEntry]
          /\ f # <<>> /\ Head(f) = f[1] /\ Len(Tail(f)) = Len(f) - 1 /\ f[1] \in Tokens
          /\ \A m \in 1..Len(Tail(f)) : Tail(f)[m] = f[m + 1] /\ m + 1 \in 1..Len(f)
      BY <1>1, <2>2
    <3>2. ASSUME NEW s \in Tokens
          PROVE  kept[s] # NoEntry <=> \E m \in 1..Len(order) : order[m] = s
      <4>1. CASE s = f[1]
        <5>1. kept[s] = NoEntry
          BY <1>1, <3>1, <4>1
        <5>2. 1 \in 1..Len(f) /\ \A m \in 1..Len(order) : m + 1 # 1
          BY <1>1, <3>1
        <5>3. \A m \in 1..Len(order) : order[m] # s
          BY <1>1, <3>1, <4>1, <5>2 DEF Lists
        <5>4. QED
          BY <5>1, <5>3
      <4>2. CASE s # f[1]
        <5>1. kept[s] = c[s]
          BY <1>1, <3>1, <4>2
        <5>2. ASSUME NEW m \in 1..Len(f), f[m] = s
              PROVE  m - 1 \in 1..Len(order) /\ order[m - 1] = s
          <6>1. m # 1 /\ m \in Nat /\ Len(f) \in Nat
            BY <1>1, <4>2, <5>2
          <6>2. m - 1 \in 1..Len(order) /\ (m - 1) + 1 = m
            BY <3>1, <6>1
          <6>3. QED
            BY <3>1, <5>2, <6>2
        <5>3. c[s] # NoEntry <=> \E m \in 1..Len(f) : f[m] = s
          BY <1>1 DEF Lists
        <5>4. QED
          BY <3>1, <5>1, <5>2, <5>3
      <4>3. QED
        BY <4>1, <4>2
    <3>3. \A m, n \in 1..Len(order) : order[m] = order[n] => m = n
      BY <1>1, <3>1 DEF Lists
    <3>4. kept[t] = NoEntry
      BY <1>1, <2>2, <3>1
    <3>5. QED
      BY <1>1, <2>2, <3>1, <3>2, <3>3, <3>4 DEF Lists
  <2>3. QED
    BY <2>1, <2>2
<1> HIDE DEF order, kept
<1>3. Lists(newf, newc) /\ Len(newf) <= MAX_CACHE_ENTRIES
  <2>1. CASE c[t] # NoEntry
    BY <1>1, <1>2, <2>1 DEF Lists
  <2>2. CASE c[t] = NoEntry
    <3>1. /\ newf = Append(order, t) /\ Len(newf) = Len(order) + 1
          /\ newf[Len(order) + 1] = t
          /\ \A m \in 1..Len(order) : newf[m] = order[m]
      BY <1>2, <2>2
    <3>2. \A m \in 1..Len(order) : order[m] # t
      BY <1>2, <2>2 DEF Lists
    <3>3. \A m, n \in 1..Len(newf) : newf[m] = newf[n] => m = n
      BY <1>2, <3>1, <3>2 DEF Lists
    <3>4. ASSUME NEW s \in Tokens
          PROVE  newc[s] # NoEntry <=> \E m \in 1..Len(newf) : newf[m] = s
      <4>1. CASE s = t
        BY <1>2, <3>1, <4>1
      <4>2. CASE s # t
        <5>1. newc[s] = kept[s]
          BY <1>2, <4>2
        <5>2. ASSUME NEW m \in 1..Len(newf), newf[m] = s
              PROVE  m \in 1..Len(order) /\ order[m] = s
          BY <1>2, <3>1, <4>2, <5>2
        <5>3. QED
          BY <1>2, <3>1, <5>1, <5>2 DEF Lists
      <4>3. QED
        BY <4>1, <4>2
    <3>5. QED
      BY <1>2, <2>2, <3>1, <3>3, <3>4 DEF Lists
  <2>3. QED
    BY <2>1, <2>2
<1>4. /\ cache' = [cache EXCEPT ![i] = newc]
      /\ fifo' = [fifo EXCEPT ![i] = newf]
  BY DEF SetCacheEntry, kept, order
<1> HIDE DEF newc, newf
<1>5. QED
  BY <1>3, <1>4 DEF CacheBounded, Lists, TypeOK

LEMMA NextCacheBounded == TypeOK /\ CacheBounded /\ [Next]_vars => CacheBounded'
<1> SUFFICES ASSUME TypeOK, CacheBounded, [Next]_vars PROVE CacheBounded'
  OBVIOUS
<1>1. ASSUME NEW r \in Requests, VerifyFromTable(r)
      PROVE  CacheBounded'
  <2>1. req[r] \in Lookup
    BY <1>1 DEF VerifyFromTable, TypeOK, Idle
  <2>2. [key |-> req[r].key, expiresAt |-> Expiry(req[r].start, req[r].key)] \in Entry
    BY <2>1 DEF Entry, Lookup, Expiry
  <2>3. QED
    BY <1>1, <2>1, <2>2, SetCacheEntryBounded DEF VerifyFromTable, Lookup
<1>2. ASSUME NEW i \in Instances, cache' = [cache EXCEPT ![i] = EmptyCache],
             fifo' = [fifo EXCEPT ![i] = <<>>]
      PROVE  CacheBounded'
  BY <1>2 DEF CacheBounded, EmptyCache, TypeOK
<1>3. CASE UNCHANGED <<cache, fifo>>
  BY <1>3 DEF CacheBounded
<1>4. QED
  BY <1>1, <1>2, <1>3 DEF Next, vars, VerifyFromCache, VerifySelect, SelectRow, SelectFails,
     CreateApiKey, DeleteApiKey, DeleteIndex, RemoveUser, InvalidateApiKeyCache, Tick, Restart

\* A flood of distinct tokens cannot grow the Map past MAX_CACHE_ENTRIES.
THEOREM Bounded == Spec => []CacheBounded
<1>1. Init => CacheBounded
  BY DEF Init, CacheBounded, EmptyCache
<1>2. QED
  BY <1>1, NextCacheBounded, TypeCorrect, PTL DEF Spec

\* The state stays well formed.
THEOREM WellFormedAlways == Spec => []WellFormed
  BY TypeCorrect, Bounded, PTL DEF WellFormed

\* Both kinds of stale answers end with the TTL of their entry.
THEOREM StalenessEnds == Spec => []StalenessBounded
  BY StaleAccept, StaleRefusal, PTL DEF StalenessBounded

=============================================================================
