---------------------------- MODULE IngestProxy ----------------------------
(***************************************************************************)
(* One batch of telemetry on its way from an exporter to Quickwit: the     *)
(* OTLP routes (api/routes/ingest/otlp.ts), the NDJSON route (ndjson.ts),  *)
(* the proxy under both (lib/quickwit/proxy.ts) and the status each way to *)
(* fail is told with (utils/otlp-response.ts, onError of app.ts).          *)
(*                                                                         *)
(* Exporter and Quickwit are external.  An exporter sends a batch again    *)
(* when it hears nothing or a status that says so, and drops it on any     *)
(* other error.  Quickwit stores a batch or refuses it, and what it has    *)
(* stored stays stored when nobody hears the answer.  The body of its      *)
(* answer says how many records it rejected, in a form that                *)
(* readPartialSuccess knows or not.                                        *)
(*                                                                         *)
(* Abstractions.  Batches do not meet, so there is one; a record is        *)
(* neither read nor changed on the way.  The key is a good one (see        *)
(* IngestKeys); only asking for it may fail.                               *)
(***************************************************************************)
EXTENDS Naturals

CONSTANTS
    BatchSize,
    MaxAttempts    \* bound on what the exporter sends, for model checking

ASSUME IngestProxyAssumption == BatchSize \in Nat /\ MaxAttempts \in Nat

\* key: the index of the ingest key.  body: the records; no stream at all; a
\* Content-Length of 0; or nothing in chunks, whose length nobody knows before.
Batch == [signal : {"logs", "traces", "ndjson"}, key : {"logIndex", "traceIndex"},
          type : {"protobuf", "json"}, body : {"records", "none", "zero", "chunked"}]

Attempt == [id : Nat, awaited : BOOLEAN, rejected : 0..BatchSize,
            stage : {"received", "upstream", "abandoned", "stored"}]

Delivery == [attempt : Nat, index : {"logIndex", "traceIndex"}, count : 0..BatchSize]

VARIABLES
    batch,
    exporter,      \* what became of the batch, as the exporter sees it
    reported,      \* the rejected records it was told of
    attempts,
    sent,
    delivered,     \* what Quickwit stored
    \* History, read by the properties only:
    unheard,       \* attempts whose answer did not reach the exporter
    unread,        \* attempts whose rejected records were not found in the answer
    refused        \* Quickwit refused the batch for what it is

proxyVars == <<batch, exporter, reported, attempts, sent, delivered, unheard, unread,
              refused>>

ProxyTypeOK ==
    /\ batch \in Batch
    /\ exporter \in {"sending", "acked", "dropped"}
    /\ reported \in 0..BatchSize
    /\ attempts \subseteq Attempt
    /\ sent \in 0..MaxAttempts
    /\ delivered \subseteq Delivery
    /\ unheard \subseteq 1..sent
    /\ unread \subseteq 1..sent
    /\ refused \in BOOLEAN

ProxyInit ==
    /\ batch \in Batch
    /\ exporter = "sending"
    /\ reported = 0
    /\ attempts = {}
    /\ sent = 0
    /\ delivered = {}
    /\ unheard = {}
    /\ unread = {}
    /\ refused = FALSE

Otlp == batch.signal # "ndjson"

-----------------------------------------------------------------------------
(* The exporter *)

Awaited == \E a \in attempts : a.awaited

Send ==
    /\ exporter = "sending"
    /\ ~Awaited
    /\ sent < MaxAttempts
    /\ sent' = sent + 1
    /\ attempts' = attempts \cup
           {[id |-> sent + 1, awaited |-> TRUE, rejected |-> 0, stage |-> "received"]}
    /\ UNCHANGED <<batch, exporter, reported, delivered, unheard, unread, refused>>

\* The exporter times out; the proxy does not look at its signal.
StopWaiting(a) ==
    /\ a.awaited
    /\ attempts' = (attempts \ {a}) \cup {[a EXCEPT !.awaited = FALSE]}
    /\ unheard' = unheard \cup {a.id}
    /\ UNCHANGED <<batch, exporter, reported, sent, delivered, unread, refused>>

\* What the OTLP specification lets an exporter retry; a shipper of NDJSON
\* retries every server error.
Retryable(status) == status \in {429, 502, 503, 504} \/ (~Otlp /\ status >= 500)

Hears(a, status, rejected) ==
    IF ~a.awaited
      THEN UNCHANGED <<exporter, reported>>
      ELSE /\ exporter' = IF status = 200 THEN "acked"
                          ELSE IF Retryable(status) THEN "sending" ELSE "dropped"
           /\ reported' = rejected

-----------------------------------------------------------------------------
(* The routes *)

WrongStore == batch.signal # "traces" /\ batch.key = "traceIndex"

EmptyBody == batch.body \in {"none", "zero"}

\* The checks before anything is sent on: the status, or 0.
Refusal ==
    IF Otlp /\ batch.type # "protobuf" THEN 415
    ELSE IF WrongStore \/ EmptyBody THEN 400
    ELSE 0

Refuse(a) ==
    /\ a.stage = "received"
    /\ Refusal # 0
    /\ Hears(a, Refusal, 0)
    /\ attempts' = attempts \ {a}
    /\ UNCHANGED <<batch, sent, delivered, unheard, unread, refused>>

\* Mutation: an unexpected error is a 500 everywhere.
PlainInternal == 500

\* onError clamps a server error under /v1/ to the one OTLP exporters retry.
InternalStatus == IF Otlp THEN 503 ELSE 500

\* requireIngestKey cannot ask the database.
KeyLookupFails(a) ==
    /\ a.stage = "received"
    /\ Hears(a, InternalStatus, 0)
    /\ attempts' = attempts \ {a}
    /\ UNCHANGED <<batch, sent, delivered, unheard, unread, refused>>

Forward(a) ==
    /\ a.stage = "received"
    /\ Refusal = 0
    /\ attempts' = (attempts \ {a}) \cup {[a EXCEPT !.stage = "upstream"]}
    /\ UNCHANGED <<batch, exporter, reported, sent, delivered, unheard, unread, refused>>

-----------------------------------------------------------------------------
(* Quickwit and its answers *)

\* otlp.ts sends spans to the span store whatever the key says.
Destination == IF batch.signal = "traces" THEN "traceIndex" ELSE batch.key

\* What an empty body leaves of the batch.
Records == IF batch.body = "records" THEN BatchSize ELSE 0

\* An abandoned request may still be carried out.
QuickwitStores(a, rejected) ==
    /\ a.stage \in {"upstream", "abandoned"}
    /\ rejected <= Records
    /\ batch.body = "chunked" => ~Otlp
    /\ delivered' = delivered \cup
           {[attempt |-> a.id, index |-> Destination, count |-> Records - rejected]}
    /\ attempts' = (attempts \ {a}) \cup
           (IF a.stage = "abandoned" THEN {} ELSE {[a EXCEPT !.stage = "stored", !.rejected = rejected]})
    /\ UNCHANGED <<batch, exporter, reported, sent, unheard, unread, refused>>

\* What the body of Quickwit's 200 says: the count under a key readPartialSuccess
\* knows, or else it is empty, is not JSON, or has no partial_success or no such key.
AnswerBodies == {"count", "unreadable"}

\* readPartialSuccess takes what it cannot read for a full success, and otlpSuccess
\* tells the exporter so; ndjson.ts passes the body on as it is.
Reported(a, body) == IF Otlp /\ body = "unreadable" THEN 0 ELSE a.rejected

SuccessStatus(a) == 200

StoredAnswered(a, body) ==
    /\ a.stage = "stored"
    /\ Hears(a, SuccessStatus(a), Reported(a, body))
    /\ attempts' = attempts \ {a}
    /\ unread' = IF Reported(a, body) = a.rejected THEN unread ELSE unread \cup {a.id}
    /\ UNCHANGED <<batch, sent, delivered, unheard, refused>>

\* Quickwit's own errors become 503; what it says of the batch is passed on.
ProxiedStatus(status) == IF status >= 500 THEN 503 ELSE status

QuickwitRefuses(a, status) ==
    /\ a.stage = "upstream"
    /\ Hears(a, ProxiedStatus(status), 0)
    /\ attempts' = attempts \ {a}
    /\ refused' = (refused \/ status \in {400, 404, 413})
    /\ UNCHANGED <<batch, sent, delivered, unheard, unread>>

\* upstreamUnavailable: Quickwit cannot be reached, or the timeout fires, still armed
\* while the answer is being read.
UpstreamLost(a) ==
    /\ a.stage \in {"upstream", "stored"}
    /\ Hears(a, 503, 0)
    /\ unheard' = unheard \cup {a.id}
    /\ \E next \in {{}, {[a EXCEPT !.stage = "abandoned", !.awaited = FALSE]}} :
         attempts' = (attempts \ {a}) \cup IF a.stage = "upstream" THEN next ELSE {}
    /\ UNCHANGED <<batch, sent, delivered, unread, refused>>

ProxyNext ==
    \/ Send
    \/ \E a \in attempts :
          \/ StopWaiting(a) \/ Refuse(a) \/ KeyLookupFails(a) \/ Forward(a)
          \/ \E rejected \in 0..BatchSize : QuickwitStores(a, rejected)
          \/ \E status \in {400, 404, 413, 429, 500, 502} : QuickwitRefuses(a, status)
          \/ \E body \in AnswerBodies : StoredAnswered(a, body)
          \/ UpstreamLost(a)

ProxySpec == ProxyInit /\ [][ProxyNext]_proxyVars

-----------------------------------------------------------------------------
(* Properties *)

\* A batch is acknowledged only when Quickwit has stored every record but those
\* reported as rejected, and there are two ways around that.  "Quickwit answers 200
\* with num_docs_for_processing: 0 to an empty body, which reads as success"
\* (proxy.ts): an empty body whose length was not announced gets through.  And an
\* answer readPartialSuccess could not read acknowledges the batch without a word of
\* what was rejected; even then Quickwit answered, and the rest of it is stored.
AckedIsStored ==
    exporter = "acked" =>
        \/ \E d \in delivered : d.count + reported = BatchSize
        \/ batch.body = "chunked"
        \/ reported = 0 /\ \E d \in delivered : d.attempt \in unread

\* The exporter gives a batch up only for what the batch is, never for a fault that
\* would pass: a lost connection, a timeout, an overload, a database that is away.
DroppedForCause == exporter = "dropped" => Refusal # 0 \/ refused

\* However requests are aimed, spans and nothing else reach the span store.
SignalsStayApart ==
    \A d \in delivered : d.index = "traceIndex" <=> batch.signal = "traces"

\* A batch is stored twice only if the answer to an attempt that stored it was lost.
StoredTwiceForCause ==
    \A d, e \in delivered : d.attempt < e.attempt => d.attempt \in unheard

\* Of a batch nothing is lost unheard but in an answer that cannot be read, and
\* nothing is stored twice or aside without a cause.
BatchesAccountedFor ==
    /\ AckedIsStored
    /\ DroppedForCause
    /\ SignalsStayApart
    /\ StoredTwiceForCause

=============================================================================
