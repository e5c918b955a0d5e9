---------------------------- MODULE IndexConfig ----------------------------
(***************************************************************************)
(* The configuration of an index and of one of its sources, which live in  *)
(* Quickwit and are edited by reading all of it, changing a part and       *)
(* writing all of it back (api/services/index.service.ts,                  *)
(* index-source.service.ts, lib/quickwit/index-config.ts).                 *)
(*                                                                         *)
(* Abstractions.  A field mapping is its name.  "lenient" stands for       *)
(* "strict" too: a mode is compared and copied, and asked only whether it  *)
(* is "dynamic".  storeSource, the presence flag and the tags are compared *)
(* and copied like the mode; search and indexing settings like the         *)
(* retention.  A dynamic mapping is one of DynamicMappings; "foreign"      *)
(* differs from the default by a tokenizer the forms do not know.  A       *)
(* source is a Kafka source with one secret among its client parameters.   *)
(***************************************************************************)
EXTENDS Naturals, Sequences, FiniteSets, SequencesExt

CONSTANTS
    NewFields,     \* field names a form may add
    Unset,         \* an absent key, null in the forms
    Mask,          \* what forms show for a secret
    Secrets,
    NoSource,
    NotFetched,    \* a request has not read this yet
    MaxConfigActs  \* bound on requests, for model checking

ASSUME IndexConfigAssumption ==
    /\ Unset \notin Secrets \cup {Mask}
    /\ Mask \notin Secrets
    /\ Unset \notin {"dynamic", "lenient", "default", "foreign", "custom", "", "tenant"}
    /\ Unset \notin {50, 200}
    /\ NoSource \notin [enabled : BOOLEAN, secret : Secrets \cup {Unset, Mask}]
    /\ MaxConfigActs \in Nat

FieldNames == {"timestamp"} \cup NewFields
Modes == {"dynamic", "lenient"}
DynamicMappings == {"default", "foreign", "custom"}
Retentions == {"week"}

\* The part of Quickwit's index config that matters here.
Config == [fields : Seq(FieldNames), mode : Modes \cup {Unset},
           dynamic : DynamicMappings \cup {Unset},
           partition : {Unset, "", "tenant"}, maxPartitions : {Unset, 50, 200},
           retention : Retentions \cup {Unset}]

\* UpdateQuickwitConfigInput.
Form == [newFields : SUBSET NewFields, mode : Modes,
         dynamic : {"default", "custom", Unset},
         partition : {Unset, "tenant"}, maxPartitions : {Unset, 50, 200},
         retention : Retentions \cup {Unset}]

Source == [enabled : BOOLEAN, secret : Secrets \cup {Unset, Mask}]

ConfigUpdate == [form : Form, known : (SUBSET FieldNames) \cup {NotFetched},
                 read : Config \cup {NotFetched}]
SourceUpdate == [id : Nat, secret : Secrets \cup {Unset, Mask},
                 read : Source \cup {NotFetched}]

VARIABLES
    qwConfig,       \* the index config Quickwit has
    updates,        \* PUT quickwit-config requests
    source,
    sourceUpdates,  \* PUT source requests that have read the source
    configActs,
    accepted,       \* history: fields whose update answered 204
    wanted,         \* history: what the requests on the source asked for, one by one
    configRaced,    \* history: a config was written between the read and the write of another
    sourceRaced     \* history: likewise for the source

configVars == <<qwConfig, updates, source, sourceUpdates, configActs, accepted, wanted,
                configRaced, sourceRaced>>

ConfigTypeOK ==
    /\ qwConfig \in Config
    /\ updates \subseteq ConfigUpdate
    /\ source \in Source \cup {NoSource}
    /\ sourceUpdates \subseteq SourceUpdate
    /\ configActs \in Nat
    /\ accepted \subseteq NewFields
    /\ wanted \in Source \cup {NoSource}
    /\ {configRaced, sourceRaced} \subseteq BOOLEAN

\* Quickwit keeps no dynamic mapping for a mode without one, and serializes an
\* unset partition key as '' or leaves it out.
ConfigInit ==
    /\ qwConfig \in {c \in [fields : {<<"timestamp">>}, mode : Modes \cup {Unset},
                            dynamic : DynamicMappings \cup {Unset},
                            partition : {Unset, "", "tenant"}, maxPartitions : {Unset, 50, 200},
                            retention : Retentions \cup {Unset}] :
                        /\ c.mode = "lenient" => c.dynamic = Unset
                        /\ c.partition # "tenant" => c.maxPartitions # 50}
    /\ updates = {} /\ sourceUpdates = {}
    /\ source = NoSource /\ wanted = NoSource
    /\ configActs = 0
    /\ accepted = {}
    /\ configRaced = FALSE /\ sourceRaced = FALSE

ConfigAct == configActs < MaxConfigActs /\ configActs' = configActs + 1

OrElse(x, default) == IF x = Unset THEN default ELSE x

-----------------------------------------------------------------------------
(* The form of the settings page *)

\* Mutation: a mapping is compared as Quickwit stores it.
ComparableVerbatim(dm) == OrElse(dm, "default")

\* A mapping as the forms can show it; without one, the defaults.
Comparable(dm) == IF dm \in {Unset, "foreign"} THEN "default" ELSE dm

ShownPartition(c) == IF c.partition = "" THEN Unset ELSE c.partition

\* EditIndexForm, as it opens and is sent back untouched.
FormOf(c) ==
    LET mode == OrElse(c.mode, "dynamic")
    IN  [newFields |-> {},
         mode |-> mode,
         dynamic |-> IF mode = "dynamic"
                       THEN IF c.dynamic \in {Unset, "foreign"} THEN "default" ELSE c.dynamic
                       ELSE Unset,
         partition |-> ShownPartition(c),
         maxPartitions |-> IF c.partition = "tenant" THEN c.maxPartitions ELSE Unset,
         retention |-> c.retention]

\* A change of one part of the form.
Edited(form) ==
    {[form EXCEPT !.newFields = {f}] : f \in NewFields}
        \cup {[form EXCEPT !.retention = r] : r \in Retentions \cup {Unset}}
        \cup {[form EXCEPT !.mode = "lenient", !.dynamic = Unset],
              [form EXCEPT !.mode = "dynamic", !.dynamic = "custom"],
              [form EXCEPT !.partition = Unset, !.maxPartitions = Unset],
              [form EXCEPT !.partition = "tenant", !.maxPartitions = 50]}

-----------------------------------------------------------------------------
(* Updating the config *)

DynamicChanged(c, form) == Comparable(c.dynamic) # OrElse(form.dynamic, "default")

PartitioningChanged(c, form) ==
    \/ OrElse(c.partition, "") # OrElse(form.partition, "")
    \/ OrElse(c.maxPartitions, 200) # OrElse(form.maxPartitions, 200)

DocChanged(c, form) ==
    \/ form.newFields # {}
    \/ DynamicChanged(c, form)
    \/ PartitioningChanged(c, form)
    \/ OrElse(c.mode, "dynamic") # form.mode

\* toUpdateIndexRequest.
UpdateRequest(c, form) ==
    LET dynamic == IF ~DynamicChanged(c, form) /\ form.mode = "dynamic" THEN c.dynamic
                   ELSE IF form.dynamic \in {Unset, "default"} THEN Unset ELSE form.dynamic
        doc == [c EXCEPT !.fields = @ \o SetToSeq(form.newFields),
                         !.mode = form.mode,
                         !.dynamic = dynamic,
                         !.partition = form.partition,
                         !.maxPartitions = IF form.partition = Unset THEN Unset
                                                                   ELSE form.maxPartitions]
    IN  [(IF DocChanged(c, form) THEN doc ELSE c) EXCEPT !.retention = form.retention]

\* An admin opens the form and changes a part of it.  It may be sent much later;
\* withIndexMeta and updateIndexConfig then each read the index once more.
OpenForm ==
    /\ ConfigAct
    /\ \E form \in Edited(FormOf(qwConfig)) :
         updates' = updates \cup {[form |-> form, known |-> NotFetched, read |-> NotFetched]}
    /\ UNCHANGED <<qwConfig, source, sourceUpdates, accepted, wanted, configRaced, sourceRaced>>

FetchMeta(u) ==
    /\ u.known = NotFetched
    /\ updates' = (updates \ {u}) \cup {[u EXCEPT !.known = ToSet(qwConfig.fields)]}
    /\ UNCHANGED <<qwConfig, source, sourceUpdates, configActs, accepted, wanted,
                   configRaced, sourceRaced>>

\* Mutation: only the fields of the new form are compared with each other.
NoCollisions(u, c) == {}

\* findFieldCollisions, with the config just read.
Collisions(u, c) == u.form.newFields \cap (u.known \cup ToSet(c.fields))

FetchConfig(u) ==
    /\ u.known # NotFetched
    /\ u.read = NotFetched
    /\ updates' = (updates \ {u}) \cup
           (IF Collisions(u, qwConfig) = {} THEN {[u EXCEPT !.read = qwConfig]} ELSE {})
    /\ UNCHANGED <<qwConfig, source, sourceUpdates, configActs, accepted, wanted,
                   configRaced, sourceRaced>>

\* Quickwit stores the whole config.
UpdateIndexConfig(u) ==
    /\ u.read # NotFetched
    /\ qwConfig' = UpdateRequest(u.read, u.form)
    /\ updates' = updates \ {u}
    /\ accepted' = accepted \cup u.form.newFields
    /\ configRaced' = (configRaced \/ u.read # qwConfig)
    /\ UNCHANGED <<source, sourceUpdates, configActs, wanted, sourceRaced>>

UpdateFails(u) ==
    /\ updates' = updates \ {u}
    /\ UNCHANGED <<qwConfig, source, sourceUpdates, configActs, accepted, wanted,
                   configRaced, sourceRaced>>

-----------------------------------------------------------------------------
(* The source *)

\* Mutation: the mask is stored like any value.
RestoreNothing(secret, stored) == secret

\* restoreSecrets: a masked secret is the stored one, or dropped when there is none.
RestoreSecrets(secret, stored) == IF secret = Mask THEN stored ELSE secret

CreateSource ==
    /\ source = NoSource
    /\ ConfigAct
    /\ \E secret \in Secrets \cup {Unset} :
         source' = [enabled |-> TRUE, secret |-> secret]
    /\ wanted' = source'
    /\ sourceRaced' = (sourceUpdates # {})
    /\ UNCHANGED <<qwConfig, updates, sourceUpdates, accepted, configRaced>>

\* A change made while an update stands between its read and its write.
OthersRaced == sourceRaced' = (sourceRaced \/ sourceUpdates # {})

SetSourceEnabled(enabled) ==
    /\ source # NoSource
    /\ ConfigAct
    /\ source' = [source EXCEPT !.enabled = enabled]
    /\ wanted' = [wanted EXCEPT !.enabled = enabled]
    /\ OthersRaced
    /\ UNCHANGED <<qwConfig, updates, sourceUpdates, accepted, configRaced>>

DeleteSource ==
    /\ source # NoSource
    /\ ConfigAct
    /\ source' = NoSource
    /\ wanted' = NoSource
    /\ OthersRaced
    /\ UNCHANGED <<qwConfig, updates, sourceUpdates, accepted, configRaced>>

\* getRawSourceConfig.  The form sends the mask back, a new secret, or no secret.
BeginUpdateSource(secret) ==
    /\ source # NoSource
    /\ ConfigAct
    /\ sourceUpdates' = sourceUpdates \cup
           {[id |-> configActs, secret |-> secret, read |-> source]}
    /\ UNCHANGED <<qwConfig, updates, source, accepted, wanted, configRaced, sourceRaced>>

SourceRequest(u) == [enabled |-> u.read.enabled, secret |-> RestoreSecrets(u.secret, u.read.secret)]

\* Quickwit stores the whole source, or answers 404 when it is gone.
UpdateSource(u) ==
    /\ sourceUpdates' = sourceUpdates \ {u}
    /\ IF source = NoSource
         THEN UNCHANGED <<source, wanted, sourceRaced>>
         ELSE /\ source' = SourceRequest(u)
              /\ wanted' = [wanted EXCEPT !.secret = IF u.secret = Mask THEN @ ELSE u.secret]
              /\ sourceRaced' = (sourceRaced \/ sourceUpdates # {u})
    /\ UNCHANGED <<qwConfig, updates, configActs, accepted, configRaced>>

QuickwitConfigNext ==
    \/ OpenForm
    \/ \E u \in updates :
         FetchMeta(u) \/ FetchConfig(u) \/ UpdateIndexConfig(u) \/ UpdateFails(u)

SourceNext ==
    \/ CreateSource \/ DeleteSource
    \/ \E b \in BOOLEAN : SetSourceEnabled(b)
    \/ \E secret \in Secrets \cup {Unset, Mask} : BeginUpdateSource(secret)
    \/ \E u \in sourceUpdates : UpdateSource(u)

ConfigNext == QuickwitConfigNext \/ SourceNext

ConfigSpec == ConfigInit /\ [][ConfigNext]_configVars

-----------------------------------------------------------------------------
(* Properties *)

\* However updates overlap, no field is ever mapped twice, which Quickwit would
\* refuse for good; and a field whose update answered 204 stays mapped unless
\* another update wrote back what it had read before.
FieldsMappedOnce ==
    /\ Cardinality(ToSet(qwConfig.fields)) = Len(qwConfig.fields)
    /\ ~configRaced => accepted \subseteq ToSet(qwConfig.fields)

\* "So compare against those to avoid rewriting a config that didn't change": the
\* untouched form leaves every config as it is, and adding a field rewrites the
\* partitioning and the dynamic mapping at most to an equal one.
UntouchedFormKeeps ==
    /\ UpdateRequest(qwConfig, FormOf(qwConfig)) = qwConfig
    /\ \A f \in NewFields :
         LET c == UpdateRequest(qwConfig, [FormOf(qwConfig) EXCEPT !.newFields = {f}])
         IN  /\ OrElse(c.dynamic, "default") = OrElse(qwConfig.dynamic, "default")
             /\ OrElse(c.partition, "") = OrElse(qwConfig.partition, "")
             /\ OrElse(c.maxPartitions, 200) = OrElse(qwConfig.maxPartitions, 200)

\* Editing a source never stores the mask as its secret; and unless requests
\* overlapped, an edit changes neither the enabled flag nor a secret it shows masked.
SourceAsAsked ==
    /\ source # NoSource => source.secret # Mask
    /\ ~sourceRaced => source = wanted

=============================================================================
