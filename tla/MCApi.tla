------------------------------- MODULE MCApi -------------------------------
(***************************************************************************)
(* The parts of the API that share no state here, checked in one run: the  *)
(* part is chosen at the start and only it moves, so that the states of    *)
(* the parts add up and do not multiply.  An invariant of one part is thus *)
(* checked in all of that part's states.                                   *)
(***************************************************************************)
EXTENDS PersonalKeys, Boot, ProviderSessions, IndexRows, IndexConfig, IngestProxy, ServiceHealth,
        TLC

VARIABLE part

apiVars == <<keyVars, bootVars, providerVars, indexRowsVars, configVars, proxyVars,
             healthVars, part>>

-----------------------------------------------------------------------------
(* Instances *)

\* Two clients of one issuer, and another issuer that gives the same subjects
\* to other people.
ApiIdentities == [issuer : {"A", "B"}, client : {"c1", "c2"}] \ {[issuer |-> "B", client |-> "c2"]}
ApiPerson == [i \in ApiIdentities |-> IF i.issuer = "B" THEN "carol"
                                      ELSE IF i.client = "c1" THEN "alice" ELSE "bob"]

PlainConfig == [fields |-> <<"timestamp">>, mode |-> "dynamic", dynamic |-> "default",
                partition |-> Unset, maxPartitions |-> Unset, retention |-> Unset]
PlainBatch == [signal |-> "logs", key |-> "logIndex", type |-> "json", body |-> "records"]

Span(n, svc, entry, error, time, millis, label) ==
    [n |-> n, service |-> svc, entry |-> entry, error |-> error, time |-> time,
     millis |-> millis, label |-> label]

\* Two services; requests of the first by route, by path and by name, more
\* failing paths than CANDIDATES, more names of a route than NAMES, a failure that
\* is no request, requests without a service name, a route or a name, and more
\* services than SERVICE_LIMIT, of which the busiest is not one that fails most.
HealthSpans == {
    Span(1, "a", TRUE, FALSE, 1, 5, <<"r1", "p1", "n1">>),
    Span(2, "a", TRUE, TRUE, 1, 2, <<"r1", "p1", "n2">>),
    Span(3, "a", TRUE, FALSE, 2, 3, <<Absent, "p1", "n1">>),
    Span(4, "a", TRUE, TRUE, 2, 4, <<Absent, "p2", "n2">>),
    Span(5, "a", TRUE, TRUE, 2, 1, <<Absent, Absent, "n1">>),
    Span(6, "a", FALSE, TRUE, 1, 9, <<Absent, Absent, "n1">>),
    Span(7, "b", TRUE, TRUE, 1, 7, <<"r2", Absent, "n2">>),
    Span(8, "a", TRUE, TRUE, 2, 1, <<Absent, "p3", "n2">>),
    Span(9, "a", TRUE, TRUE, 1, 1, <<"r1", "p1", "n1">>),
    Span(10, "a", TRUE, TRUE, 2, 3, <<"r1", "p1", "n3">>),
    Span(11, "b", TRUE, TRUE, 2, 2, <<"r2", Absent, "n1">>),
    Span(12, "", TRUE, TRUE, 1, 1, <<Absent, Absent, "n1">>),
    Span(13, "", TRUE, TRUE, 2, 1, <<Absent, Absent, "n2">>),
    Span(14, "a", TRUE, FALSE, 1, 1, <<Absent, Absent, "">>),
    Span(15, "a", TRUE, TRUE, 2, 1, <<"", Absent, "n1">>)}
SpansNumbered(ns) == {s \in HealthSpans : s.n \in ns}
HealthStores == {SpansNumbered({1, 2, 3, 5, 6}), SpansNumbered({1, 3, 7}),
              SpansNumbered({3, 4, 6, 7, 8}), SpansNumbered({1, 2, 9, 10}),
              SpansNumbered({1, 3, 4, 7, 11, 12, 13}), SpansNumbered({12, 14, 15}),
              SpansNumbered({7, 12, 13, 14})}
HealthLateSpans == SpansNumbered({2, 8})

Interchangeable == Permutations(SettingFields)

-----------------------------------------------------------------------------

Parts == {"keys", "boot", "provider", "rows", "config", "source", "proxy",
          "health"}

\* What a part may start with makes no difference to the others.
ApiInit ==
    /\ part \in Parts
    /\ KeysInit /\ ProviderInit /\ IndexRowsInit
    /\ BootInit /\ (part = "boot" \/ (env = {} /\ migrated /\ up = {}))
    /\ ConfigInit /\ (part = "config" \/ qwConfig = PlainConfig)
    /\ ProxyInit /\ (part = "proxy" \/ batch = PlainBatch)
    /\ HealthInit
    /\ part # "health" => service = AllServices /\ stored = SpansNumbered({1, 3, 7})

ApiNext ==
    /\ UNCHANGED part
    /\ \/ part = "keys" /\ KeysNext
            /\ UNCHANGED <<bootVars, providerVars, indexRowsVars, configVars, proxyVars, healthVars>>
       \/ part = "boot" /\ BootNext
            /\ UNCHANGED <<keyVars, providerVars, indexRowsVars, configVars, proxyVars, healthVars>>
       \/ part = "provider" /\ ProviderNext
            /\ UNCHANGED <<keyVars, bootVars, indexRowsVars, configVars, proxyVars, healthVars>>
       \/ part = "rows" /\ IndexRowsNext
            /\ UNCHANGED <<keyVars, bootVars, providerVars, configVars, proxyVars, healthVars>>
       \/ part = "config" /\ QuickwitConfigNext /\ configActs' <= 2
            /\ UNCHANGED <<keyVars, bootVars, providerVars, indexRowsVars, proxyVars, healthVars>>
       \/ part = "source" /\ SourceNext
            /\ UNCHANGED <<keyVars, bootVars, providerVars, indexRowsVars, proxyVars, healthVars>>
       \/ part = "proxy" /\ ProxyNext
            /\ UNCHANGED <<keyVars, bootVars, providerVars, indexRowsVars, configVars, healthVars>>
       \/ part = "health" /\ HealthNext
            /\ UNCHANGED <<keyVars, bootVars, providerVars, indexRowsVars, configVars, proxyVars>>

ApiSpec == ApiInit /\ [][ApiNext]_apiVars

-----------------------------------------------------------------------------
(* Properties *)

\* Every part is well typed; no boot tries a step more often than its limit, and
\* an index has one row of settings.
ApiTypeOK ==
    /\ KeysTypeOK
    /\ BootTypeOK
    /\ ProviderTypeOK
    /\ IndexRowsTypeOK
    /\ ConfigTypeOK
    /\ ProxyTypeOK
    /\ HealthTypeOK

=============================================================================
