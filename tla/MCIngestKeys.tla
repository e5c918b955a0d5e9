---------------------------- MODULE MCIngestKeys ----------------------------
(* Model-checking instances of IngestKeys. *)
EXTENDS IngestKeys, TLC, FiniteSets

\* Tokens, indexes, accounts, processes and requests are interchangeable.
Interchangeable ==
    Permutations(Tokens) \cup Permutations(Indexes) \cup Permutations(Users)
        \cup Permutations(Instances) \cup Permutations(Requests)

-----------------------------------------------------------------------------
(* Two tokens meet in one process, or two processes handle one token: the   *)
(* part is chosen at the start, and both at once would be too many states.  *)

VARIABLE part

Works(i) ==
    \/ cache[i] # EmptyCache \/ flush[i] # {} \/ raced[i] # {}
    \/ \E r \in Requests : req[r] # Idle /\ req[r].inst = i
Seen(t) ==
    \/ ledger[t] # Unissued
    \/ \E i \in Instances : cache[i][t] # NoEntry
    \/ \E r \in Requests : req[r] # Idle /\ req[r].token = t

PartBounds ==
    \/ part = "one process" /\ Cardinality({i \in Instances : Works(i)}) <= 1
    \/ part = "one token" /\ Cardinality({t \in Tokens : Seen(t)}) <= 1

PartsInit == Init /\ part \in {"one process", "one token"}
PartsNext == Next /\ UNCHANGED part /\ PartBounds'

PartsSpec == PartsInit /\ [][PartsNext]_<<vars, part>>

=============================================================================
