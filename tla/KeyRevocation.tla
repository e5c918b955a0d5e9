---------------------------- MODULE KeyRevocation ----------------------------
(***************************************************************************)
(* What the ingest-key service promises, with no cache, no table and no    *)
(* process in sight: every token is granted at most once and revoked for   *)
(* good, and every answer to a client is the truth about its token at some *)
(* moment of a bounded window.  A revoked key may be accepted for requests *)
(* that arrived before, or less than PosStale after, its revocation; a     *)
(* granted key may be refused for those that arrived before, or less than  *)
(* NegStale after, its grant.                                              *)
(***************************************************************************)
EXTENDS Naturals

CONSTANTS Tokens, Indexes, NoKey, NoAnswer, PosStale, NegStale

VARIABLES
    now,
    grants,     \* token -> [state, indexId, since]
    answer      \* the answer the last step gave, or NoAnswer

vars == <<now, grants, answer>>

Init ==
    /\ now = 0
    /\ grants = [t \in Tokens |-> [state |-> "unissued", indexId |-> NoKey, since |-> 0]]
    /\ answer = NoAnswer

Grant(t, idx) ==
    /\ grants[t].state = "unissued"
    /\ grants' = [grants EXCEPT ![t] = [state |-> "live", indexId |-> idx, since |-> now]]
    /\ answer' = NoAnswer
    /\ now' = now

Revoke(S) ==
    /\ \A t \in S : grants[t].state = "live"
    /\ grants' = [t \in Tokens |->
                    IF t \in S THEN [grants[t] EXCEPT !.state = "removed", !.since = now]
                               ELSE grants[t]]
    /\ answer' = NoAnswer
    /\ now' = now

Truthful(t, arrived, key) ==
    IF key = NoKey
      THEN grants[t].state = "live" => arrived < grants[t].since + NegStale
      ELSE /\ grants[t].state # "unissued"
           /\ key = grants[t].indexId
           /\ grants[t].state = "removed" => arrived < grants[t].since + PosStale

Answer(t, arrived, key) ==
    /\ arrived <= now
    /\ Truthful(t, arrived, key)
    /\ answer' # NoAnswer
    /\ answer'.token = t /\ answer'.start = arrived /\ answer'.key = key
    /\ UNCHANGED <<now, grants>>

Pass ==
    /\ now' \in {now, now + 1}
    /\ answer' = NoAnswer
    /\ grants' = grants

Next ==
    \/ \E t \in Tokens, idx \in Indexes : Grant(t, idx)
    \/ \E S \in SUBSET Tokens : Revoke(S)
    \/ \E t \in Tokens, arrived \in 0..now, key \in Indexes \cup {NoKey} : Answer(t, arrived, key)
    \/ Pass

Spec == Init /\ [][Next]_vars

=============================================================================
