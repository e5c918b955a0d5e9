----------------------------- MODULE MCAccounts -----------------------------
(* Model-checking instances of Accounts. *)
EXTENDS Accounts, FiniteSets, TLC

\* Accounts, tokens and requests are interchangeable.
Interchangeable ==
    Permutations(Users) \cup Permutations(Tokens) \cup Permutations(Calls)
        \cup Permutations(Setups) \cup Permutations(Redeemers)

-----------------------------------------------------------------------------
(* Admins race each other, or a reset races redemptions: the part is chosen *)
(* at the start, and both at once would be too many states.                 *)

VARIABLE part

\* Two setups and two requests of admins, one invite, no reset.
AdminsBounds ==
    /\ Cardinality({t \in Tokens : invite[t].state # "unissued"}) <= 1
    /\ Cardinality({s \in Redeemers : redeem[s] # NoToken}) <= 1
    /\ \A c \in Calls : ~call[c].reset

\* A reset and two redemptions, one request of an admin at a time.
ResetBounds ==
    /\ Cardinality({c \in Calls : call[c].pc # "idle"}) <= 1
    /\ Cardinality({s \in Setups : setup[s] # "idle"}) <= 1

PartBounds == IF part = "admins" THEN AdminsBounds ELSE ResetBounds

PartsInit == Init /\ part \in {"admins", "reset"}
PartsNext == Next /\ UNCHANGED part /\ PartBounds'

PartsSpec == PartsInit /\ [][PartsNext]_<<vars, part>>

=============================================================================
