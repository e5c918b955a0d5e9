---------------------------- MODULE MCAuthReload ----------------------------
(* Model-checking instances of AuthReload. *)
EXTENDS AuthReload, TLC

\* Settings requests and issuers are interchangeable (safety runs only).
Interchangeable == Permutations(Writers) \cup Permutations(Issuers)

=============================================================================
