---------------------------- MODULE MCSearchStore ----------------------------
(* Model-checking instances of SearchStore. *)
EXTENDS SearchStore, TLC

Interchangeable == Permutations(Indexes)

=============================================================================
