------------------------------ MODULE MCMyDev ------------------------------
(* MyDev for TLC: identities of processes and strings are interchangeable. *)
EXTENDS MyDev, TLC

Symmetry == Permutations(Readers) \cup Permutations(Writers) \cup Permutations(Msg)
=============================================================================
