---------------------------- MODULE MCPlainRound ----------------------------
(* Instances of PlainRound for TLC: connections are interchangeable. *)
EXTENDS PlainRound, TLC
Symmetry == Permutations(Clients)
=============================================================================
