---------------------------- MODULE MCRequestGroups ----------------------------
(* Small instances of RequestGroups for TLC. *)
EXTENDS RequestGroups, TLC

Symmetry == Permutations(Clients)
===============================================================================
