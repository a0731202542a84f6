--------------------------- MODULE MCSuffixServicer ----------------------------
(* Small instances of SuffixServicer for TLC. *)
EXTENDS SuffixServicer, TLC

Symmetry == Permutations(Sids) \cup Permutations(Requests)
===============================================================================
