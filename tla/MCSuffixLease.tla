---------------------------- MODULE MCSuffixLease -----------------------------
(* Small instances of SuffixLease for TLC. *)
EXTENDS SuffixLease, TLC

Symmetry == Permutations(Sids)
===============================================================================
