----------------------------- MODULE MCArrivals -----------------------------
(* Instances of Arrivals for TLC. *)
EXTENDS Arrivals, TLC
Symmetry == Permutations(Clients)
=============================================================================
