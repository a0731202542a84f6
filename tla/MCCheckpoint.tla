------------------------------ MODULE MCCheckpoint -----------------------------
(* A small instance of Checkpoint for TLC: virtual runs of three rounds, and    *)
(* runs of two rounds over Flower's bidi server with one reconnect or restart   *)
(* of each client.                                                              *)
EXTENDS Checkpoint, TLC

MCRounds == TRUE :> 3 @@ FALSE :> 2

Symmetry == Permutations(Clients) \cup Permutations(Boundaries)
===============================================================================
