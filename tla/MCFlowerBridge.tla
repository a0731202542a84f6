---------------------------- MODULE MCFlowerBridge -----------------------------
(* Small instances of FlowerBridge for TLC. *)
EXTENDS FlowerBridge
===============================================================================
