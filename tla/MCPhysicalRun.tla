---------------------------- MODULE MCPhysicalRun ----------------------------
(* Instances of PhysicalRun for TLC: workers are interchangeable. *)
EXTENDS PhysicalRun, TLC
Symmetry == Permutations(Workers)
==============================================================================
