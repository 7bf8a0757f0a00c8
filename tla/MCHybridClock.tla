---------------------------- MODULE MCHybridClock ----------------------------
(* Small instance of HybridClock. *)
EXTENDS HybridClock, TLC

Symmetry == Permutations(Replica)
=============================================================================
