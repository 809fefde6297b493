------------------------- MODULE MCTaskControlPlane -------------------------
(* TaskControlPlane for TLC: the workers are interchangeable. *)
EXTENDS TaskControlPlane, TLC

WorkerSymmetry == Permutations(Workers)
=============================================================================
