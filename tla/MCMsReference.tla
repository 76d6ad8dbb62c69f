---------------------------- MODULE MCMsReference ----------------------------
(* Instances of MsReference for TLC. *)
EXTENDS MsReference, TLC

ThreadSymmetry == Permutations(Threads)
==============================================================================
