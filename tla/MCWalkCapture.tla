---------------------------- MODULE MCWalkCapture ----------------------------
(* Instances of WalkCapture for TLC. *)
EXTENDS WalkCapture
==============================================================================
