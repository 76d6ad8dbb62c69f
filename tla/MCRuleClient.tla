---------------------------- MODULE MCRuleClient ----------------------------
(* Instances of RuleClient for TLC. *)
EXTENDS RuleClient, TLC

ProcSymmetry == Permutations(Procs)
=============================================================================
