--------------------------- MODULE MCResultsStore ---------------------------
(* Instances of ResultsStore for TLC: two names that make the same directory *)
(* ("edge 1" and "edge_1") and one of its own.                               *)
EXTENDS ResultsStore, TLC

CONSTANTS edgeSpace, edgeUnder, core

SafeName(s) == IF s = edgeSpace THEN edgeUnder ELSE s
SbcNames    == {edgeSpace, edgeUnder, core}

RunSymmetry == Permutations(Runs)
=============================================================================
