----------------------------- MODULE MCFileSave -----------------------------
(* Instances of FileSave for TLC. *)
EXTENDS FileSave, TLC

CONSTANTS p1, p2, nA, new, blank, c1, c2

\* The file nA exists and new does not.
OneFile == [n \in Names |-> IF n = nA THEN c1 ELSE Missing]

\* Names that differ in more than case.
Distinct == [n \in Names |-> n]
=============================================================================
