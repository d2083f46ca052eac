------------------------------- MODULE MCUndo -------------------------------
(* Instances of Undo for TLC. *)
EXTENDS Undo, TLC

CONSTANTS p1, p2, l0, l1, blank, c1, c2, c3

\* Net consolidation leaves these schematics alone ...
KeepNets == [c \in Contents |-> c]
\* ... or joins the nets of c2, which gives c1.
JoinNets == [c \in Contents |-> IF c = c2 THEN c1 ELSE c]
=============================================================================
