----------------------------- MODULE MCHierarchy -----------------------------
(* Instances of Hierarchy for TLC. *)
EXTENDS Hierarchy, TLC

CONSTANTS a1, a2, b1, b2, c1, s1, fA, fB, fC, fS, drawn

\* Page ids of the top schematic fA, of the schematics fB and fC below it and of
\* a symbol fS; a second id serves a second load of the same file.
MCFileOf == (a1 :> fA) @@ (a2 :> fA) @@ (b1 :> fB) @@ (b2 :> fB) @@ (c1 :> fC) @@ (s1 :> fS)
MCLinks  == [page_control : 0 .. MaxControl, up : Pages \cup {NoPage}]
MCNoLink == [page_control |-> 0, up |-> NoPage]
MCConsolidate == [c \in Contents |-> c]

\* A tree: fA contains fB, and fB a component with two schematics fC and fS.
TreeSources == (fA :> {<<fB>>}) @@ (fB :> {<<fC, fS>>}) @@ (fC :> {}) @@ (fS :> {})
\* By mistake fB contains fA, and a schematic fS that is not in the library.
LoopSources == (fA :> {<<fB>>}) @@ (fB :> {<<fA>>, <<fS, fC>>}) @@ (fC :> {}) @@ (fS :> {})

OneSymbol  == [f \in {fA, fB, fC, fS} |-> IF f = fA THEN {fS} ELSE {}]
TwoSymbols == [f \in {fA, fB, fC, fS} |-> IF f = fS THEN {} ELSE {fS}]
=============================================================================
