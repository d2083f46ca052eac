-------------------------- MODULE MCSchemeObjects --------------------------
EXTENDS SchemeObjects, TLC

Symmetric == Permutations(Texts) \cup Permutations(Components)
             \cup Permutations(Smobs) \cup Permutations(Pages)
Orderly == ~m.stray
=============================================================================
