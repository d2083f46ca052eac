------------------------------ MODULE MCEditor ------------------------------
EXTENDS Editor, TLC

Symmetric == Permutations(Objects) \cup Permutations(Pages)
Tidy == ~w.untidy
=============================================================================
