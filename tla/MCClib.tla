------------------------------- MODULE MCClib -------------------------------
EXTENDS Clib, TLC

CONSTANTS s1, s2, a, b

\* A name that both sources hold, and one that only the first holds.
MCInitially == (s1 :> (a :> 1 @@ b :> 1)) @@ (s2 :> (a :> 1 @@ b :> 0))

Memory == Permutations(Symbols)
=============================================================================
