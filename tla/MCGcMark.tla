------------------------------ MODULE MCGcMark ------------------------------
EXTENDS GcMark, TLC
Sym == Permutations(Fibers)
=============================================================================
