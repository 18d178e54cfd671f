------------------------------ MODULE MCStyra ------------------------------
EXTENDS StyraInteraction, TLC
CONSTANTS p, q
Interchangeable == Permutations(Procs)
=============================================================================
