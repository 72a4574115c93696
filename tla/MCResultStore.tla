--------------------------- MODULE MCResultStore ---------------------------
EXTENDS ResultStore, TLC

Symmetry == Permutations(Results)
=============================================================================
