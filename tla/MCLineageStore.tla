--------------------------- MODULE MCLineageStore ----------------------------
EXTENDS LineageStore, TLC

Symmetry == Permutations(Threads) \cup Permutations(Contents)
=============================================================================
