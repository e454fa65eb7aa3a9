--------------------------- MODULE MCBatchGrading ---------------------------
EXTENDS BatchGrading, TLC

Symmetry == Permutations(Tasks) \union Permutations(Essays) \union Permutations(Clients)
=============================================================================
