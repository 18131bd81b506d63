--------------------------- MODULE MCRuntimeState ---------------------------
EXTENDS RuntimeState, TLC

Symmetry == Permutations(OpId)
=============================================================================
