-------------------------- MODULE MCFilterStream --------------------------
EXTENDS FilterStream, TLC

Symmetry == Permutations(Secrets)
=============================================================================
