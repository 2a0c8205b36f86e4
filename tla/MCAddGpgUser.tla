--------------------------- MODULE MCAddGpgUser ---------------------------
EXTENDS AddGpgUser, TLC

\* Collaborators, and keys, are interchangeable.
Symmetry == Permutations(Users) \cup Permutations(Secrets)
=============================================================================
