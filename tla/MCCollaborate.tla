--------------------------- MODULE MCCollaborate ---------------------------
EXTENDS Collaborate, TLC

\* Collaborators, keys and key names are interchangeable.
Symmetry == Permutations(Users) \cup Permutations(Secrets) \cup Permutations(ValidNames)
=============================================================================
