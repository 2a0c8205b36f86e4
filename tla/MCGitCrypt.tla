---------------------------- MODULE MCGitCrypt ----------------------------
(* GitCrypt on small instances.  Texts and secrets are interchangeable;    *)
(* so are the paths.                                                       *)
EXTENDS GitCrypt, TLC

Symmetry == Permutations(Texts) \cup Permutations(Secrets) \cup Permutations(Files)
=============================================================================
