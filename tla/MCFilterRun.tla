---------------------------- MODULE MCFilterRun ----------------------------
EXTENDS FilterRun

Characters == {"a", Space, Quote, Backslash, "$", Backquote}
MCPaths == {<<"/usr/bin/git-crypt">>} \cup UNION {[1..n -> Characters] : n \in 1..3}

Symmetry == Permutations(Secrets)
=============================================================================
