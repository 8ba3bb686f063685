---------------------------- MODULE MCDataPlane ----------------------------
EXTENDS DataPlane, TLC

\* Storage nodes, chunks and readers are interchangeable.
Sym == Permutations(Storage) \union Permutations(Chunks) \union Permutations(Readers)
=============================================================================
