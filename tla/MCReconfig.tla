----------------------------- MODULE MCReconfig -----------------------------
EXTENDS Reconfig, TLC

\* Storage nodes, chunks, readers and drivers are interchangeable.
RSym == Permutations(Storage) \union Permutations(Chunks) \union Permutations(Readers)
          \union Permutations(Drivers)
=============================================================================
