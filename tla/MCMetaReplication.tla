------------------------- MODULE MCMetaReplication -------------------------
EXTENDS MetaReplication, TLC

\* Followers are interchangeable, and so are the threads of the leader's
\* server that call write().
Sym == Permutations(Followers) \union Permutations(Writers)
=============================================================================
