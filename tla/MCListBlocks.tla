---------------------------- MODULE MCListBlocks ----------------------------
EXTENDS ListBlocks

\* Values and blocks are interchangeable.
Interchange == Permutations(Val) \cup Permutations(Block)
=============================================================================
