------------------------- MODULE MCPinnedMemoryPool -------------------------
\* PinnedMemoryPool for TLC: sets of model values, and what is symmetric.
EXTENDS PinnedMemoryPool, TLC

PoolSymmetry == Permutations(Buffers) \cup Permutations(Names) \cup Permutations(Fds)
=============================================================================
