---------------------------- MODULE MCAllocator ----------------------------
EXTENDS Allocator, TLC

Symmetry == Permutations(Thread) \cup Permutations(Block)
=============================================================================
