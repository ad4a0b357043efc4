---------------------------- MODULE MCHeapGuard ----------------------------
(* HeapGuard on the instance of MCTracer; the blocks are interchangeable.  *)
EXTENDS HeapGuard, MCTracer, TLC

BlockSymmetry == Permutations(Blocks)
=============================================================================
