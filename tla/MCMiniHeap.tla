----------------------------- MODULE MCMiniHeap -----------------------------
(* The allocator on a heap of a few units.                                 *)
EXTENDS MiniHeap

MCRequests == {0, 1, 2, 4, 14}
=============================================================================
