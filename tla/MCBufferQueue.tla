--------------------------- MODULE MCBufferQueue ---------------------------
(* BufferQueue with the symmetry of slots, buffers and producer threads. *)
EXTENDS BufferQueue, TLC

Symmetry == Permutations(Slots) \cup Permutations(Buffers) \cup Permutations(Producers)
=============================================================================
