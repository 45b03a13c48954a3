---------------------------- MODULE MCBufferPool ----------------------------
(* BufferPool with handles that can be permuted. *)
EXTENDS BufferPool, TLC

Symmetry == Permutations(Handle)
=============================================================================
