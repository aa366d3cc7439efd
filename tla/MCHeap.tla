-------------------------------- MODULE MCHeap --------------------------------
(* Heap for TLC: 240 bytes, and a size_t of ten bits.                          *)
EXTENDS Heap
=============================================================================
