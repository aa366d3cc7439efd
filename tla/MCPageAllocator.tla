--------------------------- MODULE MCPageAllocator ---------------------------
(* PageAllocator for TLC: four-byte pages, two and a half of them to a         *)
(* "megabyte", so that the ends of the reserved ranges are not all aligned.    *)
EXTENDS PageAllocator
=============================================================================
