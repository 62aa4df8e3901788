-------------------------------- MODULE MCHeap --------------------------------
(***************************************************************************)
(* Pages of 128 bytes, at most 4 of them.  After rounding, the requests    *)
(* are of 24, 64 and 96 bytes: the last one fits in a fresh page without   *)
(* room for another header.  With a header of 24 bytes instead of 25 a few *)
(* blocks can already end exactly where the heap ends.                     *)
(***************************************************************************)
EXTENDS Heap

MCSizes == {18, 64, 89}
=============================================================================
