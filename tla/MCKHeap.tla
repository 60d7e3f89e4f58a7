------------------------------- MODULE MCKHeap -------------------------------
(* A page heap of five two-byte blocks in a 16-value machine word: every     *)
(* size_t is a request size, so the wrap of heap_malloc's sum (size 15) and   *)
(* the size that just does not wrap (14) are both tried.                      *)
EXTENDS KHeap

MCSizes == 0 .. 15
=============================================================================
