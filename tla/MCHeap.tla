------------------------------- MODULE MCHeap -------------------------------
(* The kernel heap, scaled down for TLC: pages of 16 words.                *)
EXTENDS Heap

\* nothing, one word, two, five, and more than the whole pool has room for
HeapSizes == {3, 8, 17, 400}
=============================================================================
