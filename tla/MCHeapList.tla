----------------------------- MODULE MCHeapList -----------------------------
(* Small lists for HeapList.                                               *)
EXTENDS HeapListProofs
=============================================================================
