--------------------------- MODULE MCCollectedHeap ---------------------------
(* Small heaps for CollectedHeap.                                          *)
EXTENDS HeapAccountProofs, TLC

CONSTANTS o1, o2, o3, program

MCTwo == {o1, o2}
MCThree == {o1, o2, o3}

(* The main Function.                                                      *)
MCOneStatic == {program}
MCOneStaticSucc == program :> {program}

(* -mem so small that the heap is always full, and one that fills after    *)
(* two objects.                                                            *)
MCLimits == {0, 10}
MCAlwaysFull == {0}

MCSymmetry == Permutations(Object)
=============================================================================
