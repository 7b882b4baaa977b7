---------------------------- MODULE ObjectRegistry ----------------------------
(***************************************************************************)
(* What CollectedHeap needs of its list of objects: a set to which         *)
(* allocate() adds and which a sweep visits, each object once, in some     *)
(* order, erasing some on the way. HeapList, the linked list of gc/gc.h,   *)
(* implements it; CollectedHeap is built on it.                            *)
(***************************************************************************)
CONSTANT Object

VARIABLES
  registered,   \* the objects in the list
  unvisited     \* the objects the sweeping iterator has not passed

Init ==
  /\ registered = {}
  /\ unvisited = {}

Register(o) ==
  /\ unvisited = {}
  /\ o \notin registered
  /\ registered' = registered \cup {o}
  /\ UNCHANGED unvisited

BeginSweep ==
  /\ unvisited = {}
  /\ unvisited' = registered
  /\ UNCHANGED registered

Erase(o) ==
  /\ o \in unvisited
  /\ unvisited' = unvisited \ {o}
  /\ registered' = registered \ {o}

Advance(o) ==
  /\ o \in unvisited
  /\ unvisited' = unvisited \ {o}
  /\ UNCHANGED registered

Next ==
  \/ BeginSweep
  \/ \E o \in Object : Register(o) \/ Erase(o) \/ Advance(o)

Spec == Init /\ [][Next]_<<registered, unvisited>>
=============================================================================
