------------------------------- MODULE HeapList -------------------------------
(***************************************************************************)
(* The intrusive singly linked list of gc/gc.h, LinkedList<Collectable>,   *)
(* at the level of its pointers, and the two loops that use it:            *)
(* CollectedHeap::allocate, which pushes at the head, and the sweep of     *)
(* CollectedHeap::gc, which walks it with an Iterator and erases.          *)
(* Memory is explicit: `made` holds the objects created and not deleted,   *)
(* and an address can be handed out again after its delete.                *)
(***************************************************************************)
EXTENDS Naturals, FiniteSets

CONSTANTS
  Object,    \* the addresses `new T` hands out
  Null,      \* nullptr
  UINT16_MAX \* the largest value of size_; a small one wraps sooner

ASSUME NullAssumption == Null \notin Object
ASSUME WidthAssumption == UINT16_MAX \in Nat

VARIABLES
  made,       \* the objects created and not yet deleted
  marked_,
  next_,      \* next_[o], meaningful for the objects in made
  head_,
  size_,
  sweeping,   \* gc() is in its sweep loop
  previous_,  \* the two pointers of the loop's Iterator
  current_

list == <<made, next_, head_, size_>>
iterator == <<previous_, current_>>
vars == <<list, marked_, sweeping, iterator>>

Pointer == Object \cup {Null}

TypeOK ==
  /\ made \subseteq Object
  /\ marked_ \in [Object -> BOOLEAN]
  /\ next_ \in [Object -> Pointer]
  /\ head_ \in Pointer
  /\ size_ \in 0..UINT16_MAX
  /\ sweeping \in BOOLEAN
  /\ previous_ \in Pointer
  /\ current_ \in Pointer

Init ==
  /\ made = {}
  /\ marked_ = [o \in Object |-> FALSE]
  /\ next_ = [o \in Object |-> Null]
  /\ head_ = Null
  /\ size_ = 0
  /\ sweeping = FALSE
  /\ previous_ = Null
  /\ current_ = Null

-----------------------------------------------------------------------------
(* Mutant of push_back: the size does not wrap.                            *)
push_backUnbounded(o) ==
  /\ ~sweeping
  /\ o \notin made
  /\ made' = made \cup {o}
  /\ marked_' = [marked_ EXCEPT ![o] = FALSE]
  /\ next_' = [next_ EXCEPT ![o] = head_]
  /\ head_' = o
  /\ size_' = size_ + 1
  /\ UNCHANGED <<sweeping, iterator>>

(* objects_.push_back(new T): the node becomes the head.                   *)
push_back(o) ==
  /\ ~sweeping
  /\ o \notin made
  /\ made' = made \cup {o}
  /\ marked_' = [marked_ EXCEPT ![o] = FALSE]
  /\ next_' = [next_ EXCEPT ![o] = head_]
  /\ head_' = o
  /\ size_' = (size_ + 1) % (UINT16_MAX + 1)
  /\ UNCHANGED <<sweeping, iterator>>

(* The mark phase marked the objects of `live`; it = objects_.begin().     *)
begin(live) ==
  /\ ~sweeping
  /\ marked_' = [o \in Object |-> marked_[o] \/ o \in live]
  /\ sweeping' = TRUE
  /\ previous_' = Null
  /\ current_' = head_
  /\ UNCHANGED list

(* Mutants of erase: the head is not moved; the iterator is handed out     *)
(* with no previous node.                                                  *)
eraseUnlinksNothing ==
  /\ sweeping
  /\ current_ # Null
  /\ ~marked_[current_]
  /\ size_' = (size_ + UINT16_MAX) % (UINT16_MAX + 1)
  /\ current_' = next_[current_]
  /\ made' = made \ {current_}
  /\ UNCHANGED <<marked_, sweeping, next_, head_, previous_>>

eraseForgetsPrevious ==
  /\ sweeping
  /\ current_ # Null
  /\ ~marked_[current_]
  /\ size_' = (size_ + UINT16_MAX) % (UINT16_MAX + 1)
  /\ IF current_ = head_
     THEN /\ head_' = next_[head_]
          /\ current_' = next_[head_]
          /\ UNCHANGED next_
     ELSE /\ next_' = [next_ EXCEPT ![previous_] = next_[current_]]
          /\ current_' = next_[current_]
          /\ UNCHANGED head_
  /\ previous_' = Null
  /\ made' = made \ {current_}
  /\ UNCHANGED <<marked_, sweeping>>

(* it = objects_.erase(it); delete obj. Erasing the head moves the head    *)
(* and starts over from begin(); erasing elsewhere relinks the previous    *)
(* node. Either way the node's successor is next.                          *)
erase ==
  /\ sweeping
  /\ current_ # Null
  /\ ~marked_[current_]
  /\ size_' = (size_ + UINT16_MAX) % (UINT16_MAX + 1)
  /\ IF current_ = head_
     THEN /\ head_' = next_[head_]
          /\ current_' = next_[head_]
          /\ previous_' = Null
          /\ UNCHANGED next_
     ELSE /\ next_' = [next_ EXCEPT ![previous_] = next_[current_]]
          /\ current_' = next_[current_]
          /\ UNCHANGED <<head_, previous_>>
  /\ made' = made \ {current_}
  /\ UNCHANGED <<marked_, sweeping>>

(* Mutants of advance: the iterator does not move; it skips a node.        *)
advanceStays ==
  /\ sweeping
  /\ current_ # Null
  /\ marked_[current_]
  /\ previous_' = current_
  /\ UNCHANGED <<list, marked_, sweeping, current_>>

advanceTwice ==
  /\ sweeping
  /\ current_ # Null
  /\ marked_[current_]
  /\ marked_' = [marked_ EXCEPT ![current_] = FALSE]
  /\ previous_' = current_
  /\ current_' = IF next_[current_] = Null THEN Null ELSE next_[next_[current_]]
  /\ UNCHANGED <<list, sweeping>>

(* marked_ = false; ++it.                                                  *)
advance ==
  /\ sweeping
  /\ current_ # Null
  /\ marked_[current_]
  /\ marked_' = [marked_ EXCEPT ![current_] = FALSE]
  /\ previous_' = current_
  /\ current_' = next_[current_]
  /\ UNCHANGED <<list, sweeping>>

(* it == objects_.end(): compares current_ only.                           *)
end ==
  /\ sweeping
  /\ current_ = Null
  /\ sweeping' = FALSE
  /\ UNCHANGED <<list, marked_, iterator>>

Sweep == erase \/ advance \/ end

Next ==
  \/ \E o \in Object : push_back(o)
  \/ \E live \in SUBSET made : begin(live)
  \/ Sweep

Spec == Init /\ [][Next]_vars
FairSpec == Spec /\ WF_vars(Sweep)

-----------------------------------------------------------------------------
(* Properties.                                                             *)

(* The nodes a walk along next_ from p meets.                              *)
From(p) ==
  LET closed == {S \in SUBSET Pointer :
                   p \in S /\ \A n \in S \ {Null} : next_[n] \in S}
  IN  {o \in Object : \A S \in closed : o \in S}

(* The list holds every object that exists and no deleted one, before,     *)
(* inside and after a sweep: an object off the list would leak for good,   *)
(* a deleted one on it would be swept again (gc.h:119-123, 176-192, 382).  *)
ListHoldsHeap == From(head_) = made

(* While the sweep runs, the iterator stands on an object that exists, and *)
(* previous_ is the live node before it, or null at the head: the node     *)
(* erase() writes through is never one the sweep deleted, although         *)
(* begin(), erase() and ++ each set the pair differently (gc.h:176-192).   *)
IteratorStandsOnList ==
  sweeping =>
    /\ current_ # Null => current_ \in made
    /\ previous_ = Null => current_ = head_
    /\ previous_ # Null => previous_ \in made /\ next_[previous_] = current_

(* What the 16 bits of size_ hold of the number of objects.                *)
SizeModuloWidth == size_ = Cardinality(made) % (UINT16_MAX + 1)

(* size() is what the comment at gc.h:290 calls it, and dump() prints: the *)
(* "Number of objects currently registered in the heap". It is not, once   *)
(* there are more of them than 16 bits count (gc.h:111, 291, 301).         *)
SizeCountsObjects == size_ = Cardinality(made)

(* The list is the registry CollectedHeap is built on: the sweep visits    *)
(* each object registered when it began once, and loses or invents none.   *)
Registry == INSTANCE ObjectRegistry WITH
  registered <- made,
  unvisited <- IF sweeping THEN From(current_) ELSE {}

Registers == Registry!Spec

(* The sweep loop ends although it erases under its own iterator.          *)
SweepEnds == sweeping ~> ~sweeping
=============================================================================
