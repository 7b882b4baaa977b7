---------------------------- MODULE HeapListProofs ----------------------------
(***************************************************************************)
(* Theorems about HeapList for every set of addresses, of any size, and    *)
(* every width of size_.                                                   *)
(***************************************************************************)
EXTENDS HeapList, Integers, FiniteSetTheorems, TLAPS

-----------------------------------------------------------------------------
(* The inductive invariant.                                                *)

(* No two nodes have the same successor and none leads to the head. Next   *)
(* to ListHoldsHeap this makes the list a chain without a cycle: the sweep *)
(* can unlink a node by changing one pointer.                              *)
Linear ==
  /\ \A a, b \in made : next_[a] = next_[b] /\ next_[a] # Null => a = b
  /\ \A a \in made : next_[a] # Null => next_[a] # head_

IInv ==
  /\ TypeOK
  /\ IsFiniteSet(made)
  /\ Linear
  /\ ListHoldsHeap
  /\ IteratorStandsOnList
  /\ SizeModuloWidth

-----------------------------------------------------------------------------
(* What a walk along next meets from p, as From says it of next_: the least*)
(* set with p that next does not leave, without Null. The pointers are a   *)
(* parameter, for the walks before and after a step.                       *)

Leaves(next, S) == \E n \in S \ {Null} : next[n] \notin S

Walk(next, p) ==
  {o \in Object : \A S \in SUBSET Pointer : p \in S /\ ~Leaves(next, S) => o \in S}

LEMMA FromIsWalk == ASSUME NEW p PROVE From(p) = Walk(next_, p)
  BY DEF From, Walk, Leaves

LEMMA WalkLeast ==
  ASSUME NEW next, NEW p, NEW S \in SUBSET Pointer, p \in S, ~Leaves(next, S)
  PROVE  Walk(next, p) \subseteq S
  BY DEF Walk

LEMMA WalkStart == ASSUME NEW next, NEW p \in Object PROVE p \in Walk(next, p)
  BY DEF Walk

LEMMA WalkObjects == ASSUME NEW next, NEW p PROVE Walk(next, p) \subseteq Object
  BY DEF Walk

LEMMA WalkNext ==
  ASSUME NEW next, NEW p, NEW n \in Walk(next, p), next[n] \in Object
  PROVE  next[n] \in Walk(next, p)
  BY NullAssumption DEF Walk, Leaves

LEMMA WalkClosed ==
  ASSUME NEW next \in [Object -> Pointer], NEW p
  PROVE  /\ ~Leaves(next, Walk(next, p) \cup {Null})
         /\ Walk(next, p) \cup {Null} \in SUBSET Pointer
<1>1. ASSUME NEW n \in Walk(next, p) PROVE next[n] \in Walk(next, p) \cup {Null}
  BY WalkObjects, WalkNext DEF Pointer
<1> QED
  BY <1>1, WalkObjects DEF Leaves, Pointer

LEMMA WalkNull == ASSUME NEW next PROVE Walk(next, Null) = {}
<1>1. {Null} \in SUBSET Pointer /\ ~Leaves(next, {Null})
  BY DEF Pointer, Leaves
<1>2. Walk(next, Null) \subseteq {Null}
  BY <1>1, WalkLeast
<1> QED
  BY <1>2, WalkObjects, NullAssumption

-----------------------------------------------------------------------------
(* The shape of the list.                                                  *)

(* The heap is closed: a node that exists leads to one that exists.        *)
LEMMA MadeClosed ==
  ASSUME TypeOK, ListHoldsHeap
  PROVE  /\ \A a \in made : next_[a] \in made \cup {Null}
         /\ head_ \in made \cup {Null}
<1>1. \A a \in made : next_[a] \in made \cup {Null}
  BY FromIsWalk, WalkClosed, NullAssumption DEF ListHoldsHeap, Leaves, TypeOK
<1>2. head_ \in made \cup {Null}
  BY FromIsWalk, WalkStart DEF ListHoldsHeap, TypeOK, Pointer
<1> QED
  BY <1>1, <1>2

(* A closed set of pointers with the head and no other pointer than those  *)
(* to existing nodes has every existing node.                              *)
LEMMA HeadReachesAll ==
  ASSUME ListHoldsHeap, NEW S \in SUBSET Pointer, head_ \in S, ~Leaves(next_, S)
  PROVE  made \subseteq S
  BY FromIsWalk, WalkLeast DEF ListHoldsHeap

(* The list has no cycle: the nodes after c do not lead back to it.        *)
LEMMA Acyclic ==
  ASSUME TypeOK, ListHoldsHeap, Linear, NEW c \in made
  PROVE  c \notin Walk(next_, next_[c])
<1> DEFINE F == Walk(next_, next_[c])
<1>1. SUFFICES ASSUME c \in F PROVE FALSE
  OBVIOUS
<1>2. F \subseteq made
  <2>1. next_[c] \in made \cup {Null}
    BY MadeClosed
  <2>2. ~Leaves(next_, made \cup {Null}) /\ made \cup {Null} \in SUBSET Pointer
    BY MadeClosed, NullAssumption DEF Leaves, TypeOK, Pointer
  <2>3. Walk(next_, next_[c]) \subseteq made \cup {Null}
    BY <2>1, <2>2, WalkLeast
  <2> QED
    BY <2>3, WalkObjects, NullAssumption
<1>3. ASSUME NEW x \in F PROVE \E y \in F : next_[y] = x
  <2>1. CASE x = next_[c]
    BY <1>1, <2>1
  <2>2. CASE x # next_[c]
    <3>1. SUFFICES ASSUME \A y \in F : next_[y] # x PROVE FALSE
      OBVIOUS
    <3> DEFINE S == (F \cup {Null}) \ {x}
    <3>2. x # Null /\ x \in Object
      BY WalkObjects, NullAssumption
    <3>3. ~Leaves(next_, F \cup {Null}) /\ F \cup {Null} \in SUBSET Pointer
      BY WalkClosed DEF TypeOK
    <3>4. ~Leaves(next_, S) /\ S \in SUBSET Pointer
      BY <3>1, <3>2, <3>3 DEF Leaves
    <3>5. next_[c] \in S
      <4>1. next_[c] \in F \cup {Null}
        BY <1>1, <3>3, <1>2, NullAssumption DEF Leaves, TypeOK
      <4> QED
        BY <4>1, <2>2
    <3>6. F \subseteq S
      BY <3>4, <3>5, WalkLeast
    <3> QED
      BY <3>6
  <2> QED
    BY <2>1, <2>2
<1> DEFINE R == (made \cup {Null}) \ F
<1>4. R \in SUBSET Pointer
  BY DEF TypeOK, Pointer
<1>5. head_ \in R
  <2>1. head_ \notin F
    <3>1. SUFFICES ASSUME head_ \in F PROVE FALSE
      OBVIOUS
    <3>2. PICK y \in F : next_[y] = head_
      BY <3>1, <1>3
    <3>3. head_ # Null
      BY <3>1, WalkObjects, NullAssumption
    <3> QED
      BY <3>2, <3>3, <1>2 DEF Linear
  <2> QED
    BY <2>1, MadeClosed
<1>6. ~Leaves(next_, R)
  <2>1. SUFFICES ASSUME NEW n \in R \ {Null} PROVE next_[n] \notin F
    BY <2>1, MadeClosed DEF Leaves
  <2>2. SUFFICES ASSUME next_[n] \in F PROVE FALSE
    OBVIOUS
  <2>3. PICK y \in F : next_[y] = next_[n]
    BY <2>2, <1>3
  <2>4. next_[n] # Null
    BY <2>2, WalkObjects, NullAssumption
  <2> QED
    BY <2>3, <2>4, <1>2 DEF Linear
<1>7. made \subseteq R
  BY <1>4, <1>5, <1>6, HeadReachesAll
<1> QED
  BY <1>7, <1>1

(* Past c the walk meets what it meets from c, but for c itself.           *)
LEMMA WalkSuccessor ==
  ASSUME TypeOK, ListHoldsHeap, Linear, NEW c \in made
  PROVE  Walk(next_, next_[c]) = Walk(next_, c) \ {c}
<1> DEFINE before == Walk(next_, c)
           after == Walk(next_, next_[c])
<1> USE DEF TypeOK
<1>1. before \subseteq after \cup {c}
  <2>1. after \cup {Null} \in SUBSET Pointer /\ ~Leaves(next_, after \cup {Null})
    BY WalkClosed
  <2>2. next_[c] \in after \cup {Null}
    BY WalkStart DEF Pointer
  <2>3. ~Leaves(next_, after \cup {Null, c})
    BY <2>1, <2>2 DEF Leaves
  <2>4. after \cup {Null, c} \in SUBSET Pointer
    BY <2>1 DEF Pointer
  <2>5. before \subseteq after \cup {Null, c}
    BY <2>3, <2>4, WalkLeast
  <2> QED
    BY <2>5, WalkObjects, NullAssumption
<1>2. after \subseteq before
  <2>1. before \cup {Null} \in SUBSET Pointer /\ ~Leaves(next_, before \cup {Null})
    BY WalkClosed
  <2>2. c \in before /\ c # Null
    BY WalkStart, NullAssumption
  <2>3. next_[c] \in before \cup {Null}
    BY <2>1, <2>2 DEF Leaves
  <2>4. after \subseteq before \cup {Null}
    BY <2>1, <2>3, WalkLeast
  <2> QED
    BY <2>4, WalkObjects, NullAssumption
<1> QED
  BY <1>1, <1>2, Acyclic

-----------------------------------------------------------------------------
(* The type of every variable.                                             *)

LEMMA WrapType == ASSUME NEW n \in Nat PROVE n % (UINT16_MAX + 1) \in 0..UINT16_MAX
  BY WidthAssumption

LEMMA TypeInit == Init => TypeOK
<1> SUFFICES ASSUME Init PROVE TypeOK
  OBVIOUS
<1>1. size_ \in 0..UINT16_MAX
  BY WidthAssumption DEF Init
<1> QED
  BY <1>1 DEF Init, TypeOK, Pointer

LEMMA TypeStep == TypeOK /\ [Next]_vars => TypeOK'
<1> SUFFICES ASSUME TypeOK, [Next]_vars PROVE TypeOK'
  OBVIOUS
<1> USE DEF TypeOK, Pointer, iterator, list
<1>1. ASSUME NEW o \in Object, push_back(o) PROVE TypeOK'
  <2>1. size_' \in 0..UINT16_MAX
    BY <1>1, WrapType DEF push_back
  <2> QED
    BY <1>1, <2>1 DEF push_back
<1>2. ASSUME NEW live \in SUBSET made, begin(live) PROVE TypeOK'
  BY <1>2 DEF begin
<1>3. CASE erase
  <2>1. size_' \in 0..UINT16_MAX
    BY <1>3, WrapType, WidthAssumption DEF erase
  <2>2. CASE current_ = head_
    BY <1>3, <2>1, <2>2 DEF erase
  <2>3. CASE current_ # head_
    BY <1>3, <2>1, <2>3 DEF erase
  <2> QED
    BY <2>2, <2>3
<1>4. CASE advance
  BY <1>4 DEF advance
<1>5. CASE end
  BY <1>5 DEF end
<1>6. CASE UNCHANGED vars
  BY <1>6 DEF vars
<1> QED
  BY <1>1, <1>2, <1>3, <1>4, <1>5, <1>6 DEF Next, Sweep

(* Every variable keeps its type; size_ never leaves its width.            *)
THEOREM TypeCorrect == Spec => []TypeOK
  BY TypeInit, TypeStep, PTL DEF Spec

-----------------------------------------------------------------------------
(* Each action keeps the inductive invariant.                              *)

LEMMA InvInit == Init => IInv
<1> SUFFICES ASSUME Init PROVE IInv
  OBVIOUS
<1> USE DEF Init
<1>1. IsFiniteSet(made) /\ Cardinality(made) = 0
  BY FS_EmptySet
<1>2. 0 % (UINT16_MAX + 1) = 0
  BY WidthAssumption
<1> QED
  BY TypeInit, FromIsWalk, WalkNull, <1>1, <1>2
  DEF IInv, Linear, ListHoldsHeap, IteratorStandsOnList, SizeModuloWidth

(* The successor of n, modulo a width.                                     *)
LEMMA ModSuccessor ==
  ASSUME NEW m \in Nat \ {0}, NEW n \in Nat
  PROVE  (n + 1) % m = ((n % m) + 1) % m
<1> DEFINE q == n \div m
           r == n % m
<1>1. n = q * m + r /\ q \in Int /\ r \in 0..(m - 1)
  OBVIOUS
<1> HIDE DEF q, r
<1>2. CASE r < m - 1
  <2>1. n + 1 = q * m + (r + 1) /\ r + 1 \in 0..(m - 1)
    BY <1>1, <1>2
  <2>2. (q * m + (r + 1)) % m = r + 1
    BY <2>1, <1>1
  <2>3. (r + 1) % m = r + 1
    BY <2>1
  <2> QED
    BY <2>1, <2>2, <2>3 DEF r
<1>3. CASE r = m - 1
  <2>1. n + 1 = (q + 1) * m + 0
    BY <1>1, <1>3
  <2>2. ((q + 1) * m + 0) % m = 0
    BY <1>1
  <2>3. (r + 1) % m = 0
    BY <1>3
  <2> QED
    BY <2>1, <2>2, <2>3 DEF r
<1> QED
  BY <1>1, <1>2, <1>3

(* The predecessor of n + 1, as erase computes it without a sign.          *)
LEMMA ModPredecessor ==
  ASSUME NEW m \in Nat \ {0}, NEW n \in Nat
  PROVE  (((n + 1) % m) + (m - 1)) % m = n % m
<1> DEFINE q == n \div m
           r == n % m
<1>1. n = q * m + r /\ q \in Int /\ r \in 0..(m - 1)
  OBVIOUS
<1> HIDE DEF q, r
<1>2. CASE r < m - 1
  <2>1. n + 1 = q * m + (r + 1) /\ r + 1 \in 0..(m - 1)
    BY <1>1, <1>2
  <2>2. (n + 1) % m = r + 1
    BY <2>1, <1>1
  <2>3. ((r + 1) + (m - 1)) = 1 * m + r
    BY <1>1
  <2>4. (1 * m + r) % m = r
    BY <1>1
  <2> QED
    BY <2>2, <2>3, <2>4 DEF r
<1>3. CASE r = m - 1
  <2>1. n + 1 = (q + 1) * m + 0
    BY <1>1, <1>3
  <2>2. (n + 1) % m = 0
    BY <2>1, <1>1
  <2>3. (m - 1) % m = m - 1
    OBVIOUS
  <2> QED
    BY <1>3, <2>2, <2>3 DEF r
<1> QED
  BY <1>1, <1>2, <1>3

LEMMA PushStep ==
  ASSUME IInv, NEW o \in Object, push_back(o)
  PROVE  IInv'
<1> USE DEF IInv, push_back
<1>1. TypeOK'
  BY TypeStep DEF Next
<1>2. o \notin made /\ o # Null /\ made' = made \cup {o} /\ head_' = o
  BY NullAssumption
<1>3. next_'[o] = head_ /\ \A a \in made : next_'[a] = next_[a]
  BY DEF TypeOK
<1>4. IsFiniteSet(made') /\ Cardinality(made') = Cardinality(made) + 1
  BY FS_AddElement, <1>2
<1>5. Linear'
  BY <1>2, <1>3, MadeClosed DEF Linear
<1>6. ListHoldsHeap'
  <2> DEFINE walk == Walk(next_', o)
  <2>1. walk \subseteq made'
    <3>1. made' \cup {Null} \in SUBSET Pointer
      BY <1>1 DEF TypeOK, Pointer
    <3>2. ~Leaves(next_', made' \cup {Null})
      BY <1>2, <1>3, MadeClosed DEF Leaves
    <3>3. walk \subseteq made' \cup {Null}
      BY <1>2, <3>1, <3>2, WalkLeast
    <3> QED
      BY <3>3, WalkObjects, NullAssumption
  <2>2. made' \subseteq walk
    <3> DEFINE S == walk \cup {Null}
               T == S \cap (made \cup {Null})
    <3>1. o \in walk
      BY WalkStart
    <3>2. ~Leaves(next_', S)
      BY <1>1, WalkClosed DEF TypeOK
    <3>3. head_ \in T
      BY <1>2, <1>3, <3>1, <3>2, MadeClosed DEF Leaves
    <3>4. ~Leaves(next_, T)
      BY <1>3, <3>2, MadeClosed DEF Leaves
    <3>5. T \in SUBSET Pointer
      BY DEF TypeOK, Pointer
    <3>6. made \subseteq T
      BY <3>3, <3>4, <3>5, HeadReachesAll
    <3> QED
      BY <1>2, <3>1, <3>6, NullAssumption DEF TypeOK
  <2>3. walk = made'
    BY <2>1, <2>2
  <2> QED
    BY <1>2, <2>3 DEF ListHoldsHeap, From, Walk, Leaves
<1>7. IteratorStandsOnList'
  BY DEF IteratorStandsOnList
<1>8. SizeModuloWidth'
  <2>1. Cardinality(made) \in Nat
    BY FS_CardinalityType
  <2>2. UINT16_MAX + 1 \in Nat \ {0}
    BY WidthAssumption
  <2> QED
    BY <1>4, <2>1, <2>2, ModSuccessor DEF SizeModuloWidth
<1> QED
  BY <1>1, <1>4, <1>5, <1>6, <1>7, <1>8

LEMMA BeginStep ==
  ASSUME IInv, NEW live \in SUBSET made, begin(live)
  PROVE  IInv'
<1> USE DEF IInv, begin, list
<1>1. TypeOK'
  BY TypeStep DEF Next
<1>2. Linear'
  BY DEF Linear
<1>3. ListHoldsHeap'
  BY DEF ListHoldsHeap, From
<1>4. IteratorStandsOnList'
  BY MadeClosed DEF IteratorStandsOnList
<1> QED
  BY <1>1, <1>2, <1>3, <1>4 DEF SizeModuloWidth

LEMMA AdvanceStep ==
  ASSUME IInv, advance
  PROVE  IInv'
<1> USE DEF IInv, advance, list
<1>1. TypeOK'
  BY TypeStep DEF Next, Sweep
<1>2. Linear'
  BY DEF Linear
<1>3. ListHoldsHeap'
  BY DEF ListHoldsHeap, From
<1>4. IteratorStandsOnList'
  BY MadeClosed, NullAssumption DEF IteratorStandsOnList, TypeOK
<1> QED
  BY <1>1, <1>2, <1>3, <1>4 DEF SizeModuloWidth

LEMMA EndStep ==
  ASSUME IInv, end
  PROVE  IInv'
<1> USE DEF IInv, end, list, iterator
<1>1. TypeOK'
  BY TypeStep DEF Next, Sweep
<1>2. ListHoldsHeap'
  BY DEF ListHoldsHeap, From
<1> QED
  BY <1>1, <1>2 DEF Linear, IteratorStandsOnList, SizeModuloWidth

(* One object less is counted as one less.                                 *)
LEMMA EraseSize ==
  ASSUME IInv, erase
  PROVE  IsFiniteSet(made') /\ SizeModuloWidth'
<1>1. current_ \in made
  BY DEF erase, IInv, IteratorStandsOnList
<1>2. made' = made \ {current_} /\ size_' = (size_ + UINT16_MAX) % (UINT16_MAX + 1)
  BY DEF erase
<1>3. IsFiniteSet(made') /\ Cardinality(made') = Cardinality(made) - 1
  BY <1>1, <1>2, FS_RemoveElement DEF IInv
<1> DEFINE n == Cardinality(made')
<1>4. n \in Nat /\ Cardinality(made) = n + 1
  BY <1>3, FS_CardinalityType DEF IInv
<1>5. UINT16_MAX + 1 \in Nat \ {0} /\ (UINT16_MAX + 1) - 1 = UINT16_MAX
  BY WidthAssumption
<1>6. (((n + 1) % (UINT16_MAX + 1)) + UINT16_MAX) % (UINT16_MAX + 1) = n % (UINT16_MAX + 1)
  BY <1>4, <1>5, ModPredecessor
<1>7. size_ = (n + 1) % (UINT16_MAX + 1)
  BY <1>4 DEF IInv, SizeModuloWidth
<1> QED
  BY <1>2, <1>3, <1>6, <1>7 DEF SizeModuloWidth

(* Erasing the head: the list goes on from its successor.                  *)
LEMMA EraseHeadStep ==
  ASSUME IInv, erase, current_ = head_
  PROVE  IInv'
<1> USE DEF IInv
<1>1. TypeOK' /\ IsFiniteSet(made') /\ SizeModuloWidth'
  BY TypeStep, EraseSize DEF Next, Sweep
<1>2. /\ head_ \in made /\ head_ # Null
      /\ made' = made \ {head_} /\ next_' = next_ /\ head_' = next_[head_]
      /\ current_' = next_[head_] /\ previous_' = Null
  BY NullAssumption DEF erase, IteratorStandsOnList, TypeOK
<1>3. Linear'
  BY <1>2 DEF Linear
<1>4. ListHoldsHeap'
  <2>1. Walk(next_, next_[head_]) = Walk(next_, head_) \ {head_}
    BY <1>2, WalkSuccessor
  <2>2. Walk(next_', head_') = made'
    BY <1>2, <2>1, FromIsWalk DEF ListHoldsHeap
  <2> QED
    BY <2>2 DEF ListHoldsHeap, From, Walk, Leaves
<1>5. IteratorStandsOnList'
  BY <1>2, MadeClosed DEF IteratorStandsOnList, Linear
<1> QED
  BY <1>1, <1>3, <1>4, <1>5

(* Erasing behind previous_: what follows the erased node is as before.    *)
LEMMA EraseInnerShape ==
  ASSUME IInv, erase, current_ # head_
  PROVE  /\ current_ \in made /\ current_ # Null
         /\ previous_ \in made /\ next_[previous_] = current_
         /\ previous_ # current_ /\ next_[current_] # current_
         /\ made' = made \ {current_} /\ head_' = head_
         /\ next_' = [next_ EXCEPT ![previous_] = next_[current_]]
         /\ current_' = next_[current_] /\ previous_' = previous_
<1>1. /\ current_ \in made /\ current_ # Null
      /\ previous_ \in made /\ next_[previous_] = current_
  BY NullAssumption DEF IInv, erase, IteratorStandsOnList
<1>2. next_[current_] # current_
  BY <1>1, Acyclic, WalkStart DEF IInv, TypeOK
<1> QED
  BY <1>1, <1>2 DEF erase

LEMMA EraseInnerWalk ==
  ASSUME IInv, erase, current_ # head_
  PROVE  Walk(next_', current_') = Walk(next_, next_[current_])
<1> DEFINE old == Walk(next_, next_[current_])
           new == Walk(next_', next_[current_])
<1> USE EraseInnerShape
<1>0. next_ \in [Object -> Pointer] /\ next_' \in [Object -> Pointer]
  BY TypeStep DEF IInv, TypeOK, Next, Sweep
<1>1. old \cup {Null} \in SUBSET Pointer /\ ~Leaves(next_, old \cup {Null})
  BY <1>0, WalkClosed
<1>2. previous_ \notin old
  <2>1. SUFFICES ASSUME previous_ \in old PROVE FALSE
    OBVIOUS
  <2>2. current_ \in old
    BY <2>1, WalkNext DEF IInv, TypeOK
  <2> QED
    BY <2>2, Acyclic DEF IInv
<1>3. \A a \in Object : a # previous_ => next_'[a] = next_[a]
  BY <1>0
<1>4. next_[current_] \in old \cup {Null}
  BY <1>0, WalkStart DEF IInv, TypeOK, Pointer
<1>5. new \subseteq old
  <2>1. ~Leaves(next_', old \cup {Null})
    BY <1>1, <1>2, <1>3, WalkObjects DEF Leaves
  <2>2. new \subseteq old \cup {Null}
    BY <1>1, <1>4, <2>1, WalkLeast
  <2> QED
    BY <2>2, WalkObjects, NullAssumption
<1>6. old \subseteq new
  <2> DEFINE S == (old \cap new) \cup {Null}
  <2>1. ~Leaves(next_', new \cup {Null})
    BY <1>0, WalkClosed
  <2>2. ~Leaves(next_, S)
    BY <1>1, <1>2, <1>3, <2>1, WalkObjects DEF Leaves
  <2>3. next_[current_] \in S
    BY <1>0, <1>4, WalkStart DEF IInv, TypeOK, Pointer
  <2>4. S \in SUBSET Pointer
    BY <1>1
  <2>5. old \subseteq S
    BY <2>2, <2>3, <2>4, WalkLeast
  <2> QED
    BY <2>5, WalkObjects, NullAssumption
<1> QED
  BY <1>5, <1>6

LEMMA EraseInnerStep ==
  ASSUME IInv, erase, current_ # head_
  PROVE  IInv'
<1> USE DEF IInv
<1>1. TypeOK' /\ IsFiniteSet(made') /\ SizeModuloWidth'
  BY TypeStep, EraseSize DEF Next, Sweep
<1> USE EraseInnerShape
<1>2. /\ next_'[previous_] = next_[current_]
      /\ \A a \in made \ {previous_} : next_'[a] = next_[a]
  BY DEF TypeOK
<1>3. Linear'
  BY <1>2, MadeClosed DEF Linear
<1>4. ListHoldsHeap'
  <2> DEFINE walk == Walk(next_', head_)
  <2>1. made' \subseteq walk
    <3> DEFINE S == walk \cup {Null}
               T == (S \cap made) \cup {Null, current_}
    <3>1. ~Leaves(next_', S) /\ S \in SUBSET Pointer
      BY <1>1, WalkClosed DEF TypeOK
    <3>2. T \in SUBSET Pointer
      BY DEF TypeOK, Pointer
    <3>3. head_ \in T
      BY WalkStart, MadeClosed DEF TypeOK
    <3>4. CASE previous_ \in S
      <4>1. next_[current_] \in T
        BY <1>2, <3>1, <3>4, MadeClosed, NullAssumption DEF Leaves, TypeOK
      <4>2. ~Leaves(next_, T)
        BY <1>2, <3>1, <4>1, MadeClosed DEF Leaves
      <4>3. made \subseteq T
        BY <3>2, <3>3, <4>2, HeadReachesAll
      <4> QED
        BY <4>3, NullAssumption DEF TypeOK
    <3>5. CASE previous_ \notin S
      <4> DEFINE U == (S \cap made) \cup {Null}
      <4>1. ~Leaves(next_, U) /\ U \in SUBSET Pointer
        BY <1>2, <3>1, <3>5, MadeClosed DEF Leaves, TypeOK, Pointer
      <4>2. head_ \in U
        BY WalkStart, MadeClosed DEF TypeOK
      <4>3. made \subseteq U
        BY <4>1, <4>2, HeadReachesAll
      <4> QED
        BY <4>3, <3>5, NullAssumption DEF TypeOK
    <3> QED
      BY <3>4, <3>5
  <2>2. walk \subseteq made'
    <3>1. made' \cup {Null} \in SUBSET Pointer
      BY <1>1 DEF TypeOK, Pointer
    <3>2. ~Leaves(next_', made' \cup {Null})
      BY <1>2, MadeClosed DEF Leaves, Linear
    <3>3. head_ \in made' \cup {Null}
      BY MadeClosed
    <3>4. walk \subseteq made' \cup {Null}
      BY <3>1, <3>2, <3>3, WalkLeast
    <3> QED
      BY <3>4, WalkObjects, NullAssumption
  <2>3. walk = made'
    BY <2>1, <2>2
  <2> QED
    BY <2>3 DEF ListHoldsHeap, From, Walk, Leaves
<1>5. IteratorStandsOnList'
  BY <1>2, MadeClosed, NullAssumption DEF IteratorStandsOnList, TypeOK
<1> QED
  BY <1>1, <1>3, <1>4, <1>5

LEMMA InvStep == IInv /\ [Next]_vars => IInv'
<1> SUFFICES ASSUME IInv, [Next]_vars PROVE IInv'
  OBVIOUS
<1>1. ASSUME NEW o \in Object, push_back(o) PROVE IInv'
  BY <1>1, PushStep
<1>2. ASSUME NEW live \in SUBSET made, begin(live) PROVE IInv'
  BY <1>2, BeginStep
<1>3. CASE erase
  BY <1>3, EraseHeadStep, EraseInnerStep
<1>4. CASE advance
  BY <1>4, AdvanceStep
<1>5. CASE end
  BY <1>5, EndStep
<1>6. CASE UNCHANGED vars
  BY <1>6 DEF vars, list, iterator, IInv, TypeOK, Linear, ListHoldsHeap, From,
              IteratorStandsOnList, SizeModuloWidth
<1> QED
  BY <1>1, <1>2, <1>3, <1>4, <1>5, <1>6 DEF Next, Sweep

(* The list is a chain at every step: no two nodes have one successor, and *)
(* the walk from head_ passes each object that exists once, so that erase()*)
(* takes one node out of it and loses no other (gc.h:108-195).             *)
THEOREM Invariance == Spec => []IInv
  BY InvInit, InvStep, PTL DEF Spec

(* The list holds exactly the objects that exist, before, inside and after *)
(* every sweep, although push_back() and erase() change one pointer each.  *)
THEOREM ListHoldsHeapCorrect == Spec => []ListHoldsHeap
<1>1. IInv => ListHoldsHeap
  BY DEF IInv
<1> QED
  BY <1>1, Invariance, PTL

(* The iterator of a sweep stands on a live node, with the live node before*)
(* it at hand.                                                             *)
THEOREM IteratorStandsOnListCorrect == Spec => []IteratorStandsOnList
<1>1. IInv => IteratorStandsOnList
  BY DEF IInv
<1> QED
  BY <1>1, Invariance, PTL

-----------------------------------------------------------------------------
(* The list implements ObjectRegistry: a step of the list is a step of the *)
(* registry or leaves it as it is.                                         *)

Unvisited == IF sweeping THEN From(current_) ELSE {}

LEMMA RegistryInit == Init => Registry!Init
  BY DEF Init, Registry!Init

LEMMA RegistryStep ==
  ASSUME IInv, [Next]_vars
  PROVE  [Registry!Next]_<<made, Unvisited>>
<1> USE DEF Unvisited
<1>1. ASSUME NEW o \in Object, push_back(o) PROVE Registry!Register(o)
  BY <1>1 DEF push_back, Registry!Register
<1>2. ASSUME NEW live \in SUBSET made, begin(live) PROVE Registry!BeginSweep
  <2>1. From(current_)' = made
    BY <1>2 DEF begin, list, From, IInv, ListHoldsHeap
  <2> QED
    BY <1>2, <2>1 DEF begin, list, Registry!BeginSweep
<1>3. ASSUME sweeping, current_ # Null PROVE current_ \in Unvisited
  BY <1>3, FromIsWalk, WalkStart DEF IInv, TypeOK, Pointer
<1>4. CASE erase
  <2>1. current_ \in made
    BY <1>4 DEF erase, IInv, IteratorStandsOnList
  <2>2. Walk(next_', current_') = Walk(next_, next_[current_])
    <3>1. CASE current_ = head_
      BY <1>4, <3>1 DEF erase
    <3>2. CASE current_ # head_
      BY <1>4, <3>2, EraseInnerWalk
    <3> QED
      BY <3>1, <3>2
  <2>3. From(current_)' = From(current_) \ {current_}
    <3>1. From(current_)' = Walk(next_', current_')
      BY DEF From, Walk, Leaves
    <3> QED
      BY <2>1, <2>2, <3>1, WalkSuccessor, FromIsWalk DEF IInv
  <2>4. Registry!Erase(current_)
    BY <1>3, <1>4, <2>3 DEF erase, Registry!Erase
  <2> QED
    BY <2>1, <2>4 DEF Registry!Next, IInv, TypeOK
<1>5. CASE advance
  <2>1. current_ \in made
    BY <1>5 DEF advance, IInv, IteratorStandsOnList
  <2>2. From(current_)' = From(current_) \ {current_}
    <3>1. From(current_)' = Walk(next_, next_[current_])
      BY <1>5 DEF advance, list, From, Walk, Leaves
    <3> QED
      BY <2>1, <3>1, WalkSuccessor, FromIsWalk DEF IInv
  <2>3. Registry!Advance(current_)
    BY <1>3, <1>5, <2>2 DEF advance, list, Registry!Advance
  <2> QED
    BY <2>1, <2>3 DEF Registry!Next, IInv, TypeOK
<1>6. CASE end
  <2>1. Unvisited = {}
    BY <1>6, FromIsWalk, WalkNull DEF end
  <2> QED
    BY <1>6, <2>1 DEF end, list
<1>7. CASE UNCHANGED vars
  BY <1>7 DEF vars, list, iterator, From
<1> QED
  BY <1>1, <1>2, <1>4, <1>5, <1>6, <1>7 DEF Next, Sweep, Registry!Next

(* The linked list of gc.h is the set of objects CollectedHeap is built on:*)
(* a sweep visits each object that was registered when it began, once.     *)
THEOREM RegistersCorrect == Spec => Registers
<1>1. Init => Registry!Init
  BY RegistryInit
<1>2. IInv /\ [Next]_vars => [Registry!Next]_<<made, Unvisited>>
  BY RegistryStep
<1> QED
  BY <1>1, <1>2, Invariance, PTL DEF Spec, Registers, Registry!Spec, Unvisited
=============================================================================
