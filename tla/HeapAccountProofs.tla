-------------------------- MODULE HeapAccountProofs --------------------------
(***************************************************************************)
(* The memory account of CollectedHeap balances and never falls below      *)
(* zero, whatever the sizes of the objects, of the machine and of its      *)
(* stack, and however many objects there are.                              *)
(***************************************************************************)
EXTENDS CollectedHeapProofs, SetInduction

-----------------------------------------------------------------------------
(* The inductive invariant: next to IInv, finitely many objects, and the   *)
(* types of what is added up.                                              *)
Charges ==
  /\ max_memory_bytes_ \in MemoryLimits
  /\ tracked \in [Object -> 0..MaxTracked]
  /\ machine \in MachineSize..(MachineSize + MaxTracked)
  /\ capacity \in Nat

AccountInv ==
  /\ IInv
  /\ IsFiniteSet(objects_)
  /\ Charges
  /\ MemoryBalanced

-----------------------------------------------------------------------------
(* The account as a sum of a function: what each object costs.             *)
Cost(charged) == [o \in Object |-> BaseSize + charged[o]]

(* The fold of Account is such a sum.                                      *)
LEMMA AccountIsSum ==
  ASSUME NEW S \in SUBSET Object, IsFiniteSet(S), NEW charged
  PROVE  \E sum : /\ IsSum(sum, Cost(charged), S)
                  /\ Account(charged, S) = sum[S]
<1> DEFINE Fold(sum) ==
             sum = [s \in SUBSET S |->
                      IF s = {} THEN 0
                      ELSE LET x == Pick(s)
                           IN  (BaseSize + charged[x]) + sum[s \ {x}]]
<1>1. ASSUME NEW sum PROVE IsSum(sum, Cost(charged), S) <=> Fold(sum)
  <2>1. ASSUME NEW s \in SUBSET S
        PROVE  Partial(sum, Cost(charged), s) =
                 IF s = {} THEN 0
                 ELSE LET x == Pick(s) IN (BaseSize + charged[x]) + sum[s \ {x}]
    BY PickIn DEF Partial, Cost
  <2> QED
    BY <2>1 DEF IsSum
<1>2. \E sum : Fold(sum)
  <2>1. \E sum : IsSum(sum, Cost(charged), S)
    BY SumExists
  <2> QED
    BY <1>1, <2>1
<1>3. \E sum : Fold(sum) /\ Account(charged, S) = sum[S]
  BY <1>2 DEF Account, MapThenSumSet, MapThenFoldSet, Pick
<1> QED
  BY <1>1, <1>3

(* The account with one object more, when the others cost the same.        *)
LEMMA AccountAdd ==
  ASSUME NEW S \in SUBSET Object, IsFiniteSet(S), NEW x \in Object, x \notin S,
         NEW before \in [Object -> Nat], NEW after \in [Object -> Nat],
         \A o \in S : after[o] = before[o]
  PROVE  /\ Account(before, S) \in Int
         /\ Account(after, S \cup {x}) = (BaseSize + after[x]) + Account(before, S)
<1> DEFINE T == S \cup {x}
<1>1. T \in SUBSET Object /\ IsFiniteSet(T)
  BY FS_AddElement
<1>2. PICK sum : IsSum(sum, Cost(before), S) /\ Account(before, S) = sum[S]
  BY AccountIsSum
<1>3. PICK sum2 : IsSum(sum2, Cost(after), T) /\ Account(after, T) = sum2[T]
  BY <1>1, AccountIsSum
<1>4. /\ \A o \in Object : Cost(before)[o] \in Int /\ Cost(after)[o] \in Int
      /\ Cost(after)[x] = BaseSize + after[x]
      /\ \A o \in S : Cost(before)[o] = Cost(after)[o]
  BY SizeAssumption DEF Cost
<1> HIDE DEF T
<1>5. sum2[T] = Cost(after)[x] + sum2[T \ {x}]
  <2>1. x \in T /\ T \in SUBSET T
    BY DEF T
  <2>2. \A o \in T : Cost(after)[o] \in Int
    BY <1>1, <1>4
  <2> QED
    BY <1>1, <1>3, <2>1, <2>2, SumAny
<1>6. T \ {x} = S /\ x \in T
  BY DEF T
<1>7. sum[S] = sum2[S]
  BY <1>1, <1>6, <1>2, <1>3, <1>4, SumCongruence
<1>8. sum[S] \in Int
  BY <1>2, <1>4, SumType
<1> QED
  BY <1>2, <1>3, <1>4, <1>5, <1>6, <1>7, <1>8 DEF T

LEMMA AccountEmpty == ASSUME NEW charged PROVE Account(charged, {}) = 0
<1>1. PICK sum : IsSum(sum, Cost(charged), {}) /\ Account(charged, {}) = sum[{}]
  BY AccountIsSum, FS_EmptySet
<1> QED
  BY <1>1 DEF IsSum, Partial

(* The account of finitely many objects is a natural number.               *)
LEMMA AccountNat ==
  ASSUME NEW S \in SUBSET Object, IsFiniteSet(S), NEW charged \in [Object -> Nat]
  PROVE  Account(charged, S) \in Nat
<1> DEFINE D == {T \in SUBSET S : Account(charged, T) \in Nat}
<1>1. {} \in D
  BY AccountEmpty
<1>2. ASSUME NEW T \in SUBSET S, T # {}, \A x \in T : T \ {x} \in D
      PROVE  T \in D
  <2>1. PICK x \in T : TRUE
    BY <1>2
  <2> DEFINE U == T \ {x}
  <2>2. Account(charged, U) \in Nat
    BY <1>2, <2>1
  <2>3. U \in SUBSET Object /\ IsFiniteSet(U) /\ x \in Object /\ x \notin U /\ T = U \cup {x}
    BY FS_Subset
  <2>4. charged[x] \in Nat
    BY <2>3
  <2> HIDE DEF U, D
  <2>5. Account(charged, T) = (BaseSize + charged[x]) + Account(charged, U)
    BY <2>3, AccountAdd
  <2> QED
    BY <2>2, <2>4, <2>5, SizeAssumption DEF D
<1> HIDE DEF D
<1>3. SUBSET S \subseteq D
  BY <1>1, <1>2, SubsetInduction
<1> QED
  BY <1>3 DEF D

-----------------------------------------------------------------------------
(* The steps that charge or uncharge, then all the others.                 *)

LEMMA AccountInit == Init => AccountInv
<1> SUFFICES ASSUME Init PROVE AccountInv
  OBVIOUS
<1>1. objects_ = {} /\ capacity = 0 /\ machine = MachineSize
  BY DEF Init, Registry!Init
<1>2. Charges
  BY SizeAssumption DEF Init, Charges
<1>3. MemoryBalanced
  BY <1>1, AccountEmpty, SizeAssumption DEF MemoryBalanced, Init
<1> QED
  BY <1>1, <1>2, <1>3, InvInit, FS_EmptySet DEF AccountInv

(* What the account adds up, and the numbers it is made of.                *)
LEMMA AccountTypes ==
  ASSUME AccountInv
  PROVE  /\ objects_ \in SUBSET Object /\ IsFiniteSet(objects_)
         /\ tracked \in [Object -> Nat]
         /\ BaseSize \in Nat /\ HeapSize \in Nat /\ PointerSize \in Nat
         /\ machine \in Nat /\ capacity \in Nat
         /\ PointerSize * capacity \in Nat
         /\ current_memory_bytes_ =
              HeapSize + machine + PointerSize * capacity + Account(tracked, objects_)
<1>1. BaseSize \in Nat /\ HeapSize \in Nat /\ PointerSize \in Nat /\ MachineSize \in Nat
      /\ MaxTracked \in Nat
  BY SizeAssumption
<1>2. machine \in Nat /\ capacity \in Nat /\ tracked \in [Object -> Nat]
  BY <1>1 DEF AccountInv, Charges
<1>3. PointerSize * capacity \in Nat
  BY <1>1, <1>2
<1> QED
  BY <1>1, <1>2, <1>3 DEF AccountInv, MemoryBalanced, IInv, GraphTyped

LEMMA AllocateBalanced ==
  ASSUME AccountInv, NEW o \in Object, NEW b \in 0..MaxTracked, Allocate(o, b)
  PROVE  IsFiniteSet(objects_') /\ Charges' /\ MemoryBalanced'
<1> USE AccountTypes
<1>1. /\ o \notin objects_ /\ objects_' = objects_ \cup {o}
      /\ tracked' = [tracked EXCEPT ![o] = b]
      /\ current_memory_bytes_' = current_memory_bytes_ + BaseSize + b
      /\ UNCHANGED <<machine, capacity, max_memory_bytes_>>
  BY DEF Allocate, Registry!Register
<1>2. IsFiniteSet(objects_')
  BY <1>1, FS_AddElement
<1>3. b \in Nat
  BY SizeAssumption
<1>4. /\ Charges' /\ tracked' \in [Object -> Nat] /\ tracked'[o] = b
      /\ \A x \in objects_ : tracked'[x] = tracked[x]
  BY <1>1, <1>3 DEF AccountInv, Charges
<1>5. /\ Account(tracked, objects_) \in Int
      /\ Account(tracked', objects_') = (BaseSize + tracked'[o]) + Account(tracked, objects_)
  <2>1. Account(tracked', objects_ \cup {o}) =
          (BaseSize + tracked'[o]) + Account(tracked, objects_)
    <3>1. o \notin objects_
      BY <1>1
    <3> QED
      BY <1>4, <3>1, AccountAdd
  <2>2. Account(tracked, objects_) \in Int
    BY AccountNat
  <2> QED
    BY <1>1, <2>1, <2>2
<1> DEFINE vector == PointerSize * capacity
<1>6. vector \in Nat /\ (PointerSize * capacity)' = vector
  BY <1>1
<1>7. current_memory_bytes_ = HeapSize + machine + vector + Account(tracked, objects_)
  OBVIOUS
<1> HIDE DEF vector
<1>8. current_memory_bytes_' = HeapSize + machine + vector + Account(tracked', objects_')
  BY <1>1, <1>3, <1>4, <1>5, <1>6, <1>7
<1> QED
  BY <1>1, <1>2, <1>4, <1>6, <1>8 DEF MemoryBalanced, vector

LEMMA StoreBalanced ==
  ASSUME AccountInv, NEW n \in locals \cup roots, NEW m \in Held, NEW b \in 0..MaxTracked,
         Store(n, m, b)
  PROVE  IsFiniteSet(objects_') /\ Charges' /\ MemoryBalanced'
<1> USE AccountTypes
<1>1. /\ objects_' = objects_ /\ tracked' = [tracked EXCEPT ![n] = @ + b]
      /\ current_memory_bytes_' = current_memory_bytes_ + b
      /\ tracked[n] + b <= MaxTracked
      /\ UNCHANGED <<machine, capacity, max_memory_bytes_>>
  BY DEF Store
<1>2. b \in Nat /\ MaxTracked \in Nat
  BY SizeAssumption
<1>3. n \in objects_
  BY DEF AccountInv, IInv, HeapClosed, Survivors
<1> DEFINE S == objects_ \ {n}
<1>4. S \in SUBSET Object /\ IsFiniteSet(S) /\ n \notin S /\ n \in Object /\ objects_ = S \cup {n}
  BY <1>3, FS_RemoveElement
<1>5. tracked[n] \in Nat
  BY <1>4
<1>6. tracked'[n] = tracked[n] + b /\ \A o \in Object \ {n} : tracked'[o] = tracked[o]
  BY <1>1, <1>4
<1>7. Charges' /\ tracked' \in [Object -> Nat]
  <2>1. tracked[n] + b \in 0..MaxTracked
    BY <1>1, <1>2, <1>5
  <2>2. tracked' \in [Object -> 0..MaxTracked]
    BY <1>1, <2>1 DEF AccountInv, Charges
  <2> QED
    BY <1>1, <1>2, <2>2 DEF AccountInv, Charges
<1> HIDE DEF S
<1>8. /\ Account(tracked, S) \in Int
      /\ Account(tracked, objects_) = (BaseSize + tracked[n]) + Account(tracked, S)
  <2>1. S \in SUBSET Object /\ IsFiniteSet(S) /\ n \notin S /\ n \in Object
    BY <1>4
  <2>2. tracked \in [Object -> Nat] /\ \A o \in S : tracked[o] = tracked[o]
    OBVIOUS
  <2>3. /\ Account(tracked, S) \in Int
        /\ Account(tracked, S \cup {n}) = (BaseSize + tracked[n]) + Account(tracked, S)
    BY <2>1, <2>2, AccountAdd, ZenonT(40)
  <2> QED
    BY <1>4, <2>3
<1>9. Account(tracked', objects_') = (BaseSize + tracked'[n]) + Account(tracked, S)
  <2>1. \A o \in S : tracked'[o] = tracked[o]
    BY <1>4, <1>6
  <2>2. Account(tracked', S \cup {n}) = (BaseSize + tracked'[n]) + Account(tracked, S)
    BY <1>4, <1>7, <2>1, AccountAdd
  <2> QED
    BY <1>1, <1>4, <2>2
<1> DEFINE vector == PointerSize * capacity
<1>10. vector \in Nat /\ (PointerSize * capacity)' = vector
  BY <1>1
<1>11. current_memory_bytes_ = HeapSize + machine + vector + Account(tracked, objects_)
  OBVIOUS
<1> HIDE DEF vector
<1>12. current_memory_bytes_' = HeapSize + machine + vector + Account(tracked', objects_')
  BY <1>1, <1>2, <1>5, <1>6, <1>8, <1>9, <1>10, <1>11
<1> QED
  BY <1>1, <1>7, <1>10, <1>12 DEF MemoryBalanced, vector

LEMMA DeleteBalanced ==
  ASSUME AccountInv, NEW o \in Object, SweepDelete(o)
  PROVE  IsFiniteSet(objects_') /\ Charges' /\ MemoryBalanced'
<1> USE AccountTypes
<1>1. /\ objects_' = objects_ \ {o} /\ tracked' = [tracked EXCEPT ![o] = 0]
      /\ current_memory_bytes_' = current_memory_bytes_ - BaseSize - tracked[o]
      /\ o \in unswept
      /\ UNCHANGED <<machine, capacity, max_memory_bytes_>>
  BY DEF SweepDelete, Registry!Erase
<1>2. o \in objects_
  BY <1>1 DEF AccountInv, IInv, Phases
<1>3. /\ objects_' \in SUBSET Object /\ IsFiniteSet(objects_')
      /\ o \notin objects_' /\ objects_ = objects_' \cup {o}
  BY <1>1, <1>2, FS_RemoveElement
<1>4. /\ Charges' /\ tracked' \in [Object -> Nat]
      /\ \A x \in Object : tracked'[x] = IF x = o THEN 0 ELSE tracked[x]
  BY <1>1, SizeAssumption DEF AccountInv, Charges
<1>5. /\ Account(tracked', objects_') \in Int
      /\ Account(tracked, objects_) = (BaseSize + tracked[o]) + Account(tracked', objects_')
  <2>1. \A x \in objects_' : tracked[x] = tracked'[x]
    BY <1>3, <1>4
  <2>2. objects_' \in SUBSET Object /\ IsFiniteSet(objects_') /\ o \notin objects_'
    BY <1>3
  <2>3. tracked' \in [Object -> Nat] /\ tracked \in [Object -> Nat]
    BY <1>4
  <2>4. /\ Account(tracked', objects_') \in Int
        /\ Account(tracked, objects_' \cup {o}) = (BaseSize + tracked[o]) + Account(tracked', objects_')
    BY <2>1, <2>2, <2>3, AccountAdd, ZenonT(40)
  <2> QED
    BY <1>3, <2>4
<1>6. tracked[o] \in Nat
  OBVIOUS
<1> DEFINE vector == PointerSize * capacity
<1>7. vector \in Nat /\ (PointerSize * capacity)' = vector
  BY <1>1
<1>8. current_memory_bytes_ = HeapSize + machine + vector + Account(tracked, objects_)
  OBVIOUS
<1> HIDE DEF vector
<1>9. current_memory_bytes_' = HeapSize + machine + vector + Account(tracked', objects_')
  BY <1>1, <1>5, <1>6, <1>7, <1>8
<1> QED
  BY <1>1, <1>3, <1>4, <1>7, <1>9 DEF MemoryBalanced, vector

LEMMA AddGlobalBalanced ==
  ASSUME AccountInv, NEW b \in 1..MaxTracked, AddGlobal(b)
  PROVE  IsFiniteSet(objects_') /\ Charges' /\ MemoryBalanced'
<1> USE AccountTypes
<1>1. /\ machine' = machine + b /\ current_memory_bytes_' = current_memory_bytes_ + b
      /\ machine + b <= MachineSize + MaxTracked
      /\ UNCHANGED <<objects_, tracked, capacity, max_memory_bytes_>>
  BY DEF AddGlobal, graph
<1>2. b \in Nat /\ MaxTracked \in Nat /\ MachineSize \in Nat
  BY SizeAssumption
<1>3. Charges'
  BY <1>1, <1>2 DEF AccountInv, Charges
<1>4. Account(tracked, objects_) \in Nat
  BY AccountNat
<1> DEFINE vector == PointerSize * capacity
<1>5. vector \in Nat /\ (PointerSize * capacity)' = vector
  BY <1>1
<1>6. current_memory_bytes_ = HeapSize + machine + vector + Account(tracked, objects_)
  OBVIOUS
<1> HIDE DEF vector
<1>7. current_memory_bytes_' = HeapSize + machine' + vector + Account(tracked, objects_)
  BY <1>1, <1>2, <1>4, <1>5, <1>6
<1> QED
  BY <1>1, <1>3, <1>5, <1>7 DEF AccountInv, MemoryBalanced, vector

(* The storage of stack_frames_ grows from c places to d.                  *)
LEMMA Growth ==
  ASSUME NEW p \in Nat, NEW c \in Nat, NEW d \in Nat
  PROVE  /\ p * c \in Int /\ p * d \in Int /\ p * (d - c) \in Int
         /\ p * d = p * c + p * (d - c)
  OBVIOUS

LEMMA PushBalanced ==
  ASSUME AccountInv, NEW f \in locals, PushFrame(f)
  PROVE  IsFiniteSet(objects_') /\ Charges' /\ MemoryBalanced'
<1> USE AccountTypes
<1>1. /\ capacity' = Grown
      /\ current_memory_bytes_' = current_memory_bytes_ + PointerSize * (Grown - capacity)
      /\ UNCHANGED <<objects_, tracked, machine, max_memory_bytes_>>
  BY DEF PushFrame
<1>2. Grown \in Nat
  BY DEF Grown
<1>3. Charges'
  BY <1>1, <1>2 DEF AccountInv, Charges
<1>4. Account(tracked, objects_) \in Nat
  BY AccountNat
<1> DEFINE before == PointerSize * capacity
           after == PointerSize * Grown
           new == PointerSize * (Grown - capacity)
<1>5. before \in Int /\ after \in Int /\ new \in Int /\ after = before + new
  BY <1>2, Growth
<1>6. current_memory_bytes_ = HeapSize + machine + before + Account(tracked, objects_)
  OBVIOUS
<1>7. current_memory_bytes_' = current_memory_bytes_ + new
      /\ (PointerSize * capacity)' = after
  BY <1>1
<1> HIDE DEF before, after, new
<1>8. current_memory_bytes_' = HeapSize + machine + after + Account(tracked, objects_)
  BY <1>4, <1>5, <1>6, <1>7
<1> QED
  BY <1>1, <1>3, <1>7, <1>8 DEF AccountInv, MemoryBalanced

LEMMA OthersBalanced ==
  ASSUME AccountInv, UNCHANGED <<objects_, memory>>
  PROVE  IsFiniteSet(objects_') /\ Charges' /\ MemoryBalanced'
  BY DEF AccountInv, Charges, MemoryBalanced, memory

LEMMA AccountStep == AccountInv /\ [Next]_vars => AccountInv'
<1> SUFFICES ASSUME AccountInv, [Next]_vars
             PROVE  IsFiniteSet(objects_') /\ Charges' /\ MemoryBalanced'
  BY InvStep DEF AccountInv
<1> USE OthersBalanced DEF graph
<1>1. ASSUME Program PROVE IsFiniteSet(objects_') /\ Charges' /\ MemoryBalanced'
  BY <1>1, AllocateBalanced, StoreBalanced, AddGlobalBalanced, PushBalanced
  DEF Program, Load, Clear, PopFrame, EndInstruction
<1>2. ASSUME GcStep PROVE IsFiniteSet(objects_') /\ Charges' /\ MemoryBalanced'
  BY <1>2, DeleteBalanced
  DEF GcStep, GarbageCollect, MarkRoot, FollowNext, FollowReturn, EndMark,
      Registry!BeginSweep, SweepUnmark, Registry!Advance, EndSweep
<1>3. CASE UNCHANGED vars
  BY <1>3 DEF vars
<1> QED
  BY <1>1, <1>2, <1>3 DEF Next

LEMMA AccountInvariance == Spec => []AccountInv
  BY AccountInit, AccountStep, PTL DEF Spec

(* The account of the heap is at every moment what the heap, the machine,  *)
(* the storage of its stack and the registered objects cost: nothing is    *)
(* charged twice, forgotten or given back twice.                           *)
THEOREM MemoryBalancedCorrect == Spec => []MemoryBalanced
<1>1. AccountInv => MemoryBalanced
  BY DEF AccountInv
<1> QED
  BY <1>1, AccountInvariance, PTL

(* Every variable always has its type; since the account balances, the     *)
(* size_t never wraps below zero.                                          *)
THEOREM TypeCorrect == Spec => []TypeOK
<1>1. AccountInv => TypeOK
  <2> SUFFICES ASSUME AccountInv PROVE TypeOK
    OBVIOUS
  <2>1. current_memory_bytes_ \in Nat
    <3>1. Account(tracked, objects_) \in Nat
      BY AccountTypes, AccountNat
    <3> DEFINE vector == PointerSize * capacity
    <3>2. /\ vector \in Nat
          /\ current_memory_bytes_ = HeapSize + machine + vector + Account(tracked, objects_)
      BY AccountTypes
    <3> HIDE DEF vector
    <3> QED
      BY <3>1, <3>2, AccountTypes
  <2> QED
    BY <2>1 DEF AccountInv, IInv, Charges, TypeOK
<1> QED
  BY <1>1, AccountInvariance, PTL
=============================================================================
