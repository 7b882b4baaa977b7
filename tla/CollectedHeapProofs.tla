-------------------------- MODULE CollectedHeapProofs --------------------------
(***************************************************************************)
(* Theorems about CollectedHeap for every set of objects and of static     *)
(* collectables, of any size, and every memory limit.                      *)
(***************************************************************************)
EXTENDS CollectedHeap, TLAPS

-----------------------------------------------------------------------------
(* The inductive invariant, as a conjunction of named parts.               *)

(* What each phase leaves empty.                                           *)
Phases ==
  /\ pc # "mark" => todo = {} /\ callstack = << >>
  /\ pc # "sweep" => unswept = {}
  /\ pc # "run" => locals = {}
  /\ unswept \subseteq objects_
  /\ todo \subseteq roots

(* The objects the sweep will keep point only to one another and to static *)
(* collectables, and hold everything the program holds. This, and not      *)
(* NoDangling alone, is what a step preserves: between collections even    *)
(* garbage never points to a freed object. Static collectables keep the    *)
(* pointers they were made with.                                           *)
HeapClosed ==
  /\ roots \subseteq Survivors
  /\ locals \subseteq Survivors
  /\ \A o \in Survivors : succ[o] \subseteq Survivors \cup Static
  /\ \A o \in Object \ objects_ : succ[o] = {}
  /\ \A s \in Static : succ[s] = StaticSucc[s]

(* Where marks may be: nowhere between collections, and during a sweep     *)
(* only ahead of the iterator.                                             *)
Marks ==
  /\ pc \in {"run", "fetch"} => \A o \in Object : ~marked_[o]
  /\ pc = "mark" => \A o \in Object : marked_[o] => o \in objects_
  /\ pc = "sweep" => \A o \in Object : marked_[o] => o \in unswept

(* The recursion of markSuccessors: the collectables whose follow() is     *)
(* active are marked and pairwise different, and what a follow() has left  *)
(* to visit is among its pointers.                                         *)
Recursion ==
  /\ \A i \in DOMAIN callstack : marked_[callstack[i]]
  /\ NoReentry
  /\ \A n \in Node : pending[n] \subseteq succ[n]
  /\ \A n \in Node : pending[n] # {} => \E i \in DOMAIN callstack : callstack[i] = n

(* The tricolour invariant of the mark: a root is marked or still to come; *)
(* a pointer of a marked object leads to a marked collectable or is one    *)
(* that its follow() has yet to visit.                                     *)
Tricolour ==
  pc = "mark" =>
    /\ \A r \in roots : marked_[r] \/ r \in todo
    /\ \A o \in Object : marked_[o] =>
         \A m \in succ[o] : marked_[m] \/ m \in pending[o]

(* Only what the frames reach is marked, and only that survives.           *)
Precise ==
  /\ pc = "mark" => \A o \in Object : marked_[o] => o \in Reach(roots)
  /\ pc = "sweep" => Survivors \subseteq Reach(roots)

IInv ==
  GraphTyped /\ Phases /\ HeapClosed /\ Marks /\ Recursion /\ Tricolour /\ Precise

-----------------------------------------------------------------------------
(* A step of the program or of the collector keeps the graph and the marks *)
(* in their types.                                                         *)
LEMMA TypeInit == Init => GraphTyped
  BY DisjointAssumption, StaticAssumption, SizeAssumption
  DEF Init, GraphTyped, Node, Registry!Init

LEMMA MarkSuccessorsType ==
  ASSUME GraphTyped, NEW n \in Node, NEW rest \in [Node -> SUBSET Node],
         MarkSuccessors(n, rest)
  PROVE  /\ marked_' \in [Node -> BOOLEAN]
         /\ callstack' \in Seq(Node)
         /\ pending' \in [Node -> SUBSET Node]
<1>1. CASE marked_[n]
  BY <1>1 DEF MarkSuccessors, GraphTyped
<1>2. CASE ~marked_[n]
  <2>1. marked_' = [marked_ EXCEPT ![n] = TRUE]
    BY <1>2 DEF MarkSuccessors
  <2>2. callstack' = Append(callstack, n)
    BY <1>2 DEF MarkSuccessors
  <2>3. pending' = [rest EXCEPT ![n] = succ[n]]
    BY <1>2 DEF MarkSuccessors
  <2> QED
    BY <2>1, <2>2, <2>3 DEF GraphTyped
<1> QED
  BY <1>1, <1>2

LEMMA TypeStep == GraphTyped /\ [Next]_vars => GraphTyped'
<1> SUFFICES ASSUME GraphTyped, [Next]_vars PROVE GraphTyped'
  OBVIOUS
<1> USE DisjointAssumption, StaticAssumption, SizeAssumption DEF GraphTyped, Node
<1>1. ASSUME NEW o \in Object, NEW b \in 0..MaxTracked, Allocate(o, b) PROVE GraphTyped'
  BY <1>1 DEF Allocate, marking, Registry!Register
<1>2. ASSUME NEW n \in Held, NEW m \in Object, Load(n, m) PROVE GraphTyped'
  BY <1>2 DEF Load, marking, memory
<1>3. ASSUME NEW n \in locals \cup roots, NEW m \in Held, NEW b \in 0..MaxTracked,
             Store(n, m, b)
      PROVE GraphTyped'
  <2>1. m \in Node
    BY DEF Held
  <2>2. succ' \in [Node -> SUBSET Node]
    BY <1>3, <2>1 DEF Store
  <2> QED
    BY <1>3, <2>2 DEF Store, marking
<1>4. ASSUME NEW n \in locals \cup roots, NEW m \in Node, Clear(n, m) PROVE GraphTyped'
  BY <1>4 DEF Clear, marking, memory
<1>5. ASSUME NEW f \in locals, PushFrame(f) PROVE GraphTyped'
  BY <1>5 DEF PushFrame, marking, memory
<1>6. ASSUME NEW f \in roots, PopFrame(f) PROVE GraphTyped'
  BY <1>6 DEF PopFrame, marking, memory
<1>7. CASE EndInstruction
  BY <1>7 DEF EndInstruction, marking, memory
<1>8. CASE GarbageCollect
  BY <1>8 DEF GarbageCollect, graph, memory
<1>9. ASSUME NEW r \in Object, MarkRoot(r) PROVE GraphTyped'
  BY <1>9, MarkSuccessorsType DEF MarkRoot, graph, memory
<1>10. ASSUME NEW m \in Node, FollowNext(m) PROVE GraphTyped'
  <2> DEFINE n == callstack[Len(callstack)]
  <2>1. n \in Node
    BY <1>10 DEF FollowNext
  <2>2. [pending EXCEPT ![n] = @ \ {m}] \in [Node -> SUBSET Node]
    BY <2>1
  <2> QED
    BY <1>10, <2>2, MarkSuccessorsType DEF FollowNext, graph, memory
<1>11. CASE FollowReturn
  BY <1>11 DEF FollowReturn, graph, memory
<1>12. CASE EndMark
  BY <1>12 DEF EndMark, marking, memory, Registry!BeginSweep
<1>13. ASSUME NEW o \in Object, SweepDelete(o) PROVE GraphTyped'
  BY <1>13 DEF SweepDelete, marking, Registry!Erase
<1>14. ASSUME NEW o \in Object, SweepUnmark(o) PROVE GraphTyped'
  BY <1>14 DEF SweepUnmark, marking, memory, Registry!Advance
<1>15. CASE EndSweep
  BY <1>15 DEF EndSweep, graph, marking, memory
<1>16. CASE UNCHANGED vars
  BY <1>16 DEF vars, graph, marking, memory
<1>17. ASSUME NEW b \in 1..MaxTracked, AddGlobal(b) PROVE GraphTyped'
  BY <1>17 DEF AddGlobal, graph, marking
<1> QED
  BY <1>1, <1>2, <1>3, <1>4, <1>5, <1>6, <1>7, <1>8, <1>9, <1>10, <1>11, <1>12,
     <1>13, <1>14, <1>15, <1>16, <1>17 DEF Next, Program, GcStep

-----------------------------------------------------------------------------
(* Reach(R) is closed, contains R, and is the least such set.              *)
LEMMA ReachSucc ==
  ASSUME NEW R, NEW n \in Reach(R), NEW m \in succ[n] \cap Node
  PROVE  m \in Reach(R)
  BY DEF Reach, Closed

LEMMA ReachRoot ==
  ASSUME NEW R \in SUBSET Node
  PROVE  R \subseteq Reach(R)
  BY DEF Reach

LEMMA ReachLeast ==
  ASSUME NEW R, NEW S \in SUBSET Node, R \subseteq S, Closed(S)
  PROVE  Reach(R) \subseteq S
  BY DEF Reach

LEMMA ReachUnchanged ==
  ASSUME succ' = succ, roots' = roots
  PROVE  Reach(roots)' = Reach(roots)
  BY DEF Reach, Closed

-----------------------------------------------------------------------------
(* The invariant holds initially and every step preserves it.              *)
LEMMA InvInit == Init => IInv
<1> SUFFICES ASSUME Init PROVE IInv
  OBVIOUS
<1> USE DisjointAssumption, StaticAssumption DEF Init, Registry!Init
<1>1. GraphTyped
  BY TypeInit
<1>2. Phases /\ Marks /\ Tricolour /\ Precise
  BY DEF Phases, Marks, Tricolour, Precise, Node
<1>3. HeapClosed
  BY DEF HeapClosed, Survivors, Node
<1>4. Recursion
  BY DEF Recursion, NoReentry, IsInjective
<1> QED
  BY <1>1, <1>2, <1>3, <1>4 DEF IInv

(* A step of the program: nothing is being marked or swept, and what it    *)
(* stores it holds.                                                        *)
LEMMA ProgramStep ==
  ASSUME IInv, Program
  PROVE  Phases' /\ HeapClosed' /\ Marks' /\ Recursion' /\ Tricolour' /\ Precise'
<1> USE DisjointAssumption, StaticAssumption DEF Node
<1>1. pc = "run"
  BY DEF Program, Allocate, Load, Store, Clear, AddGlobal, PushFrame,
     PopFrame, EndInstruction
<1>2. pc' \in {"run", "fetch"}
  BY <1>1 DEF Program, Allocate, Load, Store, Clear, AddGlobal, PushFrame,
     PopFrame, EndInstruction
<1>3. Survivors = objects_ /\ Survivors' = objects_'
  BY <1>1, <1>2 DEF Survivors
<1>4. todo = {} /\ callstack = << >> /\ unswept = {} /\ todo' = {}
      /\ callstack' = << >> /\ unswept' = {}
  BY <1>1 DEF IInv, Phases, Program, Allocate, Load, Store, Clear, AddGlobal,
     PushFrame, PopFrame, EndInstruction, graph, marking, Registry!Register
<1>5. Phases'
  BY <1>1, <1>2, <1>4 DEF Phases, Program, Allocate, Load, Store, Clear, AddGlobal,
     PushFrame, PopFrame, EndInstruction
<1>6. Marks'
  BY <1>1, <1>2 DEF IInv, GraphTyped, Marks, Program, Allocate, Load, Store, Clear,
     AddGlobal, PushFrame, PopFrame, EndInstruction
<1>7. Tricolour' /\ Precise'
  BY <1>2 DEF Tricolour, Precise
<1>8. pending' = pending /\ \A n \in Node : pending[n] = {}
  BY <1>4 DEF IInv, Recursion, Program, Allocate, Load, Store, Clear, AddGlobal,
     PushFrame, PopFrame, EndInstruction, marking
<1>9. Recursion'
  BY <1>4, <1>8 DEF Recursion, NoReentry, IsInjective
<1>10. HeapClosed'
  <2> USE <1>3 DEF IInv, GraphTyped, HeapClosed
  <2>1. ASSUME NEW o \in Object, NEW b \in 0..MaxTracked, Allocate(o, b) PROVE HeapClosed'
    BY <2>1 DEF Allocate, Registry!Register
  <2>2. ASSUME NEW n \in Held, NEW m \in Object, Load(n, m) PROVE HeapClosed'
    <3>1. m \in objects_
      BY <2>2 DEF Load, Held
    <3> QED
      BY <2>2, <3>1 DEF Load
  <2>3. ASSUME NEW n \in locals \cup roots, NEW m \in Held, NEW b \in 0..MaxTracked,
               Store(n, m, b)
        PROVE HeapClosed'
    <3>1. m \in objects_ \cup Static /\ n \in objects_
      BY DEF Held
    <3>2. succ' = [succ EXCEPT ![n] = @ \cup {m}]
      BY <2>3 DEF Store
    <3>3. UNCHANGED <<objects_, roots, locals>>
      BY <2>3 DEF Store
    <3> QED
      BY <3>1, <3>2, <3>3
  <2>4. ASSUME NEW n \in locals \cup roots, NEW m \in Node, Clear(n, m)
        PROVE HeapClosed'
    <3>1. n \in objects_
      OBVIOUS
    <3>2. succ' = [succ EXCEPT ![n] = @ \ {m}]
      BY <2>4 DEF Clear
    <3>3. UNCHANGED <<objects_, roots, locals>>
      BY <2>4 DEF Clear
    <3> QED
      BY <3>1, <3>2, <3>3
  <2>5. ASSUME NEW f \in locals, PushFrame(f) PROVE HeapClosed'
    BY <2>5 DEF PushFrame
  <2>6. ASSUME NEW f \in roots, PopFrame(f) PROVE HeapClosed'
    BY <2>6 DEF PopFrame
  <2>7. CASE EndInstruction
    BY <2>7 DEF EndInstruction
  <2>8. ASSUME NEW b \in 1..MaxTracked, AddGlobal(b) PROVE HeapClosed'
    BY <2>8 DEF AddGlobal, graph
  <2> QED
    BY <2>1, <2>2, <2>3, <2>4, <2>5, <2>6, <2>7, <2>8 DEF Program
<1> QED
  BY <1>5, <1>6, <1>7, <1>9, <1>10

(* markSuccessors(n), from the loop over the roots or from a follow(): it  *)
(* keeps every part of the invariant that speaks of the mark, as long as n *)
(* is registered and reached, or static. `rest` is what the callers have   *)
(* left; v is the pointer handed over, when there is a caller.             *)
LEMMA MarkStep ==
  ASSUME IInv, pc = "mark", pc' = "mark",
         NEW n \in Node, n \in objects_ \/ n \in Static,
         n \in Object => n \in Reach(roots),
         NEW rest \in [Node -> SUBSET Node],
         \A k \in Node : rest[k] = pending[k] \/ rest[k] = pending[k] \ {n},
         MarkSuccessors(n, rest), UNCHANGED graph, UNCHANGED unswept,
         todo' = todo \/ todo' = todo \ {n}
  PROVE  Phases' /\ HeapClosed' /\ Marks' /\ Recursion' /\ Tricolour' /\ Precise'
<1> USE DEF IInv, GraphTyped, graph
<1>1. /\ marked_'[n]
      /\ \A k \in Node : k # n => marked_'[k] = marked_[k]
      /\ \A k \in Node : marked_[k] => marked_'[k]
  BY DEF MarkSuccessors
<1>2. \A k \in Node : pending'[k] = rest[k] \/ (k = n /\ pending'[k] = succ[k])
  BY DEF MarkSuccessors
<1>3. Phases'
  BY DEF Phases
<1>4. HeapClosed'
  BY DEF HeapClosed, Survivors
<1>5. Marks'
  BY <1>1, DisjointAssumption DEF Marks, Node
<1>6. Recursion'
  <2>0. ASSUME NEW k \in Node PROVE pending'[k] \subseteq succ'[k]
    <3>1. pending[k] \subseteq succ[k] /\ succ' = succ
      BY DEF Recursion
    <3>2. rest[k] \subseteq succ[k]
      BY <3>1
    <3> QED
      BY <1>2, <3>1, <3>2
  <2>1. CASE marked_[n]
    <3>1. pending' = rest /\ marked_' = marked_ /\ callstack' = callstack
      BY <2>1 DEF MarkSuccessors
    <3>2. \A k \in Node : pending'[k] # {} => pending[k] # {}
      BY <3>1
    <3> QED
      BY <2>0, <3>1, <3>2 DEF Recursion, NoReentry, IsInjective
  <2>2. CASE ~marked_[n]
    <3>1. callstack' = Append(callstack, n) /\ pending' = [rest EXCEPT ![n] = succ[n]]
      BY <2>2 DEF MarkSuccessors
    <3>2. /\ DOMAIN callstack' = 1..(Len(callstack) + 1)
          /\ DOMAIN callstack = 1..Len(callstack)
          /\ callstack'[Len(callstack) + 1] = n
          /\ \A i \in DOMAIN callstack : callstack'[i] = callstack[i]
          /\ \A i \in DOMAIN callstack : callstack[i] \in Node
          /\ Len(callstack) \in Nat
      BY <3>1
    <3>3. \A i \in DOMAIN callstack : callstack[i] # n
      BY <2>2 DEF Recursion
    <3>4. NoReentry'
      BY <3>2, <3>3 DEF Recursion, NoReentry, IsInjective
    <3>5. \A i \in DOMAIN callstack' : marked_'[callstack'[i]]
      BY <1>1, <3>2 DEF Recursion
    <3>6. \A k \in Node : pending'[k] # {} =>
            \E i \in DOMAIN callstack' : callstack'[i] = k
      <4> SUFFICES ASSUME NEW k \in Node, pending'[k] # {}
                   PROVE  \E i \in DOMAIN callstack' : callstack'[i] = k
        OBVIOUS
      <4>1. CASE k = n
        BY <3>2, <4>1
      <4>2. CASE k # n
        <5>1. pending[k] # {}
          BY <1>2, <4>2
        <5>2. PICK i \in DOMAIN callstack : callstack[i] = k
          BY <5>1 DEF Recursion
        <5> QED
          BY <3>2, <5>2
      <4> QED
        BY <4>1, <4>2
    <3> QED
      BY <2>0, <3>4, <3>5, <3>6 DEF Recursion
  <2> QED
    BY <2>1, <2>2
<1>7. Tricolour'
  <2>1. \A r \in roots' : marked_'[r] \/ r \in todo'
    BY <1>1 DEF Tricolour, Node
  <2>2. ASSUME NEW o \in Object, marked_'[o], NEW m \in succ'[o]
        PROVE  marked_'[m] \/ m \in pending'[o]
    <3>1. m \in Node /\ o \in Node
      BY DEF Node
    <3>2. CASE marked_[o]
      <4>1. marked_[m] \/ m \in pending[o]
        BY <3>2 DEF Tricolour
      <4>2. pending'[o] = rest[o] \/ pending'[o] = succ[o]
        BY <1>2, <3>1
      <4> QED
        BY <1>1, <3>1, <4>1, <4>2
    <3>3. CASE ~marked_[o]
      <4>1. o = n
        BY <1>1, <2>2, <3>1, <3>3
      <4>2. pending' = [rest EXCEPT ![n] = succ[n]]
        BY <3>3, <4>1 DEF MarkSuccessors
      <4> QED
        BY <3>1, <4>1, <4>2
    <3> QED
      BY <3>2, <3>3
  <2> QED
    BY <2>1, <2>2 DEF Tricolour
<1>8. Precise'
  BY <1>1, ReachUnchanged DEF Precise, Node
<1> QED
  BY <1>3, <1>4, <1>5, <1>6, <1>7, <1>8

LEMMA MarkRootStep ==
  ASSUME IInv, NEW r \in Object, MarkRoot(r)
  PROVE  Phases' /\ HeapClosed' /\ Marks' /\ Recursion' /\ Tricolour' /\ Precise'
<1>1. pc = "mark" /\ pc' = "mark" /\ r \in roots /\ UNCHANGED <<graph, unswept>>
  BY DEF MarkRoot, IInv, Phases
<1>2. r \in objects_
  BY <1>1 DEF IInv, HeapClosed, Survivors
<1>3. r \in Reach(roots)
  BY <1>1, ReachRoot DEF IInv, GraphTyped, Node
<1>4. pending \in [Node -> SUBSET Node] /\ r \in Node
  BY DEF IInv, GraphTyped, Node
<1>5. MarkSuccessors(r, pending) /\ todo' = todo \ {r}
  BY DEF MarkRoot
<1> QED
  BY <1>1, <1>2, <1>3, <1>4, <1>5, MarkStep

LEMMA FollowNextStep ==
  ASSUME IInv, NEW m \in Node, FollowNext(m)
  PROVE  Phases' /\ HeapClosed' /\ Marks' /\ Recursion' /\ Tricolour' /\ Precise'
<1> DEFINE n == callstack[Len(callstack)]
           rest == [pending EXCEPT ![n] = @ \ {m}]
<1>1. pc = "mark" /\ pc' = "mark" /\ todo' = todo /\ UNCHANGED <<graph, unswept>>
  BY DEF FollowNext
<1>2. n \in Node /\ Len(callstack) \in DOMAIN callstack
  BY DEF FollowNext, IInv, GraphTyped
<1>3. m \in pending[n] /\ MarkSuccessors(m, rest)
  BY DEF FollowNext
<1>4. m \in succ[n] /\ marked_[n]
  BY <1>2, <1>3 DEF IInv, Recursion
<1>5. rest \in [Node -> SUBSET Node]
  BY <1>2 DEF IInv, GraphTyped
<1>6. \A k \in Node : rest[k] = pending[k] \/ rest[k] = pending[k] \ {m}
  BY DEF IInv, GraphTyped
<1>7. m \in objects_ \/ m \in Static
  <2>1. CASE n \in Static
    BY <1>4, <2>1, StaticAssumption DEF IInv, HeapClosed
  <2>2. CASE n \in Object
    BY <1>1, <1>4, <2>2 DEF IInv, Marks, HeapClosed, Survivors
  <2> QED
    BY <1>2, <2>1, <2>2 DEF Node
<1>8. m \in Object => m \in Reach(roots)
  <2>1. CASE n \in Static
    BY <1>4, <2>1, StaticAssumption, DisjointAssumption DEF IInv, HeapClosed
  <2>2. CASE n \in Object
    BY <1>1, <1>4, <2>2, ReachSucc DEF IInv, Precise
  <2> QED
    BY <1>2, <2>1, <2>2 DEF Node
<1> HIDE DEF rest
<1> QED
  BY <1>1, <1>3, <1>5, <1>6, <1>7, <1>8, MarkStep

LEMMA FollowReturnStep ==
  ASSUME IInv, FollowReturn
  PROVE  Phases' /\ HeapClosed' /\ Marks' /\ Recursion' /\ Tricolour' /\ Precise'
<1> USE DEF IInv, GraphTyped, FollowReturn, graph
<1>1. pc = "mark" /\ pc' = "mark" /\ UNCHANGED <<graph, marked_, todo, pending, unswept>>
  OBVIOUS
<1>2. Phases' /\ Marks' /\ Tricolour'
  BY <1>1 DEF Phases, Marks, Tricolour
<1>3. HeapClosed'
  BY <1>1 DEF HeapClosed, Survivors
<1>4. Precise'
  BY <1>1, ReachUnchanged DEF Precise
<1>5. /\ Len(callstack) \in Nat \ {0}
      /\ DOMAIN callstack = 1..Len(callstack)
      /\ DOMAIN callstack' = 1..(Len(callstack) - 1)
      /\ \A i \in DOMAIN callstack' : callstack'[i] = callstack[i]
  OBVIOUS
<1>6. NoReentry'
  BY <1>5 DEF Recursion, NoReentry, IsInjective
<1>7. ASSUME NEW n \in Node, pending'[n] # {}
      PROVE  \E i \in DOMAIN callstack' : callstack'[i] = n
  <2>1. PICK i \in DOMAIN callstack : callstack[i] = n
    BY <1>1, <1>7 DEF Recursion
  <2>2. i # Len(callstack)
    BY <1>1, <1>7, <2>1
  <2>3. i \in DOMAIN callstack'
    BY <1>5, <2>2
  <2> QED
    BY <1>5, <2>1, <2>3
<1>8. Recursion'
  BY <1>1, <1>5, <1>6, <1>7 DEF Recursion
<1> QED
  BY <1>2, <1>3, <1>4, <1>8

(* The end of the mark: nothing is left to visit, so the marked objects    *)
(* are closed; they are what survives.                                     *)
LEMMA EndMarkStep ==
  ASSUME IInv, EndMark
  PROVE  Phases' /\ HeapClosed' /\ Marks' /\ Recursion' /\ Tricolour' /\ Precise'
<1> USE DEF IInv, GraphTyped
<1>1. /\ pc = "mark" /\ pc' = "sweep" /\ callstack = << >> /\ todo = {}
      /\ unswept' = objects_
      /\ UNCHANGED <<objects_, succ, roots, locals, marked_, todo, callstack, pending>>
  BY DEF EndMark, marking, Registry!BeginSweep
<1>2. Survivors = objects_ /\ Survivors' = {o \in objects_ : marked_[o]}
  BY <1>1 DEF Survivors
<1>3. Phases' /\ Marks' /\ Tricolour'
  BY <1>1 DEF Phases, Marks, Tricolour
<1>4. Recursion'
  BY <1>1 DEF Recursion, NoReentry, IsInjective
<1>5. \A n \in Node : pending[n] = {}
  BY <1>1 DEF Recursion
<1>6. roots' \subseteq Survivors' /\ locals' \subseteq Survivors'
  BY <1>1, <1>2 DEF Tricolour, HeapClosed, Phases
<1>7. ASSUME NEW o \in Survivors', NEW m \in succ'[o]
      PROVE  m \in Survivors' \cup Static
  <2>1. o \in objects_ /\ o \in Object /\ marked_[o] /\ m \in succ[o]
    BY <1>1, <1>2
  <2>2. m \in objects_ \cup Static
    BY <1>2, <2>1 DEF HeapClosed
  <2>3. marked_[m]
    BY <1>1, <1>5, <2>1 DEF Tricolour, Node
  <2> QED
    BY <1>2, <2>2, <2>3
<1>8. HeapClosed'
  BY <1>1, <1>6, <1>7 DEF HeapClosed
<1>9. Precise'
  <2>1. Survivors' \subseteq Reach(roots)
    BY <1>1, <1>2 DEF Precise
  <2> QED
    BY <1>1, <2>1, ReachUnchanged DEF Precise
<1> QED
  BY <1>3, <1>4, <1>8, <1>9

(* Deleting an object that does not survive changes neither the survivors  *)
(* nor what the frames reach among them.                                   *)
LEMMA SweepDeleteStep ==
  ASSUME IInv, NEW o \in Object, SweepDelete(o)
  PROVE  Phases' /\ HeapClosed' /\ Marks' /\ Recursion' /\ Tricolour' /\ Precise'
<1> USE DEF IInv, GraphTyped
<1>1. /\ pc = "sweep" /\ pc' = "sweep" /\ ~marked_[o] /\ o \in unswept
      /\ unswept' = unswept \ {o} /\ objects_' = objects_ \ {o}
      /\ succ' = [succ EXCEPT ![o] = {}]
      /\ UNCHANGED <<roots, locals, marked_, todo, callstack, pending>>
  BY DEF SweepDelete, marking, Registry!Erase
<1>2. Survivors' = Survivors /\ o \notin Survivors
  BY <1>1 DEF Survivors
<1>3. Phases' /\ Marks' /\ Tricolour'
  BY <1>1 DEF Phases, Marks, Tricolour
<1>4. callstack = << >>
  BY <1>1 DEF Phases
<1>5. Recursion'
  <2>1. \A n \in Node : pending[n] = {}
    BY <1>4 DEF Recursion
  <2> QED
    BY <1>1, <1>4, <2>1 DEF Recursion, NoReentry, IsInjective
<1>6. HeapClosed'
  <2>1. Survivors \subseteq Object
    BY DEF Survivors
  <2>2. \A n \in Node : n # o => succ'[n] = succ[n]
    BY <1>1
  <2>3. succ'[o] = {}
    BY <1>1 DEF Node
  <2>4. \A n \in Survivors : succ'[n] = succ[n]
    BY <1>2, <2>1, <2>2 DEF Node
  <2>5. \A n \in Static : succ'[n] = succ[n]
    BY <2>2, DisjointAssumption DEF Node
  <2>6. \A n \in Object \ objects_' : succ'[n] = {}
    BY <1>1, <2>2, <2>3 DEF HeapClosed, Node
  <2> QED
    BY <1>1, <1>2, <2>4, <2>5, <2>6 DEF HeapClosed
<1>7. Survivors \subseteq Reach(roots)'
  <2> SUFFICES ASSUME NEW x \in Survivors, NEW S \in SUBSET Node, roots \subseteq S,
                      \A n \in S : succ'[n] \subseteq S
               PROVE  x \in S
    BY <1>1 DEF Reach, Closed, Survivors, Node
  <2> DEFINE T == S \cap (Survivors \cup Static)
  <2>1. roots \subseteq T
    BY DEF HeapClosed
  <2>2. ASSUME NEW n \in T PROVE succ[n] \subseteq T
    <3>1. n # o
      BY <1>2, DisjointAssumption
    <3>2. succ[n] \subseteq S
      BY <1>1, <3>1
    <3>3. succ[n] \subseteq Survivors \cup Static
      BY StaticAssumption DEF HeapClosed
    <3> QED
      BY <3>2, <3>3
  <2>3. Reach(roots) \subseteq T
    BY <2>1, <2>2, ReachLeast DEF Closed
  <2> QED
    BY <1>1, <2>3 DEF Precise
<1>8. Precise'
  BY <1>1, <1>2, <1>7 DEF Precise
<1> QED
  BY <1>3, <1>5, <1>6, <1>8

LEMMA SweepUnmarkStep ==
  ASSUME IInv, NEW o \in Object, SweepUnmark(o)
  PROVE  Phases' /\ HeapClosed' /\ Marks' /\ Recursion' /\ Tricolour' /\ Precise'
<1> USE DEF IInv, GraphTyped
<1>1. /\ pc = "sweep" /\ pc' = "sweep" /\ marked_[o] /\ o \in unswept
      /\ unswept' = unswept \ {o} /\ marked_' = [marked_ EXCEPT ![o] = FALSE]
      /\ UNCHANGED <<objects_, succ, roots, locals, todo, callstack, pending>>
  BY DEF SweepUnmark, marking, Registry!Advance
<1>2. Survivors' = Survivors
  BY <1>1 DEF Survivors, Phases, Node
<1>3. Phases' /\ Tricolour'
  BY <1>1 DEF Phases, Tricolour
<1>4. Marks'
  BY <1>1 DEF Marks, Node
<1>5. Recursion'
  BY <1>1 DEF Recursion, Phases, NoReentry, IsInjective
<1>6. HeapClosed'
  BY <1>1, <1>2 DEF HeapClosed
<1>7. Precise'
  BY <1>1, <1>2, ReachUnchanged DEF Precise
<1> QED
  BY <1>3, <1>4, <1>5, <1>6, <1>7

(* Entering a collection, or finding the heap not full, and leaving it.    *)
LEMMA EnterStep ==
  ASSUME IInv, GarbageCollect
  PROVE  Phases' /\ HeapClosed' /\ Marks' /\ Recursion' /\ Tricolour' /\ Precise'
<1> USE DEF IInv, GraphTyped, GarbageCollect, graph
<1>1. Phases' /\ HeapClosed' /\ Marks' /\ Precise'
  BY DEF Phases, HeapClosed, Survivors, Marks, Precise
<1>2. Recursion' /\ Tricolour'
  BY DEF Recursion, NoReentry, IsInjective, Tricolour, Marks
<1> QED
  BY <1>1, <1>2

LEMMA EndSweepStep ==
  ASSUME IInv, EndSweep
  PROVE  Phases' /\ HeapClosed' /\ Marks' /\ Recursion' /\ Tricolour' /\ Precise'
<1> USE DEF IInv, GraphTyped, EndSweep, graph, marking
<1>1. Phases' /\ HeapClosed' /\ Marks' /\ Precise'
  BY DEF Phases, HeapClosed, Survivors, Marks, Precise
<1>2. Recursion' /\ Tricolour'
  BY DEF Recursion, NoReentry, IsInjective, Tricolour
<1> QED
  BY <1>1, <1>2

LEMMA StutterStep ==
  ASSUME IInv, UNCHANGED vars
  PROVE  Phases' /\ HeapClosed' /\ Marks' /\ Recursion' /\ Tricolour' /\ Precise'
<1> USE DEF IInv, vars, graph, marking
<1>1. Phases' /\ HeapClosed' /\ Marks' /\ Tricolour'
  BY DEF Phases, HeapClosed, Survivors, Marks, Tricolour
<1>2. Recursion'
  BY DEF Recursion, NoReentry, IsInjective
<1>3. Precise'
  BY ReachUnchanged DEF Precise, Survivors
<1> QED
  BY <1>1, <1>2, <1>3

LEMMA InvStep == IInv /\ [Next]_vars => IInv'
<1> SUFFICES ASSUME IInv, [Next]_vars PROVE IInv'
  OBVIOUS
<1>1. GraphTyped'
  BY TypeStep DEF IInv
<1>2. Phases' /\ HeapClosed' /\ Marks' /\ Recursion' /\ Tricolour' /\ Precise'
  BY ProgramStep, EnterStep, MarkRootStep, FollowNextStep, FollowReturnStep,
     EndMarkStep, SweepDeleteStep, SweepUnmarkStep, EndSweepStep, StutterStep
  DEF Next, GcStep
<1> QED
  BY <1>1, <1>2 DEF IInv

(* What the collector relies on from one step to the next holds at every   *)
(* step: survivors point to survivors only, marks lie where the phase and  *)
(* the follow() calls in progress put them, a marked object's successors   *)
(* are marked or still to visit (gc.h:355-393).                            *)
THEOREM Invariance == Spec => []IInv
  BY InvInit, InvStep, PTL DEF Spec

-----------------------------------------------------------------------------
(* The heap is memory safe whatever the program does with it: for every    *)
(* number of objects and every shape of the graph, what the frames and the *)
(* C++ locals lead to exists, also while a collection is under way.        *)
THEOREM NoDanglingCorrect == Spec => []NoDangling
<1>1. IInv => NoDangling
  <2> SUFFICES ASSUME IInv PROVE NoDangling
    OBVIOUS
  <2> USE DEF IInv, GraphTyped
  <2>1. Survivors \subseteq objects_ /\ Survivors \cup Static \subseteq Node
    BY DEF Survivors, Node
  <2>2. roots \cup locals \subseteq Survivors \cup Static
    BY DEF HeapClosed
  <2>3. Closed(Survivors \cup Static)
    BY StaticAssumption DEF Closed, HeapClosed
  <2>4. Reach(roots \cup locals) \subseteq Survivors \cup Static
    BY <2>1, <2>2, <2>3, ReachLeast
  <2> QED
    BY <2>1, <2>4 DEF NoDangling
<1> QED
  BY Invariance, <1>1, PTL

(* A collection keeps exactly the objects the frames reach: it loses none  *)
(* and every garbage object, in a cycle or not, goes.                      *)
THEOREM SweepExactCorrect == Spec => []SweepExact
<1>1. IInv => SweepExact
  <2> SUFFICES ASSUME IInv, pc = "sweep" PROVE Survivors = Reach(roots) \cap Object
    BY DEF SweepExact
  <2> USE DEF IInv, GraphTyped
  <2>1. Survivors \subseteq Object /\ Survivors \cup Static \subseteq Node
    BY DEF Survivors, Node
  <2>2. roots \subseteq Survivors \cup Static
    BY DEF HeapClosed
  <2>3. Closed(Survivors \cup Static)
    BY StaticAssumption DEF Closed, HeapClosed
  <2>4. Reach(roots) \subseteq Survivors \cup Static
    BY <2>1, <2>2, <2>3, ReachLeast
  <2> QED
    BY <2>1, <2>4, DisjointAssumption DEF Precise
<1> QED
  BY Invariance, <1>1, PTL

(* No mark survives a collection.                                          *)
THEOREM MarksClearedCorrect == Spec => []MarksCleared
<1>1. IInv => MarksCleared
  BY DEF IInv, GraphTyped, Marks, MarksCleared
<1> QED
  BY Invariance, <1>1, PTL

(* The recursion of markSuccessors never re-enters a follow().             *)
THEOREM NoReentryCorrect == Spec => []NoReentry
<1>1. IInv => NoReentry
  BY DEF IInv, Recursion
<1> QED
  BY Invariance, <1>1, PTL

-----------------------------------------------------------------------------
(* The collector implements AbstractHeap.                                  *)

(* The graph as the abstract specification sees it.                        *)
Points == [n \in Node |-> IF n \in Doomed THEN {} ELSE succ[n]]

LEMMA NoneDoomed ==
  ASSUME GraphTyped, pc # "sweep"
  PROVE  Survivors = objects_ /\ Points = succ
  BY DEF Survivors, Points, Doomed, GraphTyped

LEMMA AbstractInit == Init => Abstract!Init
<1> SUFFICES ASSUME Init PROVE Abstract!Init
  OBVIOUS
<1>1. Survivors = {} /\ Points = succ
  BY TypeInit, NoneDoomed DEF Init, Registry!Init
<1> QED
  BY <1>1 DEF Init, Abstract!Init, Abstract!Node, Node, Points

LEMMA AbstractProgram ==
  ASSUME IInv, IInv', Program
  PROVE  Abstract!Next \/ UNCHANGED <<Survivors, Points, roots, locals>>
<1>1. pc = "run" /\ pc' \in {"run", "fetch"}
  BY DEF Program, Allocate, Load, Store, Clear, AddGlobal, PushFrame,
     PopFrame, EndInstruction
<1>2. Survivors = objects_ /\ Points = succ
  BY <1>1, NoneDoomed DEF IInv
<1>3. Survivors' = objects_' /\ Points' = succ'
  BY <1>1 DEF Survivors, Points, Doomed, IInv, GraphTyped
<1> USE <1>2, <1>3 DEF Points, Abstract!Held, Held, Abstract!Node, Node
<1>4. ASSUME NEW o \in Object, NEW b \in 0..MaxTracked, Allocate(o, b) PROVE Abstract!New(o)
  BY <1>4 DEF Allocate, Registry!Register, Abstract!New
<1>5. ASSUME NEW n \in Held, NEW m \in Object, Load(n, m) PROVE Abstract!Read(n, m)
  BY <1>5 DEF Load, Abstract!Read
<1>6. ASSUME NEW n \in locals \cup roots, NEW m \in Held, NEW b \in 0..MaxTracked,
             Store(n, m, b)
      PROVE  Abstract!Link(n, m)
  BY <1>6 DEF Store, Abstract!Link
<1>7. ASSUME NEW n \in locals \cup roots, NEW m \in Node, Clear(n, m)
      PROVE  Abstract!Unlink(n, m)
  BY <1>7 DEF Clear, Abstract!Unlink
<1>8. ASSUME NEW f \in locals, PushFrame(f) PROVE Abstract!Push(f)
  BY <1>8 DEF PushFrame, Abstract!Push
<1>9. ASSUME NEW f \in roots, PopFrame(f) PROVE Abstract!Pop(f)
  BY <1>9 DEF PopFrame, Abstract!Pop
<1>10. ASSUME EndInstruction PROVE Abstract!Finish
  BY <1>10 DEF EndInstruction, Abstract!Finish
<1>11. ASSUME NEW b \in 1..MaxTracked, AddGlobal(b)
       PROVE  UNCHANGED <<Survivors, Points, roots, locals>>
  BY <1>11 DEF AddGlobal, graph
<1> QED
  BY <1>4, <1>5, <1>6, <1>7, <1>8, <1>9, <1>10, <1>11 DEF Program, Abstract!Next

LEMMA AbstractCollect ==
  ASSUME IInv, IInv', EndMark
  PROVE  Abstract!Collect
<1>1. /\ pc = "mark" /\ pc' = "sweep" /\ unswept' = objects_
      /\ UNCHANGED <<objects_, succ, roots, locals, marked_>>
  BY DEF EndMark, Registry!BeginSweep
<1>2. Survivors = objects_ /\ Points = succ /\ locals = {}
  BY <1>1, NoneDoomed DEF IInv, Phases
<1>3. Survivors' \subseteq objects_
  BY <1>1 DEF Survivors
<1>4. Abstract!Reach(roots) = Reach(roots)
  BY <1>2 DEF Points, Abstract!Reach, Abstract!Closed, Abstract!Node, Reach, Closed, Node
<1>5. Survivors' = objects_ \cap Reach(roots)
  <2>1. Survivors' \subseteq Reach(roots)
    BY <1>1, ReachUnchanged DEF IInv, Precise
  <2>2. Closed(Survivors' \cup Static)
    BY <1>1, StaticAssumption DEF IInv, HeapClosed, Closed
  <2>3. Survivors' \cup Static \in SUBSET Node /\ roots \subseteq Survivors' \cup Static
    BY <1>1 DEF IInv, GraphTyped, HeapClosed, Survivors, Node
  <2>4. Reach(roots) \subseteq Survivors' \cup Static
    BY <2>2, <2>3, ReachLeast
  <2> QED
    BY <1>3, <2>1, <2>4, DisjointAssumption DEF IInv, GraphTyped
<1>6. Points' = [n \in Node |-> IF n \in objects_ \ Reach(roots) THEN {} ELSE Points[n]]
  <2>1. Doomed' = objects_ \ Reach(roots)
    BY <1>1, <1>5 DEF Doomed
  <2> QED
    BY <1>1, <1>2, <2>1 DEF Points
<1> QED
  BY <1>1, <1>2, <1>4, <1>5, <1>6 DEF Abstract!Collect, Points, Abstract!Node, Node

LEMMA AbstractStutter ==
  ASSUME IInv, IInv', [Next]_vars, ~Program, ~EndMark
  PROVE  UNCHANGED <<Survivors, Points, roots, locals>>
<1> USE DEF IInv, GraphTyped
<1>1. ASSUME NEW o \in Object, SweepDelete(o)
      PROVE  UNCHANGED <<Survivors, Points, roots, locals>>
  <2>1. /\ pc = "sweep" /\ pc' = "sweep" /\ ~marked_[o] /\ o \in unswept
        /\ unswept' = unswept \ {o} /\ objects_' = objects_ \ {o}
        /\ succ' = [succ EXCEPT ![o] = {}]
        /\ UNCHANGED <<roots, locals, marked_>>
    BY <1>1 DEF SweepDelete, Registry!Erase
  <2>2. Survivors' = Survivors /\ o \in Doomed /\ Doomed' = Doomed \ {o}
    BY <2>1 DEF Survivors, Doomed, Phases
  <2>3. \A n \in Node : (IF n \in Doomed' THEN {} ELSE succ'[n])
                      = (IF n \in Doomed THEN {} ELSE succ[n])
    BY <2>1, <2>2
  <2> QED
    BY <2>1, <2>2, <2>3 DEF Points
<1>2. ASSUME NEW o \in Object, SweepUnmark(o)
      PROVE  UNCHANGED <<Survivors, Points, roots, locals>>
  <2>1. /\ pc = "sweep" /\ pc' = "sweep" /\ marked_[o] /\ o \in unswept
        /\ unswept' = unswept \ {o} /\ marked_' = [marked_ EXCEPT ![o] = FALSE]
        /\ UNCHANGED <<objects_, succ, roots, locals>>
    BY <1>2 DEF SweepUnmark, Registry!Advance
  <2>2. Survivors' = Survivors
    BY <2>1 DEF Survivors, Phases, Node
  <2> QED
    BY <2>1, <2>2 DEF Points, Doomed
<1>3. CASE EndSweep
  <2>1. /\ pc = "sweep" /\ pc' = "run" /\ unswept = {}
        /\ UNCHANGED <<objects_, succ, roots, locals>>
    BY <1>3 DEF EndSweep, graph
  <2> QED
    BY <2>1 DEF Survivors, Points, Doomed
<1>4. ASSUME \/ GarbageCollect
             \/ \E r \in Object : MarkRoot(r)
             \/ \E m \in Node : FollowNext(m)
             \/ FollowReturn
      PROVE  UNCHANGED <<Survivors, Points, roots, locals>>
  <2>1. pc # "sweep" /\ pc' # "sweep" /\ UNCHANGED <<objects_, succ, roots, locals>>
    BY <1>4 DEF GarbageCollect, MarkRoot, FollowNext, FollowReturn, graph
  <2> QED
    BY <2>1 DEF Survivors, Points, Doomed
<1>5. ASSUME UNCHANGED vars
      PROVE  UNCHANGED <<Survivors, Points, roots, locals>>
  BY <1>5 DEF vars, graph, Survivors, Points, Doomed
<1> QED
  BY <1>1, <1>2, <1>3, <1>4, <1>5 DEF Next, GcStep

(* The recursive mark and the list-erasing sweep implement the collector   *)
(* that removes all garbage in one step.                                   *)
THEOREM CollectorCorrect == Spec => Collector
<1>1. IInv /\ IInv' /\ [Next]_vars => [Abstract!Next]_(Abstract!vars)
  <2> SUFFICES ASSUME IInv, IInv', [Next]_vars
               PROVE  Abstract!Next \/ UNCHANGED Abstract!vars
    OBVIOUS
  <2>1. CASE Program
    BY <2>1, AbstractProgram DEF Abstract!vars, Points
  <2>2. CASE EndMark
    BY <2>2, AbstractCollect DEF Abstract!Next
  <2>3. CASE ~Program /\ ~EndMark
    BY <2>3, AbstractStutter DEF Abstract!vars, Points
  <2> QED
    BY <2>1, <2>2, <2>3
<1> QED
  BY AbstractInit, Invariance, <1>1, PTL DEF Spec, Collector, Abstract!Spec
=============================================================================
