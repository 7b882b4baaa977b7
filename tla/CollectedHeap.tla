---------------------------- MODULE CollectedHeap ----------------------------
(***************************************************************************)
(* The mark-and-sweep collector of gc/gc.h, run step by step, and the      *)
(* program that uses it: the virtual machine between and inside its        *)
(* instructions (vm/src/interpreter.cpp).                                  *)
(*                                                                         *)
(* The machine holds pointers in C++ locals while an instruction runs; it  *)
(* calls garbageCollect() before it fetches the next one, when only        *)
(* stack_frames_ roots the graph. Some collectables are never registered   *)
(* with the heap: Functions, the constants inside them, none_, true_,      *)
(* false_ and the native functions are made with plain `new`. Their mark   *)
(* is set by the first collection and never cleared, so later collections  *)
(* do not follow them again; that is sound because they never point to a   *)
(* registered object (StaticSucc).                                         *)
(*                                                                         *)
(* The order in which follow() visits pointers and the order of the        *)
(* rootset are left open. The list of registered objects is ObjectRegistry,*)
(* which leaves the order of the sweep open too; HeapList implements it.   *)
(***************************************************************************)
EXTENDS Integers, Sequences, FiniteSets, Functions, FiniteSetsExt

CONSTANTS
  Object,        \* the addresses `new T` hands out; reused after a delete
  Static,        \* collectables made with plain `new`, never registered
  StaticSucc,    \* what follow() of a static collectable visits
  BaseSize,      \* base_size_bytes_ of an object
  MaxTracked,    \* bound: bytes its containers and field names may add to it,
                 \* and names looked up at run time to global_indices_
  HeapSize,      \* sizeof(CollectedHeap), the memory in use before any object
  MachineSize,   \* what executeProgram charges for the machine itself
  PointerSize,   \* what one place in stack_frames_ costs
  MemoryLimits   \* the values -mem may give max_memory_bytes_

Node == Object \cup Static

ASSUME DisjointAssumption == Object \cap Static = {}
ASSUME StaticAssumption == StaticSucc \in [Static -> SUBSET Static]
ASSUME SizeAssumption ==
  /\ BaseSize \in Nat
  /\ MaxTracked \in Nat
  /\ HeapSize \in Nat
  /\ MachineSize \in Nat
  /\ PointerSize \in Nat
  /\ MemoryLimits \subseteq Nat

VARIABLES
  objects_,              \* the registered objects
  marked_,               \* the mark of every collectable
  succ,                  \* succ[n]: the collectables n.follow() visits
  roots,                 \* the frames on stack_frames_
  locals,                \* objects the running instruction holds in C++ locals
  pc,                    \* "run" an instruction, "fetch", "mark" or "sweep"
  todo,                  \* mark: the roots the loop has not reached
  callstack,             \* mark: the follow() calls in progress, innermost last
  pending,               \* mark: pending[n], what n.follow() still has to visit
  unswept,               \* sweep: the objects the iterator has not passed
  current_memory_bytes_,
  max_memory_bytes_,
  tracked,               \* tracked[o]: bytes its containers added with addMemory
  machine,               \* the interpreter, its maps and the names in them
  capacity               \* of stack_frames_, which is a TrackingVector

graph == <<objects_, succ, roots, locals>>
marking == <<todo, callstack, pending>>
memory == <<current_memory_bytes_, max_memory_bytes_, tracked, machine, capacity>>
vars == <<graph, marked_, pc, marking, unswept, memory>>

Registry == INSTANCE ObjectRegistry WITH
  registered <- objects_, unvisited <- unswept

GraphTyped ==
  /\ objects_ \subseteq Object
  /\ marked_ \in [Node -> BOOLEAN]
  /\ succ \in [Node -> SUBSET Node]
  /\ roots \subseteq Object
  /\ locals \subseteq Object
  /\ pc \in {"run", "fetch", "mark", "sweep"}
  /\ todo \subseteq Object
  /\ callstack \in Seq(Node)
  /\ pending \in [Node -> SUBSET Node]
  /\ unswept \subseteq Object

(* current_memory_bytes_ is a size_t: below zero it would wrap.            *)
TypeOK ==
  /\ GraphTyped
  /\ current_memory_bytes_ \in Nat
  /\ max_memory_bytes_ \in MemoryLimits
  /\ tracked \in [Object -> 0..MaxTracked]
  /\ machine \in MachineSize..(MachineSize + MaxTracked)
  /\ capacity \in Nat

-----------------------------------------------------------------------------
(* executeProgram before it allocates the global frame, with all it will   *)
(* charge before a collection can run: sizeof(Interpreter), the nodes of   *)
(* global_indices_ and native_functions_, the names of the globals. gctest *)
(* has no machine, and a rootset the heap is not charged for: MachineSize  *)
(* and PointerSize are 0 there. Both root objects before any collection.   *)
Init ==
  /\ Registry!Init
  /\ marked_ = [n \in Node |-> FALSE]
  /\ succ = [n \in Node |-> IF n \in Static THEN StaticSucc[n] ELSE {}]
  /\ roots = {}
  /\ locals = {}
  /\ pc = "run"
  /\ todo = {}
  /\ callstack = << >>
  /\ pending = [n \in Node |-> {}]
  /\ current_memory_bytes_ = HeapSize + MachineSize
  /\ max_memory_bytes_ \in MemoryLimits
  /\ tracked = [o \in Object |-> 0]
  /\ machine = MachineSize
  /\ capacity = 0

(* Everything an instruction can name without reading a pointer.           *)
Held == locals \cup roots \cup Static

-----------------------------------------------------------------------------
(* The program: the steps an instruction is made of.                       *)

(* Mutant of Allocate: the mark of a new object is not initialised, and    *)
(* happens to be set.                                                      *)
AllocateMarked(o, b) ==
  /\ pc = "run"
  /\ Registry!Register(o)
  /\ marked_' = [marked_ EXCEPT ![o] = TRUE]
  /\ locals' = locals \cup {o}
  /\ tracked' = [tracked EXCEPT ![o] = b]
  /\ current_memory_bytes_' = current_memory_bytes_ + BaseSize + b
  /\ UNCHANGED <<succ, roots, pc, marking, max_memory_bytes_, machine, capacity>>

(* allocate<T>: construct, register, charge the base size; the operand     *)
(* stack of a Frame reserves its first b bytes.                            *)
Allocate(o, b) ==
  /\ pc = "run"
  /\ Registry!Register(o)
  /\ marked_' = [marked_ EXCEPT ![o] = FALSE]
  /\ locals' = locals \cup {o}
  /\ tracked' = [tracked EXCEPT ![o] = b]
  /\ current_memory_bytes_' = current_memory_bytes_ + BaseSize + b
  /\ UNCHANGED <<succ, roots, pc, marking, max_memory_bytes_, machine, capacity>>

(* Reading a pointer out of a frame, record, reference or closure.         *)
Load(n, m) ==
  /\ pc = "run"
  /\ m \in succ[n]
  /\ locals' = locals \cup {m}
  /\ UNCHANGED <<objects_, succ, roots, marked_, pc, marking, unswept, memory>>

(* Writing a pointer into an object; its vector or map may grow by b bytes.*)
Store(n, m, b) ==
  /\ pc = "run"
  /\ tracked[n] + b <= MaxTracked
  /\ succ' = [succ EXCEPT ![n] = @ \cup {m}]
  /\ tracked' = [tracked EXCEPT ![n] = @ + b]
  /\ current_memory_bytes_' = current_memory_bytes_ + b
  /\ UNCHANGED <<objects_, roots, locals, marked_, pc, marking, unswept,
                 max_memory_bytes_, machine, capacity>>

(* load_global and store_global of a name main does not have: operator[]   *)
(* adds a node of b bytes to global_indices_.                              *)
AddGlobal(b) ==
  /\ pc = "run"
  /\ machine + b <= MachineSize + MaxTracked
  /\ machine' = machine + b
  /\ current_memory_bytes_' = current_memory_bytes_ + b
  /\ UNCHANGED <<graph, marked_, pc, marking, unswept, max_memory_bytes_,
                 tracked, capacity>>

(* Popping an operand or overwriting a variable or a field.                *)
Clear(n, m) ==
  /\ pc = "run"
  /\ m \in succ[n]
  /\ succ' = [succ EXCEPT ![n] = @ \ {m}]
  /\ UNCHANGED <<objects_, roots, locals, marked_, pc, marking, unswept, memory>>

(* push_back of a vector that is full makes it twice as large, and one     *)
(* that has no place yet gets its first.                                   *)
Grown == IF Cardinality(roots) < capacity THEN capacity
         ELSE IF capacity = 0 THEN 1 ELSE 2 * capacity

(* Mutant of PushFrame: the heap is charged for the new storage, but not   *)
(* given back what the old one cost.                                       *)
PushFrameKeepsOld(f) ==
  /\ pc = "run"
  /\ f \notin roots
  /\ roots' = roots \cup {f}
  /\ capacity' = Grown
  /\ current_memory_bytes_' =
       current_memory_bytes_ + (IF Grown = capacity THEN 0 ELSE PointerSize * Grown)
  /\ UNCHANGED <<objects_, succ, locals, marked_, pc, marking, unswept,
                 max_memory_bytes_, tracked, machine>>

(* stack_frames_.push_back and pop_back, of the global frame and in call().*)
(* Each call pushes a frame of its own.                                    *)
PushFrame(f) ==
  /\ pc = "run"
  /\ f \notin roots
  /\ roots' = roots \cup {f}
  /\ capacity' = Grown
  /\ current_memory_bytes_' = current_memory_bytes_ + PointerSize * (Grown - capacity)
  /\ UNCHANGED <<objects_, succ, locals, marked_, pc, marking, unswept,
                 max_memory_bytes_, tracked, machine>>

PopFrame(f) ==
  /\ pc = "run"
  /\ roots' = roots \ {f}
  /\ UNCHANGED <<objects_, succ, locals, marked_, pc, marking, unswept, memory>>

(* The instruction is over: no C++ local is used past this point.          *)
EndInstruction ==
  /\ pc = "run"
  /\ locals' = {}
  /\ pc' = "fetch"
  /\ UNCHANGED <<objects_, succ, roots, marked_, marking, unswept, memory>>

Program ==
  \/ \E o \in Object, b \in 0..MaxTracked : Allocate(o, b)
  \/ \E n \in Held, m \in Object : Load(n, m)
  \/ \E n \in (locals \cup roots), m \in Held, b \in 0..MaxTracked : Store(n, m, b)
  \/ \E b \in 1..MaxTracked : AddGlobal(b)
  \/ \E n \in (locals \cup roots), m \in Node : Clear(n, m)
  \/ \E f \in locals : PushFrame(f)
  \/ \E f \in roots : PopFrame(f)
  \/ EndInstruction

-----------------------------------------------------------------------------
(* The collector.                                                          *)

isFull == 10 * current_memory_bytes_ >= 6 * max_memory_bytes_

(* Mutant of GarbageCollect: collect as soon as the heap is full, also in  *)
(* the middle of an instruction.                                           *)
GarbageCollectAnywhere ==
  /\ pc \in {"run", "fetch"}
  /\ IF isFull THEN pc' = "mark" /\ todo' = roots
               ELSE pc' = "run" /\ UNCHANGED todo
  /\ UNCHANGED <<graph, marked_, callstack, pending, unswept, memory>>

(* garbageCollect(), the first thing executeInstruction does.              *)
GarbageCollect ==
  /\ pc = "fetch"
  /\ IF isFull THEN pc' = "mark" /\ todo' = roots
               ELSE pc' = "run" /\ UNCHANGED todo
  /\ UNCHANGED <<graph, marked_, callstack, pending, unswept, memory>>

(* Mutants of MarkSuccessors: it marks but does not follow; it follows but *)
(* never marks.                                                            *)
MarkWithoutFollow(n, rest) ==
  /\ marked_' = [marked_ EXCEPT ![n] = TRUE]
  /\ pending' = rest
  /\ UNCHANGED callstack

FollowWithoutMark(n, rest) ==
  IF marked_[n]
  THEN /\ pending' = rest
       /\ UNCHANGED <<marked_, callstack>>
  ELSE /\ callstack' = Append(callstack, n)
       /\ pending' = [rest EXCEPT ![n] = succ[n]]
       /\ UNCHANGED marked_

(* markSuccessors(n), called with `rest` still pending: returns at once on *)
(* a marked collectable, otherwise marks it and enters its follow().       *)
MarkSuccessors(n, rest) ==
  IF marked_[n]
  THEN /\ pending' = rest
       /\ UNCHANGED <<marked_, callstack>>
  ELSE /\ marked_' = [marked_ EXCEPT ![n] = TRUE]
       /\ callstack' = Append(callstack, n)
       /\ pending' = [rest EXCEPT ![n] = succ[n]]

(* Mutant of MarkRoot: the iterator over the rootset is not advanced.      *)
MarkRootAgain(r) ==
  /\ pc = "mark"
  /\ callstack = << >>
  /\ r \in todo
  /\ MarkSuccessors(r, pending)
  /\ UNCHANGED <<graph, todo, pc, unswept, memory>>

(* One turn of the loop over the rootset.                                  *)
MarkRoot(r) ==
  /\ pc = "mark"
  /\ callstack = << >>
  /\ r \in todo
  /\ todo' = todo \ {r}
  /\ MarkSuccessors(r, pending)
  /\ UNCHANGED <<graph, pc, unswept, memory>>

(* The innermost follow() hands its next pointer to markSuccessors.        *)
FollowNext(m) ==
  /\ pc = "mark"
  /\ callstack # << >>
  /\ LET n == callstack[Len(callstack)]
     IN  /\ m \in pending[n]
         /\ MarkSuccessors(m, [pending EXCEPT ![n] = @ \ {m}])
  /\ UNCHANGED <<graph, pc, todo, unswept, memory>>

(* The innermost follow() has visited everything and returns.              *)
FollowReturn ==
  /\ pc = "mark"
  /\ callstack # << >>
  /\ pending[callstack[Len(callstack)]] = {}
  /\ callstack' = SubSeq(callstack, 1, Len(callstack) - 1)
  /\ UNCHANGED <<graph, marked_, pc, todo, pending, unswept, memory>>

(* The loop over the rootset ends and the sweep begins.                    *)
EndMark ==
  /\ pc = "mark"
  /\ callstack = << >>
  /\ todo = {}
  /\ pc' = "sweep"
  /\ Registry!BeginSweep
  /\ UNCHANGED <<succ, roots, locals, marked_, marking, memory>>

(* Mutant of SweepDelete: what the containers had charged is given back    *)
(* twice, by the destructor and with the base size.                        *)
SweepDeleteTwice(o) ==
  /\ pc = "sweep"
  /\ ~marked_[o]
  /\ Registry!Erase(o)
  /\ succ' = [succ EXCEPT ![o] = {}]
  /\ current_memory_bytes_' = current_memory_bytes_ - BaseSize - 2 * tracked[o]
  /\ tracked' = [tracked EXCEPT ![o] = 0]
  /\ UNCHANGED <<roots, locals, marked_, pc, marking, max_memory_bytes_, machine,
                 capacity>>

(* The iterator stands on an unmarked object: uncharge it, unlink it and   *)
(* delete it; its destructor gives back what its containers had charged.   *)
SweepDelete(o) ==
  /\ pc = "sweep"
  /\ ~marked_[o]
  /\ Registry!Erase(o)
  /\ succ' = [succ EXCEPT ![o] = {}]
  /\ current_memory_bytes_' = current_memory_bytes_ - BaseSize - tracked[o]
  /\ tracked' = [tracked EXCEPT ![o] = 0]
  /\ UNCHANGED <<roots, locals, marked_, pc, marking, max_memory_bytes_, machine,
                 capacity>>

(* Mutant of SweepUnmark: the mark is not cleared.                         *)
SweepKeepsMark(o) ==
  /\ pc = "sweep"
  /\ marked_[o]
  /\ Registry!Advance(o)
  /\ UNCHANGED <<graph, marked_, pc, marking, memory>>

(* The iterator stands on a marked object: clear the mark for next time.   *)
SweepUnmark(o) ==
  /\ pc = "sweep"
  /\ marked_[o]
  /\ Registry!Advance(o)
  /\ marked_' = [marked_ EXCEPT ![o] = FALSE]
  /\ UNCHANGED <<succ, roots, locals, pc, marking, memory>>

EndSweep ==
  /\ pc = "sweep"
  /\ unswept = {}
  /\ pc' = "run"
  /\ UNCHANGED <<graph, marked_, marking, unswept, memory>>

GcStep ==
  \/ GarbageCollect
  \/ \E r \in Object : MarkRoot(r)
  \/ \E m \in Node : FollowNext(m)
  \/ FollowReturn
  \/ EndMark
  \/ \E o \in Object : SweepDelete(o)
  \/ \E o \in Object : SweepUnmark(o)
  \/ EndSweep

Next == Program \/ GcStep

Spec == Init /\ [][Next]_vars

(* gc() is an ordinary call: once entered it runs to its end. The program  *)
(* is not assumed to do anything.                                          *)
FairSpec == Spec /\ WF_vars(GcStep)

-----------------------------------------------------------------------------
(* Properties.                                                             *)

Closed(S) == \A n \in S : succ[n] \subseteq S

(* What can be reached from R: the least closed set that contains it.      *)
Reach(R) ==
  LET closed == {S \in SUBSET Node : R \subseteq S /\ Closed(S)}
  IN  {n \in Node : \A S \in closed : n \in S}

(* The objects that will exist when the sweep is over.                     *)
Survivors ==
  IF pc = "sweep" THEN {o \in objects_ : o \in unswept => marked_[o]}
                  ELSE objects_

(* No pointer dangles: whatever the frames or the C++ locals of the        *)
(* running instruction lead to is registered or static, in the middle of a *)
(* mark, of a sweep or of an instruction. A collector that misses a        *)
(* successor, a root, or runs while a local still holds the only pointer   *)
(* to a new object breaks it (gc.h:355-393, interpreter.cpp:460-472).      *)
NoDangling == Reach(roots \cup locals) \subseteq objects_ \cup Static

(* When marking is over, the objects that survive are exactly those the    *)
(* frames reach: none is lost and no garbage, cyclic or not, is kept.      *)
(* Static collectables that kept their mark from an earlier collection are *)
(* not followed again and this must not lose anything (gc.h:376-392).      *)
SweepExact == pc = "sweep" => Survivors = Reach(roots) \cap Object

(* Between collections no registered object carries a mark; the next       *)
(* collection would take it for visited and free what only it reaches.     *)
(* gc/main.cpp:93-97 looks for such an object at the end of its test.      *)
MarksCleared == pc \in {"run", "fetch"} => \A o \in objects_ : ~marked_[o]

(* follow() is never entered twice for one collectable in a collection, so *)
(* that cycles in the graph cannot make the recursion of markSuccessors    *)
(* endless; its depth is at most the number of collectables (gc.h:355-359).*)
NoReentry == IsInjective(callstack)

(* What the objects of S cost when `charged` was added to each one's size. *)
Account(charged, S) == MapThenSumSet(LAMBDA o : BaseSize + charged[o], S)

(* The heap's account is at every moment what there is to pay for: itself, *)
(* the machine and its globals, the storage of stack_frames_, which never  *)
(* shrinks, and the registered objects. Every addMemory of an allocation,  *)
(* of a tracked container and of a field name is undone once, when the     *)
(* object dies, so that isFull() keeps meaning what -mem asked for         *)
(* (gc.h:53-63, 327, 384; types.h:247, 274-279; interpreter.cpp:142,       *)
(* 386-408).                                                               *)
MemoryBalanced ==
  current_memory_bytes_ =
    HeapSize + machine + PointerSize * capacity + Account(tracked, objects_)

(* The collector is the atomic one of AbstractHeap: objects the sweep will *)
(* delete are already gone for the program.                                *)
Doomed == objects_ \ Survivors

Abstract == INSTANCE AbstractHeap WITH
  live <- Survivors,
  points <- [n \in Node |-> IF n \in Doomed THEN {} ELSE succ[n]]

(* Every step of the mark and of the sweep is a stutter of AbstractHeap    *)
(* but one, the end of the mark, which is its Collect; every step of the   *)
(* program is the abstract step of its kind.                               *)
Collector == Abstract!Spec

(* A collection that begins ends, whatever the shape of the graph.         *)
CollectionEnds == (pc = "mark") ~> (pc = "run")

(* An object that is garbage when a collection begins is freed by it.      *)
GarbageFreed ==
  \A o \in Object :
    (pc = "mark" /\ o \in objects_ \ Reach(roots)) ~> (o \notin objects_)
=============================================================================
