--------------------------- MODULE InterpreterProofs ---------------------------
(***************************************************************************)
(* Theorems about Interpreter for every program whose tables are typed, of *)
(* any size, every number of addresses and every width of an int.          *)
(***************************************************************************)
EXTENDS Interpreter, SetInduction, SequenceTheorems, TLAPS

-----------------------------------------------------------------------------
(* The inductive invariant. It is about every object that exists, reached  *)
(* or not: an instruction may take any pointer it finds, and a collection  *)
(* keeps a set of objects that no pointer leaves. The table of functions   *)
(* and the heap are parameters, for the heaps before and after a step.     *)

(* What an operand or a variable may point to. Only a program whose tables *)
(* are not consistent has slots that were never filled.                    *)
OperandKind == {"Integer", "String", "Record", "Closure", "Reference"}

Uninitialised(table) == IF ConsistentTable(table) THEN {} ELSE {Garbage}

StaticObject(table) ==
  Constant \cup Uninitialised(table)
    \cup [kind : {"Function"}, function : FunctionNames(table)]

OfKind(h, kinds) == {a \in Address : h[a].kind \in kinds}

PointerTo(h, kinds) == {"heap"} \X OfKind(h, kinds)

Value(table, h) == ({"static"} \X StaticObject(table)) \cup PointerTo(h, OperandKind)

Slot(table, h) == PointerTo(h, {"Reference"}) \cup ({"static"} \X Uninitialised(table))

(* An object whose pointers lead where the code takes them to lead.        *)
FrameObject(table, h) ==
  [kind : {"Frame"}, stack : Seq(Value(table, h)), locals : Seq(Value(table, h)),
   refs : Seq(Slot(table, h))]

ClosureObject(table, h) ==
  [kind : {"Closure"}, function : FunctionNames(table),
   free : Seq(PointerTo(h, {"Reference"}))]

ReferenceObject(h) == [kind : {"Reference"}, index : Nat, frame : OfKind(h, {"Frame"})]

(* A closure has a reference for each free variable of its function, and a *)
(* reference is to a variable its frame has.                               *)
Fits(table, h, x) ==
  ConsistentTable(table) =>
    /\ x.kind = "Closure" => Len(x.free) = FreeVariables(table, x.function)
    /\ x.kind = "Reference" => x.index < Len(h[x.frame].locals)

SoundObject(table, h, x) ==
  /\ x.kind \in OperandKind \cup {"Frame", "Free"}
  /\ x.kind = "Integer" => x.int \in INT_MIN..INT_MAX
  /\ x.kind = "Record" =>
       x = Record(x.map) /\ \A k \in DOMAIN x.map : x.map[k] \in Value(table, h)
  /\ x.kind = "Closure" => x \in ClosureObject(table, h)
  /\ x.kind = "Reference" => x \in ReferenceObject(h)
  /\ x.kind = "Frame" => x \in FrameObject(table, h)
  /\ Fits(table, h, x)

SoundHeap == \A a \in Address : SoundObject(functions, heap, heap[a])

(* The calls in progress have a frame each.                                *)
SoundFrames ==
  /\ \A i \in DOMAIN stack_frames_ : heap[stack_frames_[i]].kind = "Frame"
  /\ \A i, j \in DOMAIN stack_frames_ : stack_frames_[i] = stack_frames_[j] => i = j

(* The function that runs in the i-th frame, and its number of variables.  *)
FunctionAt(i) == IF i <= Len(callers) THEN callers[i].function ELSE current_function_

Variables(i) ==
  IF i = 1 THEN Len(functions["main"].names) ELSE FunctionNamed(FunctionAt(i)).local_vars

Calls(f, pointer) ==
  /\ pointer + 1 \in 1..Len(f.instructions)
  /\ \E i \in f.instructions[pointer + 1] : i[1] = "Call"

(* Each frame has the variables of its function, and a function that waits *)
(* is at a call.                                                           *)
Activations ==
  /\ FunctionAt(1) = "main"
  /\ \A i \in DOMAIN stack_frames_ : Len(heap[stack_frames_[i]].locals) = Variables(i)
  /\ \A i \in DOMAIN callers : Calls(FunctionNamed(callers[i].function), callers[i].pointer)

(* From its load_func on until it is in a closure, the function is among   *)
(* the operands, where alloc_closure expects it.                           *)
CapturedFunction(i, n) ==
  /\ i \in 1..Len(Stack)
  /\ \E f \in FunctionNames(functions) :
       Peek(i) = Static(Function(f)) /\ FreeVariables(functions, f) = n

Capturing ==
  ConsistentTable(functions) =>
    \A q \in 1..Len(This.instructions) : \A i \in This.instructions[q] :
      i[1] = "AllocClosure" /\ instruction_pointer_ + 1 \in (q - i[2])..q =>
        CapturedFunction(instruction_pointer_ + 2 + i[2] - q, i[2])

IInv ==
  /\ TypeOK
  /\ SoundHeap
  /\ SoundFrames
  /\ Activations
  /\ Capturing
  /\ DefinedBehaviour

-----------------------------------------------------------------------------
(* Arithmetic stays in an int.                                             *)

LEMMA WrapType == ASSUME NEW n \in Int PROVE Wrap(n) \in INT_MIN..INT_MAX
  BY WidthAssumption DEF Wrap, INT_MIN

LEMMA QuotientType ==
  ASSUME NEW a \in INT_MIN..INT_MAX, NEW b \in INT_MIN..INT_MAX,
         b # 0, ~(b = -1 /\ a = INT_MIN)
  PROVE  Quotient(a, b) \in INT_MIN..INT_MAX
  BY WidthAssumption DEF Quotient, INT_MIN

(* Sequences.                                                              *)
LEMMA SeqMonotone ==
  ASSUME NEW A, NEW B, A \subseteq B
  PROVE  Seq(A) \subseteq Seq(B)
<1>1. ASSUME NEW s \in Seq(A) PROVE s \in Seq(B)
  <2>1. \A i \in 1..Len(s) : s[i] \in B
    OBVIOUS
  <2> QED
    BY <2>1
<1> QED
  BY <1>1

LEMMA SeqElements ==
  ASSUME NEW A, NEW B, NEW s \in Seq(A), \A i \in 1..Len(s) : s[i] \in B
  PROVE  s \in Seq(B)
  OBVIOUS

LEMMA FrontLast ==
  ASSUME NEW S, NEW s \in Seq(S), Len(s) \in Nat \ {0}
  PROVE  /\ Front(s) \in Seq(S) /\ Len(Front(s)) = Len(s) - 1
         /\ \A i \in 1..(Len(s) - 1) : Front(s)[i] = s[i]
         /\ Last(s) \in S
<1>1. \A i \in 1..Len(s) : s[i] \in S
  OBVIOUS
<1>2. Len(s) - 1 \in Nat /\ Len(s) \in 1..Len(s)
  OBVIOUS
<1>3. Last(s) \in S
  BY <1>1, <1>2 DEF Last
<1> DEFINE n == Len(s) - 1
<1>4. n \in Int /\ 1 \in Int /\ \A i \in 1..n : s[i] \in S
  BY <1>1, <1>2
<1>5. /\ SubSeq(s, 1, n) \in Seq(S) /\ Len(SubSeq(s, 1, n)) = IF 1 <= n THEN n - 1 + 1 ELSE 0
      /\ \A i \in 1..(n - 1 + 1) : SubSeq(s, 1, n)[i] = s[1 + i - 1]
  <2> HIDE DEF n
  <2> QED
    BY <1>4, SubSeqProperties
<1>6. /\ Front(s) \in Seq(S) /\ Len(Front(s)) = Len(s) - 1
      /\ \A i \in 1..(Len(s) - 1) : Front(s)[i] = s[i]
  <2>1. Front(s) = SubSeq(s, 1, n)
    BY DEF Front
  <2>2. n \in Nat
    BY <1>2
  <2> HIDE DEF n
  <2>3. \A i \in 1..n : 1 + i - 1 = i /\ i \in 1..(n - 1 + 1)
    BY <2>2
  <2>4. \A i \in 1..n : SubSeq(s, 1, n)[i] = s[i]
    BY <1>5, <2>2, <2>3
  <2>5. SubSeq(s, 1, n) \in Seq(S) /\ Len(SubSeq(s, 1, n)) = n
    BY <1>5, <2>2
  <2> QED
    BY <2>1, <2>4, <2>5 DEF n
<1> QED
  BY <1>3, <1>6

-----------------------------------------------------------------------------
(* What is sound in a heap is sound in one where the objects that exist    *)
(* still exist and are of the same kind, and frames have as many variables.*)

Keeps(h, g) ==
  \A a \in Address :
    /\ h[a].kind # "Free" => g[a].kind = h[a].kind
    /\ h[a].kind = "Frame" => Len(g[a].locals) = Len(h[a].locals)

LEMMA KeepsPointers ==
  ASSUME NEW table, NEW h, NEW g, Keeps(h, g)
  PROVE  /\ Value(table, h) \subseteq Value(table, g)
         /\ \A kinds \in SUBSET (OperandKind \cup {"Frame"}) :
              OfKind(h, kinds) \subseteq OfKind(g, kinds)
         /\ PointerTo(h, {"Reference"}) \subseteq PointerTo(g, {"Reference"})
         /\ Slot(table, h) \subseteq Slot(table, g)
<1>1. \A kinds \in SUBSET (OperandKind \cup {"Frame"}) :
         OfKind(h, kinds) \subseteq OfKind(g, kinds)
  BY DEF Keeps, OfKind, OperandKind
<1>2. \A kinds \in SUBSET (OperandKind \cup {"Frame"}) :
         PointerTo(h, kinds) \subseteq PointerTo(g, kinds)
  BY <1>1 DEF PointerTo
<1>3. {"Reference"} \subseteq OperandKind
  BY DEF OperandKind
<1> QED
  BY <1>1, <1>2, <1>3 DEF Value, Slot

LEMMA KeepsSound ==
  ASSUME NEW table, NEW h, NEW g, Keeps(h, g), NEW x, SoundObject(table, h, x)
  PROVE  SoundObject(table, g, x)
<1>1. /\ Value(table, h) \subseteq Value(table, g)
      /\ OfKind(h, {"Frame"}) \subseteq OfKind(g, {"Frame"})
      /\ PointerTo(h, {"Reference"}) \subseteq PointerTo(g, {"Reference"})
      /\ Slot(table, h) \subseteq Slot(table, g)
  BY KeepsPointers
<1>2. /\ Seq(Value(table, h)) \subseteq Seq(Value(table, g))
      /\ Seq(PointerTo(h, {"Reference"})) \subseteq Seq(PointerTo(g, {"Reference"}))
      /\ Seq(Slot(table, h))
           \subseteq Seq(Slot(table, g))
  BY <1>1, SeqMonotone
<1>3. x.kind = "Record" => \A k \in DOMAIN x.map : x.map[k] \in Value(table, g)
  BY <1>1 DEF SoundObject
<1>4. x.kind = "Closure" => x \in ClosureObject(table, g)
  BY <1>2 DEF SoundObject, ClosureObject
<1>5. x.kind = "Reference" => x \in ReferenceObject(g)
  BY <1>1 DEF SoundObject, ReferenceObject
<1>6. x.kind = "Frame" => x \in FrameObject(table, g)
  BY <1>2 DEF SoundObject, FrameObject
<1>7. Fits(table, g, x)
  BY DEF Keeps, Fits, SoundObject, ReferenceObject, OfKind
<1> QED
  BY <1>3, <1>4, <1>5, <1>6, <1>7 DEF SoundObject

-----------------------------------------------------------------------------
(* The frames and the function that run.                                   *)

LEMMA RunningFrames ==
  ASSUME IInv
  PROVE  /\ Len(stack_frames_) \in Nat \ {0}
         /\ \A i \in 1..Len(stack_frames_) :
              /\ stack_frames_[i] \in Address
              /\ heap[stack_frames_[i]] \in FrameObject(functions, heap)
         /\ Top = stack_frames_[Len(stack_frames_)]
         /\ GlobalFrame = stack_frames_[1]
         /\ Top \in Address /\ heap[Top] \in FrameObject(functions, heap)
         /\ GlobalFrame \in Address /\ heap[GlobalFrame] \in FrameObject(functions, heap)
<1>1. Len(stack_frames_) \in Nat \ {0}
  BY DEF IInv, TypeOK
<1>2. \A i \in 1..Len(stack_frames_) :
        /\ stack_frames_[i] \in Address
        /\ heap[stack_frames_[i]].kind = "Frame"
  BY DEF IInv, TypeOK, SoundFrames
<1>3. \A i \in 1..Len(stack_frames_) :
        heap[stack_frames_[i]] \in FrameObject(functions, heap)
  BY <1>2 DEF IInv, SoundHeap, SoundObject
<1>4. Top = stack_frames_[Len(stack_frames_)] /\ GlobalFrame = stack_frames_[1]
  BY <1>1 DEF IInv, TypeOK, Top, Last, GlobalFrame
<1> QED
  BY <1>1, <1>2, <1>3, <1>4

LEMMA FrameFields ==
  ASSUME NEW table, NEW h, NEW x \in FrameObject(table, h)
  PROVE  /\ x.kind = "Frame"
         /\ x.stack \in Seq(Value(table, h))
         /\ x.locals \in Seq(Value(table, h))
         /\ x.refs \in Seq(Slot(table, h))
         /\ x = [kind |-> "Frame", stack |-> x.stack, locals |-> x.locals, refs |-> x.refs]
  BY DEF FrameObject

LEMMA NoneIsValue == ASSUME NEW table, NEW h PROVE none_ \in Value(table, h)
  BY DEF Value, none_, Static, StaticObject, Constant

LEMMA SlotIsValue == ASSUME NEW table, NEW h PROVE Slot(table, h) \subseteq Value(table, h)
  BY DEF Slot, PointerTo, OfKind, Value, OperandKind, StaticObject

LEMMA TruthIsValue ==
  ASSUME NEW table, NEW h, NEW b \in BOOLEAN PROVE Truth(b) \in Value(table, h)
  BY DEF Value, Truth, Boolean, Static, StaticObject, Constant

(* The operands of the running function.                                   *)
LEMMA Operands ==
  ASSUME IInv
  PROVE  /\ Stack \in Seq(Value(functions, heap))
         /\ Len(Stack) \in Nat
         /\ \A i \in 1..Len(Stack) : Peek(i) \in Value(functions, heap)
         /\ \A n \in 0..Len(Stack) : Below(n) \in Seq(Value(functions, heap))
<1>1. Stack \in Seq(Value(functions, heap)) /\ Len(Stack) \in Nat
  <2>1. heap[Top] \in FrameObject(functions, heap)
    BY RunningFrames
  <2>2. Stack \in Seq(Value(functions, heap))
    BY <2>1, FrameFields DEF Stack
  <2> QED
    BY <2>2
<1>2. \A i \in 1..Len(Stack) : Peek(i) \in Value(functions, heap)
  BY <1>1 DEF Peek
<1>3. \A n \in 0..Len(Stack) : Below(n) \in Seq(Value(functions, heap))
  BY <1>1 DEF Below
<1> QED
  BY <1>1, <1>2, <1>3

(* An operand of a kind that only the heap holds is there.                 *)
LEMMA HeapOperand ==
  ASSUME IInv, NEW p \in Value(functions, heap),
         Deref(p).kind \in {"Record", "Closure", "Reference"}
  PROVE  /\ p[1] = "heap" /\ p[2] \in Address
         /\ Deref(p) = heap[p[2]]
         /\ p \in PointerTo(heap, {Deref(p).kind})
         /\ SoundObject(functions, heap, Deref(p))
<1>1. CASE p \in {"static"} \X StaticObject(functions)
  BY <1>1 DEF StaticObject, Uninitialised, Constant, Garbage, Deref
<1>2. CASE p \in PointerTo(heap, OperandKind)
  BY <1>2 DEF PointerTo, OfKind, Deref, IInv, SoundHeap
<1> QED
  BY <1>1, <1>2 DEF Value

LEMMA IntegerOperand ==
  ASSUME IInv, NEW p \in Value(functions, heap), Deref(p).kind = "Integer"
  PROVE  Deref(p).int \in INT_MIN..INT_MAX
<1>1. CASE p \in {"static"} \X StaticObject(functions)
  BY <1>1 DEF StaticObject, Uninitialised, Constant, Garbage, Deref
<1>2. CASE p \in PointerTo(heap, OperandKind)
  BY <1>2 DEF PointerTo, OfKind, Deref, IInv, SoundHeap, SoundObject
<1> QED
  BY <1>1, <1>2 DEF Value

LEMMA FunctionOperand ==
  ASSUME IInv, NEW p \in Value(functions, heap), Deref(p).kind = "Function"
  PROVE  Deref(p).function \in FunctionNames(functions)
<1>1. CASE p \in {"static"} \X StaticObject(functions)
  BY <1>1 DEF StaticObject, Uninitialised, Constant, Garbage, Deref
<1>2. CASE p \in PointerTo(heap, OperandKind)
  BY <1>2 DEF PointerTo, OfKind, Deref, OperandKind
<1> QED
  BY <1>1, <1>2 DEF Value

(* A table stays typed when the native functions are put into it.          *)
LEMMA StartedTyped == \A table \in Started : TypedTable(table)
<1> SUFFICES ASSUME NEW table \in Programs PROVE TypedTable(initializeNativeFunctions(table))
  BY DEF Started
<1> DEFINE natives == <<"print", "input", "intcast">>
           old == table["main"]
           placed == [i \in DOMAIN old.functions |->
                        IF i <= 3 THEN natives[i] ELSE old.functions[i]]
           main == [old EXCEPT !.functions = placed]
           started == initializeNativeFunctions(table)
<1>1. TypedTable(table)
  BY ProgramsAssumption
<1>2. "main" \in DOMAIN table /\ TypedFunction(table, old)
  BY <1>1 DEF TypedTable
<1>3. /\ started = [table EXCEPT !["main"] = main]
      /\ DOMAIN started = DOMAIN table
  BY DEF initializeNativeFunctions
<1>4. FunctionNames(started) = FunctionNames(table)
  BY <1>3 DEF FunctionNames
<1>5. placed \in Seq(FunctionNames(table))
  <2>1. old.functions \in Seq(FunctionNames(table))
    BY <1>2 DEF TypedFunction
  <2>2. \A i \in 1..3 : natives[i] \in FunctionNames(table)
    BY DEF FunctionNames, Natives
  <2> HIDE DEF natives, old
  <2>3. DOMAIN old.functions = 1..Len(old.functions) /\ Len(old.functions) \in Nat
    BY <2>1
  <2>4. \A i \in 1..Len(old.functions) : placed[i] \in FunctionNames(table)
    <3> SUFFICES ASSUME NEW i \in 1..Len(old.functions)
                 PROVE  (IF i <= 3 THEN natives[i] ELSE old.functions[i]) \in FunctionNames(table)
      BY <2>3
    <3>1. i <= 3 => i \in 1..3
      BY <2>3
    <3>2. old.functions[i] \in FunctionNames(table)
      BY <2>1
    <3> QED
      BY <2>2, <3>1, <3>2
  <2>5. DOMAIN placed = 1..Len(old.functions)
    BY <2>3
  <2> HIDE DEF placed
  <2>6. placed = [i \in 1..Len(old.functions) |-> placed[i]]
    <3> QED
      BY <2>3, <2>5 DEF placed
  <2> QED
    BY <2>3, <2>4, <2>6
<1> HIDE DEF placed
<1>6. TypedFunction(table, main)
  BY <1>2, <1>5 DEF TypedFunction
<1> HIDE DEF main, started
<1>7. ASSUME NEW name \in DOMAIN started PROVE TypedFunction(table, started[name])
  <2>1. CASE name = "main"
    BY <1>2, <1>3, <1>6, <2>1
  <2>2. CASE name # "main"
    BY <1>1, <1>3, <2>2 DEF TypedTable
  <2> QED
    BY <2>1, <2>2
<1>8. \A f : TypedFunction(table, f) => TypedFunction(started, f)
  BY <1>4 DEF TypedFunction
<1> QED
  BY <1>2, <1>3, <1>7, <1>8 DEF TypedTable, started

(* Every function a pointer or a call can name has a typed table.          *)
LEMMA NamedTyped ==
  ASSUME IInv, NEW f \in FunctionNames(functions)
  PROVE  TypedFunction(functions, FunctionNamed(f))
<1>1. CASE f \in DOMAIN Natives
  <2>1. FunctionNamed(f) \in {NativeFunction(0), NativeFunction(1)}
    BY <1>1 DEF FunctionNamed, Natives
  <2>2. ASSUME NEW n \in {0, 1} PROVE TypedFunction(functions, NativeFunction(n))
    BY DEF TypedFunction, NativeFunction
  <2> QED
    BY <2>1, <2>2
<1>2. CASE f \notin DOMAIN Natives
  BY <1>2, StartedTyped
  DEF FunctionNamed, FunctionNames, IInv, TypeOK, TypedTable
<1> QED
  BY <1>1, <1>2

(* ... and a consistent one, when the program is consistent.               *)
LEMMA NamedConsistent ==
  ASSUME IInv, ConsistentTable(functions), NEW f \in FunctionNames(functions)
  PROVE  ConsistentFunction(functions, FunctionNamed(f))
<1>1. CASE f \in DOMAIN Natives
  <2>1. FunctionNamed(f) \in {NativeFunction(0), NativeFunction(1)}
    BY <1>1 DEF FunctionNamed, Natives
  <2>2. ASSUME NEW n \in {0, 1} PROVE ConsistentFunction(functions, NativeFunction(n))
    BY DEF ConsistentFunction, NativeFunction
  <2> QED
    BY <2>1, <2>2
<1>2. CASE f \notin DOMAIN Natives
  BY <1>2 DEF FunctionNamed, FunctionNames, ConsistentTable
<1> QED
  BY <1>1, <1>2

LEMMA ThisTyped == IInv => TypedFunction(functions, This)
  BY NamedTyped DEF IInv, TypeOK, FunctionNames, This

-----------------------------------------------------------------------------
(* What each kind of step keeps. CallersKept is CallersUntouched at a step.*)

CallersKept ==
  \A i \in 1..(Len(stack_frames_) - 1) :
    i < Len(stack_frames_') =>
      heap'[stack_frames_[i]].stack = heap[stack_frames_[i]].stack

GoodStep ==
  TypeOK' /\ SoundHeap' /\ SoundFrames' /\ Activations' /\ CallersKept /\ functions' = functions

LEMMA ThrowStep ==
  ASSUME IInv, NEW e \in Outcome, Throw(e)
  PROVE  GoodStep
  BY DEF Throw, GoodStep, CallersKept, IInv, TypeOK, SoundHeap, SoundFrames, Activations,
         FunctionAt, Variables, FunctionNamed, context

(* The objects that exist keep their kinds, and the new heap is sound if   *)
(* each of its objects was already sound in the old one.                   *)
LEMMA HeapSound ==
  ASSUME IInv, Keeps(heap, heap'), functions' = functions,
         \A a \in Address : \/ SoundObject(functions, heap, heap'[a])
                            \/ SoundObject(functions, heap', heap'[a])
  PROVE  /\ SoundHeap'
         /\ \A a \in Address :
              /\ heap'[a].kind \in ValueKind \cup {"Frame", "Free"}
              /\ heap'[a].kind = "Integer" => heap'[a].int \in INT_MIN..INT_MAX
<1>1. \A a \in Address : SoundObject(functions, heap', heap'[a])
  BY KeepsSound
<1>2. OperandKind \cup {"Frame", "Free"} \subseteq ValueKind \cup {"Frame", "Free"}
  BY DEF OperandKind, ValueKind
<1> QED
  BY <1>1, <1>2 DEF SoundHeap, SoundObject

(* The frames below the running one are others.                            *)
LEMMA FramesBelow ==
  ASSUME IInv, NEW i \in 1..(Len(stack_frames_) - 1)
  PROVE  /\ stack_frames_[i] \in Address \ {Top}
         /\ heap[stack_frames_[i]].kind = "Frame"
<1>1. /\ i \in DOMAIN stack_frames_ /\ Len(stack_frames_) \in DOMAIN stack_frames_
      /\ i # Len(stack_frames_)
  BY RunningFrames DEF IInv, TypeOK
<1> QED
  BY <1>1, RunningFrames DEF IInv, SoundFrames, TypeOK

(* No frame gains or loses variables while the same functions run.         *)
LEMMA ActivationsKept ==
  ASSUME IInv, Keeps(heap, heap'),
         UNCHANGED <<functions, callers, stack_frames_, current_function_>>
  PROVE  Activations'
<1>1. /\ FunctionAt(1)' = FunctionAt(1)
      /\ \A i \in DOMAIN stack_frames_ : Variables(i)' = Variables(i)
  BY DEF FunctionAt, Variables, FunctionNamed
<1>2. \A i \in DOMAIN stack_frames_ :
        Len(heap'[stack_frames_[i]].locals) = Len(heap[stack_frames_[i]].locals)
  BY DEF Keeps, IInv, TypeOK, SoundFrames
<1> QED
  BY <1>1, <1>2 DEF IInv, Activations, FunctionNamed

(* A step that changes only the heap and where the machine is.             *)
LEMMA HeapStep ==
  ASSUME IInv, DOMAIN heap' = Address, Keeps(heap, heap'),
         \A a \in Address : \/ SoundObject(functions, heap, heap'[a])
                            \/ SoundObject(functions, heap', heap'[a]),
         \A a \in Address \ {Top} :
           heap[a].kind = "Frame" => heap'[a].stack = heap[a].stack,
         UNCHANGED <<functions, callers, stack_frames_, current_function_, status>>,
         instruction_pointer_' \in Int
  PROVE  GoodStep
<1>1. /\ SoundHeap'
      /\ \A a \in Address :
           /\ heap'[a].kind \in ValueKind \cup {"Frame", "Free"}
           /\ heap'[a].kind = "Integer" => heap'[a].int \in INT_MIN..INT_MAX
  BY HeapSound
<1>2. TypeOK'
  BY <1>1 DEF IInv, TypeOK
<1>3. SoundFrames'
  BY RunningFrames DEF IInv, SoundFrames, Keeps, TypeOK
<1>4. CallersKept
  BY FramesBelow DEF CallersKept
<1> QED
  BY <1>1, <1>2, <1>3, <1>4, ActivationsKept DEF GoodStep

(* The stack of the running frame after n operands are replaced. What the  *)
(* results point to may be new in the heap g of after the step.            *)
WithStack(x, stack) ==
  [kind |-> "Frame", stack |-> stack, locals |-> x.locals, refs |-> x.refs]

LEMMA WithStackFields ==
  \A x, stack : /\ WithStack(x, stack).kind = "Frame" /\ WithStack(x, stack).stack = stack
                /\ WithStack(x, stack).locals = x.locals
  BY DEF WithStack

LEMMA WithStackFrame ==
  ASSUME NEW table, NEW h, NEW x \in FrameObject(table, h), NEW stack
  PROVE  /\ [x EXCEPT !.stack = stack] = WithStack(x, stack)
         /\ stack \in Seq(Value(table, h)) => WithStack(x, stack) \in FrameObject(table, h)
  BY DEF WithStack, FrameObject

LEMMA ReplaceHeap ==
  ASSUME IInv, NEW n, NEW results
  PROVE  /\ DOMAIN Replace(n, results) = Address
         /\ \A a \in Address \ {Top} : Replace(n, results)[a] = heap[a]
         /\ Replace(n, results)[Top] = WithStack(heap[Top], Below(n) \o results)
         /\ Keeps(heap, Replace(n, results))
<1> DEFINE s == Below(n) \o results
<1>1. /\ heap[Top] \in FrameObject(functions, heap) /\ heap[Top].kind = "Frame"
      /\ Top \in Address /\ DOMAIN heap = Address
  BY RunningFrames, FrameFields DEF IInv, TypeOK
<1>2. Replace(n, results) = [heap EXCEPT ![Top] = [heap[Top] EXCEPT !.stack = s]]
  BY DEF Replace
<1> HIDE DEF Replace, s
<1>3. [heap[Top] EXCEPT !.stack = s] = WithStack(heap[Top], s)
  BY <1>1, WithStackFrame
<1>4. /\ Replace(n, results)[Top] = WithStack(heap[Top], s)
      /\ DOMAIN Replace(n, results) = Address
      /\ \A a \in Address \ {Top} : Replace(n, results)[a] = heap[a]
  BY <1>1, <1>2, <1>3
<1>5. /\ WithStack(heap[Top], s).kind = "Frame"
      /\ WithStack(heap[Top], s).locals = heap[Top].locals
  BY DEF WithStack
<1>6. Keeps(heap, Replace(n, results))
  BY <1>1, <1>4, <1>5 DEF Keeps
<1> QED
  BY <1>4, <1>6 DEF s

LEMMA ReplaceSound ==
  ASSUME IInv, NEW g, Keeps(heap, g),
         NEW n \in 0..Len(Stack), NEW results \in Seq(Value(functions, g))
  PROVE  /\ Replace(n, results)[Top] \in FrameObject(functions, g)
         /\ \A a \in Address : SoundObject(functions, g, Replace(n, results)[a])
<1> DEFINE s == Below(n) \o results
<1>1. heap[Top] \in FrameObject(functions, g)
  <2>1. SoundObject(functions, g, heap[Top]) /\ heap[Top].kind = "Frame"
    BY RunningFrames, FrameFields, KeepsSound DEF IInv, SoundHeap
  <2> QED
    BY <2>1 DEF SoundObject
<1>2. s \in Seq(Value(functions, g))
  <2>1. Below(n) \in Seq(Value(functions, g))
    BY Operands, KeepsPointers, SeqMonotone
  <2> QED
    BY <2>1
<1>3. /\ Replace(n, results)[Top] = WithStack(heap[Top], s)
      /\ \A a \in Address \ {Top} : Replace(n, results)[a] = heap[a]
  BY ReplaceHeap
<1> HIDE DEF Replace, s
<1>4. Replace(n, results)[Top] \in FrameObject(functions, g)
  BY <1>1, <1>2, <1>3, WithStackFrame
<1>5. SoundObject(functions, g, Replace(n, results)[Top])
  BY <1>4, FrameFields DEF SoundObject, Fits
<1>6. \A a \in Address \ {Top} : SoundObject(functions, g, Replace(n, results)[a])
  BY <1>3, KeepsSound DEF IInv, SoundHeap
<1> QED
  BY <1>4, <1>5, <1>6

LEMMA KeepsItself == Keeps(heap, heap)
  BY DEF Keeps

LEMMA ContinueStep ==
  ASSUME IInv, NEW n \in 0..Len(Stack), NEW results \in Seq(Value(functions, heap)),
         Continue(Replace(n, results))
  PROVE  GoodStep
<1>1. /\ heap' = Replace(n, results) /\ instruction_pointer_' \in Int
      /\ UNCHANGED <<functions, callers, stack_frames_, current_function_, status>>
  BY DEF Continue, context, IInv, TypeOK
<1> HIDE DEF Replace
<1>2. \A a \in Address : SoundObject(functions, heap, Replace(n, results)[a])
  BY ReplaceSound, KeepsItself
<1>3. /\ DOMAIN Replace(n, results) = Address
      /\ \A a \in Address \ {Top} : Replace(n, results)[a] = heap[a]
      /\ Keeps(heap, Replace(n, results))
  BY ReplaceHeap
<1> QED
  BY <1>1, <1>2, <1>3, HeapStep

LEMMA YieldStep ==
  ASSUME IInv, NEW n \in 0..Len(Stack), NEW p \in Value(functions, heap), Yield(n, p)
  PROVE  GoodStep
<1>1. <<p>> \in Seq(Value(functions, heap))
  OBVIOUS
<1>2. Continue(Replace(n, <<p>>))
  BY DEF Yield
<1> QED
  BY <1>1, <1>2, ContinueStep

LEMMA JumpStep ==
  ASSUME IInv, NEW n \in 0..Len(Stack), NEW target \in Int, Jump(Replace(n, << >>), target)
  PROVE  GoodStep
<1>1. << >> \in Seq(Value(functions, heap))
  OBVIOUS
<1>2. /\ heap' = Replace(n, << >>) /\ instruction_pointer_' \in Int
      /\ UNCHANGED <<functions, callers, stack_frames_, current_function_, status>>
  BY DEF Jump, context
<1>3. \A a \in Address : SoundObject(functions, heap, Replace(n, << >>)[a])
  BY <1>1, ReplaceSound, KeepsItself
<1>4. /\ DOMAIN Replace(n, << >>) = Address
      /\ \A a \in Address \ {Top} : Replace(n, << >>)[a] = heap[a]
      /\ Keeps(heap, Replace(n, << >>))
  BY ReplaceHeap
<1> QED
  BY <1>2, <1>3, <1>4, HeapStep

LEMMA StayStep ==
  ASSUME IInv, NEW target \in Int, Jump(heap, target)
  PROVE  GoodStep
<1>1. /\ heap' = heap /\ instruction_pointer_' \in Int
      /\ UNCHANGED <<functions, callers, stack_frames_, current_function_, status>>
  BY DEF Jump, context
<1> QED
  BY <1>1, HeapStep DEF Keeps, IInv, TypeOK, SoundHeap

-----------------------------------------------------------------------------
(* What an instruction knows of its operands once it has asked.            *)

LEMMA FaultOutcome ==
  ASSUME NEW asked
  PROVE  /\ Fault(asked) # "none" => Fault(asked) \in Outcome
         /\ Fault(asked) = "none" => \A j \in DOMAIN asked : Meets(asked[j])
  BY DEF Fault, Outcome

LEMMA GivenOne ==
  ASSUME NEW a, Fault(<<a>>) = "none"
  PROVE  Meets(a)
<1>1. 1 \in DOMAIN <<a>> /\ <<a>>[1] = a
  OBVIOUS
<1> QED
  BY <1>1, FaultOutcome

LEMMA GivenTwo ==
  ASSUME NEW a, NEW b, Fault(<<a, b>>) = "none"
  PROVE  Meets(a) /\ Meets(b)
<1>1. /\ 1 \in DOMAIN <<a, b>> /\ <<a, b>>[1] = a
      /\ 2 \in DOMAIN <<a, b>> /\ <<a, b>>[2] = b
  OBVIOUS
<1> QED
  BY <1>1, FaultOutcome

LEMMA GivenFour ==
  ASSUME NEW a, NEW b, NEW c, NEW d, Fault(<<a, b, c, d>>) = "none"
  PROVE  Meets(a) /\ Meets(b) /\ Meets(c) /\ Meets(d)
<1>1. /\ 1 \in DOMAIN <<a, b, c, d>> /\ <<a, b, c, d>>[1] = a
      /\ 2 \in DOMAIN <<a, b, c, d>> /\ <<a, b, c, d>>[2] = b
      /\ 3 \in DOMAIN <<a, b, c, d>> /\ <<a, b, c, d>>[3] = c
      /\ 4 \in DOMAIN <<a, b, c, d>> /\ <<a, b, c, d>>[4] = d
  OBVIOUS
<1> QED
  BY <1>1, FaultOutcome

LEMMA MeetsOperand ==
  ASSUME IInv, NEW i \in Nat \ {0}
  PROVE  /\ \A kind : Meets(Is(i, kind)) =>
              /\ i \in 0..Len(Stack)
              /\ Peek(i) \in Value(functions, heap)
              /\ Operand(i) = Deref(Peek(i)) /\ Operand(i).kind = kind
         /\ Meets(Pop(i)) \/ Meets(Typed(i)) =>
              i \in 0..Len(Stack) /\ Peek(i) \in Value(functions, heap)
  BY Operands DEF Meets, Is, Pop, Typed, Operand

-----------------------------------------------------------------------------
(* Printing. How it ends depends on the values that it meets.              *)

Deepest == [a \in Address |-> Fails("overflow")]

IsShown(g, M) == g = [n \in 0..M |-> IF n = 0 THEN Deepest ELSE ShowRecords(g[n - 1])]

LEMMA ShownExists == \E g : IsShown(g, MaxAddress)
<1> DEFINE N == {m \in Nat : \E g : IsShown(g, m)}
<1>1. 0 \in N
  <2>1. IsShown([n \in 0..0 |-> Deepest], 0)
    BY DEF IsShown
  <2> QED
    BY <2>1
<1>2. ASSUME NEW m \in N PROVE m + 1 \in N
  <2>1. m \in Nat
    OBVIOUS
  <2>2. PICK g : IsShown(g, m)
    OBVIOUS
  <2> DEFINE h == [n \in 0..(m + 1) |-> IF n = m + 1 THEN ShowRecords(g[m]) ELSE g[n]]
  <2>3. ASSUME NEW n \in 0..(m + 1)
        PROVE  h[n] = IF n = 0 THEN Deepest ELSE ShowRecords(h[n - 1])
    <3>1. CASE n = m + 1
      <4>1. h[n] = ShowRecords(g[m]) /\ n # 0 /\ n - 1 = m /\ h[m] = g[m]
        BY <2>1, <3>1
      <4> QED
        BY <4>1
    <3>2. CASE n # m + 1
      <4>1. n \in 0..m /\ h[n] = g[n]
        BY <2>1, <3>2
      <4>2. n # 0 => n - 1 \in 0..(m + 1) /\ n - 1 # m + 1
        BY <2>1, <4>1
      <4>3. n # 0 => h[n - 1] = g[n - 1]
        BY <4>2
      <4> QED
        BY <2>2, <4>1, <4>3 DEF IsShown
    <3> QED
      BY <3>1, <3>2
  <2>4. IsShown(h, m + 1)
    BY <2>3 DEF IsShown
  <2> HIDE DEF h
  <2> QED
    BY <2>1, <2>4
<1> HIDE DEF N
<1>3. Nat \subseteq N
  BY <1>1, <1>2, NatSetInduction
<1> QED
  BY <1>3, AddressAssumption DEF N

LEMMA ShownRounds ==
  /\ ShownRecords[0] = Deepest
  /\ \A n \in 1..MaxAddress : ShownRecords[n] = ShowRecords(ShownRecords[n - 1])
<1>1. ShownRecords = CHOOSE g : IsShown(g, MaxAddress)
  BY DEF ShownRecords, IsShown, Deepest
<1>2. IsShown(ShownRecords, MaxAddress)
  BY <1>1, ShownExists
<1> QED
  BY <1>2, AddressAssumption DEF IsShown

(* The first of some positions.                                            *)
LEMMA FirstIn ==
  ASSUME NEW S \in SUBSET Nat, S # {}
  PROVE  Min(S) \in S
<1>1. \E x \in S : \A y \in S : x <= y
  BY Minimum
<1> QED
  BY <1>1 DEF Min

(* When no uninitialised slot is met, or may be, F are the ends there are. *)
LEMMA ShowWithin ==
  ASSUME IInv, NEW F, {"none", "RuntimeException", "overflow"} \subseteq F,
         \A p \in Value(functions, heap) : Deref(p).kind = "Garbage" => "undefined" \in F,
         NEW records, \A a \in Address : records[a].fault \in F,
         NEW p \in Value(functions, heap)
  PROVE  Show(p, records).fault \in F
<1>1. Deref(p).kind = "Record" => p[2] \in Address
  BY HeapOperand
<1> QED
  BY <1>1 DEF Show, Text, Fails

LEMMA ShowRecordsWithin ==
  ASSUME IInv, NEW F, {"none", "RuntimeException", "overflow"} \subseteq F,
         \A p \in Value(functions, heap) : Deref(p).kind = "Garbage" => "undefined" \in F,
         NEW records, \A a \in Address : records[a].fault \in F,
         NEW a \in Address
  PROVE  ShowRecords(records)[a].fault \in F
<1>1. CASE heap[a].kind # "Record"
  BY <1>1 DEF ShowRecords, Text
<1>2. CASE heap[a].kind = "Record"
  <2> DEFINE m == heap[a].map
             present == {i \in DOMAIN FieldOrder : FieldOrder[i] \in DOMAIN m}
             shown == [i \in present |-> Show(m[FieldOrder[i]], records)]
             failing == {i \in present : shown[i].fault # "none"}
  <2>1. \A k \in DOMAIN m : m[k] \in Value(functions, heap)
    BY <1>2 DEF IInv, SoundHeap, SoundObject
  <2>2. \A i \in present : shown[i].fault \in F
    BY <2>1, ShowWithin
  <2>3. failing # {} => Min(failing) \in present
    <3>1. failing \in SUBSET Nat
      BY FieldAssumption
    <3>2. failing # {} => Min(failing) \in failing
      <4> HIDE DEF failing
      <4> QED
        BY <3>1, FirstIn
    <3> QED
      BY <3>2
  <2>4. ShowRecords(records)[a] = ShowFields(m, records)
    BY <1>2 DEF ShowRecords
  <2>5. \/ ShowFields(m, records).fault = "none"
        \/ failing # {} /\ ShowFields(m, records).fault = shown[Min(failing)].fault
    BY DEF ShowFields, Text, Fails
  <2> HIDE DEF failing, shown, present
  <2> QED
    BY <2>2, <2>3, <2>4, <2>5
<1> QED
  BY <1>1, <1>2

LEMMA PrintingWithin ==
  ASSUME IInv, NEW F, {"none", "RuntimeException", "overflow"} \subseteq F,
         \A p \in Value(functions, heap) : Deref(p).kind = "Garbage" => "undefined" \in F,
         NEW p \in Value(functions, heap)
  PROVE  toString(p).fault \in F
<1> DEFINE EndWithin(n) == \A a \in Address : ShownRecords[n][a].fault \in F
           N == {n \in Nat : n <= MaxAddress => EndWithin(n)}
<1>1. 0 \in N
  <2>1. \A a \in Address : Deepest[a].fault = "overflow"
    BY DEF Deepest, Fails
  <2>2. EndWithin(0)
    BY <2>1, ShownRounds
  <2> HIDE DEF EndWithin
  <2> QED
    BY <2>2
<1>2. ASSUME NEW n \in N PROVE n + 1 \in N
  <2>1. n \in Nat /\ n + 1 \in Nat
    OBVIOUS
  <2>2. ASSUME n + 1 <= MaxAddress PROVE EndWithin(n + 1)
    <3>1. n <= MaxAddress /\ n + 1 \in 1..MaxAddress /\ (n + 1) - 1 = n
      BY <2>1, <2>2, AddressAssumption
    <3>2. EndWithin(n) /\ ShownRecords[n + 1] = ShowRecords(ShownRecords[n])
      BY <3>1, ShownRounds
    <3> QED
      BY <3>2, ShowRecordsWithin
  <2> QED
    BY <2>1, <2>2
<1> HIDE DEF N
<1>3. Nat \subseteq N
  BY <1>1, <1>2, NatSetInduction
<1>4. EndWithin(MaxAddress)
  BY <1>3, AddressAssumption DEF N
<1> QED
  BY <1>4, ShowWithin DEF toString

LEMMA PrintFaultOutcome ==
  ASSUME IInv, NEW p \in Value(functions, heap)
  PROVE  toString(p).fault \in Outcome \cup {"none"}
<1> DEFINE F == Outcome \cup {"none"}
<1>1. {"none", "RuntimeException", "overflow", "undefined"} \subseteq F
  BY DEF Outcome
<1> HIDE DEF F
<1>2. toString(p).fault \in F
  BY <1>1, PrintingWithin
<1> QED
  BY <1>2 DEF F

-----------------------------------------------------------------------------
(* Addresses that `new` hands out.                                         *)

LEMMA FreeFinite ==
  /\ IsFiniteSet(Address) /\ Cardinality(Address) = MaxAddress
  /\ FreeAddresses \subseteq Address
  /\ IsFiniteSet(FreeAddresses) /\ Cardinality(FreeAddresses) \in Nat
  /\ FreeAddresses # {} => Cardinality(FreeAddresses) >= 1
<1>1. IsFiniteSet(Address) /\ Cardinality(Address) = MaxAddress
  BY AddressAssumption, FS_Interval DEF Address
<1>2. FreeAddresses \subseteq Address
  BY DEF FreeAddresses
<1>3. IsFiniteSet(FreeAddresses) /\ Cardinality(FreeAddresses) \in Nat
  BY <1>1, <1>2, FS_Subset, FS_CardinalityType
<1> QED
  BY <1>1, <1>2, <1>3, FS_EmptySet

LEMMA FreshRank ==
  ASSUME NEW k \in 1..Cardinality(FreeAddresses)
  PROVE  /\ Fresh(k) \in FreeAddresses
         /\ Cardinality({b \in FreeAddresses : b < Fresh(k)}) = k - 1
<1>1. \E a \in FreeAddresses : Cardinality({b \in FreeAddresses : b < a}) = k - 1
  BY FreeFinite, AddressAssumption, RankExists DEF Address
<1> QED
  BY <1>1 DEF Fresh

LEMMA FreshFree ==
  ASSUME NEW k \in 1..Cardinality(FreeAddresses)
  PROVE  Fresh(k) \in Address /\ heap[Fresh(k)] = Free
BY FreshRank DEF FreeAddresses

LEMMA FreshDistinct ==
  ASSUME NEW j \in 1..Cardinality(FreeAddresses), NEW k \in 1..Cardinality(FreeAddresses),
         Fresh(j) = Fresh(k)
  PROVE  j = k
<1>1. j - 1 = k - 1
  BY FreshRank
<1> QED
  BY <1>1

-----------------------------------------------------------------------------
(* The instructions that make an object, and those that write into one.    *)

LEMMA FirstFresh ==
  ASSUME IInv, FreeAddresses # {}
  PROVE  Fresh(1) \in Address /\ heap[Fresh(1)] = Free /\ Fresh(1) # Top
<1>1. 1 \in 1..Cardinality(FreeAddresses)
  BY FreeFinite
<1>2. Fresh(1) \in Address /\ heap[Fresh(1)] = Free
  BY <1>1, FreshFree
<1>3. heap[Top].kind = "Frame"
  BY RunningFrames, FrameFields
<1> QED
  BY <1>2, <1>3 DEF Free

LEMMA YieldNewStep ==
  ASSUME IInv, NEW n \in 0..Len(Stack), NEW x,
         x.kind \in OperandKind, SoundObject(functions, heap, x), YieldNew(n, x)
  PROVE  GoodStep
<1> DEFINE a == Fresh(1)
           R == Replace(n, <<Heap(a)>>)
<1>1. a \in Address /\ heap[a] = Free /\ a # Top
  BY FirstFresh DEF YieldNew
<1>2. /\ DOMAIN R = Address
      /\ \A b \in Address \ {Top} : R[b] = heap[b]
      /\ Keeps(heap, R)
  BY ReplaceHeap
<1>3. /\ heap' = [R EXCEPT ![a] = x] /\ instruction_pointer_' \in Int
      /\ UNCHANGED <<functions, callers, stack_frames_, current_function_, status>>
  BY DEF YieldNew, Continue, context, IInv, TypeOK
<1> HIDE DEF a, R
<1>4. /\ DOMAIN heap' = Address /\ heap'[a] = x
      /\ \A b \in Address \ {a} : heap'[b] = R[b]
  BY <1>1, <1>2, <1>3
<1>5. Keeps(heap, heap')
  BY <1>1, <1>2, <1>4 DEF Keeps, Free
<1>6. <<Heap(a)>> \in Seq(Value(functions, heap'))
  <2>1. Heap(a) \in Value(functions, heap')
    BY <1>1, <1>4 DEF Heap, Value, PointerTo, OfKind
  <2> QED
    BY <2>1
<1>7. \A b \in Address : SoundObject(functions, heap', R[b])
  BY <1>5, <1>6, ReplaceSound DEF R
<1>8. \A b \in Address : \/ SoundObject(functions, heap, heap'[b])
                         \/ SoundObject(functions, heap', heap'[b])
  BY <1>4, <1>7
<1>9. \A b \in Address \ {Top} : heap[b].kind = "Frame" => heap'[b].stack = heap[b].stack
  BY <1>1, <1>2, <1>4 DEF Free
<1> QED
  BY <1>3, <1>4, <1>5, <1>8, <1>9, HeapStep

(* A variable of the running frame or of another one is assigned.          *)
LEMMA SetLocalVarStep ==
  ASSUME IInv, NEW frame \in OfKind(heap, {"Frame"}), NEW n,
         NEW p \in Value(functions, heap), NEW popped \in 0..Len(Stack),
         SetLocalVar(frame, n, p, popped)
  PROVE  GoodStep
<1> DEFINE R == Replace(popped, << >>)
<1>1. CASE ~Valid(heap[frame].locals, n)
  BY <1>1, ThrowStep DEF SetLocalVar, Outcome
<1>2. CASE Valid(heap[frame].locals, n)
  <2>1. /\ DOMAIN R = Address
        /\ \A b \in Address \ {Top} : R[b] = heap[b]
        /\ R[Top].locals = heap[Top].locals
        /\ Keeps(heap, R)
    BY ReplaceHeap, WithStackFields
  <2>2. << >> \in Seq(Value(functions, heap))
    OBVIOUS
  <2>3. \A b \in Address : SoundObject(functions, heap, R[b])
    BY <2>2, ReplaceSound, KeepsItself
  <2>4. /\ heap' = [R EXCEPT ![frame] =
                      [R[frame] EXCEPT !.locals = [R[frame].locals EXCEPT ![n + 1] = p]]]
        /\ instruction_pointer_' \in Int
        /\ UNCHANGED <<functions, callers, stack_frames_, current_function_, status>>
    BY <1>2 DEF SetLocalVar, Continue, context, IInv, TypeOK
  <2> HIDE DEF R
  <2>5. /\ frame \in Address /\ R[frame].locals = heap[frame].locals
        /\ R[frame].kind = "Frame"
    BY <2>1 DEF OfKind, Keeps
  <2>6. R[frame] \in FrameObject(functions, heap)
    BY <2>3, <2>5 DEF SoundObject
  <2> DEFINE x == [R[frame] EXCEPT !.locals = [R[frame].locals EXCEPT ![n + 1] = p]]
  <2>7. /\ x \in FrameObject(functions, heap) /\ x.stack = R[frame].stack
        /\ Len(x.locals) = Len(heap[frame].locals)
    <3>1. n + 1 \in 1..Len(R[frame].locals)
      BY <1>2, <2>5, <2>6 DEF Valid, FrameObject
    <3>2. R[frame].locals \in Seq(Value(functions, heap))
      BY <2>6, FrameFields
    <3>3. /\ [R[frame].locals EXCEPT ![n + 1] = p] \in Seq(Value(functions, heap))
          /\ Len([R[frame].locals EXCEPT ![n + 1] = p]) = Len(R[frame].locals)
      BY <3>1, <3>2, ExceptSeq
    <3> QED
      BY <2>5, <2>6, <3>3 DEF FrameObject
  <2> HIDE DEF x
  <2>8. /\ DOMAIN heap' = Address /\ heap'[frame] = x
        /\ \A b \in Address \ {frame} : heap'[b] = R[b]
    BY <2>1, <2>4, <2>5 DEF x
  <2>9. SoundObject(functions, heap, x) /\ x.kind = "Frame"
    BY <2>7, FrameFields DEF SoundObject, Fits
  <2>10. \A b \in Address : SoundObject(functions, heap, heap'[b])
    BY <2>3, <2>8, <2>9
  <2>11. Keeps(heap, heap')
    BY <2>1, <2>5, <2>7, <2>8, <2>9 DEF Keeps
  <2>12. \A b \in Address \ {Top} : heap[b].kind = "Frame" => heap'[b].stack = heap[b].stack
    BY <2>1, <2>5, <2>7, <2>8
  <2> QED
    BY <2>4, <2>8, <2>10, <2>11, <2>12, HeapStep
<1> QED
  BY <1>1, <1>2

LEMMA SetFieldStep ==
  ASSUME IInv, NEW i \in 1..Len(Stack), NEW k, NEW p \in Value(functions, heap),
         Operand(i).kind = "Record", SetField(i, k, p)
  PROVE  GoodStep
<1> DEFINE R == Replace(i, << >>)
           a == Peek(i)[2]
           m == heap[a].map
           field == [f \in DOMAIN m \cup {k} |-> IF f = k THEN p ELSE m[f]]
           x == [heap[a] EXCEPT !.map = field]
<1>1. /\ DOMAIN R = Address
      /\ \A b \in Address \ {Top} : R[b] = heap[b]
      /\ Keeps(heap, R)
  BY ReplaceHeap
<1>2. i \in 0..Len(Stack) /\ << >> \in Seq(Value(functions, heap))
  OBVIOUS
<1>3. \A b \in Address : SoundObject(functions, heap, R[b])
  BY <1>2, ReplaceSound, KeepsItself
<1>4. a \in Address /\ heap[a].kind = "Record" /\ a # Top
  <2>1. Peek(i) \in Value(functions, heap)
    BY Operands
  <2>2. a \in Address /\ heap[a].kind = "Record"
    BY <2>1, HeapOperand DEF Operand
  <2> QED
    BY <2>2, RunningFrames, FrameFields
<1>5. /\ heap' = [R EXCEPT ![a] = [R[a] EXCEPT !.map =
                    [f \in DOMAIN R[a].map \cup {k} |-> IF f = k THEN p ELSE R[a].map[f]]]]
      /\ instruction_pointer_' \in Int
      /\ UNCHANGED <<functions, callers, stack_frames_, current_function_, status>>
  BY DEF SetField, Continue, context, IInv, TypeOK
<1> HIDE DEF R
<1>6. /\ DOMAIN heap' = Address /\ heap'[a] = x
      /\ \A b \in Address \ {a} : heap'[b] = R[b]
  BY <1>1, <1>4, <1>5
<1>7. x.kind = "Record" /\ SoundObject(functions, heap, x)
  <2>1. \A f \in DOMAIN m : m[f] \in Value(functions, heap)
    BY <1>4 DEF IInv, SoundHeap, SoundObject
  <2>2. DOMAIN field = DOMAIN m \cup {k} /\ \A f \in DOMAIN field : field[f] \in Value(functions, heap)
    BY <2>1
  <2>3. x = Record(field)
    <3>1. heap[a] = Record(m)
      BY <1>4 DEF SoundObject, IInv, SoundHeap
    <3> HIDE DEF a, m, field
    <3> QED
      BY <3>1 DEF Record
  <2>5. x.map = field /\ x.kind = "Record" /\ x = Record(x.map)
    <3> HIDE DEF x, field
    <3> QED
      BY <2>3 DEF Record
  <2> HIDE DEF x, field, m, a
  <2>4. "Record" \in OperandKind
    BY DEF OperandKind
  <2> QED
    BY <2>2, <2>4, <2>5 DEF SoundObject, Fits
<1> HIDE DEF x, a
<1>8. \A b \in Address : SoundObject(functions, heap, heap'[b])
  BY <1>3, <1>6, <1>7
<1>9. Keeps(heap, heap')
  BY <1>1, <1>4, <1>6, <1>7 DEF Keeps
<1>10. \A b \in Address \ {Top} : heap[b].kind = "Frame" => heap'[b].stack = heap[b].stack
  BY <1>1, <1>4, <1>6
<1> QED
  BY <1>5, <1>6, <1>8, <1>9, <1>10, HeapStep

-----------------------------------------------------------------------------
(* Calls.                                                                  *)

(* The free variables of a closure among the operands.                     *)
LEMMA ClosureOperand ==
  ASSUME IInv, NEW i \in 1..Len(Stack), Operand(i).kind = "Closure"
  PROVE  /\ Operand(i).function \in FunctionNames(functions)
         /\ Operand(i).free \in Seq(PointerTo(heap, {"Reference"}))
         /\ ConsistentTable(functions) =>
              Len(Operand(i).free) = FunctionNamed(Operand(i).function).free_vars
<1>1. SoundObject(functions, heap, Operand(i))
  BY Operands, HeapOperand DEF Operand
<1>2. \A f : FreeVariables(functions, f) = FunctionNamed(f).free_vars
  BY DEF FreeVariables, FunctionNamed, Natives, NativeFunction
<1> QED
  BY <1>1, <1>2 DEF SoundObject, ClosureObject, Fits

LEMMA ArgumentsType ==
  ASSUME IInv, NEW n \in 0..Len(Stack), NEW locals \in Nat
  PROVE  Arguments(n, locals) \in Seq(Value(functions, heap))
<1>1. \A i \in 1..locals : (IF i <= n THEN Peek(n + 1 - i) ELSE none_) \in Value(functions, heap)
  BY Operands, NoneIsValue
<1> QED
  BY <1>1 DEF Arguments

LEMMA ReferencesType ==
  ASSUME NEW table, NEW g, NEW callee, callee.free_vars \in Nat,
         callee.local_reference_indices \in Seq(Nat),
         NEW free \in Seq(PointerTo(g, {"Reference"})),
         \A k \in 1..Len(callee.local_reference_indices) :
           Heap(Fresh(k + 1)) \in PointerTo(g, {"Reference"}),
         ConsistentTable(table) => Len(free) >= callee.free_vars
  PROVE  References(callee, free) \in Seq(Slot(table, g))
<1> DEFINE own == Len(callee.local_reference_indices)
           slots == own + callee.free_vars
           refs == References(callee, free)
<1>1. own \in Nat /\ slots \in Nat /\ DOMAIN free = 1..Len(free) /\ Len(free) \in Nat
  OBVIOUS
<1>2. \A k \in 1..slots :
        refs[k] = IF k <= own THEN Heap(Fresh(k + 1))
                  ELSE IF k - own \in DOMAIN free THEN free[k - own]
                  ELSE Static(Garbage)
  BY DEF References
<1>3. DOMAIN refs = 1..slots /\ refs = [k \in 1..slots |-> refs[k]]
  BY DEF References
<1> HIDE DEF slots, refs
<1>4. ASSUME NEW k \in 1..slots PROVE refs[k] \in Slot(table, g)
  <2>1. CASE k <= own
    BY <1>1, <1>2, <2>1 DEF Slot
  <2>2. CASE k > own /\ k - own \in DOMAIN free
    BY <1>1, <1>2, <2>2 DEF Slot
  <2>3. CASE k > own /\ k - own \notin DOMAIN free
    <3>1. ~ConsistentTable(table)
      BY <1>1, <2>3 DEF slots
    <3>2. refs[k] = Static(Garbage)
      BY <1>1, <1>2, <2>3
    <3> QED
      BY <3>1, <3>2 DEF Slot, Static, Uninitialised
  <2> QED
    BY <1>1, <2>1, <2>2, <2>3 DEF slots
<1> QED
  BY <1>1, <1>3, <1>4 DEF refs

LEMMA EnterStep ==
  ASSUME IInv, NEW f \in DOMAIN functions, NEW n \in Nat, n + 1 \in 1..Len(Stack),
         Operand(n + 1).kind = "Closure", f = Operand(n + 1).function,
         Calls(This, instruction_pointer_), Running, Enter(f, n)
  PROVE  GoodStep
<1> DEFINE callee == FunctionNamed(f)
           indices == callee.local_reference_indices
           frame == NewFrame(callee, n)
<1>1. /\ indices \in Seq(Nat) /\ callee.free_vars \in Nat /\ callee.local_vars \in Nat
      /\ Len(indices) \in Nat /\ DOMAIN indices = 1..Len(indices)
  BY NamedTyped DEF FunctionNames, TypedFunction
<1>2. /\ Cardinality(FreeAddresses) > Len(indices)
      /\ heap' = [a \in Address |->
                    CASE a = Top -> [heap[a] EXCEPT !.stack = Below(n + 1)]
                      [] a = Fresh(1) -> frame
                      [] \E k \in DOMAIN indices : a = Fresh(k + 1) ->
                           NewReference(indices, a)
                      [] OTHER -> heap[a]]
      /\ stack_frames_' = Append(stack_frames_, Fresh(1))
      /\ callers' = Append(callers, [function |-> current_function_,
                                     pointer |-> instruction_pointer_])
      /\ current_function_' = f
      /\ instruction_pointer_' = 0
      /\ UNCHANGED <<functions, status, output>>
  BY DEF Enter
<1>3. /\ Top \in Address /\ heap[Top].kind = "Frame" /\ heap[Top] \in FrameObject(functions, heap)
  BY RunningFrames, FrameFields
<1> HIDE DEF callee, frame, indices
<1>fits. \A k \in 1..(Len(indices) + 1) : k \in 1..Cardinality(FreeAddresses)
  BY <1>1, <1>2, FreeFinite
<1>4. \A k \in 1..(Len(indices) + 1) :
        Fresh(k) \in Address /\ heap[Fresh(k)] = Free /\ Fresh(k) # Top
  BY <1>3, <1>fits, FreshFree DEF Free
<1>5. 1 \in 1..(Len(indices) + 1)
  BY <1>1
<1>6. \A k \in DOMAIN indices : k + 1 \in 1..(Len(indices) + 1) /\ Fresh(k + 1) # Fresh(1)
  <2>1. ASSUME NEW k \in DOMAIN indices, Fresh(k + 1) = Fresh(1) PROVE FALSE
    <3>1. /\ k + 1 \in 1..(Len(indices) + 1) /\ 1 \in 1..(Len(indices) + 1)
          /\ k + 1 # 1
      BY <1>1
    <3>2. k + 1 \in 1..Cardinality(FreeAddresses) /\ 1 \in 1..Cardinality(FreeAddresses)
      BY <3>1, <1>fits
    <3> QED
      BY <2>1, <3>1, <3>2, FreshDistinct
  <2> QED
    BY <1>1, <2>1
<1>7. heap'[Top] = WithStack(heap[Top], Below(n + 1))
  <2>1. heap'[Top] = [heap[Top] EXCEPT !.stack = Below(n + 1)]
    BY <1>2, <1>3, <1>4, <1>5, <1>6
  <2> QED
    BY <1>3, <2>1, WithStackFrame
<1>8. heap'[Fresh(1)] = frame
  BY <1>2, <1>4, <1>5, <1>6
<1>9. \A k \in DOMAIN indices : \E j \in DOMAIN indices :
        heap'[Fresh(k + 1)] = Reference(indices[j], Fresh(1))
  <2>1. ASSUME NEW k \in DOMAIN indices
        PROVE  heap'[Fresh(k + 1)] = NewReference(indices, Fresh(k + 1))
    <3>1. Fresh(k + 1) \in Address /\ Fresh(k + 1) # Top /\ Fresh(k + 1) # Fresh(1)
      BY <1>4, <1>6
    <3> QED
      BY <1>2, <3>1
  <2>2. ASSUME NEW k \in DOMAIN indices
        PROVE  \E j \in DOMAIN indices :
                 NewReference(indices, Fresh(k + 1)) = Reference(indices[j], Fresh(1))
    BY DEF NewReference
  <2> QED
    BY <2>1, <2>2
<1>10. \A a \in Address : \/ a = Top \/ a = Fresh(1) \/ heap'[a] = heap[a]
                          \/ \E k \in DOMAIN indices : a = Fresh(k + 1)
  BY <1>2
<1>11. DOMAIN heap' = Address
  BY <1>2
<1>12. frame.kind = "Frame" /\ Len(frame.locals) = callee.local_vars
  BY <1>1 DEF frame, NewFrame, Frame, Arguments
<1>13. Keeps(heap, heap')
  BY <1>3, <1>4, <1>5, <1>6, <1>7, <1>10, WithStackFields DEF Keeps, Free
<1>14. /\ Seq(Value(functions, heap)) \subseteq Seq(Value(functions, heap'))
       /\ Seq(PointerTo(heap, {"Reference"})) \subseteq Seq(PointerTo(heap', {"Reference"}))
  BY <1>13, KeepsPointers, SeqMonotone
<1>15. SoundObject(functions, heap', heap'[Top])
  <2>1. SoundObject(functions, heap', heap[Top])
    BY <1>3, <1>13, KeepsSound DEF IInv, SoundHeap
  <2>2. heap[Top] \in FrameObject(functions, heap')
    BY <1>3, <2>1 DEF SoundObject
  <2>3. Below(n + 1) \in Seq(Value(functions, heap'))
    BY <1>14, Operands
  <2>4. heap'[Top] \in FrameObject(functions, heap')
    BY <1>7, <2>2, <2>3, WithStackFrame
  <2> QED
    BY <2>4, FrameFields DEF SoundObject, Fits
<1>16. SoundObject(functions, heap', heap'[Fresh(1)])
  <2>1. Arguments(n, callee.local_vars) \in Seq(Value(functions, heap'))
    <3>1. n \in 0..Len(Stack)
      BY Operands
    <3> QED
      BY <1>1, <1>14, <3>1, ArgumentsType
  <2>2. \A k \in DOMAIN indices : Heap(Fresh(k + 1)) \in PointerTo(heap', {"Reference"})
    <3>1. ASSUME NEW k \in DOMAIN indices PROVE heap'[Fresh(k + 1)].kind = "Reference"
      <4>1. PICK j \in DOMAIN indices : heap'[Fresh(k + 1)] = Reference(indices[j], Fresh(1))
        BY <1>9
      <4> QED
        BY <4>1 DEF Reference
    <3>2. \A k \in DOMAIN indices : Fresh(k + 1) \in OfKind(heap', {"Reference"})
      BY <1>4, <1>6, <3>1 DEF OfKind
    <3> QED
      BY <3>2 DEF Heap, PointerTo
  <2>3. Operand(n + 1).free \in Seq(PointerTo(heap', {"Reference"}))
    BY <1>14, ClosureOperand
  <2>4. References(callee, Operand(n + 1).free) \in Seq(Slot(functions, heap'))
    <3>1. ConsistentTable(functions) => Len(Operand(n + 1).free) >= callee.free_vars
      BY <1>1, ClosureOperand DEF callee
    <3> QED
      BY <1>1, <2>2, <2>3, <3>1, ReferencesType DEF indices
  <2>5. << >> \in Seq(Value(functions, heap'))
    OBVIOUS
  <2>6. frame \in FrameObject(functions, heap')
    BY <2>1, <2>4, <2>5 DEF frame, NewFrame, Frame, FrameObject
  <2> QED
    BY <1>8, <1>12, <2>6 DEF SoundObject, Fits
<1>17. \A k \in DOMAIN indices : SoundObject(functions, heap', heap'[Fresh(k + 1)])
  <2>1. Fresh(1) \in OfKind(heap', {"Frame"})
    BY <1>4, <1>5, <1>8, <1>12 DEF OfKind
  <2>2. ConsistentTable(functions) => \A k \in DOMAIN indices : indices[k] < callee.local_vars
    BY NamedConsistent DEF FunctionNames, ConsistentFunction, callee, indices
  <2>3. ASSUME NEW j \in DOMAIN indices
        PROVE  SoundObject(functions, heap', Reference(indices[j], Fresh(1)))
    <3>1. indices[j] \in Nat
      BY <1>1
    <3> QED
      BY <1>8, <1>12, <2>1, <2>2, <3>1
      DEF SoundObject, Fits, Reference, ReferenceObject, OperandKind
  <2> QED
    BY <1>9, <2>3
<1>18. \A a \in Address : \/ SoundObject(functions, heap, heap'[a])
                          \/ SoundObject(functions, heap', heap'[a])
  BY <1>10, <1>15, <1>16, <1>17 DEF IInv, SoundHeap
<1>19. /\ SoundHeap'
       /\ \A a \in Address :
            /\ heap'[a].kind \in ValueKind \cup {"Frame", "Free"}
            /\ heap'[a].kind = "Integer" => heap'[a].int \in INT_MIN..INT_MAX
  BY <1>2, <1>13, <1>18, HeapSound
<1>20. TypeOK'
  <2>1. stack_frames_' \in Seq(Address) /\ Len(stack_frames_') = Len(stack_frames_) + 1
    <3>1. stack_frames_ \in Seq(Address)
      BY DEF IInv, TypeOK
    <3> QED
      BY <1>2, <1>4, <1>5, <3>1
  <2>2. /\ callers' \in Seq([function : DOMAIN functions, pointer : Int])
        /\ Len(callers') = Len(callers) + 1
    BY <1>2 DEF IInv, TypeOK
  <2> QED
    BY <1>2, <1>11, <1>19, <2>1, <2>2 DEF IInv, TypeOK
<1>21. SoundFrames'
  <2>1. \A i \in DOMAIN stack_frames_ : stack_frames_[i] # Fresh(1)
    BY <1>4, <1>5 DEF IInv, SoundFrames, Free
  <2>2. /\ DOMAIN stack_frames_' = DOMAIN stack_frames_ \cup {Len(stack_frames_) + 1}
        /\ \A i \in DOMAIN stack_frames_ : stack_frames_'[i] = stack_frames_[i]
        /\ stack_frames_'[Len(stack_frames_) + 1] = Fresh(1)
    BY <1>2, <1>4, <1>5 DEF IInv, TypeOK
  <2>3. \A i \in DOMAIN stack_frames_ : heap'[stack_frames_[i]].kind = "Frame"
    BY <1>13, RunningFrames DEF IInv, SoundFrames, Keeps, TypeOK
  <2>4. \A i \in DOMAIN stack_frames_' : heap'[stack_frames_'[i]].kind = "Frame"
    BY <1>8, <1>12, <2>2, <2>3
  <2> QED
    BY <2>1, <2>2, <2>4 DEF IInv, SoundFrames
<1>22. CallersKept
  <2>1. ASSUME NEW i \in 1..(Len(stack_frames_) - 1)
        PROVE  heap'[stack_frames_[i]] = heap[stack_frames_[i]]
    BY <1>4, <1>5, <1>6, <1>10, FramesBelow DEF Free
  <2> QED
    BY <2>1 DEF CallersKept
<1>23. Activations'
  <2> DEFINE last == Len(stack_frames_)
  <2>1. /\ last \in Nat \ {0} /\ Len(callers) = last - 1
        /\ DOMAIN stack_frames_ = 1..last /\ DOMAIN stack_frames_' = 1..(last + 1)
        /\ \A i \in 1..last : stack_frames_'[i] = stack_frames_[i]
        /\ stack_frames_'[last + 1] = Fresh(1)
        /\ DOMAIN callers = 1..(last - 1) /\ DOMAIN callers' = 1..last /\ Len(callers') = last
        /\ \A i \in 1..(last - 1) : callers'[i] = callers[i]
        /\ callers'[last] = [function |-> current_function_, pointer |-> instruction_pointer_]
    BY <1>2, <1>4, <1>5 DEF IInv, TypeOK
  <2> HIDE DEF last
  <2>2. \A i \in 1..last : FunctionAt(i)' = FunctionAt(i) /\ Variables(i)' = Variables(i)
    BY <1>2, <2>1 DEF FunctionAt, Variables, FunctionNamed
  <2>3. ASSUME NEW i \in {last + 1} PROVE Variables(i)' = callee.local_vars
    <3>1. FunctionAt(i)' = f /\ i # 1
      BY <1>2, <2>1 DEF FunctionAt
    <3>2. FunctionNamed(f)' = callee
      BY <1>2 DEF FunctionNamed, callee
    <3> QED
      BY <3>1, <3>2 DEF Variables
  <2>4. ASSUME NEW i \in 1..(last + 1)
        PROVE  Len(heap'[stack_frames_'[i]].locals) = Variables(i)'
    <3>1. CASE i = last + 1
      BY <1>8, <1>12, <2>1, <2>3, <3>1
    <3>2. CASE i \in 1..last
      <4>1. /\ stack_frames_[i] \in Address /\ heap[stack_frames_[i]].kind = "Frame"
            /\ Len(heap[stack_frames_[i]].locals) = Variables(i)
        BY <2>1, <3>2, RunningFrames, FrameFields DEF IInv, Activations, last
      <4> QED
        BY <1>13, <2>1, <2>2, <3>2, <4>1 DEF Keeps
    <3> QED
      BY <2>1, <3>1, <3>2
  <2>5. ASSUME NEW i \in 1..last
        PROVE  Calls(FunctionNamed(callers'[i].function), callers'[i].pointer)
    BY <2>1 DEF IInv, Activations, This
  <2>6. FunctionAt(1)' = "main"
    BY <2>1, <2>2 DEF IInv, Activations
  <2>7. \A g : FunctionNamed(g)' = FunctionNamed(g)
    BY <1>2 DEF FunctionNamed
  <2> QED
    BY <2>1, <2>4, <2>5, <2>6, <2>7 DEF Activations
<1> QED
  BY <1>2, <1>19, <1>20, <1>21, <1>22, <1>23 DEF GoodStep

(* The frame of a native function has no references.                       *)
LEMMA NativeFrame ==
  ASSUME IInv, NEW f \in DOMAIN Natives, NEW n \in 0..Len(Stack), n + 1 \in 1..Len(Stack),
         Operand(n + 1).kind = "Closure"
  PROVE  NewFrame(Natives[f], n) \in FrameObject(functions, heap)
<1>1. /\ Natives[f].local_vars \in Nat /\ Natives[f].free_vars = 0 /\ 0 \in Nat
      /\ Natives[f].local_reference_indices = << >>
  BY DEF Natives, NativeFunction
<1>2. Arguments(n, Natives[f].local_vars) \in Seq(Value(functions, heap))
  BY <1>1, ArgumentsType
<1>3. References(Natives[f], Operand(n + 1).free)
        \in Seq(Slot(functions, heap))
  <2>1. /\ Natives[f].local_reference_indices \in Seq(Nat)
        /\ \A k \in 1..Len(Natives[f].local_reference_indices) :
             Heap(Fresh(k + 1)) \in PointerTo(heap, {"Reference"})
    BY <1>1
  <2>2. /\ Operand(n + 1).free \in Seq(PointerTo(heap, {"Reference"}))
        /\ Len(Operand(n + 1).free) >= Natives[f].free_vars
    BY <1>1, ClosureOperand
  <2> QED
    BY <1>1, <2>1, <2>2, ReferencesType
<1>4. << >> \in Seq(Value(functions, heap))
  OBVIOUS
<1> QED
  BY <1>2, <1>3, <1>4 DEF NewFrame, Frame, FrameObject

LEMMA AnswerStep ==
  ASSUME IInv, NEW f \in DOMAIN Natives, NEW n \in 0..Len(Stack), n + 1 \in 1..Len(Stack),
         Operand(n + 1).kind = "Closure", FreeAddresses # {},
         NEW newHeap, DOMAIN newHeap = Address,
         \A a \in Address : heap[a].kind # "Free" => newHeap[a] = heap[a],
         \A a \in Address : SoundObject(functions, heap, newHeap[a]),
         NEW p \in Value(functions, heap'), NEW text, Answer(f, n, p, newHeap, text)
  PROVE  GoodStep
<1> DEFINE frame == NewFrame(Natives[f], n)
           stack == Append(Below(n + 1), p)
<1>1. Fresh(1) \in Address /\ heap[Fresh(1)] = Free /\ Fresh(1) # Top
  BY FirstFresh
<1>2. /\ Top \in Address /\ heap[Top].kind = "Frame" /\ heap[Top] \in FrameObject(functions, heap)
  BY RunningFrames, FrameFields
<1>3. newHeap[Top] = heap[Top]
  BY <1>2
<1>4. /\ heap' = [newHeap EXCEPT ![Top].stack = stack, ![Fresh(1)] = frame]
      /\ instruction_pointer_' \in Int
      /\ UNCHANGED <<functions, callers, stack_frames_, current_function_, status>>
  BY DEF Answer, IInv, TypeOK
<1>5. frame \in FrameObject(functions, heap) /\ frame.kind = "Frame"
  BY NativeFrame, FrameFields
<1> HIDE DEF frame, stack
<1>6. [heap[Top] EXCEPT !.stack = stack] = WithStack(heap[Top], stack)
  BY <1>2, WithStackFrame
<1>7. heap'[Top] = WithStack(heap[Top], stack)
  BY <1>1, <1>2, <1>3, <1>4, <1>6
<1>8. heap'[Fresh(1)] = frame
  BY <1>1, <1>4
<1>9. DOMAIN heap' = Address /\ \A a \in Address \ {Top, Fresh(1)} : heap'[a] = newHeap[a]
  BY <1>1, <1>2, <1>4
<1>10. Keeps(heap, heap')
  BY <1>1, <1>2, <1>7, <1>9, WithStackFields DEF Keeps, Free
<1>11. SoundObject(functions, heap', heap'[Top])
  <2>1. SoundObject(functions, heap', heap[Top])
    BY <1>2, <1>10, KeepsSound DEF IInv, SoundHeap
  <2>2. heap[Top] \in FrameObject(functions, heap')
    BY <1>2, <2>1 DEF SoundObject
  <2>3. Below(n + 1) \in Seq(Value(functions, heap'))
    BY <1>10, Operands, KeepsPointers, SeqMonotone
  <2>4. stack \in Seq(Value(functions, heap'))
    BY <2>3 DEF stack
  <2>5. heap'[Top] \in FrameObject(functions, heap')
    BY <1>7, <2>2, <2>4, WithStackFrame
  <2>6. heap'[Top].kind = "Frame"
    BY <1>7, WithStackFields
  <2> QED
    BY <2>5, <2>6 DEF SoundObject, Fits
<1>12. SoundObject(functions, heap, heap'[Fresh(1)])
  BY <1>5, <1>8 DEF SoundObject, Fits
<1>13. \A a \in Address : \/ SoundObject(functions, heap, heap'[a])
                          \/ SoundObject(functions, heap', heap'[a])
  BY <1>9, <1>11, <1>12
<1>14. \A a \in Address \ {Top} : heap[a].kind = "Frame" => heap'[a].stack = heap[a].stack
  BY <1>1, <1>9 DEF Free
<1> QED
  BY <1>4, <1>9, <1>10, <1>13, <1>14, HeapStep

LEMMA AnswerNewStep ==
  ASSUME IInv, NEW f \in DOMAIN Natives, NEW n \in 0..Len(Stack), n + 1 \in 1..Len(Stack),
         Operand(n + 1).kind = "Closure",
         NEW x, x.kind \in OperandKind, SoundObject(functions, heap, x), AnswerNew(f, n, x)
  PROVE  GoodStep
<1> DEFINE newHeap == [heap EXCEPT ![Fresh(2)] = x]
<1>1. Cardinality(FreeAddresses) > 1 /\ Answer(f, n, Heap(Fresh(2)), newHeap, << >>)
  BY DEF AnswerNew
<1>2. 1 \in 1..Cardinality(FreeAddresses) /\ 2 \in 1..Cardinality(FreeAddresses)
  BY <1>1, FreeFinite
<1>3. FreeAddresses # {}
  BY <1>2, FreshRank
<1>4. /\ Fresh(2) \in Address /\ heap[Fresh(2)] = Free
      /\ Fresh(1) \in Address /\ heap[Fresh(1)] = Free
  BY <1>2, FreshFree
<1>5. Fresh(1) # Fresh(2)
  BY <1>2, FreshDistinct
<1>6. Top \in Address /\ heap[Top].kind = "Frame"
  BY RunningFrames, FrameFields
<1>7. DOMAIN newHeap = Address /\ newHeap[Fresh(2)] = x
  BY <1>4 DEF IInv, TypeOK
<1>8. \A a \in Address : heap[a].kind # "Free" => newHeap[a] = heap[a]
  BY <1>4 DEF Free, IInv, TypeOK
<1>9. \A a \in Address : SoundObject(functions, heap, newHeap[a])
  BY <1>4 DEF IInv, SoundHeap, TypeOK
<1>10. heap' = [newHeap EXCEPT ![Top].stack = Append(Below(n + 1), Heap(Fresh(2))),
                               ![Fresh(1)] = NewFrame(Natives[f], n)]
  BY <1>1 DEF Answer
<1> HIDE DEF newHeap
<1>11. heap'[Fresh(2)] = x
  BY <1>4, <1>5, <1>6, <1>7, <1>10 DEF Free
<1>12. Heap(Fresh(2)) \in Value(functions, heap')
  BY <1>4, <1>11 DEF Heap, Value, PointerTo, OfKind
<1> QED
  BY <1>1, <1>3, <1>7, <1>8, <1>9, <1>12, AnswerStep

-----------------------------------------------------------------------------
(* The instructions.                                                       *)

LEMMA FaultStep ==
  ASSUME IInv, NEW asked, Fault(asked) # "none", Throw(Fault(asked))
  PROVE  GoodStep
  BY FaultOutcome, ThrowStep

LEMMA PrintFaultStep ==
  ASSUME IInv, NEW p \in Value(functions, heap),
         toString(p).fault # "none", Throw(toString(p).fault)
  PROVE  GoodStep
  BY PrintFaultOutcome, ThrowStep

LEMMA NewIntegerStep ==
  ASSUME IInv, NEW n \in 0..Len(Stack), NEW v \in INT_MIN..INT_MAX, YieldNew(n, Integer(v))
  PROVE  GoodStep
<1>1. Integer(v).kind \in OperandKind /\ SoundObject(functions, heap, Integer(v))
  BY DEF Integer, OperandKind, SoundObject, Fits
<1> QED
  BY <1>1, YieldNewStep

LEMMA NewStringStep ==
  ASSUME IInv, NEW n \in 0..Len(Stack), NEW s, YieldNew(n, String(s))
  PROVE  GoodStep
<1>1. String(s).kind \in OperandKind /\ SoundObject(functions, heap, String(s))
  BY DEF String, OperandKind, SoundObject, Fits
<1> QED
  BY <1>1, YieldNewStep

LEMMA LoadConstStep ==
  ASSUME IInv, NEW n, LoadConst(n)
  PROVE  GoodStep
<1>1. CASE ~Valid(This.constants, n)
  BY <1>1, ThrowStep DEF LoadConst, Within, Outcome
<1>2. CASE Valid(This.constants, n)
  <2>1. This.constants[n + 1] \in Constant
    BY <1>2, ThisTyped DEF TypedFunction, Valid
  <2>2. Static(This.constants[n + 1]) \in Value(functions, heap)
    BY <2>1 DEF Static, Value, StaticObject
  <2>3. 0 \in 0..Len(Stack)
    BY Operands
  <2> QED
    BY <1>2, <2>2, <2>3, YieldStep DEF LoadConst, Within
<1> QED
  BY <1>1, <1>2

LEMMA LoadFuncStep ==
  ASSUME IInv, NEW n, LoadFunc(n)
  PROVE  GoodStep
<1>1. CASE ~Valid(This.functions, n)
  BY <1>1, ThrowStep DEF LoadFunc, Within, Outcome
<1>2. CASE Valid(This.functions, n)
  <2>1. This.functions[n + 1] \in FunctionNames(functions)
    BY <1>2, ThisTyped DEF TypedFunction, Valid
  <2>2. Static(Function(This.functions[n + 1])) \in Value(functions, heap)
    BY <2>1 DEF Static, Function, Value, StaticObject
  <2>3. 0 \in 0..Len(Stack)
    BY Operands
  <2> QED
    BY <1>2, <2>2, <2>3, YieldStep DEF LoadFunc, Within
<1> QED
  BY <1>1, <1>2

LEMMA GetLocalVarStep ==
  ASSUME IInv, NEW frame \in OfKind(heap, {"Frame"}), NEW n,
         NEW popped \in 0..Len(Stack), GetLocalVar(frame, n, popped)
  PROVE  GoodStep
<1>1. CASE ~Valid(heap[frame].locals, n)
  BY <1>1, ThrowStep DEF GetLocalVar, Within, Outcome
<1>2. CASE Valid(heap[frame].locals, n)
  <2>1. heap[frame] \in FrameObject(functions, heap)
    BY DEF OfKind, IInv, SoundHeap, SoundObject
  <2>2. heap[frame].locals \in Seq(Value(functions, heap))
    BY <2>1, FrameFields
  <2>3. heap[frame].locals[n + 1] \in Value(functions, heap)
    BY <1>2, <2>2 DEF Valid
  <2> QED
    BY <1>2, <2>3, YieldStep DEF GetLocalVar, Within
<1> QED
  BY <1>1, <1>2

(* The frames an instruction names.                                        *)
LEMMA NamedFrames ==
  ASSUME IInv
  PROVE  Top \in OfKind(heap, {"Frame"}) /\ GlobalFrame \in OfKind(heap, {"Frame"})
  BY RunningFrames, FrameFields DEF OfKind

LEMMA LoadLocalStep ==
  ASSUME IInv, NEW n, LoadLocal(n)
  PROVE  GoodStep
<1>1. 0 \in 0..Len(Stack)
  BY Operands
<1> QED
  BY <1>1, NamedFrames, GetLocalVarStep DEF LoadLocal

LEMMA PopOne ==
  ASSUME IInv, Fault(<<Pop(1)>>) = "none"
  PROVE  1 \in 0..Len(Stack) /\ Peek(1) \in Value(functions, heap)
  BY GivenOne, MeetsOperand

LEMMA StoreLocalStep ==
  ASSUME IInv, NEW n, StoreLocal(n)
  PROVE  GoodStep
<1>1. CASE Fault(<<Pop(1)>>) # "none"
  BY <1>1, FaultStep DEF StoreLocal, Given
<1>2. CASE Fault(<<Pop(1)>>) = "none"
  BY <1>2, PopOne, NamedFrames, SetLocalVarStep DEF StoreLocal, Given
<1> QED
  BY <1>1, <1>2

LEMMA LoadGlobalStep ==
  ASSUME IInv, NEW n, LoadGlobal(n)
  PROVE  GoodStep
<1>1. CASE ~Valid(This.names, n)
  BY <1>1, ThrowStep DEF LoadGlobal, Within, Outcome
<1>2. CASE Valid(This.names, n)
  <2>1. 0 \in 0..Len(Stack)
    BY Operands
  <2> QED
    BY <1>2, <2>1, NamedFrames, GetLocalVarStep DEF LoadGlobal, Within
<1> QED
  BY <1>1, <1>2

LEMMA StoreGlobalStep ==
  ASSUME IInv, NEW n, StoreGlobal(n)
  PROVE  GoodStep
<1>1. CASE Fault(<<Pop(1)>>) # "none"
  BY <1>1, FaultStep DEF StoreGlobal, Given
<1>2. CASE Fault(<<Pop(1)>>) = "none"
  <2>1. CASE ~Valid(This.names, n)
    BY <1>2, <2>1, ThrowStep DEF StoreGlobal, Given, Within, Outcome
  <2>2. CASE Valid(This.names, n)
    BY <1>2, <2>2, PopOne, NamedFrames, SetLocalVarStep DEF StoreGlobal, Given, Within
  <2> QED
    BY <2>1, <2>2
<1> QED
  BY <1>1, <1>2

LEMMA PushReferenceStep ==
  ASSUME IInv, NEW n, PushReference(n)
  PROVE  GoodStep
<1>1. CASE ~Valid(heap[Top].refs, n)
  BY <1>1, ThrowStep DEF PushReference, Outcome
<1>2. CASE Valid(heap[Top].refs, n)
  <2>1. heap[Top].refs \in Seq(Slot(functions, heap))
    BY RunningFrames, FrameFields
  <2>2. heap[Top].refs[n + 1] \in Slot(functions, heap)
    BY <1>2, <2>1 DEF Valid
  <2>3. heap[Top].refs[n + 1] \in Value(functions, heap) /\ 0 \in 0..Len(Stack)
    BY <2>2, SlotIsValue, Operands
  <2> QED
    BY <1>2, <2>3, YieldStep DEF PushReference
<1> QED
  BY <1>1, <1>2

LEMMA PushUnresolvedStep ==
  ASSUME IInv, PushUnresolved
  PROVE  GoodStep
  BY ThrowStep DEF PushUnresolved, Outcome

(* A reference among the operands leads to a frame.                        *)
LEMMA ReferenceOperand ==
  ASSUME IInv, Meets(Is(1, "Reference"))
  PROVE  1 \in 0..Len(Stack) /\ Operand(1).frame \in OfKind(heap, {"Frame"})
<1>1. 1 \in 0..Len(Stack) /\ Peek(1) \in Value(functions, heap) /\ Deref(Peek(1)).kind = "Reference"
  BY MeetsOperand
<1>2. SoundObject(functions, heap, Operand(1)) /\ Operand(1).kind = "Reference"
  BY <1>1, HeapOperand DEF Operand
<1> QED
  BY <1>1, <1>2 DEF SoundObject, ReferenceObject

LEMMA LoadReferenceStep ==
  ASSUME IInv, LoadReference
  PROVE  GoodStep
<1> DEFINE asked == <<Is(1, "Reference")>>
<1>1. CASE Fault(asked) # "none"
  BY <1>1, FaultStep DEF LoadReference, Given
<1>2. CASE Fault(asked) = "none"
  <2>1. Meets(Is(1, "Reference"))
    BY <1>2, GivenOne
  <2> QED
    BY <1>2, <2>1, ReferenceOperand, GetLocalVarStep DEF LoadReference, Given
<1> QED
  BY <1>1, <1>2

LEMMA StoreReferenceStep ==
  ASSUME IInv, StoreReference
  PROVE  GoodStep
<1> DEFINE asked == <<Is(1, "Reference"), Pop(2)>>
<1>1. CASE Fault(asked) # "none"
  BY <1>1, FaultStep DEF StoreReference, Given
<1>2. CASE Fault(asked) = "none"
  <2>1. Meets(Is(1, "Reference")) /\ Meets(Pop(2))
    BY <1>2, GivenTwo
  <2>2. 2 \in 0..Len(Stack) /\ Peek(2) \in Value(functions, heap)
    BY <2>1, MeetsOperand
  <2> QED
    BY <1>2, <2>1, <2>2, ReferenceOperand, SetLocalVarStep DEF StoreReference, Given
<1> QED
  BY <1>1, <1>2

LEMMA AllocRecordStep ==
  ASSUME IInv, AllocRecord
  PROVE  GoodStep
<1>1. Record(<< >>).kind \in OperandKind /\ SoundObject(functions, heap, Record(<< >>))
  BY DEF Record, OperandKind, SoundObject, Fits
<1>2. 0 \in 0..Len(Stack)
  BY Operands
<1> QED
  BY <1>1, <1>2, YieldNewStep DEF AllocRecord

(* A field that a record does not have is None.                            *)
LEMMA RecordOperand ==
  ASSUME IInv, NEW i \in Nat \ {0}, Meets(Is(i, "Record"))
  PROVE  /\ i \in 0..Len(Stack) /\ i \in 1..Len(Stack) /\ Operand(i).kind = "Record"
         /\ \A k : GetField(Operand(i), k) \in Value(functions, heap)
<1>1. /\ i \in 0..Len(Stack) /\ Peek(i) \in Value(functions, heap)
      /\ Deref(Peek(i)).kind = "Record" /\ Operand(i) = Deref(Peek(i))
  BY MeetsOperand
<1>2. SoundObject(functions, heap, Operand(i)) /\ Operand(i).kind = "Record"
  BY <1>1, HeapOperand
<1>3. \A k \in DOMAIN Operand(i).map : Operand(i).map[k] \in Value(functions, heap)
  BY <1>2 DEF SoundObject
<1>4. i \in 1..Len(Stack)
  BY <1>1
<1> QED
  BY <1>1, <1>2, <1>3, <1>4, NoneIsValue DEF GetField

LEMMA FieldLoadStep ==
  ASSUME IInv, NEW n, FieldLoad(n)
  PROVE  GoodStep
<1> DEFINE asked == <<Is(1, "Record")>>
<1>1. CASE Fault(asked) # "none"
  BY <1>1, FaultStep DEF FieldLoad, Given
<1>2. CASE Fault(asked) = "none"
  <2>1. CASE ~Valid(This.names, n)
    BY <1>2, <2>1, ThrowStep DEF FieldLoad, Given, Within, Outcome
  <2>2. CASE Valid(This.names, n)
    <3>1. Meets(Is(1, "Record"))
      BY <1>2, GivenOne
    <3>2. /\ 1 \in 0..Len(Stack)
          /\ GetField(Operand(1), This.names[n + 1]) \in Value(functions, heap)
      BY <3>1, RecordOperand
    <3> QED
      BY <1>2, <2>2, <3>2, YieldStep DEF FieldLoad, Given, Within
  <2> QED
    BY <2>1, <2>2
<1> QED
  BY <1>1, <1>2

LEMMA FieldStoreStep ==
  ASSUME IInv, NEW n, FieldStore(n)
  PROVE  GoodStep
<1> DEFINE asked == <<Pop(1), Is(2, "Record")>>
<1>1. CASE ~Valid(This.names, n)
  BY <1>1, ThrowStep DEF FieldStore, Within, Outcome
<1>2. CASE Valid(This.names, n) /\ Fault(asked) # "none"
  BY <1>2, FaultStep DEF FieldStore, Within, Given
<1>3. CASE Valid(This.names, n) /\ Fault(asked) = "none"
  <2>1. Meets(Pop(1)) /\ Meets(Is(2, "Record"))
    BY <1>3, GivenTwo
  <2>2. /\ Peek(1) \in Value(functions, heap)
        /\ 2 \in 1..Len(Stack) /\ Operand(2).kind = "Record"
    BY <2>1, MeetsOperand, RecordOperand
  <2> QED
    BY <1>3, <2>2, SetFieldStep DEF FieldStore, Within, Given
<1> QED
  BY <1>1, <1>2, <1>3

LEMMA IndexLoadStep ==
  ASSUME IInv, IndexLoad
  PROVE  GoodStep
<1>1. CASE Fault(<<Pop(1)>>) # "none"
  BY <1>1, FaultStep DEF IndexLoad, Given
<1>2. CASE Fault(<<Pop(1)>>) = "none" /\ toString(Peek(1)).fault # "none"
  <2>1. Peek(1) \in Value(functions, heap)
    BY <1>2, GivenOne, MeetsOperand
  <2> QED
    BY <1>2, <2>1, PrintFaultStep DEF IndexLoad, Given, Printing
<1>3. CASE Fault(<<Pop(1)>>) = "none" /\ toString(Peek(1)).fault = "none"
  <2> DEFINE asked == <<Is(2, "Record")>>
  <2>1. CASE Fault(asked) # "none"
    BY <1>3, <2>1, FaultStep DEF IndexLoad, Given, Printing
  <2>2. CASE Fault(asked) = "none"
    <3>1. Meets(Is(2, "Record"))
      BY <2>2, GivenOne
    <3>2. /\ 2 \in 0..Len(Stack)
          /\ GetField(Operand(2), toString(Peek(1)).text) \in Value(functions, heap)
      BY <3>1, RecordOperand
    <3>3. Yield(2, GetField(Operand(2), toString(Peek(1)).text))
      BY <1>3, <2>2 DEF IndexLoad, Given, Printing
    <3> QED
      BY <3>2, <3>3, YieldStep
  <2> QED
    BY <2>1, <2>2
<1> QED
  BY <1>1, <1>2, <1>3

LEMMA IndexStoreStep ==
  ASSUME IInv, IndexStore
  PROVE  GoodStep
<1> DEFINE first == <<Pop(1), Pop(2)>>
<1>1. CASE Fault(first) # "none"
  BY <1>1, FaultStep DEF IndexStore, Given
<1>2. CASE Fault(first) = "none" /\ toString(Peek(2)).fault # "none"
  <2>1. Peek(2) \in Value(functions, heap)
    BY <1>2, GivenTwo, MeetsOperand
  <2> QED
    BY <1>2, <2>1, PrintFaultStep DEF IndexStore, Given, Printing
<1>3. CASE Fault(first) = "none" /\ toString(Peek(2)).fault = "none"
  <2> DEFINE asked == <<Is(3, "Record")>>
  <2>1. CASE Fault(asked) # "none"
    BY <1>3, <2>1, FaultStep DEF IndexStore, Given, Printing
  <2>2. CASE Fault(asked) = "none"
    <3>1. Meets(Pop(1)) /\ Meets(Is(3, "Record"))
      BY <1>3, <2>2, GivenOne, GivenTwo
    <3>2. /\ Peek(1) \in Value(functions, heap)
          /\ 3 \in 1..Len(Stack) /\ Operand(3).kind = "Record"
      BY <3>1, MeetsOperand, RecordOperand
    <3>3. SetField(3, toString(Peek(2)).text, Peek(1))
      BY <1>3, <2>2 DEF IndexStore, Given, Printing
    <3> QED
      BY <3>2, <3>3, SetFieldStep
  <2> QED
    BY <2>1, <2>2
<1> QED
  BY <1>1, <1>2, <1>3

LEMMA AllocClosureStep ==
  ASSUME IInv, NEW n \in Nat, instruction_pointer_ + 1 \in 1..Len(This.instructions),
         NEW instruction \in This.instructions[instruction_pointer_ + 1],
         instruction[1] = "AllocClosure", instruction[2] = n, AllocClosure(n)
  PROVE  GoodStep
<1> DEFINE asked == [i \in 1..n |-> Is(i, "Reference")] \o <<Is(n + 1, "Function")>>
<1>1. CASE Fault(asked) # "none"
  BY <1>1, FaultStep DEF AllocClosure, Given
<1>2. CASE Fault(asked) = "none"
  <2> DEFINE free == [i \in 1..n |-> Peek(n + 1 - i)]
             x == Closure(Operand(n + 1).function, free)
  <2>1. /\ \A i \in 1..n : i \in DOMAIN asked /\ asked[i] = Is(i, "Reference")
        /\ n + 1 \in DOMAIN asked /\ asked[n + 1] = Is(n + 1, "Function")
    OBVIOUS
  <2>2. Meets(Is(n + 1, "Function")) /\ \A i \in 1..n : Meets(Is(i, "Reference"))
    <3> HIDE DEF asked
    <3> QED
      BY <1>2, <2>1, FaultOutcome
  <2>3. /\ n + 1 \in 0..Len(Stack) /\ Peek(n + 1) \in Value(functions, heap)
        /\ Operand(n + 1) = Deref(Peek(n + 1)) /\ Operand(n + 1).kind = "Function"
    BY <2>2, MeetsOperand
  <2>4. Operand(n + 1).function \in FunctionNames(functions)
    BY <2>3, FunctionOperand
  <2>5. ASSUME NEW i \in 1..n PROVE Peek(i) \in PointerTo(heap, {"Reference"})
    <3>1. /\ Peek(i) \in Value(functions, heap) /\ Deref(Peek(i)).kind = "Reference"
      BY <2>2, MeetsOperand
    <3> QED
      BY <3>1, HeapOperand
  <2>6. free \in Seq(PointerTo(heap, {"Reference"}))
    <3>1. \A i \in 1..n : n + 1 - i \in 1..n
      OBVIOUS
    <3>2. \A i \in 1..n : Peek(n + 1 - i) \in PointerTo(heap, {"Reference"})
      BY <2>5, <3>1
    <3> QED
      BY <3>2
  <2>7. Len(free) = n
    OBVIOUS
  <2> HIDE DEF free
  <2>8. ConsistentTable(functions) => FreeVariables(functions, Operand(n + 1).function) = n
    <3> SUFFICES ASSUME ConsistentTable(functions)
                 PROVE  FreeVariables(functions, Operand(n + 1).function) = n
      OBVIOUS
    <3> DEFINE q == instruction_pointer_ + 1
    <3>1. q \in (q - n)..q /\ instruction_pointer_ + 2 + n - q = n + 1
      BY DEF IInv, TypeOK
    <3>2. CapturedFunction(n + 1, n)
      BY <3>1 DEF IInv, Capturing
    <3>3. PICK f \in FunctionNames(functions) :
            Peek(n + 1) = Static(Function(f)) /\ FreeVariables(functions, f) = n
      BY <3>2 DEF CapturedFunction
    <3>4. Operand(n + 1).function = f
      BY <3>3 DEF Operand, Deref, Static, Function
    <3> QED
      BY <3>3, <3>4
  <2>9. x.kind \in OperandKind /\ SoundObject(functions, heap, x)
    <3>1. /\ x.kind = "Closure" /\ x.free = free /\ x.function = Operand(n + 1).function
          /\ x = [kind |-> "Closure", function |-> x.function, free |-> x.free]
      BY DEF Closure
    <3> HIDE DEF x
    <3>2. Fits(functions, heap, x)
      BY <2>7, <2>8, <3>1 DEF Fits
    <3> QED
      BY <2>4, <2>6, <3>1, <3>2 DEF ClosureObject, OperandKind, SoundObject
  <2>10. YieldNew(n + 1, x)
    BY <1>2 DEF AllocClosure, Given, free
  <2> HIDE DEF x
  <2> QED
    BY <2>3, <2>9, <2>10, YieldNewStep
<1> QED
  BY <1>1, <1>2

(* Two integers on the stack.                                              *)
LEMMA GivenIntegers ==
  ASSUME IInv, Fault(Integers) = "none"
  PROVE  /\ 2 \in 0..Len(Stack)
         /\ Operand(1).int \in INT_MIN..INT_MAX /\ Operand(2).int \in INT_MIN..INT_MAX
         /\ Operand(1).int \in Int /\ Operand(2).int \in Int
<1>1. Meets(Is(1, "Integer")) /\ Meets(Is(2, "Integer"))
  BY GivenTwo DEF Integers
<1>2. /\ 2 \in 0..Len(Stack)
      /\ Peek(1) \in Value(functions, heap) /\ Peek(2) \in Value(functions, heap)
      /\ Operand(1) = Deref(Peek(1)) /\ Operand(1).kind = "Integer"
      /\ Operand(2) = Deref(Peek(2)) /\ Operand(2).kind = "Integer"
  BY <1>1, MeetsOperand
<1>3. Operand(1).int \in INT_MIN..INT_MAX /\ Operand(2).int \in INT_MIN..INT_MAX
  BY <1>2, IntegerOperand
<1> QED
  BY <1>2, <1>3

LEMMA SubStep ==
  ASSUME IInv, Sub
  PROVE  GoodStep
<1>1. CASE Fault(Integers) # "none"
  BY <1>1, FaultStep DEF Sub, Given
<1>2. CASE Fault(Integers) = "none"
  <2>1. Operand(2).int - Operand(1).int \in Int
    BY <1>2, GivenIntegers
  <2>2. Wrap(Operand(2).int - Operand(1).int) \in INT_MIN..INT_MAX
    BY <2>1, WrapType
  <2> QED
    BY <1>2, <2>2, GivenIntegers, NewIntegerStep DEF Sub, Given
<1> QED
  BY <1>1, <1>2

LEMMA MulStep ==
  ASSUME IInv, Mul
  PROVE  GoodStep
<1>1. CASE Fault(Integers) # "none"
  BY <1>1, FaultStep DEF Mul, Given
<1>2. CASE Fault(Integers) = "none"
  <2>1. Operand(2).int * Operand(1).int \in Int
    BY <1>2, GivenIntegers
  <2>2. Wrap(Operand(2).int * Operand(1).int) \in INT_MIN..INT_MAX
    BY <2>1, WrapType
  <2> QED
    BY <1>2, <2>2, GivenIntegers, NewIntegerStep DEF Mul, Given
<1> QED
  BY <1>1, <1>2

LEMMA DivStep ==
  ASSUME IInv, Div
  PROVE  GoodStep
<1>1. CASE Fault(Integers) # "none"
  BY <1>1, FaultStep DEF Div, Given
<1>2. CASE Fault(Integers) = "none"
  <2> DEFINE b == Operand(1).int
             a == Operand(2).int
  <2>1. CASE b = 0
    BY <1>2, <2>1, ThrowStep DEF Div, Given, Outcome
  <2>2. CASE b # 0 /\ b = -1 /\ a = INT_MIN
    BY <1>2, <2>2, ThrowStep DEF Div, Given, Outcome
  <2>3. CASE b # 0 /\ ~(b = -1 /\ a = INT_MIN)
    <3>1. a \in INT_MIN..INT_MAX /\ b \in INT_MIN..INT_MAX /\ 2 \in 0..Len(Stack)
      BY <1>2, GivenIntegers
    <3>2. YieldNew(2, Integer(Quotient(a, b)))
      BY <1>2, <2>3 DEF Div, Given
    <3> HIDE DEF a, b
    <3>3. Quotient(a, b) \in INT_MIN..INT_MAX
      BY <2>3, <3>1, QuotientType
    <3> QED
      BY <3>1, <3>2, <3>3, NewIntegerStep
  <2> QED
    BY <2>1, <2>2, <2>3
<1> QED
  BY <1>1, <1>2

LEMMA NegStep ==
  ASSUME IInv, Neg
  PROVE  GoodStep
<1> DEFINE asked == <<Is(1, "Integer")>>
<1>1. CASE Fault(asked) # "none"
  BY <1>1, FaultStep DEF Neg, Given
<1>2. CASE Fault(asked) = "none"
  <2>1. Meets(Is(1, "Integer"))
    BY <1>2, GivenOne
  <2>2. /\ 1 \in 0..Len(Stack) /\ Peek(1) \in Value(functions, heap)
        /\ Operand(1) = Deref(Peek(1)) /\ Operand(1).kind = "Integer"
    BY <2>1, MeetsOperand
  <2>3. Operand(1).int \in INT_MIN..INT_MAX
    BY <2>2, IntegerOperand
  <2>4. Operand(1).int \in Int /\ -Operand(1).int \in Int
    BY <2>3, WidthAssumption DEF INT_MIN
  <2>5. Wrap(-Operand(1).int) \in INT_MIN..INT_MAX
    BY <2>4, WrapType
  <2> QED
    BY <1>2, <2>2, <2>5, NewIntegerStep DEF Neg, Given
<1> QED
  BY <1>1, <1>2

LEMMA AddStep ==
  ASSUME IInv, Add
  PROVE  GoodStep
<1> DEFINE asked == <<Pop(1), Pop(2), Typed(2), Typed(1)>>
<1>1. CASE Fault(asked) # "none"
  BY <1>1, FaultStep DEF Add, Given
<1>2. CASE Fault(asked) = "none"
  <2>1. Meets(Pop(1)) /\ Meets(Pop(2))
    BY <1>2, GivenFour
  <2>2. /\ 2 \in 0..Len(Stack)
        /\ Peek(1) \in Value(functions, heap) /\ Peek(2) \in Value(functions, heap)
    BY <2>1, MeetsOperand
  <2>3. CASE {Operand(1).kind, Operand(2).kind} = {"Integer"}
    <3>1. YieldNew(2, Integer(Wrap(Operand(2).int + Operand(1).int)))
      BY <1>2, <2>3 DEF Add, Given
    <3>2. Operand(1).kind = "Integer" /\ Operand(2).kind = "Integer"
      BY <2>3
    <3>3. Operand(1).int \in INT_MIN..INT_MAX /\ Operand(2).int \in INT_MIN..INT_MAX
      BY <2>2, <3>2, IntegerOperand DEF Operand
    <3>4. Operand(2).int + Operand(1).int \in Int
      BY <3>3, WidthAssumption DEF INT_MIN
    <3>5. Wrap(Operand(2).int + Operand(1).int) \in INT_MIN..INT_MAX
      BY <3>4, WrapType
    <3> QED
      BY <2>2, <3>1, <3>5, NewIntegerStep
  <2>4. CASE /\ {Operand(1).kind, Operand(2).kind} # {"Integer"}
             /\ "String" \in {Operand(1).kind, Operand(2).kind}
    <3> DEFINE text == toString(Peek(2)).text \o toString(Peek(1)).text
    <3>1. Printing(Peek(2), Printing(Peek(1), YieldNew(2, String(text))))
      BY <1>2, <2>4 DEF Add, Given
    <3> HIDE DEF text
    <3>2. CASE toString(Peek(2)).fault # "none"
      BY <2>2, <3>1, <3>2, PrintFaultStep DEF Printing
    <3>3. CASE toString(Peek(2)).fault = "none" /\ toString(Peek(1)).fault # "none"
      BY <2>2, <3>1, <3>3, PrintFaultStep DEF Printing
    <3>4. CASE toString(Peek(2)).fault = "none" /\ toString(Peek(1)).fault = "none"
      BY <2>2, <3>1, <3>4, NewStringStep DEF Printing
    <3> QED
      BY <3>2, <3>3, <3>4
  <2>5. CASE /\ {Operand(1).kind, Operand(2).kind} # {"Integer"}
             /\ "String" \notin {Operand(1).kind, Operand(2).kind}
    BY <1>2, <2>5, ThrowStep DEF Add, Given, Outcome
  <2> QED
    BY <2>3, <2>4, <2>5
<1> QED
  BY <1>1, <1>2

LEMMA YieldTruthStep ==
  ASSUME IInv, NEW n \in 0..Len(Stack), NEW b \in BOOLEAN, Yield(n, Truth(b))
  PROVE  GoodStep
  BY TruthIsValue, YieldStep

LEMMA GtStep ==
  ASSUME IInv, Gt
  PROVE  GoodStep
<1>1. CASE Fault(Integers) # "none"
  BY <1>1, FaultStep DEF Gt, Given
<1>2. CASE Fault(Integers) = "none"
  <2>1. (Operand(2).int > Operand(1).int) \in BOOLEAN
    OBVIOUS
  <2> QED
    BY <1>2, <2>1, GivenIntegers, YieldTruthStep DEF Gt, Given
<1> QED
  BY <1>1, <1>2

LEMMA GeqStep ==
  ASSUME IInv, Geq
  PROVE  GoodStep
<1>1. CASE Fault(Integers) # "none"
  BY <1>1, FaultStep DEF Geq, Given
<1>2. CASE Fault(Integers) = "none"
  <2>1. (Operand(2).int >= Operand(1).int) \in BOOLEAN
    OBVIOUS
  <2> QED
    BY <1>2, <2>1, GivenIntegers, YieldTruthStep DEF Geq, Given
<1> QED
  BY <1>1, <1>2

LEMMA EqStep ==
  ASSUME IInv, Eq
  PROVE  GoodStep
<1> DEFINE asked == <<Pop(1), Pop(2), Typed(2), Typed(1)>>
           equal == CASE Operand(1).kind # Operand(2).kind -> FALSE
                      [] Operand(1).kind = "Record" -> Peek(1) = Peek(2)
                      [] Operand(1).kind \in {"Integer", "String", "Boolean", "None"} ->
                           Operand(1) = Operand(2)
                      [] OTHER -> FALSE
<1>1. CASE Fault(asked) # "none"
  BY <1>1, FaultStep DEF Eq, Given
<1>2. CASE Fault(asked) = "none"
  <2>1. Meets(Pop(2))
    BY <1>2, GivenFour
  <2>2. 2 \in 0..Len(Stack)
    BY <2>1, MeetsOperand
  <2>3. equal \in BOOLEAN
    OBVIOUS
  <2>4. Yield(2, Truth(equal))
    BY <1>2 DEF Eq, Given
  <2> HIDE DEF equal
  <2> QED
    BY <2>2, <2>3, <2>4, YieldTruthStep
<1> QED
  BY <1>1, <1>2

LEMMA GivenBooleans ==
  ASSUME IInv, Fault(Booleans) = "none"
  PROVE  2 \in 0..Len(Stack)
<1>1. Meets(Pop(2))
  BY GivenFour DEF Booleans
<1> QED
  BY <1>1, MeetsOperand

LEMMA AndStep ==
  ASSUME IInv, And
  PROVE  GoodStep
<1> DEFINE both == Operand(2).bool /\ Operand(1).bool
<1>1. CASE Fault(Booleans) # "none"
  BY <1>1, FaultStep DEF And, Given
<1>2. CASE Fault(Booleans) = "none"
  <2>1. both \in BOOLEAN
    OBVIOUS
  <2>2. Yield(2, Truth(both))
    BY <1>2 DEF And, Given
  <2> HIDE DEF both
  <2> QED
    BY <1>2, <2>1, <2>2, GivenBooleans, YieldTruthStep
<1> QED
  BY <1>1, <1>2

LEMMA OrStep ==
  ASSUME IInv, Or
  PROVE  GoodStep
<1> DEFINE either == Operand(2).bool \/ Operand(1).bool
<1>1. CASE Fault(Booleans) # "none"
  BY <1>1, FaultStep DEF Or, Given
<1>2. CASE Fault(Booleans) = "none"
  <2>1. either \in BOOLEAN
    OBVIOUS
  <2>2. Yield(2, Truth(either))
    BY <1>2 DEF Or, Given
  <2> HIDE DEF either
  <2> QED
    BY <1>2, <2>1, <2>2, GivenBooleans, YieldTruthStep
<1> QED
  BY <1>1, <1>2

LEMMA NotStep ==
  ASSUME IInv, Not
  PROVE  GoodStep
<1> DEFINE asked == <<Is(1, "Boolean")>>
           negated == ~Operand(1).bool
<1>1. CASE Fault(asked) # "none"
  BY <1>1, FaultStep DEF Not, Given
<1>2. CASE Fault(asked) = "none"
  <2>1. Meets(Is(1, "Boolean"))
    BY <1>2, GivenOne
  <2>2. 1 \in 0..Len(Stack)
    BY <2>1, MeetsOperand
  <2>3. negated \in BOOLEAN
    OBVIOUS
  <2>4. Yield(1, Truth(negated))
    BY <1>2 DEF Not, Given
  <2> HIDE DEF negated
  <2> QED
    BY <2>2, <2>3, <2>4, YieldTruthStep
<1> QED
  BY <1>1, <1>2

LEMMA DupStep ==
  ASSUME IInv, Dup
  PROVE  GoodStep
<1>1. CASE Fault(<<Pop(1)>>) # "none"
  BY <1>1, FaultStep DEF Dup, Given
<1>2. CASE Fault(<<Pop(1)>>) = "none"
  <2>1. 1 \in 0..Len(Stack) /\ Peek(1) \in Value(functions, heap)
    BY <1>2, PopOne
  <2>2. <<Peek(1), Peek(1)>> \in Seq(Value(functions, heap))
    BY <2>1
  <2> QED
    BY <1>2, <2>1, <2>2, ContinueStep DEF Dup, Given
<1> QED
  BY <1>1, <1>2

LEMMA SwapStep ==
  ASSUME IInv, Swap
  PROVE  GoodStep
<1>1. CASE Fault(<<Pop(1), Pop(2)>>) # "none"
  BY <1>1, FaultStep DEF Swap, Given
<1>2. CASE Fault(<<Pop(1), Pop(2)>>) = "none"
  <2>1. Meets(Pop(1)) /\ Meets(Pop(2))
    BY <1>2, GivenTwo
  <2>2. /\ Peek(1) \in Value(functions, heap)
        /\ 2 \in 0..Len(Stack) /\ Peek(2) \in Value(functions, heap)
    BY <2>1, MeetsOperand
  <2>3. <<Peek(1), Peek(2)>> \in Seq(Value(functions, heap))
    BY <2>2
  <2> QED
    BY <1>2, <2>2, <2>3, ContinueStep DEF Swap, Given
<1> QED
  BY <1>1, <1>2

LEMMA PopOperandStep ==
  ASSUME IInv, PopOperand
  PROVE  GoodStep
<1>1. CASE Fault(<<Pop(1)>>) # "none"
  BY <1>1, FaultStep DEF PopOperand, Given
<1>2. CASE Fault(<<Pop(1)>>) = "none"
  <2>1. 1 \in 0..Len(Stack)
    BY <1>2, PopOne
  <2>2. << >> \in Seq(Value(functions, heap))
    OBVIOUS
  <2> QED
    BY <1>2, <2>1, <2>2, ContinueStep DEF PopOperand, Given
<1> QED
  BY <1>1, <1>2

LEMMA GotoStep ==
  ASSUME IInv, NEW n \in Int, Goto(n)
  PROVE  GoodStep
<1>1. instruction_pointer_ + n \in Int
  BY DEF IInv, TypeOK
<1> QED
  BY <1>1, StayStep DEF Goto

LEMMA IfStep ==
  ASSUME IInv, NEW n \in Int, If(n)
  PROVE  GoodStep
<1> DEFINE asked == <<Is(1, "Boolean")>>
           target == instruction_pointer_ + (IF Operand(1).bool THEN n ELSE 1)
<1>1. CASE Fault(asked) # "none"
  BY <1>1, FaultStep DEF If, Given
<1>2. CASE Fault(asked) = "none"
  <2>1. Meets(Is(1, "Boolean"))
    BY <1>2, GivenOne
  <2>2. 1 \in 0..Len(Stack)
    BY <2>1, MeetsOperand
  <2>3. target \in Int
    BY DEF IInv, TypeOK
  <2>4. Jump(Replace(1, << >>), target)
    BY <1>2 DEF If, Given
  <2> HIDE DEF target
  <2> QED
    BY <2>2, <2>3, <2>4, JumpStep
<1> QED
  BY <1>1, <1>2

LEMMA ReturnStep ==
  ASSUME IInv, Return
  PROVE  GoodStep
<1>1. CASE Fault(<<Pop(1)>>) # "none"
  BY <1>1, FaultStep DEF Return, Given
<1>2. CASE Fault(<<Pop(1)>>) = "none"
  <2>1. Len(This.instructions) + 1 \in Int
    BY ThisTyped DEF TypedFunction
  <2> QED
    BY <1>2, <2>1, StayStep DEF Return, Given
<1> QED
  BY <1>1, <1>2

LEMMA PrintStep ==
  ASSUME IInv, 2 \in 1..Len(Stack), Operand(2).kind = "Closure", print
  PROVE  GoodStep
<1>1. CASE toString(Peek(1)).fault # "none"
  <2>1. Peek(1) \in Value(functions, heap)
    BY Operands
  <2> QED
    BY <1>1, <2>1, PrintFaultStep DEF print, Printing
<1>2. CASE toString(Peek(1)).fault = "none"
  <2> DEFINE text == <<toString(Peek(1)).text>>
  <2>1. FreeAddresses # {} /\ Answer("print", 1, none_, heap, text)
    BY <1>2 DEF print, Printing
  <2> HIDE DEF text
  <2>2. 1 \in 0..Len(Stack) /\ 1 + 1 \in 1..Len(Stack) /\ Operand(1 + 1).kind = "Closure"
    OBVIOUS
  <2>3. "print" \in DOMAIN Natives
    BY DEF Natives
  <2>4. /\ DOMAIN heap = Address
        /\ \A a \in Address : heap[a].kind # "Free" => heap[a] = heap[a]
        /\ \A a \in Address : SoundObject(functions, heap, heap[a])
    BY DEF IInv, TypeOK, SoundHeap
  <2>5. none_ \in Value(functions, heap')
    BY NoneIsValue
  <2> QED
    BY <2>1, <2>2, <2>3, <2>4, <2>5, AnswerStep
<1> QED
  BY <1>1, <1>2

LEMMA InputStep ==
  ASSUME IInv, 1 \in 1..Len(Stack), Operand(1).kind = "Closure", NEW words, input(words)
  PROVE  GoodStep
<1>1. PICK word \in words : AnswerNew("input", 0, String(word))
  BY DEF input
<1>2. String(word).kind \in OperandKind /\ SoundObject(functions, heap, String(word))
  BY DEF String, OperandKind, SoundObject, Fits
<1>3. 0 \in 0..Len(Stack) /\ 0 + 1 \in 1..Len(Stack) /\ Operand(0 + 1).kind = "Closure"
  BY Operands
<1>4. "input" \in DOMAIN Natives
  BY DEF Natives
<1> HIDE DEF String
<1> QED
  BY <1>1, <1>2, <1>3, <1>4, AnswerNewStep

LEMMA IntcastStep ==
  ASSUME IInv, 2 \in 1..Len(Stack), Operand(2).kind = "Closure", intcast
  PROVE  GoodStep
<1> DEFINE asked == <<Is(1, "String")>>
           text == Operand(1).string
           number == IF text \in DOMAIN Atoi THEN Atoi[text] ELSE 0
<1>1. CASE Fault(asked) # "none"
  BY <1>1, FaultStep DEF intcast, Given
<1>2. CASE Fault(asked) = "none"
  <2>1. CASE number = 0 /\ text # "0"
    BY <1>2, <2>1, ThrowStep DEF intcast, Given, Outcome
  <2>2. CASE ~(number = 0 /\ text # "0")
    <3>1. AnswerNew("intcast", 1, Integer(number))
      BY <1>2, <2>2 DEF intcast, Given
    <3>2. number \in INT_MIN..INT_MAX
      BY AtoiAssumption, WidthAssumption DEF INT_MIN
    <3> HIDE DEF number
    <3>3. Integer(number).kind \in OperandKind /\ SoundObject(functions, heap, Integer(number))
      BY <3>2 DEF Integer, OperandKind, SoundObject, Fits
    <3>4. 1 \in 0..Len(Stack) /\ 1 + 1 \in 1..Len(Stack) /\ Operand(1 + 1).kind = "Closure"
      OBVIOUS
    <3>5. "intcast" \in DOMAIN Natives
      BY DEF Natives
    <3> QED
      BY <3>1, <3>3, <3>4, <3>5, AnswerNewStep
  <2> QED
    BY <2>1, <2>2
<1> QED
  BY <1>1, <1>2

LEMMA CallStep ==
  ASSUME IInv, NEW n \in Nat, Calls(This, instruction_pointer_), Running,
         NEW words, Call(n, words)
  PROVE  GoodStep
<1> DEFINE asked == [i \in 1..n |-> Pop(i)] \o <<Is(n + 1, "Closure")>>
           f == Operand(n + 1).function
           callee == FunctionNamed(f)
<1>1. CASE Fault(asked) # "none"
  BY <1>1, FaultStep DEF Call, Given
<1>2. CASE Fault(asked) = "none"
  <2>1. n + 1 \in DOMAIN asked /\ asked[n + 1] = Is(n + 1, "Closure")
    OBVIOUS
  <2>2. Meets(Is(n + 1, "Closure"))
    <3> HIDE DEF asked
    <3> QED
      BY <1>2, <2>1, FaultOutcome
  <2>3. n + 1 \in 0..Len(Stack) /\ Operand(n + 1).kind = "Closure"
    BY <2>2, MeetsOperand
  <2>4. n + 1 \in 1..Len(Stack)
    BY <2>3
  <2>5. f \in FunctionNames(functions)
    BY <2>3, <2>4, ClosureOperand
  <2>6. CASE n # callee.parameter_count
    BY <1>2, <2>6, ThrowStep DEF Call, Given, Outcome
  <2>7. CASE /\ n = callee.parameter_count
             /\ n > callee.local_vars \/ Len(Operand(n + 1).free) > callee.free_vars
    BY <1>2, <2>7, ThrowStep DEF Call, Given, Outcome
  <2>8. CASE /\ n = callee.parameter_count
             /\ ~(n > callee.local_vars \/ Len(Operand(n + 1).free) > callee.free_vars)
    <3>1. Execute(f, n, words)
      BY <1>2, <2>8 DEF Call, Given
    <3> HIDE DEF f
    <3>2. CASE f = "print"
      <4>1. n = 1
        BY <2>8, <3>2 DEF FunctionNamed, Natives, NativeFunction
      <4>2. 2 \in 1..Len(Stack) /\ Operand(2).kind = "Closure"
        BY <2>3, <2>4, <4>1
      <4> QED
        BY <3>1, <3>2, <4>2, PrintStep DEF Execute
    <3>3. CASE f = "input"
      <4>1. n = 0
        BY <2>8, <3>3 DEF FunctionNamed, Natives, NativeFunction
      <4>2. 1 \in 1..Len(Stack) /\ Operand(1).kind = "Closure"
        BY <2>3, <2>4, <4>1
      <4> QED
        BY <3>1, <3>3, <4>2, InputStep DEF Execute
    <3>4. CASE f = "intcast"
      <4>1. n = 1
        BY <2>8, <3>4 DEF FunctionNamed, Natives, NativeFunction
      <4>2. 2 \in 1..Len(Stack) /\ Operand(2).kind = "Closure"
        BY <2>3, <2>4, <4>1
      <4> QED
        BY <3>1, <3>4, <4>2, IntcastStep DEF Execute
    <3>5. CASE f \notin {"print", "input", "intcast"}
      <4>1. f \in DOMAIN functions
        BY <2>5, <3>5 DEF FunctionNames, Natives
      <4>2. Enter(f, n)
        BY <3>1, <3>5 DEF Execute
      <4>3. f = Operand(n + 1).function
        BY DEF f
      <4> QED
        BY <2>3, <2>4, <4>1, <4>2, <4>3, EnterStep
    <3> QED
      BY <3>2, <3>3, <3>4, <3>5
  <2> QED
    BY <2>6, <2>7, <2>8
<1> QED
  BY <1>1, <1>2

LEMMA LeaveMainStep ==
  ASSUME IInv, LeaveMain
  PROVE  GoodStep
  BY DEF LeaveMain, GoodStep, CallersKept, IInv, TypeOK, SoundHeap, SoundFrames,
         Activations, FunctionAt, Variables, FunctionNamed, context, Outcome

LEMMA LeaveFunctionStep ==
  ASSUME IInv, LeaveFunction
  PROVE  GoodStep
<1>1. CASE Fault(<<Pop(1)>>) # "none"
  BY <1>1, FaultStep DEF LeaveFunction, Given
<1>2. CASE Fault(<<Pop(1)>>) = "none"
  <2> DEFINE last == Len(stack_frames_)
             caller == stack_frames_[last - 1]
             stack == Append(heap[caller].stack, Peek(1))
  <2>1. /\ heap' = [heap EXCEPT ![Top].stack = Below(1),
                                ![caller].stack = Append(@, Peek(1))]
        /\ stack_frames_' = Front(stack_frames_)
        /\ current_function_' = Last(callers).function
        /\ instruction_pointer_' = Last(callers).pointer + 1
        /\ callers' = Front(callers)
        /\ UNCHANGED <<functions, status, output>>
        /\ callers # << >>
    BY <1>2 DEF LeaveFunction, Given
  <2>2. /\ callers \in Seq([function : DOMAIN functions, pointer : Int])
        /\ Len(callers) \in Nat \ {0} /\ last = Len(callers) + 1
        /\ stack_frames_ \in Seq(Address)
    BY <2>1 DEF IInv, TypeOK
  <2>3. /\ last - 1 \in 1..(last - 1)
        /\ caller \in Address \ {Top} /\ heap[caller].kind = "Frame"
    BY <2>2, FramesBelow
  <2>4. heap[caller] \in FrameObject(functions, heap)
    BY <2>3 DEF IInv, SoundHeap, SoundObject
  <2>5. Top \in Address /\ heap[Top].kind = "Frame" /\ heap[Top] \in FrameObject(functions, heap)
    BY RunningFrames, FrameFields
  <2>6. 1 \in 0..Len(Stack) /\ Peek(1) \in Value(functions, heap)
    BY <1>2, PopOne
  <2>7. heap'[Top] = WithStack(heap[Top], Below(1))
    <3>1. heap'[Top] = [heap[Top] EXCEPT !.stack = Below(1)]
      BY <2>1, <2>3, <2>5 DEF IInv, TypeOK
    <3> QED
      BY <2>5, <3>1, WithStackFrame
  <2>8. heap'[caller] = WithStack(heap[caller], stack)
    <3>1. heap'[caller] = [heap[caller] EXCEPT !.stack = stack]
      BY <2>1, <2>3, <2>5 DEF IInv, TypeOK
    <3> HIDE DEF stack
    <3> QED
      BY <2>4, <3>1, WithStackFrame
  <2>9. DOMAIN heap' = Address /\ \A a \in Address \ {Top, caller} : heap'[a] = heap[a]
    BY <2>1 DEF IInv, TypeOK
  <2> HIDE DEF caller, stack
  <2>10. Keeps(heap, heap')
    BY <2>3, <2>5, <2>7, <2>8, <2>9, WithStackFields DEF Keeps
  <2>11. SoundObject(functions, heap, heap'[Top])
    <3>1. Below(1) \in Seq(Value(functions, heap))
      BY <2>6, Operands
    <3>2. heap'[Top] \in FrameObject(functions, heap) /\ heap'[Top].kind = "Frame"
      BY <2>5, <2>7, <3>1, WithStackFrame, WithStackFields
    <3> QED
      BY <3>2 DEF SoundObject, Fits
  <2>12. SoundObject(functions, heap, heap'[caller])
    <3>1. heap[caller].stack \in Seq(Value(functions, heap))
      BY <2>4, FrameFields
    <3>2. stack \in Seq(Value(functions, heap))
      BY <2>6, <3>1 DEF stack
    <3>3. heap'[caller] \in FrameObject(functions, heap) /\ heap'[caller].kind = "Frame"
      BY <2>4, <2>8, <3>2, WithStackFrame, WithStackFields
    <3> QED
      BY <3>3 DEF SoundObject, Fits
  <2>13. \A a \in Address : SoundObject(functions, heap, heap'[a])
    BY <2>9, <2>11, <2>12 DEF IInv, SoundHeap
  <2>14. /\ SoundHeap'
         /\ \A a \in Address :
              /\ heap'[a].kind \in ValueKind \cup {"Frame", "Free"}
              /\ heap'[a].kind = "Integer" => heap'[a].int \in INT_MIN..INT_MAX
    BY <2>1, <2>10, <2>13, HeapSound
  <2>15. /\ stack_frames_' \in Seq(Address) /\ Len(stack_frames_') = last - 1
         /\ \A i \in 1..(last - 1) : stack_frames_'[i] = stack_frames_[i]
    <3>1. last \in Nat \ {0}
      BY <2>2
    <3> QED
      BY <2>1, <2>2, <3>1, FrontLast
  <2>16. TypeOK'
    <3> DEFINE saved == [function : DOMAIN functions, pointer : Int]
    <3>1. callers \in Seq(saved)
      BY <2>2
    <3>2. Last(callers).function \in DOMAIN functions /\ Last(callers).pointer \in Int
      <4> HIDE DEF saved
      <4>1. Last(callers) \in saved
        BY <2>2, <3>1, FrontLast
      <4> QED
        BY <4>1 DEF saved
    <3> HIDE DEF saved
    <3>3. callers' \in Seq(saved) /\ Len(callers') = Len(callers) - 1
      BY <2>1, <2>2, <3>1, FrontLast
    <3>4. current_function_' \in DOMAIN functions' /\ instruction_pointer_' \in Int
      BY <2>1, <3>2
    <3>5. Len(stack_frames_') = Len(callers') + 1
      BY <2>2, <2>15, <3>3
    <3> QED
      BY <2>1, <2>9, <2>14, <2>15, <3>3, <3>4, <3>5 DEF saved, IInv, TypeOK
  <2>17. SoundFrames'
    <3>1. \A i \in 1..(last - 1) : i \in DOMAIN stack_frames_
      BY <2>2
    <3>2. \A i \in 1..(last - 1) : heap'[stack_frames_[i]].kind = "Frame"
      BY <2>10, FramesBelow DEF Keeps
    <3>3. DOMAIN stack_frames_' = 1..(last - 1)
      BY <2>2, <2>15
    <3> QED
      BY <2>15, <3>1, <3>2, <3>3 DEF IInv, SoundFrames
  <2>18. CallersKept
    <3>1. ASSUME NEW i \in 1..(last - 1), i < Len(stack_frames_')
          PROVE  heap'[stack_frames_[i]].stack = heap[stack_frames_[i]].stack
      <4>1. i \in DOMAIN stack_frames_ /\ last - 1 \in DOMAIN stack_frames_ /\ i # last - 1
        <5>1. Len(stack_frames_') = last - 1
          BY <2>15
        <5>2. last \in Nat /\ DOMAIN stack_frames_ = 1..last
          BY <2>2
        <5> HIDE DEF last
        <5> QED
          BY <2>3, <3>1, <5>1, <5>2
      <4>2. stack_frames_[i] # caller
        BY <4>1 DEF IInv, SoundFrames, caller
      <4>3. stack_frames_[i] \in Address \ {Top}
        BY FramesBelow
      <4> QED
        BY <2>9, <4>2, <4>3
    <3> QED
      BY <3>1 DEF CallersKept
  <2>19. Activations'
    <3>1. /\ last \in Nat \ {0, 1} /\ Len(callers) = last - 1
          /\ DOMAIN stack_frames_ = 1..last /\ DOMAIN stack_frames_' = 1..(last - 1)
          /\ DOMAIN callers = 1..(last - 1)
      BY <2>2, <2>15
    <3>2. /\ Len(callers') = last - 2 /\ DOMAIN callers' = 1..(last - 2)
          /\ \A i \in 1..(last - 2) : callers'[i] = callers[i]
      <4> DEFINE saved == [function : DOMAIN functions, pointer : Int]
      <4>1. callers \in Seq(saved)
        BY <2>2
      <4> HIDE DEF saved
      <4>2. callers' \in Seq(saved) /\ Len(callers') = Len(callers) - 1
        BY <2>1, <2>2, <4>1, FrontLast
      <4>3. \A i \in 1..(Len(callers) - 1) : callers'[i] = callers[i]
        BY <2>1, <2>2, <4>1, FrontLast
      <4> QED
        BY <3>1, <4>2, <4>3
    <3>3. current_function_' = callers[last - 1].function
      BY <2>1, <3>1 DEF Last
    <3> HIDE DEF last
    <3>4. \A i \in 1..(last - 1) : FunctionAt(i)' = FunctionAt(i)
      BY <3>1, <3>2, <3>3 DEF FunctionAt
    <3>5. \A i \in 1..(last - 1) : Variables(i)' = Variables(i)
      BY <2>1, <3>4 DEF Variables, FunctionNamed
    <3>6. ASSUME NEW i \in 1..(last - 1)
          PROVE  Len(heap'[stack_frames_'[i]].locals) = Variables(i)'
      <4>1. /\ stack_frames_[i] \in Address /\ heap[stack_frames_[i]].kind = "Frame"
            /\ Len(heap[stack_frames_[i]].locals) = Variables(i)
        BY <3>1, FramesBelow DEF IInv, Activations, last
      <4>2. stack_frames_'[i] = stack_frames_[i]
        BY <2>15 DEF last
      <4> QED
        BY <2>10, <3>5, <4>1, <4>2 DEF Keeps
    <3>7. \A g : FunctionNamed(g)' = FunctionNamed(g)
      BY <2>1 DEF FunctionNamed
    <3>8. \A i \in 1..(last - 2) :
            Calls(FunctionNamed(callers'[i].function), callers'[i].pointer)
      BY <3>1, <3>2 DEF IInv, Activations
    <3>9. FunctionAt(1)' = "main"
      BY <3>1, <3>4 DEF IInv, Activations
    <3> QED
      BY <3>1, <3>2, <3>6, <3>7, <3>8, <3>9 DEF Activations
  <2> QED
    BY <2>1, <2>14, <2>16, <2>17, <2>18, <2>19 DEF GoodStep
<1> QED
  BY <1>1, <1>2

LEMMA PerformStep ==
  ASSUME IInv, Running, instruction_pointer_ + 1 \in 1..Len(This.instructions),
         NEW i \in This.instructions[instruction_pointer_ + 1], TypedInstruction(i),
         NEW words, Perform(i, words)
  PROVE  GoodStep
<1>1. CASE i[1] = "LoadConst" /\ LoadConst(i[2])
  BY <1>1, LoadConstStep
<1>2. CASE i[1] = "LoadFunc" /\ LoadFunc(i[2])
  BY <1>2, LoadFuncStep
<1>3. CASE i[1] = "LoadLocal" /\ LoadLocal(i[2])
  BY <1>3, LoadLocalStep
<1>4. CASE i[1] = "StoreLocal" /\ StoreLocal(i[2])
  BY <1>4, StoreLocalStep
<1>5. CASE i[1] = "LoadGlobal" /\ LoadGlobal(i[2])
  BY <1>5, LoadGlobalStep
<1>6. CASE i[1] = "StoreGlobal" /\ StoreGlobal(i[2])
  BY <1>6, StoreGlobalStep
<1>7. CASE i[1] = "LoadReference" /\ LoadReference
  BY <1>7, LoadReferenceStep
<1>8. CASE i[1] = "StoreReference" /\ StoreReference
  BY <1>8, StoreReferenceStep
<1>9. CASE i[1] = "AllocRecord" /\ AllocRecord
  BY <1>9, AllocRecordStep
<1>10. CASE i[1] = "FieldLoad" /\ FieldLoad(i[2])
  BY <1>10, FieldLoadStep
<1>11. CASE i[1] = "FieldStore" /\ FieldStore(i[2])
  BY <1>11, FieldStoreStep
<1>12. CASE i[1] = "IndexLoad" /\ IndexLoad
  BY <1>12, IndexLoadStep
<1>13. CASE i[1] = "IndexStore" /\ IndexStore
  BY <1>13, IndexStoreStep
<1>14. CASE i[1] = "AllocClosure" /\ AllocClosure(i[2])
  BY <1>14, AllocClosureStep DEF TypedInstruction
<1>15. CASE i[1] = "Call" /\ Call(i[2], words)
  BY <1>15, CallStep DEF TypedInstruction, Calls
<1>16. CASE i[1] = "Return" /\ Return
  BY <1>16, ReturnStep
<1>17. CASE i[1] = "Add" /\ Add
  BY <1>17, AddStep
<1>18. CASE i[1] = "Sub" /\ Sub
  BY <1>18, SubStep
<1>19. CASE i[1] = "Mul" /\ Mul
  BY <1>19, MulStep
<1>20. CASE i[1] = "Div" /\ Div
  BY <1>20, DivStep
<1>21. CASE i[1] = "Neg" /\ Neg
  BY <1>21, NegStep
<1>22. CASE i[1] = "Gt" /\ Gt
  BY <1>22, GtStep
<1>23. CASE i[1] = "Geq" /\ Geq
  BY <1>23, GeqStep
<1>24. CASE i[1] = "Eq" /\ Eq
  BY <1>24, EqStep
<1>25. CASE i[1] = "And" /\ And
  BY <1>25, AndStep
<1>26. CASE i[1] = "Or" /\ Or
  BY <1>26, OrStep
<1>27. CASE i[1] = "Not" /\ Not
  BY <1>27, NotStep
<1>28. CASE i[1] = "Goto" /\ Goto(i[2])
  BY <1>28, GotoStep DEF TypedInstruction
<1>29. CASE i[1] = "If" /\ If(i[2])
  BY <1>29, IfStep DEF TypedInstruction
<1>30. CASE i[1] = "Dup" /\ Dup
  BY <1>30, DupStep
<1>31. CASE i[1] = "Swap" /\ Swap
  BY <1>31, SwapStep
<1>32. CASE i[1] = "PushReference" /\ PushReference(i[2])
  BY <1>32, PushReferenceStep
<1>33. CASE PushUnresolved
  BY <1>33, PushUnresolvedStep
<1>34. CASE PopOperand
  BY <1>34, PopOperandStep
<1> QED
  BY <1>1, <1>2, <1>3, <1>4, <1>5, <1>6, <1>7, <1>8, <1>9, <1>10, <1>11,
     <1>12, <1>13, <1>14, <1>15, <1>16, <1>17, <1>18, <1>19, <1>20, <1>21,
     <1>22, <1>23, <1>24, <1>25, <1>26, <1>27, <1>28, <1>29, <1>30, <1>31,
     <1>32, <1>33, <1>34
  DEF Perform

LEMMA ExecuteInstructionStep ==
  ASSUME IInv, executeInstruction
  PROVE  GoodStep
<1>1. CASE instruction_pointer_ < 0
  BY <1>1, ThrowStep DEF executeInstruction, Outcome
<1>2. CASE ~(instruction_pointer_ < 0)
  <2>1. PICK i \in This.instructions[instruction_pointer_ + 1] : Perform(i, Inputs)
    BY <1>2 DEF executeInstruction
  <2>2. instruction_pointer_ + 1 \in 1..Len(This.instructions)
    BY <1>2, ThisTyped DEF executeInstruction, More, TypedFunction, IInv, TypeOK
  <2>3. TypedInstruction(i)
    BY <2>1, <2>2, ThisTyped DEF TypedFunction
  <2> QED
    BY <2>1, <2>2, <2>3, PerformStep DEF executeInstruction
<1> QED
  BY <1>1, <1>2

-----------------------------------------------------------------------------
(* What can be reached. Every round of Reach but the last adds an address  *)
(* or finds the set closed, and there are MaxAddress of them.              *)

Grown(S) == S \cup UNION {Addresses(Pointers(heap[a])) : a \in S}

Rounds(after, R) ==
  after = [n \in 0..MaxAddress |-> IF n = 0 THEN R ELSE Grown(after[n - 1])]

LEMMA GrownMonotone ==
  ASSUME NEW S, NEW T, S \subseteq T
  PROVE  Grown(S) \subseteq Grown(T) /\ S \subseteq Grown(S)
  BY DEF Grown

LEMMA RoundsExist ==
  ASSUME NEW R, NEW C, R \subseteq C, Grown(C) \subseteq C
  PROVE  \E after : Rounds(after, R)
<1> DEFINE D == SUBSET C
           step == [S \in D |-> Grown(S)]
<1>1. \A S \in D : Grown(S) \in D
  BY GrownMonotone
<1>2. step \in [D -> D] /\ R \in D /\ MaxAddress \in Nat
  BY <1>1, AddressAssumption
<1> HIDE DEF D, step
<1>3. PICK g : Iterates(g, MaxAddress, R, step) /\ \A n \in 0..MaxAddress : g[n] \in D
  BY <1>2, IterationExists
<1>4. ASSUME NEW n \in 0..MaxAddress, n # 0 PROVE step[g[n - 1]] = Grown(g[n - 1])
  <2>1. n - 1 \in 0..MaxAddress
    BY <1>2, <1>4
  <2>2. g[n - 1] \in D
    BY <1>3, <2>1
  <2> QED
    BY <2>2 DEF step
<1>5. Rounds(g, R)
  BY <1>3, <1>4 DEF Rounds, Iterates
<1> QED
  BY <1>5

LEMMA ReachRounds ==
  ASSUME NEW R, NEW C, R \subseteq C, Grown(C) \subseteq C
  PROVE  \E after : Rounds(after, R) /\ Reach(R) = after[MaxAddress]
<1> DEFINE after[n \in 0..MaxAddress] ==
             IF n = 0 THEN R
             ELSE LET S == after[n - 1]
                  IN  S \cup UNION {Addresses(Pointers(heap[a])) : a \in S}
<1>1. after = CHOOSE g : g = [n \in 0..MaxAddress |-> IF n = 0 THEN R ELSE Grown(g[n - 1])]
  BY DEF Grown
<1>2. Rounds(after, R)
  <2>1. \E g : g = [n \in 0..MaxAddress |-> IF n = 0 THEN R ELSE Grown(g[n - 1])]
    BY RoundsExist DEF Rounds
  <2> HIDE DEF after
  <2> QED
    BY <1>1, <2>1 DEF Rounds
<1>3. Reach(R) = after[MaxAddress]
  BY DEF Reach
<1> HIDE DEF after
<1> QED
  BY <1>2, <1>3

LEMMA ReachWithin ==
  ASSUME NEW R, NEW C, R \subseteq C, Grown(C) \subseteq C
  PROVE  R \subseteq Reach(R) /\ Reach(R) \subseteq C
<1>1. PICK after : Rounds(after, R) /\ Reach(R) = after[MaxAddress]
  BY ReachRounds
<1> DEFINE N == {n \in Nat : n <= MaxAddress => R \subseteq after[n] /\ after[n] \subseteq C}
<1>2. 0 \in N
  BY <1>1, AddressAssumption DEF Rounds
<1>3. ASSUME NEW n \in N PROVE n + 1 \in N
  <2>1. n \in Nat /\ n + 1 \in Nat
    OBVIOUS
  <2>2. ASSUME n + 1 <= MaxAddress
        PROVE  R \subseteq after[n + 1] /\ after[n + 1] \subseteq C
    <3>1. n <= MaxAddress /\ n + 1 \in 0..MaxAddress /\ n + 1 # 0 /\ (n + 1) - 1 = n
      BY <2>1, <2>2, AddressAssumption
    <3>2. after[n + 1] = Grown(after[n])
      BY <1>1, <3>1 DEF Rounds
    <3>3. R \subseteq after[n] /\ after[n] \subseteq C
      BY <3>1
    <3>4. Grown(after[n]) \subseteq Grown(C) /\ after[n] \subseteq Grown(after[n])
      BY <3>3, GrownMonotone
    <3> QED
      BY <3>2, <3>3, <3>4
  <2> QED
    BY <2>1, <2>2
<1> HIDE DEF N
<1>4. Nat \subseteq N
  BY <1>2, <1>3, NatSetInduction
<1> QED
  BY <1>1, <1>4, AddressAssumption DEF N

LEMMA ReachClosed ==
  ASSUME NEW R, R \subseteq Address, Grown(Address) \subseteq Address
  PROVE  Grown(Reach(R)) \subseteq Reach(R)
<1>1. PICK after : Rounds(after, R) /\ Reach(R) = after[MaxAddress]
  BY ReachRounds
<1> DEFINE Closed(S) == Grown(S) \subseteq S
           N == {n \in Nat : n <= MaxAddress =>
                   /\ after[n] \subseteq Address
                   /\ Closed(after[n]) \/ Cardinality(after[n]) >= n}
<1>2. \A S \in SUBSET Address : IsFiniteSet(S) /\ Cardinality(S) \in Nat
  BY FreeFinite, FS_Subset, FS_CardinalityType
<1>3. 0 \in N
  <2>1. after[0] = R
    BY <1>1, AddressAssumption DEF Rounds
  <2>2. Cardinality(R) >= 0
    BY <1>2
  <2> QED
    BY <2>1, <2>2
<1>4. ASSUME NEW n \in N PROVE n + 1 \in N
  <2> DEFINE S == after[n]
             T == after[n + 1]
  <2>1. n \in Nat /\ n + 1 \in Nat
    OBVIOUS
  <2>2. ASSUME n + 1 <= MaxAddress
        PROVE  T \subseteq Address /\ (Closed(T) \/ Cardinality(T) >= n + 1)
    <3>1. n <= MaxAddress /\ n + 1 \in 0..MaxAddress /\ n + 1 # 0 /\ (n + 1) - 1 = n
      BY <2>1, <2>2, AddressAssumption
    <3>2. T = Grown(S)
      BY <1>1, <3>1 DEF Rounds
    <3>3. S \subseteq Address /\ (Closed(S) \/ Cardinality(S) >= n)
      BY <3>1
    <3>4. T \subseteq Address /\ S \subseteq T
      BY <3>2, <3>3, GrownMonotone
    <3>5. CASE T \subseteq S
      <4>1. T = S
        BY <3>4, <3>5
      <4> QED
        BY <3>2, <3>4, <4>1
    <3>6. CASE ~(T \subseteq S)
      <4>1. ~Closed(S) /\ S # T
        BY <3>2, <3>6
      <4>2. Cardinality(S) >= n
        BY <3>3, <4>1
      <4> HIDE DEF S, T
      <4>3. IsFiniteSet(T) /\ Cardinality(S) \in Nat /\ Cardinality(T) \in Nat
        BY <1>2, <3>3, <3>4
      <4>4. Cardinality(S) <= Cardinality(T) /\ (Cardinality(S) = Cardinality(T) => S = T)
        BY <3>4, <4>3, FS_Subset
      <4>5. Cardinality(T) >= n + 1
        BY <2>1, <4>1, <4>2, <4>3, <4>4
      <4> QED
        BY <3>4, <4>5
    <3> QED
      BY <3>5, <3>6
  <2> QED
    BY <2>1, <2>2
<1> HIDE DEF N
<1>5. Nat \subseteq N
  BY <1>3, <1>4, NatSetInduction
<1> DEFINE L == after[MaxAddress]
<1>6. L \subseteq Address /\ (Closed(L) \/ Cardinality(L) >= MaxAddress)
  BY <1>5, AddressAssumption DEF N
<1>7. CASE Closed(L)
  BY <1>1, <1>7
<1>8. CASE Cardinality(L) >= MaxAddress
  <2> HIDE DEF L
  <2>1. L = Address
    <3>1. Cardinality(L) <= Cardinality(Address) /\ (Cardinality(Address) = Cardinality(L) => Address = L)
      BY <1>6, FreeFinite, FS_Subset
    <3>2. Cardinality(L) \in Nat
      BY <1>2, <1>6
    <3> QED
      BY <1>8, <3>1, <3>2, FreeFinite, AddressAssumption
  <2> QED
    BY <1>1, <2>1 DEF L
<1> QED
  BY <1>6, <1>7, <1>8

-----------------------------------------------------------------------------
(* A collection.                                                           *)

Existing == {a \in Address : heap[a].kind # "Free"}

LEMMA ValueAddresses ==
  ASSUME NEW p \in Value(functions, heap), p[1] = "heap"
  PROVE  p[2] \in Existing
  BY DEF Value, PointerTo, OfKind, OperandKind, Existing

LEMMA ReferenceAddresses ==
  ASSUME NEW p \in Slot(functions, heap), p[1] = "heap"
  PROVE  p[2] \in Existing
  BY DEF Slot, PointerTo, OfKind, Static, Existing

LEMMA SoundAddresses ==
  ASSUME IInv, NEW a \in Address
  PROVE  Addresses(Pointers(heap[a])) \subseteq Existing
<1> DEFINE x == heap[a]
<1>1. SoundObject(functions, heap, x)
  BY DEF IInv, SoundHeap
<1> HIDE DEF x
<1>2. SUFFICES ASSUME NEW p \in Pointers(x), p[1] = "heap" PROVE p[2] \in Existing
  BY DEF Addresses, x
<1>3. CASE x.kind = "Frame"
  <2>1. /\ x.stack \in Seq(Value(functions, heap)) /\ x.locals \in Seq(Value(functions, heap))
        /\ x.refs \in Seq(Slot(functions, heap))
    BY <1>1, <1>3, FrameFields DEF SoundObject
  <2>2. /\ \A i \in DOMAIN x.stack : x.stack[i] \in Value(functions, heap)
        /\ \A i \in DOMAIN x.locals : x.locals[i] \in Value(functions, heap)
        /\ \A i \in DOMAIN x.refs :
             x.refs[i] \in Slot(functions, heap)
    BY <2>1
  <2>3. p \in {x.stack[i] : i \in DOMAIN x.stack}
              \cup {x.locals[i] : i \in DOMAIN x.locals}
              \cup {x.refs[i] : i \in DOMAIN x.refs}
    BY <1>2, <1>3 DEF Pointers
  <2>4. \/ p \in Value(functions, heap)
        \/ p \in Slot(functions, heap)
    BY <2>2, <2>3
  <2> QED
    BY <1>2, <2>4, ValueAddresses, ReferenceAddresses
<1>4. CASE x.kind = "Record"
  <2>1. p \in Value(functions, heap)
    BY <1>1, <1>2, <1>4 DEF Pointers, SoundObject
  <2> QED
    BY <1>2, <2>1, ValueAddresses
<1>5. CASE x.kind = "Closure"
  <2>1. x.free \in Seq(PointerTo(heap, {"Reference"}))
    BY <1>1, <1>5 DEF SoundObject, ClosureObject
  <2>2. p \in PointerTo(heap, {"Reference"})
    BY <1>2, <1>5, <2>1 DEF Pointers
  <2> QED
    BY <1>2, <2>2, ReferenceAddresses DEF Slot
<1>6. CASE x.kind = "Reference"
  <2>1. p = Heap(x.frame) /\ x.frame \in OfKind(heap, {"Frame"})
    BY <1>1, <1>2, <1>6 DEF Pointers, SoundObject, ReferenceObject
  <2> QED
    BY <2>1 DEF Heap, OfKind, Existing
<1>7. CASE x.kind \notin {"Frame", "Record", "Closure", "Reference"}
  BY <1>2, <1>7 DEF Pointers
<1> QED
  BY <1>3, <1>4, <1>5, <1>6, <1>7

(* What a collection keeps exists, holds the frames of the calls in        *)
(* progress, and no pointer leaves it.                                     *)
LEMMA LiveClosed ==
  ASSUME IInv
  PROVE  /\ Live \subseteq Existing
         /\ \A i \in DOMAIN stack_frames_ : stack_frames_[i] \in Live
         /\ \A a \in Live : Addresses(Pointers(heap[a])) \subseteq Live
<1> DEFINE R == Range(stack_frames_)
<1>1. R \subseteq Existing /\ \A i \in DOMAIN stack_frames_ : stack_frames_[i] \in R
  BY DEF Range, IInv, TypeOK, SoundFrames, Existing
<1>2. Existing \subseteq Address
  BY DEF Existing
<1>3. Grown(Existing) \subseteq Existing /\ Grown(Address) \subseteq Address
  BY <1>2, SoundAddresses DEF Grown
<1> HIDE DEF R
<1>4. R \subseteq Reach(R) /\ Reach(R) \subseteq Existing
  BY <1>1, <1>3, ReachWithin
<1>5. Grown(Reach(R)) \subseteq Reach(R)
  BY <1>1, <1>2, <1>3, ReachClosed
<1>6. Live = Reach(R)
  BY DEF Live, R
<1> QED
  BY <1>1, <1>4, <1>5, <1>6 DEF Grown

(* An object is sound in any heap that keeps what its pointers lead to.    *)
LEMMA KeptValue ==
  ASSUME NEW table, NEW h, NEW g, NEW p,
         p[1] = "heap" => p[2] \in Address /\ g[p[2]].kind = h[p[2]].kind
  PROVE  /\ p \in Value(table, h) => p \in Value(table, g)
         /\ p \in Slot(table, h) => p \in Slot(table, g)
         /\ \A kinds : p \in PointerTo(h, kinds) => p \in PointerTo(g, kinds)
<1>1. \A kinds : p \in PointerTo(h, kinds) => p \in PointerTo(g, kinds)
  BY DEF PointerTo, OfKind
<1> QED
  BY <1>1 DEF Value, Slot

LEMMA KeptSound ==
  ASSUME NEW table, NEW h, NEW g, NEW x, SoundObject(table, h, x),
         \A p \in Pointers(x) : p[1] = "heap" => p[2] \in Address /\ g[p[2]] = h[p[2]]
  PROVE  SoundObject(table, g, x)
<1>1. \A p \in Pointers(x) :
        /\ p \in Value(table, h) => p \in Value(table, g)
        /\ p \in Slot(table, h) => p \in Slot(table, g)
        /\ \A kinds : p \in PointerTo(h, kinds) => p \in PointerTo(g, kinds)
  BY KeptValue
<1>2. CASE x.kind = "Frame"
  <2>1. x \in FrameObject(table, h)
    BY <1>2 DEF SoundObject
  <2>2. /\ \A i \in DOMAIN x.stack : x.stack[i] \in Pointers(x)
        /\ \A i \in DOMAIN x.locals : x.locals[i] \in Pointers(x)
        /\ \A i \in DOMAIN x.refs : x.refs[i] \in Pointers(x)
    BY <1>2 DEF Pointers
  <2>3. /\ x.stack \in Seq(Value(table, h)) /\ x.locals \in Seq(Value(table, h))
        /\ x.refs \in Seq(Slot(table, h))
    BY <2>1, FrameFields
  <2>4. \A i \in 1..Len(x.stack) : x.stack[i] \in Value(table, g)
    BY <1>1, <2>2, <2>3
  <2>5. \A i \in 1..Len(x.locals) : x.locals[i] \in Value(table, g)
    BY <1>1, <2>2, <2>3
  <2>6. \A i \in 1..Len(x.refs) : x.refs[i] \in Slot(table, g)
    BY <1>1, <2>2, <2>3
  <2>7. /\ x.stack \in Seq(Value(table, g)) /\ x.locals \in Seq(Value(table, g))
        /\ x.refs \in Seq(Slot(table, g))
    BY <2>3, <2>4, <2>5, <2>6, SeqElements
  <2>8. x \in FrameObject(table, g)
    BY <2>1, <2>7 DEF FrameObject
  <2> QED
    BY <1>2, <2>8 DEF SoundObject, Fits
<1>3. CASE x.kind = "Record"
  <2>1. \A k \in DOMAIN x.map : x.map[k] \in Value(table, g)
    BY <1>1, <1>3 DEF Pointers, SoundObject
  <2> QED
    BY <1>3, <2>1 DEF SoundObject, Fits
<1>4. CASE x.kind = "Closure"
  <2>1. x \in ClosureObject(table, h) /\ x.free \in Seq(PointerTo(h, {"Reference"}))
    BY <1>4 DEF SoundObject, ClosureObject
  <2>2. \A i \in DOMAIN x.free : x.free[i] \in Pointers(x)
    BY <1>4 DEF Pointers
  <2>3. \A i \in 1..Len(x.free) : x.free[i] \in PointerTo(g, {"Reference"})
    BY <1>1, <2>1, <2>2
  <2>4. x.free \in Seq(PointerTo(g, {"Reference"}))
    BY <2>1, <2>3
  <2>5. x \in ClosureObject(table, g)
    BY <2>1, <2>4 DEF ClosureObject
  <2> QED
    BY <1>4, <2>5 DEF SoundObject, Fits
<1>5. CASE x.kind = "Reference"
  <2>1. x \in ReferenceObject(h) /\ Heap(x.frame) \in Pointers(x)
    BY <1>5 DEF SoundObject, Pointers
  <2>2. x.frame \in OfKind(g, {"Frame"})
    BY <2>1 DEF ReferenceObject, OfKind, Heap
  <2>3. x \in ReferenceObject(g)
    BY <2>1, <2>2 DEF ReferenceObject
  <2>4. g[x.frame] = h[x.frame]
    BY <2>1 DEF Heap
  <2> QED
    BY <1>5, <2>3, <2>4 DEF SoundObject, Fits
<1>6. CASE x.kind \notin {"Frame", "Record", "Closure", "Reference"}
  BY <1>6 DEF SoundObject, Fits
<1> QED
  BY <1>2, <1>3, <1>4, <1>5, <1>6

LEMMA GarbageCollectStep ==
  ASSUME IInv, GarbageCollect
  PROVE  GoodStep
<1>1. CASE \E a \in Live : Static(Garbage) \in Pointers(heap[a])
  BY <1>1, ThrowStep DEF GarbageCollect, Outcome
<1>2. CASE ~ \E a \in Live : Static(Garbage) \in Pointers(heap[a])
  <2>1. /\ heap' = [a \in Address |-> IF a \in Live THEN heap[a] ELSE Free]
        /\ UNCHANGED <<functions, callers, output, stack_frames_, current_function_,
                       instruction_pointer_, status>>
    BY <1>2 DEF GarbageCollect, context
  <2>2. /\ Live \subseteq Address
        /\ \A i \in DOMAIN stack_frames_ : stack_frames_[i] \in Live
        /\ \A a \in Live : Addresses(Pointers(heap[a])) \subseteq Live
    BY LiveClosed DEF Existing
  <2>3. \A a \in Live : heap'[a] = heap[a]
    BY <2>1, <2>2
  <2>4. ASSUME NEW a \in Live PROVE SoundObject(functions, heap', heap[a])
    <3>1. SoundObject(functions, heap, heap[a])
      BY <2>2 DEF IInv, SoundHeap
    <3>2. \A p \in Pointers(heap[a]) :
            p[1] = "heap" => p[2] \in Address /\ heap'[p[2]] = heap[p[2]]
      BY <2>2, <2>3 DEF Addresses
    <3> QED
      BY <3>1, <3>2, KeptSound
  <2>5. SoundObject(functions, heap', Free)
    BY DEF SoundObject, Free, Fits
  <2>6. SoundHeap'
    <3>1. \A a \in Address \ Live : heap'[a] = Free
      BY <2>1
    <3> QED
      BY <2>1, <2>3, <2>4, <2>5, <3>1 DEF SoundHeap
  <2>7. TypeOK'
    BY <2>1 DEF IInv, TypeOK, Free
  <2>8. \A i \in DOMAIN stack_frames_ : heap'[stack_frames_[i]] = heap[stack_frames_[i]]
    BY <2>2, <2>3
  <2>9. SoundFrames'
    BY <2>1, <2>8 DEF IInv, SoundFrames
  <2>10. CallersKept
    <3>1. 1..(Len(stack_frames_) - 1) \subseteq DOMAIN stack_frames_
      BY DEF IInv, TypeOK
    <3> QED
      BY <2>8, <3>1 DEF CallersKept
  <2>11. Activations'
    <3>1. UNCHANGED <<functions, callers, stack_frames_, current_function_>>
      BY <2>1
    <3>2. /\ FunctionAt(1)' = FunctionAt(1)
          /\ \A i \in DOMAIN stack_frames_ : Variables(i)' = Variables(i)
      BY <3>1 DEF FunctionAt, Variables, FunctionNamed
    <3> QED
      BY <2>8, <3>1, <3>2 DEF IInv, Activations, FunctionNamed
  <2> QED
    BY <2>1, <2>6, <2>7, <2>9, <2>10, <2>11 DEF GoodStep
<1> QED
  BY <1>1, <1>2

=============================================================================
