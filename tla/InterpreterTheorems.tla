-------------------------- MODULE InterpreterTheorems --------------------------
(***************************************************************************)
(* The rest of the invariant of Interpreter, and what follows from it: a   *)
(* program whose tables are consistent never runs into undefined           *)
(* behaviour, whatever its size.                                           *)
(***************************************************************************)
EXTENDS InterpreterProofs

-----------------------------------------------------------------------------
(* Where the next instruction stands. Only a load_func and a push_ref are  *)
(* followed by an instruction of a capture.                                *)

LEMMA NotCaptured ==
  ASSUME IInv, ConsistentTable(functions), NEW name \in FunctionNames(functions),
         NEW p \in 1..Len(FunctionNamed(name).instructions),
         NEW i \in FunctionNamed(name).instructions[p],
         i[1] \notin {"LoadFunc", "PushReference"}
  PROVE  ~Inside(FunctionNamed(name), p + 1)
<1> DEFINE f == FunctionNamed(name)
<1>1. TypedFunction(functions, f) /\ ConsistentFunction(functions, f)
  BY NamedTyped, NamedConsistent
<1> HIDE DEF f
<1>2. SUFFICES ASSUME NEW q \in 1..Len(f.instructions), NEW j \in f.instructions[q],
                      j[1] = "AllocClosure", p + 1 \in (q - j[2])..q
               PROVE  FALSE
  BY DEF Inside, f
<1>3. j[2] \in Nat /\ Captures(functions, f, q, j[2])
  BY <1>1, <1>2 DEF TypedFunction, TypedInstruction, ConsistentFunction
<1>4. p \in Nat /\ q \in Nat /\ i \in f.instructions[p]
  BY <1>1 DEF TypedFunction, f
<1>5. CASE p = q - j[2] - 1
  BY <1>3, <1>4, <1>5 DEF Captures
<1>6. CASE p # q - j[2] - 1
  <2>1. p \in (q - j[2])..(q - 1)
    <3> DEFINE n == j[2]
    <3>1. n \in Nat /\ p \in Nat /\ q \in Nat /\ p + 1 \in (q - n)..q /\ p # q - n - 1
      BY <1>2, <1>3, <1>4, <1>6
    <3> HIDE DEF n
    <3>2. p \in (q - n)..(q - 1)
      BY <3>1
    <3> QED
      BY <3>2 DEF n
  <2> QED
    BY <1>3, <1>4, <2>1 DEF Captures
<1> QED
  BY <1>5, <1>6

(* No capture begins with the first instruction or goes on after the last. *)
LEMMA NotAtEnds ==
  ASSUME IInv, ConsistentTable(functions), NEW name \in FunctionNames(functions)
  PROVE  /\ ~Inside(FunctionNamed(name), 1)
         /\ ~Inside(FunctionNamed(name), Len(FunctionNamed(name).instructions) + 2)
<1> DEFINE f == FunctionNamed(name)
<1>1. TypedFunction(functions, f) /\ ConsistentFunction(functions, f)
  BY NamedTyped, NamedConsistent
<1> HIDE DEF f
<1>2. ASSUME NEW q \in 1..Len(f.instructions), NEW j \in f.instructions[q],
             j[1] = "AllocClosure"
      PROVE  j[2] \in Nat /\ q - j[2] - 1 >= 1
  BY <1>1, <1>2 DEF TypedFunction, TypedInstruction, ConsistentFunction, Captures
<1>3. Len(f.instructions) \in Nat
  BY <1>1 DEF TypedFunction
<1>4. ~Inside(f, 1)
  BY <1>2, <1>3 DEF Inside
<1>5. ~Inside(f, Len(f.instructions) + 2)
  BY <1>2, <1>3 DEF Inside
<1> QED
  BY <1>4, <1>5 DEF f

LEMMA OutsideStep ==
  ASSUME functions' = functions,
         ConsistentTable(functions) => ~Inside(This, instruction_pointer_ + 1)'
  PROVE  Capturing'
  BY DEF Capturing, Inside

(* A step after which the same instruction is next, with the same operands.*)
LEMMA SameOperandsStep ==
  ASSUME Capturing, Stack' = Stack,
         UNCHANGED <<functions, current_function_, instruction_pointer_>>
  PROVE  Capturing'
<1>1. This' = This
  BY DEF This, FunctionNamed
<1>2. ASSUME NEW i, NEW n PROVE CapturedFunction(i, n)' = CapturedFunction(i, n)
  BY DEF CapturedFunction, Peek, FreeVariables
<1> QED
  BY <1>1, <1>2 DEF Capturing

-----------------------------------------------------------------------------
(* In a consistent program nothing is uninitialised.                       *)

LEMMA ValueDefined ==
  ASSUME IInv, ConsistentTable(functions), NEW p \in Value(functions, heap)
  PROVE  Deref(p).kind # "Garbage" /\ p # Static(Garbage)
<1>1. CASE p \in {"static"} \X StaticObject(functions)
  BY <1>1 DEF StaticObject, Uninitialised, Constant, Garbage, Deref, Static
<1>2. CASE p \in PointerTo(heap, OperandKind)
  BY <1>2 DEF PointerTo, OfKind, OperandKind, Deref, Static
<1> QED
  BY <1>1, <1>2 DEF Value

(* Whatever an instruction asks of its operands is asked of something.     *)
LEMMA FaultDefined ==
  ASSUME IInv, ConsistentTable(functions), NEW k \in Nat, NEW asked, DOMAIN asked = 1..k,
         \A j \in 1..k : asked[j][1] \in Nat \ {0}
  PROVE  Fault(asked) # "undefined"
<1> DEFINE unmet == {j \in DOMAIN asked : ~Meets(asked[j])}
           first == Min(unmet)
           i == asked[first][1]
<1>1. CASE unmet = {}
  BY <1>1 DEF Fault
<1>2. CASE unmet # {}
  <2>1. \E x \in unmet : \A y \in unmet : x <= y
    <3>1. unmet \in SUBSET Nat
      OBVIOUS
    <3> HIDE DEF unmet
    <3> QED
      BY <1>2, <3>1, Minimum
  <2>2. first \in unmet
    BY <2>1 DEF Min
  <2>3. i \in Nat \ {0}
    BY <2>2
  <2>4. i <= Len(Stack) => Deref(Peek(i)).kind # "Garbage"
    <3>1. i <= Len(Stack) => i \in 1..Len(Stack)
      BY <2>3, Operands
    <3> QED
      BY <3>1, Operands, ValueDefined
  <2>5. ~(i > Len(Stack)) => i <= Len(Stack)
    BY <2>3, Operands
  <2>6. Fault(asked) = IF i > Len(Stack) THEN "InsufficientStackException"
                       ELSE IF Deref(Peek(i)).kind = "Garbage" THEN "undefined"
                       ELSE "IllegalCastException"
    <3>1. ~ \A j \in DOMAIN asked : Meets(asked[j])
      BY <1>2
    <3> QED
      BY <3>1 DEF Fault
  <2> HIDE DEF i
  <2> QED
    BY <2>4, <2>5, <2>6
<1> QED
  BY <1>1, <1>2

(* What the instructions ask.                                              *)
LEMMA FaultsDefined ==
  ASSUME IInv, ConsistentTable(functions)
  PROVE  /\ Fault(<<Pop(1)>>) # "undefined"
         /\ Fault(<<Pop(1), Pop(2)>>) # "undefined"
         /\ \A kind : Fault(<<Is(1, kind)>>) # "undefined"
         /\ Fault(<<Is(2, "Record")>>) # "undefined"
         /\ Fault(<<Is(3, "Record")>>) # "undefined"
         /\ Fault(<<Pop(1), Is(2, "Record")>>) # "undefined"
         /\ Fault(<<Is(1, "Reference"), Pop(2)>>) # "undefined"
         /\ Fault(<<Pop(1), Pop(2), Typed(2), Typed(1)>>) # "undefined"
         /\ Fault(Integers) # "undefined"
         /\ Fault(Booleans) # "undefined"
<1>1. ASSUME NEW a, a[1] \in Nat \ {0} PROVE Fault(<<a>>) # "undefined"
  <2>1. DOMAIN <<a>> = 1..1 /\ 1 \in Nat /\ \A j \in 1..1 : <<a>>[j][1] \in Nat \ {0}
    BY <1>1
  <2> QED
    BY <2>1, FaultDefined
<1>2. ASSUME NEW a, NEW b, a[1] \in Nat \ {0}, b[1] \in Nat \ {0}
      PROVE  Fault(<<a, b>>) # "undefined"
  <2>1. DOMAIN <<a, b>> = 1..2 /\ 2 \in Nat /\ \A j \in 1..2 : <<a, b>>[j][1] \in Nat \ {0}
    BY <1>2
  <2> QED
    BY <2>1, FaultDefined
<1>3. ASSUME NEW a, NEW b, NEW c, NEW d, a[1] \in Nat \ {0}, b[1] \in Nat \ {0},
             c[1] \in Nat \ {0}, d[1] \in Nat \ {0}
      PROVE  Fault(<<a, b, c, d>>) # "undefined"
  <2>1. /\ DOMAIN <<a, b, c, d>> = 1..4 /\ 4 \in Nat
        /\ \A j \in 1..4 : <<a, b, c, d>>[j][1] \in Nat \ {0}
    BY <1>3
  <2> QED
    BY <2>1, FaultDefined
<1>4. \A i \in {1, 2, 3} : /\ Pop(i)[1] \in Nat \ {0} /\ Typed(i)[1] \in Nat \ {0}
                           /\ \A kind : Is(i, kind)[1] \in Nat \ {0}
  BY DEF Pop, Typed, Is
<1> QED
  BY <1>1, <1>2, <1>3, <1>4 DEF Integers, Booleans

(* Printing meets values only, and none of them is uninitialised.          *)
LEMMA PrintingDefined ==
  ASSUME IInv, ConsistentTable(functions), NEW p \in Value(functions, heap)
  PROVE  toString(p).fault # "undefined"
<1> DEFINE F == {"none", "RuntimeException", "overflow"}
<1>1. \A q \in Value(functions, heap) : Deref(q).kind # "Garbage"
  BY ValueDefined
<1>2. toString(p).fault \in F
  BY <1>1, PrintingWithin
<1> QED
  BY <1>2

-----------------------------------------------------------------------------
(* How most instructions end: with an exception, or before the next one.   *)

GoesOn ==
  \/ \E e : e # "undefined" /\ Throw(e)
  \/ /\ instruction_pointer_' = instruction_pointer_ + 1
     /\ UNCHANGED <<functions, current_function_, status>>

LEMMA Continues ==
  /\ \A e : e # "undefined" /\ Throw(e) => GoesOn
  /\ \A newHeap : Continue(newHeap) => GoesOn
  /\ \A n, p : Yield(n, p) => GoesOn
  /\ \A n, x : YieldNew(n, x) => GoesOn
  /\ \A frame, n, popped : GetLocalVar(frame, n, popped) => GoesOn
  /\ \A i, k, p : SetField(i, k, p) => GoesOn
  /\ \A f, n, p, newHeap, text : Answer(f, n, p, newHeap, text) => GoesOn
<1>1. \A e : e # "undefined" /\ Throw(e) => GoesOn
  BY DEF GoesOn
<1>2. \A newHeap : Continue(newHeap) => GoesOn
  BY DEF GoesOn, Continue, context
<1>3. /\ \A n, p : Yield(n, p) => GoesOn
      /\ \A n, x : YieldNew(n, x) => GoesOn
      /\ \A i, k, p : SetField(i, k, p) => GoesOn
  BY <1>2 DEF Yield, YieldNew, SetField
<1>4. \A frame, n, popped : GetLocalVar(frame, n, popped) => GoesOn
  BY <1>1, <1>3 DEF GetLocalVar, Within
<1>5. \A f, n, p, newHeap, text : Answer(f, n, p, newHeap, text) => GoesOn
  BY DEF GoesOn, Answer
<1> QED
  BY <1>1, <1>2, <1>3, <1>4, <1>5

(* The value that is printed is one.                                       *)
LEMMA PrintFaultGoesOn ==
  ASSUME IInv, ConsistentTable(functions), NEW p \in Value(functions, heap),
         Throw(toString(p).fault)
  PROVE  GoesOn
  BY PrintingDefined, Continues

LEMMA SetLocalVarGoesOn ==
  ASSUME NEW frame, NEW n, NEW p, NEW popped, Valid(heap[frame].locals, n),
         SetLocalVar(frame, n, p, popped)
  PROVE  GoesOn
  BY Continues DEF SetLocalVar

(* The variables a consistent program names are those its frames have.     *)
LEMMA TopVariables ==
  ASSUME IInv, ConsistentTable(functions)
  PROVE  /\ Len(heap[Top].locals) \in Nat /\ Len(heap[Top].locals) >= This.local_vars
         /\ Len(heap[GlobalFrame].locals) = Len(functions["main"].names)
         /\ Len(functions["main"].names) \in Nat \ {0}
<1> DEFINE last == Len(stack_frames_)
<1>1. /\ last \in Nat \ {0} /\ last = Len(callers) + 1 /\ Len(callers) \in Nat
      /\ DOMAIN stack_frames_ = 1..last
      /\ Top = stack_frames_[last] /\ GlobalFrame = stack_frames_[1]
  BY RunningFrames DEF IInv, TypeOK
<1> HIDE DEF last
<1>2. /\ Len(heap[Top].locals) = Variables(last)
      /\ Len(heap[GlobalFrame].locals) = Variables(1)
  BY <1>1 DEF IInv, Activations
<1>3. TypedFunction(functions, functions["main"]) /\ "main" \in DOMAIN functions
  BY StartedTyped DEF IInv, TypeOK, TypedTable
<1>4. /\ Len(functions["main"].names) \in Nat \ {0}
      /\ functions["main"].local_vars <= Len(functions["main"].names)
      /\ functions["main"].local_vars \in Nat
  BY <1>3 DEF TypedFunction, ConsistentTable
<1>5. FunctionAt(last) = current_function_ /\ FunctionNamed("main") = functions["main"]
  BY <1>1 DEF FunctionAt, FunctionNamed, Natives
<1>6. CASE last = 1
  BY <1>2, <1>4, <1>5, <1>6 DEF Variables, IInv, Activations, This
<1>7. CASE last # 1
  <2>1. Variables(last) = This.local_vars
    BY <1>5, <1>7 DEF Variables, This
  <2>2. This.local_vars \in Nat
    BY ThisTyped DEF TypedFunction
  <2> QED
    BY <1>2, <1>4, <2>1, <2>2 DEF Variables
<1> QED
  BY <1>6, <1>7

LEMMA GlobalIndexValid ==
  ASSUME IInv, ConsistentTable(functions), NEW name
  PROVE  Valid(heap[GlobalFrame].locals, GlobalIndex(name))
<1> DEFINE names == functions["main"].names
           at == {i \in DOMAIN names : names[i] = name}
<1>1. /\ Len(heap[GlobalFrame].locals) = Len(names) /\ Len(names) \in Nat \ {0}
  BY TopVariables
<1>2. DOMAIN names = 1..Len(names)
  <2>1. TypedFunction(functions, functions["main"])
    BY StartedTyped DEF IInv, TypeOK, TypedTable
  <2> QED
    BY <2>1 DEF TypedFunction
<1>3. GlobalIndex(name) = IF at = {} THEN 0 ELSE Max(at) - 1
  BY DEF GlobalIndex
<1> HIDE DEF names
<1>4. CASE at = {}
  BY <1>1, <1>3, <1>4 DEF Valid
<1>5. CASE at # {}
  <2>1. at \in SUBSET (0..Len(names)) /\ at \subseteq 1..Len(names)
    BY <1>1, <1>2
  <2> HIDE DEF at
  <2>2. \E x \in at : \A y \in at : x >= y
    BY <1>1, <1>5, <2>1, Maximum
  <2>3. Max(at) \in at
    BY <2>2 DEF Max
  <2>4. GlobalIndex(name) = Max(at) - 1
    BY <1>3, <1>5
  <2>5. Max(at) \in 1..Len(names)
    BY <2>1, <2>3
  <2>6. GlobalIndex(name) \in 0..(Len(names) - 1)
    BY <1>1, <2>4, <2>5
  <2> QED
    BY <1>1, <2>6 DEF Valid
<1> QED
  BY <1>4, <1>5

-----------------------------------------------------------------------------
(* The instructions of a consistent program.                               *)

LEMMA VariableGoesOn ==
  ASSUME IInv, ConsistentTable(functions), NEW n
  PROVE  /\ n \in 0..(This.local_vars - 1) /\ StoreLocal(n) => GoesOn
         /\ LoadConst(n) \/ LoadLocal(n) \/ LoadGlobal(n) \/ StoreGlobal(n) => GoesOn
         /\ LoadReference \/ StoreReference => GoesOn
<1>1. ASSUME n \in 0..(This.local_vars - 1), StoreLocal(n) PROVE GoesOn
  <2>1. This.local_vars \in Nat
    BY ThisTyped DEF TypedFunction
  <2>2. Valid(heap[Top].locals, n)
    BY <1>1, <2>1, TopVariables DEF Valid
  <2> QED
    BY <1>1, <2>2, FaultsDefined, Continues, SetLocalVarGoesOn DEF StoreLocal, Given
<1>2. LoadLocal(n) => GoesOn
  BY Continues DEF LoadLocal
<1>3. LoadGlobal(n) => GoesOn
  BY Continues DEF LoadGlobal, Within
<1>4. StoreGlobal(n) => GoesOn
  BY FaultsDefined, Continues, GlobalIndexValid, SetLocalVarGoesOn DEF StoreGlobal, Given, Within
<1>5. LoadReference => GoesOn
  BY FaultsDefined, Continues DEF LoadReference, Given
<1>6. ASSUME StoreReference PROVE GoesOn
  <2> DEFINE asked == <<Is(1, "Reference"), Pop(2)>>
  <2>1. CASE Fault(asked) # "none"
    BY <1>6, <2>1, FaultsDefined, Continues DEF StoreReference, Given
  <2>2. CASE Fault(asked) = "none"
    <3>1. /\ Peek(1) \in Value(functions, heap) /\ Deref(Peek(1)).kind = "Reference"
          /\ Operand(1) = Deref(Peek(1))
      BY <2>2, GivenTwo, MeetsOperand
    <3>2. SoundObject(functions, heap, Operand(1)) /\ Operand(1).kind = "Reference"
      BY <3>1, HeapOperand
    <3>3. /\ Operand(1).index \in Nat /\ Operand(1).frame \in OfKind(heap, {"Frame"})
          /\ Operand(1).index < Len(heap[Operand(1).frame].locals)
      BY <3>2 DEF SoundObject, ReferenceObject, Fits
    <3>4. Len(heap[Operand(1).frame].locals) \in Nat
      <4>1. heap[Operand(1).frame] \in FrameObject(functions, heap)
        BY <3>3 DEF OfKind, IInv, SoundHeap, SoundObject
      <4> QED
        BY <4>1, FrameFields
    <3>5. Valid(heap[Operand(1).frame].locals, Operand(1).index)
      BY <3>3, <3>4 DEF Valid
    <3> QED
      BY <1>6, <2>2, <3>5, SetLocalVarGoesOn DEF StoreReference, Given
  <2> QED
    BY <2>1, <2>2
<1>7. LoadConst(n) => GoesOn
  BY Continues DEF LoadConst, Within
<1> QED
  BY <1>1, <1>2, <1>3, <1>4, <1>5, <1>6, <1>7

LEMMA RecordGoesOn ==
  ASSUME IInv, ConsistentTable(functions), NEW n
  PROVE  /\ AllocRecord \/ FieldLoad(n) \/ FieldStore(n) => GoesOn
         /\ IndexLoad \/ IndexStore => GoesOn
<1>1. AllocRecord => GoesOn
  BY Continues DEF AllocRecord
<1>2. FieldLoad(n) => GoesOn
  BY FaultsDefined, Continues DEF FieldLoad, Given, Within
<1>3. FieldStore(n) => GoesOn
  BY FaultsDefined, Continues DEF FieldStore, Given, Within
<1>4. ASSUME IndexLoad PROVE GoesOn
  <2>1. CASE Fault(<<Pop(1)>>) # "none"
    BY <1>4, <2>1, FaultsDefined, Continues DEF IndexLoad, Given
  <2>2. CASE Fault(<<Pop(1)>>) = "none" /\ toString(Peek(1)).fault # "none"
    BY <1>4, <2>2, PopOne, PrintFaultGoesOn DEF IndexLoad, Given, Printing
  <2>3. CASE Fault(<<Pop(1)>>) = "none" /\ toString(Peek(1)).fault = "none"
    BY <1>4, <2>3, FaultsDefined, Continues DEF IndexLoad, Given, Printing
  <2> QED
    BY <2>1, <2>2, <2>3
<1>5. ASSUME IndexStore PROVE GoesOn
  <2> DEFINE asked == <<Pop(1), Pop(2)>>
  <2>1. CASE Fault(asked) # "none"
    BY <1>5, <2>1, FaultsDefined, Continues DEF IndexStore, Given
  <2>2. CASE Fault(asked) = "none" /\ toString(Peek(2)).fault # "none"
    <3>1. Peek(2) \in Value(functions, heap)
      BY <2>2, GivenTwo, MeetsOperand
    <3> QED
      BY <1>5, <2>2, <3>1, PrintFaultGoesOn DEF IndexStore, Given, Printing
  <2>3. CASE Fault(asked) = "none" /\ toString(Peek(2)).fault = "none"
    BY <1>5, <2>3, FaultsDefined, Continues DEF IndexStore, Given, Printing
  <2> QED
    BY <2>1, <2>2, <2>3
<1> QED
  BY <1>1, <1>2, <1>3, <1>4, <1>5

LEMMA ArithmeticGoesOn ==
  ASSUME IInv, ConsistentTable(functions)
  PROVE  /\ Sub \/ Mul \/ Div \/ Neg => GoesOn
         /\ Gt \/ Geq \/ Eq \/ And \/ Or \/ Not => GoesOn
         /\ Add => GoesOn
<1>1. Sub => GoesOn
  BY FaultsDefined, Continues DEF Sub, Given
<1>2. Mul => GoesOn
  BY FaultsDefined, Continues DEF Mul, Given
<1>3. Div => GoesOn
  BY FaultsDefined, Continues DEF Div, Given
<1>4. Neg => GoesOn
  BY FaultsDefined, Continues DEF Neg, Given
<1>5. Gt => GoesOn
  BY FaultsDefined, Continues DEF Gt, Given
<1>6. Geq => GoesOn
  BY FaultsDefined, Continues DEF Geq, Given
<1>7. Eq => GoesOn
  BY FaultsDefined, Continues DEF Eq, Given
<1>8. And => GoesOn
  BY FaultsDefined, Continues DEF And, Given
<1>9. Or => GoesOn
  BY FaultsDefined, Continues DEF Or, Given
<1>10. Not => GoesOn
  BY FaultsDefined, Continues DEF Not, Given
<1>11. ASSUME Add PROVE GoesOn
  <2> DEFINE asked == <<Pop(1), Pop(2), Typed(2), Typed(1)>>
             text == toString(Peek(2)).text \o toString(Peek(1)).text
             printed == Printing(Peek(2), Printing(Peek(1), YieldNew(2, String(text))))
  <2>1. CASE Fault(asked) # "none"
    BY <1>11, <2>1, FaultsDefined, Continues DEF Add, Given
  <2>2. CASE Fault(asked) = "none" /\ ~printed
    BY <1>11, <2>2, Continues DEF Add, Given
  <2>3. CASE Fault(asked) = "none" /\ printed
    <3>1. Peek(1) \in Value(functions, heap) /\ Peek(2) \in Value(functions, heap)
      BY <2>3, GivenFour, MeetsOperand
    <3> HIDE DEF text
    <3>2. CASE toString(Peek(2)).fault # "none"
      BY <2>3, <3>1, <3>2, PrintFaultGoesOn DEF Printing
    <3>3. CASE toString(Peek(2)).fault = "none" /\ toString(Peek(1)).fault # "none"
      BY <2>3, <3>1, <3>3, PrintFaultGoesOn DEF Printing
    <3>4. CASE toString(Peek(2)).fault = "none" /\ toString(Peek(1)).fault = "none"
      BY <2>3, <3>4, Continues DEF Printing
    <3> QED
      BY <3>2, <3>3, <3>4
  <2> QED
    BY <2>1, <2>2, <2>3
<1> QED
  BY <1>1, <1>2, <1>3, <1>4, <1>5, <1>6, <1>7, <1>8, <1>9, <1>10, <1>11

LEMMA OperandGoesOn ==
  ASSUME IInv, ConsistentTable(functions), NEW n \in Nat
  PROVE  Dup \/ Swap \/ PopOperand \/ AllocClosure(n) \/ PushUnresolved => GoesOn
<1>1. Dup => GoesOn
  BY FaultsDefined, Continues DEF Dup, Given
<1>2. Swap => GoesOn
  BY FaultsDefined, Continues DEF Swap, Given
<1>3. PopOperand => GoesOn
  BY FaultsDefined, Continues DEF PopOperand, Given
<1>4. AllocClosure(n) => GoesOn
  <2> DEFINE asked == [i \in 1..n |-> Is(i, "Reference")] \o <<Is(n + 1, "Function")>>
  <2>1. /\ DOMAIN asked = 1..(n + 1) /\ n + 1 \in Nat
        /\ \A j \in 1..(n + 1) : asked[j][1] \in Nat \ {0}
    BY DEF Is
  <2>2. Fault(asked) # "undefined"
    <3> HIDE DEF asked
    <3> QED
      BY <2>1, FaultDefined
  <2> QED
    BY <2>2, Continues DEF AllocClosure, Given
<1>5. PushUnresolved => GoesOn
  BY Continues DEF PushUnresolved
<1> QED
  BY <1>1, <1>2, <1>3, <1>4, <1>5

-----------------------------------------------------------------------------
(* The operands of a capture stay where alloc_closure expects them, and    *)
(* nothing undefined happens.                                              *)

StaysDefined == Capturing' /\ status' # "undefined"

LEMMA ThrowStaysDefined ==
  ASSUME IInv, NEW e, e # "undefined", Throw(e)
  PROVE  StaysDefined
<1>1. /\ UNCHANGED <<functions, heap, stack_frames_, current_function_, instruction_pointer_>>
      /\ status' = e
  BY DEF Throw, context
<1>2. Stack' = Stack
  BY <1>1 DEF Stack, Top
<1> QED
  BY <1>1, <1>2, SameOperandsStep DEF StaysDefined, IInv

LEMMA GoesOnStaysDefined ==
  ASSUME IInv, ConsistentTable(functions),
         instruction_pointer_ + 1 \in 1..Len(This.instructions),
         NEW i \in This.instructions[instruction_pointer_ + 1],
         i[1] \notin {"LoadFunc", "PushReference"}, GoesOn
  PROVE  StaysDefined
<1>1. CASE \E e : e # "undefined" /\ Throw(e)
  BY <1>1, ThrowStaysDefined
<1>2. CASE /\ instruction_pointer_' = instruction_pointer_ + 1
           /\ UNCHANGED <<functions, current_function_, status>>
  <2>1. current_function_ \in FunctionNames(functions)
    BY DEF IInv, TypeOK, FunctionNames
  <2>2. ~Inside(This, instruction_pointer_ + 1 + 1)
    BY <2>1, NotCaptured DEF This
  <2>3. This' = This
    BY <1>2 DEF This, FunctionNamed
  <2>4. ~Inside(This, instruction_pointer_ + 1)'
    BY <1>2, <2>2, <2>3 DEF Inside
  <2>5. Capturing'
    BY <1>2, <2>4, OutsideStep
  <2> QED
    BY <1>2, <2>5 DEF StaysDefined, IInv, DefinedBehaviour
<1> QED
  BY <1>1, <1>2 DEF GoesOn

(* A jump does not lead into a capture.                                    *)
LEMMA JumpStaysDefined ==
  ASSUME IInv, ConsistentTable(functions), NEW newHeap, NEW target,
         ~Inside(This, target + 1), Jump(newHeap, target)
  PROVE  StaysDefined
<1>1. instruction_pointer_' = target /\ UNCHANGED <<functions, current_function_, status>>
  BY DEF Jump, context
<1>2. This' = This
  BY <1>1 DEF This, FunctionNamed
<1>3. ~Inside(This, instruction_pointer_ + 1)'
  BY <1>1, <1>2 DEF Inside
<1> QED
  BY <1>1, <1>3, OutsideStep DEF StaysDefined, IInv, DefinedBehaviour

LEMMA JumpsStayDefined ==
  ASSUME IInv, ConsistentTable(functions),
         instruction_pointer_ + 1 \in 1..Len(This.instructions),
         NEW i \in This.instructions[instruction_pointer_ + 1], TypedInstruction(i)
  PROVE  /\ i[1] = "Goto" /\ Goto(i[2]) => StaysDefined
         /\ i[1] = "If" /\ If(i[2]) => StaysDefined
         /\ Return => StaysDefined
<1> DEFINE p == instruction_pointer_ + 1
<1>1. /\ current_function_ \in FunctionNames(functions) /\ instruction_pointer_ \in Int
      /\ This = FunctionNamed(current_function_)
  BY DEF IInv, TypeOK, FunctionNames, This
<1>2. ConsistentFunction(functions, This) /\ TypedFunction(functions, This)
  BY <1>1, NamedConsistent, ThisTyped
<1>3. i[1] \in {"Goto", "If"} => i[2] \in Int /\ ~Inside(This, p + i[2])
  BY <1>2 DEF ConsistentFunction, TypedInstruction
<1>4. ASSUME i[1] = "Goto", Goto(i[2]) PROVE StaysDefined
  <2>1. (instruction_pointer_ + i[2]) + 1 = p + i[2]
    BY <1>1, <1>3, <1>4
  <2>2. ~Inside(This, (instruction_pointer_ + i[2]) + 1)
    BY <1>3, <1>4, <2>1
  <2> QED
    BY <1>4, <2>2, JumpStaysDefined DEF Goto
<1>5. ASSUME i[1] = "If", If(i[2]) PROVE StaysDefined
  <2> DEFINE target == instruction_pointer_ + (IF Operand(1).bool THEN i[2] ELSE 1)
             asked == <<Is(1, "Boolean")>>
  <2>1. CASE Fault(asked) # "none"
    BY <1>5, <2>1, FaultsDefined, ThrowStaysDefined DEF If, Given
  <2>2. CASE Fault(asked) = "none"
    <3>1. Jump(Replace(1, << >>), target)
      BY <1>5, <2>2 DEF If, Given
    <3>2. ~Inside(This, p + 1)
      BY <1>1, <1>5, NotCaptured
    <3>3. target + 1 = p + i[2] \/ target + 1 = p + 1
      BY <1>1, <1>3, <1>5
    <3>4. ~Inside(This, target + 1)
      BY <1>3, <1>5, <3>2, <3>3
    <3> HIDE DEF target
    <3> QED
      BY <3>1, <3>4, JumpStaysDefined
  <2> QED
    BY <2>1, <2>2
<1>6. ASSUME Return PROVE StaysDefined
  <2> DEFINE asked == <<Pop(1)>>
  <2>1. CASE Fault(asked) # "none"
    BY <1>6, <2>1, FaultsDefined, ThrowStaysDefined DEF Return, Given
  <2>2. CASE Fault(asked) = "none"
    <3>1. ~Inside(This, Len(This.instructions) + 2)
      BY <1>1, NotAtEnds
    <3>2. (Len(This.instructions) + 1) + 1 = Len(This.instructions) + 2
      BY <1>2 DEF TypedFunction
    <3>3. Jump(heap, Len(This.instructions) + 1)
      BY <1>6, <2>2 DEF Return, Given
    <3>4. ~Inside(This, (Len(This.instructions) + 1) + 1)
      BY <3>1, <3>2
    <3> QED
      BY <3>3, <3>4, JumpStaysDefined
  <2> QED
    BY <2>1, <2>2
<1> QED
  BY <1>4, <1>5, <1>6

(* One more operand: the others are one further from the top.              *)
LEMMA YieldPushes ==
  ASSUME IInv, NEW p \in Value(functions, heap), Yield(0, p)
  PROVE  /\ Len(Stack)' = Len(Stack) + 1
         /\ Peek(1)' = p
         /\ \A k \in 1..Len(Stack) : Peek(k + 1)' = Peek(k)
<1>1. heap' = Replace(0, <<p>>) /\ stack_frames_' = stack_frames_
  BY DEF Yield, Continue
<1>2. Replace(0, <<p>>)[Top] = WithStack(heap[Top], Below(0) \o <<p>>)
  BY ReplaceHeap
<1>3. Stack' = Below(0) \o <<p>>
  <2>1. heap'[Top'] = WithStack(heap[Top], Below(0) \o <<p>>)
    BY <1>1, <1>2 DEF Top
  <2> QED
    BY <2>1 DEF Stack, WithStack
<1>4. Stack \in Seq(Value(functions, heap)) /\ Len(Stack) \in Nat
  BY Operands
<1>5. Below(0) = Stack
  BY <1>4 DEF Below
<1>6. /\ Len(Stack') = Len(Stack) + 1 /\ Stack'[Len(Stack) + 1] = p
      /\ \A k \in 1..Len(Stack) : Stack'[k] = Stack[k]
  <2> HIDE DEF Stack
  <2> QED
    BY <1>3, <1>4, <1>5
<1>7. Peek(1)' = p
  BY <1>4, <1>6 DEF Peek
<1>8. ASSUME NEW k \in 1..Len(Stack) PROVE Peek(k + 1)' = Peek(k)
  <2>1. /\ Len(Stack) + 1 - k \in 1..Len(Stack)
        /\ (Len(Stack) + 1) + 1 - (k + 1) = Len(Stack) + 1 - k
    BY <1>4
  <2> QED
    BY <1>6, <2>1 DEF Peek
<1> QED
  BY <1>6, <1>7, <1>8

(* Where an instruction of a capture stands in it.                         *)
LEMMA CaptureSteps ==
  ASSUME IInv, ConsistentTable(functions),
         instruction_pointer_ + 1 \in 1..Len(This.instructions),
         NEW i \in This.instructions[instruction_pointer_ + 1],
         NEW q \in 1..Len(This.instructions), NEW j \in This.instructions[q],
         j[1] = "AllocClosure", instruction_pointer_ + 2 \in (q - j[2])..q
  PROVE  /\ j[2] \in Nat /\ q \in Nat /\ instruction_pointer_ \in Int
         /\ i[1] = "LoadFunc" =>
              /\ instruction_pointer_ + 3 + j[2] - q = 1
              /\ i[2] + 1 \in DOMAIN This.functions =>
                   FreeVariables(functions, This.functions[i[2] + 1]) = j[2]
         /\ i[1] = "PushReference" => instruction_pointer_ + 1 \in (q - j[2])..q
<1>1. /\ current_function_ \in FunctionNames(functions) /\ instruction_pointer_ \in Int
      /\ This = FunctionNamed(current_function_)
  BY DEF IInv, TypeOK, FunctionNames, This
<1>2. ConsistentFunction(functions, This) /\ TypedFunction(functions, This)
  BY <1>1, NamedConsistent, ThisTyped
<1>3. j[2] \in Nat /\ q \in Nat /\ Captures(functions, This, q, j[2])
  <2>1. Len(This.instructions) \in Nat /\ TypedInstruction(j)
    BY <1>2 DEF TypedFunction
  <2>2. Captures(functions, This, q, j[2])
    BY <1>2 DEF ConsistentFunction
  <2> QED
    BY <2>1, <2>2 DEF TypedInstruction
<1>4. CASE instruction_pointer_ + 1 = q - j[2] - 1
  <2>1. i \in This.instructions[q - j[2] - 1]
    BY <1>4
  <2>2. /\ i[1] = "LoadFunc"
        /\ i[2] + 1 \in DOMAIN This.functions =>
             FreeVariables(functions, This.functions[i[2] + 1]) = j[2]
    BY <1>3, <2>1 DEF Captures
  <2>3. \A a, b \in Int, c \in Nat : a + 1 = b - c - 1 => a + 3 + c - b = 1
    OBVIOUS
  <2>4. instruction_pointer_ \in Int /\ q \in Int /\ j[2] \in Nat
    BY <1>1, <1>3
  <2>5. instruction_pointer_ + 3 + j[2] - q = 1
    BY <1>4, <2>3, <2>4
  <2> QED
    BY <2>2, <2>4, <2>5
<1>5. CASE instruction_pointer_ + 1 # q - j[2] - 1
  <2>1. instruction_pointer_ + 1 \in (q - j[2])..(q - 1)
    BY <1>1, <1>3, <1>5
  <2>2. i[1] = "PushReference"
    BY <1>3, <2>1 DEF Captures
  <2> QED
    BY <1>1, <1>3, <2>1, <2>2
<1> QED
  BY <1>4, <1>5

LEMMA LoadFuncStaysDefined ==
  ASSUME IInv, ConsistentTable(functions),
         instruction_pointer_ + 1 \in 1..Len(This.instructions),
         NEW i \in This.instructions[instruction_pointer_ + 1], i[1] = "LoadFunc",
         LoadFunc(i[2])
  PROVE  StaysDefined
<1> DEFINE f == This.functions[i[2] + 1]
<1>1. CASE ~Valid(This.functions, i[2])
  BY <1>1, ThrowStaysDefined DEF LoadFunc, Within
<1>2. CASE Valid(This.functions, i[2])
  <2>1. This.functions \in Seq(FunctionNames(functions))
    BY ThisTyped DEF TypedFunction
  <2>2. i[2] + 1 \in DOMAIN This.functions /\ f \in FunctionNames(functions)
    BY <1>2, <2>1 DEF Valid
  <2>3. Yield(0, Static(Function(f)))
    BY <1>2 DEF LoadFunc, Within
  <2> HIDE DEF f
  <2>4. Static(Function(f)) \in Value(functions, heap)
    BY <2>2 DEF Static, Function, Value, StaticObject
  <2>5. Len(Stack)' = Len(Stack) + 1 /\ Peek(1)' = Static(Function(f)) /\ Len(Stack) \in Nat
    BY <2>3, <2>4, YieldPushes, Operands
  <2>6. /\ instruction_pointer_' = instruction_pointer_ + 1
        /\ UNCHANGED <<functions, current_function_, status>>
    BY <2>3 DEF Yield, Continue, context
  <2>7. This' = This
    BY <2>6 DEF This, FunctionNamed
  <2>8. /\ instruction_pointer_' + 1 = instruction_pointer_ + 2
        /\ instruction_pointer_' + 2 = instruction_pointer_ + 3
    BY <2>6 DEF IInv, TypeOK
  <2>9. ASSUME NEW q \in 1..Len(This.instructions), NEW j \in This.instructions[q],
               j[1] = "AllocClosure", instruction_pointer_ + 2 \in (q - j[2])..q,
               NEW k, k = instruction_pointer_ + 3 + j[2] - q
        PROVE  CapturedFunction(k, j[2])'
    <3>1. k = 1 /\ FreeVariables(functions, f) = j[2]
      BY <2>2, <2>9, CaptureSteps DEF f
    <3>2. 1 \in 1..Len(Stack)' /\ f \in FunctionNames(functions)'
      BY <2>2, <2>5, <2>6
    <3> QED
      BY <2>5, <2>6, <3>1, <3>2 DEF CapturedFunction
  <2>10. Capturing'
    BY <2>6, <2>7, <2>8, <2>9 DEF Capturing
  <2> QED
    BY <2>6, <2>10 DEF StaysDefined, IInv, DefinedBehaviour
<1> QED
  BY <1>1, <1>2

LEMMA OneDeeper ==
  ASSUME NEW p \in Int, NEW q \in Int, NEW n \in Nat, NEW k, k = p + 3 + n - q
  PROVE  k \in Int /\ k - 1 = p + 2 + n - q /\ (k - 1) + 1 = k
  OBVIOUS

LEMMA PushReferenceStaysDefined ==
  ASSUME IInv, ConsistentTable(functions),
         instruction_pointer_ + 1 \in 1..Len(This.instructions),
         NEW i \in This.instructions[instruction_pointer_ + 1], i[1] = "PushReference",
         PushReference(i[2])
  PROVE  StaysDefined
<1> DEFINE p == heap[Top].refs[i[2] + 1]
<1>1. CASE ~Valid(heap[Top].refs, i[2])
  BY <1>1, ThrowStaysDefined DEF PushReference
<1>2. CASE Valid(heap[Top].refs, i[2])
  <2>1. heap[Top].refs \in Seq(Slot(functions, heap))
    BY RunningFrames, FrameFields
  <2>2. p \in Value(functions, heap)
    BY <1>2, <2>1, SlotIsValue DEF Valid
  <2>3. Yield(0, p)
    BY <1>2 DEF PushReference
  <2> HIDE DEF p
  <2>4. /\ Len(Stack)' = Len(Stack) + 1 /\ Len(Stack) \in Nat
        /\ \A k \in 1..Len(Stack) : Peek(k + 1)' = Peek(k)
    BY <2>2, <2>3, YieldPushes, Operands
  <2>5. /\ instruction_pointer_' = instruction_pointer_ + 1
        /\ UNCHANGED <<functions, current_function_, status>>
    BY <2>3 DEF Yield, Continue, context
  <2>6. This' = This
    BY <2>5 DEF This, FunctionNamed
  <2>7. /\ instruction_pointer_' + 1 = instruction_pointer_ + 2
        /\ instruction_pointer_' + 2 = instruction_pointer_ + 3
    BY <2>5 DEF IInv, TypeOK
  <2>8. ASSUME NEW q \in 1..Len(This.instructions), NEW j \in This.instructions[q],
               j[1] = "AllocClosure", instruction_pointer_ + 2 \in (q - j[2])..q,
               NEW k, k = instruction_pointer_ + 3 + j[2] - q
        PROVE  CapturedFunction(k, j[2])'
    <3>1. /\ instruction_pointer_ + 1 \in (q - j[2])..q
          /\ j[2] \in Nat /\ q \in Nat /\ instruction_pointer_ \in Int
      BY <2>8, CaptureSteps
    <3>2. k \in Int /\ k - 1 = instruction_pointer_ + 2 + j[2] - q /\ (k - 1) + 1 = k
      <4>1. q \in Int
        BY <3>1
      <4>2. k = instruction_pointer_ + 3 + j[2] - q
        BY <2>8
      <4>3. j[2] \in Nat /\ instruction_pointer_ \in Int
        BY <3>1
      <4> QED
        BY <4>1, <4>2, <4>3, OneDeeper, SMTT(30)
    <3>3. CapturedFunction(k - 1, j[2])
      BY <2>8, <3>1, <3>2 DEF IInv, Capturing
    <3>4. PICK f \in FunctionNames(functions) :
            Peek(k - 1) = Static(Function(f)) /\ FreeVariables(functions, f) = j[2]
      BY <3>3 DEF CapturedFunction
    <3>5. k - 1 \in 1..Len(Stack)
      BY <3>3 DEF CapturedFunction
    <3>6. k \in 1..Len(Stack)'
      BY <2>4, <3>2, <3>5
    <3>7. Peek(k)' = Static(Function(f))
      BY <2>4, <3>2, <3>4, <3>5
    <3> QED
      BY <2>5, <3>4, <3>6, <3>7 DEF CapturedFunction
  <2>9. Capturing'
    BY <2>5, <2>6, <2>7, <2>8 DEF Capturing
  <2> QED
    BY <2>5, <2>9 DEF StaysDefined, IInv, DefinedBehaviour
<1> QED
  BY <1>1, <1>2

-----------------------------------------------------------------------------
(* Calls.                                                                  *)

LEMMA EnterStaysDefined ==
  ASSUME IInv, ConsistentTable(functions), NEW f \in DOMAIN functions, NEW n, Enter(f, n)
  PROVE  StaysDefined
<1>1. /\ current_function_' = f /\ instruction_pointer_' = 0
      /\ functions' = functions /\ status' = status
  BY DEF Enter
<1>2. ~Inside(FunctionNamed(f), 1)
  BY NotAtEnds DEF FunctionNames
<1>3. This' = FunctionNamed(f) /\ instruction_pointer_' + 1 = 1
  BY <1>1 DEF This, FunctionNamed
<1>4. ~Inside(This, instruction_pointer_ + 1)'
  BY <1>2, <1>3 DEF Inside
<1> QED
  BY <1>1, <1>4, OutsideStep DEF StaysDefined, IInv, DefinedBehaviour

LEMMA NativeGoesOn ==
  ASSUME IInv, ConsistentTable(functions)
  PROVE  /\ 1 \in 1..Len(Stack) /\ print => GoesOn
         /\ \A words : input(words) => GoesOn
         /\ intcast => GoesOn
<1>1. ASSUME 1 \in 1..Len(Stack), print PROVE GoesOn
  <2>1. CASE toString(Peek(1)).fault # "none"
    BY <1>1, <2>1, Operands, PrintFaultGoesOn DEF print, Printing
  <2>2. CASE toString(Peek(1)).fault = "none"
    BY <1>1, <2>2, Continues DEF print, Printing
  <2> QED
    BY <2>1, <2>2
<1>2. \A words : input(words) => GoesOn
  BY Continues DEF input, AnswerNew
<1>3. ASSUME intcast PROVE GoesOn
  <2> DEFINE asked == <<Is(1, "String")>>
             text == Operand(1).string
             number == IF text \in DOMAIN Atoi THEN Atoi[text] ELSE 0
  <2>1. CASE Fault(asked) # "none"
    BY <1>3, <2>1, FaultsDefined, Continues DEF intcast, Given
  <2>2. CASE Fault(asked) = "none"
    <3>1. \/ Throw("IllegalCastException")
          \/ AnswerNew("intcast", 1, Integer(number))
      BY <1>3, <2>2 DEF intcast, Given
    <3> HIDE DEF number
    <3> QED
      BY <3>1, Continues DEF AnswerNew
  <2> QED
    BY <2>1, <2>2
<1> QED
  BY <1>1, <1>2, <1>3

LEMMA CallStaysDefined ==
  ASSUME IInv, ConsistentTable(functions),
         instruction_pointer_ + 1 \in 1..Len(This.instructions),
         NEW i \in This.instructions[instruction_pointer_ + 1], i[1] = "Call",
         NEW n \in Nat, NEW words, Call(n, words)
  PROVE  StaysDefined
<1> DEFINE asked == [k \in 1..n |-> Pop(k)] \o <<Is(n + 1, "Closure")>>
           f == Operand(n + 1).function
           callee == FunctionNamed(f)
<1>1. /\ DOMAIN asked = 1..(n + 1) /\ n + 1 \in Nat /\ n + 1 \in DOMAIN asked
      /\ \A k \in 1..(n + 1) : asked[k][1] \in Nat \ {0}
      /\ asked[n + 1] = Is(n + 1, "Closure")
  BY DEF Is, Pop
<1>2. CASE Fault(asked) # "none"
  <2>1. Throw(Fault(asked))
    BY <1>2 DEF Call, Given
  <2> HIDE DEF asked
  <2>2. Fault(asked) # "undefined"
    BY <1>1, FaultDefined
  <2> QED
    BY <2>1, <2>2, ThrowStaysDefined
<1>3. CASE Fault(asked) = "none"
  <2>1. Meets(Is(n + 1, "Closure"))
    <3> HIDE DEF asked
    <3> QED
      BY <1>1, <1>3, FaultOutcome
  <2>2. n + 1 \in 1..Len(Stack) /\ Operand(n + 1).kind = "Closure" /\ 1 \in 1..Len(Stack)
    BY <2>1, MeetsOperand, Operands
  <2>3. f \in FunctionNames(functions) /\ Len(Operand(n + 1).free) = callee.free_vars
    BY <2>2, ClosureOperand
  <2>4. TypedFunction(functions, callee) /\ ConsistentFunction(functions, callee)
    BY <2>3, NamedTyped, NamedConsistent
  <2>5. IF n # callee.parameter_count THEN Throw("RuntimeException")
        ELSE IF n > callee.local_vars \/ Len(Operand(n + 1).free) > callee.free_vars
        THEN Throw("undefined")
        ELSE Execute(f, n, words)
    BY <1>3 DEF Call, Given
  <2> HIDE DEF f, callee, asked
  <2>6. n = callee.parameter_count =>
          ~(n > callee.local_vars) /\ ~(callee.free_vars > callee.free_vars)
    BY <2>4 DEF TypedFunction, ConsistentFunction
  <2>7. Throw("RuntimeException") \/ Execute(f, n, words)
    BY <2>3, <2>5, <2>6
  <2>8. CASE Throw("RuntimeException")
    BY <2>8, ThrowStaysDefined
  <2>9. CASE Execute(f, n, words) /\ f \in {"print", "input", "intcast"}
    <3>1. GoesOn
      BY <2>2, <2>9, NativeGoesOn DEF Execute
    <3> QED
      BY <3>1, GoesOnStaysDefined
  <2>10. CASE Execute(f, n, words) /\ f \notin {"print", "input", "intcast"}
    <3>1. f \in DOMAIN functions
      BY <2>3, <2>10 DEF FunctionNames, Natives
    <3>2. Enter(f, n)
      BY <2>10 DEF Execute
    <3> QED
      BY <3>1, <3>2, EnterStaysDefined
  <2> QED
    BY <2>7, <2>8, <2>9, <2>10
<1> QED
  BY <1>2, <1>3

LEMMA LeaveFunctionStaysDefined ==
  ASSUME IInv, ConsistentTable(functions), LeaveFunction
  PROVE  StaysDefined
<1> DEFINE asked == <<Pop(1)>>
           caller == Last(callers)
<1>1. CASE Fault(asked) # "none"
  BY <1>1, FaultsDefined, ThrowStaysDefined DEF LeaveFunction, Given
<1>2. CASE Fault(asked) = "none"
  <2>1. /\ current_function_' = caller.function
        /\ instruction_pointer_' = caller.pointer + 1
        /\ functions' = functions /\ status' = status
        /\ callers # << >>
    BY <1>2 DEF LeaveFunction, Given
  <2>2. /\ callers \in Seq([function : DOMAIN functions, pointer : Int])
        /\ Len(callers) \in Nat
    BY DEF IInv, TypeOK
  <2>3. Len(callers) \in DOMAIN callers /\ caller = callers[Len(callers)]
    BY <2>1, <2>2 DEF Last
  <2>4. caller \in [function : DOMAIN functions, pointer : Int]
    <3>1. Len(callers) \in Nat \ {0}
      BY <2>1, <2>2
    <3> QED
      BY <2>2, <3>1, FrontLast
  <2>5. Calls(FunctionNamed(caller.function), caller.pointer)
    BY <2>3 DEF IInv, Activations
  <2> HIDE DEF caller
  <2>6. caller.function \in FunctionNames(functions) /\ caller.pointer \in Int
    BY <2>4 DEF FunctionNames
  <2>7. ~Inside(FunctionNamed(caller.function), (caller.pointer + 1) + 1)
    <3> DEFINE p == caller.pointer + 1
    <3>1. p \in 1..Len(FunctionNamed(caller.function).instructions)
      BY <2>5 DEF Calls
    <3>2. PICK i \in FunctionNamed(caller.function).instructions[p] : i[1] = "Call"
      BY <2>5 DEF Calls
    <3> HIDE DEF p
    <3>3. ~Inside(FunctionNamed(caller.function), p + 1)
      BY <2>6, <3>1, <3>2, NotCaptured
    <3> QED
      BY <3>3 DEF p
  <2>8. This' = FunctionNamed(caller.function)
    BY <2>1 DEF This, FunctionNamed
  <2>9. ~Inside(This, instruction_pointer_ + 1)'
    BY <2>1, <2>7, <2>8 DEF Inside
  <2> QED
    BY <2>1, <2>9, OutsideStep DEF StaysDefined, IInv, DefinedBehaviour
<1> QED
  BY <1>1, <1>2

-----------------------------------------------------------------------------
(* A collection follows pointers that lead somewhere.                      *)

LEMMA LiveDefined ==
  ASSUME IInv, ConsistentTable(functions)
  PROVE  ~ \E a \in Live : Static(Garbage) \in Pointers(heap[a])
<1>1. SUFFICES ASSUME NEW a \in Live, Static(Garbage) \in Pointers(heap[a]) PROVE FALSE
  OBVIOUS
<1> DEFINE x == heap[a]
           p == Static(Garbage)
<1>2. SoundObject(functions, heap, x)
  BY LiveClosed DEF Existing, IInv, SoundHeap
<1>3. p \notin Value(functions, heap)
  BY ValueDefined
<1>4. p \notin Slot(functions, heap)
  BY <1>3, SlotIsValue
<1>5. p \notin PointerTo(heap, {"Reference"}) /\ \A b : p # Heap(b)
  BY DEF PointerTo, Static, Heap
<1>6. p \in Pointers(x)
  BY <1>1
<1> HIDE DEF x, p
<1>7. CASE x.kind = "Frame"
  <2>1. /\ x.stack \in Seq(Value(functions, heap)) /\ x.locals \in Seq(Value(functions, heap))
        /\ x.refs \in Seq(Slot(functions, heap))
    BY <1>2, <1>7, FrameFields DEF SoundObject
  <2>2. /\ \A i \in DOMAIN x.stack : x.stack[i] \in Value(functions, heap)
        /\ \A i \in DOMAIN x.locals : x.locals[i] \in Value(functions, heap)
        /\ \A i \in DOMAIN x.refs : x.refs[i] \in Slot(functions, heap)
    BY <2>1
  <2>3. p \in {x.stack[i] : i \in DOMAIN x.stack}
              \cup {x.locals[i] : i \in DOMAIN x.locals}
              \cup {x.refs[i] : i \in DOMAIN x.refs}
    BY <1>6, <1>7 DEF Pointers
  <2> QED
    BY <1>3, <1>4, <2>2, <2>3
<1>8. CASE x.kind = "Record"
  BY <1>2, <1>3, <1>6, <1>8 DEF Pointers, SoundObject
<1>9. CASE x.kind = "Closure"
  <2>1. x.free \in Seq(PointerTo(heap, {"Reference"}))
    BY <1>2, <1>9 DEF SoundObject, ClosureObject
  <2> QED
    BY <1>5, <1>6, <1>9, <2>1 DEF Pointers
<1>10. CASE x.kind = "Reference"
  BY <1>5, <1>6, <1>10 DEF Pointers
<1>11. CASE x.kind \notin {"Frame", "Record", "Closure", "Reference"}
  BY <1>6, <1>11 DEF Pointers
<1> QED
  BY <1>7, <1>8, <1>9, <1>10, <1>11

LEMMA GarbageCollectStaysDefined ==
  ASSUME IInv, ConsistentTable(functions), GarbageCollect
  PROVE  StaysDefined
<1>1. /\ heap' = [a \in Address |-> IF a \in Live THEN heap[a] ELSE Free]
      /\ UNCHANGED <<functions, stack_frames_, current_function_, instruction_pointer_, status>>
  BY LiveDefined DEF GarbageCollect, context
<1>2. Top \in Live /\ Top \in Address
  <2>1. Top = stack_frames_[Len(stack_frames_)] /\ Len(stack_frames_) \in DOMAIN stack_frames_
    BY RunningFrames DEF IInv, TypeOK
  <2> QED
    BY <2>1, LiveClosed, RunningFrames
<1>3. heap'[Top] = heap[Top]
  BY <1>1, <1>2
<1>4. Stack' = Stack
  BY <1>1, <1>3 DEF Stack, Top
<1> QED
  BY <1>1, <1>4, SameOperandsStep DEF StaysDefined, IInv, DefinedBehaviour

-----------------------------------------------------------------------------
(* Every step.                                                             *)

LEMMA PerformStaysDefined ==
  ASSUME IInv, ConsistentTable(functions),
         instruction_pointer_ + 1 \in 1..Len(This.instructions),
         NEW i \in This.instructions[instruction_pointer_ + 1],
         TypedInstruction(i), NEW words, Perform(i, words)
  PROVE  StaysDefined
<1>1. CASE \/ i[1] = "LoadConst" /\ LoadConst(i[2])
           \/ i[1] = "LoadLocal" /\ LoadLocal(i[2])
           \/ i[1] = "LoadGlobal" /\ LoadGlobal(i[2])
           \/ i[1] = "StoreGlobal" /\ StoreGlobal(i[2])
           \/ i[1] = "LoadReference" /\ LoadReference
           \/ i[1] = "StoreReference" /\ StoreReference
  BY <1>1, VariableGoesOn, GoesOnStaysDefined
<1>2. CASE i[1] = "StoreLocal" /\ StoreLocal(i[2])
  <2>1. i[2] \in 0..(This.local_vars - 1)
    <3>1. current_function_ \in FunctionNames(functions)
      BY DEF IInv, TypeOK, FunctionNames
    <3>2. ConsistentFunction(functions, This)
      BY <3>1, NamedConsistent DEF This
    <3> QED
      BY <1>2, <3>2 DEF ConsistentFunction
  <2> QED
    BY <1>2, <2>1, VariableGoesOn, GoesOnStaysDefined
<1>3. CASE \/ i[1] = "AllocRecord" /\ AllocRecord
           \/ i[1] = "FieldLoad" /\ FieldLoad(i[2])
           \/ i[1] = "FieldStore" /\ FieldStore(i[2])
           \/ i[1] = "IndexLoad" /\ IndexLoad
           \/ i[1] = "IndexStore" /\ IndexStore
  BY <1>3, RecordGoesOn, GoesOnStaysDefined
<1>4. CASE \/ i[1] = "Add" /\ Add
           \/ i[1] = "Sub" /\ Sub
           \/ i[1] = "Mul" /\ Mul
           \/ i[1] = "Div" /\ Div
           \/ i[1] = "Neg" /\ Neg
           \/ i[1] = "Gt" /\ Gt
           \/ i[1] = "Geq" /\ Geq
           \/ i[1] = "Eq" /\ Eq
           \/ i[1] = "And" /\ And
           \/ i[1] = "Or" /\ Or
           \/ i[1] = "Not" /\ Not
  BY <1>4, ArithmeticGoesOn, GoesOnStaysDefined
<1>5. CASE \/ i[1] = "Dup" /\ Dup
           \/ i[1] = "Swap" /\ Swap
           \/ i[1] = "Pop" /\ PopOperand
  BY <1>5, OperandGoesOn, GoesOnStaysDefined
<1>6. CASE i[1] = "AllocClosure" /\ AllocClosure(i[2])
  BY <1>6, OperandGoesOn, GoesOnStaysDefined DEF TypedInstruction
<1>7. CASE i[1] = "PushReference" /\ PushUnresolved
  BY <1>7, ThrowStaysDefined DEF PushUnresolved
<1>8. CASE i[1] = "PushReference" /\ PushReference(i[2])
  BY <1>8, PushReferenceStaysDefined
<1>9. CASE i[1] = "LoadFunc" /\ LoadFunc(i[2])
  BY <1>9, LoadFuncStaysDefined
<1>10. CASE i[1] = "Call" /\ Call(i[2], words)
  BY <1>10, CallStaysDefined DEF TypedInstruction
<1>11. CASE \/ i[1] = "Goto" /\ Goto(i[2])
            \/ i[1] = "If" /\ If(i[2])
            \/ i[1] = "Return" /\ Return
  BY <1>11, JumpsStayDefined
<1> QED
  BY <1>1, <1>2, <1>3, <1>4, <1>5, <1>6, <1>7, <1>8, <1>9, <1>10, <1>11 DEF Perform

LEMMA ExecuteStaysDefined ==
  ASSUME IInv, ConsistentTable(functions), executeInstruction
  PROVE  StaysDefined
<1>1. CASE instruction_pointer_ < 0
  BY <1>1, ThrowStaysDefined DEF executeInstruction
<1>2. CASE ~(instruction_pointer_ < 0)
  <2>1. PICK i \in This.instructions[instruction_pointer_ + 1] : Perform(i, Inputs)
    BY <1>2 DEF executeInstruction
  <2>2. instruction_pointer_ + 1 \in 1..Len(This.instructions)
    <3>1. instruction_pointer_ \in Int /\ Len(This.instructions) \in Nat
      BY ThisTyped DEF TypedFunction, IInv, TypeOK
    <3> QED
      BY <1>2, <3>1 DEF executeInstruction, More
  <2>3. TypedInstruction(i)
    BY <2>1, <2>2, ThisTyped DEF TypedFunction
  <2> QED
    BY <2>1, <2>2, <2>3, PerformStaysDefined
<1> QED
  BY <1>1, <1>2

LEMMA StepStaysDefined ==
  ASSUME IInv, ConsistentTable(functions), [Next]_vars
  PROVE  StaysDefined
<1>1. CASE executeInstruction
  BY <1>1, ExecuteStaysDefined
<1>2. CASE LeaveFunction
  BY <1>2, LeaveFunctionStaysDefined
<1>3. CASE LeaveMain
  <2>1. Throw("finished")
    BY <1>3 DEF LeaveMain, Throw
  <2> QED
    BY <2>1, ThrowStaysDefined
<1>4. CASE GarbageCollect
  BY <1>4, GarbageCollectStaysDefined
<1>5. CASE UNCHANGED vars
  <2>1. UNCHANGED <<functions, heap, stack_frames_, current_function_, instruction_pointer_,
                    status>>
    BY <1>5 DEF vars, context
  <2>2. Stack' = Stack
    BY <2>1 DEF Stack, Top
  <2> QED
    BY <2>1, <2>2, SameOperandsStep DEF StaysDefined, IInv, DefinedBehaviour
<1> QED
  BY <1>1, <1>2, <1>3, <1>4, <1>5 DEF Next, Machine, Ended

-----------------------------------------------------------------------------
(* The invariant holds.                                                    *)

LEMMA InitInvariant == Init => IInv
<1> SUFFICES ASSUME Init PROVE IInv
  OBVIOUS
<1> DEFINE main == functions["main"]
           slots == Len(main.local_reference_indices) + main.free_vars
           locals == [i \in DOMAIN main.names |-> none_]
           refs == [i \in 1..slots |-> Static(Garbage)]
<1>1. functions \in Started /\ "main" \in DOMAIN functions /\ TypedFunction(functions, main)
  BY StartedTyped DEF Init, TypedTable
<1>2. /\ heap = [a \in Address |-> IF a = 1 THEN Frame(locals, refs) ELSE Free]
      /\ stack_frames_ = <<1>>
      /\ current_function_ = "main"
      /\ instruction_pointer_ = 0
      /\ callers = << >>
      /\ status \in {"running", "undefined"}
      /\ status = "undefined" => ~ConsistentTable(functions)
  <2>1. ConsistentTable(functions) => Len(main.functions) >= 3
    BY DEF ConsistentTable
  <2>2. Len(main.functions) \in Nat
    BY <1>1 DEF TypedFunction
  <2> QED
    BY <2>1, <2>2 DEF Init, Boot
<1>3. 1 \in Address
  BY AddressAssumption DEF Address
<1>4. locals \in Seq(Value(functions, heap))
  <2>1. DOMAIN main.names = 1..Len(main.names) /\ Len(main.names) \in Nat
    BY <1>1 DEF TypedFunction
  <2> QED
    BY <2>1, NoneIsValue
<1>5. refs \in Seq(Slot(functions, heap))
  <2>1. slots \in Nat /\ (ConsistentTable(functions) => slots = 0)
    BY <1>1 DEF TypedFunction, ConsistentTable
  <2> HIDE DEF slots
  <2>2. slots # 0 => Static(Garbage) \in Slot(functions, heap)
    BY <2>1 DEF Slot, Static, Uninitialised
  <2> QED
    BY <2>1, <2>2
<1>6. << >> \in Seq(Value(functions, heap))
  OBVIOUS
<1> HIDE DEF locals, refs
<1>7. Frame(locals, refs) \in FrameObject(functions, heap) /\ Frame(locals, refs).kind = "Frame"
  BY <1>4, <1>5, <1>6 DEF FrameObject, Frame
<1> HIDE DEF Frame
<1>8. SoundHeap
  <2>1. SoundObject(functions, heap, Frame(locals, refs))
    BY <1>7 DEF SoundObject, Fits
  <2>2. SoundObject(functions, heap, Free)
    BY DEF SoundObject, Free, Fits
  <2> QED
    BY <1>2, <2>1, <2>2 DEF SoundHeap
<1>9. SoundFrames
  BY <1>2, <1>3, <1>7 DEF SoundFrames
<1>10. TypeOK
  <2>1. \A a \in Address : heap[a].kind \in {"Frame", "Free"}
    BY <1>2, <1>7 DEF Free
  <2>2. stack_frames_ \in Seq(Address) /\ Len(stack_frames_) = Len(callers) + 1
    BY <1>2, <1>3
  <2>3. callers \in Seq([function : DOMAIN functions, pointer : Int])
    BY <1>2
  <2> QED
    BY <1>1, <1>2, <2>1, <2>2, <2>3 DEF TypeOK, Outcome
<1>11. Activations
  <2>1. FunctionAt(1) = "main" /\ DOMAIN callers = {}
    BY <1>2 DEF FunctionAt
  <2>2. Len(heap[1].locals) = Variables(1)
    <3>1. heap[1].locals = locals /\ 1 \in Nat
      BY <1>2, <1>3 DEF Frame
    <3>2. Len(locals) = Len(main.names)
      BY <1>1 DEF TypedFunction, locals
    <3> QED
      BY <3>1, <3>2 DEF Variables
  <2>3. \A i \in DOMAIN stack_frames_ : i = 1 /\ stack_frames_[i] = 1
    BY <1>2
  <2> QED
    BY <2>1, <2>2, <2>3 DEF Activations
<1>12. Capturing
  <2>1. This = main /\ instruction_pointer_ + 1 = 1
    BY <1>2 DEF This, FunctionNamed, Natives
  <2>2. ASSUME ConsistentTable(functions), NEW q \in 1..Len(main.instructions),
               NEW i \in main.instructions[q], i[1] = "AllocClosure", 1 \in (q - i[2])..q
        PROVE  FALSE
    <3>1. i[2] \in Nat /\ q \in Nat
      BY <1>1, <2>2 DEF TypedFunction, TypedInstruction
    <3>2. q - i[2] - 1 >= 1
      BY <1>1, <2>2 DEF ConsistentTable, ConsistentFunction, Captures
    <3> QED
      BY <2>2, <3>1, <3>2
  <2> QED
    BY <2>1, <2>2 DEF Capturing
<1>13. DefinedBehaviour
  BY <1>2 DEF DefinedBehaviour
<1> QED
  BY <1>8, <1>9, <1>10, <1>11, <1>12, <1>13 DEF IInv

LEMMA StepInvariant == IInv /\ [Next]_vars => IInv' /\ CallersKept
<1> SUFFICES ASSUME IInv, [Next]_vars PROVE IInv' /\ CallersKept
  OBVIOUS
<1>1. GoodStep
  <2>1. CASE executeInstruction
    BY <2>1, ExecuteInstructionStep
  <2>2. CASE LeaveFunction
    BY <2>2, LeaveFunctionStep
  <2>3. CASE LeaveMain
    BY <2>3, LeaveMainStep
  <2>4. CASE GarbageCollect
    BY <2>4, GarbageCollectStep
  <2>5. CASE UNCHANGED vars
    BY <2>5 DEF vars, context, GoodStep, CallersKept, IInv, TypeOK, SoundHeap, SoundFrames,
                Activations, FunctionAt, Variables, FunctionNamed
  <2> QED
    BY <2>1, <2>2, <2>3, <2>4, <2>5 DEF Next, Machine, Ended
<1>2. Capturing' /\ DefinedBehaviour'
  <2>1. CASE ConsistentTable(functions)
    BY <2>1, StepStaysDefined DEF StaysDefined, DefinedBehaviour
  <2>2. CASE ~ConsistentTable(functions)
    BY <1>1, <2>2 DEF GoodStep, Capturing, DefinedBehaviour
  <2> QED
    BY <2>1, <2>2
<1> QED
  BY <1>1, <1>2 DEF GoodStep, IInv

THEOREM Invariant == Spec => []IInv
  BY InitInvariant, StepInvariant, PTL DEF Spec

(* Nothing leaves the types the machine's C++ declares: the arithmetic of  *)
(* the instructions stays in an int, every call in progress has a frame    *)
(* and the function and pointer it returns to, and the program ends in one *)
(* of the ways interpreter.cpp knows.                                      *)
THEOREM TypeCorrect == Spec => []TypeOK
<1>1. IInv => TypeOK
  BY DEF IInv
<1> QED
  BY Invariant, <1>1, PTL

(* Whatever the machine may still use is where its pointer says and of the *)
(* kind the unchecked casts take it for, for every typed program: no       *)
(* collection frees what a frame, a closure, a record or a reference still *)
(* leads to, and no address that is handed out again is still in use.      *)
THEOREM PointersLeadCorrect == Spec => []PointersLead
<1>1. IInv => PointersLead
  <2> SUFFICES ASSUME IInv PROVE PointersLead
    OBVIOUS
  <2>1. ASSUME NEW a \in Live
        PROVE  LET x == heap[a]
               IN  /\ x.kind # "Free"
                   /\ x.kind = "Frame" =>
                        \A i \in DOMAIN x.refs : Deref(x.refs[i]).kind \in {"Reference", "Garbage"}
                   /\ x.kind = "Closure" =>
                        \A i \in DOMAIN x.free : Deref(x.free[i]).kind = "Reference"
                   /\ x.kind = "Reference" => heap[x.frame].kind = "Frame"
    <3> DEFINE x == heap[a]
    <3>1. x.kind # "Free" /\ SoundObject(functions, heap, x)
      BY LiveClosed DEF Existing, IInv, SoundHeap
    <3> HIDE DEF x
    <3>2. \A p \in PointerTo(heap, {"Reference"}) : Deref(p).kind = "Reference"
      BY DEF PointerTo, OfKind, Deref
    <3>3. Deref(Static(Garbage)).kind = "Garbage"
      BY DEF Deref, Static, Garbage
    <3>4. ASSUME x.kind = "Frame", NEW i \in DOMAIN x.refs
          PROVE  Deref(x.refs[i]).kind \in {"Reference", "Garbage"}
      <4>1. x.refs \in Seq(Slot(functions, heap))
        BY <3>1, <3>4, FrameFields DEF SoundObject
      <4>2. x.refs[i] \in Slot(functions, heap)
        BY <3>4, <4>1
      <4> QED
        BY <3>2, <3>3, <4>2 DEF Slot, Static, Uninitialised
    <3>5. ASSUME x.kind = "Closure", NEW i \in DOMAIN x.free
          PROVE  Deref(x.free[i]).kind = "Reference"
      <4>1. x.free \in Seq(PointerTo(heap, {"Reference"}))
        BY <3>1, <3>5 DEF SoundObject, ClosureObject
      <4>2. x.free[i] \in PointerTo(heap, {"Reference"})
        BY <3>5, <4>1
      <4> QED
        BY <3>2, <4>2
    <3>6. x.kind = "Reference" => heap[x.frame].kind = "Frame"
      BY <3>1 DEF SoundObject, ReferenceObject, OfKind
    <3> QED
      BY <3>1, <3>4, <3>5, <3>6 DEF x
  <2> QED
    BY <2>1 DEF PointersLead, IInv, SoundFrames
<1> QED
  BY Invariant, <1>1, PTL

(* A program whose tables are consistent never runs into undefined        *)
(* behaviour, however often it calls, captures, jumps, throws and collects:*)
(* when alloc_closure makes a closure it finds a reference for every free  *)
(* variable of its function, so that no slot of a frame stays              *)
(* uninitialised, and no variable is written past the end of its frame.    *)
THEOREM DefinedBehaviourCorrect == Spec => []DefinedBehaviour
<1>1. IInv => DefinedBehaviour
  BY DEF IInv
<1> QED
  BY Invariant, <1>1, PTL

(* No step of an inner function touches the operand stack of a function it *)
(* is nested in, whatever it calls, throws or collects.                    *)
THEOREM CallersUntouchedCorrect == Spec => CallersUntouched
<1>1. IInv /\ [Next]_vars =>
        [\A i \in 1..(Len(stack_frames_) - 1) :
           i < Len(stack_frames_') =>
             heap'[stack_frames_[i]].stack = heap[stack_frames_[i]].stack]_vars
  BY StepInvariant DEF CallersKept
<1> QED
  BY Invariant, <1>1, PTL DEF Spec, CallersUntouched
=============================================================================
