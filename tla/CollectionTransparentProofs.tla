---------------------- MODULE CollectionTransparentProofs ----------------------
(***************************************************************************)
(* The two machines of CollectionTransparent cannot be told apart, for     *)
(* every program whose tables are typed, whatever it does and whenever     *)
(* garbage is collected. There is a relation m between the addresses of    *)
(* the one and of the other heap under which frames, operands and objects  *)
(* are copies of each other. An instruction extends it by the objects it   *)
(* makes, a collection restricts it to what is live.                       *)
(***************************************************************************)
EXTENDS CollectionTransparent, InterpreterTheorems

(* What is proved of one machine, for the second one.                      *)
Second == INSTANCE InterpreterProofs WITH
  heap <- kept_heap,
  stack_frames_ <- kept_stack_frames,
  current_function_ <- kept_current_function,
  instruction_pointer_ <- kept_instruction_pointer,
  callers <- kept_callers,
  status <- kept_status,
  output <- kept_output

-----------------------------------------------------------------------------
(* The relation between the machines. m maps the addresses of the objects  *)
(* that both have to where the second one has them. Its domain is closed:  *)
(* it holds what the objects in it point to. The heaps and the frames are  *)
(* parameters, for before and after a step.                                *)

Known(m, p) == p[1] = "heap" => p[2] \in DOMAIN m
AllKnown(m, s) == \A i \in DOMAIN s : Known(m, s[i])

MovedPointer(m, p) == IF p[1] = "heap" THEN Heap(m[p[2]]) ELSE p
Moved(m, s) == [i \in DOMAIN s |-> MovedPointer(m, s[i])]

MovedFrame(m, x) ==
  [kind |-> "Frame", stack |-> Moved(m, x.stack), locals |-> Moved(m, x.locals),
   refs |-> Moved(m, x.refs)]

(* y is the object x with its pointers moved.                              *)
Copy(m, x, y) ==
  /\ x.kind # "Free" /\ y.kind = x.kind
  /\ x.kind = "Frame" =>
       /\ AllKnown(m, x.stack) /\ AllKnown(m, x.locals) /\ AllKnown(m, x.refs)
       /\ y = MovedFrame(m, x)
  /\ x.kind = "Record" => AllKnown(m, x.map) /\ y = Record(Moved(m, x.map))
  /\ x.kind = "Closure" => AllKnown(m, x.free) /\ y = Closure(x.function, Moved(m, x.free))
  /\ x.kind = "Reference" => x.frame \in DOMAIN m /\ y = Reference(x.index, m[x.frame])
  /\ x.kind \notin {"Frame", "Record", "Closure", "Reference"} => y = x

Twins(m, h, g, frames, moved) ==
  /\ DOMAIN m \subseteq Address /\ \A a \in DOMAIN m : m[a] \in Address
  /\ \A a, b \in DOMAIN m : m[a] = m[b] => a = b
  /\ DOMAIN g = Address
  /\ \A a \in DOMAIN m : Copy(m, h[a], g[m[a]])
  /\ frames \in Seq(DOMAIN m)
  /\ moved = [i \in 1..Len(frames) |-> m[frames[i]]]

SameControl ==
  /\ current_function_ = kept_current_function
  /\ instruction_pointer_ = kept_instruction_pointer
  /\ callers = kept_callers
  /\ status = kept_status
  /\ output = kept_output

Paired(m) ==
  /\ IInv /\ SameControl
  /\ Twins(m, heap, kept_heap, stack_frames_, kept_stack_frames)

SameNext ==
  /\ SameControl'
  /\ \E n : Twins(n, heap', kept_heap', stack_frames_', kept_stack_frames')

(* Following an uninitialised pointer is undefined only when the collector *)
(* does it, which it does in the first machine alone.                      *)
TwinInv ==
  /\ IInv
  /\ status # "undefined" =>
       /\ SameControl
       /\ \E m : Twins(m, heap, kept_heap, stack_frames_, kept_stack_frames)

-----------------------------------------------------------------------------
(* What does not depend on the heap is the same in both.                   *)

LEMMA SameConstructors ==
  /\ Kept!Free = Free /\ Kept!Garbage = Garbage /\ Kept!none_ = none_
  /\ Kept!Address = Address /\ Kept!INT_MIN = INT_MIN
  /\ \A x : /\ Kept!Integer(x) = Integer(x) /\ Kept!String(x) = String(x)
            /\ Kept!Boolean(x) = Boolean(x) /\ Kept!Function(x) = Function(x)
            /\ Kept!Record(x) = Record(x) /\ Kept!Heap(x) = Heap(x)
            /\ Kept!Static(x) = Static(x) /\ Kept!Truth(x) = Truth(x)
  /\ \A x, y : /\ Kept!Reference(x, y) = Reference(x, y) /\ Kept!Closure(x, y) = Closure(x, y)
               /\ Kept!Frame(x, y) = Frame(x, y)
BY DEF Free, Kept!Free, Garbage, Kept!Garbage, none_, Kept!none_, Address, Kept!Address,
       INT_MIN, Kept!INT_MIN, Integer, Kept!Integer, String, Kept!String, Boolean,
       Kept!Boolean, Function, Kept!Function, Record, Kept!Record, Heap, Kept!Heap, Static,
       Kept!Static, Truth, Kept!Truth, Reference, Kept!Reference, Closure, Kept!Closure,
       Frame, Kept!Frame

LEMMA SameHelpers ==
  /\ \A s : Kept!Min(s) = Min(s) /\ Kept!Max(s) = Max(s)
  /\ \A s : Kept!Last(s) = Last(s) /\ Kept!Front(s) = Front(s) /\ Kept!Range(s) = Range(s)
  /\ \A s, n : Kept!Valid(s, n) = Valid(s, n)
  /\ \A n : Kept!Wrap(n) = Wrap(n)
  /\ \A a, b : Kept!Quotient(a, b) = Quotient(a, b)
  /\ \A t : Kept!Text(t) = Text(t) /\ Kept!Fails(t) = Fails(t) /\ Kept!Joined(t) = Joined(t)
<1>1. \A s : Kept!Min(s) = Min(s) /\ Kept!Max(s) = Max(s)
  BY DEF Min, Kept!Min, Max, Kept!Max
<1>2. \A s : Kept!Last(s) = Last(s) /\ Kept!Front(s) = Front(s) /\ Kept!Range(s) = Range(s)
  BY DEF Last, Kept!Last, Front, Kept!Front, Range, Kept!Range
<1>3. \A n : Kept!Wrap(n) = Wrap(n)
  BY DEF Wrap, Kept!Wrap, INT_MIN, Kept!INT_MIN
<1>4. \A a, b : Kept!Quotient(a, b) = Quotient(a, b)
  BY DEF Quotient, Kept!Quotient
<1>5. \A s, n : Kept!Valid(s, n) = Valid(s, n)
  BY DEF Valid, Kept!Valid
<1>6. \A t : Kept!Joined(t) = Joined(t)
  BY DEF Joined, Kept!Joined, FoldLeft, Kept!FoldLeft, MapThenFoldSet, Kept!MapThenFoldSet,
         Max, Kept!Max
<1>7. \A t : Kept!Text(t) = Text(t) /\ Kept!Fails(t) = Fails(t)
  BY DEF Text, Kept!Text, Fails, Kept!Fails
<1> QED
  BY <1>1, <1>2, <1>3, <1>4, <1>5, <1>6, <1>7

LEMMA SameFunctions ==
  /\ Kept!Natives = Natives
  /\ \A f : Kept!FunctionNamed(f) = FunctionNamed(f)
  /\ \A name : Kept!GlobalIndex(name) = GlobalIndex(name)
<1>1. Kept!Natives = Natives
  BY DEF Natives, Kept!Natives, NativeFunction, Kept!NativeFunction
<1>2. \A f : Kept!FunctionNamed(f) = FunctionNamed(f)
  BY <1>1 DEF FunctionNamed, Kept!FunctionNamed
<1>3. \A name : Kept!GlobalIndex(name) = GlobalIndex(name)
  BY SameHelpers DEF GlobalIndex, Kept!GlobalIndex
<1> QED
  BY <1>1, <1>2, <1>3

LEMMA SameAsking ==
  /\ Kept!Kind = Kind /\ Kept!ValueKind = ValueKind
  /\ Kept!Integers = Integers /\ Kept!Booleans = Booleans
  /\ \A i : Kept!Pop(i) = Pop(i) /\ Kept!Typed(i) = Typed(i)
  /\ \A i, kind : Kept!Is(i, kind) = Is(i, kind)
BY DEF Kind, Kept!Kind, ValueKind, Kept!ValueKind, Integers, Kept!Integers, Booleans,
       Kept!Booleans, Pop, Kept!Pop, Typed, Kept!Typed, Is, Kept!Is

-----------------------------------------------------------------------------
(* Sequences of moved pointers.                                            *)

LEMMA MovedSeq ==
  ASSUME NEW m, NEW S, NEW s \in Seq(S)
  PROVE  /\ Moved(m, s) \in Seq({MovedPointer(m, p) : p \in S})
         /\ Len(Moved(m, s)) = Len(s) /\ DOMAIN Moved(m, s) = 1..Len(s)
         /\ \A i \in 1..Len(s) : Moved(m, s)[i] = MovedPointer(m, s[i])
<1>1. Moved(m, s) = [i \in 1..Len(s) |-> MovedPointer(m, s[i])] /\ Len(s) \in Nat
  BY DEF Moved
<1>2. \A i \in 1..Len(s) : MovedPointer(m, s[i]) \in {MovedPointer(m, p) : p \in S}
  OBVIOUS
<1> QED
  BY <1>1, <1>2

LEMMA MovedPrefix ==
  ASSUME NEW m, NEW S, NEW s \in Seq(S), NEW n \in 0..Len(s)
  PROVE  /\ SubSeq(Moved(m, s), 1, n) = Moved(m, SubSeq(s, 1, n))
         /\ AllKnown(m, s) => AllKnown(m, SubSeq(s, 1, n))
<1>1. SubSeq(s, 1, n) = [i \in 1..n |-> s[i]]
  OBVIOUS
<1>2. SubSeq(Moved(m, s), 1, n) = [i \in 1..n |-> Moved(m, s)[i]]
  <2> DEFINE t == Moved(m, s)
             T == {MovedPointer(m, p) : p \in S}
  <2>1. t \in Seq(T) /\ n \in 0..Len(t)
    BY MovedSeq
  <2> HIDE DEF t, T
  <2> QED
    BY <2>1 DEF t
<1>3. \A i \in 1..n : Moved(m, s)[i] = MovedPointer(m, s[i]) /\ i \in 1..Len(s)
  <2>1. \A i \in 1..Len(s) : Moved(m, s)[i] = MovedPointer(m, s[i])
    BY DEF Moved
  <2>2. 1..n \subseteq 1..Len(s)
    OBVIOUS
  <2> QED
    BY <2>1, <2>2
<1> QED
  BY <1>1, <1>2, <1>3 DEF Moved, AllKnown

LEMMA MovedConcat ==
  ASSUME NEW m, NEW S, NEW s \in Seq(S), NEW T, NEW t \in Seq(T)
  PROVE  /\ Moved(m, s) \o Moved(m, t) = Moved(m, s \o t)
         /\ AllKnown(m, s) /\ AllKnown(m, t) => AllKnown(m, s \o t)
<1> DEFINE U == S \cup T
           V == {MovedPointer(m, p) : p \in U}
           u == Moved(m, s)
           v == Moved(m, t)
<1>1. s \in Seq(U) /\ t \in Seq(U)
  OBVIOUS
<1>2. /\ s \o t \in Seq(U) /\ Len(s \o t) = Len(s) + Len(t)
      /\ \A i \in 1..Len(s) : (s \o t)[i] = s[i]
      /\ \A i \in (Len(s) + 1)..(Len(s) + Len(t)) : (s \o t)[i] = t[i - Len(s)]
      /\ Len(s) \in Nat /\ Len(t) \in Nat
  BY <1>1
<1>3. /\ u \in Seq(V) /\ Len(u) = Len(s) /\ \A i \in 1..Len(s) : u[i] = MovedPointer(m, s[i])
      /\ v \in Seq(V) /\ Len(v) = Len(t) /\ \A i \in 1..Len(t) : v[i] = MovedPointer(m, t[i])
  <2> HIDE DEF U
  <2> QED
    BY <1>1, MovedSeq
<1> HIDE DEF u, v, V
<1>4. /\ u \o v = [i \in 1..(Len(s) + Len(t)) |-> (u \o v)[i]]
      /\ \A i \in 1..(Len(s) + Len(t)) :
           (u \o v)[i] = IF i <= Len(s) THEN u[i] ELSE v[i - Len(s)]
  <2>1. /\ u \o v \in Seq(V) /\ Len(u \o v) = Len(u) + Len(v)
        /\ \A i \in 1..(Len(u) + Len(v)) :
             (u \o v)[i] = IF i <= Len(u) THEN u[i] ELSE v[i - Len(u)]
    <3>1. u \in Seq(V) /\ v \in Seq(V)
      BY <1>3
    <3> QED
      BY <3>1, ConcatProperties
  <2> DEFINE w == u \o v
  <2>2. w = [i \in 1..Len(w) |-> w[i]]
    <3>1. w \in Seq(V)
      BY <2>1
    <3> HIDE DEF w
    <3> QED
      BY <3>1
  <2> QED
    BY <1>3, <2>1, <2>2
<1>5. \A i \in 1..(Len(s) + Len(t)) : (u \o v)[i] = MovedPointer(m, (s \o t)[i])
  <2> SUFFICES ASSUME NEW i \in 1..(Len(s) + Len(t))
               PROVE  (u \o v)[i] = MovedPointer(m, (s \o t)[i])
    OBVIOUS
  <2>1. CASE i \in 1..Len(s)
    BY <2>1, <1>2, <1>3, <1>4
  <2>2. CASE i \in (Len(s) + 1)..(Len(s) + Len(t))
    <3>1. i - Len(s) \in 1..Len(t)
      BY <1>2, <2>2
    <3>2. (u \o v)[i] = v[i - Len(s)] /\ (s \o t)[i] = t[i - Len(s)]
      BY <2>2, <3>1, <1>2, <1>4
    <3> QED
      BY <3>1, <3>2, <1>3
  <2>3. i \in 1..Len(s) \/ i \in (Len(s) + 1)..(Len(s) + Len(t))
    BY <1>2
  <2> QED
    BY <2>1, <2>2, <2>3
<1>6. DOMAIN (s \o t) = 1..(Len(s) + Len(t))
  BY <1>2
<1>7. u \o v = Moved(m, s \o t)
  BY <1>4, <1>5, <1>6 DEF Moved
<1>8. ASSUME AllKnown(m, s), AllKnown(m, t), NEW i \in 1..(Len(s) + Len(t))
      PROVE  Known(m, (s \o t)[i])
  <2>1. CASE i \in 1..Len(s)
    BY <2>1, <1>2, <1>8 DEF AllKnown
  <2>2. CASE i \in (Len(s) + 1)..(Len(s) + Len(t))
    <3>1. i - Len(s) \in 1..Len(t)
      BY <1>2, <2>2
    <3> QED
      BY <2>2, <3>1, <1>2, <1>8 DEF AllKnown
  <2> QED
    BY <1>2, <2>1, <2>2
<1> QED
  BY <1>6, <1>7, <1>8 DEF u, v, AllKnown

LEMMA MovedAppend ==
  ASSUME NEW m, NEW S, NEW s \in Seq(S), NEW p, AllKnown(m, s), Known(m, p)
  PROVE  /\ AllKnown(m, Append(s, p))
         /\ Append(Moved(m, s), MovedPointer(m, p)) = Moved(m, Append(s, p))
<1> DEFINE T == {p}
           t == <<p>>
           q == MovedPointer(m, p)
           W == {MovedPointer(m, v) : v \in S}
           u == Moved(m, s)
<1>1. t \in Seq(T) /\ AllKnown(m, t) /\ Moved(m, t) = <<q>>
  BY DEF AllKnown, Moved
<1>2. u \in Seq(W)
  BY MovedSeq
<1>3. Append(s, p) = s \o t
  OBVIOUS
<1> HIDE DEF W
<1>4. Append(u, q) = u \o <<q>>
  <2> HIDE DEF u, q
  <2> QED
    BY <1>2
<1> HIDE DEF t, T, q
<1>5. t \in Seq(T)
  BY <1>1
<1>6. u \o Moved(m, t) = Moved(m, s \o t) /\ (AllKnown(m, s) /\ AllKnown(m, t) => AllKnown(m, s \o t))
  BY <1>5, MovedConcat
<1> HIDE DEF u
<1> QED
  BY <1>1, <1>3, <1>4, <1>6 DEF u, q

-----------------------------------------------------------------------------
(* The function that runs, its frame and its operands.                     *)

LEMMA SameFrames ==
  ASSUME NEW m, Paired(m)
  PROVE  /\ Kept!This = This
         /\ Top \in DOMAIN m /\ Kept!Top = m[Top]
         /\ GlobalFrame \in DOMAIN m /\ Kept!GlobalFrame = m[GlobalFrame]
         /\ \A i \in 1..Len(stack_frames_) :
              stack_frames_[i] \in DOMAIN m /\ kept_stack_frames[i] = m[stack_frames_[i]]
         /\ Len(kept_stack_frames) = Len(stack_frames_)
<1>1. Kept!This = This
  BY SameFunctions DEF This, Kept!This, Paired, SameControl
<1>2. /\ Len(stack_frames_) \in Nat \ {0}
      /\ Top = stack_frames_[Len(stack_frames_)] /\ GlobalFrame = stack_frames_[1]
  BY RunningFrames DEF Paired
<1>3. /\ stack_frames_ \in Seq(DOMAIN m)
      /\ kept_stack_frames = [i \in 1..Len(stack_frames_) |-> m[stack_frames_[i]]]
  BY DEF Paired, Twins
<1>4. /\ Len(kept_stack_frames) = Len(stack_frames_)
      /\ \A i \in 1..Len(stack_frames_) :
           stack_frames_[i] \in DOMAIN m /\ kept_stack_frames[i] = m[stack_frames_[i]]
  BY <1>2, <1>3
<1>5. Kept!Top = kept_stack_frames[Len(kept_stack_frames)] /\ Kept!GlobalFrame = kept_stack_frames[1]
  BY <1>3 DEF Kept!Top, Kept!Last, Kept!GlobalFrame
<1> QED
  BY <1>1, <1>2, <1>4, <1>5

LEMMA CopiedValue ==
  ASSUME NEW m, Paired(m), NEW p \in Value(functions, heap), Known(m, p)
  PROVE  Copy(m, Deref(p), Kept!Deref(MovedPointer(m, p)))
<1>1. CASE p \in {"static"} \X StaticObject(functions)
  BY <1>1 DEF StaticObject, Uninitialised, Constant, Garbage, Deref, Kept!Deref,
              MovedPointer, Copy
<1>2. CASE p \in PointerTo(heap, OperandKind)
  BY <1>2 DEF PointerTo, Known, Deref, Kept!Deref, MovedPointer, Heap, Paired, Twins
<1> QED
  BY <1>1, <1>2 DEF Value

LEMMA SameOperands ==
  ASSUME NEW m, Paired(m)
  PROVE  /\ AllKnown(m, Stack) /\ Kept!Stack = Moved(m, Stack)
         /\ Len(Kept!Stack) = Len(Stack)
         /\ \A i \in 1..Len(Stack) :
              /\ Known(m, Peek(i)) /\ Kept!Peek(i) = MovedPointer(m, Peek(i))
              /\ Copy(m, Operand(i), Kept!Operand(i))
         /\ \A n \in 0..Len(Stack) :
              AllKnown(m, Below(n)) /\ Kept!Below(n) = Moved(m, Below(n))
<1> USE DEF Paired
<1>1. Stack \in Seq(Value(functions, heap)) /\ Len(Stack) \in Nat
  BY Operands
<1>2. AllKnown(m, Stack) /\ Kept!Stack = Moved(m, Stack)
  <2>1. heap[Top].kind = "Frame"
    BY RunningFrames, FrameFields
  <2>2. Copy(m, heap[Top], kept_heap[Kept!Top])
    BY SameFrames DEF Twins
  <2> QED
    BY <2>1, <2>2 DEF Copy, MovedFrame, Stack, Kept!Stack
<1>3. /\ Len(Kept!Stack) = Len(Stack)
      /\ \A i \in 1..Len(Stack) : Kept!Stack[i] = MovedPointer(m, Stack[i])
  BY <1>1, <1>2, MovedSeq
<1>4. ASSUME NEW i \in 1..Len(Stack)
      PROVE  /\ Known(m, Peek(i)) /\ Kept!Peek(i) = MovedPointer(m, Peek(i))
             /\ Copy(m, Operand(i), Kept!Operand(i))
  <2>1. Len(Stack) + 1 - i \in 1..Len(Stack)
    BY <1>1
  <2>2. Known(m, Peek(i)) /\ Kept!Peek(i) = MovedPointer(m, Peek(i))
    BY <1>1, <1>2, <1>3, <2>1 DEF Peek, Kept!Peek, AllKnown
  <2>3. Peek(i) \in Value(functions, heap)
    BY Operands
  <2> QED
    BY <2>2, <2>3, CopiedValue DEF Operand, Kept!Operand
<1>5. ASSUME NEW n \in 0..Len(Stack)
      PROVE  AllKnown(m, Below(n)) /\ Kept!Below(n) = Moved(m, Below(n))
  <2>1. Len(Stack) - n \in 0..Len(Stack)
    BY <1>1
  <2> QED
    BY <1>1, <1>2, <1>3, <2>1, MovedPrefix DEF Below, Kept!Below
<1> QED
  BY <1>2, <1>3, <1>4, <1>5

(* Both find the same fault.                                               *)
LEMMA SameFault ==
  ASSUME NEW m, Paired(m), NEW asked, DOMAIN asked \subseteq Nat,
         \A j \in DOMAIN asked : asked[j][1] \in Nat \ {0}
  PROVE  Kept!Fault(asked) = Fault(asked)
<1>1. Len(Stack) \in Nat
  BY Operands DEF Paired
<1>2. ASSUME NEW j \in DOMAIN asked PROVE Kept!Meets(asked[j]) <=> Meets(asked[j])
  <2>1. asked[j][1] <= Len(Stack) => asked[j][1] \in 1..Len(Stack)
    BY <1>1
  <2>2. asked[j][1] <= Len(Stack) =>
          Kept!Deref(Kept!Peek(asked[j][1])).kind = Deref(Peek(asked[j][1])).kind
    BY <2>1, SameOperands DEF Copy, Operand, Kept!Operand
  <2> QED
    BY <2>2, SameOperands DEF Meets, Kept!Meets
<1> DEFINE unmet == {j \in DOMAIN asked : ~Meets(asked[j])}
           i == asked[Min(unmet)][1]
<1>3. {j \in DOMAIN asked : ~Kept!Meets(asked[j])} = unmet
  BY <1>2
<1>4. Kept!Fault(asked) = IF unmet = {} THEN "none"
        ELSE IF i > Len(Kept!Stack) THEN "InsufficientStackException"
        ELSE IF Kept!Deref(Kept!Peek(i)).kind = "Garbage" THEN "undefined"
        ELSE "IllegalCastException"
  <2> HIDE DEF unmet
  <2>1. \A S : Kept!Min(S) = Min(S)
    BY SameHelpers
  <2>2. (\A j \in DOMAIN asked : Kept!Meets(asked[j])) <=> unmet = {}
    BY <1>2 DEF unmet
  <2> QED
    BY <1>3, <2>1, <2>2 DEF Kept!Fault
<1>5. Fault(asked) = IF unmet = {} THEN "none"
        ELSE IF i > Len(Stack) THEN "InsufficientStackException"
        ELSE IF Deref(Peek(i)).kind = "Garbage" THEN "undefined"
        ELSE "IllegalCastException"
  BY DEF Fault
<1>6. ASSUME unmet # {}, ~(i > Len(Stack))
      PROVE  Kept!Deref(Kept!Peek(i)).kind = Deref(Peek(i)).kind
  <2>1. unmet # {} => i > Len(Stack) \/ i \in 1..Len(Stack)
    <3>1. unmet # {} => Min(unmet) \in unmet
      <4>1. unmet \in SUBSET Nat
        OBVIOUS
      <4> HIDE DEF unmet
      <4> QED
        BY <4>1, FirstIn
    <3>2. unmet # {} => i \in Nat \ {0}
      BY <3>1
    <3> QED
      BY <1>1, <3>2
  <2> QED
    BY <1>6, <2>1, SameOperands DEF Copy, Operand, Kept!Operand
<1> QED
  BY <1>4, <1>5, <1>6, SameOperands

-----------------------------------------------------------------------------
(* The ways an instruction ends lead from twins to twins. The relation may *)
(* grow by objects the instruction makes.                                  *)

Extends(n, m) == DOMAIN m \subseteq DOMAIN n /\ \A a \in DOMAIN m : n[a] = m[a]

LEMMA MovedExtends ==
  ASSUME NEW m, NEW n, Extends(n, m)
  PROVE  /\ \A p : Known(m, p) => Known(n, p) /\ MovedPointer(n, p) = MovedPointer(m, p)
         /\ \A s : AllKnown(m, s) => AllKnown(n, s) /\ Moved(n, s) = Moved(m, s)
<1>1. \A p : Known(m, p) => Known(n, p) /\ MovedPointer(n, p) = MovedPointer(m, p)
  BY DEF Extends, Known, MovedPointer
<1> QED
  BY <1>1 DEF AllKnown, Moved

LEMMA CopyExtends ==
  ASSUME NEW m, NEW n, Extends(n, m), NEW x, NEW y, Copy(m, x, y)
  PROVE  Copy(n, x, y)
<1>1. CASE x.kind = "Reference"
  BY <1>1 DEF Copy, Extends
<1>2. CASE x.kind # "Reference"
  BY <1>2, MovedExtends DEF Copy, MovedFrame
<1> QED
  BY <1>1, <1>2

LEMMA ExtendsItself == ASSUME NEW m PROVE Extends(m, m)
  BY DEF Extends

LEMMA SameThrow ==
  ASSUME NEW m, Paired(m), NEW e, Throw(e), Kept!Throw(e)
  PROVE  SameNext
BY DEF Throw, Kept!Throw, context, Kept!context, Paired, SameControl, SameNext

LEMMA SameContinue ==
  ASSUME NEW m, Paired(m), NEW h, NEW g, NEW n,
         Twins(n, h, g, stack_frames_, kept_stack_frames), Continue(h), Kept!Continue(g)
  PROVE  SameNext
BY DEF Continue, Kept!Continue, context, Kept!context, Paired, SameControl, SameNext

LEMMA SameJump ==
  ASSUME NEW m, Paired(m), NEW h, NEW g, NEW target, Jump(h, target), Kept!Jump(g, target),
         Twins(m, h, g, stack_frames_, kept_stack_frames)
  PROVE  SameNext
BY DEF Jump, Kept!Jump, context, Kept!context, Paired, SameControl, SameNext

(* The innermost frame gets another operand stack.                         *)
LEMMA RestackedFrame ==
  ASSUME NEW m, Paired(m), NEW n, Extends(n, m), NEW s, AllKnown(n, s)
  PROVE  /\ [kept_heap[Kept!Top] EXCEPT !.stack = Moved(n, s)]
              = MovedFrame(n, WithStack(heap[Top], s))
         /\ Copy(n, WithStack(heap[Top], s), MovedFrame(n, WithStack(heap[Top], s)))
<1>1. /\ heap[Top].kind = "Frame" /\ Kept!Top = m[Top]
      /\ Copy(m, heap[Top], kept_heap[Kept!Top])
  <2>1. heap[Top].kind = "Frame"
    BY RunningFrames, FrameFields DEF Paired
  <2> QED
    BY <2>1, SameFrames DEF Paired, Twins
<1>2. Copy(n, heap[Top], kept_heap[Kept!Top])
  BY <1>1, CopyExtends
<1>3. [kept_heap[Kept!Top] EXCEPT !.stack = Moved(n, s)]
        = MovedFrame(n, WithStack(heap[Top], s))
  BY <1>1, <1>2 DEF Copy, MovedFrame, WithStack
<1>4. Copy(n, WithStack(heap[Top], s), MovedFrame(n, WithStack(heap[Top], s)))
  BY <1>1, <1>2 DEF Copy, MovedFrame, WithStack
<1> QED
  BY <1>3, <1>4

LEMMA ReplacedTwins ==
  ASSUME NEW m, Paired(m), NEW n, Extends(n, m), NEW k \in 0..Len(Stack),
         NEW S, NEW results \in Seq(S), AllKnown(n, results),
         NEW moved, moved = Moved(n, results)
  PROVE  /\ DOMAIN Kept!Replace(k, moved) = Address
         /\ \A a \in Address \ {Kept!Top} : Kept!Replace(k, moved)[a] = kept_heap[a]
         /\ \A a \in DOMAIN m : Copy(n, Replace(k, results)[a], Kept!Replace(k, moved)[m[a]])
<1> DEFINE s == Below(k) \o results
           h == Replace(k, results)
           g == Kept!Replace(k, moved)
<1>1. Kept!Below(k) \o Moved(n, results) = Moved(n, s) /\ AllKnown(n, s)
  <2>1. AllKnown(m, Below(k)) /\ Kept!Below(k) = Moved(m, Below(k))
    BY SameOperands
  <2>2. AllKnown(n, Below(k)) /\ Kept!Below(k) = Moved(n, Below(k))
    BY <2>1, MovedExtends
  <2>3. Below(k) \in Seq(Value(functions, heap))
    BY Operands DEF Paired
  <2>4. /\ Moved(n, Below(k)) \o Moved(n, results) = Moved(n, Below(k) \o results)
        /\ AllKnown(n, Below(k)) /\ AllKnown(n, results) => AllKnown(n, Below(k) \o results)
    BY <2>3, MovedConcat
  <2> QED
    BY <2>2, <2>4
<1>2. /\ \A a \in Address \ {Top} : h[a] = heap[a]
      /\ h[Top] = WithStack(heap[Top], s)
  BY ReplaceHeap DEF Paired
<1>3. g = [kept_heap EXCEPT ![Kept!Top] = [kept_heap[Kept!Top] EXCEPT !.stack = Moved(n, s)]]
  BY <1>1 DEF Kept!Replace
<1> HIDE DEF s, h, g
<1>4. /\ DOMAIN m \subseteq Address /\ \A a \in DOMAIN m : m[a] \in Address
      /\ \A a, b \in DOMAIN m : m[a] = m[b] => a = b
      /\ DOMAIN kept_heap = Address /\ Top \in DOMAIN m /\ Kept!Top = m[Top]
      /\ \A a \in DOMAIN m : Copy(m, heap[a], kept_heap[m[a]])
  BY SameFrames DEF Paired, Twins
<1>5. /\ [kept_heap[Kept!Top] EXCEPT !.stack = Moved(n, s)] = MovedFrame(n, WithStack(heap[Top], s))
      /\ Copy(n, WithStack(heap[Top], s), MovedFrame(n, WithStack(heap[Top], s)))
  BY <1>1, RestackedFrame
<1>6. /\ DOMAIN g = Address /\ g[m[Top]] = MovedFrame(n, WithStack(heap[Top], s))
      /\ \A a \in Address \ {m[Top]} : g[a] = kept_heap[a]
  BY <1>3, <1>4, <1>5
<1>7. ASSUME NEW a \in DOMAIN m PROVE Copy(n, h[a], g[m[a]])
  <2>1. CASE a = Top
    BY <1>2, <1>6, <1>5, <2>1
  <2>2. CASE a # Top
    <3>1. h[a] = heap[a] /\ g[m[a]] = kept_heap[m[a]]
      BY <1>2, <1>4, <1>6, <2>2
    <3> QED
      BY <1>4, <3>1, CopyExtends
  <2> QED
    BY <2>1, <2>2
<1> QED
  BY <1>4, <1>6, <1>7 DEF h, g

LEMMA SameYields ==
  ASSUME NEW m, Paired(m), NEW k \in 0..Len(Stack), NEW S, NEW results \in Seq(S),
         AllKnown(m, results)
  PROVE  /\ Continue(Replace(k, results))
              /\ Kept!Continue(Kept!Replace(k, Moved(m, results))) => SameNext
         /\ \A target :
              Jump(Replace(k, results), target)
                /\ Kept!Jump(Kept!Replace(k, Moved(m, results)), target) => SameNext
<1>1. Twins(m, Replace(k, results), Kept!Replace(k, Moved(m, results)), stack_frames_,
            kept_stack_frames)
  <2> DEFINE moved == Moved(m, results)
             R == Replace(k, results)
             Q == Kept!Replace(k, moved)
  <2>1. moved = Moved(m, results) /\ Extends(m, m)
    BY ExtendsItself
  <2> HIDE DEF moved
  <2>2. DOMAIN Q = Address /\ \A a \in DOMAIN m : Copy(m, R[a], Q[m[a]])
    BY <2>1, ReplacedTwins
  <2> HIDE DEF R, Q
  <2>3. Twins(m, R, Q, stack_frames_, kept_stack_frames)
    BY <2>2 DEF Paired, Twins
  <2> QED
    BY <2>1, <2>3 DEF R, Q
<1> QED
  BY <1>1, SameContinue, SameJump

LEMMA SameYield ==
  ASSUME NEW m, Paired(m), NEW k \in 0..Len(Stack), NEW p, Known(m, p),
         Yield(k, p), Kept!Yield(k, MovedPointer(m, p))
  PROVE  SameNext
<1>1. <<p>> \in Seq({p}) /\ AllKnown(m, <<p>>) /\ Moved(m, <<p>>) = <<MovedPointer(m, p)>>
  BY DEF AllKnown, Moved
<1> QED
  BY <1>1, SameYields DEF Yield, Kept!Yield

LEMMA SameYieldStatic ==
  ASSUME NEW m, Paired(m), NEW k \in 0..Len(Stack), NEW x,
         Yield(k, Static(x)), Kept!Yield(k, Static(x))
  PROVE  SameNext
BY SameYield DEF Static, Known, MovedPointer

-----------------------------------------------------------------------------
(* New objects: the addresses `new` hands out differ, the objects do not.  *)

GrownBy(m, c) ==
  [a \in DOMAIN m \cup {Fresh(j) : j \in 1..c} |->
     IF a \in DOMAIN m THEN m[a] ELSE Kept!Fresh(CHOOSE j \in 1..c : Fresh(j) = a)]

LEMMA SameCardinality ==
  \A S : Kept!Cardinality(S) = Cardinality(S) /\ Second!Cardinality(S) = Cardinality(S)
BY DEF Cardinality, Kept!Cardinality, Second!Cardinality

(* The second machine runs the same programs, for which the same holds.    *)
LEMMA SecondAssumptions ==
  /\ Second!INT_MIN = INT_MIN
  /\ \A s \in DOMAIN Atoi : Atoi[s] \in Second!INT_MIN..INT_MAX
  /\ \A table \in Programs : Second!TypedTable(table)
<1>1. Second!INT_MIN = INT_MIN
  BY DEF Second!INT_MIN, INT_MIN
<1>2. Second!Constant = Constant
  BY <1>1 DEF Second!Constant, Constant
<1>3. Second!Natives = Natives
  BY DEF Second!Natives, Natives, Second!NativeFunction, NativeFunction
<1>4. \A table : Second!FunctionNames(table) = FunctionNames(table)
  BY <1>3 DEF Second!FunctionNames, FunctionNames
<1>5. \A i : Second!TypedInstruction(i) <=> TypedInstruction(i)
  BY DEF Second!TypedInstruction, TypedInstruction
<1>6. \A table, f : Second!TypedFunction(table, f) <=> TypedFunction(table, f)
  BY <1>2, <1>4, <1>5 DEF Second!TypedFunction, TypedFunction
<1>7. \A table \in Programs : Second!TypedTable(table)
  BY <1>6, ProgramsAssumption DEF Second!TypedTable, TypedTable
<1> QED
  BY <1>1, <1>7, AtoiAssumption

LEMMA SecondFresh ==
  /\ Second!FreeAddresses = Kept!FreeAddresses
  /\ \A k : Second!Fresh(k) = Kept!Fresh(k)
<1>1. Second!FreeAddresses = Kept!FreeAddresses
  BY DEF Second!FreeAddresses, Kept!FreeAddresses, Second!Address, Kept!Address,
         Second!Free, Kept!Free
<1>2. ASSUME NEW k PROVE Second!Fresh(k) = Kept!Fresh(k)
  BY <1>1, SameCardinality DEF Second!Fresh, Kept!Fresh
<1> QED
  BY <1>1, <1>2

LEMMA KeptFresh ==
  /\ \A k \in 1..Cardinality(Kept!FreeAddresses) :
       Kept!Fresh(k) \in Address /\ kept_heap[Kept!Fresh(k)] = Free
  /\ \A j, k \in 1..Cardinality(Kept!FreeAddresses) : Kept!Fresh(j) = Kept!Fresh(k) => j = k
  /\ Kept!FreeAddresses # {} => Cardinality(Kept!FreeAddresses) >= 1
  /\ Cardinality(Kept!FreeAddresses) \in Nat
<1>1. /\ Second!Address = Address /\ Second!Free = Free
  BY DEF Second!Address, Address, Second!Free, Free
<1>2. \A k \in 1..Cardinality(Kept!FreeAddresses) :
        Kept!Fresh(k) \in Address /\ kept_heap[Kept!Fresh(k)] = Free
  BY <1>1, SecondFresh, SameCardinality, Second!FreshFree, SecondAssumptions,
     FieldAssumption, WidthAssumption, AddressAssumption
<1>3. \A j, k \in 1..Cardinality(Kept!FreeAddresses) :
        Kept!Fresh(j) = Kept!Fresh(k) => j = k
  BY SecondFresh, SameCardinality, Second!FreshDistinct, SecondAssumptions,
     FieldAssumption, WidthAssumption, AddressAssumption
<1>4. /\ Kept!FreeAddresses # {} => Cardinality(Kept!FreeAddresses) >= 1
      /\ Cardinality(Kept!FreeAddresses) \in Nat
  BY SecondFresh, SameCardinality, Second!FreeFinite, SecondAssumptions,
     FieldAssumption, WidthAssumption, AddressAssumption
<1> QED
  BY <1>2, <1>3, <1>4

Room(c) ==
  c \in 0..Cardinality(FreeAddresses) /\ c \in 0..Cardinality(Kept!FreeAddresses)

LEMMA GrownRelation ==
  ASSUME NEW m, Paired(m), NEW c, Room(c)
  PROVE  LET n == GrownBy(m, c)
         IN  /\ Extends(n, m) /\ DOMAIN n = DOMAIN m \cup {Fresh(j) : j \in 1..c}
             /\ DOMAIN n \subseteq Address /\ \A a \in DOMAIN n : n[a] \in Address
             /\ \A a, b \in DOMAIN n : n[a] = n[b] => a = b
             /\ \A j \in 1..c :
                  /\ Fresh(j) \in Address \ DOMAIN m /\ n[Fresh(j)] = Kept!Fresh(j)
                  /\ Fresh(j) # Top /\ Kept!Fresh(j) # Kept!Top
                  /\ Kept!Fresh(j) \in Address
                  /\ \A a \in DOMAIN m : m[a] # Kept!Fresh(j)
<1> DEFINE n == GrownBy(m, c)
           new == {Fresh(j) : j \in 1..c}
<1>1. c \in Nat /\ \A j \in 1..c : /\ j \in 1..Cardinality(FreeAddresses)
                                   /\ j \in 1..Cardinality(Kept!FreeAddresses)
  BY FreeFinite, KeptFresh DEF Room
<1>2. \A j \in 1..c : /\ Fresh(j) \in Address /\ heap[Fresh(j)] = Free
                      /\ Kept!Fresh(j) \in Address /\ kept_heap[Kept!Fresh(j)] = Free
  BY <1>1, FreshFree, KeptFresh
<1>3. \A j, k \in 1..c : /\ Fresh(j) = Fresh(k) => j = k
                         /\ Kept!Fresh(j) = Kept!Fresh(k) => j = k
  BY <1>1, FreshDistinct, KeptFresh
<1>4. /\ DOMAIN m \subseteq Address /\ \A a \in DOMAIN m : m[a] \in Address
      /\ \A a, b \in DOMAIN m : m[a] = m[b] => a = b
      /\ \A a \in DOMAIN m : heap[a] # Free /\ kept_heap[m[a]] # Free
  BY DEF Paired, Twins, Copy, Free
<1>5. \A j \in 1..c : /\ Fresh(j) \notin DOMAIN m
                      /\ \A a \in DOMAIN m : m[a] # Kept!Fresh(j)
  BY <1>2, <1>4
<1>6. /\ DOMAIN n = DOMAIN m \cup new
      /\ \A a \in DOMAIN m : n[a] = m[a]
      /\ \A j \in 1..c : n[Fresh(j)] = Kept!Fresh(j)
  <2>1. DOMAIN n = DOMAIN m \cup new /\ \A a \in DOMAIN m : n[a] = m[a]
    BY DEF GrownBy
  <2>2. ASSUME NEW j \in 1..c PROVE n[Fresh(j)] = Kept!Fresh(j)
    <3>1. (CHOOSE k \in 1..c : Fresh(k) = Fresh(j)) = j
      BY <1>3
    <3> QED
      BY <1>5, <3>1 DEF GrownBy
  <2> QED
    BY <2>1, <2>2
<1> HIDE DEF n
<1>7. \A a \in DOMAIN n : a \in DOMAIN m \/ \E j \in 1..c : a = Fresh(j) /\ n[a] = Kept!Fresh(j)
  BY <1>6
<1>8. \A a, b \in DOMAIN n : n[a] = n[b] => a = b
  BY <1>3, <1>4, <1>5, <1>6, <1>7
<1>9. \A j \in 1..c : Fresh(j) # Top /\ Kept!Fresh(j) # Kept!Top
  BY <1>5, SameFrames
<1>10. Extends(n, m) /\ DOMAIN n \subseteq Address /\ \A a \in DOMAIN n : n[a] \in Address
  BY <1>2, <1>4, <1>6, <1>7 DEF Extends
<1> QED
  BY <1>2, <1>5, <1>6, <1>8, <1>9, <1>10 DEF n

(* The j-th new object.                                                    *)
LEMMA GrownFresh ==
  ASSUME NEW m, Paired(m), NEW c, Room(c), NEW j \in 1..c, NEW n, n = GrownBy(m, c)
  PROVE  /\ Extends(n, m) /\ Fresh(j) \in DOMAIN n /\ n[Fresh(j)] = Kept!Fresh(j)
         /\ Fresh(j) \in Address \ DOMAIN m /\ Kept!Fresh(j) \in Address
         /\ \A a \in DOMAIN m : m[a] # Kept!Fresh(j)
<1> DEFINE g == GrownBy(m, c)
<1>1. Extends(g, m) /\ DOMAIN g = DOMAIN m \cup {Fresh(i) : i \in 1..c}
  BY GrownRelation
<1>2. \A i \in 1..c : /\ Fresh(i) \in Address \ DOMAIN m /\ g[Fresh(i)] = Kept!Fresh(i)
                      /\ Kept!Fresh(i) \in Address
                      /\ \A a \in DOMAIN m : m[a] # Kept!Fresh(i)
  BY GrownRelation
<1> HIDE DEF g
<1> QED
  BY <1>1, <1>2 DEF g

(* The heaps h and g of after, where objects may have been written to and  *)
(* new ones are twins.                                                     *)
LEMMA GrownTwins ==
  ASSUME NEW m, Paired(m), NEW c, Room(c), NEW h, NEW g, DOMAIN g = Address,
         \A a \in DOMAIN m : Copy(GrownBy(m, c), h[a], g[m[a]]),
         \A j \in 1..c : Copy(GrownBy(m, c), h[Fresh(j)], g[Kept!Fresh(j)]),
         NEW frames \in Seq(DOMAIN GrownBy(m, c))
  PROVE  Twins(GrownBy(m, c), h, g, frames, [i \in 1..Len(frames) |-> GrownBy(m, c)[frames[i]]])
<1> DEFINE n == GrownBy(m, c)
<1>1. /\ Extends(n, m) /\ DOMAIN n = DOMAIN m \cup {Fresh(j) : j \in 1..c}
      /\ DOMAIN n \subseteq Address /\ \A a \in DOMAIN n : n[a] \in Address
      /\ \A a, b \in DOMAIN n : n[a] = n[b] => a = b
      /\ \A j \in 1..c : n[Fresh(j)] = Kept!Fresh(j)
  BY GrownRelation
<1> HIDE DEF n
<1>2. \A a \in DOMAIN n : Copy(n, h[a], g[n[a]])
  BY <1>1 DEF n, Extends
<1> QED
  BY <1>1, <1>2 DEF Twins, n

LEMMA SameFramesGrown ==
  ASSUME NEW m, Paired(m), NEW c, Room(c)
  PROVE  /\ stack_frames_ \in Seq(DOMAIN GrownBy(m, c))
         /\ kept_stack_frames = [i \in 1..Len(stack_frames_) |-> GrownBy(m, c)[stack_frames_[i]]]
<1> DEFINE n == GrownBy(m, c)
<1>1. Extends(n, m)
  BY GrownRelation
<1>2. /\ stack_frames_ \in Seq(DOMAIN m)
      /\ kept_stack_frames = [i \in 1..Len(stack_frames_) |-> m[stack_frames_[i]]]
  BY DEF Paired, Twins
<1> HIDE DEF n
<1>3. stack_frames_ \in Seq(DOMAIN n)
  BY <1>1, <1>2, SeqMonotone DEF Extends
<1>4. \A i \in 1..Len(stack_frames_) : m[stack_frames_[i]] = n[stack_frames_[i]]
  BY <1>1, <1>2 DEF Extends
<1> QED
  BY <1>2, <1>3, <1>4 DEF n

(* Both push a pointer to a new object, x in the one and y in the other.   *)
LEMMA SameYieldNew ==
  ASSUME NEW m, Paired(m), NEW k \in 0..Len(Stack), NEW x, NEW y, Copy(m, x, y),
         YieldNew(k, x), Kept!YieldNew(k, y)
  PROVE  SameNext
<1> DEFINE n == GrownBy(m, 1)
           p == Heap(Fresh(1))
           R == Replace(k, <<p>>)
           Q == Kept!Replace(k, <<MovedPointer(n, p)>>)
           h == [R EXCEPT ![Fresh(1)] = x]
           g == [Q EXCEPT ![Kept!Fresh(1)] = y]
<1>1. Room(1)
  BY FreeFinite, KeptFresh DEF YieldNew, Kept!YieldNew, Room
<1>2. /\ Extends(n, m) /\ Fresh(1) \in DOMAIN n /\ n[Fresh(1)] = Kept!Fresh(1)
      /\ Fresh(1) \in Address \ DOMAIN m /\ Kept!Fresh(1) \in Address
      /\ \A a \in DOMAIN m : m[a] # Kept!Fresh(1)
  <2>1. 1 \in 1..1
    OBVIOUS
  <2>2. n = GrownBy(m, 1)
    OBVIOUS
  <2> HIDE DEF n
  <2> QED
    BY <1>1, <2>1, <2>2, GrownFresh
<1>3. Heap(Kept!Fresh(1)) = MovedPointer(n, p) /\ Known(n, p)
  BY <1>2 DEF MovedPointer, Known, Heap
<1>4. Continue(h) /\ Kept!Continue(g)
  BY <1>3, SameConstructors DEF YieldNew, Kept!YieldNew
<1>5. <<p>> \in Seq({p}) /\ AllKnown(n, <<p>>) /\ Moved(n, <<p>>) = <<MovedPointer(n, p)>>
  BY <1>3 DEF AllKnown, Moved
<1> HIDE DEF n, p
<1>6. /\ DOMAIN Q = Address
      /\ \A a \in DOMAIN m : Copy(n, R[a], Q[m[a]])
  <2> DEFINE results == <<p>>
             moved == <<MovedPointer(n, p)>>
  <2>1. results \in Seq({p}) /\ AllKnown(n, results) /\ moved = Moved(n, results)
    BY <1>5
  <2> HIDE DEF results, moved
  <2>2. /\ DOMAIN Kept!Replace(k, moved) = Address
        /\ \A a \in DOMAIN m : Copy(n, Replace(k, results)[a], Kept!Replace(k, moved)[m[a]])
    BY <1>2, <2>1, ReplacedTwins
  <2> QED
    BY <2>2 DEF results, moved
<1>7. DOMAIN R = Address
  BY ReplaceHeap DEF Paired
<1> HIDE DEF R, Q
<1>8. /\ DOMAIN g = Address /\ g[Kept!Fresh(1)] = y /\ h[Fresh(1)] = x
      /\ \A a \in DOMAIN m : h[a] = R[a] /\ g[m[a]] = Q[m[a]]
  <2>1. \A a \in DOMAIN m : a \in Address /\ m[a] \in Address /\ a # Fresh(1)
    BY <1>2 DEF Paired, Twins
  <2> QED
    BY <1>2, <1>6, <1>7, <2>1
<1> HIDE DEF h, g
<1>9. Copy(n, x, y)
  BY <1>2, CopyExtends
<1>10. Twins(n, h, g, stack_frames_, kept_stack_frames)
  BY <1>1, <1>6, <1>8, <1>9, GrownTwins, SameFramesGrown DEF n
<1> QED
  BY <1>4, <1>10, SameContinue

-----------------------------------------------------------------------------
(* Variables and fields.                                                   *)

LEMMA SameIndex ==
  ASSUME NEW m, NEW S, NEW s \in Seq(S), NEW i
  PROVE  /\ Valid(Moved(m, s), i) <=> Valid(s, i)
         /\ Valid(s, i) => /\ i \in Int /\ i + 1 \in 1..Len(s)
                           /\ Moved(m, s)[i + 1] = MovedPointer(m, s[i + 1])
                           /\ AllKnown(m, s) => Known(m, s[i + 1])
<1>1. Valid(s, i) => i \in Int /\ i + 1 \in 1..Len(s)
  BY DEF Valid
<1>2. Len(Moved(m, s)) = Len(s)
  BY MovedSeq
<1>3. DOMAIN s = 1..Len(s)
  OBVIOUS
<1> QED
  BY <1>1, <1>2, <1>3 DEF Valid, Moved, AllKnown

LEMMA SameVariables ==
  ASSUME NEW m, Paired(m), NEW frame \in DOMAIN m, heap[frame].kind = "Frame"
  PROVE  LET s == heap[frame].locals
             t == heap[frame].refs
         IN  /\ frame \in Address
             /\ s \in Seq(Value(functions, heap)) /\ t \in Seq(Slot(functions, heap))
             /\ kept_heap[m[frame]] = MovedFrame(m, heap[frame])
             /\ AllKnown(m, s) /\ kept_heap[m[frame]].locals = Moved(m, s)
             /\ AllKnown(m, t) /\ kept_heap[m[frame]].refs = Moved(m, t)
<1>1. frame \in Address /\ heap[frame] \in FrameObject(functions, heap)
  BY DEF Paired, Twins, IInv, SoundHeap, SoundObject
<1>2. Copy(m, heap[frame], kept_heap[m[frame]])
  BY DEF Paired, Twins
<1> QED
  BY <1>1, <1>2, FrameFields DEF Copy, MovedFrame

LEMMA SameGetLocalVar ==
  ASSUME NEW m, Paired(m), NEW frame \in DOMAIN m, heap[frame].kind = "Frame",
         NEW i, NEW popped \in 0..Len(Stack),
         GetLocalVar(frame, i, popped), Kept!GetLocalVar(m[frame], i, popped)
  PROVE  SameNext
<1> DEFINE s == heap[frame].locals
<1>1. /\ s \in Seq(Value(functions, heap)) /\ AllKnown(m, s)
      /\ kept_heap[m[frame]].locals = Moved(m, s)
  BY SameVariables
<1> HIDE DEF s
<1>2. CASE Valid(s, i)
  <2>1. Yield(popped, s[i + 1]) /\ Kept!Yield(popped, MovedPointer(m, s[i + 1]))
    BY <1>1, <1>2, SameIndex, SameHelpers
       DEF GetLocalVar, Kept!GetLocalVar, Within, Kept!Within, s
  <2> QED
    BY <1>1, <1>2, <2>1, SameIndex, SameYield
<1>3. CASE ~Valid(s, i)
  <2>1. Throw("RuntimeException") /\ Kept!Throw("RuntimeException")
    BY <1>1, <1>3, SameIndex, SameHelpers
       DEF GetLocalVar, Kept!GetLocalVar, Within, Kept!Within, s
  <2> QED
    BY <2>1, SameThrow
<1> QED
  BY <1>2, <1>3

LEMMA MovedExcept ==
  ASSUME NEW m, NEW S, NEW s \in Seq(S), NEW i \in 1..Len(s), NEW p
  PROVE  /\ [Moved(m, s) EXCEPT ![i] = MovedPointer(m, p)] = Moved(m, [s EXCEPT ![i] = p])
         /\ AllKnown(m, s) /\ Known(m, p) => AllKnown(m, [s EXCEPT ![i] = p])
BY DEF Moved, AllKnown

LEMMA SameSetLocalVar ==
  ASSUME NEW m, Paired(m), NEW frame \in DOMAIN m, heap[frame].kind = "Frame",
         NEW i, NEW p, Known(m, p), NEW popped \in 0..Len(Stack),
         SetLocalVar(frame, i, p, popped),
         Kept!SetLocalVar(m[frame], i, MovedPointer(m, p), popped)
  PROVE  SameNext
<1> DEFINE s == heap[frame].locals
           R == Replace(popped, << >>)
           Q == Kept!Replace(popped, << >>)
<1>1. /\ s \in Seq(Value(functions, heap)) /\ AllKnown(m, s)
      /\ kept_heap[m[frame]].locals = Moved(m, s) /\ frame \in Address
  BY SameVariables
<1>2. CASE ~Valid(s, i)
  <2>1. Throw("undefined") /\ Kept!Throw("undefined")
    BY <1>1, <1>2, SameIndex, SameHelpers DEF SetLocalVar, Kept!SetLocalVar
  <2> QED
    BY <2>1, SameThrow
<1>3. CASE Valid(s, i)
  <2> DEFINE t == [s EXCEPT ![i + 1] = p]
             h == [R EXCEPT ![frame] =
                     [R[frame] EXCEPT !.locals = [R[frame].locals EXCEPT ![i + 1] = p]]]
             g == [Q EXCEPT ![m[frame]] = [Q[m[frame]] EXCEPT !.locals =
                     [Q[m[frame]].locals EXCEPT ![i + 1] = MovedPointer(m, p)]]]
  <2>1. Continue(h) /\ Kept!Continue(g)
    BY <1>1, <1>3, SameIndex, SameHelpers DEF SetLocalVar, Kept!SetLocalVar
  <2>2. /\ DOMAIN R = Address /\ R[frame].kind = "Frame"
        /\ R[frame] = [kind |-> "Frame", stack |-> R[frame].stack, locals |-> s,
                       refs |-> R[frame].refs]
    <3>1. DOMAIN R = Address /\ R[Top] = WithStack(heap[Top], Below(popped) \o << >>)
          /\ \A a \in Address \ {Top} : R[a] = heap[a]
      BY ReplaceHeap DEF Paired
    <3>2. heap[frame] \in FrameObject(functions, heap)
      BY <1>1 DEF Paired, IInv, SoundHeap, SoundObject
    <3> HIDE DEF R
    <3>3. CASE frame = Top
      BY <3>1, <3>3 DEF WithStack
    <3>4. CASE frame # Top
      BY <1>1, <3>1, <3>2, <3>4 DEF FrameObject
    <3> QED
      BY <3>1, <3>3, <3>4
  <2>3. /\ DOMAIN Q = Address
        /\ \A a \in DOMAIN m : Copy(m, R[a], Q[m[a]])
    <3>1. << >> \in Seq({}) /\ AllKnown(m, << >>) /\ Moved(m, << >>) = << >>
      BY DEF AllKnown, Moved
    <3> QED
      BY <3>1, ExtendsItself, ReplacedTwins
  <2> HIDE DEF R, Q
  <2>4. /\ m[frame] \in Address /\ Q[m[frame]] = MovedFrame(m, R[frame])
        /\ AllKnown(m, R[frame].stack) /\ AllKnown(m, R[frame].refs)
        /\ \A a \in DOMAIN m : a \in Address /\ m[a] \in Address /\ (m[a] = m[frame] => a = frame)
    BY <2>2, <2>3 DEF Paired, Twins, Copy
  <2>5. /\ i + 1 \in 1..Len(s) /\ AllKnown(m, t)
        /\ [Moved(m, s) EXCEPT ![i + 1] = MovedPointer(m, p)] = Moved(m, t)
    BY <1>1, <1>3, SameIndex, MovedExcept
  <2>6. Copy(m, [R[frame] EXCEPT !.locals = t], [Q[m[frame]] EXCEPT !.locals = Moved(m, t)])
    <3> HIDE DEF t
    <3>1. [R[frame] EXCEPT !.locals = t]
            = [kind |-> "Frame", stack |-> R[frame].stack, locals |-> t, refs |-> R[frame].refs]
      BY <2>2
    <3>2. [Q[m[frame]] EXCEPT !.locals = Moved(m, t)]
            = [kind |-> "Frame", stack |-> Moved(m, R[frame].stack), locals |-> Moved(m, t),
               refs |-> Moved(m, R[frame].refs)]
      BY <2>4 DEF MovedFrame
    <3> QED
      BY <2>4, <2>5, <3>1, <3>2 DEF Copy, MovedFrame
  <2>7. /\ h[frame] = [R[frame] EXCEPT !.locals = t]
        /\ g[m[frame]] = [Q[m[frame]] EXCEPT !.locals = Moved(m, t)]
        /\ DOMAIN g = Address
        /\ \A a \in DOMAIN m : a # frame => h[a] = R[a] /\ g[m[a]] = Q[m[a]]
    <3>1. R[frame].locals = s /\ frame \in DOMAIN R /\ m[frame] \in DOMAIN Q
      BY <1>1, <2>2, <2>3, <2>4
    <3>2. Q[m[frame]].locals = Moved(m, s)
      BY <2>4, <3>1 DEF MovedFrame
    <3>3. [R[frame].locals EXCEPT ![i + 1] = p] = t
      BY <3>1
    <3>4. [Q[m[frame]].locals EXCEPT ![i + 1] = MovedPointer(m, p)] = Moved(m, t)
      BY <2>5, <3>2
    <3> DEFINE u == [R[frame].locals EXCEPT ![i + 1] = p]
               v == [Q[m[frame]].locals EXCEPT ![i + 1] = MovedPointer(m, p)]
    <3> HIDE DEF t, u, v
    <3>5. u = t /\ v = Moved(m, t)
      BY <3>3, <3>4 DEF u, v
    <3>6. /\ h[frame] = [R[frame] EXCEPT !.locals = u]
          /\ g[m[frame]] = [Q[m[frame]] EXCEPT !.locals = v]
      BY <3>1 DEF u, v
    <3>7. DOMAIN g = Address /\ \A a \in DOMAIN m : a # frame => h[a] = R[a] /\ g[m[a]] = Q[m[a]]
      BY <2>2, <2>3, <2>4
    <3> QED
      BY <3>5, <3>6, <3>7
  <2> HIDE DEF h, g, t
  <2>8. Twins(m, h, g, stack_frames_, kept_stack_frames)
    BY <2>3, <2>6, <2>7 DEF Paired, Twins
  <2> QED
    BY <2>1, <2>8, SameContinue
<1> QED
  BY <1>2, <1>3

(* An operand on the heap is in the relation, and the second machine's is  *)
(* where the relation says.                                                *)
LEMMA SameHeapOperand ==
  ASSUME NEW m, Paired(m), NEW i \in 1..Len(Stack),
         Operand(i).kind \in {"Record", "Closure", "Reference"}
  PROVE  /\ Peek(i)[2] \in DOMAIN m /\ Peek(i)[2] \in Address
         /\ Operand(i) = heap[Peek(i)[2]]
         /\ Peek(i) = Heap(Peek(i)[2]) /\ Kept!Peek(i) = Heap(m[Peek(i)[2]])
         /\ Copy(m, Operand(i), Kept!Operand(i))
<1>1. Peek(i) \in Value(functions, heap) /\ Operand(i) = Deref(Peek(i))
  BY Operands DEF Paired, Operand
<1>2. /\ Peek(i)[1] = "heap" /\ Peek(i)[2] \in Address /\ Operand(i) = heap[Peek(i)[2]]
      /\ Peek(i) \in PointerTo(heap, {Operand(i).kind})
  BY <1>1, HeapOperand DEF Paired
<1>3. Peek(i) = Heap(Peek(i)[2])
  BY <1>2 DEF PointerTo, Heap
<1>4. /\ Known(m, Peek(i)) /\ Kept!Peek(i) = MovedPointer(m, Peek(i))
      /\ Copy(m, Operand(i), Kept!Operand(i))
  BY SameOperands
<1> QED
  BY <1>2, <1>3, <1>4 DEF Known, MovedPointer

LEMMA SameSetField ==
  ASSUME NEW m, Paired(m), NEW i \in 1..Len(Stack), Operand(i).kind = "Record",
         NEW k, NEW p, Known(m, p),
         SetField(i, k, p), Kept!SetField(i, k, MovedPointer(m, p))
  PROVE  SameNext
<1> DEFINE a == Peek(i)[2]
           fields == heap[a].map
           R == Replace(i, << >>)
           Q == Kept!Replace(i, << >>)
           new == [f \in DOMAIN fields \cup {k} |-> IF f = k THEN p ELSE fields[f]]
           h == [R EXCEPT ![a] = [R[a] EXCEPT !.map =
                   [f \in DOMAIN R[a].map \cup {k} |-> IF f = k THEN p ELSE R[a].map[f]]]]
           g == [Q EXCEPT ![m[a]] = [Q[m[a]] EXCEPT !.map =
                   [f \in DOMAIN Q[m[a]].map \cup {k} |->
                      IF f = k THEN MovedPointer(m, p) ELSE Q[m[a]].map[f]]]]
<1>1. /\ a \in DOMAIN m /\ a \in Address /\ heap[a].kind = "Record"
      /\ Kept!Peek(i)[2] = m[a]
  BY SameHeapOperand DEF Heap
<1>2. Continue(h) /\ Kept!Continue(g)
  BY <1>1 DEF SetField, Kept!SetField
<1>3. DOMAIN R = Address /\ R[a] = heap[a]
  <2>1. a # Top
    BY <1>1, RunningFrames, FrameFields DEF Paired
  <2> QED
    BY <1>1, <2>1, ReplaceHeap DEF Paired
<1>4. /\ DOMAIN Q = Address /\ i \in 0..Len(Stack)
      /\ \A b \in DOMAIN m : Copy(m, R[b], Q[m[b]])
  <2>1. << >> \in Seq({}) /\ AllKnown(m, << >>) /\ Moved(m, << >>) = << >>
    BY DEF AllKnown, Moved
  <2>2. i \in 0..Len(Stack)
    OBVIOUS
  <2>3. Extends(m, m)
    BY ExtendsItself
  <2>4. /\ DOMAIN Q = Address
        /\ \A b \in DOMAIN m : Copy(m, R[b], Q[m[b]])
    BY <2>1, <2>2, <2>3, ReplacedTwins
  <2> QED
    BY <2>2, <2>4
<1>5. heap[a] = Record(fields)
  BY <1>1 DEF Paired, IInv, SoundHeap, SoundObject
<1> HIDE DEF R, Q, a, fields
<1>6. /\ Q[m[a]] = Record(Moved(m, fields)) /\ AllKnown(m, fields)
      /\ \A b \in DOMAIN m : b \in Address /\ m[b] \in Address /\ (m[b] = m[a] => b = a)
  <2>1. Copy(m, heap[a], Q[m[a]]) /\ heap[a].map = fields
    BY <1>1, <1>3, <1>4, <1>5 DEF Record
  <2> QED
    BY <1>1, <2>1 DEF Copy, Paired, Twins
<1>7. /\ AllKnown(m, new)
      /\ [f \in DOMAIN Moved(m, fields) \cup {k} |->
            IF f = k THEN MovedPointer(m, p) ELSE Moved(m, fields)[f]] = Moved(m, new)
  BY <1>6 DEF AllKnown, Moved
<1>8. /\ h[a] = Record(new) /\ g[m[a]] = Record(Moved(m, new)) /\ DOMAIN g = Address
      /\ \A b \in DOMAIN m : b # a => h[b] = R[b] /\ g[m[b]] = Q[m[b]]
  <2>1. [R[a] EXCEPT !.map = new] = Record(new) /\ R[a].map = fields
    <3> HIDE DEF new
    <3> QED
      BY <1>3, <1>5 DEF Record
  <2>2. /\ [Q[m[a]] EXCEPT !.map = Moved(m, new)] = Record(Moved(m, new))
        /\ Q[m[a]].map = Moved(m, fields)
    <3> HIDE DEF new
    <3> QED
      BY <1>6 DEF Record
  <2>3. g[m[a]] = Record(Moved(m, new))
    <3>1. m[a] \in DOMAIN Q
      BY <1>1, <1>4, <1>6
    <3> QED
      BY <1>7, <2>2, <3>1
  <2>4. h[a] = Record(new)
    BY <1>1, <1>3, <2>1
  <2> QED
    BY <1>1, <1>3, <1>4, <1>6, <2>3, <2>4
<1> HIDE DEF h, g, new
<1>9. Copy(m, h[a], g[m[a]])
  BY <1>7, <1>8 DEF Copy, Record
<1>10. Twins(m, h, g, stack_frames_, kept_stack_frames)
  BY <1>4, <1>8, <1>9 DEF Paired, Twins
<1> QED
  BY <1>2, <1>10, SameContinue

-----------------------------------------------------------------------------
(* Both print the same, level by level of nested records.                  *)

LEMMA SecondShown ==
  /\ Kept!ShownRecords[0] = [a \in Address |-> Fails("overflow")]
  /\ \A d \in 1..MaxAddress : Kept!ShownRecords[d] = Kept!ShowRecords(Kept!ShownRecords[d - 1])
<1>1. \A p, records : Second!Show(p, records) = Kept!Show(p, records)
  BY DEF Second!Show, Kept!Show, Second!Deref, Kept!Deref, Second!Text, Kept!Text,
         Second!Fails, Kept!Fails
<1>2. /\ \A t : Second!Joined(t) = Kept!Joined(t)
      /\ \A S : Second!Min(S) = Kept!Min(S)
      /\ \A t : Second!Text(t) = Kept!Text(t) /\ Second!Fails(t) = Kept!Fails(t)
  <2>1. \A t : Second!Joined(t) = Joined(t)
    BY DEF Joined, Second!Joined, FoldLeft, Second!FoldLeft, MapThenFoldSet,
           Second!MapThenFoldSet, Max, Second!Max
  <2>2. \A S : Second!Min(S) = Kept!Min(S)
    BY DEF Second!Min, Kept!Min
  <2>3. \A t : Second!Text(t) = Kept!Text(t) /\ Second!Fails(t) = Kept!Fails(t)
    BY DEF Second!Text, Kept!Text, Second!Fails, Kept!Fails
  <2> QED
    BY <2>1, <2>2, <2>3, SameHelpers
<1>3. ASSUME NEW map, NEW records
      PROVE  Second!ShowFields(map, records) = Kept!ShowFields(map, records)
  <2> DEFINE present == {i \in DOMAIN FieldOrder : FieldOrder[i] \in DOMAIN map}
             first == [i \in present |-> Second!Show(map[FieldOrder[i]], records)]
             second == [i \in present |-> Kept!Show(map[FieldOrder[i]], records)]
             failing == {i \in present : first[i].fault # "none"}
             kept_failing == {i \in present : second[i].fault # "none"}
             text == [i \in DOMAIN FieldOrder |->
               IF i \in present THEN FieldOrder[i] \o ":" \o first[i].text \o " " ELSE ""]
             kept_text == [i \in DOMAIN FieldOrder |->
               IF i \in present THEN FieldOrder[i] \o ":" \o second[i].text \o " " ELSE ""]
             all == Second!Text("{" \o Second!Joined(text) \o "}")
             kept_all == Kept!Text("{" \o Kept!Joined(kept_text) \o "}")
  <2>1. Second!ShowFields(map, records)
          = IF failing = {} THEN all
            ELSE Second!Fails(first[Second!Min(failing)].fault)
    BY DEF Second!ShowFields
  <2>2. Kept!ShowFields(map, records)
          = IF kept_failing = {} THEN kept_all
            ELSE Kept!Fails(second[Kept!Min(kept_failing)].fault)
    BY DEF Kept!ShowFields
  <2>3. first = second
    BY <1>1
  <2> HIDE DEF first, second
  <2>4. kept_failing = failing /\ kept_text = text
    BY <2>3
  <2> HIDE DEF failing, text, kept_failing, kept_text
  <2>5. kept_all = all
    BY <1>2, <2>4, Zenon
  <2> HIDE DEF all, kept_all
  <2> QED
    BY <1>2, <2>1, <2>2, <2>3, <2>4, <2>5
<1>4. Second!Address = Address /\ Kept!Address = Address
  BY DEF Second!Address, Kept!Address, Address
<1>5. ASSUME NEW records PROVE Second!ShowRecords(records) = Kept!ShowRecords(records)
  <2> DEFINE nothing == Second!Text("")
             kept_nothing == Kept!Text("")
  <2>1. \A map : Second!ShowFields(map, records) = Kept!ShowFields(map, records)
    BY <1>3
  <2>2. nothing = kept_nothing
    BY <1>2, Zenon
  <2>3. Second!ShowRecords(records) = [a \in Second!Address |->
          IF kept_heap[a].kind = "Record" THEN Second!ShowFields(kept_heap[a].map, records)
          ELSE nothing]
    BY DEF Second!ShowRecords
  <2>4. Kept!ShowRecords(records) = [a \in Kept!Address |->
          IF kept_heap[a].kind = "Record" THEN Kept!ShowFields(kept_heap[a].map, records)
          ELSE kept_nothing]
    BY DEF Kept!ShowRecords
  <2> HIDE DEF nothing, kept_nothing
  <2> QED
    BY <1>4, <2>1, <2>2, <2>3, <2>4
<1>6. Second!Deepest = [a \in Address |-> Fails("overflow")]
  BY <1>2, <1>4, SameHelpers DEF Second!Deepest
<1>7. Second!ShownRecords = Kept!ShownRecords
  BY <1>2, <1>4, <1>5 DEF Second!ShownRecords, Kept!ShownRecords
<1>8. /\ Second!ShownRecords[0] = Second!Deepest
      /\ \A d \in 1..MaxAddress :
           Second!ShownRecords[d] = Second!ShowRecords(Second!ShownRecords[d - 1])
  BY Second!ShownRounds, SecondAssumptions, FieldAssumption, WidthAssumption,
     AddressAssumption
<1> QED
  BY <1>5, <1>6, <1>7, <1>8

LEMMA SameShow ==
  ASSUME NEW m, Paired(m), NEW p \in Value(functions, heap), Known(m, p),
         NEW R, NEW S, \A a \in DOMAIN m : R[a] = S[m[a]]
  PROVE  Kept!Show(MovedPointer(m, p), S) = Show(p, R)
<1> DEFINE x == Deref(p)
           y == Kept!Deref(MovedPointer(m, p))
<1>1. Copy(m, x, y)
  BY CopiedValue
<1>2. \A t : Kept!Text(t) = Text(t) /\ Kept!Fails(t) = Fails(t)
  BY SameHelpers
<1>3. x.kind = "Record" => p[1] = "heap"
  BY HeapOperand DEF Paired
<1>4. x.kind = "Record" => R[p[2]] = S[MovedPointer(m, p)[2]]
  BY <1>3 DEF Known, MovedPointer, Heap
<1> HIDE DEF x, y
<1>5. x.kind \in {"Integer", "String", "Boolean", "None"} => y = x
  BY <1>1 DEF Copy
<1>6. y.kind = x.kind
  BY <1>1 DEF Copy
<1> QED
  BY <1>2, <1>4, <1>5, <1>6 DEF Show, Kept!Show, x, y

LEMMA SameShowFields ==
  ASSUME NEW m, Paired(m), NEW map, AllKnown(m, map),
         \A k \in DOMAIN map : map[k] \in Value(functions, heap),
         NEW R, NEW S, \A a \in DOMAIN m : R[a] = S[m[a]]
  PROVE  Kept!ShowFields(Moved(m, map), S) = ShowFields(map, R)
<1> DEFINE present == {i \in DOMAIN FieldOrder : FieldOrder[i] \in DOMAIN map}
           kept_present == {i \in DOMAIN FieldOrder : FieldOrder[i] \in DOMAIN Moved(m, map)}
           shown == [i \in present |-> Show(map[FieldOrder[i]], R)]
           kept_shown == [i \in kept_present |-> Kept!Show(Moved(m, map)[FieldOrder[i]], S)]
           failing == {i \in present : shown[i].fault # "none"}
           kept_failing == {i \in kept_present : kept_shown[i].fault # "none"}
           text == [i \in DOMAIN FieldOrder |->
             IF i \in present THEN FieldOrder[i] \o ":" \o shown[i].text \o " " ELSE ""]
           kept_text == [i \in DOMAIN FieldOrder |->
             IF i \in kept_present
             THEN FieldOrder[i] \o ":" \o kept_shown[i].text \o " " ELSE ""]
           all == Text("{" \o Joined(text) \o "}")
           kept_all == Kept!Text("{" \o Kept!Joined(kept_text) \o "}")
<1>1. ShowFields(map, R)
        = IF failing = {} THEN all ELSE Fails(shown[Min(failing)].fault)
  BY DEF ShowFields
<1>2. Kept!ShowFields(Moved(m, map), S)
        = IF kept_failing = {} THEN kept_all
          ELSE Kept!Fails(kept_shown[Kept!Min(kept_failing)].fault)
  BY DEF Kept!ShowFields
<1>3. kept_present = present
  BY DEF Moved
<1>4. kept_shown = shown
  <2>1. ASSUME NEW i \in present
        PROVE  Kept!Show(Moved(m, map)[FieldOrder[i]], S) = Show(map[FieldOrder[i]], R)
    <3>1. FieldOrder[i] \in DOMAIN map
      OBVIOUS
    <3>2. /\ Known(m, map[FieldOrder[i]]) /\ map[FieldOrder[i]] \in Value(functions, heap)
          /\ Moved(m, map)[FieldOrder[i]] = MovedPointer(m, map[FieldOrder[i]])
      BY <3>1 DEF AllKnown, Moved
    <3> QED
      BY <3>2, SameShow
  <2> HIDE DEF present, kept_present
  <2> QED
    BY <1>3, <2>1
<1> HIDE DEF present, kept_present, shown, kept_shown
<1>5. kept_failing = failing /\ kept_text = text
  BY <1>3, <1>4
<1> HIDE DEF failing, text, kept_failing, kept_text
<1>6. kept_all = all
  BY <1>5, SameHelpers, Zenon
<1> HIDE DEF all, kept_all
<1> QED
  BY <1>1, <1>2, <1>4, <1>5, <1>6, SameHelpers

LEMMA SameShowRecords ==
  ASSUME NEW m, Paired(m), NEW R, NEW S, \A a \in DOMAIN m : R[a] = S[m[a]],
         NEW a \in DOMAIN m
  PROVE  ShowRecords(R)[a] = Kept!ShowRecords(S)[m[a]]
<1>1. a \in Address /\ m[a] \in Kept!Address /\ Copy(m, heap[a], kept_heap[m[a]])
  BY SameConstructors DEF Paired, Twins
<1>2. CASE heap[a].kind = "Record"
  <2>1. \A k \in DOMAIN heap[a].map : heap[a].map[k] \in Value(functions, heap)
    BY <1>1, <1>2 DEF Paired, IInv, SoundHeap, SoundObject
  <2>2. AllKnown(m, heap[a].map) /\ kept_heap[m[a]].map = Moved(m, heap[a].map)
    BY <1>1, <1>2 DEF Copy, Record
  <2>3. Kept!ShowFields(kept_heap[m[a]].map, S) = ShowFields(heap[a].map, R)
    BY <2>1, <2>2, SameShowFields
  <2>4. ShowRecords(R)[a] = ShowFields(heap[a].map, R)
    BY <1>1, <1>2 DEF ShowRecords
  <2>5. Kept!ShowRecords(S)[m[a]] = Kept!ShowFields(kept_heap[m[a]].map, S)
    BY <1>1, <1>2 DEF Kept!ShowRecords, Copy
  <2> QED
    BY <2>3, <2>4, <2>5
<1>3. CASE heap[a].kind # "Record"
  BY <1>1, <1>3, SameHelpers DEF ShowRecords, Kept!ShowRecords, Copy
<1> QED
  BY <1>2, <1>3

LEMMA SameShown ==
  ASSUME NEW m, Paired(m)
  PROVE  \A a \in DOMAIN m : ShownRecords[MaxAddress][a] = Kept!ShownRecords[MaxAddress][m[a]]
<1> DEFINE N == {d \in Nat : d <= MaxAddress =>
                   \A a \in DOMAIN m : ShownRecords[d][a] = Kept!ShownRecords[d][m[a]]}
<1>1. 0 \in N
  BY ShownRounds, SecondShown DEF Deepest, Paired, Twins
<1>2. ASSUME NEW d \in N PROVE d + 1 \in N
  <2>1. d \in Nat /\ d + 1 \in Nat /\ d + 1 - 1 = d
    OBVIOUS
  <2>2. SUFFICES ASSUME d + 1 <= MaxAddress, NEW a \in DOMAIN m
                 PROVE  ShownRecords[d + 1][a] = Kept!ShownRecords[d + 1][m[a]]
    BY <2>1
  <2>3. d + 1 \in 1..MaxAddress /\ d <= MaxAddress
    BY <2>1, <2>2, AddressAssumption
  <2>4. /\ ShownRecords[d + 1] = ShowRecords(ShownRecords[d])
        /\ Kept!ShownRecords[d + 1] = Kept!ShowRecords(Kept!ShownRecords[d])
    BY <2>1, <2>3, ShownRounds, SecondShown
  <2>5. \A b \in DOMAIN m : ShownRecords[d][b] = Kept!ShownRecords[d][m[b]]
    BY <2>3
  <2> QED
    BY <2>4, <2>5, SameShowRecords
<1> HIDE DEF N
<1>3. Nat \subseteq N
  BY <1>1, <1>2, NatSetInduction
<1> QED
  BY <1>3, AddressAssumption DEF N

LEMMA SameText ==
  ASSUME NEW m, Paired(m), NEW i \in 1..Len(Stack)
  PROVE  Kept!toString(Kept!Peek(i)) = toString(Peek(i))
<1>1. Peek(i) \in Value(functions, heap)
  BY Operands DEF Paired
<1>2. Known(m, Peek(i)) /\ Kept!Peek(i) = MovedPointer(m, Peek(i))
  BY SameOperands
<1> QED
  BY <1>1, <1>2, SameShown, SameShow DEF toString, Kept!toString

-----------------------------------------------------------------------------
(* Calls.                                                                  *)

LEMMA SameArguments ==
  ASSUME NEW m, Paired(m), NEW k \in 0..Len(Stack), NEW locals
  PROVE  /\ AllKnown(m, Arguments(k, locals))
         /\ Kept!Arguments(k, locals) = Moved(m, Arguments(k, locals))
<1>1. \A i \in 1..locals : i <= k => k + 1 - i \in 1..Len(Stack)
  BY Operands DEF Paired
<1>2. \A i \in 1..Len(Stack) : Known(m, Peek(i)) /\ Kept!Peek(i) = MovedPointer(m, Peek(i))
  BY SameOperands
<1>3. Known(m, none_) /\ Kept!none_ = MovedPointer(m, none_)
  BY SameConstructors DEF Known, MovedPointer, none_, Static
<1> QED
  BY <1>1, <1>2, <1>3 DEF Arguments, Kept!Arguments, AllKnown, Moved

LEMMA SameReferences ==
  ASSUME NEW m, Paired(m), NEW c, Room(c), NEW callee,
         Len(callee.local_reference_indices) \in Nat,
         Len(callee.local_reference_indices) < c,
         callee.free_vars \in Nat, NEW S, NEW free \in Seq(S), AllKnown(m, free)
  PROVE  LET n == GrownBy(m, c)
         IN  /\ AllKnown(n, References(callee, free))
             /\ Kept!References(callee, Moved(m, free)) = Moved(n, References(callee, free))
<1> DEFINE n == GrownBy(m, c)
           own == Len(callee.local_reference_indices)
           slots == own + callee.free_vars
<1>1. \A k \in 1..own : k + 1 \in 1..c
  BY FreeFinite DEF Room
<1>2. /\ Extends(n, m) /\ DOMAIN n = DOMAIN m \cup {Fresh(j) : j \in 1..c}
      /\ \A j \in 1..c : n[Fresh(j)] = Kept!Fresh(j)
  BY GrownRelation
<1> HIDE DEF n
<1>3. \A k \in 1..own : /\ Known(n, Heap(Fresh(k + 1)))
                        /\ Heap(Kept!Fresh(k + 1)) = MovedPointer(n, Heap(Fresh(k + 1)))
  BY <1>1, <1>2 DEF Known, MovedPointer, Heap
<1>4. DOMAIN free = 1..Len(free) /\ DOMAIN Moved(m, free) = DOMAIN free
  BY DEF Moved
<1>5. \A j \in DOMAIN free : /\ Known(n, free[j])
                             /\ Moved(m, free)[j] = MovedPointer(n, free[j])
  BY <1>2, MovedExtends DEF AllKnown, Moved
<1>6. Known(n, Static(Garbage)) /\ Static(Garbage) = MovedPointer(n, Static(Garbage))
  BY DEF Known, MovedPointer, Static
<1>7. References(callee, free) =
        [k \in 1..slots |-> IF k <= own THEN Heap(Fresh(k + 1))
                            ELSE IF k - own \in DOMAIN free THEN free[k - own]
                            ELSE Static(Garbage)]
  BY DEF References
<1>8. Kept!References(callee, Moved(m, free)) =
        [k \in 1..slots |-> IF k <= own THEN Heap(Kept!Fresh(k + 1))
                            ELSE IF k - own \in DOMAIN free THEN Moved(m, free)[k - own]
                            ELSE Static(Garbage)]
  BY <1>4, SameConstructors DEF Kept!References
<1>9. \A k \in 1..slots : k <= own => k \in 1..own
  OBVIOUS
<1> HIDE DEF own, slots
<1>10. AllKnown(n, References(callee, free))
  BY <1>3, <1>5, <1>6, <1>7, <1>9 DEF AllKnown
<1> DEFINE T == References(callee, free)
           U == Kept!References(callee, Moved(m, free))
<1>11. \A k \in 1..slots : U[k] = MovedPointer(n, T[k])
  <2> SUFFICES ASSUME NEW k \in 1..slots PROVE U[k] = MovedPointer(n, T[k])
    OBVIOUS
  <2>1. CASE k <= own
    BY <1>3, <1>7, <1>8, <1>9, <2>1
  <2>2. CASE ~(k <= own) /\ k - own \in DOMAIN free
    BY <1>5, <1>7, <1>8, <2>2
  <2>3. CASE ~(k <= own) /\ k - own \notin DOMAIN free
    BY <1>6, <1>7, <1>8, <2>3
  <2> QED
    BY <2>1, <2>2, <2>3
<1>12. DOMAIN T = 1..slots /\ U = [k \in 1..slots |-> U[k]]
  BY <1>7, <1>8
<1> HIDE DEF T, U
<1>13. U = Moved(n, T)
  BY <1>11, <1>12 DEF Moved
<1> QED
  BY <1>10, <1>13 DEF n, T, U

LEMMA SameNewFrame ==
  ASSUME NEW m, Paired(m), NEW c, Room(c), NEW callee,
         Len(callee.local_reference_indices) \in Nat,
         Len(callee.local_reference_indices) < c,
         callee.free_vars \in Nat, NEW k \in Nat, k + 1 \in 1..Len(Stack),
         Operand(k + 1).kind = "Closure"
  PROVE  Copy(GrownBy(m, c), NewFrame(callee, k), Kept!NewFrame(callee, k))
<1> DEFINE n == GrownBy(m, c)
           free == Operand(k + 1).free
           L == Arguments(k, callee.local_vars)
           T == References(callee, free)
<1>1. free \in Seq(PointerTo(heap, {"Reference"}))
  BY ClosureOperand DEF Paired
<1>2. AllKnown(m, free) /\ Kept!Operand(k + 1).free = Moved(m, free)
  BY SameOperands DEF Copy, Closure
<1> HIDE DEF free
<1>3. /\ AllKnown(n, T)
      /\ Kept!References(callee, Kept!Operand(k + 1).free) = Moved(n, T)
  BY <1>1, <1>2, SameReferences
<1>4. AllKnown(n, L) /\ Kept!Arguments(k, callee.local_vars) = Moved(n, L)
  <2>1. k \in 0..Len(Stack)
    BY Operands DEF Paired
  <2>2. AllKnown(m, L) /\ Kept!Arguments(k, callee.local_vars) = Moved(m, L)
    BY <2>1, SameArguments
  <2>3. Extends(n, m)
    BY GrownRelation
  <2> HIDE DEF n, L
  <2> QED
    BY <2>2, <2>3, MovedExtends
<1>5. NewFrame(callee, k) = Frame(L, T)
  BY DEF NewFrame, free
<1>6. Kept!NewFrame(callee, k) = Frame(Moved(n, L), Moved(n, T))
  BY <1>3, <1>4, SameConstructors DEF Kept!NewFrame
<1> HIDE DEF n, L, T
<1>7. AllKnown(n, << >>) /\ Moved(n, << >>) = << >>
  BY DEF AllKnown, Moved
<1>8. Copy(n, Frame(L, T), Frame(Moved(n, L), Moved(n, T)))
  BY <1>3, <1>4, <1>7 DEF Copy, Frame, MovedFrame
<1> QED
  BY <1>5, <1>6, <1>8 DEF n

LEMMA SameNewReference ==
  ASSUME NEW m, Paired(m), NEW c, Room(c), NEW indices, Len(indices) \in Nat,
         DOMAIN indices = 1..Len(indices), c = Len(indices) + 1, NEW k \in DOMAIN indices
  PROVE  /\ NewReference(indices, Fresh(k + 1)) = Reference(indices[k], Fresh(1))
         /\ Kept!NewReference(indices, Kept!Fresh(k + 1)) = Reference(indices[k], Kept!Fresh(1))
         /\ Copy(GrownBy(m, c), Reference(indices[k], Fresh(1)),
                 Reference(indices[k], Kept!Fresh(1)))
<1>1. /\ 1 \in 1..c
      /\ \A j \in DOMAIN indices : /\ j + 1 \in 1..Cardinality(FreeAddresses)
                                   /\ j + 1 \in 1..Cardinality(Kept!FreeAddresses)
  BY FreeFinite, KeptFresh DEF Room
<1>2. \A j \in DOMAIN indices : /\ Fresh(k + 1) = Fresh(j + 1) => j = k
                                /\ Kept!Fresh(k + 1) = Kept!Fresh(j + 1) => j = k
  <2>1. \A j \in DOMAIN indices : j + 1 = k + 1 => j = k
    OBVIOUS
  <2>2. \A j \in DOMAIN indices : Fresh(k + 1) = Fresh(j + 1) => j + 1 = k + 1
    BY <1>1, FreshDistinct
  <2>3. \A j \in DOMAIN indices : Kept!Fresh(k + 1) = Kept!Fresh(j + 1) => j + 1 = k + 1
    BY <1>1, KeptFresh
  <2> QED
    BY <2>1, <2>2, <2>3
<1>3. /\ (CHOOSE j \in DOMAIN indices : Fresh(k + 1) = Fresh(j + 1)) = k
      /\ (CHOOSE j \in DOMAIN indices : Kept!Fresh(k + 1) = Kept!Fresh(j + 1)) = k
  BY <1>2
<1>4. /\ NewReference(indices, Fresh(k + 1)) = Reference(indices[k], Fresh(1))
      /\ Kept!NewReference(indices, Kept!Fresh(k + 1)) = Reference(indices[k], Kept!Fresh(1))
  BY <1>3, SameConstructors DEF NewReference, Kept!NewReference
<1> DEFINE n == GrownBy(m, c)
<1>5. Fresh(1) \in DOMAIN n /\ n[Fresh(1)] = Kept!Fresh(1)
  BY <1>1, GrownFresh
<1> HIDE DEF n
<1>6. Copy(n, Reference(indices[k], Fresh(1)), Reference(indices[k], Kept!Fresh(1)))
  BY <1>5 DEF Copy, Reference
<1> QED
  BY <1>4, <1>6 DEF n

(* A pushed frame is pushed in both.                                       *)
LEMMA PushedFrames ==
  ASSUME NEW m, Paired(m), NEW c, Room(c), 1 \in 1..c
  PROVE  LET frames == Append(stack_frames_, Fresh(1))
         IN  /\ frames \in Seq(DOMAIN GrownBy(m, c))
             /\ Append(kept_stack_frames, Kept!Fresh(1))
                  = [i \in 1..Len(frames) |-> GrownBy(m, c)[frames[i]]]
<1> DEFINE n == GrownBy(m, c)
           frames == Append(stack_frames_, Fresh(1))
           moved == [i \in 1..Len(stack_frames_) |-> n[stack_frames_[i]]]
<1>1. stack_frames_ \in Seq(DOMAIN n) /\ kept_stack_frames = moved
  BY SameFramesGrown
<1>2. Fresh(1) \in DOMAIN n /\ n[Fresh(1)] = Kept!Fresh(1)
  BY GrownFresh
<1> HIDE DEF n
<1>3. /\ frames \in Seq(DOMAIN n) /\ Len(frames) = Len(stack_frames_) + 1
      /\ frames[Len(stack_frames_) + 1] = Fresh(1)
      /\ \A i \in 1..Len(stack_frames_) : frames[i] = stack_frames_[i]
      /\ Len(stack_frames_) \in Nat
  BY <1>1, <1>2
<1>4. /\ moved \in Seq({n[a] : a \in DOMAIN n}) /\ Len(moved) = Len(stack_frames_)
  BY <1>1, <1>3
<1> DEFINE after == Append(moved, Kept!Fresh(1))
<1>5. /\ after = [i \in 1..Len(frames) |-> after[i]]
      /\ after[Len(frames)] = Kept!Fresh(1)
      /\ \A i \in 1..Len(stack_frames_) : after[i] = moved[i]
  <2> HIDE DEF moved
  <2>1. /\ after \in Seq({n[a] : a \in DOMAIN n} \cup {Kept!Fresh(1)})
        /\ Len(after) = Len(moved) + 1
        /\ after[Len(moved) + 1] = Kept!Fresh(1)
        /\ \A i \in 1..Len(moved) : after[i] = moved[i]
    BY <1>4
  <2> HIDE DEF after
  <2> QED
    BY <1>3, <1>4, <2>1
<1>6. ASSUME NEW i \in 1..Len(frames) PROVE after[i] = n[frames[i]]
  <2>1. CASE i = Len(frames)
    BY <1>2, <1>3, <1>5, <2>1
  <2>2. CASE i # Len(frames)
    <3>1. i \in 1..Len(stack_frames_)
      BY <1>3, <2>2
    <3> QED
      BY <1>3, <1>5, <3>1
  <2> QED
    BY <2>1, <2>2
<1> QED
  BY <1>1, <1>3, <1>5, <1>6 DEF n

(* The addresses handed out to a call after the first.                     *)
LEMMA NewDistinct ==
  ASSUME NEW L \in Nat, Room(L + 1), NEW j \in 1..L
  PROVE  Fresh(1) # Fresh(j + 1) /\ Kept!Fresh(1) # Kept!Fresh(j + 1)
<1>1. /\ j + 1 \in 1..Cardinality(FreeAddresses) /\ 1 \in 1..Cardinality(FreeAddresses)
      /\ j + 1 \in 1..Cardinality(Kept!FreeAddresses)
      /\ 1 \in 1..Cardinality(Kept!FreeAddresses)
  BY FreeFinite, KeptFresh DEF Room
<1>2. j + 1 # 1
  OBVIOUS
<1> QED
  BY <1>1, <1>2, FreshDistinct, KeptFresh

LEMMA SameEnter ==
  ASSUME NEW m, Paired(m), NEW f, NEW k \in Nat, k + 1 \in 1..Len(Stack),
         Operand(k + 1).kind = "Closure", f = Operand(k + 1).function,
         Enter(f, k), Kept!Enter(f, k)
  PROVE  SameNext
<1> DEFINE callee == FunctionNamed(f)
           indices == callee.local_reference_indices
           c == Len(indices) + 1
           n == GrownBy(m, c)
           s == Below(k + 1)
<1>1. /\ indices \in Seq(Nat) /\ callee.free_vars \in Nat
      /\ Len(indices) \in Nat /\ DOMAIN indices = 1..Len(indices)
  <2>1. TypedFunction(functions, callee)
    BY ClosureOperand, NamedTyped DEF Paired
  <2> QED
    BY <2>1 DEF TypedFunction
<1>2. Kept!FunctionNamed(f) = callee
  BY SameFunctions
<1>3. /\ Cardinality(FreeAddresses) > Len(indices)
      /\ heap' = [a \in Address |->
                    CASE a = Top -> [heap[a] EXCEPT !.stack = s]
                      [] a = Fresh(1) -> NewFrame(callee, k)
                      [] \E j \in DOMAIN indices : a = Fresh(j + 1) -> NewReference(indices, a)
                      [] OTHER -> heap[a]]
      /\ stack_frames_' = Append(stack_frames_, Fresh(1))
      /\ callers' = Append(callers, [function |-> current_function_,
                                     pointer |-> instruction_pointer_])
      /\ current_function_' = f /\ instruction_pointer_' = 0
      /\ status' = status /\ output' = output
  BY DEF Enter
<1>4. /\ Cardinality(Kept!FreeAddresses) > Len(indices)
      /\ kept_heap' = [a \in Address |->
                    CASE a = Kept!Top -> [kept_heap[a] EXCEPT !.stack = Kept!Below(k + 1)]
                      [] a = Kept!Fresh(1) -> Kept!NewFrame(callee, k)
                      [] \E j \in DOMAIN indices : a = Kept!Fresh(j + 1) ->
                           Kept!NewReference(indices, a)
                      [] OTHER -> kept_heap[a]]
      /\ kept_stack_frames' = Append(kept_stack_frames, Kept!Fresh(1))
      /\ kept_callers' = Append(kept_callers, [function |-> kept_current_function,
                                               pointer |-> kept_instruction_pointer])
      /\ kept_current_function' = f /\ kept_instruction_pointer' = 0
      /\ kept_status' = kept_status /\ kept_output' = kept_output
  BY <1>2, SameConstructors, SameCardinality DEF Kept!Enter
<1> HIDE DEF callee, indices
<1>5. Room(c) /\ c \in Nat /\ 1 \in 1..c /\ \A j \in 1..Len(indices) : j + 1 \in 1..c
  <2>1. Cardinality(FreeAddresses) \in Nat /\ Cardinality(Kept!FreeAddresses) \in Nat
    BY FreeFinite, KeptFresh
  <2>2. /\ Cardinality(FreeAddresses) > Len(indices)
        /\ Cardinality(Kept!FreeAddresses) > Len(indices)
    BY <1>3, <1>4
  <2>3. /\ c \in 0..Cardinality(FreeAddresses) /\ c \in 0..Cardinality(Kept!FreeAddresses)
        /\ c \in Nat /\ 1 \in 1..c /\ \A j \in 1..Len(indices) : j + 1 \in 1..c
    BY <1>1, <2>1, <2>2
  <2> QED
    BY <2>3 DEF Room
<1>6. \A j \in 2..c : j - 1 \in DOMAIN indices /\ j - 1 + 1 = j
  BY <1>1
<1>7. /\ Extends(n, m)
      /\ \A j \in 1..c : /\ Fresh(j) \in Address \ DOMAIN m /\ Kept!Fresh(j) \in Address
                         /\ Fresh(j) # Top /\ Kept!Fresh(j) # Kept!Top
                         /\ \A a \in DOMAIN m : m[a] # Kept!Fresh(j)
  BY <1>5, GrownRelation
<1>8. /\ \A a \in DOMAIN m : a \in Address /\ m[a] \in Address
      /\ \A a, b \in DOMAIN m : m[a] = m[b] => a = b
      /\ \A a \in DOMAIN m : Copy(m, heap[a], kept_heap[m[a]])
      /\ Top \in DOMAIN m /\ Kept!Top = m[Top]
  BY SameFrames DEF Paired, Twins
<1>9. ASSUME NEW a \in DOMAIN m PROVE Copy(n, heap'[a], kept_heap'[m[a]])
  <2>1. /\ a \in Address /\ a # Fresh(1)
        /\ \A j \in DOMAIN indices : a # Fresh(j + 1)
        /\ m[a] \in Address /\ m[a] # Kept!Fresh(1)
        /\ \A j \in DOMAIN indices : m[a] # Kept!Fresh(j + 1)
    BY <1>1, <1>5, <1>7, <1>8
  <2>2. CASE a = Top
    <3>1. /\ heap'[a] = [heap[Top] EXCEPT !.stack = s]
          /\ kept_heap'[m[a]] = [kept_heap[Kept!Top] EXCEPT !.stack = Kept!Below(k + 1)]
      BY <1>3, <1>4, <1>8, <2>1, <2>2
    <3>2. k + 1 \in 0..Len(Stack)
      BY Operands DEF Paired
    <3>3. AllKnown(m, s) /\ Kept!Below(k + 1) = Moved(m, s)
      BY <3>2, SameOperands
    <3>4. AllKnown(n, s) /\ Kept!Below(k + 1) = Moved(n, s)
      BY <1>7, <3>3, MovedExtends
    <3>5. [heap[Top] EXCEPT !.stack = s] = WithStack(heap[Top], s)
      BY RunningFrames, WithStackFrame DEF Paired
    <3> HIDE DEF s, n
    <3> QED
      BY <1>7, <3>1, <3>4, <3>5, RestackedFrame
  <2>3. CASE a # Top
    <3>1. m[a] # Kept!Top
      BY <1>8, <2>3
    <3>2. heap'[a] = heap[a]
      BY <1>3, <2>1, <2>3
    <3>3. kept_heap'[m[a]] = kept_heap[m[a]]
      BY <1>4, <2>1, <3>1
    <3> QED
      BY <1>7, <1>8, <3>2, <3>3, CopyExtends
  <2> QED
    BY <2>2, <2>3
<1>10. ASSUME NEW j \in 1..c PROVE Copy(n, heap'[Fresh(j)], kept_heap'[Kept!Fresh(j)])
  <2>1. CASE j = 1
    <3> DEFINE u == Fresh(1)
               v == Kept!Fresh(1)
    <3>1. u \in Address /\ u # Top /\ v \in Address /\ v # Kept!Top
      BY <1>5, <1>7
    <3>2. /\ ~ (\E i \in DOMAIN indices : u = Fresh(i + 1))
          /\ ~ (\E i \in DOMAIN indices : v = Kept!Fresh(i + 1))
      BY <1>1, <1>5, NewDistinct
    <3>3. heap'[u] = NewFrame(callee, k)
      <4>1. u = Fresh(1)
        OBVIOUS
      <4> HIDE DEF u
      <4> QED
        BY <1>3, <3>1, <3>2, <4>1
    <3>4. kept_heap'[v] = Kept!NewFrame(callee, k)
      <4>1. v = Kept!Fresh(1)
        OBVIOUS
      <4> HIDE DEF v
      <4> QED
        BY <1>4, <3>1, <3>2, <4>1
    <3>5. /\ Len(callee.local_reference_indices) \in Nat
          /\ Len(callee.local_reference_indices) < c
      BY <1>1 DEF indices
    <3>6. Copy(n, NewFrame(callee, k), Kept!NewFrame(callee, k))
      BY <1>1, <1>5, <3>5, SameNewFrame
    <3> QED
      BY <2>1, <3>3, <3>4, <3>6
  <2>2. CASE j # 1
    <3> DEFINE i == j - 1
    <3>1. i \in DOMAIN indices /\ j = i + 1
      BY <1>1, <2>2
    <3>2. Fresh(j) # Fresh(1) /\ Kept!Fresh(j) # Kept!Fresh(1)
      <4>1. /\ j \in 1..Cardinality(FreeAddresses) /\ 1 \in 1..Cardinality(FreeAddresses)
            /\ j \in 1..Cardinality(Kept!FreeAddresses)
            /\ 1 \in 1..Cardinality(Kept!FreeAddresses)
        BY <1>5, FreeFinite, KeptFresh DEF Room
      <4> QED
        BY <2>2, <4>1, FreshDistinct, KeptFresh
    <3>3. heap'[Fresh(j)] = NewReference(indices, Fresh(j))
      BY <1>3, <1>7, <3>1, <3>2
    <3>4. kept_heap'[Kept!Fresh(j)] = Kept!NewReference(indices, Kept!Fresh(j))
      BY <1>4, <1>7, <3>1, <3>2
    <3>5. /\ NewReference(indices, Fresh(i + 1)) = Reference(indices[i], Fresh(1))
          /\ Kept!NewReference(indices, Kept!Fresh(i + 1)) = Reference(indices[i], Kept!Fresh(1))
          /\ Copy(n, Reference(indices[i], Fresh(1)), Reference(indices[i], Kept!Fresh(1)))
      BY <1>1, <1>5, <3>1, SameNewReference
    <3> HIDE DEF i
    <3> QED
      BY <3>1, <3>3, <3>4, <3>5
  <2> QED
    BY <2>1, <2>2
<1>11. DOMAIN kept_heap' = Address
  BY <1>4
<1>12. Twins(n, heap', kept_heap', stack_frames_', kept_stack_frames')
  <2> DEFINE frames == Append(stack_frames_, Fresh(1))
  <2>1. /\ frames \in Seq(DOMAIN n)
        /\ kept_stack_frames' = [i \in 1..Len(frames) |-> n[frames[i]]]
    BY <1>4, <1>5, PushedFrames
  <2>2. Twins(n, heap', kept_heap', frames, [i \in 1..Len(frames) |-> n[frames[i]]])
    <3> HIDE DEF frames
    <3> QED
      BY <1>5, <1>9, <1>10, <1>11, <2>1, GrownTwins
  <2> QED
    BY <1>3, <2>1, <2>2
<1>13. SameControl'
  BY <1>3, <1>4 DEF Paired, SameControl
<1> QED
  BY <1>12, <1>13 DEF SameNext

(* A native function answers p in the one machine and q in the other.      *)
LEMMA SameAnswer ==
  ASSUME NEW m, Paired(m), NEW c, Room(c), 1 \in 1..c, NEW f \in DOMAIN Natives,
         NEW k \in Nat, k + 1 \in 1..Len(Stack), Operand(k + 1).kind = "Closure",
         NEW p, NEW q, Known(GrownBy(m, c), p), q = MovedPointer(GrownBy(m, c), p),
         NEW H, DOMAIN H = Address, \A a \in DOMAIN m : H[a] = heap[a],
         NEW G, DOMAIN G = Address, \A a \in DOMAIN m : G[m[a]] = kept_heap[m[a]],
         \A j \in 2..c : Copy(GrownBy(m, c), H[Fresh(j)], G[Kept!Fresh(j)]),
         NEW text, Answer(f, k, p, H, text), Kept!Answer(f, k, q, G, text)
  PROVE  SameNext
<1> DEFINE n == GrownBy(m, c)
           s == Append(Below(k + 1), p)
           x == NewFrame(Natives[f], k)
           y == Kept!NewFrame(Natives[f], k)
<1>1. /\ Extends(n, m)
      /\ \A j \in 1..c : /\ Fresh(j) \in Address \ DOMAIN m /\ Kept!Fresh(j) \in Address
                         /\ Fresh(j) # Top /\ Kept!Fresh(j) # Kept!Top
                         /\ \A a \in DOMAIN m : m[a] # Kept!Fresh(j)
  BY GrownRelation
<1>2. AllKnown(n, s) /\ Append(Kept!Below(k + 1), q) = Moved(n, s)
  <2>1. Below(k + 1) \in Seq(Value(functions, heap)) /\ k + 1 \in 0..Len(Stack)
    BY Operands DEF Paired
  <2>2. AllKnown(n, Below(k + 1)) /\ Kept!Below(k + 1) = Moved(n, Below(k + 1))
    <3>1. AllKnown(m, Below(k + 1)) /\ Kept!Below(k + 1) = Moved(m, Below(k + 1))
      BY <2>1, SameOperands
    <3> QED
      BY <1>1, <3>1, MovedExtends
  <2> DEFINE b == Below(k + 1)
             V == Value(functions, heap)
             W == {MovedPointer(n, v) : v \in V}
  <2>3. <<p>> \in Seq({p}) /\ AllKnown(n, <<p>>) /\ Moved(n, <<p>>) = <<q>>
    BY DEF AllKnown, Moved
  <2> HIDE DEF n
  <2>4. Moved(n, b) \in Seq(W)
    <3> HIDE DEF b, V
    <3> QED
      BY <2>1, MovedSeq DEF b, V
  <2> HIDE DEF b, V, W
  <2>5. b \in Seq(V)
    BY <2>1 DEF b, V
  <2>6. Append(b, p) = b \o <<p>>
    BY <2>5
  <2>7. Append(Moved(n, b), q) = Moved(n, b) \o <<q>>
    BY <2>4
  <2>8. AllKnown(n, b \o <<p>>) /\ Moved(n, b) \o <<q>> = Moved(n, b \o <<p>>)
    <3> DEFINE t == <<p>>
               T == {p}
    <3>1. t \in Seq(T) /\ AllKnown(n, t) /\ Moved(n, t) = <<q>> /\ AllKnown(n, b)
      BY <2>2, <2>3 DEF b
    <3> HIDE DEF t, T
    <3>2. t \in Seq(T)
      BY <3>1
    <3>3. /\ Moved(n, b) \o Moved(n, t) = Moved(n, b \o t)
          /\ AllKnown(n, b) /\ AllKnown(n, t) => AllKnown(n, b \o t)
      BY <2>5, <3>2, MovedConcat
    <3> QED
      BY <3>1, <3>3 DEF t
  <2> QED
    BY <2>2, <2>6, <2>7, <2>8 DEF b
<1>3. Copy(n, x, y)
  <2>1. \E i \in Nat : Natives[f] = NativeFunction(i)
    BY DEF Natives
  <2>2. /\ Natives[f].local_reference_indices = << >>
        /\ Natives[f].free_vars = 0
    BY <2>1 DEF NativeFunction
  <2>3. Len(Natives[f].local_reference_indices) = 0 /\ 0 < c
    BY <2>2 DEF Room
  <2> QED
    BY <2>2, <2>3, SameNewFrame
<1>4. /\ heap' = [H EXCEPT ![Top] = [H[Top] EXCEPT !.stack = s], ![Fresh(1)] = x]
      /\ output' = output \o text /\ instruction_pointer_' = instruction_pointer_ + 1
      /\ UNCHANGED <<functions, callers, stack_frames_, current_function_, status>>
  BY DEF Answer
<1>5. /\ kept_heap' = [G EXCEPT ![Kept!Top] = [G[Kept!Top] EXCEPT !.stack = Moved(n, s)],
                                ![Kept!Fresh(1)] = y]
      /\ kept_output' = kept_output \o text
      /\ kept_instruction_pointer' = kept_instruction_pointer + 1
      /\ UNCHANGED <<kept_callers, kept_stack_frames, kept_current_function, kept_status>>
  BY <1>2, SameFunctions DEF Kept!Answer
<1>6. /\ \A a \in DOMAIN m : a \in Address /\ m[a] \in Address
      /\ \A a, b \in DOMAIN m : m[a] = m[b] => a = b
      /\ \A a \in DOMAIN m : Copy(m, heap[a], kept_heap[m[a]])
      /\ Top \in DOMAIN m /\ Kept!Top = m[Top]
  BY SameFrames DEF Paired, Twins
<1> HIDE DEF n, s, x, y
<1>7. /\ DOMAIN kept_heap' = Address
      /\ heap'[Fresh(1)] = x /\ kept_heap'[Kept!Fresh(1)] = y
      /\ heap'[Top] = [heap[Top] EXCEPT !.stack = s]
      /\ kept_heap'[Kept!Top] = [kept_heap[Kept!Top] EXCEPT !.stack = Moved(n, s)]
      /\ \A a \in Address \ {Top, Fresh(1)} : heap'[a] = H[a]
      /\ \A a \in Address \ {Kept!Top, Kept!Fresh(1)} : kept_heap'[a] = G[a]
  <2>1. Fresh(1) # Top /\ Kept!Fresh(1) # Kept!Top /\ Fresh(1) \in Address
        /\ Kept!Fresh(1) \in Address /\ Top \in Address /\ Kept!Top \in Address
        /\ H[Top] = heap[Top] /\ G[Kept!Top] = kept_heap[Kept!Top]
    BY <1>1, <1>6
  <2> QED
    BY <1>4, <1>5, <2>1
<1>8. ASSUME NEW a \in DOMAIN m PROVE Copy(n, heap'[a], kept_heap'[m[a]])
  <2>1. CASE a = Top
    <3>1. [heap[Top] EXCEPT !.stack = s] = WithStack(heap[Top], s)
      BY RunningFrames, WithStackFrame DEF Paired
    <3> QED
      BY <1>1, <1>2, <1>6, <1>7, <2>1, <3>1, RestackedFrame
  <2>2. CASE a # Top
    <3>1. heap'[a] = heap[a] /\ kept_heap'[m[a]] = kept_heap[m[a]]
      BY <1>1, <1>6, <1>7, <2>2
    <3> QED
      BY <1>1, <1>6, <3>1, CopyExtends
  <2> QED
    BY <2>1, <2>2
<1>9. ASSUME NEW j \in 1..c PROVE Copy(n, heap'[Fresh(j)], kept_heap'[Kept!Fresh(j)])
  <2>1. CASE j = 1
    BY <1>3, <1>7, <2>1
  <2>2. CASE j # 1
    <3>1. j \in 2..c
      BY <2>2 DEF Room
    <3>2. Fresh(j) # Fresh(1) /\ Kept!Fresh(j) # Kept!Fresh(1)
      <4>1. /\ j \in 1..Cardinality(FreeAddresses) /\ 1 \in 1..Cardinality(FreeAddresses)
            /\ j \in 1..Cardinality(Kept!FreeAddresses)
            /\ 1 \in 1..Cardinality(Kept!FreeAddresses)
        BY FreeFinite, KeptFresh DEF Room
      <4> QED
        BY <2>2, <4>1, FreshDistinct, KeptFresh
    <3>3. heap'[Fresh(j)] = H[Fresh(j)] /\ kept_heap'[Kept!Fresh(j)] = G[Kept!Fresh(j)]
      BY <1>1, <1>7, <3>2
    <3> QED
      BY <3>1, <3>3 DEF n
  <2> QED
    BY <2>1, <2>2
<1>10. Twins(n, heap', kept_heap', stack_frames_', kept_stack_frames')
  <2>1. /\ stack_frames_ \in Seq(DOMAIN n)
        /\ kept_stack_frames = [i \in 1..Len(stack_frames_) |-> n[stack_frames_[i]]]
    BY SameFramesGrown DEF n
  <2> DEFINE h == heap'
             g == kept_heap'
  <2>2. Twins(n, h, g, stack_frames_, [i \in 1..Len(stack_frames_) |-> n[stack_frames_[i]]])
    <3>1. /\ DOMAIN g = Address /\ \A a \in DOMAIN m : Copy(n, h[a], g[m[a]])
          /\ \A j \in 1..c : Copy(n, h[Fresh(j)], g[Kept!Fresh(j)])
      BY <1>7, <1>8, <1>9
    <3> HIDE DEF h, g
    <3> QED
      BY <2>1, <3>1, GrownTwins DEF n
  <2>3. stack_frames_' = stack_frames_ /\ kept_stack_frames' = kept_stack_frames
    BY <1>4, <1>5
  <2> QED
    BY <2>1, <2>2, <2>3
<1>11. SameControl'
  BY <1>4, <1>5 DEF Paired, SameControl
<1> QED
  BY <1>10, <1>11 DEF SameNext

(* It answers a new object x without pointers.                             *)
LEMMA SameAnswerNew ==
  ASSUME NEW m, Paired(m), NEW f \in DOMAIN Natives,
         NEW k \in Nat, k + 1 \in 1..Len(Stack), Operand(k + 1).kind = "Closure",
         NEW x, x.kind \in {"Integer", "String"}, AnswerNew(f, k, x), Kept!AnswerNew(f, k, x)
  PROVE  SameNext
<1> DEFINE n == GrownBy(m, 2)
           H == [heap EXCEPT ![Fresh(2)] = x]
           G == [kept_heap EXCEPT ![Kept!Fresh(2)] = x]
           p == Heap(Fresh(2))
           q == Heap(Kept!Fresh(2))
<1>1. Room(2)
  BY SameCardinality, FreeFinite, KeptFresh DEF AnswerNew, Kept!AnswerNew, Room
<1>2. /\ Fresh(2) \in DOMAIN n /\ n[Fresh(2)] = Kept!Fresh(2)
      /\ Fresh(2) \in Address \ DOMAIN m /\ Kept!Fresh(2) \in Address
      /\ \A a \in DOMAIN m : m[a] # Kept!Fresh(2)
  <2>1. 2 \in 1..2
    OBVIOUS
  <2> QED
    BY <1>1, <2>1, GrownFresh
<1>3. Answer(f, k, p, H, << >>) /\ Kept!Answer(f, k, q, G, << >>)
  BY SameConstructors DEF AnswerNew, Kept!AnswerNew
<1>4. Known(n, p) /\ q = MovedPointer(n, p)
  BY <1>2 DEF Known, MovedPointer, Heap
<1> HIDE DEF n, p, q
<1>5. DOMAIN heap = Address /\ DOMAIN kept_heap = Address
  BY DEF Paired, Twins, IInv, TypeOK
<1>6. /\ DOMAIN H = Address /\ \A a \in DOMAIN m : H[a] = heap[a]
      /\ DOMAIN G = Address /\ \A a \in DOMAIN m : G[m[a]] = kept_heap[m[a]]
      /\ H[Fresh(2)] = x /\ G[Kept!Fresh(2)] = x
  BY <1>2, <1>5
<1> HIDE DEF H, G
<1>7. \A j \in 2..2 : j = 2
  OBVIOUS
<1>8. \A j \in 2..2 : Copy(n, H[Fresh(j)], G[Kept!Fresh(j)])
  BY <1>6, <1>7 DEF Copy
<1>9. 1 \in 1..2
  OBVIOUS
<1> QED
  BY <1>1, <1>3, <1>4, <1>6, <1>8, <1>9, SameAnswer DEF n

-----------------------------------------------------------------------------
(* The instructions, one by one. What they ask of their operands fails in  *)
(* both machines or in neither.                                            *)

LEMMA SameFaults ==
  ASSUME NEW m, Paired(m)
  PROVE  /\ Kept!Fault(<<Pop(1)>>) = Fault(<<Pop(1)>>)
         /\ Kept!Fault(<<Pop(1), Pop(2)>>) = Fault(<<Pop(1), Pop(2)>>)
         /\ \A kind : Kept!Fault(<<Is(1, kind)>>) = Fault(<<Is(1, kind)>>)
         /\ \A kind : Kept!Fault(<<Is(2, kind)>>) = Fault(<<Is(2, kind)>>)
         /\ \A kind : Kept!Fault(<<Is(3, kind)>>) = Fault(<<Is(3, kind)>>)
         /\ \A kind : Kept!Fault(<<Is(1, kind), Pop(2)>>) = Fault(<<Is(1, kind), Pop(2)>>)
         /\ \A kind : Kept!Fault(<<Pop(1), Is(2, kind)>>) = Fault(<<Pop(1), Is(2, kind)>>)
         /\ Kept!Fault(<<Pop(1), Pop(2), Typed(2), Typed(1)>>)
              = Fault(<<Pop(1), Pop(2), Typed(2), Typed(1)>>)
         /\ Kept!Fault(Integers) = Fault(Integers)
         /\ Kept!Fault(Booleans) = Fault(Booleans)
<1>1. /\ Pop(1)[1] = 1 /\ Pop(2)[1] = 2 /\ Typed(1)[1] = 1 /\ Typed(2)[1] = 2
      /\ \A i, kind : Is(i, kind)[1] = i
  BY DEF Pop, Typed, Is
<1>2. ASSUME NEW a, a[1] \in Nat \ {0} PROVE Kept!Fault(<<a>>) = Fault(<<a>>)
  BY <1>2, SameFault
<1>3. ASSUME NEW a, NEW b, a[1] \in Nat \ {0}, b[1] \in Nat \ {0}
      PROVE  Kept!Fault(<<a, b>>) = Fault(<<a, b>>)
  BY <1>3, SameFault
<1>4. ASSUME NEW a, NEW b, NEW c, NEW d,
             a[1] \in Nat \ {0}, b[1] \in Nat \ {0}, c[1] \in Nat \ {0}, d[1] \in Nat \ {0}
      PROVE  Kept!Fault(<<a, b, c, d>>) = Fault(<<a, b, c, d>>)
  BY <1>4, SameFault
<1>5. 1 \in Nat \ {0} /\ 2 \in Nat \ {0} /\ 3 \in Nat \ {0}
  OBVIOUS
<1> QED
  BY <1>1, <1>2, <1>3, <1>4, <1>5 DEF Integers, Booleans

LEMMA SameLoadConst ==
  ASSUME NEW m, Paired(m), NEW i, LoadConst(i), Kept!LoadConst(i)
  PROVE  SameNext
<1> DEFINE x == This.constants[i + 1]
<1>1. \/ Throw("RuntimeException") /\ Kept!Throw("RuntimeException")
      \/ Yield(0, Static(x)) /\ Kept!Yield(0, Static(x))
  BY SameFrames, SameHelpers, SameConstructors
     DEF LoadConst, Within, Kept!LoadConst, Kept!Within
<1>2. 0 \in 0..Len(Stack)
  BY Operands DEF Paired
<1> HIDE DEF x
<1> QED
  BY <1>1, <1>2, SameThrow, SameYieldStatic

LEMMA SameLoadFunc ==
  ASSUME NEW m, Paired(m), NEW i, LoadFunc(i), Kept!LoadFunc(i)
  PROVE  SameNext
<1> DEFINE x == Function(This.functions[i + 1])
<1>1. \/ Throw("RuntimeException") /\ Kept!Throw("RuntimeException")
      \/ Yield(0, Static(x)) /\ Kept!Yield(0, Static(x))
  BY SameFrames, SameHelpers, SameConstructors
     DEF LoadFunc, Within, Kept!LoadFunc, Kept!Within
<1>2. 0 \in 0..Len(Stack)
  BY Operands DEF Paired
<1> HIDE DEF x
<1> QED
  BY <1>1, <1>2, SameThrow, SameYieldStatic

(* The frames an instruction names have variables in both machines.        *)
LEMMA SameNamedFrames ==
  ASSUME NEW m, Paired(m)
  PROVE  /\ Top \in DOMAIN m /\ heap[Top].kind = "Frame" /\ Kept!Top = m[Top]
         /\ GlobalFrame \in DOMAIN m /\ heap[GlobalFrame].kind = "Frame"
         /\ Kept!GlobalFrame = m[GlobalFrame]
         /\ 0 \in 0..Len(Stack)
BY SameFrames, RunningFrames, FrameFields, Operands DEF Paired

LEMMA SameLoadLocal ==
  ASSUME NEW m, Paired(m), NEW i, LoadLocal(i), Kept!LoadLocal(i)
  PROVE  SameNext
<1>1. GetLocalVar(Top, i, 0) /\ Kept!GetLocalVar(m[Top], i, 0)
  BY SameNamedFrames DEF LoadLocal, Kept!LoadLocal
<1> QED
  BY <1>1, SameNamedFrames, SameGetLocalVar

(* The first operand, popped.                                              *)
LEMMA SamePopOne ==
  ASSUME NEW m, Paired(m), Fault(<<Pop(1)>>) = "none"
  PROVE  1 \in 0..Len(Stack) /\ 1 \in 1..Len(Stack)
         /\ Known(m, Peek(1)) /\ Kept!Peek(1) = MovedPointer(m, Peek(1))
<1>1. 1 \in 0..Len(Stack)
  BY PopOne DEF Paired
<1>2. 1 \in 1..Len(Stack)
  BY <1>1
<1> QED
  BY <1>1, <1>2, SameOperands

LEMMA SameStoreLocal ==
  ASSUME NEW m, Paired(m), NEW i, StoreLocal(i), Kept!StoreLocal(i)
  PROVE  SameNext
<1> DEFINE e == Fault(<<Pop(1)>>)
<1>1. \/ Throw(e) /\ Kept!Throw(e)
      \/ /\ e = "none"
         /\ SetLocalVar(Top, i, Peek(1), 1) /\ Kept!SetLocalVar(Kept!Top, i, Kept!Peek(1), 1)
  BY SameFaults, SameAsking DEF StoreLocal, Given, Kept!StoreLocal, Kept!Given
<1>2. CASE Throw(e) /\ Kept!Throw(e)
  BY <1>2, SameThrow
<1>3. CASE /\ e = "none"
           /\ SetLocalVar(Top, i, Peek(1), 1) /\ Kept!SetLocalVar(Kept!Top, i, Kept!Peek(1), 1)
  <2>1. Kept!SetLocalVar(m[Top], i, MovedPointer(m, Peek(1)), 1)
    BY <1>3, SamePopOne, SameNamedFrames
  <2> QED
    BY <1>3, <2>1, SamePopOne, SameNamedFrames, SameSetLocalVar
<1> QED
  BY <1>1, <1>2, <1>3

LEMMA SameLoadGlobal ==
  ASSUME NEW m, Paired(m), NEW i, LoadGlobal(i), Kept!LoadGlobal(i)
  PROVE  SameNext
<1> DEFINE j == GlobalIndex(This.names[i + 1])
<1>1. \/ Throw("RuntimeException") /\ Kept!Throw("RuntimeException")
      \/ GetLocalVar(GlobalFrame, j, 0) /\ Kept!GetLocalVar(m[GlobalFrame], j, 0)
  BY SameFrames, SameNamedFrames, SameHelpers, SameFunctions
     DEF LoadGlobal, Within, Kept!LoadGlobal, Kept!Within
<1> HIDE DEF j
<1> QED
  BY <1>1, SameThrow, SameNamedFrames, SameGetLocalVar

LEMMA SameStoreGlobal ==
  ASSUME NEW m, Paired(m), NEW i, StoreGlobal(i), Kept!StoreGlobal(i)
  PROVE  SameNext
<1> DEFINE e == Fault(<<Pop(1)>>)
           j == GlobalIndex(This.names[i + 1])
<1>1. \/ Throw(e) /\ Kept!Throw(e)
      \/ Throw("RuntimeException") /\ Kept!Throw("RuntimeException")
      \/ /\ e = "none"
         /\ SetLocalVar(GlobalFrame, j, Peek(1), 1)
         /\ Kept!SetLocalVar(Kept!GlobalFrame, j, Kept!Peek(1), 1)
  BY SameFaults, SameAsking, SameFrames, SameHelpers, SameFunctions
     DEF StoreGlobal, Given, Within, Kept!StoreGlobal, Kept!Given, Kept!Within
<1>2. CASE Throw(e) /\ Kept!Throw(e)
  BY <1>2, SameThrow
<1>3. CASE Throw("RuntimeException") /\ Kept!Throw("RuntimeException")
  BY <1>3, SameThrow
<1>4. CASE /\ e = "none"
           /\ SetLocalVar(GlobalFrame, j, Peek(1), 1)
           /\ Kept!SetLocalVar(Kept!GlobalFrame, j, Kept!Peek(1), 1)
  <2> HIDE DEF j
  <2>1. Kept!SetLocalVar(m[GlobalFrame], j, MovedPointer(m, Peek(1)), 1)
    BY <1>4, SamePopOne, SameNamedFrames
  <2> QED
    BY <1>4, <2>1, SamePopOne, SameNamedFrames, SameSetLocalVar
<1> QED
  BY <1>1, <1>2, <1>3, <1>4

LEMMA SamePushReference ==
  ASSUME NEW m, Paired(m), NEW i, PushReference(i), Kept!PushReference(i)
  PROVE  SameNext
<1> DEFINE s == heap[Top].refs
<1>1. /\ s \in Seq(Slot(functions, heap)) /\ AllKnown(m, s)
      /\ kept_heap[Kept!Top].refs = Moved(m, s)
  BY SameNamedFrames, SameVariables
<1> HIDE DEF s
<1>2. CASE Valid(s, i)
  <2>1. Yield(0, s[i + 1]) /\ Kept!Yield(0, MovedPointer(m, s[i + 1]))
    BY <1>1, <1>2, SameIndex, SameHelpers DEF PushReference, Kept!PushReference, s
  <2> QED
    BY <1>1, <1>2, <2>1, SameNamedFrames, SameIndex, SameYield
<1>3. CASE ~Valid(s, i)
  BY <1>1, <1>3, SameIndex, SameHelpers, SameThrow DEF PushReference, Kept!PushReference, s
<1> QED
  BY <1>2, <1>3

LEMMA SamePushUnresolved ==
  ASSUME NEW m, Paired(m), PushUnresolved, Kept!PushUnresolved
  PROVE  SameNext
BY SameThrow DEF PushUnresolved, Kept!PushUnresolved

(* The variable a reference among the operands stands for.                 *)
LEMMA SameVariable ==
  ASSUME NEW m, Paired(m), 1 \in 1..Len(Stack), Operand(1).kind = "Reference"
  PROVE  /\ Operand(1).frame \in DOMAIN m /\ heap[Operand(1).frame].kind = "Frame"
         /\ Kept!Operand(1).frame = m[Operand(1).frame]
         /\ Kept!Operand(1).index = Operand(1).index
<1>1. /\ Operand(1).frame \in DOMAIN m
      /\ Kept!Operand(1) = Reference(Operand(1).index, m[Operand(1).frame])
  BY SameOperands DEF Copy
<1>2. heap[Operand(1).frame].kind = "Frame"
  <2>1. Meets(Is(1, "Reference"))
    BY Operands DEF Meets, Is, Operand, Paired
  <2> QED
    BY <2>1, ReferenceOperand DEF OfKind, Paired
<1> QED
  BY <1>1, <1>2 DEF Reference

LEMMA SameLoadReference ==
  ASSUME NEW m, Paired(m), LoadReference, Kept!LoadReference
  PROVE  SameNext
<1> DEFINE e == Fault(<<Is(1, "Reference")>>)
           x == Operand(1)
           y == Kept!Operand(1)
<1>1. \/ Throw(e) /\ Kept!Throw(e)
      \/ /\ e = "none"
         /\ GetLocalVar(x.frame, x.index, 1) /\ Kept!GetLocalVar(y.frame, y.index, 1)
  BY SameFaults, SameAsking DEF LoadReference, Given, Kept!LoadReference, Kept!Given
<1>2. CASE Throw(e) /\ Kept!Throw(e)
  BY <1>2, SameThrow
<1>3. CASE /\ e = "none"
           /\ GetLocalVar(x.frame, x.index, 1) /\ Kept!GetLocalVar(y.frame, y.index, 1)
  <2>1. 1 \in 0..Len(Stack) /\ x.kind = "Reference"
    BY <1>3, GivenOne, MeetsOperand DEF Paired
  <2>2. 1 \in 1..Len(Stack)
    BY <2>1
  <2>3. /\ x.frame \in DOMAIN m /\ heap[x.frame].kind = "Frame"
        /\ y.frame = m[x.frame] /\ y.index = x.index
    BY <2>1, <2>2, SameVariable
  <2> HIDE DEF x, y
  <2> QED
    BY <1>3, <2>1, <2>3, SameGetLocalVar
<1> QED
  BY <1>1, <1>2, <1>3

(* The first two operands, popped.                                         *)
LEMMA SameTwo ==
  ASSUME NEW m, Paired(m), 2 \in 0..Len(Stack)
  PROVE  /\ 1 \in 1..Len(Stack) /\ 2 \in 1..Len(Stack)
         /\ Known(m, Peek(1)) /\ Kept!Peek(1) = MovedPointer(m, Peek(1))
         /\ Known(m, Peek(2)) /\ Kept!Peek(2) = MovedPointer(m, Peek(2))
         /\ Copy(m, Operand(1), Kept!Operand(1)) /\ Copy(m, Operand(2), Kept!Operand(2))
<1>1. 1 \in 1..Len(Stack) /\ 2 \in 1..Len(Stack)
  BY Operands DEF Paired
<1> QED
  BY <1>1, SameOperands

LEMMA SameStoreReference ==
  ASSUME NEW m, Paired(m), StoreReference, Kept!StoreReference
  PROVE  SameNext
<1> DEFINE e == Fault(<<Is(1, "Reference"), Pop(2)>>)
           x == Operand(1)
           y == Kept!Operand(1)
<1>1. \/ Throw(e) /\ Kept!Throw(e)
      \/ /\ e = "none"
         /\ SetLocalVar(x.frame, x.index, Peek(2), 2)
         /\ Kept!SetLocalVar(y.frame, y.index, Kept!Peek(2), 2)
  BY SameFaults, SameAsking DEF StoreReference, Given, Kept!StoreReference, Kept!Given
<1>2. CASE Throw(e) /\ Kept!Throw(e)
  BY <1>2, SameThrow
<1>3. CASE /\ e = "none"
           /\ SetLocalVar(x.frame, x.index, Peek(2), 2)
           /\ Kept!SetLocalVar(y.frame, y.index, Kept!Peek(2), 2)
  <2>1. x.kind = "Reference" /\ 2 \in 0..Len(Stack)
    <3>1. Meets(Is(1, "Reference")) /\ Meets(Pop(2))
      BY <1>3, GivenTwo
    <3> QED
      BY <3>1, MeetsOperand DEF Paired
  <2>2. /\ x.frame \in DOMAIN m /\ heap[x.frame].kind = "Frame"
        /\ y.frame = m[x.frame] /\ y.index = x.index
    BY <2>1, SameTwo, SameVariable
  <2>3. Known(m, Peek(2)) /\ Kept!Peek(2) = MovedPointer(m, Peek(2))
    BY <2>1, SameTwo
  <2> HIDE DEF x, y
  <2>4. Kept!SetLocalVar(m[x.frame], x.index, MovedPointer(m, Peek(2)), 2)
    BY <1>3, <2>2, <2>3
  <2> QED
    BY <1>3, <2>1, <2>2, <2>3, <2>4, SameSetLocalVar
<1> QED
  BY <1>1, <1>2, <1>3

LEMMA SameAllocRecord ==
  ASSUME NEW m, Paired(m), AllocRecord, Kept!AllocRecord
  PROVE  SameNext
<1> DEFINE x == Record(<< >>)
<1>1. YieldNew(0, x) /\ Kept!YieldNew(0, x)
  BY SameConstructors DEF AllocRecord, Kept!AllocRecord
<1>2. Copy(m, x, x)
  BY DEF Copy, Record, AllKnown, Moved
<1> HIDE DEF x
<1> QED
  BY <1>1, <1>2, SameNamedFrames, SameYieldNew

LEMMA SameField ==
  ASSUME NEW m, Paired(m), NEW i \in 1..Len(Stack), Operand(i).kind = "Record", NEW k
  PROVE  /\ Known(m, GetField(Operand(i), k))
         /\ Kept!GetField(Kept!Operand(i), k) = MovedPointer(m, GetField(Operand(i), k))
<1> DEFINE x == Operand(i)
<1>1. AllKnown(m, x.map) /\ Kept!Operand(i) = Record(Moved(m, x.map))
  BY SameOperands DEF Copy
<1>2. Kept!Operand(i).map = Moved(m, x.map)
  BY <1>1 DEF Record
<1> HIDE DEF x
<1>3. CASE k \in DOMAIN x.map
  BY <1>1, <1>2, <1>3 DEF GetField, Kept!GetField, Moved, AllKnown, x
<1>4. CASE k \notin DOMAIN x.map
  <2>1. GetField(x, k) = none_ /\ Kept!GetField(Kept!Operand(i), k) = none_
    BY <1>2, <1>4, SameConstructors DEF GetField, Kept!GetField, Moved
  <2> QED
    BY <2>1 DEF Known, MovedPointer, none_, Static, x
<1> QED
  BY <1>3, <1>4

LEMMA SameFieldLoad ==
  ASSUME NEW m, Paired(m), NEW i, FieldLoad(i), Kept!FieldLoad(i)
  PROVE  SameNext
<1> DEFINE e == Fault(<<Is(1, "Record")>>)
           k == This.names[i + 1]
           p == GetField(Operand(1), k)
           q == Kept!GetField(Kept!Operand(1), k)
<1>1. \/ Throw(e) /\ Kept!Throw(e)
      \/ Throw("RuntimeException") /\ Kept!Throw("RuntimeException")
      \/ e = "none" /\ Yield(1, p) /\ Kept!Yield(1, q)
  BY SameFaults, SameAsking, SameFrames, SameHelpers
     DEF FieldLoad, Given, Within, Kept!FieldLoad, Kept!Given, Kept!Within
<1>2. CASE Throw(e) /\ Kept!Throw(e)
  BY <1>2, SameThrow
<1>3. CASE Throw("RuntimeException") /\ Kept!Throw("RuntimeException")
  BY <1>3, SameThrow
<1>4. CASE e = "none" /\ Yield(1, p) /\ Kept!Yield(1, q)
  <2>1. 1 \in 0..Len(Stack) /\ 1 \in 1..Len(Stack) /\ Operand(1).kind = "Record"
    BY <1>4, GivenOne, RecordOperand DEF Paired
  <2>2. Known(m, p) /\ q = MovedPointer(m, p)
    BY <2>1, SameField
  <2> HIDE DEF p, q
  <2> QED
    BY <1>4, <2>1, <2>2, SameYield
<1> QED
  BY <1>1, <1>2, <1>3, <1>4

LEMMA SameFieldStore ==
  ASSUME NEW m, Paired(m), NEW i, FieldStore(i), Kept!FieldStore(i)
  PROVE  SameNext
<1> DEFINE e == Fault(<<Pop(1), Is(2, "Record")>>)
           k == This.names[i + 1]
<1>1. \/ Throw(e) /\ Kept!Throw(e)
      \/ Throw("RuntimeException") /\ Kept!Throw("RuntimeException")
      \/ e = "none" /\ SetField(2, k, Peek(1)) /\ Kept!SetField(2, k, Kept!Peek(1))
  BY SameFaults, SameAsking, SameFrames, SameHelpers
     DEF FieldStore, Given, Within, Kept!FieldStore, Kept!Given, Kept!Within
<1>2. CASE Throw(e) /\ Kept!Throw(e)
  BY <1>2, SameThrow
<1>3. CASE Throw("RuntimeException") /\ Kept!Throw("RuntimeException")
  BY <1>3, SameThrow
<1>4. CASE e = "none" /\ SetField(2, k, Peek(1)) /\ Kept!SetField(2, k, Kept!Peek(1))
  <2>1. 2 \in 0..Len(Stack) /\ 2 \in 1..Len(Stack) /\ Operand(2).kind = "Record"
    BY <1>4, GivenTwo, RecordOperand DEF Paired
  <2>2. Known(m, Peek(1)) /\ Kept!Peek(1) = MovedPointer(m, Peek(1))
    BY <2>1, SameTwo
  <2> HIDE DEF k
  <2> QED
    BY <1>4, <2>1, <2>2, SameSetField
<1> QED
  BY <1>1, <1>2, <1>3, <1>4

LEMMA SameIndexLoad ==
  ASSUME NEW m, Paired(m), IndexLoad, Kept!IndexLoad
  PROVE  SameNext
<1> DEFINE first == Fault(<<Pop(1)>>)
           e == Fault(<<Is(2, "Record")>>)
           t == toString(Peek(1))
           p == GetField(Operand(2), t.text)
           q == Kept!GetField(Kept!Operand(2), t.text)
<1>1. CASE first # "none"
  BY <1>1, SameFaults, SameAsking, SameThrow DEF IndexLoad, Given, Kept!IndexLoad, Kept!Given
<1>2. CASE first = "none"
  <2>1. Kept!toString(Kept!Peek(1)) = t
    BY <1>2, SamePopOne, SameText
  <2> HIDE DEF t
  <2>2. \/ Throw(t.fault) /\ Kept!Throw(t.fault)
        \/ Throw(e) /\ Kept!Throw(e)
        \/ e = "none" /\ Yield(2, p) /\ Kept!Yield(2, q)
    BY <1>2, <2>1, SameFaults, SameAsking
       DEF IndexLoad, Given, Printing, Kept!IndexLoad, Kept!Given, Kept!Printing, t
  <2>3. CASE Throw(t.fault) /\ Kept!Throw(t.fault)
    BY <2>3, SameThrow
  <2>4. CASE Throw(e) /\ Kept!Throw(e)
    BY <2>4, SameThrow
  <2>5. CASE e = "none" /\ Yield(2, p) /\ Kept!Yield(2, q)
    <3>1. 2 \in 0..Len(Stack) /\ 2 \in 1..Len(Stack) /\ Operand(2).kind = "Record"
      BY <2>5, GivenOne, RecordOperand DEF Paired
    <3>2. Known(m, p) /\ q = MovedPointer(m, p)
      BY <3>1, SameField
    <3> HIDE DEF p, q
    <3> QED
      BY <2>5, <3>1, <3>2, SameYield
  <2> QED
    BY <2>2, <2>3, <2>4, <2>5
<1> QED
  BY <1>1, <1>2

LEMMA SameIndexStore ==
  ASSUME NEW m, Paired(m), IndexStore, Kept!IndexStore
  PROVE  SameNext
<1> DEFINE first == Fault(<<Pop(1), Pop(2)>>)
           e == Fault(<<Is(3, "Record")>>)
           t == toString(Peek(2))
<1>1. CASE first # "none"
  BY <1>1, SameFaults, SameAsking, SameThrow DEF IndexStore, Given, Kept!IndexStore, Kept!Given
<1>2. CASE first = "none"
  <2>1. 2 \in 0..Len(Stack)
    BY <1>2, GivenTwo, MeetsOperand DEF Paired
  <2>2. Kept!toString(Kept!Peek(2)) = t
    BY <2>1, SameTwo, SameText
  <2> HIDE DEF t
  <2>3. \/ Throw(t.fault) /\ Kept!Throw(t.fault)
        \/ Throw(e) /\ Kept!Throw(e)
        \/ e = "none" /\ SetField(3, t.text, Peek(1)) /\ Kept!SetField(3, t.text, Kept!Peek(1))
    BY <1>2, <2>2, SameFaults, SameAsking
       DEF IndexStore, Given, Printing, Kept!IndexStore, Kept!Given, Kept!Printing, t
  <2>4. CASE Throw(t.fault) /\ Kept!Throw(t.fault)
    BY <2>4, SameThrow
  <2>5. CASE Throw(e) /\ Kept!Throw(e)
    BY <2>5, SameThrow
  <2>6. CASE e = "none" /\ SetField(3, t.text, Peek(1)) /\ Kept!SetField(3, t.text, Kept!Peek(1))
    <3>1. 3 \in 1..Len(Stack) /\ Operand(3).kind = "Record"
      BY <2>6, GivenOne, RecordOperand DEF Paired
    <3>2. Known(m, Peek(1)) /\ Kept!Peek(1) = MovedPointer(m, Peek(1))
      BY <2>1, SameTwo
    <3> QED
      BY <2>6, <3>1, <3>2, SameSetField
  <2> QED
    BY <2>3, <2>4, <2>5, <2>6
<1> QED
  BY <1>1, <1>2

LEMMA SameAllocClosure ==
  ASSUME NEW m, Paired(m), NEW n \in Nat, AllocClosure(n), Kept!AllocClosure(n)
  PROVE  SameNext
<1> DEFINE asked == [i \in 1..n |-> Is(i, "Reference")] \o <<Is(n + 1, "Function")>>
           free == [i \in 1..n |-> Peek(n + 1 - i)]
           kept_free == [i \in 1..n |-> Kept!Peek(n + 1 - i)]
           x == Closure(Operand(n + 1).function, free)
           y == Closure(Kept!Operand(n + 1).function, kept_free)
<1>1. /\ DOMAIN asked = 1..(n + 1) /\ asked[n + 1] = Is(n + 1, "Function")
      /\ \A i \in 1..n : asked[i] = Is(i, "Reference")
  OBVIOUS
<1>2. Kept!Fault(asked) = Fault(asked)
  <2> HIDE DEF asked
  <2>1. \A j \in 1..(n + 1) : asked[j][1] = j
    BY <1>1 DEF Is
  <2> QED
    BY <1>1, <2>1, SameFault
<1>3. Kept!Given(asked, Kept!YieldNew(n + 1, y))
  BY SameAsking, SameConstructors DEF Kept!AllocClosure
<1>4. Given(asked, YieldNew(n + 1, x))
  BY DEF AllocClosure
<1> HIDE DEF asked, x, y
<1>5. CASE Fault(asked) # "none"
  BY <1>2, <1>3, <1>4, <1>5, SameThrow DEF Given, Kept!Given
<1>6. CASE Fault(asked) = "none"
  <2>1. Meets(Is(n + 1, "Function"))
    BY <1>1, <1>6, FaultOutcome
  <2>2. n + 1 \in 0..Len(Stack) /\ n + 1 \in 1..Len(Stack) /\ Operand(n + 1).kind = "Function"
    BY <2>1, MeetsOperand DEF Paired
  <2>3. Kept!Operand(n + 1) = Operand(n + 1)
    BY <2>2, SameOperands DEF Copy
  <2>4. \A i \in 1..n : n + 1 - i \in 1..Len(Stack)
    BY <2>2, Operands DEF Paired
  <2>5. AllKnown(m, free) /\ kept_free = Moved(m, free)
    BY <2>4, SameOperands DEF AllKnown, Moved
  <2>6. Copy(m, x, y)
    BY <2>3, <2>5 DEF Copy, Closure, x, y
  <2>7. YieldNew(n + 1, x) /\ Kept!YieldNew(n + 1, y)
    BY <1>2, <1>3, <1>4, <1>6 DEF Given, Kept!Given
  <2> QED
    BY <2>2, <2>6, <2>7, SameYieldNew
<1> QED
  BY <1>5, <1>6

-----------------------------------------------------------------------------
(* Arithmetic, comparison and logic see the same values.                   *)

LEMMA SamePlain ==
  ASSUME NEW m, NEW x, NEW y, Copy(m, x, y),
         x.kind \in {"Integer", "String", "Boolean", "None", "Function"}
  PROVE  y = x
BY DEF Copy

LEMMA PlainCopy ==
  ASSUME NEW m, NEW v
  PROVE  Copy(m, Integer(v), Integer(v)) /\ Copy(m, String(v), String(v))
BY DEF Copy, Integer, String

LEMMA SameIntegers ==
  ASSUME NEW m, Paired(m), Fault(Integers) = "none"
  PROVE  /\ 2 \in 0..Len(Stack)
         /\ Kept!Operand(1) = Operand(1) /\ Kept!Operand(2) = Operand(2)
<1>1. Meets(Is(1, "Integer")) /\ Meets(Is(2, "Integer"))
  BY GivenTwo DEF Integers
<1>2. 2 \in 0..Len(Stack) /\ Operand(1).kind = "Integer" /\ Operand(2).kind = "Integer"
  BY <1>1, MeetsOperand DEF Paired
<1> QED
  BY <1>2, SameTwo, SamePlain

LEMMA SameSub ==
  ASSUME NEW m, Paired(m), Sub, Kept!Sub
  PROVE  SameNext
<1>1. CASE Fault(Integers) # "none"
  BY <1>1, SameFaults, SameAsking, SameThrow DEF Sub, Given, Kept!Sub, Kept!Given
<1>2. CASE Fault(Integers) = "none"
  <2> DEFINE x == Integer(Wrap(Operand(2).int - Operand(1).int))
  <2>1. YieldNew(2, x) /\ Kept!YieldNew(2, x)
    BY <1>2, SameFaults, SameAsking, SameIntegers, SameHelpers, SameConstructors
       DEF Sub, Given, Kept!Sub, Kept!Given
  <2>2. Copy(m, x, x)
    BY PlainCopy
  <2> HIDE DEF x
  <2> QED
    BY <1>2, <2>1, <2>2, SameIntegers, SameYieldNew
<1> QED
  BY <1>1, <1>2

LEMMA SameMul ==
  ASSUME NEW m, Paired(m), Mul, Kept!Mul
  PROVE  SameNext
<1>1. CASE Fault(Integers) # "none"
  BY <1>1, SameFaults, SameAsking, SameThrow DEF Mul, Given, Kept!Mul, Kept!Given
<1>2. CASE Fault(Integers) = "none"
  <2> DEFINE x == Integer(Wrap(Operand(2).int * Operand(1).int))
  <2>1. YieldNew(2, x) /\ Kept!YieldNew(2, x)
    BY <1>2, SameFaults, SameAsking, SameIntegers, SameHelpers, SameConstructors
       DEF Mul, Given, Kept!Mul, Kept!Given
  <2>2. Copy(m, x, x)
    BY PlainCopy
  <2> HIDE DEF x
  <2> QED
    BY <1>2, <2>1, <2>2, SameIntegers, SameYieldNew
<1> QED
  BY <1>1, <1>2

LEMMA SameDiv ==
  ASSUME NEW m, Paired(m), Div, Kept!Div
  PROVE  SameNext
<1>1. CASE Fault(Integers) # "none"
  BY <1>1, SameFaults, SameAsking, SameThrow DEF Div, Given, Kept!Div, Kept!Given
<1>2. CASE Fault(Integers) = "none"
  <2> DEFINE x == Integer(Quotient(Operand(2).int, Operand(1).int))
  <2>1. \/ Throw("IllegalArithmeticException") /\ Kept!Throw("IllegalArithmeticException")
        \/ Throw("trap") /\ Kept!Throw("trap")
        \/ YieldNew(2, x) /\ Kept!YieldNew(2, x)
    BY <1>2, SameFaults, SameAsking, SameIntegers, SameHelpers, SameConstructors
       DEF Div, Given, Kept!Div, Kept!Given
  <2>2. Copy(m, x, x)
    BY PlainCopy
  <2> HIDE DEF x
  <2> QED
    BY <1>2, <2>1, <2>2, SameIntegers, SameThrow, SameYieldNew
<1> QED
  BY <1>1, <1>2

LEMMA SameNeg ==
  ASSUME NEW m, Paired(m), Neg, Kept!Neg
  PROVE  SameNext
<1> DEFINE e == Fault(<<Is(1, "Integer")>>)
<1>1. CASE e # "none"
  BY <1>1, SameFaults, SameAsking, SameThrow DEF Neg, Given, Kept!Neg, Kept!Given
<1>2. CASE e = "none"
  <2> DEFINE x == Integer(Wrap(-Operand(1).int))
  <2>1. 1 \in 0..Len(Stack) /\ Operand(1).kind = "Integer"
    BY <1>2, GivenOne, MeetsOperand DEF Paired
  <2>2. 1 \in 1..Len(Stack)
    BY <2>1
  <2>3. Kept!Operand(1) = Operand(1)
    BY <2>1, <2>2, SameOperands, SamePlain
  <2>4. YieldNew(1, x) /\ Kept!YieldNew(1, x)
    BY <1>2, <2>3, SameFaults, SameAsking, SameHelpers, SameConstructors
       DEF Neg, Given, Kept!Neg, Kept!Given
  <2>5. Copy(m, x, x)
    BY PlainCopy
  <2> HIDE DEF x
  <2> QED
    BY <2>1, <2>4, <2>5, SameYieldNew
<1> QED
  BY <1>1, <1>2

(* Two operands of which nothing but their types is asked.                 *)
LEMMA SameTyped ==
  ASSUME NEW m, Paired(m), Fault(<<Pop(1), Pop(2), Typed(2), Typed(1)>>) = "none"
  PROVE  /\ 2 \in 0..Len(Stack)
         /\ Kept!Operand(1).kind = Operand(1).kind /\ Kept!Operand(2).kind = Operand(2).kind
         /\ Operand(1).kind \in {"Integer", "String", "Boolean", "None", "Function"} =>
              Kept!Operand(1) = Operand(1)
         /\ Operand(2).kind \in {"Integer", "String", "Boolean", "None", "Function"} =>
              Kept!Operand(2) = Operand(2)
         /\ Kept!toString(Kept!Peek(1)) = toString(Peek(1))
         /\ Kept!toString(Kept!Peek(2)) = toString(Peek(2))
<1>1. 2 \in 0..Len(Stack)
  BY GivenFour, MeetsOperand DEF Paired
<1>2. /\ 1 \in 1..Len(Stack) /\ 2 \in 1..Len(Stack)
      /\ Copy(m, Operand(1), Kept!Operand(1)) /\ Copy(m, Operand(2), Kept!Operand(2))
  BY <1>1, SameTwo
<1>3. /\ Kept!toString(Kept!Peek(1)) = toString(Peek(1))
      /\ Kept!toString(Kept!Peek(2)) = toString(Peek(2))
  BY <1>2, SameText
<1> QED
  BY <1>1, <1>2, <1>3, SamePlain DEF Copy

LEMMA SameAdd ==
  ASSUME NEW m, Paired(m), Add, Kept!Add
  PROVE  SameNext
<1> DEFINE e == Fault(<<Pop(1), Pop(2), Typed(2), Typed(1)>>)
           s == toString(Peek(2))
           t == toString(Peek(1))
           x == Integer(Wrap(Operand(2).int + Operand(1).int))
           y == String(s.text \o t.text)
<1>1. CASE e # "none"
  BY <1>1, SameFaults, SameAsking, SameThrow DEF Add, Given, Kept!Add, Kept!Given
<1>2. CASE e = "none"
  <2>1. Kept!toString(Kept!Peek(2)) = s /\ Kept!toString(Kept!Peek(1)) = t
    BY <1>2, SameTyped
  <2>2. CASE {Operand(1).kind, Operand(2).kind} = {"Integer"}
    <3>1. Operand(1).kind = "Integer" /\ Operand(2).kind = "Integer"
      BY <2>2
    <3>2. YieldNew(2, x)
      BY <1>2, <2>2 DEF Add, Given
    <3>3. Kept!YieldNew(2, x)
      BY <1>2, <2>2, <3>1, SameFaults, SameAsking, SameTyped, SameHelpers, SameConstructors
         DEF Kept!Add, Kept!Given
    <3>4. Copy(m, x, x)
      BY PlainCopy
    <3> HIDE DEF x
    <3> QED
      BY <1>2, <3>2, <3>3, <3>4, SameTyped, SameYieldNew
  <2>3. CASE /\ {Operand(1).kind, Operand(2).kind} # {"Integer"}
             /\ "String" \in {Operand(1).kind, Operand(2).kind}
    <3> HIDE DEF s, t
    <3>1. Printing(Peek(2), Printing(Peek(1), YieldNew(2, y)))
      BY <1>2, <2>3 DEF Add, Given, s, t
    <3>2. Kept!Printing(Kept!Peek(2), Kept!Printing(Kept!Peek(1), Kept!YieldNew(2, y)))
      <4>1. {Kept!Operand(1).kind, Kept!Operand(2).kind}
              = {Operand(1).kind, Operand(2).kind}
        BY <1>2, SameTyped
      <4> QED
        BY <1>2, <2>1, <2>3, <4>1, SameFaults, SameAsking, SameConstructors
           DEF Kept!Add, Kept!Given
    <3> HIDE DEF y
    <3>3. \/ Throw(s.fault) /\ Kept!Throw(s.fault)
          \/ Throw(t.fault) /\ Kept!Throw(t.fault)
          \/ YieldNew(2, y) /\ Kept!YieldNew(2, y)
      BY <2>1, <3>1, <3>2 DEF Printing, Kept!Printing, s, t
    <3>4. Copy(m, y, y)
      BY PlainCopy DEF y
    <3> QED
      BY <1>2, <3>3, <3>4, SameTyped, SameThrow, SameYieldNew
  <2>4. CASE /\ {Operand(1).kind, Operand(2).kind} # {"Integer"}
             /\ "String" \notin {Operand(1).kind, Operand(2).kind}
    <3>1. {Kept!Operand(1).kind, Kept!Operand(2).kind} = {Operand(1).kind, Operand(2).kind}
      BY <1>2, SameTyped
    <3>2. Throw("IllegalCastException") /\ Kept!Throw("IllegalCastException")
      BY <1>2, <2>4, <3>1, SameFaults, SameAsking DEF Add, Given, Kept!Add, Kept!Given
    <3> QED
      BY <3>2, SameThrow
  <2> QED
    BY <2>2, <2>3, <2>4
<1> QED
  BY <1>1, <1>2

LEMMA SameYieldTruth ==
  ASSUME NEW m, Paired(m), NEW k \in 0..Len(Stack), NEW b,
         Yield(k, Truth(b)), Kept!Yield(k, Truth(b))
  PROVE  SameNext
BY SameYieldStatic DEF Truth

LEMMA SameGt ==
  ASSUME NEW m, Paired(m), Gt, Kept!Gt
  PROVE  SameNext
<1>1. CASE Fault(Integers) # "none"
  BY <1>1, SameFaults, SameAsking, SameThrow DEF Gt, Given, Kept!Gt, Kept!Given
<1>2. CASE Fault(Integers) = "none"
  <2> DEFINE b == Operand(2).int > Operand(1).int
  <2>1. Yield(2, Truth(b)) /\ Kept!Yield(2, Truth(b))
    BY <1>2, SameFaults, SameAsking, SameIntegers, SameConstructors
       DEF Gt, Given, Kept!Gt, Kept!Given
  <2> HIDE DEF b
  <2> QED
    BY <1>2, <2>1, SameIntegers, SameYieldTruth
<1> QED
  BY <1>1, <1>2

LEMMA SameGeq ==
  ASSUME NEW m, Paired(m), Geq, Kept!Geq
  PROVE  SameNext
<1>1. CASE Fault(Integers) # "none"
  BY <1>1, SameFaults, SameAsking, SameThrow DEF Geq, Given, Kept!Geq, Kept!Given
<1>2. CASE Fault(Integers) = "none"
  <2> DEFINE b == Operand(2).int >= Operand(1).int
  <2>1. Yield(2, Truth(b)) /\ Kept!Yield(2, Truth(b))
    BY <1>2, SameFaults, SameAsking, SameIntegers, SameConstructors
       DEF Geq, Given, Kept!Geq, Kept!Given
  <2> HIDE DEF b
  <2> QED
    BY <1>2, <2>1, SameIntegers, SameYieldTruth
<1> QED
  BY <1>1, <1>2

(* Records are the same in both or in neither: the relation is one to one. *)
LEMMA SameEq ==
  ASSUME NEW m, Paired(m), Eq, Kept!Eq
  PROVE  SameNext
<1> DEFINE e == Fault(<<Pop(1), Pop(2), Typed(2), Typed(1)>>)
           plain == {"Integer", "String", "Boolean", "None"}
           equal == CASE Operand(1).kind # Operand(2).kind -> FALSE
                      [] Operand(1).kind = "Record" -> Peek(1) = Peek(2)
                      [] Operand(1).kind \in plain -> Operand(1) = Operand(2)
                      [] OTHER -> FALSE
           kept_equal == CASE Kept!Operand(1).kind # Kept!Operand(2).kind -> FALSE
                           [] Kept!Operand(1).kind = "Record" -> Kept!Peek(1) = Kept!Peek(2)
                           [] Kept!Operand(1).kind \in plain -> Kept!Operand(1) = Kept!Operand(2)
                           [] OTHER -> FALSE
<1>1. CASE e # "none"
  BY <1>1, SameFaults, SameAsking, SameThrow DEF Eq, Given, Kept!Eq, Kept!Given
<1>2. CASE e = "none"
  <2>1. Yield(2, Truth(equal)) /\ Kept!Yield(2, Truth(kept_equal))
    BY <1>2, SameFaults, SameAsking, SameConstructors DEF Eq, Given, Kept!Eq, Kept!Given
  <2>2. /\ 1 \in 1..Len(Stack) /\ 2 \in 1..Len(Stack)
        /\ Kept!Operand(1).kind = Operand(1).kind /\ Kept!Operand(2).kind = Operand(2).kind
    BY <1>2, SameTyped, SameTwo
  <2>3. ASSUME Operand(1).kind = "Record", Operand(2).kind = "Record"
        PROVE  (Kept!Peek(1) = Kept!Peek(2)) <=> (Peek(1) = Peek(2))
    <3> DEFINE a == Peek(1)[2]
               b == Peek(2)[2]
    <3>1. /\ a \in DOMAIN m /\ Peek(1) = Heap(a) /\ Kept!Peek(1) = Heap(m[a])
          /\ b \in DOMAIN m /\ Peek(2) = Heap(b) /\ Kept!Peek(2) = Heap(m[b])
      BY <2>2, <2>3, SameHeapOperand
    <3>2. m[a] = m[b] <=> a = b
      BY <3>1 DEF Paired, Twins
    <3> HIDE DEF a, b
    <3> QED
      BY <3>1, <3>2 DEF Heap
  <2>4. ASSUME Operand(1).kind \in plain, Operand(2).kind = Operand(1).kind
        PROVE  Kept!Operand(1) = Operand(1) /\ Kept!Operand(2) = Operand(2)
    BY <1>2, <2>4, SameTyped
  <2>5. kept_equal = equal
    <3>1. CASE Operand(1).kind # Operand(2).kind
      <4>1. Peek(1) # Peek(2) /\ Operand(1) # Operand(2)
        BY <3>1 DEF Operand
      <4>2. Kept!Peek(1) # Kept!Peek(2) /\ Kept!Operand(1) # Kept!Operand(2)
        BY <2>2, <3>1 DEF Kept!Operand
      <4> QED
        BY <2>2, <3>1, <4>1, <4>2
    <3>2. CASE Operand(1).kind = Operand(2).kind /\ Operand(1).kind = "Record"
      BY <2>2, <2>3, <3>2
    <3>3. CASE Operand(1).kind = Operand(2).kind /\ Operand(1).kind \in plain
      BY <2>2, <2>4, <3>3
    <3>4. CASE /\ Operand(1).kind = Operand(2).kind /\ Operand(1).kind # "Record"
               /\ Operand(1).kind \notin plain
      BY <2>2, <3>4
    <3> QED
      BY <3>1, <3>2, <3>3, <3>4
  <2> HIDE DEF equal, kept_equal
  <2> QED
    BY <1>2, <2>1, <2>5, SameTyped, SameYieldTruth
<1> QED
  BY <1>1, <1>2

LEMMA SameBooleans ==
  ASSUME NEW m, Paired(m), Fault(Booleans) = "none"
  PROVE  /\ 2 \in 0..Len(Stack)
         /\ Kept!Operand(1) = Operand(1) /\ Kept!Operand(2) = Operand(2)
<1>1. Meets(Is(1, "Boolean")) /\ Meets(Is(2, "Boolean"))
  BY GivenFour DEF Booleans
<1>2. 2 \in 0..Len(Stack) /\ Operand(1).kind = "Boolean" /\ Operand(2).kind = "Boolean"
  BY <1>1, MeetsOperand DEF Paired
<1> QED
  BY <1>2, SameTwo, SamePlain

LEMMA SameAnd ==
  ASSUME NEW m, Paired(m), And, Kept!And
  PROVE  SameNext
<1>1. CASE Fault(Booleans) # "none"
  BY <1>1, SameFaults, SameAsking, SameThrow DEF And, Given, Kept!And, Kept!Given
<1>2. CASE Fault(Booleans) = "none"
  <2> DEFINE b == Operand(2).bool /\ Operand(1).bool
  <2>1. Yield(2, Truth(b)) /\ Kept!Yield(2, Truth(b))
    BY <1>2, SameFaults, SameAsking, SameBooleans, SameConstructors
       DEF And, Given, Kept!And, Kept!Given
  <2> HIDE DEF b
  <2> QED
    BY <1>2, <2>1, SameBooleans, SameYieldTruth
<1> QED
  BY <1>1, <1>2

LEMMA SameOr ==
  ASSUME NEW m, Paired(m), Or, Kept!Or
  PROVE  SameNext
<1>1. CASE Fault(Booleans) # "none"
  BY <1>1, SameFaults, SameAsking, SameThrow DEF Or, Given, Kept!Or, Kept!Given
<1>2. CASE Fault(Booleans) = "none"
  <2> DEFINE b == Operand(2).bool \/ Operand(1).bool
  <2>1. Yield(2, Truth(b)) /\ Kept!Yield(2, Truth(b))
    BY <1>2, SameFaults, SameAsking, SameBooleans, SameConstructors
       DEF Or, Given, Kept!Or, Kept!Given
  <2> HIDE DEF b
  <2> QED
    BY <1>2, <2>1, SameBooleans, SameYieldTruth
<1> QED
  BY <1>1, <1>2

(* The boolean on top.                                                     *)
LEMMA SameBoolean ==
  ASSUME NEW m, Paired(m), Fault(<<Is(1, "Boolean")>>) = "none"
  PROVE  1 \in 0..Len(Stack) /\ Kept!Operand(1) = Operand(1)
<1>1. 1 \in 0..Len(Stack) /\ Operand(1).kind = "Boolean"
  BY GivenOne, MeetsOperand DEF Paired
<1>2. 1 \in 1..Len(Stack)
  BY <1>1
<1> QED
  BY <1>1, <1>2, SameOperands, SamePlain

LEMMA SameNot ==
  ASSUME NEW m, Paired(m), Not, Kept!Not
  PROVE  SameNext
<1> DEFINE e == Fault(<<Is(1, "Boolean")>>)
<1>1. CASE e # "none"
  BY <1>1, SameFaults, SameAsking, SameThrow DEF Not, Given, Kept!Not, Kept!Given
<1>2. CASE e = "none"
  <2> DEFINE b == ~Operand(1).bool
  <2>1. Yield(1, Truth(b)) /\ Kept!Yield(1, Truth(b))
    BY <1>2, SameFaults, SameAsking, SameBoolean, SameConstructors
       DEF Not, Given, Kept!Not, Kept!Given
  <2> HIDE DEF b
  <2> QED
    BY <1>2, <2>1, SameBoolean, SameYieldTruth
<1> QED
  BY <1>1, <1>2

-----------------------------------------------------------------------------
(* The stack, jumps and calls.                                             *)

LEMMA SameDup ==
  ASSUME NEW m, Paired(m), Dup, Kept!Dup
  PROVE  SameNext
<1>1. CASE Fault(<<Pop(1)>>) # "none"
  BY <1>1, SameFaults, SameAsking, SameThrow DEF Dup, Given, Kept!Dup, Kept!Given
<1>2. CASE Fault(<<Pop(1)>>) = "none"
  <2> DEFINE results == <<Peek(1), Peek(1)>>
  <2>1. /\ Continue(Replace(1, results))
        /\ Kept!Continue(Kept!Replace(1, <<Kept!Peek(1), Kept!Peek(1)>>))
    BY <1>2, SameFaults, SameAsking DEF Dup, Given, Kept!Dup, Kept!Given
  <2>2. /\ AllKnown(m, results) /\ results \in Seq({Peek(1)})
        /\ <<Kept!Peek(1), Kept!Peek(1)>> = Moved(m, results)
    BY <1>2, SamePopOne DEF AllKnown, Moved
  <2> HIDE DEF results
  <2> QED
    BY <1>2, <2>1, <2>2, SamePopOne, SameYields
<1> QED
  BY <1>1, <1>2

LEMMA SameSwap ==
  ASSUME NEW m, Paired(m), Swap, Kept!Swap
  PROVE  SameNext
<1> DEFINE e == Fault(<<Pop(1), Pop(2)>>)
<1>1. CASE e # "none"
  BY <1>1, SameFaults, SameAsking, SameThrow DEF Swap, Given, Kept!Swap, Kept!Given
<1>2. CASE e = "none"
  <2> DEFINE results == <<Peek(1), Peek(2)>>
  <2>1. /\ Continue(Replace(2, results))
        /\ Kept!Continue(Kept!Replace(2, <<Kept!Peek(1), Kept!Peek(2)>>))
    BY <1>2, SameFaults, SameAsking DEF Swap, Given, Kept!Swap, Kept!Given
  <2>2. 2 \in 0..Len(Stack)
    BY <1>2, GivenTwo, MeetsOperand DEF Paired
  <2>3. /\ AllKnown(m, results) /\ results \in Seq({Peek(1), Peek(2)})
        /\ <<Kept!Peek(1), Kept!Peek(2)>> = Moved(m, results)
    BY <2>2, SameTwo DEF AllKnown, Moved
  <2> HIDE DEF results
  <2> QED
    BY <2>1, <2>2, <2>3, SameYields
<1> QED
  BY <1>1, <1>2

LEMMA MovedNothing ==
  ASSUME NEW m
  PROVE  << >> \in Seq({}) /\ AllKnown(m, << >>) /\ Moved(m, << >>) = << >>
BY DEF AllKnown, Moved

LEMMA SameDropped ==
  ASSUME NEW m, Paired(m), NEW k \in 0..Len(Stack)
  PROVE  /\ Continue(Replace(k, << >>)) /\ Kept!Continue(Kept!Replace(k, << >>)) => SameNext
         /\ \A target : Jump(Replace(k, << >>), target)
                          /\ Kept!Jump(Kept!Replace(k, << >>), target) => SameNext
<1> DEFINE results == << >>
           moved == Moved(m, results)
<1>1. results \in Seq(Nat) /\ AllKnown(m, results) /\ moved = << >>
  BY MovedNothing
<1> HIDE DEF results
<1>2. /\ Continue(Replace(k, results)) /\ Kept!Continue(Kept!Replace(k, moved)) => SameNext
      /\ \A target : Jump(Replace(k, results), target)
                       /\ Kept!Jump(Kept!Replace(k, moved), target) => SameNext
  BY <1>1, SameYields
<1> HIDE DEF moved
<1> QED
  BY <1>1, <1>2 DEF results

LEMMA SamePopOperand ==
  ASSUME NEW m, Paired(m), PopOperand, Kept!PopOperand
  PROVE  SameNext
<1>1. CASE Fault(<<Pop(1)>>) # "none"
  BY <1>1, SameFaults, SameAsking, SameThrow
     DEF PopOperand, Given, Kept!PopOperand, Kept!Given
<1>2. CASE Fault(<<Pop(1)>>) = "none"
  <2>1. Continue(Replace(1, << >>)) /\ Kept!Continue(Kept!Replace(1, << >>))
    BY <1>2, SameFaults, SameAsking DEF PopOperand, Given, Kept!PopOperand, Kept!Given
  <2> QED
    BY <1>2, <2>1, SamePopOne, SameDropped
<1> QED
  BY <1>1, <1>2

(* The program goes on elsewhere, the heap is as it was.                   *)
LEMMA SameStay ==
  ASSUME NEW m, Paired(m), NEW target, Jump(heap, target), Kept!Jump(kept_heap, target)
  PROVE  SameNext
BY SameJump DEF Paired

LEMMA SameGoto ==
  ASSUME NEW m, Paired(m), NEW n, Goto(n), Kept!Goto(n)
  PROVE  SameNext
<1> DEFINE target == instruction_pointer_ + n
<1>1. Jump(heap, target) /\ Kept!Jump(kept_heap, target)
  BY DEF Goto, Kept!Goto, Paired, SameControl
<1> HIDE DEF target
<1> QED
  BY <1>1, SameStay

LEMMA SameIf ==
  ASSUME NEW m, Paired(m), NEW n, If(n), Kept!If(n)
  PROVE  SameNext
<1> DEFINE e == Fault(<<Is(1, "Boolean")>>)
           target == instruction_pointer_ + (IF Operand(1).bool THEN n ELSE 1)
<1>1. CASE e # "none"
  BY <1>1, SameFaults, SameAsking, SameThrow DEF If, Given, Kept!If, Kept!Given
<1>2. CASE e = "none"
  <2>1. kept_instruction_pointer = instruction_pointer_
    BY DEF Paired, SameControl
  <2>2. Jump(Replace(1, << >>), target) /\ Kept!Jump(Kept!Replace(1, << >>), target)
    BY <1>2, <2>1, SameFaults, SameAsking, SameBoolean DEF If, Given, Kept!If, Kept!Given
  <2> HIDE DEF target
  <2> QED
    BY <1>2, <2>2, SameBoolean, SameDropped
<1> QED
  BY <1>1, <1>2

LEMMA SameReturn ==
  ASSUME NEW m, Paired(m), Return, Kept!Return
  PROVE  SameNext
<1>1. CASE Fault(<<Pop(1)>>) # "none"
  BY <1>1, SameFaults, SameAsking, SameThrow DEF Return, Given, Kept!Return, Kept!Given
<1>2. CASE Fault(<<Pop(1)>>) = "none"
  <2> DEFINE target == Len(This.instructions) + 1
  <2>1. Jump(heap, target) /\ Kept!Jump(kept_heap, target)
    BY <1>2, SameFaults, SameAsking, SameFrames DEF Return, Given, Kept!Return, Kept!Given
  <2> HIDE DEF target
  <2> QED
    BY <2>1, SameStay
<1> QED
  BY <1>1, <1>2

LEMMA SamePrint ==
  ASSUME NEW m, Paired(m), 1 + 1 \in 1..Len(Stack), Operand(1 + 1).kind = "Closure",
         print, Kept!print
  PROVE  SameNext
<1> DEFINE t == toString(Peek(1))
           text == <<t.text>>
<1>1. Kept!toString(Kept!Peek(1)) = t
  <2>1. 1 \in 1..Len(Stack)
    BY Operands DEF Paired
  <2> QED
    BY <2>1, SameText
<1> HIDE DEF t
<1>2. \/ Throw(t.fault) /\ Kept!Throw(t.fault)
      \/ Answer("print", 1, none_, heap, text) /\ Kept!Answer("print", 1, none_, kept_heap, text)
  BY <1>1, SameConstructors DEF print, Printing, Kept!print, Kept!Printing, t
<1> HIDE DEF text
<1>3. CASE Throw(t.fault) /\ Kept!Throw(t.fault)
  BY <1>3, SameThrow
<1>4. CASE /\ Answer("print", 1, none_, heap, text)
           /\ Kept!Answer("print", 1, none_, kept_heap, text)
  <2>1. Room(1)
    BY SameCardinality, FreeFinite, KeptFresh DEF print, Kept!print, Room
  <2>2. Known(GrownBy(m, 1), none_) /\ none_ = MovedPointer(GrownBy(m, 1), none_)
    BY DEF Known, MovedPointer, none_, Static
  <2>3. DOMAIN heap = Address /\ DOMAIN kept_heap = Address
    BY DEF Paired, Twins, IInv, TypeOK
  <2>4. 1 \in 1..1 /\ 2..1 = {} /\ 1 \in Nat /\ "print" \in DOMAIN Natives
    BY DEF Natives
  <2> QED
    BY <1>4, <2>1, <2>2, <2>3, <2>4, SameAnswer
<1> QED
  BY <1>2, <1>3, <1>4

(* The same word is typed in both.                                         *)
LEMMA SameInput ==
  ASSUME NEW m, Paired(m), 0 + 1 \in 1..Len(Stack), Operand(0 + 1).kind = "Closure",
         NEW word, input({word}), Kept!input({word})
  PROVE  SameNext
<1> DEFINE x == String(word)
<1>1. AnswerNew("input", 0, x) /\ Kept!AnswerNew("input", 0, x)
  BY SameConstructors DEF input, Kept!input
<1>2. x.kind \in {"Integer", "String"}
  BY DEF String
<1>3. 0 \in Nat /\ "input" \in DOMAIN Natives
  BY DEF Natives
<1> HIDE DEF x
<1> QED
  BY <1>1, <1>2, <1>3, SameAnswerNew

LEMMA SameIntcast ==
  ASSUME NEW m, Paired(m), 1 + 1 \in 1..Len(Stack), Operand(1 + 1).kind = "Closure",
         intcast, Kept!intcast
  PROVE  SameNext
<1> DEFINE e == Fault(<<Is(1, "String")>>)
           text == Operand(1).string
           number == IF text \in DOMAIN Atoi THEN Atoi[text] ELSE 0
           x == Integer(number)
<1>1. CASE e # "none"
  BY <1>1, SameFaults, SameAsking, SameThrow DEF intcast, Given, Kept!intcast, Kept!Given
<1>2. CASE e = "none"
  <2>1. 1 \in 1..Len(Stack) /\ Operand(1).kind = "String"
    BY <1>2, GivenOne, MeetsOperand, Operands DEF Paired
  <2>2. Kept!Operand(1) = Operand(1)
    BY <2>1, SameOperands, SamePlain
  <2>3. \/ Throw("IllegalCastException") /\ Kept!Throw("IllegalCastException")
        \/ AnswerNew("intcast", 1, x) /\ Kept!AnswerNew("intcast", 1, x)
    BY <1>2, <2>2, SameFaults, SameAsking, SameConstructors
       DEF intcast, Given, Kept!intcast, Kept!Given
  <2>4. x.kind \in {"Integer", "String"}
    BY DEF Integer
  <2>5. 1 \in Nat /\ "intcast" \in DOMAIN Natives
    BY DEF Natives
  <2> HIDE DEF x
  <2> QED
    BY <2>3, <2>4, <2>5, SameThrow, SameAnswerNew
<1> QED
  BY <1>1, <1>2

LEMMA SameCall ==
  ASSUME NEW m, Paired(m), NEW n \in Nat, NEW word, Call(n, {word}), Kept!Call(n, {word})
  PROVE  SameNext
<1> DEFINE asked == [i \in 1..n |-> Pop(i)] \o <<Is(n + 1, "Closure")>>
           f == Operand(n + 1).function
           callee == FunctionNamed(f)
           free == Operand(n + 1).free
           kept_free == Kept!Operand(n + 1).free
<1>1. /\ DOMAIN asked = 1..(n + 1) /\ asked[n + 1] = Is(n + 1, "Closure")
      /\ \A i \in 1..n : asked[i] = Pop(i)
  OBVIOUS
<1>2. Kept!Fault(asked) = Fault(asked)
  <2> HIDE DEF asked
  <2>1. \A j \in 1..(n + 1) : asked[j][1] = j
    BY <1>1 DEF Is, Pop
  <2> QED
    BY <1>1, <2>1, SameFault
<1>3. CASE Fault(asked) # "none"
  <2>1. Throw(Fault(asked))
    BY <1>3 DEF Call, Given
  <2>2. Kept!Throw(Kept!Fault(asked))
    BY <1>2, <1>3, SameAsking DEF Kept!Call, Kept!Given
  <2> HIDE DEF asked
  <2> QED
    BY <1>2, <2>1, <2>2, SameThrow
<1>4. CASE Fault(asked) = "none"
  <2>1. n + 1 \in 1..Len(Stack) /\ Operand(n + 1).kind = "Closure"
    <3> HIDE DEF asked
    <3>1. Meets(Is(n + 1, "Closure"))
      BY <1>1, <1>4, FaultOutcome
    <3>2. n + 1 \in 0..Len(Stack) /\ Operand(n + 1).kind = "Closure"
      BY <3>1, MeetsOperand DEF Paired
    <3> QED
      BY <3>2
  <2>2. Kept!Operand(n + 1).function = f /\ Len(kept_free) = Len(free)
    <3>1. free \in Seq(PointerTo(heap, {"Reference"}))
      BY <2>1, ClosureOperand DEF Paired
    <3>2. Kept!Operand(n + 1) = Closure(f, Moved(m, free))
      BY <2>1, SameOperands DEF Copy
    <3>3. Kept!Operand(n + 1).function = f /\ kept_free = Moved(m, free)
      BY <3>2 DEF Closure
    <3> HIDE DEF free, kept_free
    <3>4. Len(Moved(m, free)) = Len(free)
      BY <3>1, MovedSeq
    <3> QED
      BY <3>3, <3>4
  <2>3. Kept!FunctionNamed(f) = callee
    BY SameFunctions
  <2>4. /\ n # callee.parameter_count => Throw("RuntimeException")
        /\ n = callee.parameter_count =>
             \/ /\ n > callee.local_vars \/ Len(free) > callee.free_vars
                /\ Throw("undefined")
             \/ /\ ~(n > callee.local_vars \/ Len(free) > callee.free_vars)
                /\ Execute(f, n, {word})
    BY <1>4 DEF Call, Given
  <2>5. /\ n # callee.parameter_count => Kept!Throw("RuntimeException")
        /\ n = callee.parameter_count =>
             \/ /\ n > callee.local_vars \/ Len(kept_free) > callee.free_vars
                /\ Kept!Throw("undefined")
             \/ /\ ~(n > callee.local_vars \/ Len(kept_free) > callee.free_vars)
                /\ Kept!Execute(f, n, {word})
    BY <1>2, <1>4, <2>2, <2>3, SameAsking DEF Kept!Call, Kept!Given
  <2> HIDE DEF free, kept_free
  <2>6. CASE Throw("RuntimeException") /\ Kept!Throw("RuntimeException")
    BY <2>6, SameThrow
  <2>7. CASE Throw("undefined") /\ Kept!Throw("undefined")
    BY <2>7, SameThrow
  <2>8. CASE Execute(f, n, {word}) /\ Kept!Execute(f, n, {word}) /\ n = callee.parameter_count
    <3> HIDE DEF f
    <3>1. CASE f = "print"
      <4>1. n = 1
        BY <2>8, <3>1 DEF FunctionNamed, Natives, NativeFunction
      <4>2. print /\ Kept!print
        BY <2>8, <3>1 DEF Execute, Kept!Execute
      <4> QED
        BY <2>1, <4>1, <4>2, SamePrint
    <3>2. CASE f = "input"
      <4>1. n = 0
        BY <2>8, <3>2 DEF FunctionNamed, Natives, NativeFunction
      <4>2. input({word}) /\ Kept!input({word})
        BY <2>8, <3>2 DEF Execute, Kept!Execute
      <4> QED
        BY <2>1, <4>1, <4>2, SameInput
    <3>3. CASE f = "intcast"
      <4>1. n = 1
        BY <2>8, <3>3 DEF FunctionNamed, Natives, NativeFunction
      <4>2. intcast /\ Kept!intcast
        BY <2>8, <3>3 DEF Execute, Kept!Execute
      <4> QED
        BY <2>1, <4>1, <4>2, SameIntcast
    <3>4. CASE f \notin {"print", "input", "intcast"}
      <4>1. Enter(f, n) /\ Kept!Enter(f, n)
        BY <2>8, <3>4 DEF Execute, Kept!Execute
      <4>2. f = Operand(n + 1).function
        BY DEF f
      <4> QED
        BY <2>1, <4>1, <4>2, SameEnter
    <3> QED
      BY <3>1, <3>2, <3>3, <3>4
  <2> QED
    BY <2>2, <2>4, <2>5, <2>6, <2>7, <2>8
<1> QED
  BY <1>3, <1>4

(* Whatever the instruction.                                               *)
LEMMA SamePerform ==
  ASSUME NEW m, Paired(m), NEW i, TypedInstruction(i), NEW word,
         Perform(i, {word}), Kept!Perform(i, {word})
  PROVE  SameNext
<1>1. CASE i[1] = "LoadConst"
  BY <1>1, SameLoadConst DEF Perform, Kept!Perform
<1>2. CASE i[1] = "LoadFunc"
  BY <1>2, SameLoadFunc DEF Perform, Kept!Perform
<1>3. CASE i[1] = "LoadLocal"
  BY <1>3, SameLoadLocal DEF Perform, Kept!Perform
<1>4. CASE i[1] = "StoreLocal"
  BY <1>4, SameStoreLocal DEF Perform, Kept!Perform
<1>5. CASE i[1] = "LoadGlobal"
  BY <1>5, SameLoadGlobal DEF Perform, Kept!Perform
<1>6. CASE i[1] = "StoreGlobal"
  BY <1>6, SameStoreGlobal DEF Perform, Kept!Perform
<1>7. CASE i[1] = "LoadReference"
  BY <1>7, SameLoadReference DEF Perform, Kept!Perform
<1>8. CASE i[1] = "StoreReference"
  BY <1>8, SameStoreReference DEF Perform, Kept!Perform
<1>9. CASE i[1] = "AllocRecord"
  BY <1>9, SameAllocRecord DEF Perform, Kept!Perform
<1>10. CASE i[1] = "FieldLoad"
  BY <1>10, SameFieldLoad DEF Perform, Kept!Perform
<1>11. CASE i[1] = "FieldStore"
  BY <1>11, SameFieldStore DEF Perform, Kept!Perform
<1>12. CASE i[1] = "IndexLoad"
  BY <1>12, SameIndexLoad DEF Perform, Kept!Perform
<1>13. CASE i[1] = "IndexStore"
  BY <1>13, SameIndexStore DEF Perform, Kept!Perform
<1>14. CASE i[1] = "Return"
  BY <1>14, SameReturn DEF Perform, Kept!Perform
<1>15. CASE i[1] = "Add"
  BY <1>15, SameAdd DEF Perform, Kept!Perform
<1>16. CASE i[1] = "Sub"
  BY <1>16, SameSub DEF Perform, Kept!Perform
<1>17. CASE i[1] = "Mul"
  BY <1>17, SameMul DEF Perform, Kept!Perform
<1>18. CASE i[1] = "Div"
  BY <1>18, SameDiv DEF Perform, Kept!Perform
<1>19. CASE i[1] = "Neg"
  BY <1>19, SameNeg DEF Perform, Kept!Perform
<1>20. CASE i[1] = "Gt"
  BY <1>20, SameGt DEF Perform, Kept!Perform
<1>21. CASE i[1] = "Geq"
  BY <1>21, SameGeq DEF Perform, Kept!Perform
<1>22. CASE i[1] = "Eq"
  BY <1>22, SameEq DEF Perform, Kept!Perform
<1>23. CASE i[1] = "And"
  BY <1>23, SameAnd DEF Perform, Kept!Perform
<1>24. CASE i[1] = "Or"
  BY <1>24, SameOr DEF Perform, Kept!Perform
<1>25. CASE i[1] = "Not"
  BY <1>25, SameNot DEF Perform, Kept!Perform
<1>26. CASE i[1] = "Goto"
  BY <1>26, SameGoto DEF Perform, Kept!Perform
<1>27. CASE i[1] = "If"
  BY <1>27, SameIf DEF Perform, Kept!Perform
<1>28. CASE i[1] = "Dup"
  BY <1>28, SameDup DEF Perform, Kept!Perform
<1>29. CASE i[1] = "Swap"
  BY <1>29, SameSwap DEF Perform, Kept!Perform
<1>30. CASE i[1] = "Pop"
  BY <1>30, SamePopOperand DEF Perform, Kept!Perform
<1>31. CASE i[1] = "PushReference" /\ Len(i) = 2
  BY <1>31, SamePushReference DEF Perform, Kept!Perform
<1>32. CASE i[1] = "PushReference" /\ Len(i) = 3
  BY <1>32, SamePushUnresolved DEF Perform, Kept!Perform
<1>33. CASE i[1] = "AllocClosure"
  BY <1>33, SameAllocClosure DEF Perform, Kept!Perform, TypedInstruction
<1>34. CASE i[1] = "Call"
  BY <1>34, SameCall DEF Perform, Kept!Perform, TypedInstruction
<1> QED
  BY <1>1, <1>2, <1>3, <1>4, <1>5, <1>6, <1>7, <1>8, <1>9, <1>10, <1>11,
     <1>12, <1>13, <1>14, <1>15, <1>16, <1>17, <1>18, <1>19, <1>20, <1>21,
     <1>22, <1>23, <1>24, <1>25, <1>26, <1>27, <1>28, <1>29, <1>30, <1>31,
     <1>32, <1>33, <1>34 DEF Perform

-----------------------------------------------------------------------------
(* Leaving a function, and the program.                                    *)

LEMMA RestackedCopy ==
  ASSUME NEW m, NEW x, NEW y, Copy(m, x, y), x \in FrameObject(functions, heap),
         NEW s, AllKnown(m, s)
  PROVE  Copy(m, [x EXCEPT !.stack = s], [y EXCEPT !.stack = Moved(m, s)])
<1>1. x.kind = "Frame" /\ [x EXCEPT !.stack = s] = WithStack(x, s)
  <2>1. x.kind = "Frame"
    BY DEF FrameObject
  <2>2. [x EXCEPT !.stack = s] = WithStack(x, s)
    BY WithStackFrame
  <2> QED
    BY <2>1, <2>2
<1>2. [y EXCEPT !.stack = Moved(m, s)] = MovedFrame(m, WithStack(x, s))
  BY <1>1 DEF Copy, MovedFrame, WithStack
<1> QED
  BY <1>1, <1>2 DEF Copy, MovedFrame, WithStack

LEMMA SameLeaveMain ==
  ASSUME NEW m, Paired(m), LeaveMain, Kept!LeaveMain
  PROVE  SameNext
BY DEF LeaveMain, Kept!LeaveMain, context, Kept!context, Paired, SameControl, SameNext

LEMMA SameLeaveFunction ==
  ASSUME NEW m, Paired(m), LeaveFunction, Kept!LeaveFunction
  PROVE  SameNext
<1>1. CASE Fault(<<Pop(1)>>) # "none"
  BY <1>1, SameFaults, SameAsking, SameThrow
     DEF LeaveFunction, Given, Kept!LeaveFunction, Kept!Given
<1>2. CASE Fault(<<Pop(1)>>) = "none"
  <2> DEFINE last == Len(stack_frames_)
             caller == stack_frames_[last - 1]
             kept_caller == kept_stack_frames[Len(kept_stack_frames) - 1]
             t == Append(heap[caller].stack, Peek(1))
             u == Append(kept_heap[kept_caller].stack, Kept!Peek(1))
             saved == [function : DOMAIN functions, pointer : Int]
  <2>1. /\ heap' = [heap EXCEPT ![Top].stack = Below(1),
                                ![caller].stack = Append(@, Peek(1))]
        /\ stack_frames_' = Front(stack_frames_)
        /\ current_function_' = Last(callers).function
        /\ instruction_pointer_' = Last(callers).pointer + 1
        /\ callers' = Front(callers)
        /\ UNCHANGED <<status, output>>
        /\ callers # << >>
    BY <1>2 DEF LeaveFunction, Given
  <2>2. /\ kept_heap' = [kept_heap EXCEPT ![Kept!Top].stack = Kept!Below(1),
                                          ![kept_caller].stack = Append(@, Kept!Peek(1))]
        /\ kept_stack_frames' = Front(kept_stack_frames)
        /\ kept_current_function' = Last(kept_callers).function
        /\ kept_instruction_pointer' = Last(kept_callers).pointer + 1
        /\ kept_callers' = Front(kept_callers)
        /\ UNCHANGED <<kept_status, kept_output>>
    BY <1>2, SameFaults, SameAsking, SameHelpers DEF Kept!LeaveFunction, Kept!Given
  <2>3. SameControl'
    BY <2>1, <2>2 DEF Paired, SameControl
  <2>4. /\ callers \in Seq(saved) /\ Len(callers) \in Nat \ {0} /\ last = Len(callers) + 1
        /\ last - 1 \in 1..(last - 1) /\ last - 1 \in 1..last /\ last \in Nat \ {0}
    BY <2>1 DEF Paired, IInv, TypeOK
  <2>5. /\ caller \in Address \ {Top} /\ heap[caller].kind = "Frame"
    BY <2>4, FramesBelow DEF Paired
  <2>6. heap[caller] \in FrameObject(functions, heap) /\ heap[Top] \in FrameObject(functions, heap)
    BY <2>4, RunningFrames DEF Paired
  <2>7. /\ caller \in DOMAIN m /\ kept_caller = m[caller] /\ Top \in DOMAIN m /\ Kept!Top = m[Top]
        /\ Len(kept_stack_frames) = last
        /\ \A a \in DOMAIN m : a \in Address /\ m[a] \in Address /\ Copy(m, heap[a], kept_heap[m[a]])
        /\ \A a, b \in DOMAIN m : m[a] = m[b] => a = b
        /\ DOMAIN kept_heap = Address /\ DOMAIN heap = Address
    BY <2>4, SameFrames DEF Paired, Twins, IInv, TypeOK
  <2>8. /\ AllKnown(m, Below(1)) /\ Kept!Below(1) = Moved(m, Below(1))
        /\ Known(m, Peek(1)) /\ Kept!Peek(1) = MovedPointer(m, Peek(1))
    BY <1>2, SamePopOne, SameOperands
  <2>9. AllKnown(m, t) /\ u = Moved(m, t)
    <3>1. /\ heap[caller].stack \in Seq(Value(functions, heap))
          /\ AllKnown(m, heap[caller].stack)
          /\ kept_heap[kept_caller].stack = Moved(m, heap[caller].stack)
      <4> HIDE DEF caller, kept_caller
      <4>1. heap[caller].stack \in Seq(Value(functions, heap))
        BY <2>6, FrameFields
      <4>2. Copy(m, heap[caller], kept_heap[kept_caller]) /\ heap[caller].kind = "Frame"
        BY <2>5, <2>7
      <4> QED
        BY <4>1, <4>2 DEF Copy, MovedFrame
    <3> QED
      BY <2>8, <3>1, MovedAppend
  <2>10. /\ DOMAIN kept_heap' = Address
         /\ heap'[Top] = [heap[Top] EXCEPT !.stack = Below(1)]
         /\ heap'[caller] = [heap[caller] EXCEPT !.stack = t]
         /\ kept_heap'[Kept!Top] = [kept_heap[Kept!Top] EXCEPT !.stack = Kept!Below(1)]
         /\ kept_heap'[kept_caller] = [kept_heap[kept_caller] EXCEPT !.stack = u]
         /\ \A a \in Address \ {Top, caller} : heap'[a] = heap[a]
         /\ \A a \in Address \ {Kept!Top, kept_caller} : kept_heap'[a] = kept_heap[a]
    <3>1. kept_caller # Kept!Top /\ Kept!Top \in Address /\ kept_caller \in Address
      BY <2>5, <2>7
    <3> HIDE DEF caller, kept_caller
    <3> QED
      BY <2>1, <2>2, <2>5, <2>7, <3>1
  <2> HIDE DEF caller, kept_caller, t, u
  <2>11. ASSUME NEW a \in DOMAIN m PROVE Copy(m, heap'[a], kept_heap'[m[a]])
    <3>1. CASE a = Top
      BY <2>6, <2>7, <2>8, <2>10, <3>1, RestackedCopy
    <3>2. CASE a = caller
      BY <2>6, <2>7, <2>9, <2>10, <3>2, RestackedCopy
    <3>3. CASE a # Top /\ a # caller
      BY <2>7, <2>10, <3>3
    <3> QED
      BY <3>1, <3>2, <3>3
  <2>12. /\ stack_frames_' \in Seq(DOMAIN m)
         /\ kept_stack_frames' = [i \in 1..Len(stack_frames_') |-> m[stack_frames_'[i]]]
    <3>1. /\ stack_frames_ \in Seq(DOMAIN m)
          /\ kept_stack_frames = [i \in 1..last |-> m[stack_frames_[i]]]
      BY DEF Paired, Twins
    <3> HIDE DEF last
    <3>2. /\ stack_frames_' \in Seq(DOMAIN m) /\ Len(stack_frames_') = last - 1
          /\ \A i \in 1..(last - 1) : stack_frames_'[i] = stack_frames_[i]
      BY <2>1, <2>4, <3>1, FrontLast DEF last
    <3>3. kept_stack_frames \in Seq(Address) /\ Len(kept_stack_frames) = last
      BY <2>7, <3>1 DEF Paired, Twins
    <3>4. /\ kept_stack_frames' \in Seq(Address) /\ Len(kept_stack_frames') = last - 1
          /\ \A i \in 1..(last - 1) : kept_stack_frames'[i] = kept_stack_frames[i]
      BY <2>2, <2>4, <3>3, FrontLast
    <3>5. \A i \in 1..(last - 1) : kept_stack_frames'[i] = m[stack_frames_'[i]]
      <4>1. \A i \in 1..(last - 1) : i \in 1..last
        BY <2>4
      <4> QED
        BY <3>1, <3>2, <3>4, <4>1
    <3>6. kept_stack_frames' = [i \in 1..(last - 1) |-> kept_stack_frames'[i]]
      BY <3>4
    <3> QED
      BY <3>2, <3>5, <3>6
  <2>13. Twins(m, heap', kept_heap', stack_frames_', kept_stack_frames')
    BY <2>7, <2>10, <2>11, <2>12 DEF Twins
  <2> QED
    BY <2>3, <2>13 DEF SameNext
<1> QED
  BY <1>1, <1>2

-----------------------------------------------------------------------------
(* A collection, in the first machine alone. What is left of the relation  *)
(* is what is live: no pointer leads out of it.                            *)

LEMMA CopyWithin ==
  ASSUME NEW m, NEW n, Extends(m, n), NEW x, NEW y, Copy(m, x, y),
         x.kind = "Frame" => \A i \in DOMAIN x.stack : Known(n, x.stack[i]),
         x.kind = "Frame" => \A i \in DOMAIN x.locals : Known(n, x.locals[i]),
         x.kind = "Frame" => \A i \in DOMAIN x.refs : Known(n, x.refs[i]),
         x.kind = "Record" => \A i \in DOMAIN x.map : Known(n, x.map[i]),
         x.kind = "Closure" => \A i \in DOMAIN x.free : Known(n, x.free[i]),
         x.kind = "Reference" => x.frame \in DOMAIN n
  PROVE  Copy(n, x, y)
<1>1. CASE x.kind = "Frame"
  <2>1. AllKnown(n, x.stack) /\ AllKnown(n, x.locals) /\ AllKnown(n, x.refs)
    BY <1>1 DEF AllKnown
  <2>2. MovedFrame(n, x) = MovedFrame(m, x)
    BY <2>1, MovedExtends DEF MovedFrame
  <2> QED
    BY <1>1, <2>1, <2>2 DEF Copy
<1>2. CASE x.kind = "Record"
  <2>1. AllKnown(n, x.map)
    BY <1>2 DEF AllKnown
  <2> QED
    BY <1>2, <2>1, MovedExtends DEF Copy
<1>3. CASE x.kind = "Closure"
  <2>1. AllKnown(n, x.free)
    BY <1>3 DEF AllKnown
  <2> QED
    BY <1>3, <2>1, MovedExtends DEF Copy
<1>4. CASE x.kind = "Reference"
  BY <1>4 DEF Copy, Extends
<1>5. CASE x.kind \notin {"Frame", "Record", "Closure", "Reference"}
  BY <1>5 DEF Copy
<1> QED
  BY <1>1, <1>2, <1>3, <1>4, <1>5

LEMMA SameCollect ==
  ASSUME NEW m, Paired(m), GarbageCollect, UNCHANGED kept
  PROVE  status' = "undefined" \/ SameNext
<1>1. CASE \E a \in Live : Static(Garbage) \in Pointers(heap[a])
  BY <1>1 DEF GarbageCollect, Throw
<1>2. CASE ~ \E a \in Live : Static(Garbage) \in Pointers(heap[a])
  <2> DEFINE D == DOMAIN m \cap Live
             n == [a \in D |-> m[a]]
  <2>1. /\ heap' = [a \in Address |-> IF a \in Live THEN heap[a] ELSE Free]
        /\ UNCHANGED <<callers, output, stack_frames_, current_function_,
                       instruction_pointer_, status>>
    BY <1>2 DEF GarbageCollect, context
  <2>2. UNCHANGED <<kept_heap, kept_stack_frames, kept_current_function,
                    kept_instruction_pointer, kept_callers, kept_status, kept_output>>
    BY DEF kept
  <2>3. SameControl'
    BY <2>1, <2>2 DEF Paired, SameControl
  <2>4. /\ Live \subseteq Address
        /\ \A i \in DOMAIN stack_frames_ : stack_frames_[i] \in Live
        /\ \A a \in Live : Addresses(Pointers(heap[a])) \subseteq Live
    BY LiveClosed DEF Paired, Existing
  <2>5. DOMAIN n = D /\ D \subseteq Live /\ D \subseteq DOMAIN m /\ Extends(m, n)
        /\ \A a \in D : n[a] = m[a]
    BY DEF Extends
  <2>6. /\ DOMAIN m \subseteq Address /\ \A a \in DOMAIN m : m[a] \in Address
        /\ \A a, b \in DOMAIN m : m[a] = m[b] => a = b
        /\ DOMAIN kept_heap = Address
        /\ \A a \in DOMAIN m : Copy(m, heap[a], kept_heap[m[a]])
        /\ stack_frames_ \in Seq(DOMAIN m)
        /\ kept_stack_frames = [i \in 1..Len(stack_frames_) |-> m[stack_frames_[i]]]
    BY DEF Paired, Twins
  <2> HIDE DEF n
  <2>7. ASSUME NEW a \in D PROVE Copy(n, heap'[a], kept_heap'[n[a]])
    <3> DEFINE x == heap[a]
    <3>1. heap'[a] = x /\ kept_heap'[n[a]] = kept_heap[m[a]] /\ Copy(m, x, kept_heap[m[a]])
      BY <2>1, <2>2, <2>4, <2>5, <2>6
    <3>2. \A p \in Pointers(x) : p[1] = "heap" => p[2] \in Live
      BY <2>4, <2>5 DEF Addresses
    <3> HIDE DEF x
    <3>3. \A p \in Pointers(x) : Known(m, p) => Known(n, p)
      BY <2>5, <3>2 DEF Known
    <3>4. ASSUME x.kind = "Frame"
          PROVE  /\ \A i \in DOMAIN x.stack : Known(n, x.stack[i])
                 /\ \A i \in DOMAIN x.locals : Known(n, x.locals[i])
                 /\ \A i \in DOMAIN x.refs : Known(n, x.refs[i])
      <4>1. /\ \A i \in DOMAIN x.stack : x.stack[i] \in Pointers(x)
            /\ \A i \in DOMAIN x.locals : x.locals[i] \in Pointers(x)
            /\ \A i \in DOMAIN x.refs : x.refs[i] \in Pointers(x)
        BY <3>4 DEF Pointers
      <4>2. AllKnown(m, x.stack) /\ AllKnown(m, x.locals) /\ AllKnown(m, x.refs)
        BY <3>1, <3>4 DEF Copy
      <4> QED
        BY <3>3, <4>1, <4>2 DEF AllKnown
    <3>5. ASSUME x.kind = "Record" PROVE \A i \in DOMAIN x.map : Known(n, x.map[i])
      <4>1. \A i \in DOMAIN x.map : x.map[i] \in Pointers(x)
        BY <3>5 DEF Pointers
      <4>2. AllKnown(m, x.map)
        BY <3>1, <3>5 DEF Copy
      <4> QED
        BY <3>3, <4>1, <4>2 DEF AllKnown
    <3>6. ASSUME x.kind = "Closure" PROVE \A i \in DOMAIN x.free : Known(n, x.free[i])
      <4>1. \A i \in DOMAIN x.free : x.free[i] \in Pointers(x)
        BY <3>6 DEF Pointers
      <4>2. AllKnown(m, x.free)
        BY <3>1, <3>6 DEF Copy
      <4> QED
        BY <3>3, <4>1, <4>2 DEF AllKnown
    <3>7. ASSUME x.kind = "Reference" PROVE x.frame \in DOMAIN n
      <4>1. Heap(x.frame) \in Pointers(x)
        BY <3>7 DEF Pointers
      <4>2. x.frame \in DOMAIN m
        BY <3>1, <3>7 DEF Copy
      <4> QED
        BY <2>5, <3>2, <4>1, <4>2 DEF Heap
    <3>8. Copy(n, x, kept_heap[m[a]])
      BY <2>5, <3>1, <3>4, <3>5, <3>6, <3>7, CopyWithin
    <3> QED
      BY <3>1, <3>8
  <2>8. stack_frames_ \in Seq(D)
    <3>1. \A i \in 1..Len(stack_frames_) : stack_frames_[i] \in D
      BY <2>4, <2>6
    <3> HIDE DEF D
    <3> QED
      BY <2>6, <3>1, SeqElements
  <2>9. kept_stack_frames = [i \in 1..Len(stack_frames_) |-> n[stack_frames_[i]]]
    <3>1. \A i \in 1..Len(stack_frames_) : stack_frames_[i] \in D
      BY <2>8
    <3> QED
      BY <2>5, <2>6, <3>1
  <2>10. Twins(n, heap', kept_heap', stack_frames_', kept_stack_frames')
    BY <2>1, <2>2, <2>5, <2>6, <2>7, <2>8, <2>9 DEF Twins
  <2> QED
    BY <2>3, <2>10 DEF SameNext
<1> QED
  BY <1>1, <1>2

-----------------------------------------------------------------------------
(* The first machine's steps are its own.                                  *)

LEMMA PerformsInput ==
  ASSUME NEW i, NEW word \in Inputs, Perform(i, {word})
  PROVE  Perform(i, Inputs)
<1>1. \A f, n : Execute(f, n, {word}) => Execute(f, n, Inputs)
  BY DEF Execute, input
<1>2. \A n : Call(n, {word}) => Call(n, Inputs)
  BY <1>1 DEF Call, Given
<1> QED
  BY <1>2 DEF Perform

LEMMA TwinStepsFirst ==
  ASSUME IInv, TwinNext
  PROVE  Next
<1>1. ASSUME Running, More, instruction_pointer_ >= 0,
             NEW i \in This.instructions[instruction_pointer_ + 1], NEW word \in Inputs,
             Perform(i, {word})
      PROVE  executeInstruction
  <2>1. Perform(i, Inputs)
    BY <1>1, PerformsInput
  <2>2. ~(instruction_pointer_ < 0)
    BY <1>1 DEF IInv, TypeOK
  <2> QED
    BY <1>1, <2>1, <2>2 DEF executeInstruction
<1> QED
  BY <1>1 DEF TwinNext, Together, Next, Machine

(* Whatever both do, they stay twins.                                      *)
LEMMA TwinStepsPaired ==
  ASSUME NEW m, Paired(m), TwinNext
  PROVE  status' = "undefined" \/ SameNext
<1>1. CASE Together
  <2>1. ASSUME Running, More, instruction_pointer_ >= 0,
               NEW i \in This.instructions[instruction_pointer_ + 1], NEW word \in Inputs,
               Perform(i, {word}), Kept!Perform(i, {word})
        PROVE  SameNext
    <3>1. instruction_pointer_ + 1 \in 1..Len(This.instructions)
      BY <2>1, ThisTyped DEF More, TypedFunction, Paired, IInv, TypeOK
    <3>2. TypedInstruction(i)
      BY <2>1, <3>1, ThisTyped DEF TypedFunction, Paired
    <3> QED
      BY <2>1, <3>2, SamePerform
  <2>2. ASSUME instruction_pointer_ < 0, executeInstruction, Kept!executeInstruction
        PROVE  SameNext
    <3>1. kept_instruction_pointer = instruction_pointer_
      BY DEF Paired, SameControl
    <3>2. Throw("RuntimeException") /\ Kept!Throw("RuntimeException")
      BY <2>2, <3>1 DEF executeInstruction, Kept!executeInstruction
    <3> QED
      BY <3>2, SameThrow
  <2> QED
    BY <1>1, <2>1, <2>2, SameLeaveFunction, SameLeaveMain DEF Together
<1>2. CASE GarbageCollect /\ UNCHANGED kept
  BY <1>2, SameCollect
<1>3. CASE Ended /\ UNCHANGED kept
  BY <1>3 DEF Ended, vars, context, kept, Paired, SameControl, SameNext
<1> QED
  BY <1>1, <1>2, <1>3 DEF TwinNext

LEMMA TwinInvariantStep == TwinInv /\ [TwinNext]_<<vars, kept>> => TwinInv'
<1> SUFFICES ASSUME TwinInv, [TwinNext]_<<vars, kept>> PROVE TwinInv'
  OBVIOUS
<1>1. CASE TwinNext
  <2>1. IInv' /\ Next
    BY <1>1, TwinStepsFirst, StepInvariant DEF TwinInv
  <2>2. CASE status = "undefined"
    <3>1. status' = "undefined"
      <4>1. ~Running
        BY <2>2 DEF Running
      <4> QED
        BY <2>1, <2>2, <4>1 DEF Next, Machine, executeInstruction, LeaveFunction, LeaveMain,
                            GarbageCollect, Ended, vars, context
    <3> QED
      BY <2>1, <3>1 DEF TwinInv
  <2>3. CASE status # "undefined"
    <3>1. PICK m : Paired(m)
      BY <2>3 DEF TwinInv, Paired
    <3>2. status' = "undefined" \/ SameNext
      BY <1>1, <3>1, TwinStepsPaired
    <3> QED
      BY <2>1, <3>2 DEF TwinInv, SameNext
  <2> QED
    BY <2>2, <2>3
<1>2. CASE UNCHANGED <<vars, kept>>
  <2>1. IInv'
    BY <1>2, StepInvariant DEF TwinInv
  <2>2. UNCHANGED <<heap, stack_frames_, current_function_, instruction_pointer_, callers,
                    status, output, kept_heap, kept_stack_frames, kept_current_function,
                    kept_instruction_pointer, kept_callers, kept_status, kept_output>>
    BY <1>2 DEF vars, context, kept
  <2> QED
    BY <2>1, <2>2 DEF TwinInv, SameControl
<1> QED
  BY <1>1, <1>2

LEMMA TwinInvariantInit == TwinInit => TwinInv
<1> SUFFICES ASSUME TwinInit PROVE TwinInv
  OBVIOUS
<1> DEFINE main == functions["main"]
           slots == Len(main.local_reference_indices) + main.free_vars
           locals == [i \in DOMAIN main.names |-> none_]
           refs == [i \in 1..slots |-> Static(Garbage)]
           frame == Frame(locals, refs)
           m == [a \in {1} |-> 1]
<1>1. IInv
  BY InitInvariant DEF TwinInit
<1>2. /\ heap = [a \in Address |-> IF a = 1 THEN frame ELSE Free]
      /\ stack_frames_ = <<1>> /\ current_function_ = "main" /\ instruction_pointer_ = 0
      /\ callers = << >> /\ output = << >>
      /\ status = (IF Len(main.functions) < 3 THEN "undefined" ELSE "running")
  BY DEF TwinInit, Init, Boot
<1>3. /\ kept_heap = [a \in Address |-> IF a = 1 THEN frame ELSE Free]
      /\ kept_stack_frames = <<1>> /\ kept_current_function = "main"
      /\ kept_instruction_pointer = 0 /\ kept_callers = << >> /\ kept_output = << >>
      /\ kept_status = (IF Len(main.functions) < 3 THEN "undefined" ELSE "running")
  BY SameConstructors DEF TwinInit, Kept!Init, Kept!Boot
<1>4. SameControl
  BY <1>2, <1>3 DEF SameControl
<1>5. 1 \in Address
  BY AddressAssumption DEF Address
<1>6. /\ AllKnown(m, locals) /\ Moved(m, locals) = locals
      /\ AllKnown(m, refs) /\ Moved(m, refs) = refs
      /\ AllKnown(m, << >>) /\ Moved(m, << >>) = << >>
  BY DEF AllKnown, Known, Moved, MovedPointer, none_, Static
<1> HIDE DEF locals, refs
<1>7. Copy(m, frame, frame)
  <2> HIDE DEF m
  <2> QED
    BY <1>6 DEF Copy, Frame, MovedFrame
<1> HIDE DEF frame
<1>8. Twins(m, heap, kept_heap, stack_frames_, kept_stack_frames)
  <2>1. heap[1] = frame /\ kept_heap[1] = frame /\ DOMAIN kept_heap = Address
    BY <1>2, <1>3, <1>5
  <2>2. DOMAIN m = {1} /\ \A a \in {1} : m[a] = 1 /\ a = 1
    OBVIOUS
  <2>3. /\ stack_frames_ \in Seq({1}) /\ Len(stack_frames_) = 1
        /\ kept_stack_frames = [i \in 1..1 |-> m[stack_frames_[i]]]
    BY <1>2, <1>3
  <2> HIDE DEF m
  <2> QED
    BY <1>5, <1>7, <2>1, <2>2, <2>3 DEF Twins
<1> QED
  BY <1>1, <1>4, <1>8 DEF TwinInv

(* Copies are alike.                                                       *)
LEMMA CopiesAlike ==
  ASSUME NEW m, Paired(m), NEW p \in Value(functions, heap), Known(m, p)
  PROVE  Alike(p, MovedPointer(m, p))
<1> DEFINE x == Deref(p)
           y == Kept!Deref(MovedPointer(m, p))
<1>1. Copy(m, x, y)
  BY CopiedValue
<1> HIDE DEF x, y
<1>2. CASE x.kind = "Record"
  BY <1>1, <1>2 DEF Copy, Record, Moved, Alike, x, y
<1>3. CASE x.kind = "Closure"
  BY <1>1, <1>3 DEF Copy, Closure, Alike, x, y
<1>4. CASE x.kind = "Reference"
  BY <1>1, <1>4 DEF Copy, Reference, Alike, x, y
<1>5. CASE x.kind = "Frame"
  <2>1. x.kind # "Frame"
    <3>1. CASE p \in {"static"} \X StaticObject(functions)
      BY <3>1 DEF StaticObject, Uninitialised, Constant, Garbage, Deref, x
    <3>2. CASE p \in PointerTo(heap, OperandKind)
      BY <3>2 DEF PointerTo, OfKind, OperandKind, Deref, x
    <3> QED
      BY <3>1, <3>2 DEF Value
  <2> QED
    BY <1>5, <2>1
<1>6. CASE x.kind \notin {"Record", "Closure", "Reference", "Frame"}
  BY <1>1, <1>6 DEF Copy, Alike, x, y
<1> QED
  BY <1>2, <1>3, <1>4, <1>5, <1>6

LEMMA TwinsIndistinguishable == TwinInv => Indistinguishable
<1> SUFFICES ASSUME TwinInv, status # "undefined" PROVE Indistinguishable
  BY DEF Indistinguishable
<1>1. PICK m : Paired(m)
  BY DEF TwinInv, Paired
<1>2. /\ Len(kept_stack_frames) = Len(stack_frames_)
      /\ DOMAIN stack_frames_ = 1..Len(stack_frames_)
  BY <1>1, SameFrames DEF Paired, Twins
<1>3. ASSUME NEW d \in DOMAIN stack_frames_,
             NEW f, f = heap[stack_frames_[d]], NEW g, g = kept_heap[kept_stack_frames[d]]
      PROVE  /\ f.kind = "Frame" /\ g.kind = "Frame"
             /\ Len(f.stack) = Len(g.stack) /\ Len(f.locals) = Len(g.locals)
             /\ \A i \in DOMAIN f.stack : Alike(f.stack[i], g.stack[i])
             /\ \A i \in DOMAIN f.locals : Alike(f.locals[i], g.locals[i])
  <2>1. f \in FrameObject(functions, heap) /\ Copy(m, f, g)
    <3>1. stack_frames_[d] \in DOMAIN m /\ kept_stack_frames[d] = m[stack_frames_[d]]
      BY <1>1, <1>2, SameFrames
    <3>2. f \in FrameObject(functions, heap)
      BY <1>1, <1>2, <1>3, RunningFrames DEF Paired
    <3> QED
      BY <1>1, <1>3, <3>1, <3>2 DEF Paired, Twins
  <2>2. /\ f.kind = "Frame"
        /\ f.stack \in Seq(Value(functions, heap)) /\ f.locals \in Seq(Value(functions, heap))
    BY <2>1, FrameFields
  <2>3. /\ g.kind = "Frame" /\ g.stack = Moved(m, f.stack) /\ g.locals = Moved(m, f.locals)
        /\ AllKnown(m, f.stack) /\ AllKnown(m, f.locals)
    BY <2>1, <2>2 DEF Copy, MovedFrame
  <2>4. ASSUME NEW s \in Seq(Value(functions, heap)), AllKnown(m, s)
        PROVE  /\ Len(Moved(m, s)) = Len(s)
               /\ \A i \in DOMAIN s : Alike(s[i], Moved(m, s)[i])
    <3>1. /\ Len(Moved(m, s)) = Len(s)
          /\ \A i \in 1..Len(s) : Moved(m, s)[i] = MovedPointer(m, s[i])
      BY MovedSeq
    <3>2. ASSUME NEW i \in DOMAIN s PROVE Alike(s[i], Moved(m, s)[i])
      <4>1. i \in 1..Len(s) /\ s[i] \in Value(functions, heap) /\ Known(m, s[i])
        BY <2>4 DEF AllKnown
      <4> QED
        BY <1>1, <3>1, <4>1, CopiesAlike
    <3> QED
      BY <3>1, <3>2
  <2> QED
    BY <2>2, <2>3, <2>4
<1> QED
  BY <1>1, <1>2, <1>3 DEF Indistinguishable, Paired, SameControl

(* Collecting garbage cannot be observed: whatever the program, as long as *)
(* its tables are typed, and whenever garbage is collected, the machine    *)
(* that collects and the one that never does stay at the same instruction  *)
(* with operands and variables that are alike, print the same and end the  *)
(* same way, until the first one's behaviour is undefined                  *)
(* (interpreter.cpp:460-472, 520; gc.h:355-393; frame.cpp:42-56).          *)
THEOREM IndistinguishableCorrect == TwinSpec => []Indistinguishable
<1>1. TwinSpec => []TwinInv
  BY TwinInvariantInit, TwinInvariantStep, PTL DEF TwinSpec
<1> QED
  BY <1>1, TwinsIndistinguishable, PTL

=============================================================================
