----------------------------- MODULE Interpreter -----------------------------
(***************************************************************************)
(* The virtual machine of vm/src: interpreter.cpp, the frames, references, *)
(* closures and records of bytecode/, and the native functions.            *)
(*                                                                         *)
(* An instruction is one step. The collector is one step too, which        *)
(* executeInstruction may take before it fetches an instruction;           *)
(* CollectedHeap shows that the real collector behaves like that step.     *)
(* Whether the heap is full is left open: any instruction may be preceded  *)
(* by a collection.                                                        *)
(*                                                                         *)
(* Memory is explicit. An object lives at an address until a collection    *)
(* finds it unreachable, and the address is handed out again. A pointer is *)
(* <<"heap", a>>, or <<"static", x>> for what is made with plain `new` and *)
(* never freed: a constant, None, a boolean, a Function. <<"static",       *)
(* Garbage>> is what an uninitialised pointer slot holds.                  *)
(*                                                                         *)
(* A program is a table of functions; a position of its code holds the set *)
(* of instructions that may stand there, so that one "program" can stand   *)
(* for every program of its shape.                                         *)
(***************************************************************************)
EXTENDS Integers, Sequences, FiniteSets, SequencesExt, TLC

CONSTANTS
  MaxAddress,   \* bound: how many objects exist at a time
  Programs,     \* the programs to run, tables of functions with a "main"
  FieldOrder,   \* bound: the field names they may use, in lexical order
  Inputs,       \* the words the user may type
  Atoi,         \* atoi() of the C library, where it does not give 0
  INT_MAX       \* bound: the largest int; the code's has 32 bits

Address == 1..MaxAddress

INT_MIN == -INT_MAX - 1

ASSUME AddressAssumption == MaxAddress \in Nat \ {0}
ASSUME WidthAssumption == INT_MAX \in Nat \ {0}
ASSUME FieldAssumption == FieldOrder \in Seq(STRING)

VARIABLES
  functions,             \* the program that runs
  heap,                  \* heap[a]: the object at address a
  stack_frames_,         \* addresses of frames, the innermost last
  current_function_,
  instruction_pointer_,
  callers,               \* the prev_function and prev_instruction_pointer
                         \* that each executeFunction in progress keeps
  status,                \* "running", "finished" or what ended the program
  output

context == <<functions, callers, output>>
vars == <<context, heap, stack_frames_, current_function_,
          instruction_pointer_, status>>

-----------------------------------------------------------------------------
(* Objects and pointers.                                                   *)

Free == [kind |-> "Free"]
Garbage == [kind |-> "Garbage"]
Integer(n) == [kind |-> "Integer", int |-> n]
String(s) == [kind |-> "String", string |-> s]
Boolean(b) == [kind |-> "Boolean", bool |-> b]
Function(f) == [kind |-> "Function", function |-> f]
Record(m) == [kind |-> "Record", map |-> m]
Reference(i, f) == [kind |-> "Reference", index |-> i, frame |-> f]
Closure(f, r) == [kind |-> "Closure", function |-> f, free |-> r]
Frame(l, r) == [kind |-> "Frame", stack |-> << >>, locals |-> l, refs |-> r]

Heap(a) == <<"heap", a>>
Static(x) == <<"static", x>>
none_ == Static([kind |-> "None"])
Truth(b) == Static(Boolean(b))

Deref(p) == IF p[1] = "heap" THEN heap[p[2]] ELSE p[2]

ValueKind ==
  {"Integer", "String", "Boolean", "None", "Function", "Record", "Reference",
   "Closure"}
Kind == ValueKind \cup {"Garbage"}

(* Mutant of Pointers: Reference::follow does not visit the frame.         *)
PointersNotFrame(x) ==
  CASE x.kind = "Frame" ->
         {x.stack[i] : i \in DOMAIN x.stack}
           \cup {x.locals[i] : i \in DOMAIN x.locals}
           \cup {x.refs[i] : i \in DOMAIN x.refs}
    [] x.kind = "Record" -> {x.map[k] : k \in DOMAIN x.map}
    [] x.kind = "Closure" -> {x.free[i] : i \in DOMAIN x.free}
    [] OTHER -> {}

(* The pointers an object holds, which its follow() visits.                *)
Pointers(x) ==
  CASE x.kind = "Frame" ->
         {x.stack[i] : i \in DOMAIN x.stack}
           \cup {x.locals[i] : i \in DOMAIN x.locals}
           \cup {x.refs[i] : i \in DOMAIN x.refs}
    [] x.kind = "Record" -> {x.map[k] : k \in DOMAIN x.map}
    [] x.kind = "Closure" -> {x.free[i] : i \in DOMAIN x.free}
    [] x.kind = "Reference" -> {Heap(x.frame)}
    [] OTHER -> {}

Addresses(P) == {p[2] : p \in {q \in P : q[1] = "heap"}}

(* Everything that can be reached from the addresses of R.                 *)
Reach(R) ==
  LET after[n \in 0..MaxAddress] ==
        IF n = 0 THEN R
        ELSE LET S == after[n - 1]
             IN  S \cup UNION {Addresses(Pointers(heap[a])) : a \in S}
  IN  after[MaxAddress]

(* Mutant of Live: only the innermost frame is a root.                     *)
LiveInnermost == Reach({Last(stack_frames_)})

(* What a collection keeps: stack_frames_ are the roots.                   *)
Live == Reach(Range(stack_frames_))

-----------------------------------------------------------------------------
(* Functions. Variables are known by their position: local_vars and        *)
(* free_vars are numbers of variables, local_reference_vars the positions  *)
(* of the locals that inner functions use. call() only looks at            *)
(* local_reference_indices, which the compiler fills in for every function *)
(* but main and the bytecode parser for none.                              *)

makeLocalReferenceIndices(f) ==
  [f EXCEPT !.local_reference_indices = f.local_reference_vars]

(* The native functions are C++ objects, not bytecode.                     *)
NativeFunction(params) ==
  [parameter_count |-> params, local_vars |-> params,
   local_reference_vars |-> << >>, local_reference_indices |-> << >>,
   free_vars |-> 0, functions |-> << >>, constants |-> << >>, names |-> << >>,
   instructions |-> << >>]

Natives == [print |-> NativeFunction(1), input |-> NativeFunction(0),
            intcast |-> NativeFunction(1)]

FunctionNamed(f) == IF f \in DOMAIN Natives THEN Natives[f] ELSE functions[f]

(* What is certain of a table of functions, whoever made it: its constants *)
(* and operands have their C++ types, its functions are found, and the     *)
(* operands that say how many operands to pop do not say a negative number.*)
FunctionNames(table) == DOMAIN table \cup DOMAIN Natives

Constant ==
  [kind : {"Integer"}, int : INT_MIN..INT_MAX] \cup [kind : {"String"}, string : STRING]
    \cup [kind : {"Boolean"}, bool : BOOLEAN] \cup {[kind |-> "None"]}

TypedInstruction(i) ==
  /\ i[1] \in {"Goto", "If"} => i[2] \in Int
  /\ i[1] \in {"AllocClosure", "Call"} => i[2] \in Nat

TypedFunction(table, f) ==
  /\ {"parameter_count", "local_vars", "local_reference_indices", "free_vars", "functions",
      "constants", "names", "instructions"} \subseteq DOMAIN f
  /\ f.parameter_count \in Nat /\ f.local_vars \in Nat /\ f.free_vars \in Nat
  /\ f.local_reference_indices \in Seq(Nat)
  /\ f.functions \in Seq(FunctionNames(table))
  /\ f.constants \in Seq(Constant)
  /\ f.names \in Seq(STRING)
  /\ Len(f.instructions) \in Nat
  /\ \A i \in 1..Len(f.instructions) :
       \A instruction \in f.instructions[i] : TypedInstruction(instruction)

TypedTable(table) ==
  /\ "main" \in DOMAIN table
  /\ \A name \in DOMAIN table : TypedFunction(table, table[name])

ASSUME ProgramsAssumption == \A table \in Programs : TypedTable(table)

ASSUME AtoiAssumption == \A s \in DOMAIN Atoi : Atoi[s] \in INT_MIN..INT_MAX

(* What the machine takes from a table without looking. The compiler keeps *)
(* to it; bytecode from elsewhere need not. A closure is made by a load_   *)
(* func, one push_ref for each free variable of that function and then the *)
(* alloc_closure, and no jump leads in between.                            *)
FreeVariables(table, f) == IF f \in DOMAIN Natives THEN 0 ELSE table[f].free_vars

Captures(table, f, q, n) ==
  /\ q - n - 1 >= 1
  /\ \A p \in (q - n)..(q - 1) : \A i \in f.instructions[p] : i[1] = "PushReference"
  /\ \A i \in f.instructions[q - n - 1] :
       /\ i[1] = "LoadFunc"
       /\ i[2] + 1 \in DOMAIN f.functions =>
            FreeVariables(table, f.functions[i[2] + 1]) = n

Inside(f, p) ==
  \E q \in 1..Len(f.instructions) :
    \E i \in f.instructions[q] : i[1] = "AllocClosure" /\ p \in (q - i[2])..q

ConsistentFunction(table, f) ==
  /\ f.parameter_count <= f.local_vars
  /\ \A k \in DOMAIN f.local_reference_indices : f.local_reference_indices[k] < f.local_vars
  /\ \A p \in 1..Len(f.instructions) : \A i \in f.instructions[p] :
       /\ i[1] = "StoreLocal" => i[2] \in 0..(f.local_vars - 1)
       /\ i[1] = "AllocClosure" => Captures(table, f, p, i[2])
       /\ i[1] \in {"Goto", "If"} => ~Inside(f, p + i[2])

(* The variables of the global frame are those main names, and it has no   *)
(* references. The first three functions of main make room for the native  *)
(* functions.                                                              *)
ConsistentTable(table) ==
  /\ \A f \in DOMAIN table : ConsistentFunction(table, table[f])
  /\ LET main == table["main"]
     IN  /\ main.names # << >>
         /\ main.local_vars <= Len(main.names)
         /\ main.free_vars = 0
         /\ main.local_reference_indices = << >>
         /\ Len(main.functions) >= 3

This == FunctionNamed(current_function_)

Top == Last(stack_frames_)
GlobalFrame == Head(stack_frames_)

(* global_indices_[name]: operator[] of the map, so that a name that is    *)
(* not a global gets index 0.                                              *)
GlobalIndex(name) ==
  LET at == {i \in DOMAIN functions["main"].names :
               functions["main"].names[i] = name}
  IN  IF at = {} THEN 0 ELSE Max(at) - 1

-----------------------------------------------------------------------------
(* The operand stack of the running frame.                                 *)

Stack == heap[Top].stack
Peek(i) == Stack[Len(Stack) + 1 - i]
Below(n) == SubSeq(Stack, 1, Len(Stack) - n)

(* What an instruction asks of its operands, in the order it asks: that    *)
(* there is an i-th from the top, that it is of one of these kinds.        *)
Pop(i) == <<i, Kind>>
Is(i, kind) == <<i, {kind}>>
Typed(i) == <<i, ValueKind>>

Meets(asked) ==
  asked[1] <= Len(Stack) /\ Deref(Peek(asked[1])).kind \in asked[2]

(* The exception thrown for the first thing that is not met. Asking the    *)
(* type of an uninitialised pointer is undefined behaviour.                *)
Fault(asked) ==
  LET first == Min({j \in DOMAIN asked : ~Meets(asked[j])})
      i == asked[first][1]
  IN  IF \A j \in DOMAIN asked : Meets(asked[j]) THEN "none"
      ELSE IF i > Len(Stack) THEN "InsufficientStackException"
      ELSE IF Deref(Peek(i)).kind = "Garbage" THEN "undefined"
      ELSE "IllegalCastException"

(* An exception leaves executeProgram: nothing in the machine catches it.  *)
Throw(e) ==
  /\ status' = e
  /\ UNCHANGED <<context, heap, stack_frames_, current_function_,
                 instruction_pointer_>>

(* The way most instructions end: n operands popped, results pushed, and   *)
(* the next instruction.                                                   *)
Continue(newHeap) ==
  /\ heap' = newHeap
  /\ instruction_pointer_' = instruction_pointer_ + 1
  /\ UNCHANGED <<context, stack_frames_, current_function_, status>>

Replace(n, results) == [heap EXCEPT ![Top].stack = Below(n) \o results]

Yield(n, p) == Continue(Replace(n, <<p>>))

(* The k-th address `new` will hand out: the lowest free ones.             *)
FreeAddresses == {a \in Address : heap[a] = Free}
Fresh(k) ==
  CHOOSE a \in FreeAddresses : Cardinality({b \in FreeAddresses : b < a}) = k - 1

YieldNew(n, x) ==
  /\ FreeAddresses # {}
  /\ Continue([Replace(n, <<Heap(Fresh(1))>>) EXCEPT ![Fresh(1)] = x])

-----------------------------------------------------------------------------
(* toString(): a text, or what the recursion ends in. A record prints its  *)
(* fields in lexical order, and the first that fails ends it. Printing a   *)
(* reference throws; a record inside itself overflows the C++ stack.       *)

Text(t) == [fault |-> "none", text |-> t]
Fails(e) == [fault |-> e, text |-> ""]

(* records: what toString() gives for the record at each address.          *)
Show(p, records) ==
  LET x == Deref(p)
  IN  CASE x.kind = "Integer" -> Text(ToString(x.int))
        [] x.kind = "String" -> Text(x.string)
        [] x.kind = "Boolean" -> Text(IF x.bool THEN "true" ELSE "false")
        [] x.kind = "None" -> Text("None")
        [] x.kind = "Record" -> records[p[2]]
        [] x.kind = "Reference" -> Fails("RuntimeException")
        [] x.kind = "Garbage" -> Fails("undefined")
        [] OTHER -> Text("FUNCTION")

Joined(texts) == FoldLeft(LAMBDA s, t : s \o t, "", texts)

ShowFields(m, records) ==
  LET present == {i \in DOMAIN FieldOrder : FieldOrder[i] \in DOMAIN m}
      shown == [i \in present |-> Show(m[FieldOrder[i]], records)]
      failing == {i \in present : shown[i].fault # "none"}
      text == [i \in DOMAIN FieldOrder |->
                 IF i \in present THEN FieldOrder[i] \o ":" \o shown[i].text \o " " ELSE ""]
  IN  IF failing = {} THEN Text("{" \o Joined(text) \o "}")
      ELSE Fails(shown[Min(failing)].fault)

ShowRecords(records) ==
  [a \in Address |->
     IF heap[a].kind = "Record" THEN ShowFields(heap[a].map, records) ELSE Text("")]

(* Records nested more than depth deep fail: with as many levels as there  *)
(* are addresses, those that contain themselves.                           *)
ShownRecords[depth \in 0..MaxAddress] ==
  IF depth = 0 THEN [a \in Address |-> Fails("overflow")]
  ELSE ShowRecords(ShownRecords[depth - 1])

toString(p) == Show(p, ShownRecords[MaxAddress])

(* Do A with the operands asked for, or throw.                             *)
Given(asked, A) ==
  IF Fault(asked) = "none" THEN A ELSE Throw(Fault(asked))

(* Do A, which prints p, or end as printing p ends.                        *)
Printing(p, A) ==
  IF toString(p).fault = "none" THEN A ELSE Throw(toString(p).fault)

Operand(i) == Deref(Peek(i))

-----------------------------------------------------------------------------
(* The instructions. Indices and offsets are those of the bytecode, from 0.*)

Valid(seq, n) == n \in 0..(Len(seq) - 1)

(* Do A, which reads seq at the index n, if there is such an index.        *)
Within(seq, n, A) == IF Valid(seq, n) THEN A ELSE Throw("RuntimeException")

LoadConst(n) == Within(This.constants, n, Yield(0, Static(This.constants[n + 1])))

LoadFunc(n) ==
  Within(This.functions, n, Yield(0, Static(Function(This.functions[n + 1]))))

(* Frame::getLocalVar checks its index, setLocalVar does not.              *)
GetLocalVar(frame, n, popped) ==
  Within(heap[frame].locals, n, Yield(popped, heap[frame].locals[n + 1]))

SetLocalVar(frame, n, p, popped) ==
  IF Valid(heap[frame].locals, n)
  THEN Continue([Replace(popped, << >>) EXCEPT ![frame].locals[n + 1] = p])
  ELSE Throw("undefined")

LoadLocal(n) == GetLocalVar(Top, n, 0)

StoreLocal(n) == Given(<<Pop(1)>>, SetLocalVar(Top, n, Peek(1), 1))

LoadGlobal(n) ==
  Within(This.names, n, GetLocalVar(GlobalFrame, GlobalIndex(This.names[n + 1]), 0))

StoreGlobal(n) ==
  Given(<<Pop(1)>>, Within(This.names, n,
    SetLocalVar(GlobalFrame, GlobalIndex(This.names[n + 1]), Peek(1), 1)))

PushReference(n) ==
  IF Valid(heap[Top].refs, n)
  THEN Yield(0, heap[Top].refs[n + 1])
  ELSE Throw("UninitializedVariableException")

(* The compiler left a name, i[3], where the index should be: operand0 is  *)
(* empty, and its value() throws an exception that main() does not catch.  *)
PushUnresolved == Throw("bad_optional_access")

LoadReference ==
  Given(<<Is(1, "Reference")>>, GetLocalVar(Operand(1).frame, Operand(1).index, 1))

(* The reference is on top, the value below it.                            *)
StoreReference ==
  Given(<<Is(1, "Reference"), Pop(2)>>,
        SetLocalVar(Operand(1).frame, Operand(1).index, Peek(2), 2))

AllocRecord == YieldNew(0, Record(<< >>))

GetField(x, k) == IF k \in DOMAIN x.map THEN x.map[k] ELSE none_

(* The record is the i-th operand; all i are popped.                       *)
SetField(i, k, p) ==
  LET a == Peek(i)[2]
  IN  /\ k \in Range(FieldOrder)
      /\ Continue([Replace(i, << >>) EXCEPT ![a].map =
                     [f \in DOMAIN @ \cup {k} |-> IF f = k THEN p ELSE @[f]]])

FieldLoad(n) ==
  Given(<<Is(1, "Record")>>,
        Within(This.names, n, Yield(1, GetField(Operand(1), This.names[n + 1]))))

FieldStore(n) ==
  Within(This.names, n,
    Given(<<Pop(1), Is(2, "Record")>>, SetField(2, This.names[n + 1], Peek(1))))

(* Any value may be an index: its text is the name of the field.           *)
IndexLoad ==
  Given(<<Pop(1)>>, Printing(Peek(1),
    Given(<<Is(2, "Record")>>, Yield(2, GetField(Operand(2), toString(Peek(1)).text)))))

IndexStore ==
  Given(<<Pop(1), Pop(2)>>, Printing(Peek(2),
    Given(<<Is(3, "Record")>>, SetField(3, toString(Peek(2)).text, Peek(1)))))

AllocClosure(n) ==
  Given([i \in 1..n |-> Is(i, "Reference")] \o <<Is(n + 1, "Function")>>,
        YieldNew(n + 1, Closure(Operand(n + 1).function,
                                [i \in 1..n |-> Peek(n + 1 - i)])))

-----------------------------------------------------------------------------
(* Arithmetic, comparison and logic. A result that is too large is         *)
(* undefined behaviour in C++: the machine code wraps, and traps when the  *)
(* least integer is divided by -1.                                         *)

Wrap(n) == ((n - INT_MIN) % (2 * INT_MAX + 2)) + INT_MIN

(* Both operands are popped before either is looked at.                    *)
Add ==
  Given(<<Pop(1), Pop(2), Typed(2), Typed(1)>>,
    IF {Operand(1).kind, Operand(2).kind} = {"Integer"}
    THEN YieldNew(2, Integer(Wrap(Operand(2).int + Operand(1).int)))
    ELSE IF "String" \in {Operand(1).kind, Operand(2).kind}
    THEN Printing(Peek(2), Printing(Peek(1),
           YieldNew(2, String(toString(Peek(2)).text \o toString(Peek(1)).text))))
    ELSE Throw("IllegalCastException"))

Integers == <<Is(1, "Integer"), Is(2, "Integer")>>

Sub == Given(Integers, YieldNew(2, Integer(Wrap(Operand(2).int - Operand(1).int))))

Mul == Given(Integers, YieldNew(2, Integer(Wrap(Operand(2).int * Operand(1).int))))

(* C++ division truncates towards zero.                                    *)
Quotient(a, b) ==
  LET Abs(n) == IF n < 0 THEN -n ELSE n
      q == Abs(a) \div Abs(b)
  IN  IF (a < 0) = (b < 0) THEN q ELSE -q

Div ==
  Given(Integers,
    IF Operand(1).int = 0 THEN Throw("IllegalArithmeticException")
    ELSE IF Operand(1).int = -1 /\ Operand(2).int = INT_MIN THEN Throw("trap")
    ELSE YieldNew(2, Integer(Quotient(Operand(2).int, Operand(1).int))))

Neg == Given(<<Is(1, "Integer")>>, YieldNew(1, Integer(Wrap(-Operand(1).int))))

Gt == Given(Integers, Yield(2, Truth(Operand(2).int > Operand(1).int)))

Geq == Given(Integers, Yield(2, Truth(Operand(2).int >= Operand(1).int)))

(* Constants are compared by value and records by identity; two functions, *)
(* or two values of different kinds, are never equal.                      *)
Eq ==
  Given(<<Pop(1), Pop(2), Typed(2), Typed(1)>>,
    Yield(2, Truth(CASE Operand(1).kind # Operand(2).kind -> FALSE
                     [] Operand(1).kind = "Record" -> Peek(1) = Peek(2)
                     [] Operand(1).kind \in {"Integer", "String", "Boolean", "None"} ->
                          Operand(1) = Operand(2)
                     [] OTHER -> FALSE)))

Booleans == <<Pop(1), Pop(2), Is(1, "Boolean"), Is(2, "Boolean")>>

And == Given(Booleans, Yield(2, Truth(Operand(2).bool /\ Operand(1).bool)))

Or == Given(Booleans, Yield(2, Truth(Operand(2).bool \/ Operand(1).bool)))

Not == Given(<<Is(1, "Boolean")>>, Yield(1, Truth(~Operand(1).bool)))

-----------------------------------------------------------------------------
(* The stack, jumps, calls.                                                *)

Dup == Given(<<Pop(1)>>, Continue(Replace(1, <<Peek(1), Peek(1)>>)))

Swap ==
  Given(<<Pop(1), Pop(2)>>, Continue(Replace(2, <<Peek(1), Peek(2)>>)))

PopOperand == Given(<<Pop(1)>>, Continue(Replace(1, << >>)))

Jump(newHeap, target) ==
  /\ heap' = newHeap
  /\ instruction_pointer_' = target
  /\ UNCHANGED <<context, stack_frames_, current_function_, status>>

Goto(n) == Jump(heap, instruction_pointer_ + n)

If(n) ==
  Given(<<Is(1, "Boolean")>>,
        Jump(Replace(1, << >>), instruction_pointer_ + (IF Operand(1).bool THEN n ELSE 1)))

(* The result stays on the stack of the frame; the function has ended.     *)
Return == Given(<<Pop(1)>>, Jump(heap, Len(This.instructions) + 1))

(* The frame call() builds: the arguments, None in the other variables, a  *)
(* new Reference for each variable inner functions use, then the free      *)
(* variables of the closure. The frame is the first address handed out.    *)
Arguments(n, locals) ==
  [i \in 1..locals |-> IF i <= n THEN Peek(n + 1 - i) ELSE none_]

(* Mutant of References: the free variables are not copied.                *)
ReferencesOwnOnly(callee, free) ==
  LET own == Len(callee.local_reference_indices)
  IN  [k \in 1..(own + callee.free_vars) |->
         IF k <= own THEN Heap(Fresh(k + 1)) ELSE Static(Garbage)]

References(callee, free) ==
  LET own == Len(callee.local_reference_indices)
  IN  [k \in 1..(own + callee.free_vars) |->
         IF k <= own THEN Heap(Fresh(k + 1))
         ELSE IF k - own \in DOMAIN free THEN free[k - own]
         ELSE Static(Garbage)]

NewFrame(callee, n) ==
  Frame(Arguments(n, callee.local_vars), References(callee, Operand(n + 1).free))

(* The new Reference at address a.                                         *)
NewReference(indices, a) ==
  LET k == CHOOSE j \in DOMAIN indices : a = Fresh(j + 1)
  IN  Reference(indices[k], Fresh(1))

Enter(f, n) ==
  LET callee == FunctionNamed(f)
      indices == callee.local_reference_indices
  IN  /\ Cardinality(FreeAddresses) > Len(indices)
      /\ heap' = [a \in Address |->
                    CASE a = Top -> [heap[a] EXCEPT !.stack = Below(n + 1)]
                      [] a = Fresh(1) -> NewFrame(callee, n)
                      [] \E k \in DOMAIN indices : a = Fresh(k + 1) ->
                           NewReference(indices, a)
                      [] OTHER -> heap[a]]
      /\ stack_frames_' = Append(stack_frames_, Fresh(1))
      /\ callers' = Append(callers, [function |-> current_function_,
                                     pointer |-> instruction_pointer_])
      /\ current_function_' = f
      /\ instruction_pointer_' = 0
      /\ UNCHANGED <<functions, status, output>>

(* A native function runs to its end inside the call; the frame it ran in  *)
(* is garbage from then on.                                                *)
Answer(f, n, p, newHeap, text) ==
  /\ heap' = [newHeap EXCEPT ![Top].stack = Append(Below(n + 1), p),
                             ![Fresh(1)] = NewFrame(Natives[f], n)]
  /\ output' = output \o text
  /\ instruction_pointer_' = instruction_pointer_ + 1
  /\ UNCHANGED <<functions, callers, stack_frames_, current_function_, status>>

AnswerNew(f, n, x) ==
  /\ Cardinality(FreeAddresses) > 1
  /\ Answer(f, n, Heap(Fresh(2)), [heap EXCEPT ![Fresh(2)] = x], << >>)

print ==
  /\ FreeAddresses # {}
  /\ Printing(Peek(1), Answer("print", 1, none_, heap, <<toString(Peek(1)).text>>))

input(words) == \E word \in words : AnswerNew("input", 0, String(word))

intcast ==
  Given(<<Is(1, "String")>>,
    LET text == Operand(1).string
        number == IF text \in DOMAIN Atoi THEN Atoi[text] ELSE 0
    IN  IF number = 0 /\ text # "0" THEN Throw("IllegalCastException")
        ELSE AnswerNew("intcast", 1, Integer(number)))

(* words: what the user may type, should the function ask.                 *)
Execute(f, n, words) ==
  CASE f = "print" -> print
    [] f = "input" -> input(words)
    [] f = "intcast" -> intcast
    [] OTHER -> Enter(f, n)

Call(n, words) ==
  Given([i \in 1..n |-> Pop(i)] \o <<Is(n + 1, "Closure")>>,
    LET f == Operand(n + 1).function
        callee == FunctionNamed(f)
    IN  IF n # callee.parameter_count THEN Throw("RuntimeException")
        ELSE IF n > callee.local_vars \/ Len(Operand(n + 1).free) > callee.free_vars
        THEN Throw("undefined")
        ELSE Execute(f, n, words))

-----------------------------------------------------------------------------
(* The loop of executeFunction.                                            *)

Running == status = "running"
More == instruction_pointer_ < Len(This.instructions)

Perform(i, words) ==
  \/ i[1] = "LoadConst" /\ LoadConst(i[2])
  \/ i[1] = "LoadFunc" /\ LoadFunc(i[2])
  \/ i[1] = "LoadLocal" /\ LoadLocal(i[2])
  \/ i[1] = "StoreLocal" /\ StoreLocal(i[2])
  \/ i[1] = "LoadGlobal" /\ LoadGlobal(i[2])
  \/ i[1] = "StoreGlobal" /\ StoreGlobal(i[2])
  \/ i[1] = "PushReference" /\ Len(i) = 2 /\ PushReference(i[2])
  \/ i[1] = "PushReference" /\ Len(i) = 3 /\ PushUnresolved
  \/ i[1] = "LoadReference" /\ LoadReference
  \/ i[1] = "StoreReference" /\ StoreReference
  \/ i[1] = "AllocRecord" /\ AllocRecord
  \/ i[1] = "FieldLoad" /\ FieldLoad(i[2])
  \/ i[1] = "FieldStore" /\ FieldStore(i[2])
  \/ i[1] = "IndexLoad" /\ IndexLoad
  \/ i[1] = "IndexStore" /\ IndexStore
  \/ i[1] = "AllocClosure" /\ AllocClosure(i[2])
  \/ i[1] = "Call" /\ Call(i[2], words)
  \/ i[1] = "Return" /\ Return
  \/ i[1] = "Add" /\ Add
  \/ i[1] = "Sub" /\ Sub
  \/ i[1] = "Mul" /\ Mul
  \/ i[1] = "Div" /\ Div
  \/ i[1] = "Neg" /\ Neg
  \/ i[1] = "Gt" /\ Gt
  \/ i[1] = "Geq" /\ Geq
  \/ i[1] = "Eq" /\ Eq
  \/ i[1] = "And" /\ And
  \/ i[1] = "Or" /\ Or
  \/ i[1] = "Not" /\ Not
  \/ i[1] = "Goto" /\ Goto(i[2])
  \/ i[1] = "If" /\ If(i[2])
  \/ i[1] = "Dup" /\ Dup
  \/ i[1] = "Swap" /\ Swap
  \/ i[1] = "Pop" /\ PopOperand

(* A jump may lead before the first instruction.                           *)
executeInstruction ==
  /\ Running
  /\ More
  /\ IF instruction_pointer_ < 0
     THEN Throw("RuntimeException")
     ELSE \E i \in This.instructions[instruction_pointer_ + 1] : Perform(i, Inputs)

(* The function is over: executeFunction restores what it saved and call() *)
(* hands the result to the caller. The program is over with main.          *)
LeaveMain ==
  /\ Running
  /\ ~More
  /\ callers = << >>
  /\ status' = "finished"
  /\ UNCHANGED <<context, heap, stack_frames_, current_function_,
                 instruction_pointer_>>

(* Mutants of LeaveFunction: the frame stays on stack_frames_; the result  *)
(* goes to the global frame.                                               *)
LeaveFrameBehind ==
  /\ Running
  /\ ~More
  /\ callers # << >>
  /\ Given(<<Pop(1)>>,
       LET caller == stack_frames_[Len(stack_frames_) - 1]
       IN  /\ heap' = [heap EXCEPT ![Top].stack = Below(1),
                                   ![caller].stack = Append(@, Peek(1))]
           /\ stack_frames_' = stack_frames_
           /\ current_function_' = Last(callers).function
           /\ instruction_pointer_' = Last(callers).pointer + 1
           /\ callers' = Front(callers)
           /\ UNCHANGED <<functions, status, output>>)

LeaveToGlobal ==
  /\ Running
  /\ ~More
  /\ callers # << >>
  /\ Given(<<Pop(1)>>,
       LET caller == GlobalFrame
       IN  /\ heap' = [heap EXCEPT ![Top].stack = Below(1),
                                   ![caller].stack = Append(@, Peek(1))]
           /\ stack_frames_' = Front(stack_frames_)
           /\ current_function_' = Last(callers).function
           /\ instruction_pointer_' = Last(callers).pointer + 1
           /\ callers' = Front(callers)
           /\ UNCHANGED <<functions, status, output>>)

LeaveFunction ==
  /\ Running
  /\ ~More
  /\ callers # << >>
  /\ Given(<<Pop(1)>>,
       LET caller == stack_frames_[Len(stack_frames_) - 1]
       IN  /\ heap' = [heap EXCEPT ![Top].stack = Below(1),
                                   ![caller].stack = Append(@, Peek(1))]
           /\ stack_frames_' = Front(stack_frames_)
           /\ current_function_' = Last(callers).function
           /\ instruction_pointer_' = Last(callers).pointer + 1
           /\ callers' = Front(callers)
           /\ UNCHANGED <<functions, status, output>>)

Machine == executeInstruction \/ LeaveFunction \/ LeaveMain

(* garbageCollect(), at the start of executeInstruction. Following an      *)
(* uninitialised pointer is undefined behaviour.                           *)
GarbageCollect ==
  /\ Running
  /\ More
  /\ IF \E a \in Live : Static(Garbage) \in Pointers(heap[a])
     THEN Throw("undefined")
     ELSE /\ heap' = [a \in Address |-> IF a \in Live THEN heap[a] ELSE Free]
          /\ UNCHANGED <<context, stack_frames_, current_function_,
                         instruction_pointer_, status>>

Ended == ~Running /\ UNCHANGED vars

(* The native functions take the place of main's first three functions,    *)
(* whatever these are.                                                     *)
initializeNativeFunctions(table) ==
  [table EXCEPT !["main"].functions =
     [i \in DOMAIN @ |-> IF i <= 3 THEN <<"print", "input", "intcast">>[i] ELSE @[i]]]

Started == {initializeNativeFunctions(table) : table \in Programs}

(* executeProgram: the global frame has a variable for each name of main.  *)
(* A native function is written past the end of a table that has no place  *)
(* for it.                                                                 *)
Boot ==
  /\ LET main == functions["main"]
         slots == Len(main.local_reference_indices) + main.free_vars
         frame == Frame([i \in DOMAIN main.names |-> none_],
                        [i \in 1..slots |-> Static(Garbage)])
     IN  heap = [a \in Address |-> IF a = 1 THEN frame ELSE Free]
  /\ stack_frames_ = <<1>>
  /\ current_function_ = "main"
  /\ instruction_pointer_ = 0
  /\ callers = << >>
  /\ status = (IF Len(functions["main"].functions) < 3 THEN "undefined" ELSE "running")
  /\ output = << >>

Init == functions \in Started /\ Boot

Next == Machine \/ GarbageCollect \/ Ended

Spec == Init /\ [][Next]_vars

-----------------------------------------------------------------------------
(* Properties.                                                             *)

Outcome ==
  {"running", "finished", "undefined", "trap", "overflow", "IllegalCastException",
   "IllegalArithmeticException", "InsufficientStackException",
   "UninitializedVariableException", "RuntimeException", "bad_optional_access"}

TypeOK ==
  /\ functions \in Started
  /\ DOMAIN heap = Address
  /\ \A a \in Address :
       /\ heap[a].kind \in ValueKind \cup {"Frame", "Free"}
       /\ heap[a].kind = "Integer" => heap[a].int \in INT_MIN..INT_MAX
  /\ stack_frames_ \in Seq(Address)
  /\ Len(stack_frames_) = Len(callers) + 1
  /\ current_function_ \in DOMAIN functions
  /\ instruction_pointer_ \in Int
  /\ callers \in Seq([function : DOMAIN functions, pointer : Int])
  /\ status \in Outcome

(* Whatever the machine may still use is where its pointer says and of the *)
(* kind the unchecked casts of the code take it for: a frame's references  *)
(* and a closure's free variables are References, a Reference leads to a   *)
(* Frame, the frames of the calls in progress exist. An object freed too   *)
(* early, or its address reused, would break this long before a program    *)
(* notices (types.h:221-238, 305-335; frame.cpp:46-75; interpreter.cpp:    *)
(* 111-158, 460-472).                                                      *)
PointersLead ==
  /\ \A i \in DOMAIN stack_frames_ : heap[stack_frames_[i]].kind = "Frame"
  /\ \A a \in Live :
       LET x == heap[a]
       IN  /\ x.kind # "Free"
           /\ x.kind = "Frame" =>
                \A i \in DOMAIN x.refs : Deref(x.refs[i]).kind \in {"Reference", "Garbage"}
           /\ x.kind = "Closure" =>
                \A i \in DOMAIN x.free : Deref(x.free[i]).kind = "Reference"
           /\ x.kind = "Reference" => heap[x.frame].kind = "Frame"

(* While a function runs, and whatever it throws, calls or collects, the   *)
(* operand stacks of the calls it is nested in stay as they are: an inner  *)
(* function neither consumes nor leaves operands of its callers, although  *)
(* all of them push and pop through stack_frames_.back()                   *)
(* (interpreter.cpp:126-158, 475-481).                                     *)
CallersUntouched ==
  [][\A i \in 1..(Len(stack_frames_) - 1) :
       i < Len(stack_frames_') =>
         heap'[stack_frames_[i]].stack = heap[stack_frames_[i]].stack]_vars

(* No program whose tables are consistent, as the compiler's are, runs into*)
(* undefined behaviour: no uninitialised slot of a frame is followed by    *)
(* the collector or used as a value, no variable is written past the end   *)
(* of its frame (frame.cpp:42-56, 65-75; types.h:187-190).                 *)
DefinedBehaviour == ConsistentTable(functions) => status # "undefined"

(* A step that is not a collection, at an instruction that is i for sure.  *)
Performs(i) ==
  /\ Running /\ More /\ instruction_pointer_ >= 0
  /\ This.instructions[instruction_pointer_ + 1] = {i}
  /\ instruction_pointer_' # instruction_pointer_ \/ status' # status

(* instructions.h:47-55 documents push_ref i as pushing a reference to the *)
(* local variable f.local_reference_vars[i] when there is one. It does not *)
(* for a program read with -b: the bytecode parser leaves the indices      *)
(* empty, and call() makes no reference.                                   *)
PushesReference ==
  [][\A n \in 0..(Len(This.local_reference_vars) - 1) :
       Performs(<<"PushReference", n>>) =>
         /\ Len(heap'[Top].stack) = Len(Stack) + 1
         /\ Last(heap'[Top].stack)[1] = "heap"
         /\ heap'[Last(heap'[Top].stack)[2]]
              = Reference(This.local_reference_vars[n + 1], Top)]_vars
=============================================================================
