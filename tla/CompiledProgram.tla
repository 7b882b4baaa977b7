---------------------------- MODULE CompiledProgram ----------------------------
(***************************************************************************)
(* `mitscript -s`: a program is parsed and compiled, and the machine runs  *)
(* it. What it should do is what the tree interpreter does with the tree   *)
(* the program was written from.                                           *)
(*                                                                         *)
(* No collection is taken here: CollectionTransparent shows that none can  *)
(* be noticed.                                                             *)
(***************************************************************************)
EXTENDS Compiler

CONSTANTS
  Sources,      \* the programs: main blocks, which Write gives the text of
  MaxAddress,   \* bound: how many objects a run makes
  FieldOrder,   \* bound: the field names they use, in lexical order
  Inputs,       \* the one word the user types
  Atoi,         \* atoi() of the C library, where it does not give 0
  INT_MAX,      \* bound: the largest int; the code's has 32 bits
  YYMAXDEPTH,   \* bound: the size of bison's stack, 10000 in the code
  Spelling      \* bound: the characters of the strings that have several

VARIABLES
  source,       \* the program
  functions, heap, stack_frames_, current_function_, instruction_pointer_,
  callers, status, output

vars == <<source, functions, heap, stack_frames_, current_function_,
          instruction_pointer_, callers, status, output>>

Machine == INSTANCE Interpreter WITH Programs <- {}

Tree == INSTANCE TreeInterpreter WITH Line <- CHOOSE word \in Inputs : TRUE

Reader == INSTANCE TreeConverter

Grammar == INSTANCE Grammar

Text == INSTANCE BytecodeText

Parses == [s \in Sources |-> Reader!ParseProgram(Grammar!Write(s))]

(* The compiler visits the main block, which an empty program has not:     *)
(* following its null pointer is undefined behaviour.                      *)
Load(parse) ==
  IF parse.status = "parsed" /\ parse.mainBlock # Nullptr THEN Compile(parse.mainBlock)
  ELSE << >>

Executables == [s \in Sources |-> Load(Parses[s])]

(* The program ended before the machine was there.                         *)
NotLoaded(parse) ==
  /\ heap = << >> /\ stack_frames_ = << >> /\ callers = << >>
  /\ current_function_ = "none" /\ instruction_pointer_ = 0 /\ output = << >>
  /\ status = (IF parse.status = "parsed" THEN "undefined" ELSE parse.status)

Init ==
  /\ source \in Sources
  /\ IF Executables[source] # << >>
     THEN functions = Machine!initializeNativeFunctions(Executables[source]) /\ Machine!Boot
     ELSE functions = << >> /\ NotLoaded(Parses[source])

Next == (Machine!Machine \/ Machine!Ended) /\ UNCHANGED source

Spec == Init /\ [][Next]_vars

-----------------------------------------------------------------------------
(* Properties.                                                             *)

(* The parser reads back the tree a program was written from, whatever     *)
(* stands in it: operators in parentheses or without, functions in calls   *)
(* and records in functions, left sides that end in a call or do not       *)
(* (ControlFlow.cpp, Expressions.cpp, Boolean.cpp, Arithmetic.cpp,         *)
(* TreeConverter.cpp).                                                     *)
ReadsBack ==
  instruction_pointer_ = 0 /\ callers = << >> =>
    Parses[source] = [status |-> "parsed", mainBlock |-> source]

(* A program prints what its tree prints and ends as its tree ends,        *)
(* normally or with the same exception: variables are found in the frame   *)
(* they are found in by name, whatever functions, closures and global      *)
(* declarations lie between; jumps, operands and returns are where the     *)
(* statements have them (compiler.cpp, symbol_table.h against              *)
(* interpreter_src).                                                       *)
Agrees ==
  status # "running" =>
    LET run == Tree!Run(source)
    IN  /\ output = run.output
        /\ status = (IF run.exception = "none" THEN "finished" ELSE run.exception)

(* What follows is about the functions only, and looked at once: after the *)
(* first instruction, which every program has.                             *)
Loaded == current_function_ = "main" /\ instruction_pointer_ = 1

Code(f) ==
  [i \in DOMAIN functions[f].instructions |->
     CHOOSE x \in functions[f].instructions[i] : TRUE]

(* What an instruction names is there.                                     *)
Sound(f, i) ==
  LET this == functions[f]
      code == Code(f)
      x == code[i]
  IN  CASE x[1] \in {"LoadLocal", "StoreLocal"} -> x[2] < this.local_vars
        [] x[1] \in {"LoadGlobal", "StoreGlobal"} ->
             /\ x[2] < Len(this.names)
             /\ this.names[x[2] + 1] \in Range(functions["main"].names)
        [] x[1] \in {"FieldLoad", "FieldStore"} -> x[2] < Len(this.names)
        [] x[1] = "LoadConst" -> x[2] < Len(this.constants)
        [] x[1] = "LoadFunc" -> x[2] < Len(this.functions)
        [] x[1] = "PushReference" ->
             Len(x) = 2 /\ x[2] < Len(this.local_reference_indices) + this.free_vars
        [] x[1] \in {"Goto", "If"} -> i + x[2] \in 1..(Len(code) + 1)
        [] OTHER -> TRUE

(* What the machine takes from the tables without looking, or silently     *)
(* replaces, is there: a slot for every parameter, local variable and      *)
(* reference, main's entry for every global, a function and as many        *)
(* references as it has free variables before an alloc_closure, with no    *)
(* jump in between, an instruction, or the end, where a jump leads. So the *)
(* compiler makes the programs that DefinedBehaviourCorrect is about       *)
(* (interpreter.cpp:28, 111-124, 143-151; frame.cpp:42-56).                *)
TablesConsistent ==
  Loaded =>
    /\ Machine!TypedTable(functions)
    /\ Machine!ConsistentTable(functions)
    /\ \A f \in DOMAIN functions : \A i \in DOMAIN functions[f].instructions : Sound(f, i)

(* A function with the functions in it, as mitscriptc prints it. What      *)
(* stands for the native functions has no code.                            *)
RECURSIVE Printed(_)
Printed(key) ==
  IF key \in Range(NativeNames)
  THEN LET x == IF key = "input" THEN << >> ELSE <<"x">>
       IN  [functions |-> << >>, constants |-> << >>, parameter_count |-> Len(x),
            local_vars |-> x, local_ref_vars |-> << >>, free_vars |-> << >>,
            names |-> << >>, instructions |-> << >>]
  ELSE LET f == functions[key]
           Constant(c) == IF c.kind = "String"
                          THEN [kind |-> "String", characters |-> Text!Characters(c.string)]
                          ELSE c
       IN  [functions |-> [i \in DOMAIN f.functions |-> Printed(f.functions[i])],
            constants |-> [i \in DOMAIN f.constants |-> Constant(f.constants[i])],
            parameter_count |-> f.parameter_count, names |-> f.names,
            instructions |-> Code(key)] @@ f.variables

Identifiers(key) ==
  LET f == functions[key]
  IN  UNION {Range(x) : x \in {f.names, f.variables.local_vars, f.variables.free_vars}}

(* The most that stands on the parser's stack while it reads f: a list is  *)
(* on it, with its commas, until its last element is read, a function's    *)
(* instructions until the last of them is.                                 *)
RECURSIVE Height(_)
Height(f) ==
  Max({46 + Len(f.instructions)}
        \cup {3 + 2 * i + Height(f.functions[i]) : i \in DOMAIN f.functions}
        \cup {10 + 2 * Len(f.constants)}
        \cup {14 + 6 * i + 2 * Len(f[Text!Lists[i]]) : i \in DOMAIN Text!Lists})

(* What RoundTrip says of what is read from the text of main.              *)
ReadAs(main, read) ==
  CASE \E f \in DOMAIN functions : Identifiers(f) \cap Text!Keywords # {} ->
         read.status \in {"error", "exhausted"}
    [] Height(main) + 1 >= YYMAXDEPTH -> read.status = "exhausted"
    [] OTHER -> read = [status |-> "parsed", out |-> main]

(* mitscriptc p > text; mitscript -b text, as tests/a3/run-tests.sh does:  *)
(* every function is read as it was compiled, its tables in order, unless  *)
(* a variable or field has the name of a keyword of bytecode, which is an  *)
(* error, or the text is too long for the parser's stack: then bcparse     *)
(* returns 2, which main() takes for a success (bytecode-interpreter.cpp:  *)
(* 106; prettyprinter.h, bc-lexer.lex, bc-parser.yy).                      *)
RoundTrip ==
  Loaded =>
    LET main == Printed("main") IN ReadAs(main, Text!bcparse(Text!print(main)))

(* How many operands an instruction takes and leaves.                      *)
Takes(x) ==
  CASE x[1] \in {"LoadConst", "LoadFunc", "LoadLocal", "LoadGlobal", "PushReference",
                 "AllocRecord", "Goto"} -> 0
    [] x[1] \in {"StoreReference", "FieldStore", "IndexLoad", "Add", "Sub", "Mul", "Div",
                 "Gt", "Geq", "Eq", "And", "Or"} -> 2
    [] x[1] = "IndexStore" -> 3
    [] x[1] \in {"AllocClosure", "Call"} -> x[2] + 1
    [] OTHER -> 1

Gives(x) ==
  IF x[1] \in {"StoreLocal", "StoreGlobal", "StoreReference", "FieldStore", "IndexStore",
               "Goto", "If", "Pop", "Return"} THEN 0
  ELSE IF x[1] = "Dup" THEN 2 ELSE 1

(* The positions i can be reached at with d operands, as <<i, d>>.         *)
Steps(code, at) ==
  LET x == code[at[1]]
      depth == at[2] - Takes(x) + Gives(x)
  IN  CASE x[1] = "Return" -> {}
        [] x[1] = "Goto" -> {<<at[1] + x[2], depth>>}
        [] x[1] = "If" -> {<<at[1] + x[2], depth>>, <<at[1] + 1, depth>>}
        [] OTHER -> {<<at[1] + 1, depth>>}

OneDepth(reached) == \A p, q \in reached : p[1] = q[1] => p[2] = q[2]

RECURSIVE Reached(_, _)
Reached(code, reached) ==
  LET more == reached \cup UNION {Steps(code, at) :
                                    at \in {p \in reached : p[1] \in DOMAIN code}}
  IN  IF more = reached \/ ~OneDepth(more) THEN reached \cup more
      ELSE Reached(code, more)

(* On every path through a function, whether a run takes it or not, an     *)
(* instruction finds its operands, a position always has the same number   *)
(* of them, so loops leave nothing behind, return finds exactly the value  *)
(* returned, and no function runs off its end: call() would then take an   *)
(* operand that is not there (compiler.cpp:58-110, 137-142, 254-266;       *)
(* interpreter.cpp:155-158).                                               *)
StackBalanced ==
  Loaded =>
    \A f \in DOMAIN functions :
      LET code == Code(f)
          reached == Reached(code, {<<1, 0>>})
      IN  /\ OneDepth(reached)
          /\ \A at \in reached :
               IF at[1] \in DOMAIN code
               THEN /\ at[2] >= Takes(code[at[1]])
                    /\ code[at[1]][1] = "Return" => at[2] = 1
               ELSE f = "main" /\ at[2] = 0
===============================================================================
