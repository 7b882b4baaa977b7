------------------------------- MODULE Compiler -------------------------------
(***************************************************************************)
(* vm/src/compiler: from a syntax tree to the functions Interpreter runs.  *)
(*                                                                         *)
(* A visit takes the state c of the compiler and gives the next one:       *)
(*   functions  the functions under construction, main first; the last is  *)
(*              enclosing_function_, the one before it its prev_function   *)
(*   tables     their symbol tables                                        *)
(*   block      current_block_                                             *)
(*   lhs        lhs_: an assignment's left side is being visited           *)
(*   done       the functions whose visit is over, by key                  *)
(* A variable's reference is <<"PushReference", "name", x>> until the end  *)
(* of its function turns the name into an index.                           *)
(***************************************************************************)
EXTENDS Syntax

NewFunction(key) ==
  [key |-> key, parameter_count |-> 0, local_vars |-> << >>,
   local_reference_vars |-> << >>, free_vars |-> << >>, functions |-> << >>,
   constants |-> << >>, names |-> << >>]

Enclosing(c) == Last(c.functions)
Depth(c) == Len(c.functions)

(* The add... operations of Function, alloc_constant and alloc_name keep   *)
(* an entry once; the get... operations give its index, the length of the  *)
(* table if it has none.                                                   *)
AddOnce(s, x) == IF Contains(s, x) THEN s ELSE Append(s, x)
Index(s, x) ==
  IF Contains(s, x) THEN SelectInSeq(s, LAMBDA y : y = x) - 1 ELSE Len(s)

Add(c, table, x) ==
  [c EXCEPT !.functions[Depth(c)] = [@ EXCEPT ![table] = AddOnce(@, x)]]

IndexOf(c, table, x) == Index(Enclosing(c)[table], x)

Emit(c, code) == [c EXCEPT !.block = code]
Then(c, instruction) == [c EXCEPT !.block = Append(@, instruction)]

-----------------------------------------------------------------------------
(* The symbol tables.                                                      *)

insert(table, x, type) == (x :> type) @@ table

Declare(c, x, type) == [c EXCEPT !.tables[Depth(c)] = insert(@, x, type)]

(* What a function sees of the functions around it: globals, and           *)
(* everything else as free variables, names it knows nothing of included.  *)
lookup(c, x) ==
  LET knows == {d \in 1..Depth(c) : x \in DOMAIN c.tables[d]}
      nearest == CHOOSE d \in knows : \A e \in knows : e <= d
  IN  IF knows = {} THEN IF Depth(c) = 1 THEN "NOT_FOUND" ELSE "FREE"
      ELSE IF nearest = Depth(c) \/ c.tables[nearest][x] = "GLOBAL"
      THEN c.tables[nearest][x]
      ELSE "FREE"

(* `global x` is told to the enclosing function and to main.               *)
visitGlobal(n, c) ==
  LET d == Declare(Add(c, "names", n.name), n.name, "GLOBAL")
  IN  [d EXCEPT !.block = << >>,
                !.functions[1].names = AddOnce(@, n.name),
                !.tables[1] = insert(@, n.name, "GLOBAL")]

globals(s, c) == FoldLeft(LAMBDA d, t : visitGlobal(t, d), c, Globals(s))

(* Mutant of assign: the variable gets no slot.                            *)
assignNoSlot(t, c) ==
  LET x == t.lhs.name
      table == c.tables[Depth(c)]
  IN  IF Depth(c) = 1 \/ (x \in DOMAIN table /\ table[x] = "GLOBAL")
      THEN Declare(Add(c, "names", x), x, "GLOBAL")
      ELSE Declare(c, x, "LOCAL")

(* What is assigned to is local, unless it was declared global or this is  *)
(* main.                                                                   *)
assign(t, c) ==
  LET x == t.lhs.name
      table == c.tables[Depth(c)]
  IN  IF Depth(c) = 1 \/ (x \in DOMAIN table /\ table[x] = "GLOBAL")
      THEN Declare(Add(c, "names", x), x, "GLOBAL")
      ELSE Declare(Add(c, "local_vars", x), x, "LOCAL")

assigns(s, c) == FoldLeft(LAMBDA d, t : assign(t, d), c, Assigns(s))

(* A return in the body of a loop counts, although the loop may not run.   *)
RECURSIVE findReturn(_)
findReturn(s) ==
  CASE s.node = "Return" -> TRUE
    [] s.node = "IfStatement" -> findReturn(s.thenPart) /\ findReturn(s.elsePart)
    [] s.node = "WhileLoop" -> findReturn(s.body)
    [] s.node = "Block" -> \E i \in DOMAIN s.statements : findReturn(s.statements[i])
    [] OTHER -> FALSE

-----------------------------------------------------------------------------
(* Expressions.                                                            *)

RECURSIVE Visit(_, _)

(* The code of n after what there is.                                      *)
Extend(c, n) ==
  IF c.block = << >> THEN Visit(n, c)
  ELSE LET d == Visit(n, c) IN Emit(d, c.block \o d.block)

(* The nodes one after the other, and their code.                          *)
InOrder(nodes, c) == FoldLeft(Extend, Emit(c, << >>), nodes)

visitExpression(n, c) ==
  LET x == n.name
      type == lookup(c, x)
      Access(variable) == (IF c.lhs THEN "Store" ELSE "Load") \o variable
  IN  IF type = "LOCAL"
      THEN Emit(c, <<<<Access("Local"), IndexOf(c, "local_vars", x)>>>>)
      ELSE IF type = "GLOBAL"
      THEN LET d == Add(c, "names", x)
           IN  Emit(d, <<<<Access("Global"), IndexOf(d, "names", x)>>>>)
      ELSE Emit(Add(c, "free_vars", x),
                <<<<"PushReference", "name", x>>, <<Access("Reference")>>>>)

visitConstant(value, c) ==
  LET d == Add(c, "constants", value)
  IN  Emit(d, <<<<"LoadConst", IndexOf(d, "constants", value)>>>>)

Operation ==
  [PLUS |-> "Add", SUB |-> "Sub", MUL |-> "Mul", DIV |-> "Div", AND |-> "And",
   OR |-> "Or", GT |-> "Gt", LT |-> "Gt", GEQ |-> "Geq", LEQ |-> "Geq", EQ |-> "Eq"]

(* a < b is compiled as b > a, with the code of b first.                   *)
visitBinary(n, c) ==
  LET l == Visit(n.left, c)
      r == Visit(n.right, l)
      code == IF n.op \in {"LT", "LEQ"} THEN r.block \o l.block
              ELSE l.block \o r.block
  IN  Emit(r, Append(code, <<Operation[n.op]>>))

visitUnary(n, c) ==
  Then(Visit(n.operand, c), <<IF n.op = "SUB" THEN "Neg" ELSE "Not">>)

(* The base and the index are read, even on the left of an assignment.     *)
Rvalue(c) == [c EXCEPT !.lhs = FALSE]

visitField(n, c) ==
  LET d == Add(Visit(n.base, Rvalue(c)), "names", n.field)
  IN  Then(d, <<IF c.lhs THEN "FieldStore" ELSE "FieldLoad", IndexOf(d, "names", n.field)>>)

visitIndex(n, c) ==
  Then(InOrder(<<n.base, n.index>>, Rvalue(c)),
       <<IF c.lhs THEN "IndexStore" ELSE "IndexLoad">>)

visitCall(n, c) ==
  Then(InOrder(<<n.target>> \o n.arguments, c), <<"Call", Len(n.arguments)>>)

(* A field's value is stored in the copy of the record below it.           *)
AddField(c, f) ==
  LET d == Add(Extend(c, f[2]), "names", f[1])
  IN  Then(d, <<"FieldStore", IndexOf(d, "names", f[1])>>)

(* One copy of the record for each field, made before the fields.          *)
visitRecord(n, c) ==
  FoldLeft(AddField,
           Emit(c, <<<<"AllocRecord">>>> \o [i \in DOMAIN n.fields |-> <<"Dup">>]),
           n.fields)

-----------------------------------------------------------------------------
(* Functions.                                                              *)

(* The enclosing function fetches the reference of a variable that the     *)
(* function just compiled needs: to a variable of its own, or passed on    *)
(* from further out.                                                       *)
Capture(c, x) ==
  IF Contains(Enclosing(c).local_vars, x)
  THEN LET d == Add(c, "local_reference_vars", x)
       IN  Then(d, <<"PushReference", IndexOf(d, "local_reference_vars", x)>>)
  ELSE Then(Add(c, "free_vars", x), <<"PushReference", "name", x>>)

(* Mutant of Resolve: the references a function makes itself, which come   *)
(* first in its frame, are forgotten.                                      *)
ResolveFromZero(f, code) ==
  [i \in DOMAIN code |->
     IF Len(code[i]) = 3
     THEN <<"PushReference", Index(f.free_vars, code[i][3])>>
     ELSE code[i]]

(* The free variables' references follow those a function makes itself,    *)
(* whose number is known once its body is compiled.                        *)
Resolve(f, code) ==
  [i \in DOMAIN code |->
     IF Len(code[i]) = 3
     THEN <<"PushReference", Index(f.free_vars, code[i][3]) + Len(f.local_reference_vars)>>
     ELSE code[i]]

(* A finished function as Interpreter has it: local_vars and free_vars as  *)
(* numbers, and a single instruction at each position; their names remain. *)
Finish(f, code) ==
  LET positions == [i \in DOMAIN f.local_reference_vars |->
                      Index(f.local_vars, f.local_reference_vars[i])]
  IN  [parameter_count |-> f.parameter_count, local_vars |-> Len(f.local_vars),
       local_reference_vars |-> positions, local_reference_indices |-> positions,
       free_vars |-> Len(f.free_vars), functions |-> f.functions,
       constants |-> f.constants, names |-> f.names,
       variables |-> [local_vars |-> f.local_vars, free_vars |-> f.free_vars,
                      local_ref_vars |-> f.local_reference_vars],
       instructions |-> [i \in DOMAIN code |-> {code[i]}]]

(* enclosing_function_ and symbol_table_ are new ones while n is visited.  *)
Begin(n, key, c) ==
  LET inner == [c EXCEPT !.functions = Append(@, [NewFunction(key) EXCEPT
                                                    !.parameter_count = Len(n.formals)]),
                         !.tables = Append(@, << >>)]
  IN  FoldLeft(LAMBDA d, x : Declare(Add(d, "local_vars", x), x, "LOCAL"),
               inner, n.formals)

ReturnNone(c) ==
  LET d == visitConstant([kind |-> "None"], c)
  IN  Emit(d, c.block \o d.block \o <<<<"Return">>>>)

visitFunction(n, c) ==
  LET key == "f" \o ToString(Len(c.functions) + Cardinality(DOMAIN c.done))
      outer == Add(c, "functions", key)
      body == Visit(n.body, assigns(n.body, globals(n.body, Begin(n, key, outer))))
      last == IF findReturn(n.body) THEN body ELSE ReturnNone(body)
      f == Enclosing(last)
      left == [last EXCEPT !.functions = Front(@), !.tables = Front(@),
                           !.done = (key :> Finish(f, Resolve(f, last.block))) @@ @]
      load == Emit(left, <<<<"LoadFunc", IndexOf(left, "functions", key)>>>>)
  IN  Then(FoldLeft(Capture, load, f.free_vars), <<"AllocClosure", Len(f.free_vars)>>)

-----------------------------------------------------------------------------
(* Statements.                                                             *)

(* The left side ends with the instruction that stores; the value is       *)
(* computed just before it.                                                *)
visitAssignment(n, c) ==
  LET l == Visit(n.lhs, [c EXCEPT !.lhs = TRUE])
      e == Visit(n.expr, Rvalue(l))
  IN  Emit(e, Front(l.block) \o e.block \o <<Last(l.block)>>)

IfElse(condition, thenPart, elsePart) ==
  condition \o <<<<"If", Len(elsePart) + 2>>>>
    \o elsePart \o <<<<"Goto", Len(thenPart) + 1>>>>
    \o thenPart

IfThen(condition, thenPart) ==
  condition \o <<<<"Not">>, <<"If", Len(thenPart) + 1>>>> \o thenPart

(* Mutant of While: back to the second instruction of the condition.       *)
WhileLate(condition, body) ==
  condition \o <<<<"Not">>, <<"If", Len(body) + 2>>>>
    \o body \o <<<<"Goto", -(Len(condition) + 1 + Len(body))>>>>

While(condition, body) ==
  condition \o <<<<"Not">>, <<"If", Len(body) + 2>>>>
    \o body \o <<<<"Goto", -(Len(condition) + 2 + Len(body))>>>>

visitIf(n, c) ==
  LET e == Visit(n.condition, c)
      t == Visit(n.thenPart, e)
      f == Visit(n.elsePart, t)
  IN  IF n.elsePart = Nullptr
      THEN Emit(t, IfThen(e.block, t.block))
      ELSE Emit(f, IfElse(e.block, t.block, f.block))

visitWhile(n, c) ==
  LET e == Visit(n.condition, c)
      b == Visit(n.body, e)
  IN  Emit(b, While(e.block, b.block))

Visit(n, c) ==
  CASE n.node = "Block" -> InOrder(n.statements, c)
    [] n.node = "Global" -> visitGlobal(n, c)
    [] n.node = "Expression" -> visitExpression(n, c)
    [] n.node = "Assignment" -> visitAssignment(n, c)
    [] n.node = "CallStatement" -> Then(Visit(n.call, c), <<"Pop">>)
    [] n.node = "IfStatement" -> visitIf(n, c)
    [] n.node = "WhileLoop" -> visitWhile(n, c)
    [] n.node = "Return" -> Then(Visit(n.expr, c), <<"Return">>)
    [] n.node = "FunctionDeclaration" -> visitFunction(n, c)
    [] n.node = "BinaryExpression" -> visitBinary(n, c)
    [] n.node = "UnaryExpression" -> visitUnary(n, c)
    [] n.node = "FieldDereference" -> visitField(n, c)
    [] n.node = "IndexExpression" -> visitIndex(n, c)
    [] n.node = "Call" -> visitCall(n, c)
    [] n.node = "Record" -> visitRecord(n, c)
    [] n.node = "IntegerConstant" -> visitConstant([kind |-> "Integer", int |-> n.int], c)
    [] n.node = "StringConstant" -> visitConstant([kind |-> "String", string |-> n.string], c)
    [] n.node = "BooleanConstant" -> visitConstant([kind |-> "Boolean", bool |-> n.bool], c)
    [] n.node = "NoneConstant" -> visitConstant([kind |-> "None"], c)

-----------------------------------------------------------------------------
(* The program: main knows the native functions, and begins by storing a   *)
(* closure of each in its global variable.                                 *)

NativeNames == <<"print", "input", "intcast">>

Prologue ==
  FlattenSeq([i \in 1..3 |-> <<<<"LoadFunc", i - 1>>, <<"AllocClosure", 0>>,
                               <<"StoreGlobal", i - 1>>>>])

Initial ==
  [functions |-> <<[NewFunction("main") EXCEPT !.functions = NativeNames,
                                                !.names = NativeNames]>>,
   tables |-> <<[x \in Range(NativeNames) |-> "GLOBAL"]>>,
   block |-> << >>, lhs |-> FALSE, done |-> << >>]

(* compile: main keeps the names of variables nobody declared, and no      *)
(* indices of references.                                                  *)
Compile(mainBlock) ==
  LET c == Visit(mainBlock, assigns(mainBlock, globals(mainBlock, Initial)))
      main == Finish(Enclosing(c), Prologue \o c.block)
  IN  ("main" :> [main EXCEPT !.local_reference_indices = << >>]) @@ c.done
===============================================================================
