---------------------------- MODULE TreeInterpreter ----------------------------
(***************************************************************************)
(* interpreter/interpreter_src: what a program does, by walking its tree.  *)
(*                                                                         *)
(* A visit takes the state r of the interpreter and gives the next one:    *)
(*   frames       every frame made; frames[1] is the global one            *)
(*   top          stack.top()                                              *)
(*   records      every record made                                        *)
(*   rval, return_flag, output                                             *)
(*   exception    "none", or what was thrown: later visits do nothing      *)
(*                                                                         *)
(* A tree is a value here and visits leave it alone. globals() and         *)
(* assigns() of data_functions.cpp copy the nodes they look at, and the    *)
(* destructors of AST.cpp, made for the compiler, free what the copies     *)
(* point to: the model is of the interpreter without those destructors.    *)
(***************************************************************************)
EXTENDS Syntax

CONSTANTS
  FieldOrder,   \* bound: the field names programs use, in lexical order
  Line,         \* what the user types
  Atoi,         \* atoi() of the C library, where it does not give 0
  INT_MAX       \* bound: the largest int; the code's has 32 bits

None == [kind |-> "None"]
Integer(n) == [kind |-> "Integer", int |-> n]
String(s) == [kind |-> "String", string |-> s]
Bool(b) == [kind |-> "Bool", bool |-> b]

Frame(parent) == [map |-> << >>, parent |-> parent, global_variables |-> {}]

Assign(map, x, v) == (x :> v) @@ map

-----------------------------------------------------------------------------
(* Variables: a global declaration first, then this frame, then its parent.*)

lookup_write(r, x) ==
  IF x \in r.frames[r.top].global_variables THEN 1 ELSE r.top

(* The frame x is read from; 0 when no frame has it.                       *)
RECURSIVE lookup_read(_, _, _)
lookup_read(r, f, x) ==
  LET frame == r.frames[f]
  IN  IF x \in frame.global_variables /\ x \in DOMAIN r.frames[1].map THEN 1
      ELSE IF x \in DOMAIN frame.map THEN f
      ELSE IF frame.parent # 0 THEN lookup_read(r, frame.parent, x)
      ELSE 0

-----------------------------------------------------------------------------
(* Results.                                                                *)

Threw(r) == r.exception # "none"
Throw(r, e) == [r EXCEPT !.exception = e]
Result(r, v) == [r EXCEPT !.rval = v]

(* r after a visit, then F of it, unless the visit threw.                  *)
After(r, F(_)) == IF Threw(r) THEN r ELSE F(r)

RECURSIVE string_cast(_, _)
string_cast(v, r) ==
  CASE v.kind = "String" -> v.string
    [] v.kind = "Bool" -> IF v.bool THEN "true" ELSE "false"
    [] v.kind = "Integer" -> ToString(v.int)
    [] v.kind = "None" -> "None"
    [] v.kind = "Record" ->
         LET map == r.records[v.record]
             keys == SelectSeq(FieldOrder, LAMBDA k : k \in DOMAIN map)
         IN  "{" \o FoldLeft(LAMBDA s, k : s \o k \o ":" \o string_cast(map[k], r) \o " ",
                             "", keys) \o "}"
    [] OTHER -> "FUNCTION"

-----------------------------------------------------------------------------
RECURSIVE Visit(_, _)

(* The nodes in order, until one throws: the state, and their values.      *)
Values(nodes, r) ==
  FoldLeft(LAMBDA d, n :
             IF Threw(d.state) THEN d
             ELSE LET e == Visit(n, d.state)
                  IN  [state |-> e, values |-> Append(d.values, e.rval)],
           [state |-> r, values |-> << >>], nodes)

(* Expressions without effect.                                             *)

variableRead(n, r) ==
  LET f == lookup_read(r, r.top, n.name)
  IN  IF f = 0 THEN Throw(r, "UninitializedVariableException")
      ELSE Result(r, r.frames[f].map[n.name])

(* Too large a result wraps, as in the machine.                            *)
INT_MIN == -INT_MAX - 1
Wrap(n) == ((n - INT_MIN) % (2 * INT_MAX + 2)) + INT_MIN

Quotient(a, b) ==
  LET Abs(n) == IF n < 0 THEN -n ELSE n
      q == Abs(a) \div Abs(b)
  IN  IF (a < 0) = (b < 0) THEN q ELSE -q

Both(kind, a, b) == a.kind = kind /\ b.kind = kind

arithmetic(op, a, b, r) ==
  IF ~Both("Integer", a, b) THEN Throw(r, "IllegalCastException")
  ELSE IF op = "DIV" /\ b.int = 0 THEN Throw(r, "IllegalArithmeticException")
  ELSE IF op = "DIV" /\ b.int = -1 /\ a.int = INT_MIN THEN Throw(r, "trap")
  ELSE Result(r, Integer(Wrap(CASE op = "PLUS" -> a.int + b.int
                                [] op = "SUB" -> a.int - b.int
                                [] op = "MUL" -> a.int * b.int
                                [] op = "DIV" -> Quotient(a.int, b.int))))

evalPlus(a, b, r) ==
  IF "String" \in {a.kind, b.kind}
  THEN Result(r, String(string_cast(a, r) \o string_cast(b, r)))
  ELSE arithmetic("PLUS", a, b, r)

logical(op, a, b, r) ==
  IF ~Both("Bool", a, b) THEN Throw(r, "IllegalCastException")
  ELSE Result(r, Bool(IF op = "OR" THEN a.bool \/ b.bool ELSE a.bool /\ b.bool))

comparison(op, a, b, r) ==
  IF ~Both("Integer", a, b) THEN Throw(r, "IllegalCastException")
  ELSE Result(r, Bool(CASE op = "GT" -> a.int > b.int
                        [] op = "LT" -> a.int < b.int
                        [] op = "GEQ" -> a.int >= b.int
                        [] op = "LEQ" -> a.int <= b.int))

(* No two functions are equal.                                             *)
equality(a, b, r) ==
  Result(r, Bool(a.kind = b.kind /\ a.kind \notin {"Function", "NativeFunction"} /\ a = b))

(* Both operands are evaluated, the left one first, also of & and |.       *)
binary(n, r) ==
  LET d == Values(<<n.left, n.right>>, r)
      a == d.values[1]
      b == d.values[2]
  IN  IF Threw(d.state) THEN d.state
      ELSE CASE n.op = "PLUS" -> evalPlus(a, b, d.state)
             [] n.op \in {"SUB", "MUL", "DIV"} -> arithmetic(n.op, a, b, d.state)
             [] n.op \in {"AND", "OR"} -> logical(n.op, a, b, d.state)
             [] n.op \in {"GT", "LT", "GEQ", "LEQ"} -> comparison(n.op, a, b, d.state)
             [] n.op = "EQ" -> equality(a, b, d.state)

unary(n, r) ==
  After(Visit(n.operand, r), LAMBDA d :
    IF n.op = "SUB" /\ d.rval.kind = "Integer" THEN Result(d, Integer(Wrap(-d.rval.int)))
    ELSE IF n.op = "NEG" /\ d.rval.kind = "Bool" THEN Result(d, Bool(~d.rval.bool))
    ELSE Throw(d, "IllegalCastException"))

-----------------------------------------------------------------------------
(* Records.                                                                *)

record(n, r) ==
  LET d == Values([i \in DOMAIN n.fields |-> n.fields[i][2]], r)
      map == FoldLeft(LAMBDA m, i : Assign(m, n.fields[i][1], d.values[i]), << >>,
                      [i \in DOMAIN n.fields |-> i])
  IN  After(d.state, LAMBDA e :
        [Result(e, [kind |-> "Record", record |-> Len(e.records) + 1]) EXCEPT
           !.records = Append(@, map)])

(* The record and the field that e.k or e[i] names; the base is checked    *)
(* before the index is evaluated.                                          *)
Field(n, r) ==
  LET base == Visit(n.base, r)
      checked == After(base, LAMBDA d :
                   IF d.rval.kind = "Record" THEN d ELSE Throw(d, "IllegalCastException"))
  IN  IF Threw(checked) THEN [state |-> checked]
      ELSE IF n.node = "FieldDereference"
      THEN [state |-> checked, record |-> base.rval.record, field |-> n.field]
      ELSE LET index == Visit(n.index, checked)
           IN  IF Threw(index) THEN [state |-> index]
               ELSE [state |-> index, record |-> base.rval.record,
                     field |-> string_cast(index.rval, index)]

fieldRead(n, r) ==
  LET at == Field(n, r)
  IN  After(at.state, LAMBDA d :
        LET map == d.records[at.record]
        IN  Result(d, IF at.field \in DOMAIN map THEN map[at.field] ELSE None))

-----------------------------------------------------------------------------
(* Functions.                                                              *)

function(n, r) ==
  Result(r, [kind |-> "Function", frame |-> r.top, formals |-> n.formals, body |-> n.body])

Native(name, formals) ==
  [kind |-> "NativeFunction", frame |-> 0, formals |-> formals, name |-> name]

(* In the frame of the call. print returns nothing; of the others only the *)
(* string case of intcast is like the machine's.                           *)
native(f, r) ==
  LET s == r.frames[r.top].map["s"]
      Returns(v) == [Result(r, v) EXCEPT !.return_flag = TRUE]
  IN  CASE f.name = "print" -> [r EXCEPT !.output = Append(@, string_cast(s, r))]
        [] f.name = "input" -> Returns(String(Line))
        [] f.name = "intcast" ->
             CASE s.kind = "Integer" -> Returns(s)
               [] s.kind = "Bool" -> Returns(Integer(IF s.bool THEN 1 ELSE 0))
               [] s.kind = "None" -> Returns(Integer(0))
               [] s.kind = "String" ->
                    LET n == IF s.string \in DOMAIN Atoi THEN Atoi[s.string] ELSE 0
                    IN  IF n = 0 /\ s.string # "0" THEN Throw(r, "IllegalCastException")
                        ELSE Returns(Integer(n))
               [] OTHER -> Throw(r, "IllegalCastException")

(* A new frame: None for what the body assigns, then the arguments.        *)
Enter(f, arguments, r) ==
  LET body == IF f.kind = "NativeFunction" THEN Nullptr ELSE f.body
      names(statements) == {statements[i] : i \in DOMAIN statements}
      assigned == {t.lhs.name : t \in names(Assigns(body))}
      map == FoldLeft(LAMBDA m, i : Assign(m, f.formals[i], arguments[i]),
                      [x \in assigned |-> None], [i \in DOMAIN f.formals |-> i])
      frame == [Frame(f.frame) EXCEPT
                  !.map = map,
                  !.global_variables = {t.name : t \in names(Globals(body))}]
  IN  [r EXCEPT !.frames = Append(@, frame), !.top = Len(r.frames) + 1]

(* The frame is popped; None unless the body returned.                     *)
Leave(caller, r) ==
  [r EXCEPT !.top = caller, !.return_flag = FALSE,
            !.rval = IF r.return_flag THEN @ ELSE None]

functionCall(n, r) ==
  After(Visit(n.target, r), LAMBDA d :
    LET f == d.rval
        args == Values(n.arguments, d)
    IN  IF f.kind \notin {"Function", "NativeFunction"}
        THEN Throw(d, "IllegalCastException")
        ELSE After(args.state, LAMBDA e :
               IF Len(args.values) # Len(f.formals) THEN Throw(e, "RuntimeException")
               ELSE LET inside == Enter(f, args.values, e)
                    IN  After(IF f.kind = "NativeFunction" THEN native(f, inside)
                              ELSE Visit(f.body, inside),
                              LAMBDA b : Leave(r.top, b))))

-----------------------------------------------------------------------------
(* Statements.                                                             *)

(* Where the value goes is settled before the value is computed.           *)
assignment(n, r) ==
  IF n.lhs.node = "Expression"
  THEN After(Visit(n.expr, r), LAMBDA d :
         [d EXCEPT !.frames[lookup_write(r, n.lhs.name)].map = Assign(@, n.lhs.name, d.rval)])
  ELSE LET at == Field(n.lhs, r)
       IN  After(at.state, LAMBDA s :
             After(Visit(n.expr, s), LAMBDA d :
               [d EXCEPT !.records[at.record] = Assign(@, at.field, d.rval)]))

(* A while loop is an if whose body is followed by the loop.               *)
conditional(n, thenPart, elsePart, r) ==
  After(Visit(n.condition, r), LAMBDA d :
    IF d.rval.kind # "Bool" THEN Throw(d, "IllegalCastException")
    ELSE Visit(IF d.rval.bool THEN thenPart ELSE elsePart, d))

Visit(n, r) ==
  CASE n.node = "Block" ->
         FoldLeft(LAMBDA d, s : IF Threw(d) \/ d.return_flag THEN d ELSE Visit(s, d),
                  r, n.statements)
    [] n.node \in {"Global", "nullptr"} -> r
    [] n.node = "Assignment" -> assignment(n, r)
    [] n.node = "CallStatement" -> Visit(n.call, r)
    [] n.node = "IfStatement" -> conditional(n, n.thenPart, n.elsePart, r)
    [] n.node = "WhileLoop" -> conditional(n, Block(<<n.body, n>>), Nullptr, r)
    [] n.node = "Return" ->
         After(Visit(n.expr, r), LAMBDA d : [d EXCEPT !.return_flag = TRUE])
    [] n.node = "Expression" -> variableRead(n, r)
    [] n.node = "BinaryExpression" -> binary(n, r)
    [] n.node = "UnaryExpression" -> unary(n, r)
    [] n.node \in {"FieldDereference", "IndexExpression"} -> fieldRead(n, r)
    [] n.node = "Call" -> functionCall(n, r)
    [] n.node = "Record" -> record(n, r)
    [] n.node = "FunctionDeclaration" -> function(n, r)
    [] n.node = "IntegerConstant" -> Result(r, Integer(n.int))
    [] n.node = "StringConstant" -> Result(r, String(n.string))
    [] n.node = "BooleanConstant" -> Result(r, Bool(n.bool))
    [] n.node = "NoneConstant" -> Result(r, None)

-----------------------------------------------------------------------------
(* The program: the native functions are variables of the global frame.    *)

Initial ==
  [frames |-> <<[Frame(0) EXCEPT
                   !.map = [print |-> Native("print", <<"s">>),
                            intcast |-> Native("intcast", <<"s">>),
                            input |-> Native("input", << >>)]]>>,
   top |-> 1, records |-> << >>, rval |-> None, return_flag |-> FALSE,
   output |-> << >>, exception |-> "none"]

Run(mainBlock) == Visit(mainBlock, Initial)
================================================================================
