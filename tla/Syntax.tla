-------------------------------- MODULE Syntax --------------------------------
(***************************************************************************)
(* Syntax trees, interpreter/AST.h: a node is a record with the name of    *)
(* its class. A variable is an AST::Expression itself.                     *)
(***************************************************************************)
EXTENDS Integers, Sequences, FiniteSets, SequencesExt, TLC

Nullptr == [node |-> "nullptr"]

(* Expressions.                                                            *)
IntegerConstant(n) == [node |-> "IntegerConstant", int |-> n]
StringConstant(s) == [node |-> "StringConstant", string |-> s]
BooleanConstant(b) == [node |-> "BooleanConstant", bool |-> b]
NoneConstant == [node |-> "NoneConstant"]
Expression(x) == [node |-> "Expression", name |-> x]
BinaryExpression(l, op, r) ==
  [node |-> "BinaryExpression", left |-> l, op |-> op, right |-> r]
UnaryExpression(op, e) == [node |-> "UnaryExpression", op |-> op, operand |-> e]
FieldDereference(e, k) == [node |-> "FieldDereference", base |-> e, field |-> k]
IndexExpression(e, i) == [node |-> "IndexExpression", base |-> e, index |-> i]
Call(e, args) == [node |-> "Call", target |-> e, arguments |-> args]
Record(fields) == [node |-> "Record", fields |-> fields]
FunctionDeclaration(params, body) ==
  [node |-> "FunctionDeclaration", formals |-> params, body |-> body]

(* Statements; elsePart may be Nullptr.                                    *)
Block(s) == [node |-> "Block", statements |-> s]
Global(x) == [node |-> "Global", name |-> x]
Assignment(l, e) == [node |-> "Assignment", lhs |-> l, expr |-> e]
CallStatement(e) == [node |-> "CallStatement", call |-> e]
IfStatement(e, t, f) ==
  [node |-> "IfStatement", condition |-> e, thenPart |-> t, elsePart |-> f]
WhileLoop(e, b) == [node |-> "WhileLoop", condition |-> e, body |-> b]
Return(e) == [node |-> "Return", expr |-> e]

(* What globals and assigns of compiler and tree interpreter look at: the  *)
(* statements inside s, in order, but not those of functions inside it.    *)
RECURSIVE Simple(_)
Simple(s) ==
  CASE s.node = "Block" -> FlattenSeq([i \in DOMAIN s.statements |-> Simple(s.statements[i])])
    [] s.node = "IfStatement" -> Simple(s.thenPart) \o Simple(s.elsePart)
    [] s.node = "WhileLoop" -> Simple(s.body)
    [] s.node = "nullptr" -> << >>
    [] OTHER -> << s >>

(* `global x` for each x, and x = e for each x.                            *)
Globals(s) == SelectSeq(Simple(s), LAMBDA t : t.node = "Global")
Assigns(s) ==
  SelectSeq(Simple(s), LAMBDA t : t.node = "Assignment" /\ t.lhs.node = "Expression")
===============================================================================
