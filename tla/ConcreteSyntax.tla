---------------------------- MODULE ConcreteSyntax ----------------------------
(***************************************************************************)
(* Concrete syntax trees, interpreter/parser_src/CST.h: what the parser    *)
(* builds and the converter turns into the trees of Syntax.                *)
(*                                                                         *)
(* Nodes that `rest` links are a sequence, none of them the empty one. A   *)
(* node that has only one of several children is that child.               *)
(***************************************************************************)

NoNode == [node |-> "nullptr"]

ConstantNode(token) == [node |-> "ConstantNode", value |-> token]
UnitNode(minus, child) == [node |-> "UnitNode", minus |-> minus, child |-> child]

(* first, then <<operator, operand>> pairs: Boolean, Conjunction,          *)
(* Arithmetic and Product nodes, which differ in their operators alone.    *)
ChainNode(first, rest) == [node |-> "ChainNode", first |-> first, rest |-> rest]

PredicateNode(a, cop, b) ==
  [node |-> "PredicateNode", arith_1 |-> a, cop_token |-> cop, arith_2 |-> b]
BoolUnitNode(negate, p) == [node |-> "BoolUnitNode", negate |-> negate, predicate |-> p]
RecordNode(inside) == [node |-> "RecordNode", inside |-> inside]

(* `.name` and `[expr]` after a name.                                      *)
FieldPrime(x) == [node |-> "LHSPrimeNode", part |-> "name", name |-> x]
IndexPrime(e) == [node |-> "LHSPrimeNode", part |-> "expr", expr |-> e]
LHSNode(x, inside) == [node |-> "LHSNode", name |-> x, inside |-> inside]

FunctionNode(args, b) == [node |-> "FunctionNode", args |-> args, block |-> b]
CallNode(l, arguments) == [node |-> "CallNode", lhs |-> l, arguments |-> arguments]

ReturnNode(e) == [node |-> "ReturnNode", expr |-> e]
WhileNode(e, b) == [node |-> "WhileNode", expr |-> e, block |-> b]
IfStatementNode(e, b, f) ==
  [node |-> "IfStatementNode", expr |-> e, block_if |-> b, else_block |-> f]
BlockNode(inside) == [node |-> "BlockNode", inside |-> inside]
CallStatementNode(c) == [node |-> "CallStatementNode", call |-> c]
AssignmentNode(l, e) == [node |-> "AssignmentNode", lhs |-> l, expr |-> e]
GlobalNode(x) == [node |-> "GlobalNode", name |-> x]
ProgramNode(child) == [node |-> "ProgramNode", child |-> child]
===============================================================================
