-------------------------------- MODULE Parser --------------------------------
(***************************************************************************)
(* interpreter/parser_src: the recursive-descent parser, one operator for  *)
(* each function of nonterminals.h.                                        *)
(*                                                                         *)
(* A token is <<type, text>>; the text of a constant is its value and that *)
(* of other tokens than names does not matter. A function takes the state  *)
(* p of the parser and gives the next one:                                 *)
(*   tokens, at   the token stream and its index, from 1                   *)
(*   error        the index of the token reportError was called with, or 0 *)
(*   node         what the function returns                                *)
(* reportError throws: from then on no token is what anyone expects, and   *)
(* every function returns what it was given.                               *)
(***************************************************************************)
EXTENDS ConcreteSyntax, Integers, Sequences

Token(p) == IF p.at \in DOMAIN p.tokens THEN p.tokens[p.at] ELSE <<"EOF", "<EOF>">>
Type(p) == IF p.error # 0 THEN "thrown" ELSE Token(p)[1]
Text(p) == Token(p)[2]

Consume(p) == [p EXCEPT !.at = @ + 1]
Returns(p, n) == IF p.error # 0 THEN p ELSE [p EXCEPT !.node = n]

(* Mutant of reportError: the token after the one that was looked at.      *)
reportErrorNext(p) == IF p.error # 0 THEN p ELSE [p EXCEPT !.error = p.at + 1]

reportError(p) == IF p.error # 0 THEN p ELSE [p EXCEPT !.error = p.at]

Accept(p, type) == IF Type(p) = type THEN Consume(p) ELSE reportError(p)

(* A function by name, where functions call each other in a circle.        *)
RECURSIVE Parse(_, _)

-----------------------------------------------------------------------------
(* Names, what follows them, and calls.                                    *)

RECURSIVE LHSPrime(_)
LHSPrime(p) ==
  LET name == Consume(p)
      expr == Parse("Expression", Consume(p))
      field == LHSPrime(Accept(name, "NAME"))
      index == LHSPrime(Accept(expr, "RBRACKET"))
  IN  CASE Type(p) = "DOT" -> Returns(field, <<FieldPrime(Text(name))>> \o field.node)
        [] Type(p) = "LBRACKET" -> Returns(index, <<IndexPrime(expr.node)>> \o index.node)
        [] OTHER -> Returns(p, << >>)

LHS(p) ==
  LET inside == LHSPrime(Accept(p, "NAME"))
  IN  Returns(inside, LHSNode(Text(p), inside.node))

(* The arguments of a call.                                                *)
RECURSIVE ParameterPrime(_)
ParameterPrime(p) ==
  LET expr == Parse("Expression", Consume(p))
      rest == ParameterPrime(expr)
  IN  IF Type(p) = "COMMA" THEN Returns(rest, <<expr.node>> \o rest.node)
      ELSE Returns(p, << >>)

Parameter(p) ==
  LET expr == Parse("Expression", p)
      rest == ParameterPrime(expr)
  IN  IF Type(p) = "RPAREN" THEN Returns(p, << >>)
      ELSE Returns(rest, <<expr.node>> \o rest.node)

Call(p) ==
  LET lhs == Parse("LHS", p)
      args == Parameter(Accept(lhs, "LPAREN"))
  IN  Returns(Accept(args, "RPAREN"), CallNode(lhs.node, args.node))

-----------------------------------------------------------------------------
(* Expressions, from the operators that bind most to those that bind least.*)

Constant(p) ==
  IF Type(p) \in {"INT", "STRING", "TRUE", "FALSE", "NONE"}
  THEN Returns(Consume(p), ConstantNode(Token(p)))
  ELSE reportError(p)

(* Mutant of Unit: what follows the name is not looked at again.           *)
UnitNoCall(p) ==
  LET minus == Type(p) = "MINUS"
      u == IF minus THEN Consume(p) ELSE p
      boolean == Parse("Boolean", Consume(u))
      lhs == Parse("LHS", u)
      constant == Constant(u)
  IN  CASE Type(u) = "LPAREN" ->
             Returns(Accept(boolean, "RPAREN"), UnitNode(minus, boolean.node))
        [] Type(u) = "NAME" -> Returns(lhs, UnitNode(minus, lhs.node))
        [] OTHER -> Returns(constant, UnitNode(minus, constant.node))

(* Whether a name begins a call shows only after the whole left side: it   *)
(* is then parsed once more.                                               *)
Unit(p) ==
  LET minus == Type(p) = "MINUS"
      u == IF minus THEN Consume(p) ELSE p
      boolean == Parse("Boolean", Consume(u))
      lhs == Parse("LHS", u)
      named == IF Type(lhs) = "LPAREN" THEN Parse("Call", u) ELSE lhs
      constant == Constant(u)
  IN  CASE Type(u) = "LPAREN" ->
             Returns(Accept(boolean, "RPAREN"), UnitNode(minus, boolean.node))
        [] Type(u) = "NAME" -> Returns(named, UnitNode(minus, named.node))
        [] OTHER -> Returns(constant, UnitNode(minus, constant.node))

(* Four functions, and four ...Prime ones, differ in this alone.           *)
Operators ==
  [Boolean |-> {"OR"}, Conjunction |-> {"AND"},
   Arithmetic |-> {"PLUS", "MINUS"}, Product |-> {"MUL", "DIV"}]

RECURSIVE Chain(_, _), Prime(_, _)

Arithmetic(p) == Chain("Arithmetic", p)

Predicate(p) ==
  LET a == Arithmetic(p)
      b == Arithmetic(Consume(a))
  IN  IF Type(a) \in {"LT", "GT", "LE", "GE", "EQ"}
      THEN Returns(b, PredicateNode(a.node, Type(a), b.node))
      ELSE a

BoolUnit(p) ==
  LET negate == Type(p) = "NOT"
      predicate == Predicate(IF negate THEN Consume(p) ELSE p)
  IN  Returns(predicate, BoolUnitNode(negate, predicate.node))

Operand(level, p) ==
  CASE level = "Boolean" -> Chain("Conjunction", p)
    [] level = "Conjunction" -> BoolUnit(p)
    [] level = "Arithmetic" -> Chain("Product", p)
    [] level = "Product" -> Parse("Unit", p)

Prime(level, p) ==
  LET operand == Operand(level, Consume(p))
      rest == Prime(level, operand)
  IN  IF Type(p) \in Operators[level]
      THEN Returns(rest, <<<<Type(p), operand.node>>>> \o rest.node)
      ELSE Returns(p, << >>)

Chain(level, p) ==
  LET first == Operand(level, p)
      rest == Prime(level, first)
  IN  IF first.error # 0 THEN first ELSE Returns(rest, ChainNode(first.node, rest.node))

Boolean(p) == Chain("Boolean", p)

-----------------------------------------------------------------------------
(* Records and functions.                                                  *)

(* A name without a colon is itself reported, not what follows it.         *)
RECURSIVE RecordPrime(_)
RecordPrime(p) ==
  LET colon == Consume(p)
      expr == Parse("Expression", Consume(colon))
      rest == RecordPrime(Accept(expr, "SEMICOLON"))
  IN  CASE Type(p) = "NAME" /\ Type(colon) = "COLON" ->
             Returns(rest, <<<<Text(p), expr.node>>>> \o rest.node)
        [] Type(p) = "RBRACE" -> Returns(p, << >>)
        [] OTHER -> reportError(p)

Record(p) ==
  LET inside == RecordPrime(Accept(p, "LBRACE"))
  IN  Returns(Accept(inside, "RBRACE"), RecordNode(inside.node))

(* The parameters of a function.                                           *)
RECURSIVE ArgumentPrime(_)
ArgumentPrime(p) ==
  LET name == Consume(p)
      rest == ArgumentPrime(Accept(name, "NAME"))
  IN  IF Type(p) = "COMMA" THEN Returns(rest, <<Text(name)>> \o rest.node)
      ELSE Returns(p, << >>)

Argument(p) ==
  LET rest == ArgumentPrime(Accept(p, "NAME"))
  IN  IF Type(p) = "RPAREN" THEN Returns(p, << >>)
      ELSE Returns(rest, <<Text(p)>> \o rest.node)

Function(p) ==
  LET args == Argument(Accept(Accept(p, "FUN"), "LPAREN"))
      block == Parse("Block", Accept(args, "RPAREN"))
  IN  Returns(block, FunctionNode(args.node, block.node))

Expression(p) ==
  CASE Type(p) = "LBRACE" -> Record(p)
    [] Type(p) = "FUN" -> Function(p)
    [] OTHER -> Parse("Boolean", p)

-----------------------------------------------------------------------------
(* Statements.                                                             *)

Global(p) ==
  LET name == Accept(p, "GLOBAL")
  IN  Returns(Accept(Accept(name, "NAME"), "SEMICOLON"), GlobalNode(Text(name)))

Return(p) ==
  LET expr == Parse("Expression", Accept(p, "RETURN"))
  IN  Returns(Accept(expr, "SEMICOLON"), ReturnNode(expr.node))

Assignment(p) ==
  LET lhs == Parse("LHS", p)
      expr == Parse("Expression", Accept(lhs, "ASSIGN"))
  IN  Returns(Accept(expr, "SEMICOLON"), AssignmentNode(lhs.node, expr.node))

CallStatement(p) ==
  LET call == Parse("Call", p)
  IN  Returns(Accept(call, "SEMICOLON"), CallStatementNode(call.node))

While(p) ==
  LET expr == Parse("Expression", Accept(Accept(p, "WHILE"), "LPAREN"))
      block == Parse("Block", Accept(expr, "RPAREN"))
  IN  Returns(block, WhileNode(expr.node, block.node))

Else(p) == IF Type(p) = "ELSE" THEN Parse("Block", Consume(p)) ELSE Returns(p, NoNode)

IfStatement(p) ==
  LET expr == Parse("Expression", Accept(Accept(p, "IF"), "LPAREN"))
      block == Parse("Block", Accept(expr, "RPAREN"))
      else == Else(block)
  IN  Returns(else, IfStatementNode(expr.node, block.node, else.node))

(* Mutant of NamedStatement: the token that is reported is the first one.   *)
NamedStatementFirst(p) ==
  LET lhs == Parse("LHS", p)
  IN  CASE Type(lhs) = "ASSIGN" -> Assignment(p)
        [] Type(lhs) = "LPAREN" -> CallStatement(p)
        [] OTHER -> reportError([lhs EXCEPT !.at = p.at])

(* Which statement a name begins shows only after the left side, which is  *)
(* then parsed once more.                                                  *)
NamedStatement(p) ==
  LET lhs == Parse("LHS", p)
  IN  CASE Type(lhs) = "ASSIGN" -> Assignment(p)
        [] Type(lhs) = "LPAREN" -> CallStatement(p)
        [] OTHER -> reportError(lhs)

Statement(p) ==
  CASE Type(p) = "GLOBAL" -> Global(p)
    [] Type(p) = "IF" -> IfStatement(p)
    [] Type(p) = "WHILE" -> While(p)
    [] Type(p) = "RETURN" -> Return(p)
    [] OTHER -> NamedStatement(p)

RECURSIVE BlockPrime(_)
BlockPrime(p) ==
  LET statement == Parse("Statement", p)
      rest == BlockPrime(statement)
  IN  IF Type(p) \in {"RBRACE", "EOF", "thrown"} THEN Returns(p, << >>)
      ELSE Returns(rest, <<statement.node>> \o rest.node)

Block(p) ==
  LET inside == BlockPrime(Accept(p, "LBRACE"))
  IN  Returns(Accept(inside, "RBRACE"), BlockNode(inside.node))

RECURSIVE StatementList(_)
StatementList(p) ==
  LET statement == Parse("Statement", p)
      rest == StatementList(statement)
  IN  IF Type(p) \in {"EOF", "thrown"} THEN Returns(p, << >>)
      ELSE Returns(rest, <<statement.node>> \o rest.node)

Parse(function, p) ==
  CASE function = "LHS" -> LHS(p)
    [] function = "Call" -> Call(p)
    [] function = "Unit" -> Unit(p)
    [] function = "Boolean" -> Boolean(p)
    [] function = "Expression" -> Expression(p)
    [] function = "Statement" -> Statement(p)
    [] function = "Block" -> Block(p)
    [] function = "StatementList" -> StatementList(p)

(* The list ends at the end of the input: there is nothing else to check.  *)
Program(tokens) ==
  LET start == [tokens |-> tokens, at |-> 1, error |-> 0, node |-> << >>]
      list == Parse("StatementList", start)
  IN  Returns(list, ProgramNode(list.node))
=============================================================================
