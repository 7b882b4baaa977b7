---------------------------- MODULE TreeConverter ----------------------------
(***************************************************************************)
(* interpreter/parser_src/TreeConverter.cpp and parser.h: from tokens to   *)
(* the tree the compiler and the tree interpreter visit.                   *)
(***************************************************************************)
EXTENDS Syntax

CONSTANT
  INT_MAX       \* bound: the largest int; the code's has 32 bits

P == INSTANCE Parser

RECURSIVE convert(_)

convertAll(nodes) == [i \in DOMAIN nodes |-> convert(nodes[i])]

convert_operator ==
  [PLUS |-> "PLUS", MINUS |-> "SUB", MUL |-> "MUL", DIV |-> "DIV", OR |-> "OR",
   AND |-> "AND", NOT |-> "NEG", LT |-> "LT", GT |-> "GT", LE |-> "LEQ",
   GE |-> "GEQ", EQ |-> "EQ"]

convertConstant(n) ==
  CASE n.value[1] = "INT" -> IntegerConstant(n.value[2])
    [] n.value[1] = "STRING" -> StringConstant(n.value[2])
    [] n.value[1] = "NONE" -> NoneConstant
    [] n.value[1] = "TRUE" -> BooleanConstant(TRUE)
    [] n.value[1] = "FALSE" -> BooleanConstant(FALSE)

convertUnit(n) ==
  IF n.minus THEN UnaryExpression(convert_operator["MINUS"], convert(n.child))
  ELSE convert(n.child)

convertPredicate(n) ==
  BinaryExpression(convert(n.arith_1), convert_operator[n.cop_token], convert(n.arith_2))

convertBoolUnit(n) ==
  IF n.negate THEN UnaryExpression(convert_operator["NOT"], convert(n.predicate))
  ELSE convert(n.predicate)

(* Mutant of convertChain: the operators associate to the right.           *)
RECURSIVE RightChain(_, _)
RightChain(first, rest) ==
  IF rest = << >> THEN convert(first)
  ELSE BinaryExpression(convert(first), convert_operator[Head(rest)[1]],
                        RightChain(Head(rest)[2], Tail(rest)))

convertChainRight(n) == RightChain(n.first, n.rest)

(* What is converted so far is the left operand of the next operator.      *)
convertChain(n) ==
  FoldLeft(LAMBDA left, r : BinaryExpression(left, convert_operator[r[1]], convert(r[2])),
           convert(n.first), n.rest)

convertRecord(n) ==
  Record([i \in DOMAIN n.inside |-> <<n.inside[i][1], convert(n.inside[i][2])>>])

convertLHS(n) ==
  FoldLeft(LAMBDA left, r : IF r.part = "name" THEN FieldDereference(left, r.name)
                            ELSE IndexExpression(left, convert(r.expr)),
           Expression(n.name), n.inside)

convertCall(n) == Call(convert(n.lhs), convertAll(n.arguments))

convertFunction(n) == FunctionDeclaration(n.args, convert(n.block))

convertIf(n) ==
  IfStatement(convert(n.expr), convert(n.block_if),
              IF n.else_block = P!NoNode THEN Nullptr ELSE convert(n.else_block))

(* A program without statements has no block, unlike a function.           *)
convertProgram(n) ==
  IF n.child = << >> THEN Nullptr ELSE Block(convertAll(n.child))

convert(n) ==
  CASE n.node = "ConstantNode" -> convertConstant(n)
    [] n.node = "UnitNode" -> convertUnit(n)
    [] n.node = "PredicateNode" -> convertPredicate(n)
    [] n.node = "BoolUnitNode" -> convertBoolUnit(n)
    [] n.node = "ChainNode" -> convertChain(n)
    [] n.node = "RecordNode" -> convertRecord(n)
    [] n.node = "LHSNode" -> convertLHS(n)
    [] n.node = "CallNode" -> convertCall(n)
    [] n.node = "FunctionNode" -> convertFunction(n)
    [] n.node = "GlobalNode" -> Global(n.name)
    [] n.node = "AssignmentNode" -> Assignment(convert(n.lhs), convert(n.expr))
    [] n.node = "CallStatementNode" -> CallStatement(convert(n.call))
    [] n.node = "ReturnNode" -> Return(convert(n.expr))
    [] n.node = "WhileNode" -> WhileLoop(convert(n.expr), convert(n.block))
    [] n.node = "IfStatementNode" -> convertIf(n)
    [] n.node = "BlockNode" -> Block(convertAll(n.inside))
    [] n.node = "ProgramNode" -> convertProgram(n)

-----------------------------------------------------------------------------
(* stoi throws std::out_of_range, which nobody catches. Every INT token of *)
(* a program that parses is a constant of its tree.                        *)
OutOfRange(tokens) == \E i \in DOMAIN tokens : tokens[i][1] = "INT" /\ tokens[i][2] > INT_MAX

(* The main block of the program; an error is printed and nothing returned.*)
Result(parsed) ==
  CASE parsed.error # 0 -> [status |-> "reported", at |-> parsed.error]
    [] parsed.error = 0 /\ OutOfRange(parsed.tokens) -> [status |-> "terminated"]
    [] OTHER -> [status |-> "parsed", mainBlock |-> convert(parsed.node)]

ParseProgram(tokens) == Result(P!Program(tokens))
==============================================================================
