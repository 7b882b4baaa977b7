-------------------------------- MODULE Grammar --------------------------------
(***************************************************************************)
(* The grammar of MITScript, specification.pdf page 10: what the parser is *)
(* held against. A nonterminal is an operator that gives, for a sequence   *)
(* of tokens, the set of trees derived from it: one, or none. Operators    *)
(* are left-recursive, so that they associate to the left.                 *)
(***************************************************************************)
EXTENDS Syntax

Is(s, i, type) == i \in DOMAIN s /\ s[i][1] = type
At(s, types) == {i \in DOMAIN s : s[i][1] \in types}
Before(s, i) == SubSeq(s, 1, i - 1)
After(s, i) == SubSeq(s, i + 1, Len(s))
Between(s, i) == SubSeq(s, i + 1, Len(s) - 1)
Ends(s, type) == Is(s, Len(s), type)

(* The tokens of s have these types.                                       *)
Are(s, types) == Len(s) = Len(types) /\ \A i \in DOMAIN s : s[i][1] = types[i]

(* What a nonterminal derives, by name, where they refer to each other in  *)
(* a circle.                                                               *)
RECURSIVE Trees(_, _)

Constants(s) ==
  IF Len(s) # 1 THEN {}
  ELSE LET value == s[1][2]
       IN  CASE s[1][1] = "INT" -> {IntegerConstant(value)}
             [] s[1][1] = "STRING" -> {StringConstant(value)}
             [] s[1][1] = "TRUE" -> {BooleanConstant(TRUE)}
             [] s[1][1] = "FALSE" -> {BooleanConstant(FALSE)}
             [] s[1][1] = "NONE" -> {NoneConstant}
             [] OTHER -> {}

(* LHS ::= name | LHS . name | LHS [ Expression ]                          *)
Lefts(s) ==
  LET n == Len(s)
  IN  {Expression(s[1][2]) : i \in {1} \cap {n} \cap At(s, {"NAME"})}
        \cup {FieldDereference(e, s[n][2]) :
                e \in IF Is(s, n - 1, "DOT") /\ Is(s, n, "NAME") THEN Trees("Lefts", Before(s, n - 1))
                      ELSE {}}
        \cup UNION {{IndexExpression(e, k) : e \in Trees("Lefts", Before(s, i)),
                                             k \in Trees("Expressions", Between(s, i))} :
                      i \in IF Ends(s, "RBRACKET") THEN At(s, {"LBRACKET"}) ELSE {}}

(* Call ::= LHS ( (Expression (, Expression)* )? )                         *)
RECURSIVE Lists(_)
Lists(s) ==
  {<<e>> : e \in Trees("Expressions", s)}
    \cup UNION {{Append(l, e) : l \in Lists(Before(s, i)), e \in Trees("Expressions", After(s, i))} :
                  i \in At(s, {"COMMA"})}

Calls(s) ==
  UNION {{Call(e, a) : e \in Trees("Lefts", Before(s, i)),
                       a \in IF Between(s, i) = << >> THEN {<< >>} ELSE Lists(Between(s, i))} :
           i \in IF Ends(s, "RPAREN") THEN At(s, {"LPAREN"}) ELSE {}}

(* Unit ::= -? (LHS | Constant | Call | ( Boolean ) )                      *)
Primaries(s) ==
  Trees("Lefts", s) \cup Constants(s) \cup Calls(s)
    \cup (IF Is(s, 1, "LPAREN") /\ Ends(s, "RPAREN") THEN Trees("Booleans", Between(s, 1)) ELSE {})

Units(s) ==
  IF Is(s, 1, "MINUS") THEN {UnaryExpression("SUB", e) : e \in Trees("Primaries", After(s, 1))}
  ELSE Trees("Primaries", s)

Operator ==
  [PLUS |-> "PLUS", MINUS |-> "SUB", MUL |-> "MUL", DIV |-> "DIV", OR |-> "OR",
   AND |-> "AND", LT |-> "LT", GT |-> "GT", LE |-> "LEQ", GE |-> "GEQ", EQ |-> "EQ"]

(* An operand, or what `left` derives and an operator and an operand.       *)
Operations(left, types, operand, s) ==
  Trees(operand, s) \cup
    UNION {{BinaryExpression(l, Operator[s[i][1]], r) : l \in Trees(left, Before(s, i)),
                                                        r \in Trees(operand, After(s, i))} :
             i \in At(s, types)}

Products(s) == Operations("Products", {"MUL", "DIV"}, "Units", s)

Arithmetics(s) == Operations("Arithmetics", {"PLUS", "MINUS"}, "Products", s)

Predicates(s) == Operations("Arithmetics", {"LT", "GT", "LE", "GE", "EQ"}, "Arithmetics", s)

BooleanUnits(s) ==
  IF Is(s, 1, "NOT") THEN {UnaryExpression("NEG", e) : e \in Trees("Predicates", After(s, 1))}
  ELSE Trees("Predicates", s)

Conjunctions(s) == Operations("Conjunctions", {"AND"}, "BooleanUnits", s)

Booleans(s) == Operations("Booleans", {"OR"}, "Conjunctions", s)

(* Block ::= { Statement* }                                                *)
Blocks(s) ==
  IF Is(s, 1, "LBRACE") /\ Ends(s, "RBRACE") /\ Len(s) > 1
  THEN {Block(b) : b \in Trees("Statements", Between(s, 1))} ELSE {}

(* Function ::= fun ( (name (, name)* )? ) Block                           *)
IsNames(s) ==
  /\ s # << >> => Len(s) % 2 = 1
  /\ \A i \in DOMAIN s : s[i][1] = (IF i % 2 = 1 THEN "NAME" ELSE "COMMA")

FunctionsOf(s) ==
  UNION {LET names == SubSeq(s, 3, i - 1)
         IN  {FunctionDeclaration([j \in 1..((Len(names) + 1) \div 2) |-> names[2 * j - 1][2]], b) :
                b \in IF IsNames(names) THEN Blocks(After(s, i)) ELSE {}} :
           i \in IF Is(s, 1, "FUN") /\ Is(s, 2, "LPAREN") THEN At(s, {"RPAREN"}) ELSE {}}

(* Record ::= { (name : Expression ;)* }                                   *)
RECURSIVE Fields(_)
Fields(s) ==
  IF s = << >> THEN {<< >>}
  ELSE IF ~(Is(s, 1, "NAME") /\ Is(s, 2, "COLON")) THEN {}
  ELSE UNION {{<<<<s[1][2], e>>>> \o f : e \in Trees("Expressions", SubSeq(s, 3, i - 1)),
                                         f \in Fields(After(s, i))} : i \in At(s, {"SEMICOLON"})}

Records(s) ==
  IF Is(s, 1, "LBRACE") /\ Ends(s, "RBRACE") /\ Len(s) > 1
  THEN {Record(f) : f \in Fields(Between(s, 1))} ELSE {}

(* Expression ::= Function | Boolean | Record                              *)
Expressions(s) == IF s = << >> THEN {} ELSE FunctionsOf(s) \cup Trees("Booleans", s) \cup Records(s)

(* The part of a statement before its semicolon.                           *)
Simples(s) ==
  UNION {{Assignment(l, e) : l \in Trees("Lefts", Before(s, i)), e \in Trees("Expressions", After(s, i))} :
           i \in At(s, {"ASSIGN"})}
    \cup {CallStatement(e) : e \in Calls(s)}
    \cup (IF Are(s, <<"GLOBAL", "NAME">>) THEN {Global(s[2][2])} ELSE {})
    \cup (IF Is(s, 1, "RETURN") THEN {Return(e) : e \in Trees("Expressions", After(s, 1))} ELSE {})

(* if ( Expression ) Block (else Block)?   while ( Expression ) Block      *)
Guards(s, i) == Trees("Expressions", SubSeq(s, 3, i - 1))

Structured(s) ==
  LET closings == IF Is(s, 2, "LPAREN") THEN At(s, {"RPAREN"}) ELSE {}
  IN  UNION {IF Is(s, 1, "WHILE")
             THEN {WhileLoop(e, b) : e \in Guards(s, i), b \in Blocks(After(s, i))}
             ELSE IF ~Is(s, 1, "IF") THEN {}
             ELSE {IfStatement(e, b, Nullptr) : e \in Guards(s, i), b \in Blocks(After(s, i))}
                    \cup UNION {{IfStatement(e, b, c) : e \in Guards(s, i),
                                                        b \in Blocks(SubSeq(s, i + 1, j - 1)),
                                                        c \in Blocks(After(s, j))} :
                                  j \in At(s, {"ELSE"})} : i \in closings}

Statements(s) ==
  IF s = << >> THEN {<< >>}
  ELSE UNION {{<<t>> \o rest : t \in IF Is(s, i, "SEMICOLON") THEN Simples(Before(s, i))
                                     ELSE Structured(SubSeq(s, 1, i)),
                               rest \in Trees("Statements", After(s, i))} :
                i \in At(s, {"SEMICOLON", "RBRACE"})}

Trees(nonterminal, s) ==
  CASE nonterminal = "Lefts" -> Lefts(s)
    [] nonterminal = "Primaries" -> Primaries(s)
    [] nonterminal = "Units" -> Units(s)
    [] nonterminal = "Products" -> Products(s)
    [] nonterminal = "Arithmetics" -> Arithmetics(s)
    [] nonterminal = "Predicates" -> Predicates(s)
    [] nonterminal = "BooleanUnits" -> BooleanUnits(s)
    [] nonterminal = "Conjunctions" -> Conjunctions(s)
    [] nonterminal = "Booleans" -> Booleans(s)
    [] nonterminal = "Expressions" -> Expressions(s)
    [] nonterminal = "Statements" -> Statements(s)

-----------------------------------------------------------------------------
(* A program with the tree e, with the parentheses that are needed. An     *)
(* operator binds as strongly as the nonterminal it belongs to; functions  *)
(* and records only stand where an Expression does, at 0.                  *)

Strength ==
  [OR |-> 1, AND |-> 2, NEG |-> 3, LT |-> 4, GT |-> 4, LEQ |-> 4, GEQ |-> 4, EQ |-> 4,
   PLUS |-> 5, SUB |-> 5, MUL |-> 6, DIV |-> 6]

Binds(e) ==
  CASE e.node = "BinaryExpression" -> Strength[e.op]
    [] e.node = "UnaryExpression" -> IF e.op = "SUB" THEN 7 ELSE Strength[e.op]
    [] e.node \in {"FunctionDeclaration", "Record"} -> 0
    [] OTHER -> 8

Sign(type) == <<<<type, "">>>>
Name(x) == <<<<"NAME", x>>>>
OperatorToken(op) == Sign(CHOOSE type \in DOMAIN Operator : Operator[type] = op)
Concat(seqs) == FlattenSeq(seqs)
Separated(seqs) ==
  Concat([i \in DOMAIN seqs |-> IF i = 1 THEN seqs[i] ELSE Sign("COMMA") \o seqs[i]])

RECURSIVE Write(_), WriteAt(_, _)

(* e where something that binds at least as strongly as `least` may stand. *)
WriteAt(least, e) ==
  IF Binds(e) >= least THEN Write(e)
  ELSE Sign("LPAREN") \o Write(e) \o Sign("RPAREN")

WriteBinary(e) ==
  LET n == Strength[e.op]
  IN  WriteAt(IF n = 4 THEN 5 ELSE n, e.left) \o OperatorToken(e.op) \o WriteAt(n + 1, e.right)

WriteBlock(b) ==
  Sign("LBRACE") \o Concat([i \in DOMAIN b.statements |-> Write(b.statements[i])])
    \o Sign("RBRACE")

Paren(s) == Sign("LPAREN") \o s \o Sign("RPAREN")

Write(e) ==
  CASE e.node = "nullptr" -> << >>
    [] e.node = "IntegerConstant" -> <<<<"INT", e.int>>>>
    [] e.node = "StringConstant" -> <<<<"STRING", e.string>>>>
    [] e.node = "BooleanConstant" -> Sign(IF e.bool THEN "TRUE" ELSE "FALSE")
    [] e.node = "NoneConstant" -> Sign("NONE")
    [] e.node = "Expression" -> Name(e.name)
    [] e.node = "FieldDereference" -> Write(e.base) \o Sign("DOT") \o Name(e.field)
    [] e.node = "IndexExpression" ->
         Write(e.base) \o Sign("LBRACKET") \o Write(e.index) \o Sign("RBRACKET")
    [] e.node = "Call" ->
         Write(e.target) \o Paren(Separated([i \in DOMAIN e.arguments |-> Write(e.arguments[i])]))
    [] e.node = "UnaryExpression" ->
         IF e.op = "SUB" THEN Sign("MINUS") \o WriteAt(8, e.operand)
         ELSE Sign("NOT") \o WriteAt(4, e.operand)
    [] e.node = "BinaryExpression" -> WriteBinary(e)
    [] e.node = "Record" ->
         Sign("LBRACE") \o Concat([i \in DOMAIN e.fields |->
                                     Name(e.fields[i][1]) \o Sign("COLON") \o Write(e.fields[i][2])
                                       \o Sign("SEMICOLON")]) \o Sign("RBRACE")
    [] e.node = "FunctionDeclaration" ->
         Sign("FUN") \o Paren(Separated([i \in DOMAIN e.formals |-> Name(e.formals[i])]))
           \o WriteBlock(e.body)
    [] e.node = "Block" -> Concat([i \in DOMAIN e.statements |-> Write(e.statements[i])])
    [] e.node = "Global" -> Sign("GLOBAL") \o Name(e.name) \o Sign("SEMICOLON")
    [] e.node = "Assignment" ->
         Write(e.lhs) \o Sign("ASSIGN") \o Write(e.expr) \o Sign("SEMICOLON")
    [] e.node = "CallStatement" -> Write(e.call) \o Sign("SEMICOLON")
    [] e.node = "Return" -> Sign("RETURN") \o Write(e.expr) \o Sign("SEMICOLON")
    [] e.node = "WhileLoop" -> Sign("WHILE") \o Paren(Write(e.condition)) \o WriteBlock(e.body)
    [] e.node = "IfStatement" ->
         Sign("IF") \o Paren(Write(e.condition)) \o WriteBlock(e.thenPart)
           \o (IF e.elsePart = Nullptr THEN << >> ELSE Sign("ELSE") \o WriteBlock(e.elsePart))
==============================================================================
