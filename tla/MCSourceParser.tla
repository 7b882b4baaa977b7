---------------------------- MODULE MCSourceParser ----------------------------
(* Vocabularies for SourceParser.                                          *)
EXTENDS SourceParser

sign(type) == <<type, "">>
signs(types) == {sign(t) : t \in types}
name(x) == <<"NAME", x>>
int(n) == <<"INT", n>>

(* Operators; parentheses; left sides, calls and assignments; an if with   *)
(* an else; a while that returns; functions; records.                      *)
MCVocabularies ==
  {[start |-> <<sign("RETURN")>>, length |-> 8, opening |-> 0,
    words |-> signs({"OR", "AND", "NOT", "LT", "PLUS", "MINUS", "MUL", "SEMICOLON"})
                \cup {int(1)}],
   [start |-> <<sign("RETURN"), sign("LPAREN"), int(1), sign("OR")>>, length |-> 10, opening |-> 3,
    words |-> signs({"AND", "EQ", "DIV", "LPAREN", "RPAREN", "SEMICOLON"}) \cup {int(2)}],
   [start |-> << >>, length |-> 9, opening |-> 3,
    words |-> signs({"DOT", "LBRACKET", "RBRACKET", "LPAREN", "RPAREN", "COMMA", "ASSIGN",
                     "SEMICOLON"}) \cup {name("a"), int(16)}],
   [start |-> <<sign("IF"), sign("LPAREN"), name("a"), sign("RPAREN")>>, length |-> 11, opening |-> 4,
    words |-> signs({"LBRACE", "RBRACE", "ELSE", "GLOBAL", "SEMICOLON"}) \cup {name("a")}],
   [start |-> <<sign("WHILE"), sign("LPAREN")>>, length |-> 9, opening |-> 4,
    words |-> signs({"LBRACE", "RBRACE", "RPAREN", "RETURN", "NONE", "SEMICOLON", "IF"})],
   [start |-> <<name("a"), sign("ASSIGN"), sign("FUN"), sign("LPAREN")>>, length |-> 11, opening |-> 4,
    words |-> signs({"RPAREN", "LBRACE", "RBRACE", "COMMA", "SEMICOLON"})
                \cup {name("a"), name("b")}],
   [start |-> <<name("a"), sign("ASSIGN"), sign("LBRACE")>>, length |-> 11, opening |-> 4,
    words |-> signs({"LBRACE", "RBRACE", "COLON", "SEMICOLON", "TRUE"})
                \cup {name("a"), <<"STRING", "s">>}]}
===============================================================================
