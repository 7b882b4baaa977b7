----------------------------- MODULE SourceParser -----------------------------
(***************************************************************************)
(* The source parser as its caller sees it: a program is read token by     *)
(* token, and at every point the parser says what it makes of it.          *)
(*                                                                         *)
(* A vocabulary is a beginning, the tokens that may follow it, how many    *)
(* tokens there are at most and how many of them open a bracket: instances *)
(* that together reach every alternative of every function of the parser.  *)
(***************************************************************************)
EXTENDS TreeConverter

CONSTANT
  Vocabularies  \* bound: the programs, records with start, words, length, opening

VARIABLES
  vocabulary,   \* the one that is used
  tokens,       \* what has been read
  verdict       \* what ParseProgram makes of it

vars == <<vocabulary, tokens, verdict>>

G == INSTANCE Grammar

Opening(s) ==
  Cardinality({i \in DOMAIN s : s[i][1] \in {"LPAREN", "LBRACKET", "LBRACE"}})

Init ==
  /\ vocabulary \in Vocabularies
  /\ tokens = vocabulary.start
  /\ verdict = ParseProgram(tokens)

(* What follows an error is of interest for one more token only.           *)
Read ==
  /\ Len(tokens) < vocabulary.length
  /\ verdict.status = "reported" => verdict.at >= Len(tokens)
  /\ \E word \in vocabulary.words :
       LET read == Append(tokens, word)
       IN  /\ Opening(read) <= vocabulary.opening
           /\ tokens' = read
           /\ verdict' = ParseProgram(read)
  /\ UNCHANGED vocabulary

Next == Read

Spec == Init /\ [][Next]_vars

-----------------------------------------------------------------------------
(* Properties.                                                             *)

TypeOK ==
  /\ vocabulary \in Vocabularies
  /\ Len(tokens) <= vocabulary.length
  /\ verdict.status \in {"parsed", "reported", "terminated"}
  /\ verdict.status = "reported" => verdict.at \in 1..(Len(tokens) + 1)

(* What the grammar derives is parsed, to the one tree the grammar gives   *)
(* it, whatever was parsed and thrown away on the way to know whether a    *)
(* name begins a call, an assignment or an operand, and however the lists  *)
(* that grow to the right are turned into operators that associate to the  *)
(* left; nothing else is parsed. Only an integer that is too large         *)
(* terminates the program (ControlFlow.cpp:162-194, Expressions.cpp:       *)
(* 244-282, TreeConverter.cpp:193-385).                                    *)
ParsesGrammar ==
  LET trees == {IF statements = << >> THEN Nullptr ELSE Block(statements) :
                  statements \in G!Trees("Statements", tokens)}
  IN  CASE verdict.status = "parsed" -> trees = {verdict.mainBlock}
        [] verdict.status = "reported" -> trees = {}
        [] verdict.status = "terminated" -> trees # {} /\ OutOfRange(tokens)

(* A token that was found wrong stays the one that is reported, whatever   *)
(* follows: the parser reports the first token that cannot be right, and   *)
(* never one before it or after it. Only an error at the end of the input, *)
(* or at a record's field whose colon is still missing, can go away        *)
(* (CST.cpp:30-35, ControlFlow.cpp:179-193, Expressions.cpp:8-33).         *)
ErrorsStand ==
  [][verdict.status = "reported" =>
       IF verdict.at < Len(tokens) THEN verdict' = verdict
       ELSE verdict'.status = "reported" => verdict'.at >= verdict.at]_vars
===============================================================================
