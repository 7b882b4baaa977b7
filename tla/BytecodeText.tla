----------------------------- MODULE BytecodeText -----------------------------
(***************************************************************************)
(* vm/bc-parser: the text mitscriptc writes (prettyprinter.h) and the      *)
(* parser `mitscript -b` reads it with (bc-lexer.lex, bc-parser.yy).       *)
(*                                                                         *)
(* The text is the sequence of its tokens, <<type>> or <<type, value>>. A  *)
(* function is a record that holds the functions in it, with the fields of *)
(* class Function the text is about; an instruction is a tuple.            *)
(*                                                                         *)
(* The parser is the one bison makes: an operator for each nonterminal,    *)
(* which takes its state and gives the next one:                           *)
(*   tokens, at   the text and what is looked at, from 1                   *)
(*   depth        the states on its stack                                  *)
(*   value        the semantic value on top of it                          *)
(*   out          the function completed last                              *)
(*   status       what bcparse returns: "parsed" 0, "error" 1,             *)
(*                "exhausted" 2; "parsing" until then                      *)
(* Symbols are pushed by Shift and by Reduce, and the stack does not grow  *)
(* beyond YYMAXDEPTH.                                                      *)
(***************************************************************************)
EXTENDS Integers, Sequences, SequencesExt, TLC

CONSTANTS
  YYMAXDEPTH,   \* bound: the size of bison's stack, 10000 in the code
  Spelling      \* bound: the characters of the strings that have several

Mnemonic ==
  [LoadConst |-> "load_const", LoadFunc |-> "load_func", LoadLocal |-> "load_local",
   StoreLocal |-> "store_local", LoadGlobal |-> "load_global",
   StoreGlobal |-> "store_global", PushReference |-> "push_ref",
   LoadReference |-> "load_ref", StoreReference |-> "store_ref",
   AllocRecord |-> "alloc_record", FieldLoad |-> "field_load",
   FieldStore |-> "field_store", IndexLoad |-> "index_load",
   IndexStore |-> "index_store", AllocClosure |-> "alloc_closure", Call |-> "call",
   Return |-> "return", Add |-> "add", Sub |-> "sub", Mul |-> "mul", Div |-> "div",
   Neg |-> "neg", Gt |-> "gt", Geq |-> "geq", Eq |-> "eq", And |-> "and", Or |-> "or",
   Not |-> "not", Goto |-> "goto", If |-> "if", Dup |-> "dup", Swap |-> "swap",
   Pop |-> "pop"]

Operand0 ==
  {"load_const", "load_func", "load_local", "store_local", "load_global", "store_global",
   "push_ref", "field_load", "field_store", "alloc_closure", "call", "goto", "if"}

Lists == <<"local_vars", "local_ref_vars", "free_vars", "names">>

(* The scanner knows these before it knows names.                          *)
Keywords ==
  {"None", "true", "false", "function", "functions", "constants", "parameter_count",
   "instructions"} \cup Range(Lists) \cup Range(Mnemonic)

-----------------------------------------------------------------------------
(* Strings, as sequences of characters.                                    *)

Characters(s) == IF s \in DOMAIN Spelling THEN Spelling[s] ELSE << s >>

Letter == "\n" :> "n" @@ "\t" :> "t" @@ "\"" :> "\"" @@ "\\" :> "\\"

(* Between quotes a character may take two.                                *)
unescape(s) ==
  FlattenSeq([i \in DOMAIN s |-> IF s[i] \in DOMAIN Letter THEN <<"\\", Letter[s[i]]>>
                                 ELSE <<s[i]>>])

(* A backslash takes the character after it away, whatever it is.          *)
Meant(letter) ==
  IF letter \in Range(Letter) THEN CHOOSE c \in DOMAIN Letter : Letter[c] = letter
  ELSE "\\"

RECURSIVE escape(_)
escape(s) ==
  IF s = << >> THEN << >>
  ELSE IF Head(s) = "\\" /\ Len(s) > 1
  THEN <<Meant(s[2])>> \o escape(SubSeq(s, 3, Len(s)))
  ELSE <<Head(s)>> \o escape(Tail(s))

-----------------------------------------------------------------------------
(* The printer.                                                            *)

(* A name is printed as it is, and scanned as a keyword if it is one.      *)
Name(x) == IF x \in Keywords THEN <<x>> ELSE <<"ident", x>>

Value(v) ==
  CASE v.kind = "None" -> <<"None">>
    [] v.kind = "Boolean" -> <<IF v.bool THEN "true" ELSE "false">>
    [] v.kind = "Integer" -> <<"int", v.int>>
    [] v.kind = "String" -> <<"string", unescape(v.characters)>>

Throw == <<"throw">>

(* A variable without an index has no operand, and value() throws.         *)
Code(x) ==
  <<<<Mnemonic[x[1]]>>>> \o (CASE Len(x) = 1 -> << >>
                               [] Len(x) = 2 -> <<<<"int", x[2]>>>>
                               [] OTHER -> <<Throw>>)

Listed(name, texts) ==
  <<<<name>>, <<"=">>, <<"[">>>>
    \o FlattenSeq([i \in DOMAIN texts |-> IF i = 1 THEN texts[i] ELSE <<<<",">>>> \o texts[i]])
    \o <<<<"]">>, <<",">>>>

RECURSIVE PrintFunction(_)
PrintFunction(f) ==
  LET Names(list) == Listed(list, [i \in DOMAIN f[list] |-> <<Name(f[list][i])>>])
  IN  <<<<"function">>, <<"{">>>>
        \o Listed("functions", [i \in DOMAIN f.functions |-> PrintFunction(f.functions[i])])
        \o Listed("constants", [i \in DOMAIN f.constants |-> <<Value(f.constants[i])>>])
        \o <<<<"parameter_count">>, <<"=">>, <<"int", f.parameter_count>>, <<",">>>>
        \o FlattenSeq([i \in DOMAIN Lists |-> Names(Lists[i])])
        \o <<<<"instructions">>, <<"=">>, <<"[">>>>
        \o FlattenSeq([i \in DOMAIN f.instructions |-> Code(f.instructions[i])])
        \o <<<<"]">>, <<"}">>>>

(* mitscriptc writes no more than what comes before the exception.         *)
print(f) ==
  LET text == PrintFunction(f)
  IN  IF Contains(text, Throw)
      THEN SubSeq(text, 1, SelectInSeq(text, LAMBDA token : token = Throw) - 1)
      ELSE text

-----------------------------------------------------------------------------
(* The parser.                                                             *)

Ahead(p, i) ==
  IF p.at + i - 1 \in DOMAIN p.tokens THEN p.tokens[p.at + i - 1] ELSE <<"end">>
Type(p) == IF p.status = "parsing" THEN Ahead(p, 1)[1] ELSE "none"

Error(p) == IF p.status = "parsing" THEN [p EXCEPT !.status = "error"] ELSE p

(* Tokens of these types are pushed, one after the other.                  *)
Shift(p, types) ==
  LET room == YYMAXDEPTH - p.depth
      token == Ahead(p, Len(types))
  IN  CASE p.status # "parsing" -> p
        [] \E i \in DOMAIN types : i <= room /\ Ahead(p, i)[1] # types[i] -> Error(p)
        [] Len(types) >= room -> [p EXCEPT !.status = "exhausted"]
        [] OTHER -> [p EXCEPT !.at = @ + Len(types), !.depth = @ + Len(types),
                              !.value = IF Len(token) = 2 THEN token[2] ELSE @]

(* The symbols above depth become one with this value.                     *)
Reduce(p, depth, value) ==
  CASE p.status # "parsing" -> p
    [] depth + 1 >= YYMAXDEPTH -> [p EXCEPT !.status = "exhausted"]
    [] OTHER -> [p EXCEPT !.depth = depth + 1, !.value = value]

(* The casts leave an int as it is; that some of them assert it is not     *)
(* negative makes no difference to a printed text.                         *)
Instruction(p) ==
  LET mnemonic == Type(p)
      operation == CHOOSE o \in DOMAIN Mnemonic : Mnemonic[o] = mnemonic
      operand == Shift(p, <<mnemonic, "int">>)
  IN  IF mnemonic \in Operand0 THEN Reduce(operand, p.depth, <<operation, operand.value>>)
      ELSE Reduce(Shift(p, <<mnemonic>>), p.depth, <<operation>>)

RECURSIVE Instructions(_, _)
Instructions(p, list) ==
  IF Type(p) \in Range(Mnemonic)
  THEN LET first == Instruction(p) IN Instructions(first, Append(list, first.value))
  ELSE Reduce(p, p.depth, list)

(* The instructions stay on the stack until the last one, and an empty     *)
(* list after it, are there.                                               *)
InstructionList(p) ==
  LET all == Instructions(p, << >>) IN Reduce(all, p.depth, all.value)

Constant(p) ==
  LET type == Type(p)
      token == Shift(p, <<type>>)
      value == CASE type = "None" -> [kind |-> "None"]
                 [] type \in {"true", "false"} -> [kind |-> "Boolean", bool |-> type = "true"]
                 [] type = "int" -> [kind |-> "Integer", int |-> token.value]
                 [] type = "string" -> [kind |-> "String", characters |-> escape(token.value)]
  IN  IF type \in {"None", "true", "false", "int", "string"}
      THEN Reduce(token, p.depth, value)
      ELSE Error(p)

RECURSIVE Function(_)

Element(p, list) ==
  CASE list = "functions" -> Function(p)
    [] list = "constants" -> Constant(p)
    [] OTHER -> Shift(p, <<"ident">>)

(* The elements stay on the stack until the last one is there.             *)
RECURSIVE Elements(_, _, _)
MoreElements(last, list, values) ==
  IF Type(last) = "," THEN Elements(Shift(last, <<",">>), list, values)
  ELSE Reduce(last, last.depth - 1, values)

Elements(p, list, values) ==
  LET first == Element(p, list)
  IN  MoreElements(first, list, Append(values, first.value))

(* Mutant of ListStar: each element is appended to those after it.         *)
ListStarReversed(p, list) ==
  LET all == Elements(p, list, << >>)
  IN  IF Type(p) = "]" THEN Reduce(p, p.depth, << >>)
      ELSE Reduce(all, p.depth, Reverse(all.value))

ListStar(p, list) ==
  LET all == Elements(p, list, << >>)
  IN  IF Type(p) = "]" THEN Reduce(p, p.depth, << >>)
      ELSE Reduce(all, p.depth, all.value)

Section(p, list) ==
  Shift(ListStar(Shift(p, <<list, "=", "[">>), list), <<"]", ",">>)

(* The function completed is what bcparse gives, if nothing follows; its   *)
(* local_reference_indices_ stay empty.                                    *)
Complete(p, depth, f) ==
  IF p.status = "parsing" THEN Reduce([p EXCEPT !.out = f], depth, f) ELSE p

Function(p) ==
  LET functions == Section(Shift(p, <<"function", "{">>), "functions")
      constants == Section(functions, "constants")
      count == Shift(constants, <<"parameter_count", "=", "int">>)
      local_vars == Section(Shift(count, <<",">>), "local_vars")
      local_ref_vars == Section(local_vars, "local_ref_vars")
      free_vars == Section(local_ref_vars, "free_vars")
      names == Section(free_vars, "names")
      code == InstructionList(Shift(names, <<"instructions", "=", "[">>))
      end == Shift(code, <<"]", "}">>)
      f == [functions |-> functions.value, constants |-> constants.value,
            parameter_count |-> count.value, local_vars |-> local_vars.value,
            local_ref_vars |-> local_ref_vars.value, free_vars |-> free_vars.value,
            names |-> names.value, instructions |-> code.value]
  IN  Complete(end, p.depth, f)

Uninitialised == [functions |-> "uninitialised"]

(* bcparse: the function, and the end of the text.                         *)
Result(p) == [status |-> IF p.status = "parsing" THEN "parsed" ELSE p.status, out |-> p.out]

bcparse(text) ==
  Result(Shift(Function([tokens |-> Append(text, <<"end">>), at |-> 1, depth |-> 1,
                         value |-> << >>, out |-> Uninitialised, status |-> "parsing"]),
               <<"end">>))
===============================================================================
