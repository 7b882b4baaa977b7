--------------------------- MODULE MCInterpreter ---------------------------
(* Small programs for Interpreter.                                         *)
EXTENDS InterpreterTheorems

fn(params, locals, refs, free, inner, consts, names, code) ==
  [parameter_count |-> params, local_vars |-> locals,
   local_reference_vars |-> refs, local_reference_indices |-> << >>,
   free_vars |-> free, functions |-> inner, constants |-> consts,
   names |-> names, instructions |-> code]

Fixed(code) == [i \in DOMAIN code |-> {code[i]}]

(* What -s runs: the compiler makes the indices of every inner function.   *)
Compiled(table) ==
  [f \in DOMAIN table |->
     IF f = "main" THEN table[f] ELSE makeLocalReferenceIndices(table[f])]

GlobalNames == <<"print", "input", "intcast">>
NativeNames == <<"print", "input", "intcast">>

(* make(x) { y = x; return a function that stores its argument in y }      *)
MCMake ==
  fn(1, 2, <<1>>, 0, <<"set">>, << >>, << >>,
     Fixed(<<<<"LoadLocal", 0>>, <<"StoreLocal", 1>>, <<"LoadFunc", 0>>, <<"PushReference", 0>>,
             <<"AllocClosure", 1>>, <<"Return">>>>))

(* It returns the value it stored, or ends without leaving one.            *)
MCSet ==
  fn(1, 1, << >>, 1, << >>, << >>, << >>,
     Fixed(<<<<"LoadLocal", 0>>, <<"PushReference", 0>>, <<"StoreReference">>>>)
       \o << {<<"PushReference", 0>>, <<"Goto", 3>>} >>
       \o Fixed(<<<<"LoadReference">>, <<"Return">>>>))

(* apply(f) { return f(1); }                                               *)
MCApply ==
  fn(1, 1, << >>, 0, << >>, <<Integer(1)>>, << >>,
     Fixed(<<<<"LoadLocal", 0>>, <<"LoadConst", 0>>, <<"Call", 1>>, <<"Return">>>>))

(* A program whose main begins with `first` and goes on with any `length`  *)
(* instructions of `any`.                                                  *)
OpenWith(inner, consts, names, first, any, length) ==
  fn(0, 0, << >>, 0, inner, consts, GlobalNames \o names,
     Fixed(first) \o [i \in 1..length |-> any])

Open(inner, consts, names, first, any, length) ==
  OpenWith(NativeNames \o inner, consts, names, first, any, length)

(* After make({}), calls of make, of apply and of what make returned, with  *)
(* `others` between them.                                                  *)
MCCalls(others, length) ==
  ("main" :>
     Open(<<"make", "apply">>, <<Integer(1)>>, <<"make", "apply", "g", "f">>,
          <<<<"LoadFunc", 4>>, <<"AllocClosure", 0>>, <<"StoreGlobal", 4>>,
            <<"LoadFunc", 3>>, <<"AllocClosure", 0>>, <<"Dup">>, <<"StoreGlobal", 3>>,
            <<"AllocRecord">>, <<"Call", 1>>>>,
          {<<"LoadGlobal", 3>>, <<"LoadGlobal", 4>>, <<"LoadConst", 0>>, <<"Call", 1>>,
           <<"StoreGlobal", 5>>, <<"LoadGlobal", 5>>} \cup others, length))
  @@ ("make" :> MCMake) @@ ("set" :> MCSet) @@ ("apply" :> MCApply)

(* The instructions that move a closure without calling it.                *)
MCMoves ==
  {<<"LoadFunc", 3>>, <<"Dup">>, <<"Swap">>, <<"Pop">>, <<"AllocRecord">>,
   <<"FieldStore", 6>>, <<"FieldLoad", 6>>}

(* Bytecode no compiler makes: closures with more or fewer references than *)
(* their function has free variables, made from any operand, of a function *)
(* that uses whatever the slots of its frame hold, which stands where the  *)
(* native functions are put, too.                                          *)
MCForged(length) ==
  ("main" :>
     OpenWith(<<"f", "f", "f", "f">>, <<Integer(1)>>, << >>, <<<<"LoadFunc", 3>>>>,
          {<<"LoadFunc", 3>>, <<"LoadConst", 0>>, <<"AllocClosure", 0>>, <<"AllocClosure", 1>>,
           <<"Call", 0>>, <<"Call", 1>>, <<"StoreGlobal", 0>>, <<"LoadGlobal", 0>>}, length))
  @@ ("f" :>
     fn(1, 1, <<0>>, 1, <<"f">>, << >>, << >>,
        << {<<"PushReference", 0>>, <<"PushReference", 1>>, <<"LoadLocal", 0>>, <<"LoadFunc", 0>>},
           {<<"PushReference", 0>>, <<"PushReference", 1>>, <<"LoadReference">>, <<"AllocClosure", 0>>},
           {<<"AllocClosure", 1>>, <<"StoreReference">>, <<"StoreLocal", 1>>, <<"Eq">>, <<"Return">>},
           {<<"Return">>} >>))

(* Values of every kind, wherever an operand is expected.                  *)
MCValues(length) ==
  "main" :>
     Open(<< >>, <<Integer(0), String("1"), Boolean(TRUE), Integer(-16)>>, << >>,
          <<<<"LoadConst", 0>>, <<"LoadConst", 1>>>>,
          {<<"LoadConst", 0>>, <<"LoadConst", 2>>, <<"LoadConst", 3>>, <<"Add">>,
           <<"Sub">>, <<"Mul">>, <<"Div">>, <<"Neg">>, <<"Gt">>, <<"Geq">>, <<"Eq">>,
           <<"And">>, <<"Or">>, <<"Not">>, <<"If", 2>>, <<"Goto", -9>>, <<"LoadConst", 9>>,
           <<"PushReference", "name", "y">>}, length)

MCRecords(length) ==
  "main" :>
     Open(<< >>, <<Integer(1)>>, <<"f">>,
          <<<<"AllocRecord">>, <<"Dup">>, <<"LoadConst", 0>>>>,
          {<<"AllocRecord">>, <<"LoadConst", 0>>, <<"Dup">>, <<"Swap">>,
           <<"FieldStore", 3>>, <<"FieldLoad", 3>>, <<"IndexStore">>, <<"IndexLoad">>,
           <<"Eq">>}, length)

(* print, input and intcast, with the prologue of every compiled program.  *)
MCNatives(length) ==
  "main" :>
     Open(<< >>, <<String("x")>>, << >>,
          <<<<"LoadFunc", 0>>, <<"AllocClosure", 0>>, <<"StoreGlobal", 0>>,
            <<"LoadFunc", 1>>, <<"AllocClosure", 0>>, <<"StoreGlobal", 1>>,
            <<"LoadFunc", 2>>, <<"AllocClosure", 0>>, <<"StoreGlobal", 2>>>>,
          {<<"LoadGlobal", 0>>, <<"LoadGlobal", 1>>, <<"LoadGlobal", 2>>,
           <<"LoadConst", 0>>, <<"Call", 0>>, <<"Call", 1>>, <<"Add">>}, length)

(* f() { g = 1; return a function of g } as the bytecode of                *)
(* tests/a5/private/unit/unit-05-refOrdering.mitbc has it, read with -b.   *)
MCBytecode ==
  ("main" :>
     fn(0, 0, << >>, 0, <<"f", "f", "f", "f">>, << >>, GlobalNames,
        Fixed(<<<<"LoadFunc", 3>>, <<"AllocClosure", 0>>, <<"Call", 0>>, <<"Pop">>>>)))
  @@ ("f" :>
     fn(0, 1, <<0>>, 0, <<"g">>, <<Integer(1)>>, << >>,
        Fixed(<<<<"LoadConst", 0>>, <<"StoreLocal", 0>>, <<"LoadFunc", 0>>,
                <<"PushReference", 0>>, <<"AllocClosure", 1>>, <<"Return">>>>)))
  @@ ("g" :>
     fn(0, 0, << >>, 1, << >>, << >>, << >>,
        Fixed(<<<<"PushReference", 0>>, <<"LoadReference">>, <<"Return">>>>)))

(* vm/tests/test1.mitbc: main has one function, and three are written      *)
(* there.                                                                  *)
MCOneFunction ==
  ("main" :>
     fn(0, 0, << >>, 0, <<"f">>, <<[kind |-> "None"], Integer(1)>>, <<"x", "f">>,
        Fixed(<<<<"LoadConst", 1>>, <<"StoreGlobal", 0>>, <<"LoadFunc", 0>>, <<"AllocClosure", 0>>,
                <<"StoreGlobal", 1>>>>)))
  @@ ("f" :>
     fn(1, 2, <<0>>, 0, <<"g">>, <<[kind |-> "None"], Integer(1)>>, << >>,
        Fixed(<<<<"LoadFunc", 0>>, <<"PushReference", 0>>, <<"AllocClosure", 1>>,
                <<"StoreLocal", 1>>, <<"LoadConst", 0>>, <<"Return">>>>)))
  @@ ("g" :>
     fn(1, 1, << >>, 1, << >>, << >>, <<"x">>,
        Fixed(<<<<"LoadGlobal", 0>>, <<"PushReference", 0>>, <<"LoadReference">>, <<"Add">>,
                <<"LoadLocal", 0>>, <<"Add">>, <<"Return">>>>)))

MCFields == <<"1", "f", "{1:1 }", "{f:1 }", "{}">>
MCInputs == {"1"}
MCAtoi == [s \in {"1", "1x", "1FUNCTION", "1None"} |-> 1] @@ ("11" :> 11)

MCBytecodePrograms == {MCBytecode}
MCPrograms ==
  {Compiled(p) : p \in {MCCalls({}, 5), MCCalls(MCMoves, 4),
                  MCValues(4), MCRecords(5), MCNatives(5), MCForged(5),
                  MCOneFunction}}

(* DefinedBehaviour is about every program but MCForged and MCOneFunction. *)
ASSUME ConsistentPrograms ==
         \A p \in MCPrograms :
           ConsistentTable(initializeNativeFunctions(p)) <=> "f" \notin DOMAIN p
=============================================================================
