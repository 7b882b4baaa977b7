--------------------------- MODULE MCCompiledProgram ---------------------------
(* Small MITScript programs for CompiledProgram.                           *)
EXTENDS CompiledProgram

v(x) == Expression(x)
i(n) == IntegerConstant(n)
s(text) == StringConstant(text)
b(truth) == BooleanConstant(truth)
call(e, args) == Call(e, args)
print(e) == CallStatement(call(v("print"), <<e>>))
set(x, e) == Assignment(v(x), e)
fun(params, body) == FunctionDeclaration(params, Block(body))
op(l, o, r) == BinaryExpression(l, o, r)
when(e, t) == IfStatement(e, Block(t), Nullptr)
unless(e, t, f) == IfStatement(e, Block(t), Block(f))
while(e, t) == WhileLoop(e, Block(t))
dot(e, k) == FieldDereference(e, k)
at(e, k) == IndexExpression(e, k)

(* x is a variable of main, or of f, or of g in f, or declared global in   *)
(* one of them; p is an argument of f that g, and k in g, may use.         *)
(*   x = 0; f = fun(p) { first; g = fun(q) { inside; return e; }; last;    *)
(*   return g; }; h = f(1); print(h(2)); f(3); print(h(4)); print(x);      *)
MCScopes ==
  LET first == {<< >>, <<set("x", i(1))>>, <<Global("x")>>, <<Global("x"), set("x", v("p"))>>}
      nested == fun(<< >>, <<Return(op(v("x"), "PLUS", v("p")))>>)
      inside == {<< >>, <<Global("x")>>, <<set("x", v("q"))>>, <<set("p", v("q"))>>,
                 <<Global("x"), set("x", v("q"))>>,
                 <<set("k", nested), print(call(v("k"), << >>))>>,
                 <<set("p", v("q")), set("k", nested), print(call(v("k"), << >>))>>}
      last == {<< >>, <<set("x", i(5))>>, <<set("p", i(6))>>,
               <<when(b(FALSE), <<Global("x")>>)>>}
      e == {v("x"), v("p"), op(v("p"), "PLUS", v("q"))}
  IN  {Block(<<set("x", i(0)),
               set("f", fun(<<"p">>, fs \o <<set("g", fun(<<"q">>, is \o <<Return(r)>>))>>
                                       \o ls \o <<Return(v("g"))>>)),
               set("h", call(v("f"), <<i(1)>>)),
               print(call(v("h"), <<i(2)>>)),
               CallStatement(call(v("f"), <<i(3)>>)),
               print(call(v("h"), <<i(4)>>)),
               print(v("x"))>>) :
         fs \in first, is \in inside, ls \in last, r \in e}

(* f = fun(n) { i = 0; while (i < n) { i = i + 1; body; body } rest };     *)
(* A return in the loop is never the only one.                             *)
MCControl ==
  LET one == op(v("i"), "EQ", i(1))
      body == {<< >>, <<print(v("i"))>>, <<when(one, <<print(s("a"))>>)>>,
               <<unless(one, <<print(s("a"))>>, <<print(s("b"))>>)>>,
               <<when(one, <<Return(v("i"))>>)>>,
               <<unless(one, << >>, <<when(b(TRUE), <<Return(s("c"))>>)>>)>>,
               <<set("j", i(0)),
                 while(op(v("j"), "GT", i(2)), <<print(v("j")), set("j", op(v("j"), "SUB", i(1)))>>)>>}
      rest == {<< >>, <<Return(v("i"))>>, <<print(s("d"))>>,
               <<unless(one, <<Return(s("e"))>>, <<Return(s("g"))>>)>>,
               <<when(one, <<Return(s("e"))>>), print(s("d"))>>}
  IN  {Block(<<set("f", fun(<<"n">>,
                 <<set("i", i(0)),
                   while(op(v("i"), "LT", v("n")),
                         <<set("i", op(v("i"), "PLUS", i(1)))>> \o b1 \o b2)>> \o r)),
               print(call(v("f"), <<i(2)>>))>>) :
         b1 \in body, b2 \in body, r \in rest}

(* print(e op e), over operands of each kind, among them the least integer *)
(* and one that wraps; g() prints.                                         *)
MCOperators ==
  LET g == call(v("g"), << >>)
      minus(x) == UnaryExpression("SUB", x)
      e == {i(0), i(7), minus(i(1)), op(minus(i(15)), "SUB", i(1)), s("1"), b(TRUE),
            NoneConstant, v("r"), v("q"), v("g"), v("print"), g}
      o == {"PLUS", "SUB", "MUL", "DIV", "AND", "OR", "GT", "LT", "GEQ", "LEQ", "EQ"}
      Program(x) ==
        Block(<<set("r", Record(<<<<"a", i(1)>>>>)), set("q", Record(<<<<"a", i(1)>>>>)),
                set("g", fun(<< >>, <<print(s("g")), Return(i(2))>>)), print(x)>>)
  IN  {Program(op(l, p, r)) : l \in e, p \in o, r \in e}
        \cup {Program(UnaryExpression(p, x)) : p \in {"SUB", "NEG"}, x \in e}

(* Records and methods, native functions and what may be done to them,     *)
(* recursion, exceptions on the way.                                       *)
MCOthers ==
  LET r == v("r")
      counter ==
        fun(<<"n">>, <<set("this", Record(<<<<"a", v("n")>>>>)),
                       Assignment(dot(v("this"), "f"),
                         fun(<< >>, <<Assignment(dot(v("this"), "a"),
                                                 op(dot(v("this"), "a"), "PLUS", i(1))),
                                      Return(dot(v("this"), "a"))>>)),
                       Return(v("this"))>>)
  IN  {Block(<<set("r", Record(<<<<"b", i(1)>>, <<"a", s("x")>>>>)), print(r),
               Assignment(dot(r, "b"), Record(<< >>)), print(r), print(dot(r, "f"))>>),
       Block(<<set("r", Record(<<<<"a", i(1)>>, <<"a", i(2)>>>>)),
               Assignment(at(r, i(1)), r), print(at(at(r, s("1")), s("a")))>>),
       Block(<<set("r", Record(<< >>)), Assignment(at(r, NoneConstant), b(TRUE)),
               set("q", r), print(op(r, "EQ", v("q"))), set("q", Record(<< >>)),
               print(op(r, "EQ", v("q"))),
               print(op(r, "PLUS", s("")))>>),
       Block(<<set("r", i(1)), print(dot(r, "a"))>>),
       Block(<<set("c", counter), set("r", call(v("c"), <<i(0)>>)), set("q", call(v("c"), <<i(5)>>)),
               CallStatement(call(dot(r, "f"), << >>)), print(call(dot(r, "f"), << >>)),
               print(call(dot(v("q"), "f"), << >>)), print(dot(r, "a"))>>),
       Block(<<print(op(call(v("intcast"), <<call(v("input"), << >>)>>), "PLUS", i(1))),
               print(call(v("intcast"), <<s("x")>>)), print(s("not reached"))>>),
       Block(<<set("old", v("print")), print(s("a")),
               set("print", fun(<<"x">>, <<CallStatement(call(v("old"), <<op(s("b"), "PLUS", v("x"))>>))>>)),
               print(s("c"))>>),
       Block(<<set("f", fun(<< >>, <<set("print", v("intcast")), Return(call(v("print"), <<s("1")>>))>>)),
               print(call(v("f"), << >>)), print(call(v("print"), <<i(1)>>))>>),
       Block(<<set("f", fun(<<"n">>, <<when(op(v("n"), "LEQ", i(0)), <<Return(i(0))>>),
                                       Return(op(v("n"), "PLUS", call(v("f"), <<op(v("n"), "SUB", i(1))>>)))>>)),
               print(call(v("f"), <<i(2)>>)), print(call(v("f"), << >>))>>),
       Block(<<set("f", fun(<< >>, <<Global("y"), set("y", i(1))>>)),
               print(call(v("f"), << >>)), print(v("y"))>>),
       Block(<<print(i(1)), Return(i(2)), print(i(3))>>),
       Block(<<set("add", fun(<<"call">>, <<Return(op(v("call"), "PLUS", i(1)))>>)),
               print(call(v("add"), <<i(1)>>))>>),
       Block(<<set("r", Record(<<<<"a", s("quoted")>>, <<"b", NoneConstant>>>>)),
               set("f", fun(<<"n">>, <<set("k", fun(<< >>, <<Return(op(v("n"), "EQ", s("lines")))>>)),
                                       Return(v("k"))>>)),
               print(dot(r, "a")), set("h", call(v("f"), <<s("lines")>>)), print(call(v("h"), << >>)),
               set("x", b(FALSE))>>),
       Block(<<when(i(1), << >>)>>), Block(<<while(NoneConstant, << >>)>>)}

MCSources == MCScopes \cup MCControl \cup MCOperators \cup MCOthers

(* f = fun(n) { while (n > 0) { return n; } }; print(f(0));                *)
MCLoopReturn ==
  {Block(<<set("f", fun(<<"n">>, <<while(op(v("n"), "GT", i(0)), <<Return(v("n"))>>)>>)),
           print(call(v("f"), <<i(0)>>))>>)}

(* tests/a5/private/bad/bad02-uninitVarDirectOutput.mit.                   *)
MCUndefined ==
  {Block(<<set("name_f", fun(<< >>, <<set("k", Record(<< >>)), set("x", v("y"))>>)),
           set("hi", call(v("name_f"), << >>))>>)}

(* tests/a5/private/bad/bad15-uninitGlobal.mit.                            *)
MCUninitialisedGlobal ==
  LET shown(x, y) == print(op(s(x), "PLUS", v(y)))
  IN  {Block(<<set("a", fun(<<"x">>,
                 <<shown("a", "x"),
                   set("b", fun(<<"x">>,
                     <<shown("b", "x"),
                       set("c", fun(<<"z">>,
                         <<print(op(op(op(s("c"), "PLUS", v("z")), "PLUS", s(" ")), "PLUS",
                                    v("x")))>>)),
                       Global("c")>>)),
                   Global("c"),
                   CallStatement(call(v("c"), <<i(3)>>)),
                   CallStatement(call(v("b"), <<i(2)>>))>>)),
               CallStatement(call(v("a"), <<i(1)>>))>>)}

(* print(g(1) < g(2)), where g prints its argument.                        *)
MCOperandOrder ==
  {Block(<<set("g", fun(<<"n">>, <<print(v("n")), Return(v("n"))>>)),
           print(op(call(v("g"), <<i(1)>>), "LT", call(v("g"), <<i(2)>>)))>>)}

MCSpelling == "quoted" :> <<"\"", "a", "\\", "n", "\"">> @@ "lines" :> <<"\n", "\t", "\\", "\\">>
MCFields == <<"1", "None", "a", "b", "f">>
MCInputs == {"1"}
MCAtoi == "1" :> 1
================================================================================
