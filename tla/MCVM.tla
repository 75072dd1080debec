-------------------------------- MODULE MCVM --------------------------------
(* VM.tla on programs that use every kind of object, most of them after the  *)
(* repository's tests, on two families of small ones, and on two that are    *)
(* bytecode made by hand.                                                   *)
EXTENDS Verifier, Functions

G == INSTANCE Generator
L == INSTANCE Lang
S == INSTANCE Suite

Var(x) == <<"var", x>>
CallOf(f, args) == <<"call", f, args>>
Native1(f, e) == CallOf(Var(f), <<e>>)
Emit(e) == <<"expr", Native1("__test_emit", e)>>
Let(x, e) == <<"vardecl", x, e>>
Plus(l, r) == <<"binary", "plus", l, r>>
Prop(o, x) == <<"get", o, x>>
Method(o, m, args) == CallOf(Prop(o, m), args)
At0(o) == <<"index", o, Num(0)>>
Key(o, k) == <<"index", o, Str(k)>>
Body(ss) == <<"block", ss>>
Fun(f, params, ss) == <<"fun", f, params, ss>>
Ret(e) == <<"return", e>>
If(c, a, b) == <<"if", c, a, b>>
Less(l, r) == <<"binary", "less", l, r>>
List(es) == <<"list", es>>
This == <<"this">>
Collect == <<"expr", CallOf(Var("__gc_collect"), <<>>)>>

\* Temporaries that only the operand stack or a native's arguments hold.
Temporaries ==
  <<Let("a", List(<<Num(1), List(<<Num(2)>>)>>)),
    Emit(At0(Native1("__gc_touch", List(<<Num(3)>>)))),
    Emit(Plus(At0(List(<<Num(4)>>)),
              At0(Native1("__gc_touch", <<"index", Var("a"), Num(1)>>)))),
    <<"assign", "a", List(<<Var("a")>>)>>,
    Emit(At0(At0(Var("a")))),
    <<"indexassign", Var("a"), Num(0), Native1("__make_big_dict", Num(4))>>,
    Collect,
    Emit(Native1("len", At0(Var("a")))),
    <<"print", Var("a")>> >>

\* Dictionaries, functions as values, and what type() and str() say.
Values ==
  <<Fun("inc", <<"x">>, <<Ret(Plus(Var("x"), Num(1)))>>),
    Let("d", <<"dict", <<<<"f", Var("inc")>>, <<"n", Num(6)>>, <<"l", List(<<>>)>>>>>>),
    Emit(CallOf(Key(Var("d"), "f"), <<Prop(Var("d"), "n")>>)),
    <<"propassign", Var("d"), "n", Native1("abs", <<"unary", "minus", Num(8)>>)>>,
    <<"indexassign", Var("d"), Str("m"), Native1("type", Key(Var("d"), "l"))>>,
    Emit(Key(Var("d"), "n")), Emit(Prop(Var("d"), "m")), Emit(Key(Var("d"), "none")),
    Emit(<<"binary", "eq", Prop(Var("d"), "l"), Prop(Var("d"), "l")>>),
    Emit(<<"binary", "ne", Native1("str", Num(12)), Str("12")>>),
    Emit(<<"binary", "greater", Native1("len", Native1("str", Bool(FALSE))),
           <<"binary", "slash", Num(8), <<"binary", "star", Num(2), Num(2)>>>>>>),
    Emit(<<"unary", "not", Less(CallOf(Var("clock"), <<>>), Num(0))>>) >>

\* Recursion, mutual recursion, and returns from nested blocks.
Recursion ==
  <<Fun("fact", <<"n">>,
        <<If(Less(Var("n"), Num(2)), Body(<<Let("one", List(<<Num(1)>>)),
                                            Ret(At0(Var("one")))>>), <<"none">>),
          Let("rest", CallOf(Var("fact"), <<<<"binary", "minus", Var("n"), Num(1)>>>>)),
          Ret(<<"binary", "star", Var("n"), Var("rest")>>)>>),
    Fun("odd", <<"n">>,
        <<If(<<"binary", "eq", Var("n"), Num(0)>>, Ret(Bool(FALSE)),
             Ret(CallOf(Var("even"), <<<<"binary", "minus", Var("n"), Num(1)>>>>)))>>),
    Fun("even", <<"n">>,
        <<If(<<"binary", "eq", Var("n"), Num(0)>>, Ret(Bool(TRUE)),
             Ret(CallOf(Var("odd"), <<<<"binary", "minus", Var("n"), Num(1)>>>>)))>>),
    Fun("nothing", <<>>, <<Let("x", List(<<>>))>>),
    Emit(CallOf(Var("fact"), <<Num(3)>>)), Emit(CallOf(Var("odd"), <<Num(3)>>)),
    Emit(CallOf(Var("nothing"), <<>>)) >>

\* Inheritance, super, constructors that return early, bound methods as values.
Classes ==
  <<<<"class", "A", "",
      <<Fun("init", <<"x">>, <<<<"propassign", This, "x", Var("x")>>,
                               If(Less(Var("x"), Num(9)), Ret(Num(0)), <<"none">>),
                               <<"propassign", This, "x", Num(0)>>>>),
        Fun("get", <<>>, <<Ret(Prop(This, "x"))>>),
        Fun("who", <<>>, <<Ret(Num(1))>>)>>>>,
    <<"class", "B", "A",
      <<Fun("who", <<>>, <<Collect, Ret(Plus(CallOf(<<"super", "who">>, <<>>), Num(10)))>>)>>>>,
    <<"class", "C", "B",
      <<Fun("who", <<>>, <<Let("w", CallOf(<<"super", "who">>, <<>>)),
                           Ret(Plus(Var("w"), Method(This, "get", <<>>)))>>)>>>>,
    Let("c", CallOf(Var("C"), <<Num(5)>>)),
    Emit(Var("c")), Emit(Method(Var("c"), "who", <<>>)),
    Emit(Method(CallOf(Var("B"), <<Num(2)>>), "get", <<>>)),
    Emit(Native1("type", Var("c"))), Emit(Prop(Var("c"), "none")) >>

\* Instances without init, methods as values, objects in fields that a global
\* holds as well.
Instances ==
  <<<<"class", "P", "", <<Fun("m", <<"k">>, <<Ret(Plus(Prop(This, "v"), Var("k")))>>)>>>>,
    Let("l", List(<<Num(7)>>)),
    Let("p", CallOf(Var("P"), <<>>)),
    <<"propassign", Var("p"), "v", Num(30)>>,
    <<"propassign", Var("p"), "l", Var("l")>>,
    Let("m", Prop(Var("p"), "m")),
    <<"assign", "p", List(<<Var("p")>>)>>,
    Emit(CallOf(Var("m"), <<Num(2)>>)),
    Collect,
    Emit(At0(Prop(At0(Var("p")), "l"))) >>

\* An object that only a field holds, after two collections.
FieldOnly ==
  <<<<"class", "P", "", <<>>>>,
    Let("p", CallOf(Var("P"), <<>>)),
    <<"propassign", Var("p"), "l", List(<<Num(7)>>)>>,
    Collect, Collect,
    Emit(At0(Prop(Var("p"), "l"))) >>

\* A class that declares a method twice.
MethodTwice ==
  <<<<"class", "P", "",
      <<Fun("m", <<>>, <<Let("x", Num(1)), Ret(Var("x"))>>), Fun("m", <<>>, <<Ret(Num(0))>>)>>>>,
    Emit(Method(CallOf(Var("P"), <<>>), "m", <<>>))>>

Sources == <<Temporaries, Values, Recursion, Classes, Instances>>

\* OP_CALL, OP_NEGATE, OP_LIST_LEN and OP_DICT_HAS, which the generator never
\* emits, as in tests/chunk_function_test.cc; the script ends without a return.
Bytecode ==
  LET fn(code, consts, arity, locals) ==
        [code |-> code, consts |-> consts, arity |-> arity, localCount |-> locals,
         live |-> [i \in DOMAIN code |-> locals]]
      negate == fn(<<"OP_LOAD_VAR", 0, "OP_NEGATE", "OP_RETURN">>, <<>>, 1, 1)
      script == fn(<<"OP_CONSTANT", 0, "OP_CALL", BuiltinCount, "OP_PRINT",
                     "OP_LIST_NEW", "OP_CONSTANT", 0, "OP_LIST_PUSH", "OP_CALL", Builtin.__gc_touch,
                     "OP_LIST_LEN", "OP_PRINT",
                     "OP_DICT_NEW", "OP_CONSTANT", 1, "OP_DICT_HAS", "OP_PRINT">>,
                   <<Num(3), Str("k")>>, 0, 0)
  IN  [script |-> script, functions |-> <<negate>>, objects |-> [i \in {} |-> Null],
      expected |-> <<Num(-3), Num(1), Bool(FALSE)>>]

\* Functions made by hand that call each other (main.cc OddEvenTest): 3 is not even,
\* it is odd.
OddEven ==
  LET test == S!OddEvenTest(BuiltinCount)
  IN  [script |-> test.script, functions |-> test.functions, objects |-> [i \in {} |-> Null],
       expected |-> <<Bool(FALSE), Bool(TRUE)>>]

\* A program, compiled, with the output it is to have.
Compiled(p) == G!Generate(p) @@ [expected |-> L!Output(p)]

MCFields == {Compiled(FieldOnly)}

MCMethodTwice == {Compiled(MethodTwice)}

-----------------------------------------------------------------------------
(* Every nesting, three deep, of the expressions that allocate or collect    *)
(* while their operands are nowhere but on the operand stack.                *)

Wrapped(e) ==
  {List(<<e, List(<<>>)>>),
   Key(<<"dict", <<<<"l", List(<<>>)>>, <<"k", e>>>>>>, "k"),
   Native1("__gc_touch", e),
   CallOf(Var("drop"), <<e, Native1("__make_big_dict", Num(1))>>),
   At0(List(<<e, CallOf(Var("__gc_collect"), <<>>)>>)),
   Method(CallOf(Var("Q"), <<List(<<>>)>>), "pair", <<e>>)}

Nesting[n \in 0..3] ==
  IF n = 0 THEN {List(<<Num(1)>>)} ELSE UNION {Wrapped(e) : e \in Nesting[n - 1]}

\* drop's local and Q's first constructor argument become garbage at once.
Holding(e) ==
  <<Fun("drop", <<"x", "y">>, <<Let("z", List(<<Var("y")>>)), Ret(Var("x"))>>),
    <<"class", "Q", "", <<Fun("init", <<"x">>, <<Let("y", List(<<Var("x")>>))>>),
                          Fun("pair", <<"x">>, <<Ret(List(<<This, Var("x")>>))>>)>>>>,
    Let("held", e), Emit(Native1("len", Var("held")))>>

Nestings == {Holding(e) : e \in Nesting[3]}

-----------------------------------------------------------------------------
(* Every way to leave a block, in every pair of nested loops.               *)

Jumps == {<<"none">>, <<"break">>, <<"continue">>, Ret(Num(8))}

\* A loop of the given kind, over 0 .. n - 1 in x; the while loop counts first,
\* so that continue does not skip it.
LoopOf(kind, x, n, ss) ==
  LET more == Less(Var(x), Num(n))
      count == <<"assign", x, Plus(Var(x), Num(1))>>
  IN  IF kind = "for" THEN <<<<"for", Let(x, Num(0)), more, count, Body(ss)>>>>
      ELSE <<Let(x, <<"unary", "minus", Num(1)>>), <<"while", Less(Plus(Var(x), Num(1)), Num(n)),
                                         Body(<<count>> \o ss)>>>>

\* Every block declares a variable; a variable left over from the iteration before
\* would show in the next one, or as garbage in its slot.
Nest(outer, inner, j1, j2) ==
  <<Fun("f", <<"p">>,
     LoopOf(outer, "i", 2,
       <<Let("a", Plus(Var("p"), Var("i")))>>
         \o LoopOf(inner, "j", 2,
              <<Let("b", Var("j")),
                Body(<<Let("c", Plus(Var("a"), Var("b"))),
                       If(Less(Num(0), Var("j")), Body(<<Let("d", Num(1)), j1>>), <<"none">>),
                       Emit(Var("c"))>>)>>)
         \o <<If(<<"binary", "eq", Var("i"), Num(0)>>, j2, Emit(Var("i"))),
              Let("e", Num(3)), Emit(Var("e"))>>)
       \o <<Ret(Var("p"))>>),
    Emit(CallOf(Var("f"), <<Num(4)>>))>>

LoopNests ==
  {Nest(outer, inner, j1, j2) :
     outer \in {"for", "while"}, inner \in {"for", "while"}, j1 \in Jumps, j2 \in Jumps}

-----------------------------------------------------------------------------
MCProgram == {Compiled(p) : p \in Range(Sources) \cup Nestings \cup LoopNests} \cup {Bytecode, OddEven}
=============================================================================
