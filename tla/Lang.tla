-------------------------------- MODULE Lang --------------------------------
(***************************************************************************)
(* What a program means, without bytecode, slots, jumps or collections: an   *)
(* evaluator over the syntax trees of Generator.tla, with scopes by name and  *)
(* an outcome ("ok", "break", "continue", "return") in place of jumps.  It   *)
(* is the reference that compiled programs are compared with.                *)
(*                                                                          *)
(* A state s holds                                                           *)
(*   env      the scopes, innermost last: name |-> value                     *)
(*   globals  name |-> value                                                 *)
(*   store    every object ever made                                         *)
(*   out      what was printed or emitted                                    *)
(*   outcome  of the last statement                                          *)
(*   val      of the last expression                                         *)
(*   program  name |-> declaration of functions and classes                  *)
(* A function is Callable(name), a class is an object of kind "class".       *)
(***************************************************************************)
EXTENDS Value, SequencesExt

Gives(s, v) == [s EXCEPT !.val = v]
Makes(s, ob) == [s EXCEPT !.store = Append(@, ob), !.val = Obj(Len(s.store) + 1)]
Shows(s, v) ==
  [s EXCEPT !.out = Append(@, IF IsObj(v) THEN <<s.store[v[2]].kind>> ELSE v)]

EmptyTable == [x \in {} |-> Null]

\* The innermost scope that has the name, or 0.
ScopeOf(env, name) ==
  Max({i \in DOMAIN env : name \in DOMAIN env[i]} \cup {0})

Lookup(s, name) ==
  LET i == ScopeOf(s.env, name)
  IN  IF i > 0 THEN s.env[i][name]
      ELSE IF name \in DOMAIN s.globals THEN s.globals[name]
      ELSE Callable(name)

Assigned(s, name) ==
  LET i == ScopeOf(s.env, name)
  IN  IF i > 0 THEN [s EXCEPT !.env[i] = Put(@, name, s.val)]
      ELSE [s EXCEPT !.globals = Put(@, name, s.val)]

Declared(s, name, v) == [s EXCEPT !.env[Len(s.env)] = Put(@, name, v)]

\* The class, from c up, that has the method, or "".
RECURSIVE Owner(_, _, _)
Owner(s, c, m) ==
  IF c = "" \/ m \in DOMAIN s.program.methods[c] THEN c
  ELSE Owner(s, s.program.super[c], m)

Binary(op, l, r) ==
  CASE op = "plus" -> Num(l[2] + r[2]) [] op = "minus" -> Num(l[2] - r[2])
    [] op = "star" -> Num(l[2] * r[2]) [] op = "slash" -> Num(l[2] \div r[2])
    [] op = "less" -> Bool(l[2] < r[2]) [] op = "greater" -> Bool(l[2] > r[2])
    [] op = "eq" -> Bool(Equal(l, r)) [] op = "ne" -> Bool(~Equal(l, r))

Length(s, v) ==
  IF IsStr(v) THEN Len(v[2])
  ELSE IF s.store[v[2]].kind = "list" THEN Len(s.store[v[2]].items)
  ELSE Cardinality(DOMAIN s.store[v[2]].entries)

TypeOf(s, v) ==
  IF IsNum(v) THEN "number" ELSE IF IsCallable(v) THEN "unknown"
  ELSE IF ~IsObj(v) THEN v[1]
  ELSE IF s.store[v[2]].kind \in {"list", "dict"} THEN s.store[v[2]].kind ELSE "object"

Text(s, v) == IF IsStr(v) THEN v
              ELSE Str(Repr(IF IsObj(v) THEN <<s.store[v[2]].kind>> ELSE v))

CallNative(s, name, argv) ==
  CASE name = "len"  -> Gives(s, Num(Length(s, argv[1])))
    [] name = "str"  -> Gives(s, Text(s, argv[1]))
    [] name = "type" -> Gives(s, Str(TypeOf(s, argv[1])))
    [] name = "abs"  -> Gives(s, Num(IF argv[1][2] < 0 THEN -argv[1][2] ELSE argv[1][2]))
    [] name = "clock" -> Gives(s, Num(0))
    [] name = "__test_emit"  -> Gives(Shows(s, argv[1]), argv[1])
    [] name = "__gc_collect" -> Gives(s, Null)
    [] name = "__gc_touch"   -> Gives(s, argv[1])
    [] name = "__make_big_dict" -> Makes(s, [kind |-> "dict", entries |-> EmptyTable])

RECURSIVE Eval(_, _), Exec(_, _), Each(_, _, _), ExecAll(_, _)

\* The state after the expressions es, evaluated in order, and their values.
EvalAll(s, es) == Each(s, es, <<>>)

Each(s, es, values) ==
  IF es = <<>> THEN <<s, values>>
  ELSE LET t == Eval(s, Head(es)) IN Each(t, Tail(es), Append(values, t.val))

\* Run statements until one does not end normally.
ExecAll(s, ss) ==
  IF ss = <<>> \/ s.outcome # "ok" THEN s ELSE ExecAll(Exec(s, Head(ss)), Tail(ss))

\* Run a function's body in scopes of its own.
Apply(s, fn, params, argv) ==
  LET scope == [x \in ToSet(params) |-> argv[CHOOSE i \in DOMAIN params : params[i] = x]]
      t == ExecAll([s EXCEPT !.env = <<scope, EmptyTable>>], fn.body)
  IN  [t EXCEPT !.env = s.env, !.outcome = "ok",
                !.val = IF t.outcome = "return" THEN t.val ELSE Null]

\* A method, found from class c up; this and the class that owns it are bound.
Invoke(s, c, m, receiver, argv) ==
  LET owner == Owner(s, c, m)
      fn == s.program.methods[owner][m]
  IN  Apply(s, fn, <<"this", "the class">> \o fn.params,
            <<receiver, Str(owner)>> \o argv)

Construct(s, k, argv) ==
  LET made == Makes(s, [kind |-> "instance", class |-> k.name, fields |-> EmptyTable])
  IN  IF Owner(s, k.name, "init") = "" THEN made
      ELSE Gives(Invoke(made, k.name, "init", made.val, argv), made.val)

CallValue(s, callee, argv) ==
  IF IsCallable(callee)
    THEN IF callee[2] \in DOMAIN Builtin THEN CallNative(s, callee[2], argv)
         ELSE LET fn == s.program.functions[callee[2]] IN Apply(s, fn, fn.params, argv)
  ELSE LET ob == s.store[callee[2]]
       IN  IF ob.kind = "class" THEN Construct(s, ob, argv)
           ELSE Invoke(s, ob.class, ob.method, ob.receiver, argv)

Property(s, v, name) ==
  LET ob == s.store[v[2]]
  IN  IF ob.kind = "dict"
        THEN Gives(s, IF name \in DOMAIN ob.entries THEN ob.entries[name] ELSE Null)
      ELSE IF name \in DOMAIN ob.fields THEN Gives(s, ob.fields[name])
      ELSE IF Owner(s, ob.class, name) = "" THEN Gives(s, Null)
      ELSE Makes(s, [kind |-> "bound", class |-> ob.class, method |-> name, receiver |-> v])

Element(s, v, i) ==
  LET ob == s.store[v[2]]
  IN  IF ob.kind = "list" THEN ob.items[i[2] + 1]
      ELSE IF i[2] \in DOMAIN ob.entries THEN ob.entries[i[2]] ELSE Null

Eval(s, e) ==
  CASE e[1] \in {"num", "str", "bool", "null"} -> Gives(s, e)
    [] e[1] = "var"    -> Gives(s, Lookup(s, e[2]))
    [] e[1] = "this"   -> Gives(s, Lookup(s, "this"))
    [] e[1] = "binary" -> LET a == EvalAll(s, <<e[3], e[4]>>)
                          IN  Gives(a[1], Binary(e[2], a[2][1], a[2][2]))
    [] e[1] = "unary"  -> LET t == Eval(s, e[3])
                          IN  Gives(t, IF e[2] = "not" THEN Bool(~t.val[2])
                                       ELSE Num(-t.val[2]))
    [] e[1] = "list"   -> LET a == EvalAll(s, e[2])
                          IN  Makes(a[1], [kind |-> "list", items |-> a[2]])
    [] e[1] = "dict"   ->
         LET a == EvalAll(s, [i \in DOMAIN e[2] |-> e[2][i][2]])
             entries == FoldLeft(LAMBDA f, i : Put(f, e[2][i][1], a[2][i]), EmptyTable,
                                 [i \in DOMAIN e[2] |-> i])
         IN  Makes(a[1], [kind |-> "dict", entries |-> entries])
    [] e[1] = "index"  -> LET a == EvalAll(s, <<e[2], e[3]>>)
                          IN  Gives(a[1], Element(a[1], a[2][1], a[2][2]))
    [] e[1] = "call"   -> LET a == EvalAll(s, <<e[2]>> \o e[3])
                          IN  CallValue(a[1], a[2][1], Tail(a[2]))
    [] e[1] = "get"    -> LET t == Eval(s, e[2]) IN Property(t, t.val, e[3])
    [] e[1] = "super"  ->
         LET super == s.program.super[Lookup(s, "the class")[2]]
         IN  Makes(s, [kind |-> "bound", class |-> super, method |-> e[2],
                       receiver |-> Lookup(s, "this")])

\* s with the property or the element k of the object o set to v.
StoredIn(s, o, k, v) ==
  LET ob == s.store[o]
  IN  CASE ob.kind = "list" -> [s EXCEPT !.store[o].items[k + 1] = v]
        [] ob.kind = "dict" -> [s EXCEPT !.store[o].entries = Put(@, k, v)]
        [] ob.kind = "instance" -> [s EXCEPT !.store[o].fields = Put(@, k, v)]

\* What a loop's body left: go on after it, or leave the loop.
RECURSIVE Loop(_, _, _, _)
Loop(s, cond, step, body) ==
  LET c == Eval(s, cond)
      b == Exec(c, body)
      next == Exec([b EXCEPT !.outcome = "ok"], step)
  IN  IF ~c.val[2] THEN c
      ELSE IF b.outcome = "break" THEN [b EXCEPT !.outcome = "ok"]
      ELSE IF b.outcome = "return" THEN b
      ELSE Loop(next, cond, step, body)

Exec(s, st) ==
  CASE st[1] = "expr"    -> Eval(s, st[2])
    [] st[1] = "print"   -> LET t == Eval(s, st[2]) IN Shows(t, t.val)
    [] st[1] = "vardecl" ->
         LET e == IF st[3] = <<"none">> THEN Null ELSE st[3]
         IN  IF Len(s.env) = 1
               THEN LET t == Eval(s, e) IN [t EXCEPT !.globals = Put(@, st[2], t.val)]
               ELSE LET t == Eval(Declared(s, st[2], Null), e) IN Declared(t, st[2], t.val)
    [] st[1] = "assign"  -> Assigned(Eval(s, st[3]), st[2])
    [] st[1] = "indexassign" -> LET a == EvalAll(s, <<st[2], st[3], st[4]>>)
                                IN  StoredIn(a[1], a[2][1][2], a[2][2][2], a[2][3])
    [] st[1] = "propassign"  -> LET a == EvalAll(s, <<st[2], st[4]>>)
                                IN  StoredIn(a[1], a[2][1][2], st[3], a[2][2])
    [] st[1] = "block"   -> LET t == ExecAll([s EXCEPT !.env = Append(@, EmptyTable)], st[2])
                            IN  [t EXCEPT !.env = Front(@)]
    [] st[1] = "if"      -> LET c == Eval(s, st[2])
                            IN  Exec(c, IF c.val[2] THEN st[3] ELSE st[4])
    [] st[1] = "while"   -> Loop(s, st[2], <<"none">>, st[3])
    [] st[1] = "for"     -> Loop(Exec(s, st[2]), st[3], st[4], st[5])
    [] st[1] = "return"  -> [Eval(s, st[2]) EXCEPT !.outcome = "return"]
    [] st[1] \in {"break", "continue"} -> [s EXCEPT !.outcome = st[1]]
    [] st[1] = "class"   -> LET t == Makes(s, [kind |-> "class", name |-> st[2]])
                            IN  Declared(t, st[2], t.val)
    [] st[1] \in {"fun", "none"} -> s

\* What program p shows.
Output(p) ==
  LET functions == {i \in DOMAIN p : p[i][1] = "fun"}
      classes == {i \in DOMAIN p : p[i][1] = "class"}
      named(K, x) == CHOOSE i \in K : p[i][2] = x
      table == [functions |-> [f \in {p[i][2] : i \in functions} |->
                   LET d == p[named(functions, f)] IN [params |-> d[3], body |-> d[4]]],
                super |-> [c \in {p[i][2] : i \in classes} |-> p[named(classes, c)][3]],
                methods |-> [c \in {p[i][2] : i \in classes} |->
                   LET ms == p[named(classes, c)][4]
                   IN  [m \in {ms[i][2] : i \in DOMAIN ms} |->
                          LET d == ms[CHOOSE i \in DOMAIN ms : ms[i][2] = m]
                          IN  [params |-> d[3], body |-> d[4]]]]]
  IN  ExecAll([env |-> <<EmptyTable>>, globals |-> EmptyTable, store |-> <<>>, out |-> <<>>,
               outcome |-> "ok", val |-> Null, program |-> table], p).out
=============================================================================
