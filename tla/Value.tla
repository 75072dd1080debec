-------------------------------- MODULE Value --------------------------------
(***************************************************************************)
(* Values of the language (value.h, value.cc), as tuples that begin with    *)
(* their type.  An object value holds an object's identity, a callable its   *)
(* index in the VM's table.  Numbers are integers: the programs that are     *)
(* checked compute no fractions.                                             *)
(***************************************************************************)
EXTENDS Integers, Sequences, TLC

Null        == <<"null">>
Bool(b)     == <<"bool", b>>
Num(n)      == <<"num", n>>
Nums(s)     == [i \in DOMAIN s |-> Num(s[i])]
Str(s)      == <<"str", s>>
Obj(o)      == <<"obj", o>>
Callable(i) == <<"callable", i>>

IsBool(v)     == v[1] = "bool"
IsNum(v)      == v[1] = "num"
IsStr(v)      == v[1] = "str"
IsObj(v)      == v[1] = "obj"
IsCallable(v) == v[1] = "callable"

\* The object v refers to, if any.
ObjOf(v) == IF IsObj(v) THEN {v[2]} ELSE {}

\* The objects that the values of s refer to.
ObjsIn(s) == UNION {ObjOf(s[i]) : i \in DOMAIN s}

\* operator==: objects and callables are equal to nothing, not even themselves.
Equal(v, w) == ~IsObj(v) /\ ~IsCallable(v) /\ v = w

\* Value::ToRepr, of a value or of an object's type.
Repr(v) ==
  CASE v[1] = "bool" -> IF v[2] THEN "true" ELSE "false"
    [] v[1] = "num" -> ToString(v[2])
    [] v[1] = "str" -> v[2]
    [] v[1] = "callable" -> "<fn #" \o ToString(v[2]) \o ">"
    [] OTHER -> v[1]

\* A table with one more (or one other) entry.
Put(f, k, v) == [x \in DOMAIN f \cup {k} |-> IF x = k THEN v ELSE f[x]]

\* The natives' places in callables_ (InitBuiltins and RegisterBuiltins); the
\* functions of the program come after them.
Builtin == [len |-> 0, str |-> 1, type |-> 2, abs |-> 3, clock |-> 4,
            __test_emit |-> 5, __gc_collect |-> 6, __gc_touch |-> 7,
            __make_big_dict |-> 8]

BuiltinCount == 9
=============================================================================
