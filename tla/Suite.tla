-------------------------------- MODULE Suite --------------------------------
(***************************************************************************)
(* main.cc, which is the program: functions that build bytecode by hand or    *)
(* hold a script, run it, and say what to expect of it.  base is the index    *)
(* that RegisterFunction gives to the first function a test registers.        *)
(***************************************************************************)
EXTENDS Value

Fn(arity, locals, consts, code) ==
  [arity |-> arity, localCount |-> locals, consts |-> consts, code |-> code,
   live |-> [i \in DOMAIN code |-> locals]]

\* A test: its main function, the functions that it registers, and the prints and
\* the returned value that it announces.
Test(main, functions, prints, returns) ==
  [script |-> main, functions |-> functions, prints |-> prints, returns |-> returns]

\* Built but not run by main.cc: it ends without a return.
FunctionTest ==
  Test(Fn(0, 0, Nums(<<10, 20>>),
          <<"OP_CONSTANT", 0, "OP_CONSTANT", 1, "OP_ADD", "OP_PRINT">>),
       <<>>, Nums(<<30>>), Null)

VMTest ==
  Test(Fn(0, 0, Nums(<<6, 3>>),
          <<"OP_CONSTANT", 0, "OP_CONSTANT", 1, "OP_DIV", "OP_RETURN">>),
       <<>>, <<>>, Num(2))

VarTest ==
  Test(Fn(0, 2, Nums(<<20, 10>>),
          <<"OP_CONSTANT", 0, "OP_STORE_VAR", 0, "OP_CONSTANT", 1, "OP_STORE_VAR", 1,
            "OP_LOAD_VAR", 0, "OP_LOAD_VAR", 1, "OP_ADD", "OP_RETURN">>),
       <<>>, <<>>, Num(30))

CallTest(base) ==
  Test(Fn(0, 0, <<>>, <<"OP_CALL", base, "OP_RETURN">>),
       <<Fn(0, 0, Nums(<<20, 21>>),
            <<"OP_CONSTANT", 0, "OP_CONSTANT", 1, "OP_ADD", "OP_RETURN">>)>>,
       <<>>, Num(41))

CallWithArgTest(base) ==
  Test(Fn(0, 0, Nums(<<20, 21>>),
          <<"OP_CONSTANT", 0, "OP_CONSTANT", 1, "OP_CALL", base, "OP_RETURN">>),
       <<Fn(2, 2, <<>>, <<"OP_LOAD_VAR", 0, "OP_LOAD_VAR", 1, "OP_ADD", "OP_RETURN">>)>>,
       <<>>, Num(41))

Eqtest ==
  Test(Fn(0, 0, Nums(<<1, 2>>), <<"OP_CONSTANT", 0, "OP_CONSTANT", 1, "OP_EQ", "OP_RETURN">>),
       <<>>, <<>>, Bool(FALSE))

\* The exit of the loop is patched to where the code after it begins.
ForLoopTest ==
  Test(Fn(0, 1, Nums(<<0, 1, 3>>),
          <<"OP_CONSTANT", 0, "OP_STORE_VAR", 0,
            "OP_LOAD_VAR", 0, "OP_CONSTANT", 2, "OP_LESS", "OP_JUMP_IF_FALSE", 23,
            "OP_LOAD_VAR", 0, "OP_PRINT",
            "OP_LOAD_VAR", 0, "OP_CONSTANT", 1, "OP_ADD", "OP_STORE_VAR", 0,
            "OP_JUMP", 4,
            "OP_LOAD_VAR", 0, "OP_RETURN">>),
       <<>>, Nums(<<0, 1, 2>>), Num(3))

IfTest ==
  Test(Fn(0, 0, Nums(<<1, 2, 888, 999>>) \o <<Null>>,
          <<"OP_CONSTANT", 0, "OP_CONSTANT", 1, "OP_EQ", "OP_JUMP_IF_FALSE", 12,
            "OP_CONSTANT", 3, "OP_PRINT", "OP_JUMP", 15,
            "OP_CONSTANT", 2, "OP_PRINT",
            "OP_CONSTANT", 4, "OP_RETURN">>),
       <<>>, Nums(<<888>>), Null)

\* even or odd: return atZero if n is 0, else ask other about n - 1.
Parity(atZero, other) ==
  Fn(1, 1, Nums(<<0, 1>>) \o <<Bool(atZero)>>,
     <<"OP_LOAD_VAR", 0, "OP_CONSTANT", 0, "OP_EQ", "OP_JUMP_IF_FALSE", 10,
       "OP_CONSTANT", 2, "OP_RETURN",
       "OP_LOAD_VAR", 0, "OP_CONSTANT", 1, "OP_SUB", "OP_CALL", other, "OP_RETURN">>)

\* odd is registered first; main prints even(3) and odd(3).  That both are true is what
\* main.cc:523 says.
OddEvenTest(base) ==
  Test(Fn(0, 0, Nums(<<3>>),
          <<"OP_CONSTANT", 0, "OP_CALL", base + 1, "OP_PRINT",
            "OP_CONSTANT", 0, "OP_CALL", base, "OP_DUP", "OP_PRINT", "OP_RETURN">>),
       <<Parity(FALSE, base + 1), Parity(TRUE, base)>>,
       <<Bool(TRUE), Bool(TRUE)>>, Bool(TRUE))

CompareTest ==
  Test(Fn(0, 0, Nums(<<1, 2>>), <<"OP_CONSTANT", 0, "OP_CONSTANT", 1, "OP_LESS", "OP_RETURN">>),
       <<>>, <<>>, Bool(TRUE))

ListOpcodeTest ==
  Test(Fn(0, 1, Nums(<<1, 2, 0>>),
          <<"OP_LIST_NEW", "OP_STORE_VAR", 0,
            "OP_LOAD_VAR", 0, "OP_CONSTANT", 0, "OP_LIST_PUSH", "OP_CONSTANT", 1, "OP_LIST_PUSH",
            "OP_LIST_LEN", "OP_PRINT",
            "OP_LOAD_VAR", 0, "OP_CONSTANT", 2, "OP_CONSTANT", 1, "OP_INDEX_SET",
            "OP_LOAD_VAR", 0, "OP_CONSTANT", 2, "OP_INDEX_GET",
            "OP_DUP", "OP_PRINT", "OP_RETURN">>),
       <<>>, Nums(<<2, 2>>), Num(2))

DictOpcodeTest ==
  LET get == <<"OP_CONSTANT", 2, "OP_INDEX_GET", "OP_PRINT">>
      set(k, v) == <<"OP_CONSTANT", k, "OP_CONSTANT", v, "OP_INDEX_SET">>
      load == <<"OP_LOAD_VAR", 0>>
  IN  Test(Fn(0, 1, Nums(<<1, 2>>) \o <<Str("a"), Str("b"), Str("c")>>,
              <<"OP_DICT_NEW", "OP_STORE_VAR", 0>>
                \o load \o <<"OP_DUP">> \o set(2, 0) \o set(3, 1)
                \o load \o get
                \o load \o <<"OP_DUP">> \o set(2, 1) \o get
                \o load \o <<"OP_CONSTANT", 4, "OP_DICT_HAS", "OP_DUP", "OP_PRINT", "OP_RETURN">>),
           <<>>, Nums(<<1, 2>>) \o <<Bool(FALSE)>>, Bool(FALSE))
=============================================================================
