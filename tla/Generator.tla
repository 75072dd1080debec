------------------------------ MODULE Generator ------------------------------
(***************************************************************************)
(* frontend/generator.cc: from the statements of a program to bytecode.      *)
(*                                                                          *)
(* Syntax trees (ast.h) are tuples that begin with the node's kind; a        *)
(* literal is the value it denotes.  The tuple <<"none">> stands for a       *)
(* missing else branch, for initializer or for step.                         *)
(*                                                                          *)
(* A generator state g holds the function being filled (code, consts) and   *)
(* the compile-time tables: local, the slots of the names in scope; next    *)
(* and max, next_local_index_ and max_local_index_; scopes, the start_local *)
(* of each open scope; loops, the open loops; globals; class, the class of  *)
(* the method being compiled; decl, what PredeclareFunctions found;         *)
(* objects, the class objects. A slot, a constant's index and a jump target *)
(* are counted from 0, as the VM counts them; code is a sequence of words,  *)
(* opcodes and operands, word i being code[i + 1]. live has an entry per    *)
(* word: next_local_index_ when the word was emitted; the program does not  *)
(* have it and nothing here reads it.                                       *)
(* A program on which an assert of the generator fails has no translation.   *)
(***************************************************************************)
EXTENDS Value, SequencesExt

Emit(g, words) ==
  [g EXCEPT !.code = @ \o words, !.live = @ \o [i \in DOMAIN words |-> g.next]]

AddConst(g, v) == [g EXCEPT !.consts = Append(@, v)]

EmitConst(g, v) == Emit(AddConst(g, v), <<"OP_CONSTANT", Len(g.consts)>>)

\* An instruction whose operand is a name in the constant pool.
EmitNamed(g, op, name) == Emit(AddConst(g, Str(name)), <<op, Len(g.consts)>>)

\* The instruction at g's end, and the place of its operand.
EmitJump(g, op) == Emit(g, <<op, 0>>)
JumpPos(g) == Len(g.code) + 2

\* PatchI32 at each of the places.
PatchJumpTo(g, places, target) ==
  [g EXCEPT !.code = [i \in DOMAIN @ |-> IF i \in places THEN target ELSE @[i]]]

\* Variant: the target is the word after the next one to be emitted.
PatchJumpBug(g, places) == PatchJumpTo(g, places, Len(g.code) + 1)

PatchJump(g, places) == PatchJumpTo(g, places, Len(g.code))

\* Where a name <<class, function>> stands in functions_: a name declared
\* twice stands where its last declaration does.
FindFunctionIndex(decl, name) ==
  Max({i \in DOMAIN decl.functions : decl.functions[i].name = name}) - 1

-----------------------------------------------------------------------------
(* Expressions leave one value on the operand stack.                        *)

BinaryOp == [plus |-> "OP_ADD", minus |-> "OP_SUB", star |-> "OP_MUL",
             slash |-> "OP_DIV", less |-> "OP_LESS", greater |-> "OP_GREATER",
             eq |-> "OP_EQ", ne |-> "OP_NOT_EQUAL"]

\* A local, else a global, else a native, else a function of the program.
EmitVariableExpr(g, name) ==
  IF name \in DOMAIN g.local THEN Emit(g, <<"OP_LOAD_VAR", g.local[name]>>)
  ELSE IF name \in g.globals THEN EmitNamed(g, "OP_GET_GLOBAL", name)
  ELSE EmitConst(g, Callable(IF name \in DOMAIN Builtin THEN Builtin[name]
                             ELSE BuiltinCount + FindFunctionIndex(g.decl, <<"", name>>)))

EmitThisExpr(g) == Emit(g, <<"OP_LOAD_VAR", 0>>)

EmitSuperExpr(g, method) ==
  LET super == Obj(g.decl.classes[g.decl.supers[g.class]])
      h == AddConst(AddConst(EmitThisExpr(g), super), Str(method))
  IN  Emit(h, <<"OP_GET_SUPER", Len(g.consts), Len(g.consts) + 1>>)

RECURSIVE EmitExpr(_, _)

EmitBinaryExpr(g, e) ==
  Emit(EmitExpr(EmitExpr(g, e[3]), e[4]), <<BinaryOp[e[2]]>>)

\* Minus is a subtraction from 0.
EmitUnaryExpr(g, e) ==
  IF e[2] = "not" THEN Emit(EmitExpr(g, e[3]), <<"OP_NOT">>)
  ELSE Emit(EmitExpr(EmitConst(g, Num(0)), e[3]), <<"OP_SUB">>)

EmitListExpr(g, elements) ==
  FoldLeft(LAMBDA h, e : Emit(EmitExpr(h, e), <<"OP_LIST_PUSH">>),
           Emit(g, <<"OP_LIST_NEW">>), elements)

\* Variant: an entry takes the dictionary off the stack.
EmitDictExprBug(g, entries) ==
  FoldLeft(LAMBDA h, en :
             Emit(EmitExpr(EmitConst(h, Str(en[1])), en[2]), <<"OP_INDEX_SET">>),
           Emit(g, <<"OP_DICT_NEW">>), entries)

EmitDictExpr(g, entries) ==
  FoldLeft(LAMBDA h, en :
             Emit(EmitExpr(EmitConst(Emit(h, <<"OP_DUP">>), Str(en[1])), en[2]),
                  <<"OP_INDEX_SET">>),
           Emit(g, <<"OP_DICT_NEW">>), entries)

EmitIndexExpr(g, e) == Emit(EmitExpr(EmitExpr(g, e[2]), e[3]), <<"OP_INDEX_GET">>)

EmitCallExpr(g, e) ==
  LET h == FoldLeft(LAMBDA k, a : EmitExpr(k, a), EmitExpr(g, e[2]), e[3])
  IN  Emit(h, <<"OP_CALLV", Len(e[3])>>)

EmitGetPropExpr(g, e) == EmitNamed(EmitExpr(g, e[2]), "OP_GET_PROP", e[3])

EmitExpr(g, e) ==
  CASE e[1] \in {"num", "str", "bool", "null"} -> EmitConst(g, e)
    [] e[1] = "var"    -> EmitVariableExpr(g, e[2])
    [] e[1] = "binary" -> EmitBinaryExpr(g, e)
    [] e[1] = "unary"  -> EmitUnaryExpr(g, e)
    [] e[1] = "list"   -> EmitListExpr(g, e[2])
    [] e[1] = "dict"   -> EmitDictExpr(g, e[2])
    [] e[1] = "index"  -> EmitIndexExpr(g, e)
    [] e[1] = "call"   -> EmitCallExpr(g, e)
    [] e[1] = "get"    -> EmitGetPropExpr(g, e)
    [] e[1] = "this"   -> EmitThisExpr(g)
    [] e[1] = "super"  -> EmitSuperExpr(g, e[2])

-----------------------------------------------------------------------------
(* Statements leave the operand stack as they found it.                      *)

EmitPrintStmt(g, s) == Emit(EmitExpr(g, s[2]), <<"OP_PRINT">>)

\* Variant: the value of an expression statement stays on the stack.
EmitExprStmtBug(g, s) == EmitExpr(g, s[2])

EmitExprStmt(g, s) == Emit(EmitExpr(g, s[2]), <<"OP_POP">>)

\* A new slot for name, in the innermost scope.
DeclareLocal(g, name) ==
  [g EXCEPT !.local = Put(@, name, g.next), !.next = @ + 1,
            !.max = IF @ < g.next + 1 THEN g.next + 1 ELSE @]

\* Without an initializer the variable is null.
EmitVarStmt(g, s) ==
  LET initializer == IF s[3] = <<"none">> THEN Null ELSE s[3]
  IN  IF Len(g.scopes) = 1
        THEN LET h == AddConst([g EXCEPT !.globals = @ \cup {s[2]}], Str(s[2]))
             IN  Emit(EmitExpr(h, initializer), <<"OP_DEFINE_GLOBAL", Len(g.consts)>>)
        ELSE Emit(EmitExpr(DeclareLocal(g, s[2]), initializer), <<"OP_STORE_VAR", g.next>>)

EmitAssignStmt(g, s) ==
  LET h == EmitExpr(g, s[3])
  IN  IF s[2] \in DOMAIN g.local THEN Emit(h, <<"OP_STORE_VAR", g.local[s[2]]>>)
      ELSE EmitNamed(h, "OP_SET_GLOBAL", s[2])

EmitIndexAssignStmt(g, s) ==
  Emit(EmitExpr(EmitExpr(EmitExpr(g, s[2]), s[3]), s[4]), <<"OP_INDEX_SET">>)

EmitPropAssignStmt(g, s) ==
  EmitNamed(EmitExpr(EmitExpr(g, s[2]), s[4]), "OP_SET_PROP", s[3])

\* Clear the slots of the scopes deeper than depth, from the innermost out; end
\* is the slot after the last one of scope i.
RECURSIVE EmitUnwind(_, _, _, _)
EmitUnwind(g, depth, i, end) ==
  IF i <= depth THEN g
  ELSE LET start == g.scopes[i]
           h == IF end = start THEN g
                ELSE Emit(g, <<"OP_POPN", start, end - start>>)
       IN  EmitUnwind(h, depth, i - 1, start)

\* Variant: only the innermost scope is cleared.
EmitUnwindToDepthBug(g, depth) ==
  LET start == g.scopes[Len(g.scopes)]
  IN  IF g.next = start \/ Len(g.scopes) <= depth THEN g
      ELSE Emit(g, <<"OP_POPN", start, g.next - start>>)

EmitUnwindToDepth(g, depth) == EmitUnwind(g, depth, Len(g.scopes), g.next)

EmitReturnStmt(g, s) == Emit(EmitUnwindToDepth(EmitExpr(g, s[2]), 1), <<"OP_RETURN">>)

\* Variant: the jump is noted at the outermost loop.
EmitLoopJumpBug(g, jumps) ==
  LET h == EmitUnwindToDepth(g, g.loops[1].depth)
  IN  [EmitJump(h, "OP_JUMP") EXCEPT !.loops[1][jumps] = @ \cup {JumpPos(h)}]

\* A jump out of the innermost loop's body, noted under "breaks" or "continues".
EmitLoopJump(g, jumps) ==
  LET n == Len(g.loops)
      h == EmitUnwindToDepth(g, g.loops[n].depth)
  IN  [EmitJump(h, "OP_JUMP") EXCEPT !.loops[n][jumps] = @ \cup {JumpPos(h)}]

RECURSIVE EmitStmt(_, _)

\* There is always a scope: asking makes TLC evaluate g before it goes on, which
\* keeps its evaluation shallow.
RECURSIVE EmitStmts(_, _)
EmitStmts(g, ss) ==
  IF g.scopes = <<>> \/ ss = <<>> THEN g
  ELSE EmitStmts(EmitStmt(g, Head(ss)), Tail(ss))

EmitBlockStmt(g, s) ==
  LET h == EmitStmts([g EXCEPT !.scopes = Append(@, g.next)], s[2])
      k == Emit(h, <<"OP_POPN", g.next, h.next - g.next>>)
  IN  [k EXCEPT !.next = g.next, !.local = g.local, !.scopes = g.scopes]

EmitIfStmt(g, s) ==
  LET c == EmitExpr(g, s[2])
      t == EmitStmt(EmitJump(c, "OP_JUMP_IF_FALSE"), s[3])
      e == EmitStmt(PatchJump(EmitJump(t, "OP_JUMP"), {JumpPos(c)}), s[4])
  IN  PatchJump(e, {JumpPos(t)})

PushLoop(g) ==
  [g EXCEPT !.loops = Append(@, [depth |-> Len(g.scopes), breaks |-> {}, continues |-> {}])]

\* Close a loop that starts at word start, whose exit jump is at place exit.
EndLoop(g, start, exit) ==
  LET h == PatchJump(Emit(g, <<"OP_JUMP", start>>), {exit} \cup Last(g.loops).breaks)
  IN  [h EXCEPT !.loops = Front(@)]

EmitWhileStmt(g, s) ==
  LET start == Len(g.code)
      c == EmitExpr(PushLoop(g), s[2])
      b == EmitStmt(EmitJump(c, "OP_JUMP_IF_FALSE"), s[3])
  IN  EndLoop(PatchJumpTo(b, Last(b.loops).continues, start), start, JumpPos(c))

\* Variant: continue skips the step, as in a while loop.
EmitForStmtBug(g, s) ==
  LET i == EmitStmt(PushLoop(g), s[2])
      start == Len(i.code)
      c == EmitExpr(i, s[3])
      b == EmitStmt(EmitJump(c, "OP_JUMP_IF_FALSE"), s[5])
      t == EmitStmt(PatchJumpTo(b, Last(b.loops).continues, start), s[4])
  IN  EndLoop(t, start, JumpPos(c))

EmitForStmt(g, s) ==
  LET i == EmitStmt(PushLoop(g), s[2])
      start == Len(i.code)
      c == EmitExpr(i, s[3])
      b == EmitStmt(EmitJump(c, "OP_JUMP_IF_FALSE"), s[5])
      t == EmitStmt(PatchJump(b, Last(b.loops).continues), s[4])
  IN  EndLoop(t, start, JumpPos(c))

\* The class object exists since PredeclareFunctions; it gets its superclass and
\* its methods here, while the generator runs, and a slot when the VM runs.
EmitClassStmt(g, s) ==
  LET id == g.decl.classes[s[2]]
      methods == [m \in {s[4][i][2] : i \in DOMAIN s[4]} |->
                    BuiltinCount + FindFunctionIndex(g.decl, <<s[2], m>>)]
      k == [g.objects[id] EXCEPT
              !.super = IF s[2] \in DOMAIN g.decl.supers
                          THEN g.decl.classes[g.decl.supers[s[2]]] ELSE @,
              !.methods = methods @@ @]
      h == DeclareLocal([g EXCEPT !.objects[id] = k], s[2])
  IN  Emit(EmitConst(h, Obj(id)), <<"OP_STORE_VAR", g.next>>)

EmitStmt(g, s) ==
  CASE s[1] = "print"       -> EmitPrintStmt(g, s)
    [] s[1] = "expr"        -> EmitExprStmt(g, s)
    [] s[1] = "vardecl"     -> EmitVarStmt(g, s)
    [] s[1] = "assign"      -> EmitAssignStmt(g, s)
    [] s[1] = "while"       -> EmitWhileStmt(g, s)
    [] s[1] = "for"         -> EmitForStmt(g, s)
    [] s[1] = "break"       -> EmitLoopJump(g, "breaks")
    [] s[1] = "continue"    -> EmitLoopJump(g, "continues")
    [] s[1] = "block"       -> EmitBlockStmt(g, s)
    [] s[1] = "indexassign" -> EmitIndexAssignStmt(g, s)
    [] s[1] = "if"          -> EmitIfStmt(g, s)
    [] s[1] = "return"      -> EmitReturnStmt(g, s)
    [] s[1] = "propassign"  -> EmitPropAssignStmt(g, s)
    [] s[1] = "class"       -> EmitClassStmt(g, s)
    [] s[1] \in {"fun", "none"} -> g

-----------------------------------------------------------------------------
(* Whole programs                                                           *)

\* The functions and methods in the order in which the VM will register them.
FunctionsOf(p) ==
  FlattenSeq([i \in DOMAIN p |->
    CASE p[i][1] = "fun" ->
           <<[name |-> <<"", p[i][2]>>, params |-> p[i][3], body |-> p[i][4]]>>
      [] p[i][1] = "class" ->
           [j \in DOMAIN p[i][4] |->
              LET m == p[i][4][j]
              IN  [name |-> <<p[i][2], m[2]>>, params |-> m[3], body |-> m[4]]]
      [] OTHER -> <<>>])

\* What a generator has before a Generate: functions_; class_map_, by name the
\* identities of the class objects; super_name_map_; and what those objects hold.
Clean == [functions |-> <<>>, classes |-> [c \in {} |-> 0], supers |-> [c \in {} |-> ""],
          objects |-> [i \in {} |-> 0]]

NewClass(name) ==
  [kind |-> "class", name |-> name, super |-> 0, methods |-> [m \in {} |-> 0]]

\* What it has then, with these functions: a class that class_map_ does not have
\* gets an object, the next on the heap.
Declared(p, kept, functions) ==
  LET new == SelectSeq(p, LAMBDA s : s[1] = "class" /\ s[2] \notin DOMAIN kept.classes)
      place(c) == CHOOSE i \in DOMAIN new : new[i][2] = c
      derived == {s \in ToSet(p) : s[1] = "class" /\ s[3] # ""}
      n == Cardinality(DOMAIN kept.objects)
  IN  [functions |-> functions,
       classes   |-> [c \in {new[i][2] : i \in DOMAIN new} |-> n + place(c)] @@ kept.classes,
       supers    |-> [c \in {s[2] : s \in derived} |->
                        (CHOOSE s \in derived : s[2] = c)[3]] @@ kept.supers,
       objects   |-> [i \in n + 1 .. n + Len(new) |-> NewClass(new[i - n][2])] @@ kept.objects]

\* Variant: functions_ is not cleared.
PredeclareFunctionsBug(p, kept) == Declared(p, kept, kept.functions \o FunctionsOf(p))

PredeclareFunctions(p, kept) == Declared(p, kept, FunctionsOf(p))

\* The state in which a function's body is compiled: its parameters bound.
EnterFunction(fn, decl, globals, class, params) ==
  [code |-> fn.code, live |-> fn.live, consts |-> fn.consts,
   local |-> [x \in ToSet(params) |-> (CHOOSE i \in DOMAIN params : params[i] = x) - 1],
   next |-> Len(params), max |-> Len(params),
   scopes |-> <<0>>, loops |-> <<>>,
   globals |-> globals, class |-> class, decl |-> decl,
   objects |-> [i \in {} |-> 0]]

\* Variant: the function asks for the slots in use at its end.
LeaveFunctionBug(g, arity) ==
  LET h == Emit(EmitConst(g, Null), <<"OP_RETURN">>)
  IN  [code |-> h.code, live |-> h.live, consts |-> h.consts,
       arity |-> arity, localCount |-> g.next]

\* A filled function: an implicit "return null" ends it.
LeaveFunction(g, arity) ==
  LET h == Emit(EmitConst(g, Null), <<"OP_RETURN">>)
  IN  [code |-> h.code, live |-> h.live, consts |-> h.consts,
       arity |-> arity, localCount |-> g.max]

EmptyFunction(arity) ==
  [code |-> <<>>, live |-> <<>>, consts |-> <<>>, arity |-> arity, localCount |-> 0]

\* A method's receiver takes the first slot.
Parameters(f) == IF f.name[1] = "" THEN f.params ELSE <<"this">> \o f.params

\* Fill the function that f's name stands for.
CompileFunctionBody(fns, decl, globals, f) ==
  LET i == FindFunctionIndex(decl, f.name) + 1
      g == EnterFunction(fns[i], decl, globals, f.name[1], Parameters(f))
  IN  [fns EXCEPT ![i] = LeaveFunction(EmitBlockStmt(g, <<"block", f.body>>), @.arity)]

\* What Generate returns, the script's function, and the functions to register
\* and the class objects that the generator then has; decl is what it has for the
\* next Generate.
GenerateAfter(p, kept) ==
  LET decl == PredeclareFunctions(p, kept)
      globals == {p[i][2] : i \in {j \in DOMAIN p : p[j][1] = "vardecl"}}
      fns == FoldLeft(LAMBDA acc, f : CompileFunctionBody(acc, decl, globals, f),
                      [i \in DOMAIN decl.functions |->
                         EmptyFunction(Len(Parameters(decl.functions[i])))],
                      decl.functions)
      script == EmitStmts([EnterFunction(EmptyFunction(0), decl, globals, "", <<>>)
                             EXCEPT !.objects = decl.objects],
                          p)
  IN  [script |-> LeaveFunction(script, 0), functions |-> fns, objects |-> script.objects,
       decl |-> [decl EXCEPT !.objects = script.objects]]

\* The first Generate of a generator.
Generate(p) == GenerateAfter(p, Clean)
=============================================================================
