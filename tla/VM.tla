--------------------------------- MODULE VM ---------------------------------
(***************************************************************************)
(* vm.cc: the bytecode interpreter, run on one of a set of programs.         *)
(*                                                                          *)
(* One action per opcode, and per case of an opcode that branches on what    *)
(* it finds.  A failed assert and an access out of bounds have no step, so   *)
(* that TLC reports a program that meets one as a deadlock.  The collector   *)
(* is seen as Heap.tla shows it, a collection being atomic; its one flaw     *)
(* that programs can observe, that a fields dictionary is traced by its      *)
(* first collection only, is kept.  When a safepoint collects depends on     *)
(* thresholds that tests set at will: every safepoint may collect or not.    *)
(***************************************************************************)
EXTENDS Value, FiniteSets

CONSTANT Program     \* compiled programs: [script, functions, objects, ...]

\* The functions of a program, the main one included.
FunctionsOf(p) == {p.script} \cup {p.functions[i] : i \in DOMAIN p.functions}

\* Code is finite, and functions know how many arguments and slots they have.
FunctionsFormed(p) ==
  /\ p.functions \in Seq(FunctionsOf(p))
  /\ \A fn \in FunctionsOf(p) : fn.arity \in Nat /\ fn.localCount \in Nat /\ Len(fn.code) \in Nat

\* The generator has made the objects that functions and classes refer to, one
\* after the other; all of them are classes.
WellFormed(p) ==
  LET made == DOMAIN p.objects
  IN  /\ made = 1 .. Cardinality(made) /\ IsFiniteSet(made)
      /\ \A o \in made : p.objects[o].kind = "class" /\ p.objects[o].super \in {0} \cup made
      /\ FunctionsFormed(p)
      /\ \A fn \in FunctionsOf(p) : ObjsIn(fn.consts) \subseteq made

ASSUME ProgramAssumption == \A p \in Program : WellFormed(p)

VARIABLES
  prog,              \* the program that runs: the script and callables_
  frames,            \* frames_: the function, ip, locals_, and what init returns
  stack,             \* stack_
  globals,           \* globals_: name |-> value
  heap,              \* the collector's objects: identity |-> contents
  nextObj,           \* the identity of the next object
  lastReturn,        \* last_return_value_
  emitted            \* what the program printed or passed to __test_emit

vars == <<prog, frames, stack, globals, heap, nextObj, lastReturn, emitted>>

-----------------------------------------------------------------------------
(* The current instruction                                                  *)

\* A frame's function is a callable's index or, for the main function, which is
\* not registered, Script.
Script == -1

FnOf(i) == IF i = Script THEN prog.script
           ELSE prog.functions[i - BuiltinCount + 1]

Frame == frames[Len(frames)]
Code == FnOf(Frame.fn).code
Running == frames # <<>> /\ Frame.ip < Len(Code)

\* The k-th operand, and the constant or the local that it is the index of.
Opnd(k) == Code[Frame.ip + 1 + k]
Const(k) == FnOf(Frame.fn).consts[Opnd(k) + 1]
HasConst(k) == Opnd(k) + 1 \in DOMAIN FnOf(Frame.fn).consts

\* The k-th value from the top of the stack, and the stack with the top n
\* values replaced by those of s.
Top(k) == stack[Len(stack) - k + 1]
Replaced(n, s) == SubSeq(stack, 1, Len(stack) - n) \o s

\* The frames once the instruction and its n operands are read.
Read(n) == [frames EXCEPT ![Len(frames)].ip = @ + 1 + n]

\* The instruction is op, and its n operands (of the stack) are there.
At(op, n) == Running /\ Code[Frame.ip + 1] = op /\ Len(stack) >= n

-----------------------------------------------------------------------------
(* Objects                                                                  *)

NoFields == [x \in {} |-> Null]

IsKind(v, k) == IsObj(v) /\ heap[v[2]].kind = k
The(v) == heap[v[2]]

ValuesIn(f) == UNION {ObjOf(f[x]) : x \in DOMAIN f}

\* What an object holds on to, and what its Trace() reports.
Children(ob) ==
  CASE ob.kind = "list"     -> ValuesIn(ob.items)
    [] ob.kind = "dict"     -> ValuesIn(ob.entries)
    [] ob.kind = "class"    -> {ob.super} \ {0}
    [] ob.kind = "instance" -> {ob.class} \cup ValuesIn(ob.fields)
    [] ob.kind = "bound"    -> ObjOf(ob.receiver)

\* Variant: a bound method does not report its receiver.
TracedBug(ob) == IF ob.kind = "bound" THEN {} ELSE Children(ob)

Traced(ob) ==
  IF ob.kind = "instance" /\ ob.fieldsMarked THEN {ob.class} ELSE Children(ob)

\* What is reached from R along edges, from object to set of objects: each round
\* adds what the last one refers to.
Closure(edges, R) ==
  LET round[n \in 0..Cardinality(DOMAIN edges)] ==
        IF n = 0 THEN R
        ELSE LET S == round[n - 1]
             IN  S \cup UNION {edges[o] : o \in S \cap DOMAIN edges}
  IN  round[Cardinality(DOMAIN edges)]

\* The callable a class has for a method: its own, else its superclass's.
GetMethodIndex(c, name) ==
  LET find[k \in DOMAIN heap \cup {0}] ==
        IF k = 0 THEN -1
        ELSE IF name \in DOMAIN heap[k].methods THEN heap[k].methods[name]
        ELSE find[heap[k].super]
  IN  find[c]

-----------------------------------------------------------------------------
(* Collections                                                              *)

ConstantsOf(fn) == ObjsIn(fn.consts)

FrameRoots(f) == ObjsIn(f.locals) \cup ObjOf(f.instance) \cup ConstantsOf(FnOf(f.fn))

\* Variant: globals are not scanned.
TraceRootsBug(st, frs, gl, ret) ==
  ObjsIn(st) \cup ObjOf(ret)
    \cup (UNION {FrameRoots(frs[i]) : i \in DOMAIN frs})
    \cup (UNION {ConstantsOf(prog.functions[i]) : i \in DOMAIN prog.functions})

TraceRoots(st, frs, gl, ret) ==
  ObjsIn(st) \cup ObjOf(ret) \cup ValuesIn(gl)
    \cup (UNION {FrameRoots(frs[i]) : i \in DOMAIN frs})
    \cup (UNION {ConstantsOf(prog.functions[i]) : i \in DOMAIN prog.functions})

\* The heap h after a collection with roots R.
Collected(h, R) ==
  LET live == Closure([o \in DOMAIN h |-> Traced(h[o])], R)
  IN  [o \in DOMAIN h \cap live |->
         IF h[o].kind = "instance" THEN [h[o] EXCEPT !.fieldsMarked = TRUE] ELSE h[o]]

\* GcSafePoint_ at the end of an instruction that leaves heap h and frames frs.
SafePoint(h, frs) ==
  heap' \in {h, Collected(h, TraceRoots(stack', frs, globals', lastReturn'))}

-----------------------------------------------------------------------------
(* Instructions that only move values                                       *)

\* The instruction has n operands and only changes the stack.
Stacked(n, s) ==
  /\ stack' = s
  /\ frames' = Read(n)
  /\ UNCHANGED <<prog, globals, heap, nextObj, lastReturn, emitted>>

Pop == At("OP_POP", 1) /\ Stacked(0, Replaced(1, <<>>))

Dup == At("OP_DUP", 1) /\ Stacked(0, Replaced(0, <<Top(1)>>))

Constant == At("OP_CONSTANT", 0) /\ HasConst(1) /\ Stacked(1, Replaced(0, <<Const(1)>>))

LoadVar ==
  /\ At("OP_LOAD_VAR", 0)
  /\ Opnd(1) \in 0 .. Len(Frame.locals) - 1
  /\ Stacked(1, Replaced(0, <<Frame.locals[Opnd(1) + 1]>>))

StoreVar ==
  /\ At("OP_STORE_VAR", 1)
  /\ Opnd(1) \in 0 .. Len(Frame.locals) - 1
  /\ stack' = Replaced(1, <<>>)
  /\ frames' = [Read(1) EXCEPT ![Len(frames)].locals[Opnd(1) + 1] = Top(1)]
  /\ UNCHANGED <<prog, globals, heap, nextObj, lastReturn, emitted>>

\* Clear Opnd(2) slots from Opnd(1) on.
PopN ==
  /\ At("OP_POPN", 0)
  /\ Opnd(1) + Opnd(2) <= Len(Frame.locals)
  /\ LET slots == Opnd(1) + 1 .. Opnd(1) + Opnd(2)
     IN  frames' = [Read(2) EXCEPT ![Len(frames)].locals =
                      [i \in DOMAIN @ |-> IF i \in slots THEN Null ELSE @[i]]]
  /\ UNCHANGED <<prog, stack, globals, heap, nextObj, lastReturn, emitted>>

\* Division is modelled where it is exact.
Arithmetic ==
  \E op \in {"OP_ADD", "OP_SUB", "OP_MUL", "OP_DIV"} :
    /\ At(op, 2)
    /\ IsNum(Top(1)) /\ IsNum(Top(2))
    /\ LET l == Top(2)[2]
           r == Top(1)[2]
           n == CASE op = "OP_ADD" -> l + r [] op = "OP_SUB" -> l - r
                  [] op = "OP_MUL" -> l * r [] op = "OP_DIV" -> l \div r
       IN  /\ op = "OP_DIV" => r # 0 /\ l % r = 0
           /\ Stacked(0, Replaced(2, <<Num(n)>>))

Comparison ==
  \E op \in {"OP_LESS", "OP_GREATER"} :
    /\ At(op, 2)
    /\ IsNum(Top(1)) /\ IsNum(Top(2))
    /\ Stacked(0, Replaced(2, <<Bool(IF op = "OP_LESS" THEN Top(2)[2] < Top(1)[2]
                                     ELSE Top(2)[2] > Top(1)[2])>>))

Equality ==
  \E op \in {"OP_EQ", "OP_NOT_EQUAL"} :
    /\ At(op, 2)
    /\ Stacked(0, Replaced(2, <<Bool(Equal(Top(2), Top(1)) = (op = "OP_EQ"))>>))

Not ==
  /\ At("OP_NOT", 1) /\ IsBool(Top(1))
  /\ Stacked(0, Replaced(1, <<Bool(~Top(1)[2])>>))

Negate ==
  /\ At("OP_NEGATE", 1) /\ IsNum(Top(1))
  /\ Stacked(0, Replaced(1, <<Num(-Top(1)[2])>>))

Jump ==
  /\ At("OP_JUMP", 0)
  /\ frames' = [frames EXCEPT ![Len(frames)].ip = Opnd(1)]
  /\ UNCHANGED <<prog, stack, globals, heap, nextObj, lastReturn, emitted>>

JumpIfFalse ==
  /\ At("OP_JUMP_IF_FALSE", 1) /\ IsBool(Top(1))
  /\ stack' = Replaced(1, <<>>)
  /\ frames' = IF Top(1)[2] THEN Read(1)
               ELSE [frames EXCEPT ![Len(frames)].ip = Opnd(1)]
  /\ UNCHANGED <<prog, globals, heap, nextObj, lastReturn, emitted>>

\* What an observer sees of a value: of an object, its type.
Shown(h, v) == IF IsObj(v) THEN <<h[v[2]].kind>> ELSE v

PrintTop ==
  /\ At("OP_PRINT", 1)
  /\ stack' = Replaced(1, <<>>)
  /\ frames' = Read(0)
  /\ emitted' = Append(emitted, Shown(heap, Top(1)))
  /\ UNCHANGED <<prog, globals, heap, nextObj, lastReturn>>

DefineGlobal ==
  /\ At("OP_DEFINE_GLOBAL", 1) /\ HasConst(1)
  /\ globals' = Put(globals, Const(1)[2], Top(1))
  /\ stack' = Replaced(1, <<>>)
  /\ frames' = Read(1)
  /\ UNCHANGED <<prog, heap, nextObj, lastReturn, emitted>>

GetGlobal ==
  /\ At("OP_GET_GLOBAL", 0) /\ HasConst(1)
  /\ Const(1)[2] \in DOMAIN globals
  /\ Stacked(1, Replaced(0, <<globals[Const(1)[2]]>>))

SetGlobal ==
  /\ At("OP_SET_GLOBAL", 1) /\ HasConst(1)
  /\ Const(1)[2] \in DOMAIN globals
  /\ globals' = Put(globals, Const(1)[2], Top(1))
  /\ stack' = Replaced(1, <<>>)
  /\ frames' = Read(1)
  /\ UNCHANGED <<prog, heap, nextObj, lastReturn, emitted>>
-----------------------------------------------------------------------------
(* Instructions on objects                                                  *)

\* The heap with new objects.
With(obs) ==
  [o \in DOMAIN heap \cup (nextObj .. nextObj + Len(obs) - 1) |->
     IF o < nextObj THEN heap[o] ELSE obs[o - nextObj + 1]]

\* The instruction has n operands, makes k objects and ends at a safepoint, where
\* the stack is s and the heap h.
Allocates(n, k, s, h) ==
  /\ stack' = s
  /\ frames' = Read(n)
  /\ nextObj' = nextObj + k
  /\ UNCHANGED <<prog, globals, lastReturn, emitted>>
  /\ SafePoint(h, frames')

\* The instruction stores into an object; a list does so without a safepoint.
Stores(n, s, h) ==
  /\ stack' = s
  /\ frames' = Read(n)
  /\ heap' = h
  /\ UNCHANGED <<prog, globals, nextObj, lastReturn, emitted>>

NewList == [kind |-> "list", items |-> <<>>]
NewDict == [kind |-> "dict", entries |-> NoFields]
NewInstance(c) ==
  [kind |-> "instance", class |-> c, fields |-> NoFields, fieldsMarked |-> FALSE]
NewBound(receiver, method) ==
  [kind |-> "bound", receiver |-> receiver, method |-> method]

Get(f, name) == IF name \in DOMAIN f THEN f[name] ELSE Null

ListNew ==
  At("OP_LIST_NEW", 0)
  /\ Allocates(0, 1, Replaced(0, <<Obj(nextObj)>>), With(<<NewList>>))

DictNew ==
  At("OP_DICT_NEW", 0)
  /\ Allocates(0, 1, Replaced(0, <<Obj(nextObj)>>), With(<<NewDict>>))

ListPush ==
  /\ At("OP_LIST_PUSH", 2) /\ IsKind(Top(2), "list")
  /\ Allocates(0, 0, Replaced(1, <<>>),
               [heap EXCEPT ![Top(2)[2]].items = Append(@, Top(1))])

ListLen ==
  /\ At("OP_LIST_LEN", 1) /\ IsKind(Top(1), "list")
  /\ Stacked(0, Replaced(1, <<Num(Len(The(Top(1)).items))>>))

DictHas ==
  /\ At("OP_DICT_HAS", 2) /\ IsKind(Top(2), "dict") /\ IsStr(Top(1))
  /\ Stacked(0, Replaced(2, <<Bool(Top(1)[2] \in DOMAIN The(Top(2)).entries)>>))

IndexGetList ==
  /\ At("OP_INDEX_GET", 2) /\ IsKind(Top(2), "list") /\ IsNum(Top(1))
  /\ Top(1)[2] \in 0 .. Len(The(Top(2)).items) - 1
  /\ Stacked(0, Replaced(2, <<The(Top(2)).items[Top(1)[2] + 1]>>))

IndexGetDict ==
  /\ At("OP_INDEX_GET", 2) /\ IsKind(Top(2), "dict") /\ IsStr(Top(1))
  /\ Stacked(0, Replaced(2, <<Get(The(Top(2)).entries, Top(1)[2])>>))

IndexSetList ==
  /\ At("OP_INDEX_SET", 3) /\ IsKind(Top(3), "list") /\ IsNum(Top(2))
  /\ Top(2)[2] \in 0 .. Len(The(Top(3)).items) - 1
  /\ Stores(0, Replaced(3, <<>>),
            [heap EXCEPT ![Top(3)[2]].items[Top(2)[2] + 1] = Top(1)])

IndexSetDict ==
  /\ At("OP_INDEX_SET", 3) /\ IsKind(Top(3), "dict") /\ IsStr(Top(2))
  /\ Allocates(0, 0, Replaced(3, <<>>),
               [heap EXCEPT ![Top(3)[2]].entries = Put(@, Top(2)[2], Top(1))])

GetPropDict ==
  /\ At("OP_GET_PROP", 1) /\ HasConst(1) /\ IsKind(Top(1), "dict")
  /\ Stacked(1, Replaced(1, <<Get(The(Top(1)).entries, Const(1)[2])>>))

GetPropField ==
  /\ At("OP_GET_PROP", 1) /\ HasConst(1) /\ IsKind(Top(1), "instance")
  /\ Const(1)[2] \in DOMAIN The(Top(1)).fields
  /\ Stacked(1, Replaced(1, <<The(Top(1)).fields[Const(1)[2]]>>))

\* No such field: the class's method, bound to the instance, or null.
GetPropMethod ==
  /\ At("OP_GET_PROP", 1) /\ HasConst(1) /\ IsKind(Top(1), "instance")
  /\ Const(1)[2] \notin DOMAIN The(Top(1)).fields
  /\ LET m == GetMethodIndex(The(Top(1)).class, Const(1)[2])
     IN  IF m >= 0
           THEN Allocates(1, 1, Replaced(1, <<Obj(nextObj)>>), With(<<NewBound(Top(1), m)>>))
           ELSE Allocates(1, 0, Replaced(1, <<Null>>), heap)

SetPropDict ==
  /\ At("OP_SET_PROP", 2) /\ HasConst(1) /\ IsKind(Top(2), "dict")
  /\ Allocates(1, 0, Replaced(2, <<>>),
               [heap EXCEPT ![Top(2)[2]].entries = Put(@, Const(1)[2], Top(1))])

SetPropField ==
  /\ At("OP_SET_PROP", 2) /\ HasConst(1) /\ IsKind(Top(2), "instance")
  /\ Stores(1, Replaced(2, <<>>),
            [heap EXCEPT ![Top(2)[2]].fields = Put(@, Const(1)[2], Top(1))])

GetSuper ==
  /\ At("OP_GET_SUPER", 1) /\ HasConst(1) /\ HasConst(2)
  /\ IsKind(Top(1), "instance") /\ IsKind(Const(1), "class")
  /\ LET m == GetMethodIndex(Const(1)[2], Const(2)[2])
     IN  /\ m >= 0
         /\ Allocates(2, 1, Replaced(1, <<Obj(nextObj)>>), With(<<NewBound(Top(1), m)>>))

-----------------------------------------------------------------------------
(* Calls                                                                    *)

Arity(i) ==
  IF i >= BuiltinCount THEN FnOf(i).arity
  ELSE IF i \in {Builtin.clock, Builtin.__gc_collect} THEN 0 ELSE 1

\* The top n values, the deepest first.
Args(n) == SubSeq(stack, Len(stack) - n + 1, Len(stack))

\* callables_, of which OP_CALL and a call name one: the natives come first.
Callables == 0 .. BuiltinCount + Len(prog.functions) - 1

\* OP_CALLV, which has its arguments on the stack above its callee.
AtCallV == At("OP_CALLV", 1) /\ Opnd(1) \in 0 .. Len(stack) - 1
Callee == Top(Opnd(1) + 1)

\* The call that the instruction makes, if it makes one: the callable, the
\* arguments, and the stack once they (and the callee) are popped.
Call(i, argv, n) == [i |-> i, argv |-> argv, rest |-> Replaced(n, <<>>)]

Calls ==
  IF At("OP_CALL", 0) /\ Opnd(1) \in Callables /\ Len(stack) >= Arity(Opnd(1))
    THEN {Call(Opnd(1), Args(Arity(Opnd(1))), Arity(Opnd(1)))}
  ELSE IF ~AtCallV THEN {}
  ELSE IF IsCallable(Callee) THEN {Call(Callee[2], Args(Opnd(1)), Opnd(1) + 1)}
  ELSE IF IsKind(Callee, "bound")
    THEN {Call(The(Callee).method, <<The(Callee).receiver>> \o Args(Opnd(1)), Opnd(1) + 1)}
  ELSE {}

NewFrame(i, argv) ==
  [fn |-> i, ip |-> 0, returnInstance |-> FALSE, instance |-> Null,
   locals |-> [s \in 1 .. FnOf(i).localCount |-> IF s <= Len(argv) THEN argv[s] ELSE Null]]

\* A function of the program: its frame goes on top.
Entered(i, argv) == Append(Read(1), NewFrame(i, argv))
MayEnter(i, argv) ==
  i \in Callables /\ i >= BuiltinCount /\ Len(argv) = Arity(i) /\ Len(argv) <= FnOf(i).localCount

CallFunction ==
  \E c \in Calls :
    /\ MayEnter(c.i, c.argv)
    /\ stack' = c.rest
    /\ frames' = Entered(c.i, c.argv)
    /\ UNCHANGED <<prog, globals, nextObj, lastReturn, emitted>>
    /\ SafePoint(heap, frames')

\* Class(...): the instance and, since gc_ is there, a dictionary that nothing
\* refers to; the instance makes its own.
ClassCalled == AtCallV /\ IsKind(Callee, "class")
NewObjects == <<NewDict, NewInstance(Callee[2])>>
NewOne == Obj(nextObj + 1)

ConstructPlain ==
  /\ ClassCalled
  /\ GetMethodIndex(Callee[2], "init") = -1
  /\ Opnd(1) = 0
  /\ Allocates(1, 2, Replaced(1, <<NewOne>>), With(NewObjects))

\* init's frame is told to return the instance after the safepoint.
ConstructInit ==
  LET init == GetMethodIndex(Callee[2], "init")
      argv == <<NewOne>> \o Args(Opnd(1))
      entered == Entered(init, argv)
  IN  /\ ClassCalled
      /\ init # -1 /\ MayEnter(init, argv)
      /\ stack' = Replaced(Opnd(1) + 1, <<>>)
      /\ frames' = [entered EXCEPT ![Len(entered)].returnInstance = TRUE,
                                   ![Len(entered)].instance = NewOne]
      /\ nextObj' = nextObj + 2
      /\ UNCHANGED <<prog, globals, lastReturn, emitted>>
      /\ SafePoint(With(NewObjects), entered)

Returned == IF Frame.returnInstance THEN Frame.instance ELSE Top(1)

Return ==
  /\ At("OP_RETURN", 1)
  /\ lastReturn' = Top(1)
  /\ frames' = SubSeq(frames, 1, Len(frames) - 1)
  /\ stack' = Replaced(1, IF Len(frames) = 1 THEN <<>> ELSE <<Returned>>)
  /\ UNCHANGED <<prog, globals, heap, nextObj, emitted>>

-----------------------------------------------------------------------------
(* Natives (builtins.cc)                                                    *)

\* Variant: the arguments of a native are not pinned.
PinnedBug(argv) == {}

\* The objects that are held while a native runs: it has popped its arguments.
Pinned(argv) == ObjsIn(argv)

\* The native called name, c being the call.
IsNative(c, name) == c.i = Builtin[name] /\ Len(c.argv) = Arity(c.i)

\* The native makes k objects, leaves heap h and returns ret.
NativeReturns(c, ret, k, h) == Allocates(1, k, Append(c.rest, ret), h)

\* The heap after the native has collected.
CollectedIn(c) ==
  Collected(heap, TraceRoots(c.rest, frames, globals, lastReturn) \cup Pinned(c.argv))

NativeLen ==
  \E c \in Calls :
    /\ IsNative(c, "len")
    /\ LET x == c.argv[1]
       IN  \/ IsStr(x) /\ NativeReturns(c, Num(Len(x[2])), 0, heap)
           \/ IsKind(x, "list") /\ NativeReturns(c, Num(Len(The(x).items)), 0, heap)
           \/ /\ IsKind(x, "dict")
              /\ NativeReturns(c, Num(Cardinality(DOMAIN The(x).entries)), 0, heap)

\* The text of an object is not modelled: it is the text of its type.
NativeStr ==
  \E c \in Calls :
    /\ IsNative(c, "str")
    /\ NativeReturns(c, IF IsStr(c.argv[1]) THEN c.argv[1]
                        ELSE Str(Repr(Shown(heap, c.argv[1]))), 0, heap)

TypeName(v) ==
  CASE IsNum(v) -> "number" [] IsObj(v) /\ The(v).kind \in {"list", "dict"} -> The(v).kind
    [] IsObj(v) /\ The(v).kind \notin {"list", "dict"} -> "object"
    [] IsCallable(v) -> "unknown" [] OTHER -> v[1]

NativeType ==
  \E c \in Calls : IsNative(c, "type")
                  /\ NativeReturns(c, Str(TypeName(c.argv[1])), 0, heap)

NativeAbs ==
  \E c \in Calls :
    /\ IsNative(c, "abs") /\ IsNum(c.argv[1])
    /\ LET x == c.argv[1][2] IN NativeReturns(c, Num(IF x < 0 THEN -x ELSE x), 0, heap)

\* Any time; two are enough to tell.
NativeClock ==
  \E c \in Calls, t \in 0..1 : IsNative(c, "clock") /\ NativeReturns(c, Num(t), 0, heap)

\* __test_emit shows its argument to the test and returns it.
NativeEmit ==
  \E c \in Calls :
    /\ IsNative(c, "__test_emit")
    /\ emitted' = Append(emitted, Shown(heap, c.argv[1]))
    /\ stack' = Append(c.rest, c.argv[1])
    /\ frames' = Read(1)
    /\ UNCHANGED <<prog, globals, nextObj, lastReturn>>
    /\ SafePoint(heap, frames')

NativeGcCollect ==
  \E c \in Calls :
    IsNative(c, "__gc_collect") /\ NativeReturns(c, Null, 0, CollectedIn(c))

NativeGcTouch ==
  \E c \in Calls :
    IsNative(c, "__gc_touch") /\ NativeReturns(c, c.argv[1], 0, CollectedIn(c))

NativeMakeBigDict ==
  \E c \in Calls :
    /\ IsNative(c, "__make_big_dict") /\ IsNum(c.argv[1])
    /\ NativeReturns(c, Obj(nextObj), 1, With(<<NewDict>>))

-----------------------------------------------------------------------------
(* Runs                                                                     *)

NewRun(p) ==
  [fn |-> Script, ip |-> 0, returnInstance |-> FALSE, instance |-> Null,
   locals |-> [s \in 1 .. p.script.localCount |-> Null]]

Init ==
  /\ prog \in Program
  /\ frames = <<NewRun(prog)>>
  /\ stack = <<>>
  /\ globals = NoFields
  /\ heap = prog.objects
  /\ nextObj = Cardinality(DOMAIN prog.objects) + 1
  /\ lastReturn = Null
  /\ emitted = <<>>

\* Run has returned: from the script, or at the end of a function's code.
Halted == ~Running /\ UNCHANGED vars

Native ==
  \/ NativeLen \/ NativeStr \/ NativeType \/ NativeAbs \/ NativeClock
  \/ NativeEmit \/ NativeGcCollect \/ NativeGcTouch \/ NativeMakeBigDict

Step ==
  \/ Pop \/ Dup \/ Constant \/ LoadVar \/ StoreVar \/ PopN
  \/ Arithmetic \/ Comparison \/ Equality \/ Not \/ Negate
  \/ Jump \/ JumpIfFalse \/ PrintTop
  \/ DefineGlobal \/ GetGlobal \/ SetGlobal
  \/ ListNew \/ ListPush \/ ListLen \/ DictNew \/ DictHas
  \/ IndexGetList \/ IndexGetDict \/ IndexSetList \/ IndexSetDict
  \/ GetPropDict \/ GetPropField \/ GetPropMethod
  \/ SetPropDict \/ SetPropField \/ GetSuper
  \/ CallFunction \/ ConstructPlain \/ ConstructInit \/ Return \/ Native

Next == Step \/ Halted

Spec == Init /\ [][Next]_vars

\* Run's loop does nothing else than Step: it goes on for ever or the program ends.
\* This is WF_vars(Step), for Step can be taken whenever the VM is Running (a run
\* that checks deadlock shows it).
FairSpec == Spec /\ ([]<>(~Running) \/ []<><<Step>>_vars)
=============================================================================
