---------------------------- MODULE SessionProofs ----------------------------
(***************************************************************************)
(* What VMProofs and VerifierProofs prove of one program, for a VM that runs   *)
(* one function after the other.  Functions made by hand make no classes, and  *)
(* so no instances: nothing needs to be taken of the collector.              *)
(***************************************************************************)
EXTENDS Session, VerifierProofs

\* A VM on which nothing has run.
Unused ==
  /\ prog = [functions |-> <<>>]
  /\ frames = <<>> /\ stack = <<>> /\ globals = NoFields
  /\ heap = [o \in {} |-> 0] /\ nextObj = 1 /\ lastReturn = Null

\* The heap h has only lists and dictionaries.
Containers(h) == \A o \in DOMAIN h : h[o].kind \in {"list", "dict"}

\* What is true between and during runs ...
SessionInv == Unused \/ (HandMade(prog) /\ Inv /\ Containers(heap))

\* ... and what is true of frames and stack if functions are accepted before they run.
SessionFlow == Unused \/ (HandMade(prog) /\ FlowInv)

-----------------------------------------------------------------------------
(* Steps keep the program and make only containers                           *)

LEMMA StepProgram ==
  ASSUME Step PROVE prog' = prog
  <1>1. CASE \/ Pop \/ Dup \/ Constant \/ LoadVar \/ StoreVar \/ PopN
             \/ Arithmetic \/ Comparison \/ Equality \/ Not \/ Negate
             \/ Jump \/ JumpIfFalse \/ PrintTop \/ DefineGlobal \/ GetGlobal \/ SetGlobal
    BY <1>1 DEF Pop, Dup, Constant, LoadVar, StoreVar, PopN, Arithmetic, Comparison, Equality,
       Not, Negate, Jump, JumpIfFalse, PrintTop, DefineGlobal, GetGlobal, SetGlobal, Stacked
  <1>2. CASE \/ ListNew \/ ListPush \/ ListLen \/ DictNew \/ DictHas
             \/ IndexGetList \/ IndexGetDict \/ IndexSetList \/ IndexSetDict
             \/ GetPropDict \/ GetPropField \/ GetPropMethod
             \/ SetPropDict \/ SetPropField \/ GetSuper
    BY <1>2 DEF ListNew, ListPush, ListLen, DictNew, DictHas, IndexGetList, IndexGetDict,
       IndexSetList, IndexSetDict, GetPropDict, GetPropField, GetPropMethod, SetPropDict,
       SetPropField, GetSuper, Stacked, Allocates, Stores
  <1>3. CASE CallFunction \/ ConstructPlain \/ ConstructInit \/ Return \/ Native
    BY <1>3 DEF CallFunction, ConstructPlain, ConstructInit, Return, Native, NativeLen, NativeStr,
       NativeType, NativeAbs, NativeClock, NativeEmit, NativeGcCollect, NativeGcTouch,
       NativeMakeBigDict, NativeReturns, Allocates
  <1>4. QED
    BY <1>1, <1>2, <1>3 DEF Step

\* A collection makes no objects.
LEMMA CollectedContainers ==
  ASSUME NEW h, Containers(h), NEW R
  PROVE  Containers(Collected(h, R))
  <1> DEFINE L == Closure([o \in DOMAIN h |-> Traced(h[o])], R)
             g == [o \in DOMAIN h \cap L |->
                     IF h[o].kind = "instance" THEN [h[o] EXCEPT !.fieldsMarked = TRUE] ELSE h[o]]
  <1>1. Collected(h, R) = g
    BY DEF Collected
  <1> HIDE DEF L
  <1>2. \A o \in DOMAIN g : o \in DOMAIN h /\ g[o] = h[o]
    BY DEF Containers
  <1> HIDE DEF g
  <1>3. QED
    BY <1>1, <1>2 DEF Containers

LEMMA SafePointContainers ==
  ASSUME NEW h, Containers(h), NEW frs, SafePoint(h, frs)
  PROVE  Containers(heap')
  BY CollectedContainers DEF SafePoint

LEMMA WithContainers ==
  ASSUME Inv, Containers(heap), NEW ob \in {NewList, NewDict}
  PROVE  Containers(With(<<ob>>))
  <1> DEFINE obs == <<ob>>
             h == With(obs)
  <1>1. ob.kind \in {"list", "dict"} /\ IsObject(ob) /\ Children(ob) = {}
    BY NewObjectsHold DEF NewList, NewDict
  <1>2. /\ IsSeq(obs) /\ \A i \in DOMAIN obs : obs[i] = ob
    BY ShortSeq
  <1> HIDE DEF obs
  <1>3. /\ \A o \in DOMAIN heap : h[o] = heap[o]
        /\ \A o \in DOMAIN h \ DOMAIN heap : \E i \in DOMAIN obs : h[o] = obs[i]
    BY <1>1, <1>2, NewHeap
  <1> HIDE DEF h
  <1>4. QED
    BY <1>1, <1>2, <1>3 DEF Containers, h, obs

LEMMA StoreContainers ==
  ASSUME Containers(heap), NEW o, NEW ob, ob.kind \in {"list", "dict"}
  PROVE  Containers([heap EXCEPT ![o] = ob])
  BY DEF Containers

\* Where there are only containers there is no class, no instance and no bound method.
LEMMA NothingElse ==
  ASSUME Inv, Containers(heap), NEW v, ObjOf(v) \subseteq Held, NEW k, IsKind(v, k)
  PROVE  k \in {"list", "dict"}
  BY KindHeld DEF Containers, The

LEMMA StepContainers ==
  ASSUME Inv, Containers(heap), Step PROVE Containers(heap')
  <1>1. CASE \/ Pop \/ Dup \/ Constant \/ LoadVar \/ StoreVar \/ PopN
             \/ Arithmetic \/ Comparison \/ Equality \/ Not \/ Negate
             \/ Jump \/ JumpIfFalse \/ PrintTop \/ DefineGlobal \/ GetGlobal \/ SetGlobal
             \/ ListLen \/ DictHas \/ IndexGetList \/ IndexGetDict
             \/ GetPropDict \/ GetPropField \/ Return
    <2>1. heap' = heap
      BY <1>1 DEF Pop, Dup, Constant, LoadVar, StoreVar, PopN, Arithmetic, Comparison, Equality,
         Not, Negate, Jump, JumpIfFalse, PrintTop, DefineGlobal, GetGlobal, SetGlobal,
         ListLen, DictHas, IndexGetList, IndexGetDict, GetPropDict, GetPropField, Return, Stacked
    <2>2. QED
      BY <2>1
  <1>2. CASE ListNew \/ DictNew \/ NativeMakeBigDict
    <2>1. PICK ob \in {NewList, NewDict} : SafePoint(With(<<ob>>), frames')
      BY <1>2 DEF ListNew, DictNew, NativeMakeBigDict, NativeReturns, Allocates
    <2>2. QED
      BY <2>1, WithContainers, SafePointContainers
  <1>3. CASE ListPush
    <2> DEFINE o == Top(2)[2]
               s == Append(heap[o].items, Top(1))
               ob == [heap[o] EXCEPT !.items = s]
    <2>1. ObjOf(Top(1)) \subseteq Held /\ ObjOf(Top(2)) \subseteq Held /\ IsKind(Top(2), "list")
      BY <1>3, Operands DEF ListPush
    <2>2. IsObject(heap[o]) /\ heap[o].kind = "list"
      BY <2>1, KindHeld DEF The
    <2>3. IsList(heap[o]) /\ IsSeq(heap[o].items)
      BY <2>2, ListItems
    <2>4. IsSeq(s)
      BY <2>3, AppendSeq
    <2>5. SafePoint([heap EXCEPT ![o] = ob], frames')
      BY <1>3 DEF ListPush, Allocates
    <2> HIDE DEF o, s
    <2>6. ob.kind = "list"
      BY <2>3, <2>4, PutItems DEF IsList
    <2> HIDE DEF ob
    <2>7. QED
      BY <2>5, <2>6, StoreContainers, SafePointContainers
  <1>4. CASE IndexSetList
    <2> DEFINE o == Top(3)[2]
               s == [heap[o].items EXCEPT ![Top(2)[2] + 1] = Top(1)]
               ob == [heap[o] EXCEPT !.items = s]
    <2>1. ObjOf(Top(1)) \subseteq Held /\ ObjOf(Top(3)) \subseteq Held /\ IsKind(Top(3), "list")
      BY <1>4, Operands DEF IndexSetList
    <2>2. IsObject(heap[o]) /\ heap[o].kind = "list"
      BY <2>1, KindHeld DEF The
    <2>3. IsList(heap[o]) /\ IsSeq(heap[o].items)
      BY <2>2, ListItems
    <2>4. IsSeq(s)
      BY <2>3, UpdateSeq
    <2>5. heap' = [heap EXCEPT ![o] = ob]
      BY <1>4 DEF IndexSetList, Stores
    <2> HIDE DEF o, s
    <2>6. ob.kind = "list"
      BY <2>3, <2>4, PutItems DEF IsList
    <2> HIDE DEF ob
    <2>7. Containers([heap EXCEPT ![o] = ob])
      BY <2>6, StoreContainers
    <2>8. QED
      BY <2>5, <2>7
  <1>5. CASE IndexSetDict \/ SetPropDict
    <2>1. PICK v, key, w :
            /\ ObjOf(v) \subseteq Held /\ IsKind(v, "dict")
            /\ SafePoint([heap EXCEPT ![v[2]].entries = Put(@, key, w)], frames')
      <3>1. CASE IndexSetDict
        <4>1. ObjOf(Top(3)) \subseteq Held
          BY <3>1, Operands DEF IndexSetDict
        <4>2. QED
          BY <3>1, <4>1 DEF IndexSetDict, Allocates
      <3>2. CASE SetPropDict
        <4>1. ObjOf(Top(2)) \subseteq Held
          BY <3>2, Operands DEF SetPropDict
        <4>2. QED
          BY <3>2, <4>1 DEF SetPropDict, Allocates
      <3>3. QED
        BY <1>5, <3>1, <3>2
    <2> DEFINE o == v[2]
               t == Put(heap[o].entries, key, w)
               ob == [heap[o] EXCEPT !.entries = t]
    <2>2. IsObject(heap[o]) /\ heap[o].kind = "dict"
      BY <2>1, KindHeld DEF The
    <2>3. IsDict(heap[o])
      BY <2>2, DictEntries
    <2>4. SafePoint([heap EXCEPT ![o] = ob], frames')
      BY <2>1
    <2> HIDE DEF o, t
    <2>5. ob.kind = "dict"
      BY <2>3, PutEntries DEF IsDict
    <2> HIDE DEF ob
    <2>6. QED
      BY <2>4, <2>5, StoreContainers, SafePointContainers
  <1>6. CASE GetPropMethod \/ SetPropField \/ GetSuper
    <2>1. PICK v : ObjOf(v) \subseteq Held /\ IsKind(v, "instance")
      <3>1. CASE GetPropMethod
        BY <3>1, Operands DEF GetPropMethod
      <3>2. CASE SetPropField
        BY <3>2, Operands DEF SetPropField
      <3>3. CASE GetSuper
        BY <3>3, Operands DEF GetSuper
      <3>4. QED
        BY <1>6, <3>1, <3>2, <3>3
    <2>2. QED
      BY <2>1, NothingElse
  <1>7. CASE ConstructPlain \/ ConstructInit
    <2>1. AtCallV /\ IsKind(Callee, "class")
      BY <1>7 DEF ConstructPlain, ConstructInit, ClassCalled
    <2>2. ObjOf(Callee) \subseteq Held
      BY <2>1, CalleeHeld
    <2>3. QED
      BY <2>1, <2>2, NothingElse
  <1>8. CASE \/ CallFunction \/ NativeLen \/ NativeStr \/ NativeType \/ NativeAbs
             \/ NativeClock \/ NativeEmit
    <2>1. SafePoint(heap, frames')
      BY <1>8 DEF CallFunction, NativeLen, NativeStr, NativeType, NativeAbs, NativeClock,
         NativeEmit, NativeReturns, Allocates
    <2>2. QED
      BY <2>1, SafePointContainers
  <1>9. CASE NativeGcCollect \/ NativeGcTouch
    <2>1. PICK c \in Calls : SafePoint(CollectedIn(c), frames')
      BY <1>9 DEF NativeGcCollect, NativeGcTouch, NativeReturns, Allocates
    <2>2. QED
      BY <2>1, CollectedContainers, SafePointContainers DEF CollectedIn
  <1>10. QED
    BY <1>1, <1>2, <1>3, <1>4, <1>5, <1>6, <1>7, <1>8, <1>9 DEF Step, Native

\* Without instances a collection looks at everything that is held.
LEMMA ContainersTraced ==
  Containers(heap) => FieldsTraced
  <1>1. SUFFICES ASSUME Containers(heap) PROVE FieldsTraced
    OBVIOUS
  <1>2. \A o \in DOMAIN heap : Traced(heap[o]) = Children(heap[o])
    BY <1>1 DEF Containers, Traced
  <1>3. QED
    BY <1>2 DEF FieldsTraced, Held, Kept
-----------------------------------------------------------------------------
(* A run begins                                                             *)

LEMMA JoinFunctions ==
  ASSUME NEW p, NEW q, HandMade(q), p = [functions |-> <<>>] \/ HandMade(p),
         {"script", "functions"} \subseteq DOMAIN q
  PROVE  LET r == [q EXCEPT !.functions = p.functions \o q.functions]
         IN  HandMade(r) /\ r.script = q.script
  <1> DEFINE a == p.functions
             b == q.functions
             r == [q EXCEPT !.functions = a \o b]
  <1>1. IsSeq(a) /\ IsSeq(b)
    <2>1. IsSeq(<<>>)
      BY ShortSeq
    <2>2. IsSeq(a)
      <3>1. CASE HandMade(p)
        BY <3>1, SeqShape DEF HandMade, FunctionsFormed
      <3>2. CASE p = [functions |-> <<>>]
        BY <2>1, <3>2
      <3>3. QED
        BY <3>1, <3>2
    <2>3. QED
      BY <2>2, SeqShape DEF HandMade, FunctionsFormed
  <1>2. /\ IsSeq(a \o b)
        /\ \A i \in DOMAIN (a \o b) :
             (\E j \in DOMAIN a : (a \o b)[i] = a[j]) \/ (\E j \in DOMAIN b : (a \o b)[i] = b[j])
    <2> HIDE DEF a, b
    <2>1. /\ Len(a) \in Nat /\ DOMAIN a = 1 .. Len(a) /\ Len(b) \in Nat /\ DOMAIN b = 1 .. Len(b)
      BY <1>1, SeqLength
    <2>2. ASSUME NEW i \in 1 .. Len(a) + Len(b)
          PROVE  (\E j \in DOMAIN a : (a \o b)[i] = a[j]) \/ (\E j \in DOMAIN b : (a \o b)[i] = b[j])
      <3>1. CASE i <= Len(a)
        <4>1. i \in 1 .. Len(a)
          BY <2>1, <3>1
        <4>2. (a \o b)[i] = a[i]
          BY <1>1, <4>1, JoinSeq
        <4>3. QED
          BY <2>1, <4>1, <4>2
      <3>2. CASE i > Len(a)
        <4>1. i - Len(a) \in 1 .. Len(b) /\ Len(a) + (i - Len(a)) = i
          BY <2>1, <3>2
        <4>2. (a \o b)[Len(a) + (i - Len(a))] = b[i - Len(a)]
          BY <1>1, <4>1, JoinSeq
        <4>3. QED
          BY <2>1, <4>1, <4>2
      <3>3. QED
        BY <2>1, <3>1, <3>2
    <2>3. QED
      BY <1>1, <2>2, JoinSeq
  <1>3. r.functions = a \o b /\ r.script = q.script
    OBVIOUS
  <1>4. \A i \in DOMAIN a : HandMade(p) /\ a[i] \in FunctionsOf(p)
    <2>1. CASE HandMade(p)
      BY <2>1 DEF FunctionsOf
    <2>2. CASE p = [functions |-> <<>>]
      BY <2>2
    <2>3. QED
      BY <2>1, <2>2
  <1>5. \A i \in DOMAIN b : b[i] \in FunctionsOf(q)
    BY DEF FunctionsOf
  <1> HIDE DEF r
  <1>6. \A fn \in FunctionsOf(r) :
          fn \in FunctionsOf(q) \/ (HandMade(p) /\ fn \in FunctionsOf(p))
    BY <1>2, <1>3, <1>4, <1>5 DEF FunctionsOf
  <1>7. r.functions \in Seq(FunctionsOf(r))
    <2>1. {(a \o b)[i] : i \in DOMAIN (a \o b)} \subseteq FunctionsOf(r)
      BY <1>3 DEF FunctionsOf
    <2>2. QED
      BY <1>2, <1>3, <2>1, SeqMonotonic DEF IsSeq
  <1>8. HandMade(r)
    BY <1>6, <1>7 DEF HandMade, FunctionsFormed
  <1>9. QED
    BY <1>3, <1>8 DEF r

\* The functions that were registered before stay, and the new ones are formed.
LEMMA RunTestProgram ==
  ASSUME Unused \/ HandMade(prog), NEW t \in DOMAIN Tests(NextIndex), RunTest(t)
  PROVE  HandMade(prog') /\ frames' = <<NewRun(prog')>>
  <1> DEFINE test == Tests(NextIndex)[t]
  <1>1. prog = [functions |-> <<>>] \/ HandMade(prog)
    BY DEF Unused
  <1>2. NextIndex \in BuiltinCount .. MaxIndex
    <2>1. IsSeq(prog.functions)
      <3>1. CASE HandMade(prog)
        BY <3>1, SeqShape DEF HandMade, FunctionsFormed
      <3>2. CASE prog = [functions |-> <<>>]
        BY <3>2, ShortSeq
      <3>3. QED
        BY <1>1, <3>1, <3>2
    <2>2. Len(prog.functions) \in Nat
      BY <2>1, SeqLength
    <2>3. QED
      BY <2>2, TestsAssumption DEF RunTest, NextIndex, BuiltinCount
  <1>3. {"script", "functions"} \subseteq DOMAIN test /\ HandMade(test)
    BY <1>2, TestsAssumption
  <1>4. /\ prog' = [test EXCEPT !.functions = prog.functions \o test.functions]
        /\ frames' = <<NewRun(test)>>
    BY DEF RunTest, StartRun
  <1> HIDE DEF test
  <1>5. HandMade(prog') /\ prog'.script = test.script
    BY <1>1, <1>3, <1>4, JoinFunctions
  <1>6. NewRun(prog') = NewRun(test)
    BY <1>5 DEF NewRun
  <1>7. QED
    BY <1>4, <1>5, <1>6

\* Where a run begins, only the globals refer to objects.
RunBegins ==
  /\ HandMade(prog) /\ frames = <<NewRun(prog)>> /\ stack = <<>> /\ lastReturn = Null
  /\ HeapOK(heap, nextObj) /\ Safe(heap, ValuesIn(globals))

LEMMA RunInv ==
  RunBegins => Inv
  <1> SUFFICES ASSUME HandMade(prog), frames = <<NewRun(prog)>>, stack = <<>>, lastReturn = Null,
                      HeapOK(heap, nextObj), Safe(heap, ValuesIn(globals))
               PROVE  Inv
    BY DEF RunBegins
  <1> DEFINE f == NewRun(prog)
  <1>1. /\ FunctionsFormed(prog) /\ prog.script.localCount \in Nat
        /\ \A fn \in FunctionsOf(prog) : ConstantsOf(fn) = {}
        /\ prog.script \in FunctionsOf(prog)
        /\ \A i \in DOMAIN prog.functions : prog.functions[i] \in FunctionsOf(prog)
    BY DEF HandMade, FunctionsFormed, ConstantsOf, FunctionsOf
  <1>2. IsFrame(f) /\ FrameRoots(f) = {}
    <2> DEFINE n == prog.script.localCount
               loc == [s \in 1 .. n |-> Null]
    <2>1. /\ f = [fn |-> Script, ip |-> 0, returnInstance |-> FALSE, instance |-> Null,
                  locals |-> loc]
      BY DEF NewRun
    <2>2. loc \in [1 .. n -> {Null}]
      OBVIOUS
    <2>3. IsSeq(loc)
      BY <1>1, <2>2, FunctionSeq
    <2>4. ObjsIn(loc) = {}
      BY ScalarsHoldNothing DEF ObjsIn
    <2> HIDE DEF loc
    <2>5. f.fn = Script /\ f.instance = Null /\ f.locals = loc
      BY <2>1
    <2>6. IsFrame(f)
      BY <2>1, <2>3, <2>5 DEF IsFrame
    <2>7. FnOf(Script) = prog.script
      BY DEF FnOf
    <2>8. ConstantsOf(FnOf(f.fn)) = {}
      BY <1>1, <2>5, <2>7
    <2>9. FrameRoots(f) = {}
      BY <2>4, <2>5, <2>8, ScalarsHoldNothing DEF FrameRoots
    <2>10. QED
      BY <2>6, <2>9
  <1>3. frames = <<f>>
    OBVIOUS
  <1> HIDE DEF f
  <1>4. IsSeq(stack) /\ AreFrames(frames)
    BY <1>2, <1>3, ShortSeq DEF AreFrames
  <1>5. Roots = ValuesIn(globals)
    <2>1. DOMAIN frames = {1} /\ frames[1] = f
      BY <1>3, ShortSeq
    <2>2. FramesRoots(frames) = {}
      BY <1>2, <2>1 DEF FramesRoots
    <2>3. CodeRoots = {}
      BY <1>1 DEF CodeRoots
    <2>4. ObjsIn(stack) = {} /\ ObjOf(lastReturn) = {}
      BY ObjsInShort, ScalarsHoldNothing
    <2>5. QED
      BY <2>2, <2>3, <2>4, RootsParts DEF Roots
  <1>6. NoDangling
    BY <1>5, HeldAndKept
  <1>7. QED
    BY <1>1, <1>4, <1>6 DEF Inv, Shape

LEMMA EmptyHeap ==
  ASSUME Unused
  PROVE  HeapOK(heap, nextObj) /\ Safe(heap, ValuesIn(globals)) /\ Containers(heap)
  <1>1. DOMAIN heap = {} /\ nextObj = 1 /\ globals = NoFields
    BY DEF Unused
  <1>2. HeapOK(heap, nextObj) /\ Containers(heap) /\ ValuesIn(globals) = {}
    BY <1>1 DEF HeapOK, Containers, ValuesIn, NoFields
  <1>3. Rooted(Kids(heap), {}, {})
    BY <1>1 DEF Rooted, Further, Kids
  <1>4. Closure(Kids(heap), {}) \subseteq {}
    BY <1>2, <1>3, HeapFinite, ClosureLeast DEF Kids
  <1>5. QED
    BY <1>2, <1>4 DEF Safe

LEMMA UnusedRoots ==
  ASSUME Unused PROVE NoDangling
  <1>1. Roots = {}
    <2>1. DOMAIN frames = {} /\ DOMAIN prog.functions = {}
      BY ShortSeq DEF Unused
    <2>2. FramesRoots(frames) = {} /\ CodeRoots = {}
      BY <2>1 DEF FramesRoots, CodeRoots
    <2>3. ObjsIn(stack) = {} /\ ObjOf(lastReturn) = {} /\ ValuesIn(globals) = {}
      BY ObjsInShort, ScalarsHoldNothing DEF Unused, ValuesIn, NoFields
    <2>4. QED
      BY <2>2, <2>3, RootsParts DEF Roots
  <1>2. ValuesIn(globals) = {}
    BY DEF Unused, ValuesIn, NoFields
  <1>3. QED
    BY <1>1, <1>2, EmptyHeap, HeldAndKept

LEMMA RunTestInv ==
  ASSUME SessionInv, NEW t \in DOMAIN Tests(NextIndex), RunTest(t)
  PROVE  SessionInv'
  <1>1. HandMade(prog') /\ frames' = <<NewRun(prog')>>
    BY RunTestProgram DEF SessionInv
  <1>2. /\ stack' = <<>> /\ lastReturn' = Null
        /\ heap' = heap /\ nextObj' = nextObj /\ globals' = globals
    BY DEF RunTest, StartRun
  <1>3. HeapOK(heap, nextObj) /\ Safe(heap, ValuesIn(globals)) /\ Containers(heap)
    <2>1. CASE Inv /\ Containers(heap)
      <3>1. HeapOK(heap, nextObj) /\ IsFiniteSet(DOMAIN heap) /\ Safe(heap, Roots)
        BY <2>1, HeapFinite, HeldAndKept DEF Inv, Shape
      <3>2. ValuesIn(globals) \subseteq Closure(Kids(heap), Roots)
        BY <2>1, RootsHeld, HeldAndKept
      <3>3. QED
        BY <2>1, <3>1, <3>2, FewerRoots
    <2>2. QED
      BY <2>1, EmptyHeap DEF SessionInv
  <1>4. RunBegins'
    BY <1>1, <1>2, <1>3 DEF RunBegins
  <1>5. RunBegins' => Inv'
    BY RunInv, PTL
  <1>6. QED
    BY <1>1, <1>2, <1>3, <1>4, <1>5 DEF SessionInv

\* What the functions are accepted for holds from where their run begins.
RunAccepted ==
  FunctionsFormed(prog) /\ frames = <<NewRun(prog)>> /\ stack = <<>> /\ CodeVerified

LEMMA RunAcceptedFlows ==
  RunAccepted => FlowInv
  BY RunFlows DEF RunAccepted

LEMMA RunTestFlows ==
  ASSUME SessionFlow, NEW t \in DOMAIN Tests(NextIndex), RunTest(t), CodeVerified'
  PROVE  SessionFlow'
  <1>1. HandMade(prog') /\ frames' = <<NewRun(prog')>>
    BY RunTestProgram DEF SessionFlow
  <1>2. stack' = <<>>
    BY DEF RunTest, StartRun
  <1>3. RunAccepted'
    BY <1>1, <1>2 DEF RunAccepted, HandMade
  <1>4. RunAccepted' => FlowInv'
    BY RunAcceptedFlows, PTL
  <1>5. QED
    BY <1>1, <1>3, <1>4 DEF SessionFlow

-----------------------------------------------------------------------------
(* The session                                                              *)

\* Nothing runs on a VM on which nothing has run.
LEMMA UnusedHalts ==
  ASSUME Unused PROVE ~Running
  BY DEF Unused, Running

LEMMA StepRuns ==
  ASSUME Step PROVE Running
  <1>1. CASE \/ Pop \/ Dup \/ Constant \/ LoadVar \/ StoreVar \/ PopN
             \/ Arithmetic \/ Comparison \/ Equality \/ Not \/ Negate
             \/ Jump \/ JumpIfFalse \/ PrintTop \/ DefineGlobal \/ GetGlobal \/ SetGlobal
    BY <1>1 DEF Pop, Dup, Constant, LoadVar, StoreVar, PopN, Arithmetic, Comparison, Equality,
       Not, Negate, Jump, JumpIfFalse, PrintTop, DefineGlobal, GetGlobal, SetGlobal, At
  <1>2. CASE \/ ListNew \/ ListPush \/ ListLen \/ DictNew \/ DictHas
             \/ IndexGetList \/ IndexGetDict \/ IndexSetList \/ IndexSetDict
             \/ GetPropDict \/ GetPropField \/ GetPropMethod
             \/ SetPropDict \/ SetPropField \/ GetSuper \/ Return
    BY <1>2 DEF ListNew, ListPush, ListLen, DictNew, DictHas, IndexGetList, IndexGetDict,
       IndexSetList, IndexSetDict, GetPropDict, GetPropField, GetPropMethod, SetPropDict,
       SetPropField, GetSuper, Return, At
  <1>3. CASE ConstructPlain \/ ConstructInit
    BY <1>3 DEF ConstructPlain, ConstructInit, ClassCalled, AtCallV, At
  <1>4. CASE CallFunction \/ Native
    <2>1. Calls # {}
      BY <1>4 DEF CallFunction, Native, NativeLen, NativeStr, NativeType, NativeAbs, NativeClock,
         NativeEmit, NativeGcCollect, NativeGcTouch, NativeMakeBigDict
    <2>2. QED
      BY <2>1 DEF Calls, AtCallV, At
  <1>5. QED
    BY <1>1, <1>2, <1>3, <1>4 DEF Step

LEMMA NewVMUnused ==
  ASSUME NewVM PROVE Unused
  BY DEF NewVM, Unused

LEMMA SessionStep ==
  ASSUME SessionInv, Step PROVE SessionInv'
  <1>1. HandMade(prog) /\ Inv /\ Containers(heap)
    BY UnusedHalts, StepRuns DEF SessionInv
  <1>2. HandMade(prog)' /\ Containers(heap)'
    BY <1>1, StepProgram, StepContainers
  <1>3. Marked'
    BY <1>1, StepMarks
  <1>4. Containers(heap)' => FieldsTraced'
    BY ContainersTraced, PTL
  <1>5. Marked' /\ FieldsTraced' => Inv'
    BY MarkedGivesInv DEF Marked, FieldsTraced, Inv, NoDangling
  <1>6. QED
    BY <1>2, <1>3, <1>4, <1>5 DEF SessionInv

LEMMA SessionStepFlows ==
  ASSUME SessionFlow, Step PROVE SessionFlow'
  <1>1. HandMade(prog) /\ FlowInv
    BY UnusedHalts, StepRuns DEF SessionFlow
  <1>2. QED
    BY <1>1, StepProgram, StepFlows DEF SessionFlow

LEMMA SameSession ==
  ASSUME UNCHANGED vars
  PROVE  (SessionInv => SessionInv') /\ (SessionFlow => SessionFlow')
  <1>1. Unused => Unused'
    BY DEF Unused, vars
  <1>2. HandMade(prog) => HandMade(prog')
    BY DEF vars
  <1>3. Containers(heap) => Containers(heap')
    BY DEF vars
  <1>4. Inv /\ Containers(heap) => Inv'
    <2>1. Inv => Marked'
      BY HaltedMarks
    <2>2. Containers(heap)' => FieldsTraced'
      BY ContainersTraced, PTL
    <2>3. Marked' /\ FieldsTraced' => Inv'
      BY MarkedGivesInv DEF Marked, FieldsTraced, Inv, NoDangling
    <2>4. QED
      BY <1>3, <2>1, <2>2, <2>3
  <1>5. FlowInv => FlowInv'
    BY StepFits DEF vars, FlowInv
  <1>6. QED
    BY <1>1, <1>2, <1>3, <1>4, <1>5 DEF SessionInv, SessionFlow

LEMMA SessionNextInv ==
  ASSUME SessionInv, [SessionNext]_session PROVE SessionInv'
  <1>1. CASE UNCHANGED vars
    BY <1>1, SameSession
  <1>2. QED
    BY <1>1, SessionStep, RunTestInv DEF SessionNext, Halted, session

LEMMA SessionNextFlows ==
  ASSUME SessionFlow, [SessionNext]_session, CodeVerified' PROVE SessionFlow'
  <1>1. CASE UNCHANGED vars
    BY <1>1, SameSession
  <1>2. QED
    BY <1>1, SessionStepFlows, RunTestFlows DEF SessionNext, Halted, session

-----------------------------------------------------------------------------
(* Theorems                                                                 *)

\* Whatever functions are run and registered in between, one run's globals and what
\* they hold on to included.
THEOREM SessionInvariance ==
  SessionSpec => []SessionInv
  <1>1. NewVM => SessionInv
    BY NewVMUnused DEF SessionInv
  <1>2. SessionInv /\ [SessionNext]_session => SessionInv'
    BY SessionNextInv
  <1>3. QED
    BY <1>1, <1>2, PTL DEF SessionSpec

\* Between and during the runs of one VM, whatever is held is allocated: what an
\* earlier run left in the globals survives the collections of a later one
\* (VM::Run keeps globals_ and callables_; TraceRoots).
THEOREM SessionSafety ==
  SessionSpec => []NoDangling
  <1>1. SessionInv => NoDangling
    BY UnusedRoots DEF SessionInv, Inv
  <1>2. QED
    BY <1>1, SessionInvariance, PTL

THEOREM SessionFlows ==
  SessionSpec /\ []CodeVerified => []SessionFlow
  <1>1. NewVM => SessionFlow
    BY NewVMUnused DEF SessionFlow
  <1>2. SessionFlow /\ [SessionNext]_session /\ CodeVerified' => SessionFlow'
    BY SessionNextFlows
  <1>3. QED
    BY <1>1, <1>2, PTL DEF SessionSpec

\* A run leaves nothing on the operand stack, whatever ran before it and however many
\* functions were registered since, if each run's functions were accepted.
THEOREM SessionBalance ==
  SessionSpec /\ []CodeVerified => []StackBalanced
  <1>1. SessionFlow => StackBalanced
    BY FlowBalanced DEF SessionFlow, Unused, StackBalanced
  <1>2. QED
    BY <1>1, SessionFlows, PTL

\* No instruction of any run pops what is not there or names a callable that is not
\* registered: the indices given out before stay good (VM::RegisterFunction).
THEOREM SessionOperands ==
  SessionSpec /\ []CodeVerified => []OperandsThere
  <1>1. SessionFlow => OperandsThere
    BY FlowOperands, UnusedHalts DEF SessionFlow, OperandsThere
  <1>2. QED
    BY <1>1, SessionFlows, PTL

\* Type correctness of every run.
THEOREM SessionTypes ==
  SessionSpec /\ []CodeVerified => []TypeOK
  <1>1. SessionFlow /\ SessionInv => TypeOK
    <2>1. Unused => TypeOK
      BY DEF Unused, TypeOK, SlotsExist
    <2>2. FlowInv /\ Inv => TypeOK
      BY FlowTypes
    <2>3. QED
      BY <2>1, <2>2 DEF SessionFlow, SessionInv
  <1>2. QED
    BY <1>1, SessionFlows, SessionInvariance, PTL
=============================================================================
