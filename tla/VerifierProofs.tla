--------------------------- MODULE VerifierProofs ---------------------------
(***************************************************************************)
(* What the verifier accepts keeps the VM's asserts: whatever is on the heap,  *)
(* and for every program, the operand stack and the frames follow the flow     *)
(* that Verifier.tla computes.                                               *)
(***************************************************************************)
EXTENDS Verifier, VMProofs

\* The functions that frames run, each with its flow.
Bodies ==
  [i \in {Script} \cup {j \in Callables : j >= BuiltinCount} |->
     [fn |-> FnOf(i), flow |-> Flow(FnOf(i), Arities)]]

Accepts(B, A) ==
  \A i \in DOMAIN B : B[i].flow = Flow(B[i].fn, A) /\ Verified(B[i].fn, A, i = Script)

\* What the flow says of the place that a frame has come to.
Depth(B, f) == B[f.fn].flow.depth[f.ip + 1]
Slots(B, f) == B[f.fn].flow.slots[f.ip + 1]

\* A frame is at a place that the flow knows, and holds in its slots what it allows.
FrameFits(B, f) ==
  /\ f.fn \in DOMAIN B
  /\ f.ip \in 0 .. Len(B[f.fn].fn.code) /\ f.ip + 1 \in DOMAIN B[f.fn].flow.depth
  /\ Depth(B, f) \in Nat
  /\ Len(f.locals) = B[f.fn].fn.localCount
  /\ \A s \in DOMAIN f.locals : s > Slots(B, f) => f.locals[s] = Null

\* The script's frame is the lowest, and a frame below another waits for the
\* value that the latter will return.
FramesFit(B, frs) ==
  /\ AreFrames(frs)
  /\ \A i \in DOMAIN frs :
       /\ FrameFits(B, frs[i]) /\ (frs[i].fn = Script <=> i = 1)
       /\ i < Len(frs) => Depth(B, frs[i]) >= 1

\* The operands of n values that the frames have, base[i] being what is below
\* those of frame i.
Piled(B, base, frs, n) ==
  /\ base \in [1 .. Len(frs) -> Nat] /\ base[1] = 0
  /\ \A i \in 1 .. Len(frs) - 1 : base[i + 1] = base[i] + Depth(B, frs[i]) - 1
  /\ n = base[Len(frs)] + Depth(B, frs[Len(frs)])

Balanced(B, frs, n) ==
  IF frs = <<>> THEN n = 0 ELSE \E base : Piled(B, base, frs, n)

FlowInv ==
  /\ FunctionsFormed(prog) /\ Accepts(Bodies, Arities)
  /\ IsSeq(stack) /\ FramesFit(Bodies, frames) /\ Balanced(Bodies, frames, Len(stack))

-----------------------------------------------------------------------------
(* The program                                                              *)

LEMMA SameProgram ==
  ASSUME prog' = prog
  PROVE  Bodies' = Bodies /\ Arities' = Arities
  <1>1. \A i : FnOf(i)' = FnOf(i)
    BY DEF FnOf
  <1>2. Callables' = Callables
    BY DEF Callables
  <1>3. \A i : Arity(i)' = Arity(i)
    BY <1>1 DEF Arity
  <1>4. Arities' = Arities
    BY <1>2, <1>3 DEF Arities
  <1>5. Bodies' = Bodies
    BY <1>1, <1>2, <1>4 DEF Bodies
  <1>6. QED
    BY <1>4, <1>5

LEMMA BodyOf ==
  /\ DOMAIN Bodies = {Script} \cup {j \in Callables : j >= BuiltinCount}
  /\ \A i \in DOMAIN Bodies :
       Bodies[i].fn = FnOf(i) /\ Bodies[i].flow = Flow(FnOf(i), Arities)
  BY DEF Bodies

LEMMA BodyFunction ==
  ASSUME FunctionsFormed(prog), NEW i \in DOMAIN Bodies
  PROVE  FnOf(i) \in FunctionsOf(prog)
  <1>1. CASE i = Script
    BY <1>1 DEF FnOf, FunctionsOf
  <1>2. CASE i \in Callables /\ i >= BuiltinCount
    <2> DEFINE k == i - BuiltinCount + 1
    <2>1. Len(prog.functions) \in Nat /\ DOMAIN prog.functions = 1 .. Len(prog.functions)
      BY SeqShape DEF FunctionsFormed
    <2>2. k \in DOMAIN prog.functions /\ i # Script
      BY <1>2, <2>1 DEF Callables, BuiltinCount, Script
    <2>3. FnOf(i) = prog.functions[k]
      BY <2>2 DEF FnOf
    <2> HIDE DEF k
    <2>4. QED
      BY <2>2, <2>3 DEF FunctionsOf
  <1>3. QED
    BY <1>1, <1>2, BodyOf

LEMMA FunctionTypes ==
  ASSUME FunctionsFormed(prog), NEW i \in Callables, i >= BuiltinCount
  PROVE  FnOf(i).arity \in Nat /\ FnOf(i).localCount \in Nat
  <1>1. FnOf(i) \in FunctionsOf(prog)
    BY BodyOf, BodyFunction
  <1>2. QED
    BY <1>1 DEF FunctionsFormed

LEMMA AritiesNat ==
  ASSUME FunctionsFormed(prog), NEW i \in DOMAIN Arities
  PROVE  Arities[i] \in Nat /\ i \in Callables /\ Arities[i] = Arity(i)
  BY FunctionTypes DEF Arities, Arity

-----------------------------------------------------------------------------
(* Frames                                                                   *)

LEMMA FrameCount ==
  ASSUME NEW frs, AreFrames(frs)
  PROVE  /\ Len(frs) \in Nat /\ DOMAIN frs = 1 .. Len(frs) /\ IsSeq(frs)
         /\ frs # <<>> => Len(frs) \in DOMAIN frs /\ Len(frs) >= 1
         /\ frs = <<>> <=> Len(frs) = 0
  <1>1. IsSeq(frs) /\ Len(frs) \in Nat /\ DOMAIN frs = 1 .. Len(frs)
    BY SeqLength DEF AreFrames
  <1>2. frs = <<>> <=> Len(frs) = 0
    BY <1>1, EmptySeq DEF IsSeq
  <1>3. QED
    BY <1>1, <1>2

\* The top frame goes on in its function.
LEMMA TopGoesOn ==
  ASSUME NEW B, NEW frs, FramesFit(B, frs), frs # <<>>, NEW n, Balanced(B, frs, n),
         NEW g, IsFrame(g), FrameFits(B, g), g.fn = frs[Len(frs)].fn
  PROVE  LET e == [frs EXCEPT ![Len(frs)] = g]
         IN  /\ FramesFit(B, e) /\ Len(e) = Len(frs) /\ e[Len(e)] = g /\ e # <<>>
             /\ Balanced(B, e, n - Depth(B, frs[Len(frs)]) + Depth(B, g))
  <1> DEFINE e == [frs EXCEPT ![Len(frs)] = g]
             m == n - Depth(B, frs[Len(frs)]) + Depth(B, g)
  <1>1. /\ AreFrames(frs) /\ Len(frs) \in Nat /\ DOMAIN frs = 1 .. Len(frs) /\ IsSeq(frs)
        /\ Len(frs) \in DOMAIN frs /\ Len(frs) >= 1
    BY FrameCount DEF FramesFit
  <1>2. IsSeq(e) /\ Len(e) = Len(frs) /\ DOMAIN e = 1 .. Len(frs)
    BY <1>1, UpdateSeq
  <1>3. /\ \A i \in 1 .. Len(frs) - 1 : e[i] = frs[i]
        /\ e[Len(frs)] = g
    <2>1. \A i \in DOMAIN frs : e[i] = IF i = Len(frs) THEN g ELSE frs[i]
      OBVIOUS
    <2> HIDE DEF e
    <2>2. QED
      BY <1>1, <2>1
  <1> HIDE DEF e
  <1>4. AreFrames(e)
    BY <1>1, <1>2, <1>3 DEF AreFrames
  <1>5. FramesFit(B, e)
    <2>1. ASSUME NEW i \in DOMAIN e
          PROVE  /\ FrameFits(B, e[i]) /\ (e[i].fn = Script <=> i = 1)
                 /\ i < Len(e) => Depth(B, e[i]) >= 1
      <3>1. CASE i = Len(frs)
        BY <1>1, <1>2, <1>3, <3>1 DEF FramesFit
      <3>2. CASE i # Len(frs)
        <4>1. i \in 1 .. Len(frs) - 1
          BY <1>1, <1>2, <3>2
        <4>2. QED
          BY <1>1, <1>2, <1>3, <4>1 DEF FramesFit
      <3>3. QED
        BY <3>1, <3>2
    <2>2. QED
      BY <1>4, <2>1 DEF FramesFit
  <1>6. PICK base : Piled(B, base, frs, n)
    BY DEF Balanced
  <1>7. Piled(B, base, e, m)
    <2>1. base[Len(frs)] \in Nat /\ Depth(B, frs[Len(frs)]) \in Nat /\ Depth(B, g) \in Nat
      BY <1>1, <1>6 DEF Piled, FramesFit, FrameFits
    <2>2. m = base[Len(e)] + Depth(B, e[Len(e)])
      BY <1>2, <1>3, <1>6, <2>1 DEF Piled
    <2> HIDE DEF m
    <2>3. QED
      BY <1>2, <1>3, <1>6, <2>2 DEF Piled
  <1>8. e # <<>>
    BY <1>1, <1>2, <1>4, FrameCount
  <1>9. Balanced(B, e, m)
    BY <1>7, <1>8 DEF Balanced
  <1>10. QED
    BY <1>2, <1>3, <1>5, <1>8, <1>9 DEF e

\* A frame goes on top, which has no operands yet: the one below waits for what it
\* returns, which is what its own flow has counted already.
LEMMA FramePushed ==
  ASSUME NEW B, NEW frs, FramesFit(B, frs), frs # <<>>, NEW n, Balanced(B, frs, n),
         Depth(B, frs[Len(frs)]) >= 1,
         NEW g, IsFrame(g), FrameFits(B, g), g.fn # Script, Depth(B, g) = 0
  PROVE  LET e == Append(frs, g)
         IN  FramesFit(B, e) /\ Balanced(B, e, n - 1)
  <1> DEFINE l == Len(frs)
             e == Append(frs, g)
  <1>1. /\ AreFrames(frs) /\ l \in Nat /\ DOMAIN frs = 1 .. l /\ IsSeq(frs)
        /\ l \in DOMAIN frs /\ l >= 1
    BY FrameCount DEF FramesFit
  <1>2. /\ IsSeq(e) /\ Len(e) = l + 1 /\ DOMAIN e = 1 .. l + 1
        /\ \A i \in 1 .. l : e[i] = frs[i]
        /\ e[l + 1] = g
    BY <1>1, AppendSeq
  <1> HIDE DEF e
  <1>3. AreFrames(e) /\ e # <<>>
    <2>1. AreFrames(e)
      BY <1>1, <1>2 DEF AreFrames
    <2>2. QED
      BY <1>1, <1>2, <2>1, FrameCount
  <1>4. FramesFit(B, e)
    <2>1. ASSUME NEW i \in DOMAIN e
          PROVE  /\ FrameFits(B, e[i]) /\ (e[i].fn = Script <=> i = 1)
                 /\ i < Len(e) => Depth(B, e[i]) >= 1
      <3>1. CASE i = l + 1
        BY <1>1, <1>2, <3>1
      <3>2. CASE i # l + 1
        <4>1. i \in 1 .. l /\ e[i] = frs[i] /\ (i < l \/ i = l)
          BY <1>1, <1>2, <3>2
        <4>2. QED
          BY <1>1, <4>1 DEF FramesFit
      <3>3. QED
        BY <3>1, <3>2
    <2>2. QED
      BY <1>3, <2>1 DEF FramesFit
  <1>5. PICK base : Piled(B, base, frs, n)
    BY DEF Balanced
  <1> DEFINE below == [i \in 1 .. l + 1 |-> IF i = l + 1 THEN n - 1 ELSE base[i]]
  <1>6. /\ base[l] \in Nat /\ Depth(B, frs[l]) \in Nat /\ n \in Nat /\ n >= 1
        /\ n - 1 = base[l] + Depth(B, frs[l]) - 1
    BY <1>1, <1>5 DEF Piled, FramesFit, FrameFits
  <1>7. below \in [1 .. l + 1 -> Nat] /\ below[1] = 0 /\ below[l + 1] = n - 1
        /\ \A i \in 1 .. l : below[i] = base[i]
    BY <1>1, <1>5, <1>6 DEF Piled
  <1> HIDE DEF below
  <1>8. ASSUME NEW i \in 1 .. Len(e) - 1
        PROVE  below[i + 1] = below[i] + Depth(B, e[i]) - 1
    <2>1. i \in 1 .. l /\ e[i] = frs[i] /\ below[i] = base[i]
      BY <1>1, <1>2, <1>7
    <2>2. CASE i = l
      BY <1>6, <1>7, <2>1, <2>2
    <2>3. CASE i # l
      <3>1. i \in 1 .. l - 1 /\ i + 1 \in 1 .. l
        <4>1. l \in Nat /\ i \in 1 .. l
          BY <1>1, <2>1
        <4> HIDE DEF l
        <4>2. QED
          BY <2>3, <4>1
      <3>2. base[i + 1] = base[i] + Depth(B, frs[i]) - 1
        BY <1>5, <3>1 DEF Piled
      <3>3. QED
        BY <1>7, <2>1, <3>1, <3>2
    <2>4. QED
      BY <2>2, <2>3
  <1>9. Piled(B, below, e, n - 1)
    BY <1>1, <1>2, <1>6, <1>7, <1>8 DEF Piled
  <1>10. Balanced(B, e, n - 1)
    BY <1>3, <1>9 DEF Balanced
  <1>11. QED
    BY <1>4, <1>10 DEF e

\* The top frame returns: what it leaves is the value that the one below waits for.
LEMMA FramePopped ==
  ASSUME NEW B, NEW frs, FramesFit(B, frs), frs # <<>>, NEW n, Balanced(B, frs, n),
         Depth(B, frs[Len(frs)]) = 1
  PROVE  LET e == SubSeq(frs, 1, Len(frs) - 1)
         IN  /\ FramesFit(B, e) /\ n \in Nat /\ n >= 1
             /\ Balanced(B, e, IF Len(frs) = 1 THEN n - 1 ELSE n)
  <1> DEFINE l == Len(frs)
             e == SubSeq(frs, 1, l - 1)
             m == IF l = 1 THEN n - 1 ELSE n
  <1>1. /\ AreFrames(frs) /\ l \in Nat /\ DOMAIN frs = 1 .. l /\ IsSeq(frs)
        /\ l \in DOMAIN frs /\ l >= 1
    BY FrameCount DEF FramesFit
  <1>2. /\ IsSeq(e) /\ Len(e) = l - 1 /\ DOMAIN e = 1 .. l - 1
        /\ \A i \in 1 .. l - 1 : e[i] = frs[i]
    <2>1. l - 1 \in 0 .. Len(frs)
      BY <1>1
    <2>2. QED
      BY <1>1, <2>1, FrontSeq
  <1> HIDE DEF e
  <1>3. AreFrames(e)
    BY <1>1, <1>2 DEF AreFrames
  <1>4. FramesFit(B, e)
    BY <1>1, <1>2, <1>3 DEF FramesFit
  <1>5. PICK base : Piled(B, base, frs, n)
    BY DEF Balanced
  <1>6. base[l] \in Nat /\ n = base[l] + 1
    BY <1>1, <1>5 DEF Piled
  <1>7. Balanced(B, e, m)
    <2>1. CASE l = 1
      <3>1. e = <<>> /\ m = 0
        BY <1>2, <1>3, <1>5, <1>6, <2>1, FrameCount DEF Piled
      <3>2. QED
        BY <3>1 DEF Balanced
    <2>2. CASE l # 1
      <3> DEFINE below == [i \in 1 .. l - 1 |-> base[i]]
      <3>1. l - 1 \in 1 .. l - 1 /\ l - 1 + 1 = l
        BY <1>1, <2>2
      <3>2. /\ below \in [1 .. l - 1 -> Nat] /\ below[1] = 0
            /\ \A i \in 1 .. l - 1 : below[i] = base[i]
        BY <1>1, <1>5, <3>1 DEF Piled
      <3> HIDE DEF below
      <3>3. base[l] = base[l - 1] + Depth(B, frs[l - 1]) - 1
        BY <1>5, <3>1 DEF Piled
      <3>4. Depth(B, frs[l - 1]) \in Nat /\ base[l - 1] \in Nat
        <4>1. l - 1 \in DOMAIN frs
          BY <1>1, <3>1
        <4>2. FrameFits(B, frs[l - 1])
          BY <4>1 DEF FramesFit
        <4>3. below[l - 1] \in Nat /\ below[l - 1] = base[l - 1]
          BY <3>1, <3>2
        <4>4. QED
          BY <4>2, <4>3 DEF FrameFits
      <3>5. m = below[Len(e)] + Depth(B, e[Len(e)])
        BY <1>2, <1>6, <2>2, <3>1, <3>2, <3>3, <3>4
      <3>6. ASSUME NEW i \in 1 .. Len(e) - 1
            PROVE  below[i + 1] = below[i] + Depth(B, e[i]) - 1
        <4>1. i \in 1 .. l - 1 /\ i + 1 \in 1 .. l - 1
          BY <1>1, <1>2
        <4>2. QED
          BY <1>2, <1>5, <3>2, <4>1 DEF Piled
      <3>7. Piled(B, below, e, m)
        BY <1>2, <3>2, <3>5, <3>6 DEF Piled
      <3>8. e # <<>>
        BY <1>1, <1>2, <1>3, <2>2, FrameCount
      <3>9. QED
        BY <3>7, <3>8 DEF Balanced
    <2>3. QED
      BY <2>1, <2>2
  <1>8. QED
    BY <1>4, <1>6, <1>7 DEF e

-----------------------------------------------------------------------------
(* Instructions                                                             *)

LEMMA TakesOf ==
  ASSUME NEW code, NEW p, NEW A
  PROVE  /\ code[p] \in TakeNone => Takes(code, p, A) = 0
         /\ code[p] \in TakeOne => Takes(code, p, A) = 1
         /\ code[p] \in TakeTwo => Takes(code, p, A) = 2
         /\ code[p] \in TakeThree => Takes(code, p, A) = 3
         /\ code[p] = "OP_CALL" => Takes(code, p, A) = A[code[p + 1]]
         /\ code[p] = "OP_CALLV" => Takes(code, p, A) = code[p + 1] + 1
  <1>1. code[p] \in TakeNone => Takes(code, p, A) = 0
    BY DEF Takes, TakeNone, TakeOne, TakeTwo, TakeThree
  <1>2. code[p] \in TakeOne => Takes(code, p, A) = 1
    BY DEF Takes, TakeNone, TakeOne, TakeTwo, TakeThree
  <1>3. code[p] \in TakeTwo => Takes(code, p, A) = 2
    BY DEF Takes, TakeNone, TakeOne, TakeTwo, TakeThree
  <1>4. code[p] \in TakeThree => Takes(code, p, A) = 3
    BY DEF Takes, TakeNone, TakeOne, TakeTwo, TakeThree
  <1>5. code[p] = "OP_CALL" => Takes(code, p, A) = A[code[p + 1]]
    BY DEF Takes, TakeNone, TakeOne, TakeTwo, TakeThree
  <1>6. code[p] = "OP_CALLV" => Takes(code, p, A) = code[p + 1] + 1
    BY DEF Takes, TakeNone, TakeOne, TakeTwo, TakeThree
  <1>7. QED
    BY <1>1, <1>2, <1>3, <1>4, <1>5, <1>6

LEMMA LeavesOf ==
  ASSUME NEW op
  PROVE  Leaves(op) \in 0 .. 2
  BY DEF Leaves

\* The instruction has n operands and reads k values: r of them it takes off the
\* stack, and puts l there instead.  Control goes on after it, and it leaves the
\* slots alone.
Does(op, n, k, r, l) ==
  /\ OperandCount(op) = n /\ k \in 0 .. 3 /\ r \in 0 .. k /\ Leaves(op) = k - r + l
  /\ op \notin JumpOps \cup {"OP_RETURN", "OP_STORE_VAR", "OP_POPN"}
  /\ k = 0 => op \in TakeNone
  /\ k = 1 => op \in TakeOne
  /\ k = 2 => op \in TakeTwo
  /\ k = 3 => op \in TakeThree

LEMMA PlainEffects ==
  /\ Does("OP_POP", 0, 1, 1, 0) /\ Does("OP_DUP", 0, 1, 0, 1) /\ Does("OP_CONSTANT", 1, 0, 0, 1)
  /\ Does("OP_LOAD_VAR", 1, 0, 0, 1)
  /\ Does("OP_ADD", 0, 2, 2, 1) /\ Does("OP_SUB", 0, 2, 2, 1) /\ Does("OP_MUL", 0, 2, 2, 1)
  /\ Does("OP_DIV", 0, 2, 2, 1) /\ Does("OP_LESS", 0, 2, 2, 1) /\ Does("OP_GREATER", 0, 2, 2, 1)
  /\ Does("OP_EQ", 0, 2, 2, 1) /\ Does("OP_NOT_EQUAL", 0, 2, 2, 1)
  /\ Does("OP_NOT", 0, 1, 1, 1) /\ Does("OP_NEGATE", 0, 1, 1, 1) /\ Does("OP_PRINT", 0, 1, 1, 0)
  /\ Does("OP_DEFINE_GLOBAL", 1, 1, 1, 0) /\ Does("OP_GET_GLOBAL", 1, 0, 0, 1)
  /\ Does("OP_SET_GLOBAL", 1, 1, 1, 0)
  BY DEF Does, OperandCount, Leaves, LeaveNone, LeaveTwo, TwoOperands, OneOperand,
         JumpOps, SlotOps, ConstOps, CallOps, TakeNone, TakeOne, TakeTwo, TakeThree

LEMMA ObjectEffects ==
  /\ Does("OP_LIST_NEW", 0, 0, 0, 1) /\ Does("OP_DICT_NEW", 0, 0, 0, 1)
  /\ Does("OP_LIST_PUSH", 0, 2, 1, 0) /\ Does("OP_LIST_LEN", 0, 1, 1, 1)
  /\ Does("OP_DICT_HAS", 0, 2, 2, 1) /\ Does("OP_INDEX_GET", 0, 2, 2, 1)
  /\ Does("OP_INDEX_SET", 0, 3, 3, 0) /\ Does("OP_GET_PROP", 1, 1, 1, 1)
  /\ Does("OP_SET_PROP", 1, 2, 2, 0) /\ Does("OP_GET_SUPER", 2, 1, 1, 1)
  BY DEF Does, OperandCount, Leaves, LeaveNone, LeaveTwo, TwoOperands, OneOperand,
         JumpOps, SlotOps, ConstOps, CallOps, TakeNone, TakeOne, TakeTwo, TakeThree

LEMMA JumpEffects ==
  /\ OperandCount("OP_JUMP") = 1 /\ Leaves("OP_JUMP") = 0 /\ "OP_JUMP" \in TakeNone
  /\ OperandCount("OP_JUMP_IF_FALSE") = 1 /\ Leaves("OP_JUMP_IF_FALSE") = 0
  /\ "OP_JUMP_IF_FALSE" \in TakeOne
  /\ OperandCount("OP_STORE_VAR") = 1 /\ Leaves("OP_STORE_VAR") = 0
  /\ "OP_STORE_VAR" \in TakeOne
  /\ OperandCount("OP_POPN") = 2 /\ Leaves("OP_POPN") = 0 /\ "OP_POPN" \in TakeNone
  /\ "OP_RETURN" \in TakeOne
  /\ OperandCount("OP_CALL") = 1 /\ Leaves("OP_CALL") = 1
  /\ OperandCount("OP_CALLV") = 1 /\ Leaves("OP_CALLV") = 1
  BY DEF OperandCount, Leaves, LeaveNone, LeaveTwo, TwoOperands, OneOperand,
         JumpOps, SlotOps, ConstOps, CallOps, TakeNone, TakeOne

LEMMA SuccessorsOf ==
  ASSUME NEW code, NEW p
  PROVE  /\ code[p] = "OP_JUMP" => Successors(code, p) = {code[p + 1] + 1}
         /\ code[p] = "OP_JUMP_IF_FALSE" => Successors(code, p) = {p + 2, code[p + 1] + 1}
         /\ code[p] = "OP_RETURN" => Successors(code, p) = {}
         /\ code[p] \notin JumpOps \cup {"OP_RETURN"} =>
              Successors(code, p) = {p + 1 + OperandCount(code[p])}
  <1>1. code[p] = "OP_JUMP" => Successors(code, p) = {code[p + 1] + 1}
    BY DEF Successors
  <1>2. code[p] = "OP_JUMP_IF_FALSE" => Successors(code, p) = {p + 2, code[p + 1] + 1}
    BY DEF Successors
  <1>3. code[p] = "OP_RETURN" => Successors(code, p) = {}
    BY DEF Successors
  <1>4. code[p] \notin JumpOps \cup {"OP_RETURN"} =>
              Successors(code, p) = {p + 1 + OperandCount(code[p])}
    BY DEF Successors, JumpOps
  <1>5. QED
    BY <1>1, <1>2, <1>3, <1>4

LEMMA SlotsAfterOf ==
  ASSUME NEW code, NEW p, NEW l
  PROVE  /\ code[p] = "OP_STORE_VAR" =>
              SlotsAfter(code, p, l) = IF code[p + 1] < l THEN l ELSE code[p + 1] + 1
         /\ code[p] = "OP_POPN" =>
              SlotsAfter(code, p, l) = IF code[p + 1] < l /\ l <= code[p + 1] + code[p + 2]
                                         THEN code[p + 1] ELSE l
         /\ code[p] \notin {"OP_STORE_VAR", "OP_POPN"} => SlotsAfter(code, p, l) = l
  BY DEF SlotsAfter

-----------------------------------------------------------------------------
(* The instruction that the VM has come to                                  *)

Place == Frame.ip + 1
FlowHere == Flow(FnOf(Frame.fn), Arities)
Taken == Takes(Code, Place, Arities)
Left == Leaves(Code[Place])
DepthHere == Depth(Bodies, Frame)
SlotsHere == Slots(Bodies, Frame)

LEMMA FrameHere ==
  ASSUME FlowInv, frames # <<>>
  PROVE  /\ Len(frames) \in DOMAIN frames /\ IsFrame(Frame) /\ FrameFits(Bodies, Frame)
         /\ Bodies[Frame.fn].fn = FnOf(Frame.fn) /\ Bodies[Frame.fn].flow = FlowHere
         /\ Len(Code) \in Nat /\ Frame.ip \in 0 .. Len(Code) /\ Place \in DOMAIN FlowHere.depth
         /\ DepthHere = FlowHere.depth[Place] /\ SlotsHere = FlowHere.slots[Place]
         /\ DepthHere \in Nat
         /\ Verified(FnOf(Frame.fn), Arities, Frame.fn = Script)
  <1>1. Len(frames) \in DOMAIN frames /\ IsFrame(Frame) /\ FrameFits(Bodies, Frame)
    BY FrameCount DEF FlowInv, FramesFit, AreFrames, Frame
  <1>2. Frame.fn \in DOMAIN Bodies
    BY <1>1 DEF FrameFits
  <1>3. Bodies[Frame.fn].fn = FnOf(Frame.fn) /\ Bodies[Frame.fn].flow = FlowHere
    BY <1>2, BodyOf DEF FlowHere
  <1>4. DepthHere = FlowHere.depth[Place] /\ SlotsHere = FlowHere.slots[Place]
    BY <1>3 DEF DepthHere, SlotsHere, Depth, Slots, Place
  <1>5. FnOf(Frame.fn) \in FunctionsOf(prog)
    BY <1>2, BodyFunction DEF FlowInv
  <1>6. Len(Code) \in Nat
    BY <1>5 DEF Code, FlowInv, FunctionsFormed
  <1>7. Frame.ip \in 0 .. Len(Code) /\ Place \in DOMAIN FlowHere.depth /\ DepthHere \in Nat
    BY <1>1, <1>3 DEF FrameFits, Code, Place, DepthHere
  <1>8. Verified(FnOf(Frame.fn), Arities, Frame.fn = Script)
    BY <1>2, <1>3 DEF FlowInv, Accepts
  <1>9. QED
    BY <1>1, <1>3, <1>4, <1>6, <1>7, <1>8

LEMMA Instruction ==
  ASSUME FlowInv, Running
  PROVE  /\ frames # <<>> /\ Place \in Nat /\ Place <= Len(Code)
         /\ WholeInstruction(FnOf(Frame.fn), Arities, Place)
         /\ Accepted(FnOf(Frame.fn), Arities, FlowHere, Place)
         /\ Taken \in Nat /\ Taken <= DepthHere /\ SlotsHere \in Nat
         /\ Code[Place] = "OP_RETURN" => DepthHere = 1
  <1>1. frames # <<>> /\ Place \in Nat /\ Place <= Len(Code)
    BY FrameHere DEF Running, Place
  <1>2. Place \in DOMAIN FlowHere.depth /\ Place # Len(Code) + 1
    BY <1>1, FrameHere
  <1>3. Accepted(FnOf(Frame.fn), Arities, FlowHere, Place) /\ FlowHere.slots[Place] \in Nat
    BY <1>1, <1>2, FrameHere DEF Verified, FlowHere, Code
  <1>4. WholeInstruction(FnOf(Frame.fn), Arities, Place)
    BY <1>3 DEF Accepted
  <1>5. Taken \in Nat
    <2>1. CASE Code[Place] \in TakeNone \cup TakeOne \cup TakeTwo \cup TakeThree
      BY <2>1, TakesOf DEF Taken
    <2>2. CASE Code[Place] = "OP_CALL"
      <3>1. Code[Place + 1] \in DOMAIN Arities
        BY <1>4, <2>2 DEF WholeInstruction, IndicesExist, Code
      <3>2. Taken = Arities[Code[Place + 1]]
        BY <2>2, TakesOf DEF Taken
      <3>3. QED
        BY <3>1, <3>2, AritiesNat DEF FlowInv
    <2>3. CASE Code[Place] = "OP_CALLV"
      <3>1. Code[Place + 1] \in Nat
        BY <1>4, <2>3 DEF WholeInstruction, IndicesExist, Code
      <3>2. Taken = Code[Place + 1] + 1
        BY <2>3, TakesOf DEF Taken
      <3>3. QED
        BY <3>1, <3>2
    <2>4. QED
      BY <1>4, <2>1, <2>2, <2>3 DEF WholeInstruction, Opcodes, CallOps, Code
  <1>6. DepthHere - Taken >= 0 /\ (Code[Place] = "OP_RETURN" => DepthHere - Taken = 0)
    BY <1>1, <1>3, FrameHere DEF Accepted, Taken, Code
  <1>7. Code[Place] = "OP_RETURN" => Taken = 1
    BY JumpEffects, TakesOf DEF Taken
  <1>8. DepthHere \in Nat /\ SlotsHere \in Nat
    BY <1>1, <1>3, FrameHere
  <1>9. Taken <= DepthHere /\ (Code[Place] = "OP_RETURN" => DepthHere = 1)
    BY <1>5, <1>6, <1>7, <1>8
  <1>10. QED
    BY <1>1, <1>3, <1>4, <1>5, <1>8, <1>9

\* What the frame has counted is on the stack.
LEMMA OnStack ==
  ASSUME FlowInv, Running
  PROVE  Len(stack) \in Nat /\ Taken <= Len(stack) /\ DepthHere <= Len(stack)
  <1>1. Len(stack) \in Nat
    BY SeqLength DEF FlowInv
  <1>2. frames # <<>> /\ DepthHere \in Nat /\ Len(frames) \in DOMAIN frames
    BY Instruction, FrameHere
  <1>3. PICK base : Piled(Bodies, base, frames, Len(stack))
    BY <1>2 DEF FlowInv, Balanced
  <1>4. base[Len(frames)] \in Nat
    BY <1>2, <1>3, FrameCount DEF Piled, FlowInv, FramesFit
  <1>5. Len(stack) = base[Len(frames)] + DepthHere
    BY <1>3 DEF Piled, DepthHere, Frame
  <1>6. QED
    BY <1>1, <1>2, <1>4, <1>5, Instruction

\* The places that control goes to are in the code, or at its end.
LEMMA NextPlace ==
  ASSUME FlowInv, Running, NEW q \in Successors(Code, Place)
  PROVE  q \in 1 .. Len(Code) + 1
  <1>1. /\ Place \in Nat /\ Place <= Len(Code) /\ Len(Code) \in Nat
        /\ WholeInstruction(FnOf(Frame.fn), Arities, Place)
    BY Instruction, FrameHere
  <1>2. /\ Place + OperandCount(Code[Place]) <= Len(Code)
        /\ Code[Place] \in JumpOps => Code[Place + 1] \in 0 .. Len(Code)
    BY <1>1 DEF WholeInstruction, IndicesExist, Code
  <1>3. OperandCount(Code[Place]) \in 0 .. 2
    BY DEF OperandCount
  <1>4. CASE Code[Place] = "OP_JUMP"
    BY <1>1, <1>2, <1>4, SuccessorsOf DEF JumpOps
  <1>5. CASE Code[Place] = "OP_JUMP_IF_FALSE"
    <2>1. q = Place + 2 \/ q = Code[Place + 1] + 1
      BY <1>5, SuccessorsOf
    <2>2. Place + 1 <= Len(Code) /\ Code[Place + 1] \in 0 .. Len(Code)
      BY <1>2, <1>5, JumpEffects DEF JumpOps
    <2>3. QED
      BY <1>1, <2>1, <2>2
  <1>6. CASE Code[Place] = "OP_RETURN"
    BY <1>6, SuccessorsOf
  <1>7. CASE Code[Place] \notin JumpOps \cup {"OP_RETURN"}
    <2>1. q = Place + 1 + OperandCount(Code[Place])
      BY <1>7, SuccessorsOf
    <2>2. QED
      BY <1>1, <1>2, <1>3, <2>1
  <1>8. QED
    BY <1>4, <1>5, <1>6, <1>7 DEF JumpOps

LEMMA SlotsAfterNat ==
  ASSUME FlowInv, Running
  PROVE  SlotsAfter(Code, Place, SlotsHere) \in Nat
  <1>1. SlotsHere \in Nat /\ WholeInstruction(FnOf(Frame.fn), Arities, Place)
    BY Instruction
  <1>2. CASE Code[Place] = "OP_STORE_VAR"
    <2>1. Code[Place + 1] \in Nat
      BY <1>1, <1>2 DEF WholeInstruction, IndicesExist, Code, SlotOps
    <2>2. QED
      BY <1>1, <1>2, <2>1, SlotsAfterOf
  <1>3. CASE Code[Place] = "OP_POPN"
    <2>1. Code[Place + 1] \in Nat /\ Code[Place + 2] \in Nat
      BY <1>1, <1>3 DEF WholeInstruction, IndicesExist, Code
    <2>2. QED
      BY <1>1, <1>3, <2>1, SlotsAfterOf
  <1>4. CASE Code[Place] \notin {"OP_STORE_VAR", "OP_POPN"}
    BY <1>1, <1>4, SlotsAfterOf
  <1>5. QED
    BY <1>2, <1>3, <1>4

\* A frame that went on from this instruction fits.
LEMMA GoesOn ==
  ASSUME FlowInv, Running, NEW g, IsFrame(g), g.fn = Frame.fn, g.ip \in Int,
         g.ip + 1 \in Successors(Code, Place), Len(g.locals) = Len(Frame.locals),
         \A s \in DOMAIN g.locals :
           s > SlotsAfter(Code, Place, SlotsHere) => g.locals[s] = Null
  PROVE  FrameFits(Bodies, g) /\ Depth(Bodies, g) = DepthHere - Taken + Left
  <1> DEFINE q == g.ip + 1
             fl == FlowHere
  <1>1. /\ Bodies[g.fn].fn = FnOf(Frame.fn) /\ Bodies[g.fn].flow = fl
        /\ g.fn \in DOMAIN Bodies /\ DepthHere = fl.depth[Place]
        /\ SlotsHere = fl.slots[Place] /\ DepthHere \in Nat /\ Len(Code) \in Nat
        /\ Len(g.locals) = FnOf(Frame.fn).localCount
    BY Instruction, FrameHere DEF FrameFits
  <1>2. /\ q \in DOMAIN fl.depth /\ fl.depth[q] = DepthHere - Taken + Left
        /\ fl.slots[q] >= SlotsAfter(Code, Place, SlotsHere)
    <2>1. Accepted(FnOf(Frame.fn), Arities, fl, Place)
      BY Instruction
    <2>2. /\ q \in DOMAIN fl.depth
          /\ fl.depth[q] = (fl.depth[Place] - Taken) + Left
          /\ fl.slots[q] >= SlotsAfter(Code, Place, fl.slots[Place])
      BY <2>1 DEF Accepted, Taken, Left, Code
    <2>3. QED
      BY <1>1, <2>2
  <1>3. fl.slots[q] \in Nat
    BY <1>2, Instruction, FrameHere DEF Verified, FlowHere
  <1>4. Depth(Bodies, g) = DepthHere - Taken + Left /\ Slots(Bodies, g) = fl.slots[q]
    BY <1>1, <1>2 DEF Depth, Slots
  <1>5. Depth(Bodies, g) \in Nat
    <2>1. DepthHere \in Nat /\ Taken \in Nat /\ Taken <= DepthHere /\ Left \in 0 .. 2
      BY <1>1, Instruction, LeavesOf DEF Left
    <2>2. QED
      BY <1>4, <2>1
  <1>6. g.ip \in 0 .. Len(Code)
    BY <1>1, NextPlace
  <1>7. \A s \in DOMAIN g.locals : s > Slots(Bodies, g) => g.locals[s] = Null
    <2>1. IsSeq(g.locals) /\ DOMAIN g.locals = 1 .. Len(g.locals)
      BY SeqLength DEF IsFrame
    <2>2. Len(g.locals) \in Nat
      BY <2>1, SeqLength
    <2>3. SlotsAfter(Code, Place, SlotsHere) \in Nat
      BY SlotsAfterNat
    <2>4. QED
      BY <1>2, <1>3, <1>4, <2>1, <2>2, <2>3
  <1>8. QED
    BY <1>1, <1>2, <1>4, <1>5, <1>6, <1>7 DEF FrameFits, Code

-----------------------------------------------------------------------------
(* Kinds of steps                                                           *)

LEMMA SameInterval ==
  ASSUME NEW m \in Nat, NEW n \in Nat, 1 .. m = 1 .. n
  PROVE  m = n
  <1>1. m \in 1 .. m => m \in 1 .. n
    OBVIOUS
  <1>2. n \in 1 .. n => n \in 1 .. m
    OBVIOUS
  <1>3. QED
    BY <1>1, <1>2

\* Exchanging what was appended.
LEMMA AppendPut ==
  ASSUME NEW s, IsSeq(s), NEW v, NEW w
  PROVE  [Append(s, v) EXCEPT ![Len(s) + 1] = w] = Append(s, w)
  <1> DEFINE a == Append(s, v)
             b == Append(s, w)
             c == [a EXCEPT ![Len(s) + 1] = w]
  <1>1. Len(s) \in Nat
    BY SeqLength
  <1>2. /\ IsSeq(a) /\ DOMAIN a = 1 .. Len(s) + 1
        /\ \A i \in 1 .. Len(s) : a[i] = s[i]
    BY AppendSeq
  <1>3. /\ IsSeq(b) /\ DOMAIN b = 1 .. Len(s) + 1
        /\ \A i \in 1 .. Len(s) : b[i] = s[i]
        /\ b[Len(s) + 1] = w
    BY AppendSeq
  <1> HIDE DEF a, b
  <1>4. /\ DOMAIN c = DOMAIN a
        /\ \A i \in DOMAIN a : c[i] = IF i = Len(s) + 1 THEN w ELSE a[i]
    OBVIOUS
  <1>5. c = [i \in 1 .. Len(s) + 1 |-> c[i]] /\ b = [i \in 1 .. Len(s) + 1 |-> b[i]]
    <2>1. b \in [1 .. Len(b) -> {b[i] : i \in DOMAIN b}]
      BY <1>3, SeqDef DEF IsSeq
    <2>2. QED
      BY <1>2, <1>3, <1>4, <2>1
  <1> HIDE DEF c
  <1>6. \A i \in 1 .. Len(s) + 1 : c[i] = b[i]
    BY <1>1, <1>2, <1>3, <1>4
  <1>7. c = b
    BY <1>5, <1>6
  <1>8. QED
    BY <1>7 DEF a, b, c

LEMMA StackPut ==
  ASSUME FlowInv, NEW k \in 0 .. Len(stack), NEW s, IsSeq(s)
  PROVE  IsSeq(Replaced(k, s)) /\ Len(Replaced(k, s)) = Len(stack) - k + Len(s)
  <1>1. IsSeq(stack) /\ Len(stack) \in Nat /\ Len(stack) - k \in 0 .. Len(stack)
    BY SeqLength DEF FlowInv
  <1>2. /\ IsSeq(SubSeq(stack, 1, Len(stack) - k))
        /\ Len(SubSeq(stack, 1, Len(stack) - k)) = Len(stack) - k
    BY <1>1, FrontSeq
  <1>3. QED
    BY <1>2, JoinSeq DEF Replaced

\* The frames after a step balance what is on the stack then.
LEMMA StepFits ==
  ASSUME FlowInv, prog' = prog, IsSeq(stack'),
         FramesFit(Bodies, frames'), Balanced(Bodies, frames', Len(stack'))
  PROVE  FlowInv'
  <1>1. Bodies' = Bodies /\ Arities' = Arities
    BY SameProgram
  <1>2. FunctionsFormed(prog') /\ Accepts(Bodies', Arities')
    BY <1>1 DEF FlowInv
  <1>3. FramesFit(Bodies', frames') /\ Balanced(Bodies', frames', Len(stack'))
    BY <1>1
  <1>4. QED
    BY <1>2, <1>3 DEF FlowInv

\* The frame goes on, the stack does as the flow says.
LEMMA StepOn ==
  ASSUME FlowInv, Running, prog' = prog,
         IsSeq(stack'), Len(stack') = Len(stack) - Taken + Left,
         NEW g, frames' = [frames EXCEPT ![Len(frames)] = g],
         IsFrame(g), g.fn = Frame.fn, g.ip \in Int,
         g.ip + 1 \in Successors(Code, Place), Len(g.locals) = Len(Frame.locals),
         \A s \in DOMAIN g.locals :
           s > SlotsAfter(Code, Place, SlotsHere) => g.locals[s] = Null
  PROVE  FlowInv'
  <1>1. FrameFits(Bodies, g) /\ Depth(Bodies, g) = DepthHere - Taken + Left
    BY GoesOn
  <1>2. /\ FramesFit(Bodies, frames) /\ frames # <<>>
        /\ Balanced(Bodies, frames, Len(stack))
    BY Instruction DEF FlowInv
  <1>3. /\ FramesFit(Bodies, frames')
        /\ Balanced(Bodies, frames', Len(stack) - DepthHere + Depth(Bodies, g))
    BY <1>1, <1>2, TopGoesOn DEF DepthHere, Frame
  <1>4. Len(stack) - DepthHere + Depth(Bodies, g) = Len(stack')
    <2>1. Len(stack) \in Nat /\ DepthHere \in Nat /\ Taken \in Nat /\ Left \in 0 .. 2
      BY <1>2, OnStack, FrameHere, Instruction, LeavesOf DEF Left
    <2>2. QED
      BY <1>1, <2>1
  <1>5. QED
    BY <1>3, <1>4, StepFits

\* The frame only reads the instruction.
LEMMA ReadsOn ==
  ASSUME FlowInv, Running, NEW e \in Int,
         e + 1 \in Successors(Code, Place),
         Code[Place] \notin {"OP_STORE_VAR", "OP_POPN"}
  PROVE  LET g == [Frame EXCEPT !.ip = e]
         IN  /\ [frames EXCEPT ![Len(frames)].ip = e] = [frames EXCEPT ![Len(frames)] = g]
             /\ IsFrame(g) /\ g.fn = Frame.fn /\ g.ip = e
             /\ Len(g.locals) = Len(Frame.locals)
             /\ \A s \in DOMAIN g.locals :
                  s > SlotsAfter(Code, Place, SlotsHere) => g.locals[s] = Null
  <1> DEFINE g == [Frame EXCEPT !.ip = e]
  <1>1. IsFrame(Frame) /\ FrameFits(Bodies, Frame)
    BY Instruction, FrameHere
  <1>2. IsFrame(g) /\ g.fn = Frame.fn /\ g.locals = Frame.locals
    BY <1>1, PutIp
  <1>3. g.ip = e
    BY <1>1 DEF IsFrame
  <1>4. [frames EXCEPT ![Len(frames)].ip = e] = [frames EXCEPT ![Len(frames)] = g]
    BY DEF Frame
  <1> HIDE DEF g
  <1>5. SlotsAfter(Code, Place, SlotsHere) = SlotsHere
    BY SlotsAfterOf
  <1>6. \A s \in DOMAIN Frame.locals : s > SlotsHere => Frame.locals[s] = Null
    BY <1>1 DEF FrameFits, SlotsHere
  <1>7. QED
    BY <1>2, <1>3, <1>4, <1>5, <1>6 DEF g

\* The frame only reads on, or jumps.
LEMMA StepGoes ==
  ASSUME FlowInv, Running, prog' = prog,
         IsSeq(stack'), Len(stack') = Len(stack) - Taken + Left,
         NEW e \in Int, e + 1 \in Successors(Code, Place),
         Code[Place] \notin {"OP_STORE_VAR", "OP_POPN"},
         frames' = [frames EXCEPT ![Len(frames)].ip = e]
  PROVE  FlowInv'
  <1> DEFINE g == [Frame EXCEPT !.ip = e]
  <1>1. /\ [frames EXCEPT ![Len(frames)].ip = e] = [frames EXCEPT ![Len(frames)] = g]
        /\ IsFrame(g) /\ g.fn = Frame.fn /\ g.ip = e
        /\ Len(g.locals) = Len(Frame.locals)
        /\ \A s \in DOMAIN g.locals :
             s > SlotsAfter(Code, Place, SlotsHere) => g.locals[s] = Null
    BY ReadsOn
  <1> HIDE DEF g
  <1>2. QED
    BY <1>1, StepOn

\* The step reads n operands, and exchanges the top r values for s.
Exchanges(n, r, s) == prog' = prog /\ stack' = Replaced(r, s) /\ frames' = Read(n)

LEMMA StepReads ==
  ASSUME FlowInv, NEW op, NEW n, NEW k, NEW r, NEW l \in Int, Does(op, n, k, r, l), At(op, k),
         NEW s, IsSeq(s), Len(s) = l, Exchanges(n, r, s)
  PROVE  FlowInv'
  <1>1. Running /\ Code[Place] = op /\ r \in 0 .. Len(stack) /\ Len(stack) \in Nat
    <2>1. Len(stack) \in Nat
      BY SeqLength DEF FlowInv
    <2>2. QED
      BY <2>1 DEF At, Place, Does
  <1>2. Taken = k /\ Left = k - r + l /\ OperandCount(op) = n /\ k \in 0 .. 3 /\ r \in 0 .. k
    <2>1. k = 0 \/ k = 1 \/ k = 2 \/ k = 3
      BY DEF Does
    <2>2. Taken = k
      BY <1>1, <2>1, TakesOf DEF Does, Taken
    <2>3. QED
      BY <1>1, <2>2 DEF Does, Left
  <1>3. IsSeq(stack') /\ Len(stack') = Len(stack) - Taken + Left
    <2>1. IsSeq(stack') /\ Len(stack') = Len(stack) - r + l
      BY <1>1, StackPut DEF Exchanges
    <2>2. QED
      BY <1>1, <1>2, <2>1
  <1> DEFINE e == Frame.ip + 1 + n
  <1>4. e \in Int /\ e + 1 \in Successors(Code, Place)
    <2>1. Frame.ip \in Int /\ n \in Int
      BY <1>1, <1>2, Instruction, FrameHere DEF OperandCount
    <2>2. Successors(Code, Place) = {Place + 1 + n}
      BY <1>1, <1>2, SuccessorsOf DEF Does
    <2>3. Place + 1 + n = e + 1
      BY <2>1 DEF Place
    <2>4. QED
      BY <2>1, <2>2, <2>3
  <1>5. frames' = [frames EXCEPT ![Len(frames)].ip = e]
    BY DEF Exchanges, Read, Frame
  <1>6. Code[Place] \notin {"OP_STORE_VAR", "OP_POPN"}
    BY <1>1 DEF Does
  <1> HIDE DEF e
  <1>7. QED
    BY <1>1, <1>3, <1>4, <1>5, <1>6, StepGoes DEF Exchanges

LEMMA StepTakes ==
  ASSUME FlowInv, NEW op, NEW n, NEW k, NEW r, Does(op, n, k, r, 0), At(op, k),
         Exchanges(n, r, <<>>)
  PROVE  FlowInv'
  BY ShortSeq, StepReads

LEMMA StepLeaves ==
  ASSUME FlowInv, NEW op, NEW n, NEW k, NEW r, Does(op, n, k, r, 1), At(op, k),
         NEW v, Exchanges(n, r, <<v>>)
  PROVE  FlowInv'
  <1>1. IsSeq(<<v>>) /\ Len(<<v>>) = 1
    BY ShortSeq
  <1>2. QED
    BY <1>1, StepReads

-----------------------------------------------------------------------------
(* Instructions that only change the stack and read on                      *)

LEMMA ValueSteps ==
  ASSUME FlowInv,
         \/ Pop \/ Dup \/ Constant \/ LoadVar \/ Arithmetic \/ Comparison \/ Equality
         \/ Not \/ Negate \/ PrintTop \/ DefineGlobal \/ GetGlobal \/ SetGlobal
  PROVE  FlowInv'
  <1>1. CASE Pop
    <2>1. At("OP_POP", 1) /\ Exchanges(0, 1, <<>>)
      BY <1>1 DEF Pop, Stacked, Exchanges
    <2>2. Does("OP_POP", 0, 1, 1, 0)
      BY PlainEffects
    <2>3. QED
      BY <2>1, <2>2, StepTakes
  <1>2. CASE Dup
    <2>1. At("OP_DUP", 1) /\ \E v : Exchanges(0, 0, <<v>>)
      BY <1>2 DEF Dup, Stacked, Exchanges
    <2>2. Does("OP_DUP", 0, 1, 0, 1)
      BY PlainEffects
    <2>3. QED
      BY <2>1, <2>2, StepLeaves
  <1>3. CASE Constant
    <2>1. At("OP_CONSTANT", 0) /\ \E v : Exchanges(1, 0, <<v>>)
      BY <1>3 DEF Constant, Stacked, Exchanges
    <2>2. Does("OP_CONSTANT", 1, 0, 0, 1)
      BY PlainEffects
    <2>3. QED
      BY <2>1, <2>2, StepLeaves
  <1>4. CASE LoadVar
    <2>1. At("OP_LOAD_VAR", 0) /\ \E v : Exchanges(1, 0, <<v>>)
      BY <1>4 DEF LoadVar, Stacked, Exchanges
    <2>2. Does("OP_LOAD_VAR", 1, 0, 0, 1)
      BY PlainEffects
    <2>3. QED
      BY <2>1, <2>2, StepLeaves
  <1>5. CASE Arithmetic
    <2>1. PICK op \in {"OP_ADD", "OP_SUB", "OP_MUL", "OP_DIV"} : At(op, 2) /\ \E v : Exchanges(0, 2, <<v>>)
      BY <1>5 DEF Arithmetic, Stacked, Exchanges
    <2>2. Does(op, 0, 2, 2, 1)
      BY PlainEffects
    <2>3. QED
      BY <2>1, <2>2, StepLeaves
  <1>6. CASE Comparison
    <2>1. PICK op \in {"OP_LESS", "OP_GREATER"} : At(op, 2) /\ \E v : Exchanges(0, 2, <<v>>)
      BY <1>6 DEF Comparison, Stacked, Exchanges
    <2>2. Does(op, 0, 2, 2, 1)
      BY PlainEffects
    <2>3. QED
      BY <2>1, <2>2, StepLeaves
  <1>7. CASE Equality
    <2>1. PICK op \in {"OP_EQ", "OP_NOT_EQUAL"} : At(op, 2) /\ \E v : Exchanges(0, 2, <<v>>)
      BY <1>7 DEF Equality, Stacked, Exchanges
    <2>2. Does(op, 0, 2, 2, 1)
      BY PlainEffects
    <2>3. QED
      BY <2>1, <2>2, StepLeaves
  <1>8. CASE Not
    <2>1. At("OP_NOT", 1) /\ \E v : Exchanges(0, 1, <<v>>)
      BY <1>8 DEF Not, Stacked, Exchanges
    <2>2. Does("OP_NOT", 0, 1, 1, 1)
      BY PlainEffects
    <2>3. QED
      BY <2>1, <2>2, StepLeaves
  <1>9. CASE Negate
    <2>1. At("OP_NEGATE", 1) /\ \E v : Exchanges(0, 1, <<v>>)
      BY <1>9 DEF Negate, Stacked, Exchanges
    <2>2. Does("OP_NEGATE", 0, 1, 1, 1)
      BY PlainEffects
    <2>3. QED
      BY <2>1, <2>2, StepLeaves
  <1>10. CASE PrintTop
    <2>1. At("OP_PRINT", 1) /\ Exchanges(0, 1, <<>>)
      BY <1>10 DEF PrintTop, Exchanges
    <2>2. Does("OP_PRINT", 0, 1, 1, 0)
      BY PlainEffects
    <2>3. QED
      BY <2>1, <2>2, StepTakes
  <1>11. CASE DefineGlobal
    <2>1. At("OP_DEFINE_GLOBAL", 1) /\ Exchanges(1, 1, <<>>)
      BY <1>11 DEF DefineGlobal, Exchanges
    <2>2. Does("OP_DEFINE_GLOBAL", 1, 1, 1, 0)
      BY PlainEffects
    <2>3. QED
      BY <2>1, <2>2, StepTakes
  <1>12. CASE GetGlobal
    <2>1. At("OP_GET_GLOBAL", 0) /\ \E v : Exchanges(1, 0, <<v>>)
      BY <1>12 DEF GetGlobal, Stacked, Exchanges
    <2>2. Does("OP_GET_GLOBAL", 1, 0, 0, 1)
      BY PlainEffects
    <2>3. QED
      BY <2>1, <2>2, StepLeaves
  <1>13. CASE SetGlobal
    <2>1. At("OP_SET_GLOBAL", 1) /\ Exchanges(1, 1, <<>>)
      BY <1>13 DEF SetGlobal, Exchanges
    <2>2. Does("OP_SET_GLOBAL", 1, 1, 1, 0)
      BY PlainEffects
    <2>3. QED
      BY <2>1, <2>2, StepTakes
  <1>14. QED
    BY <1>1, <1>2, <1>3, <1>4, <1>5, <1>6, <1>7, <1>8, <1>9, <1>10, <1>11, <1>12,
       <1>13

LEMMA ObjectSteps ==
  ASSUME FlowInv,
         \/ ListNew \/ ListPush \/ ListLen \/ DictNew \/ DictHas
         \/ IndexGetList \/ IndexGetDict \/ IndexSetList \/ IndexSetDict
         \/ GetPropDict \/ GetPropField \/ GetPropMethod
         \/ SetPropDict \/ SetPropField \/ GetSuper
  PROVE  FlowInv'
  <1>1. CASE ListNew
    <2>1. At("OP_LIST_NEW", 0) /\ \E v : Exchanges(0, 0, <<v>>)
      BY <1>1 DEF ListNew, Allocates, Exchanges
    <2>2. Does("OP_LIST_NEW", 0, 0, 0, 1)
      BY ObjectEffects
    <2>3. QED
      BY <2>1, <2>2, StepLeaves
  <1>2. CASE ListPush
    <2>1. At("OP_LIST_PUSH", 2) /\ Exchanges(0, 1, <<>>)
      BY <1>2 DEF ListPush, Allocates, Exchanges
    <2>2. Does("OP_LIST_PUSH", 0, 2, 1, 0)
      BY ObjectEffects
    <2>3. QED
      BY <2>1, <2>2, StepTakes
  <1>3. CASE ListLen
    <2>1. At("OP_LIST_LEN", 1) /\ \E v : Exchanges(0, 1, <<v>>)
      BY <1>3 DEF ListLen, Stacked, Exchanges
    <2>2. Does("OP_LIST_LEN", 0, 1, 1, 1)
      BY ObjectEffects
    <2>3. QED
      BY <2>1, <2>2, StepLeaves
  <1>4. CASE DictNew
    <2>1. At("OP_DICT_NEW", 0) /\ \E v : Exchanges(0, 0, <<v>>)
      BY <1>4 DEF DictNew, Allocates, Exchanges
    <2>2. Does("OP_DICT_NEW", 0, 0, 0, 1)
      BY ObjectEffects
    <2>3. QED
      BY <2>1, <2>2, StepLeaves
  <1>5. CASE DictHas
    <2>1. At("OP_DICT_HAS", 2) /\ \E v : Exchanges(0, 2, <<v>>)
      BY <1>5 DEF DictHas, Stacked, Exchanges
    <2>2. Does("OP_DICT_HAS", 0, 2, 2, 1)
      BY ObjectEffects
    <2>3. QED
      BY <2>1, <2>2, StepLeaves
  <1>6. CASE IndexGetList
    <2>1. At("OP_INDEX_GET", 2) /\ \E v : Exchanges(0, 2, <<v>>)
      BY <1>6 DEF IndexGetList, Stacked, Exchanges
    <2>2. Does("OP_INDEX_GET", 0, 2, 2, 1)
      BY ObjectEffects
    <2>3. QED
      BY <2>1, <2>2, StepLeaves
  <1>7. CASE IndexGetDict
    <2>1. At("OP_INDEX_GET", 2) /\ \E v : Exchanges(0, 2, <<v>>)
      BY <1>7 DEF IndexGetDict, Stacked, Exchanges
    <2>2. Does("OP_INDEX_GET", 0, 2, 2, 1)
      BY ObjectEffects
    <2>3. QED
      BY <2>1, <2>2, StepLeaves
  <1>8. CASE IndexSetList
    <2>1. At("OP_INDEX_SET", 3) /\ Exchanges(0, 3, <<>>)
      BY <1>8 DEF IndexSetList, Stores, Exchanges
    <2>2. Does("OP_INDEX_SET", 0, 3, 3, 0)
      BY ObjectEffects
    <2>3. QED
      BY <2>1, <2>2, StepTakes
  <1>9. CASE IndexSetDict
    <2>1. At("OP_INDEX_SET", 3) /\ Exchanges(0, 3, <<>>)
      BY <1>9 DEF IndexSetDict, Allocates, Exchanges
    <2>2. Does("OP_INDEX_SET", 0, 3, 3, 0)
      BY ObjectEffects
    <2>3. QED
      BY <2>1, <2>2, StepTakes
  <1>10. CASE GetPropDict
    <2>1. At("OP_GET_PROP", 1) /\ \E v : Exchanges(1, 1, <<v>>)
      BY <1>10 DEF GetPropDict, Stacked, Exchanges
    <2>2. Does("OP_GET_PROP", 1, 1, 1, 1)
      BY ObjectEffects
    <2>3. QED
      BY <2>1, <2>2, StepLeaves
  <1>11. CASE GetPropField
    <2>1. At("OP_GET_PROP", 1) /\ \E v : Exchanges(1, 1, <<v>>)
      BY <1>11 DEF GetPropField, Stacked, Exchanges
    <2>2. Does("OP_GET_PROP", 1, 1, 1, 1)
      BY ObjectEffects
    <2>3. QED
      BY <2>1, <2>2, StepLeaves
  <1>12. CASE GetPropMethod
    <2>1. At("OP_GET_PROP", 1) /\ \E v : Exchanges(1, 1, <<v>>)
      BY <1>12 DEF GetPropMethod, Allocates, Exchanges
    <2>2. Does("OP_GET_PROP", 1, 1, 1, 1)
      BY ObjectEffects
    <2>3. QED
      BY <2>1, <2>2, StepLeaves
  <1>13. CASE SetPropDict
    <2>1. At("OP_SET_PROP", 2) /\ Exchanges(1, 2, <<>>)
      BY <1>13 DEF SetPropDict, Allocates, Exchanges
    <2>2. Does("OP_SET_PROP", 1, 2, 2, 0)
      BY ObjectEffects
    <2>3. QED
      BY <2>1, <2>2, StepTakes
  <1>14. CASE SetPropField
    <2>1. At("OP_SET_PROP", 2) /\ Exchanges(1, 2, <<>>)
      BY <1>14 DEF SetPropField, Stores, Exchanges
    <2>2. Does("OP_SET_PROP", 1, 2, 2, 0)
      BY ObjectEffects
    <2>3. QED
      BY <2>1, <2>2, StepTakes
  <1>15. CASE GetSuper
    <2>1. At("OP_GET_SUPER", 1) /\ \E v : Exchanges(2, 1, <<v>>)
      BY <1>15 DEF GetSuper, Allocates, Exchanges
    <2>2. Does("OP_GET_SUPER", 2, 1, 1, 1)
      BY ObjectEffects
    <2>3. QED
      BY <2>1, <2>2, StepLeaves
  <1>16. QED
    BY <1>1, <1>2, <1>3, <1>4, <1>5, <1>6, <1>7, <1>8, <1>9, <1>10, <1>11, <1>12,
       <1>13, <1>14, <1>15

-----------------------------------------------------------------------------
(* Instructions that change the frame otherwise                             *)

LEMMA JumpSteps ==
  ASSUME FlowInv, Jump \/ JumpIfFalse PROVE FlowInv'
  <1>1. CASE Jump
    <2>1. /\ Running /\ Code[Place] = "OP_JUMP" /\ prog' = prog /\ stack' = stack
          /\ frames' = [frames EXCEPT ![Len(frames)].ip = Opnd(1)]
      BY <1>1 DEF Jump, At, Place
    <2>2. /\ Opnd(1) \in Int /\ Opnd(1) + 1 \in Successors(Code, Place)
          /\ Taken = 0 /\ Left = 0
      <3>1. Opnd(1) = Code[Place + 1]
        BY DEF Opnd, Place
      <3>2. Code[Place + 1] \in 0 .. Len(Code)
        BY <2>1, Instruction DEF WholeInstruction, IndicesExist, JumpOps, Code
      <3>3. Len(Code) \in Nat
        BY <2>1, Instruction, FrameHere
      <3>4. QED
        BY <2>1, <3>1, <3>2, <3>3, SuccessorsOf, TakesOf, JumpEffects DEF Taken, Left
    <2>3. IsSeq(stack') /\ Len(stack') = Len(stack) - Taken + Left
      BY <2>1, <2>2, SeqLength DEF FlowInv
    <2>4. QED
      BY <2>1, <2>2, <2>3, StepGoes
  <1>2. CASE JumpIfFalse
    <2>1. /\ Running /\ Code[Place] = "OP_JUMP_IF_FALSE" /\ 1 \in 0 .. Len(stack)
          /\ prog' = prog /\ stack' = Replaced(1, <<>>)
          /\ \/ frames' = Read(1)
             \/ frames' = [frames EXCEPT ![Len(frames)].ip = Opnd(1)]
      <3>1. Len(stack) \in Nat
        BY SeqLength DEF FlowInv
      <3>2. QED
        BY <1>2, <3>1 DEF JumpIfFalse, At, Place
    <2>2. PICK e : /\ e = Frame.ip + 1 + 1 \/ e = Opnd(1)
                   /\ frames' = [frames EXCEPT ![Len(frames)].ip = e]
      BY <2>1 DEF Read, Frame
    <2>3. /\ e \in Int /\ e + 1 \in Successors(Code, Place)
          /\ Taken = 1 /\ Left = 0
      <3>1. Opnd(1) = Code[Place + 1]
        BY DEF Opnd, Place
      <3>2. Code[Place + 1] \in 0 .. Len(Code)
        BY <2>1, Instruction DEF WholeInstruction, IndicesExist, JumpOps, Code
      <3>3. Len(Code) \in Nat /\ Frame.ip \in Int /\ Place + 2 = Frame.ip + 1 + 1 + 1
        BY <2>1, Instruction, FrameHere DEF Place
      <3>4. Successors(Code, Place) = {Place + 2, Code[Place + 1] + 1}
        BY <2>1, SuccessorsOf
      <3>5. QED
        BY <2>1, <2>2, <3>1, <3>2, <3>3, <3>4, TakesOf, JumpEffects DEF Taken, Left
    <2>4. IsSeq(stack') /\ Len(stack') = Len(stack) - Taken + Left
      BY <2>1, <2>3, StackPut, ShortSeq
    <2>5. QED
      BY <2>1, <2>2, <2>3, <2>4, JumpEffects, StepGoes
  <1>3. QED
    BY <1>1, <1>2

\* The frame goes on with other locals.
LEMMA StepLocals ==
  ASSUME FlowInv, Running, Code[Place] \in {"OP_STORE_VAR", "OP_POPN"}, prog' = prog,
         IsSeq(stack'), Len(stack') = Len(stack) - Taken + Left,
         NEW s, IsSeq(s), Len(s) = Len(Frame.locals),
         \A i \in DOMAIN s : i > SlotsAfter(Code, Place, SlotsHere) => s[i] = Null,
         NEW n, n = OperandCount(Code[Place]),
         frames' = [Read(n) EXCEPT ![Len(frames)].locals = s]
  PROVE  FlowInv'
  <1> DEFINE e == Frame.ip + 1 + n
             f == [Frame EXCEPT !.ip = e]
             g == [f EXCEPT !.locals = s]
  <1>1. Len(frames) \in DOMAIN frames /\ IsFrame(Frame) /\ Frame.ip \in Int
    BY Instruction, FrameHere
  <1>2. Read(n) = [frames EXCEPT ![Len(frames)] = f]
    BY DEF Read, Frame
  <1>3. n \in Int /\ e \in Int /\ e + 1 \in Successors(Code, Place)
    <2>1. n \in Int
      BY DEF OperandCount
    <2>2. Successors(Code, Place) = {Place + 1 + n}
      BY SuccessorsOf DEF JumpOps
    <2>3. QED
      BY <1>1, <2>1, <2>2 DEF Place
  <1> HIDE DEF e
  <1>4. IsFrame(f) /\ f.fn = Frame.fn /\ f.ip = e
    BY <1>1, PutIp DEF IsFrame
  <1> HIDE DEF f
  <1>5. IsFrame(g) /\ g.fn = Frame.fn /\ g.ip = e /\ g.locals = s
    BY <1>4, PutLocals DEF IsFrame
  <1>6. frames' = [frames EXCEPT ![Len(frames)] = g]
    <2>1. Read(n)[Len(frames)] = f /\ DOMAIN Read(n) = DOMAIN frames
      BY <1>1, <1>2
    <2>2. frames' = [Read(n) EXCEPT ![Len(frames)] = g]
      BY <2>1
    <2> HIDE DEF g
    <2>3. QED
      BY <1>2, <2>2
  <1> HIDE DEF g
  <1>7. QED
    BY <1>3, <1>5, <1>6, StepOn

\* What the slots were before.
LEMMA LocalsHere ==
  ASSUME FlowInv, Running
  PROVE  /\ IsSeq(Frame.locals) /\ Len(Frame.locals) \in Nat
         /\ DOMAIN Frame.locals = 1 .. Len(Frame.locals)
         /\ \A i \in DOMAIN Frame.locals : i > SlotsHere => Frame.locals[i] = Null
         /\ SlotsHere \in Nat
  <1>1. IsFrame(Frame) /\ FrameFits(Bodies, Frame) /\ SlotsHere \in Nat
    BY Instruction, FrameHere
  <1>2. QED
    BY <1>1, SeqLength DEF IsFrame, FrameFits, SlotsHere

LEMMA ReadSeq ==
  ASSUME FlowInv, Running
  PROVE  IsSeq(Read(1))
  <1> DEFINE g == [Frame EXCEPT !.ip = Frame.ip + 1 + 1]
  <1>1. Read(1) = [frames EXCEPT ![Len(frames)] = g]
    BY DEF Read, Frame
  <1>2. IsSeq(frames)
    BY DEF FlowInv, FramesFit, AreFrames
  <1> HIDE DEF g
  <1>3. QED
    BY <1>1, <1>2, UpdateSeq

\* The top frame after its n operands are read.
LEMMA ReadTop ==
  ASSUME FlowInv, Running, NEW n
  PROVE  Read(n)[Len(frames)].locals = Frame.locals
  <1>1. Len(frames) \in DOMAIN frames /\ IsFrame(Frame)
    BY Instruction, FrameHere
  <1> DEFINE e == Frame.ip + 1 + n
  <1>2. Read(n)[Len(frames)] = [Frame EXCEPT !.ip = e]
    BY <1>1 DEF Read, Frame
  <1> HIDE DEF e
  <1>3. QED
    BY <1>1, <1>2, PutIp

LEMMA StoreVarSteps ==
  ASSUME FlowInv, StoreVar PROVE FlowInv'
  <1> DEFINE k == Opnd(1)
             s == [Frame.locals EXCEPT ![k + 1] = Top(1)]
             l == SlotsAfter(Code, Place, SlotsHere)
  <1>1. /\ Running /\ Code[Place] = "OP_STORE_VAR" /\ 1 \in 0 .. Len(stack)
        /\ prog' = prog /\ stack' = Replaced(1, <<>>)
        /\ frames' = [Read(1) EXCEPT ![Len(frames)].locals[Opnd(1) + 1] = Top(1)]
    <2>1. Len(stack) \in Nat
      BY SeqLength DEF FlowInv
    <2>2. QED
      BY <2>1 DEF StoreVar, At, Place
  <1>2. k = Code[Place + 1] /\ k \in Nat
    <2>1. k = Code[Place + 1]
      BY DEF Opnd, Place
    <2>2. QED
      BY <1>1, <2>1, Instruction DEF WholeInstruction, IndicesExist, SlotOps, Code
  <1>3. IsSeq(s) /\ Len(s) = Len(Frame.locals) /\ DOMAIN s = 1 .. Len(Frame.locals)
    BY <1>1, LocalsHere, UpdateSeq
  <1>4. l = IF k < SlotsHere THEN SlotsHere ELSE k + 1
    BY <1>1, <1>2, SlotsAfterOf
  <1> HIDE DEF l
  <1>5. ASSUME NEW i \in DOMAIN s, i > l
        PROVE  s[i] = Null
    <2>1. i \in DOMAIN Frame.locals /\ i \in Nat /\ SlotsHere \in Nat
      BY <1>1, <1>3, LocalsHere
    <2>2. i > SlotsHere /\ i # k + 1
      BY <1>2, <1>4, <1>5, <2>1
    <2>3. s[i] = Frame.locals[i]
      BY <2>1, <2>2
    <2>4. QED
      BY <1>1, <2>1, <2>2, <2>3, LocalsHere
  <1>6. frames' = [Read(1) EXCEPT ![Len(frames)].locals = s]
    <2>1. frames' = [Read(1) EXCEPT ![Len(frames)].locals =
                       [Read(1)[Len(frames)].locals EXCEPT ![k + 1] = Top(1)]]
      BY <1>1
    <2>2. QED
      BY <1>1, <2>1, ReadTop
  <1>7. IsSeq(stack') /\ Len(stack') = Len(stack) - Taken + Left
    <2>1. Taken = 1 /\ Left = 0
      BY <1>1, TakesOf, JumpEffects DEF Taken, Left
    <2>2. QED
      BY <1>1, <2>1, StackPut, ShortSeq
  <1> HIDE DEF s
  <1>8. QED
    BY <1>1, <1>3, <1>5, <1>6, <1>7, JumpEffects, LocalsHere, StepLocals DEF l

LEMMA PopNSteps ==
  ASSUME FlowInv, PopN PROVE FlowInv'
  <1> DEFINE k == Opnd(1)
             n == Opnd(2)
             slots == k + 1 .. k + n
             old == Frame.locals
             s == [i \in DOMAIN old |-> IF i \in slots THEN Null ELSE old[i]]
             l == SlotsAfter(Code, Place, SlotsHere)
  <1>1. /\ Running /\ Code[Place] = "OP_POPN" /\ prog' = prog /\ stack' = stack
    BY DEF PopN, At, Place
  <1>2. k = Code[Place + 1] /\ n = Code[Place + 2] /\ k \in Nat /\ n \in Nat
    <2>1. k = Code[Place + 1]
      BY DEF Opnd, Place
    <2>2. n = Code[Place + 2]
      <3>1. Frame.ip \in Int
        BY <1>1, Instruction, FrameHere
      <3>2. Frame.ip + 1 + 2 = Place + 2
        BY <3>1 DEF Place
      <3>3. QED
        BY <3>2 DEF Opnd
    <2>3. QED
      BY <1>1, <2>1, <2>2, Instruction DEF WholeInstruction, IndicesExist, Code
  <1>3. /\ IsSeq(old) /\ Len(old) \in Nat /\ DOMAIN old = 1 .. Len(old)
        /\ \A i \in DOMAIN old : i > SlotsHere => old[i] = Null
        /\ SlotsHere \in Nat
    BY <1>1, LocalsHere
  <1>4. l = IF k < SlotsHere /\ SlotsHere <= k + n THEN k ELSE SlotsHere
    BY <1>1, <1>2, SlotsAfterOf
  <1>5. frames' = [Read(2) EXCEPT ![Len(frames)].locals = s]
    <2> DEFINE cur == Read(2)[Len(frames)].locals
    <2>1. frames' = [Read(2) EXCEPT ![Len(frames)].locals =
                       [i \in DOMAIN cur |-> IF i \in slots THEN Null ELSE cur[i]]]
      BY DEF PopN
    <2>2. cur = old
      BY <1>1, ReadTop
    <2>3. QED
      BY <2>1, <2>2
  <1> HIDE DEF l, k, n, old
  <1>6. IsSeq(s) /\ Len(s) = Len(old) /\ DOMAIN s = DOMAIN old
    <2> DEFINE T == {old[i] : i \in DOMAIN old} \cup {Null}
    <2>1. s \in [1 .. Len(old) -> T]
      BY <1>3
    <2>2. DOMAIN s = DOMAIN old
      OBVIOUS
    <2> HIDE DEF s, T
    <2>3. QED
      BY <1>3, <2>1, <2>2, FunctionSeq
  <1>7. ASSUME NEW i \in DOMAIN s, i > l
        PROVE  s[i] = Null
    <2>1. i \in DOMAIN old /\ s[i] = IF i \in slots THEN Null ELSE old[i]
      OBVIOUS
    <2> HIDE DEF s
    <2>2. CASE i > SlotsHere
      BY <1>3, <2>1, <2>2
    <2>3. CASE ~(i > SlotsHere)
      <3>1. i \in Nat
        BY <1>3, <2>1
      <3>2. i \in slots
        BY <1>2, <1>3, <1>4, <1>7, <2>3, <3>1
      <3>3. QED
        BY <2>1, <3>2
    <2>4. QED
      BY <2>2, <2>3
  <1> HIDE DEF s
  <1>8. IsSeq(stack') /\ Len(stack') = Len(stack) - Taken + Left
    <2>1. Taken = 0 /\ Left = 0
      BY <1>1, TakesOf, JumpEffects DEF Taken, Left
    <2>2. QED
      BY <1>1, <2>1, SeqLength DEF FlowInv
  <1>9. QED
    BY <1>1, <1>5, <1>6, <1>7, <1>8, JumpEffects, StepLocals DEF l, old

-----------------------------------------------------------------------------
(* Calls                                                                    *)

LEMMA CallTakes ==
  ASSUME FlowInv, NEW c \in Calls
  PROVE  /\ Running /\ Code[Place] \in CallOps /\ IsSeq(c.argv)
         /\ IsSeq(c.rest) /\ Len(c.rest) = Len(stack) - Taken /\ Len(stack) \in Nat
  <1>1. IsSeq(stack) /\ Len(stack) \in Nat
    BY SeqLength DEF FlowInv
  <1>2. Opnd(1) = Code[Place + 1]
    BY DEF Opnd, Place
  <1>3. ASSUME NEW n \in 0 .. Len(stack)
        PROVE  /\ IsSeq(Args(n)) /\ IsSeq(Replaced(n, <<>>))
               /\ Len(Replaced(n, <<>>)) = Len(stack) - n
    <2>1. IsSeq(Args(n))
      BY <1>1, BackSeq DEF Args
    <2>2. QED
      BY <1>1, <2>1, StackPut, ShortSeq
  <1>4. CASE /\ At("OP_CALL", 0) /\ Opnd(1) \in Callables /\ Len(stack) >= Arity(Opnd(1))
             /\ c = Call(Opnd(1), Args(Arity(Opnd(1))), Arity(Opnd(1)))
    <2> DEFINE n == Arity(Opnd(1))
    <2>1. Running /\ Code[Place] = "OP_CALL"
      BY <1>4 DEF At, Place
    <2>2. Opnd(1) \in DOMAIN Arities /\ Arities[Opnd(1)] = n
      BY <1>4 DEF Arities
    <2>3. n \in 0 .. Len(stack)
      BY <1>1, <1>4, <2>2, AritiesNat DEF FlowInv
    <2>4. Taken = n
      BY <1>2, <2>1, <2>2, TakesOf DEF Taken
    <2>5. c.argv = Args(n) /\ c.rest = Replaced(n, <<>>)
      BY <1>4, CallIs
    <2> HIDE DEF n
    <2>6. QED
      BY <1>1, <1>3, <2>1, <2>3, <2>4, <2>5 DEF CallOps
  <1>5. CASE AtCallV /\ IsSeq(c.argv) /\ c.rest = Replaced(Opnd(1) + 1, <<>>)
    <2>1. Running /\ Code[Place] = "OP_CALLV" /\ Opnd(1) + 1 \in 0 .. Len(stack)
      BY <1>1, <1>5 DEF AtCallV, At, Place
    <2>2. Taken = Opnd(1) + 1
      BY <1>2, <2>1, TakesOf DEF Taken
    <2>3. QED
      BY <1>1, <1>3, <1>5, <2>1, <2>2 DEF CallOps
  <1>6. CASE AtCallV /\ c = Call(Callee[2], Args(Opnd(1)), Opnd(1) + 1)
    <2>1. Opnd(1) \in 0 .. Len(stack)
      BY <1>1, <1>6 DEF AtCallV
    <2>2. QED
      BY <1>3, <1>5, <1>6, <2>1, CallIs
  <1>7. CASE /\ AtCallV
             /\ c = Call(The(Callee).method, <<The(Callee).receiver>> \o Args(Opnd(1)), Opnd(1) + 1)
    <2> DEFINE args == Args(Opnd(1))
               self == <<The(Callee).receiver>>
               argv == self \o args
    <2>1. Opnd(1) \in 0 .. Len(stack)
      BY <1>1, <1>7 DEF AtCallV
    <2>2. IsSeq(args) /\ IsSeq(self)
      BY <1>3, <2>1, ShortSeq
    <2> HIDE DEF args, self
    <2>3. IsSeq(argv)
      BY <2>2, JoinSeq
    <2>4. c = Call(The(Callee).method, argv, Opnd(1) + 1)
      BY <1>7 DEF args, self
    <2> HIDE DEF argv
    <2>5. QED
      BY <1>5, <1>7, <2>3, <2>4, CallIs
  <1>8. QED
    BY <1>4, <1>6, <1>7 DEF Calls

\* After a call that leaves its result at once, the caller reads on.
LEMMA StepResults ==
  ASSUME FlowInv, Running, Code[Place] \in CallOps, prog' = prog,
         IsSeq(stack'), Len(stack') = Len(stack) - Taken + 1, frames' = Read(1)
  PROVE  FlowInv'
  <1> DEFINE e == Frame.ip + 1 + 1
  <1>1. Left = 1 /\ OperandCount(Code[Place]) = 1
    BY JumpEffects DEF Left, CallOps
  <1>2. e \in Int /\ e + 1 \in Successors(Code, Place)
    <2>1. Frame.ip \in Int
      BY Instruction, FrameHere
    <2>2. Successors(Code, Place) = {Place + 1 + 1}
      BY <1>1, SuccessorsOf DEF CallOps, JumpOps
    <2>3. QED
      BY <2>1, <2>2 DEF Place
  <1>3. frames' = [frames EXCEPT ![Len(frames)].ip = e]
    BY DEF Read, Frame
  <1>4. Code[Place] \notin {"OP_STORE_VAR", "OP_POPN"}
    BY DEF CallOps
  <1> HIDE DEF e
  <1>5. QED
    BY <1>1, <1>2, <1>3, <1>4, StepGoes

LEMMA ResultSteps ==
  ASSUME FlowInv, NEW c \in Calls, prog' = prog, NEW v, stack' = Append(c.rest, v),
         frames' = Read(1)
  PROVE  FlowInv'
  <1>1. /\ Running /\ Code[Place] \in CallOps
        /\ IsSeq(c.rest) /\ Len(c.rest) = Len(stack) - Taken
    BY CallTakes
  <1>2. IsSeq(stack') /\ Len(stack') = Len(stack) - Taken + 1
    BY <1>1, AppendSeq
  <1>3. QED
    BY <1>1, <1>2, StepResults

LEMMA NativeSteps ==
  ASSUME FlowInv, Native PROVE FlowInv'
  <1>1. ASSUME NEW c \in Calls, NEW ret, NEW k, NEW h, NativeReturns(c, ret, k, h)
        PROVE  FlowInv'
    <2>1. prog' = prog /\ stack' = Append(c.rest, ret) /\ frames' = Read(1)
      BY <1>1 DEF NativeReturns, Allocates
    <2>2. QED
      BY <2>1, ResultSteps
  <1>2. CASE NativeLen
    BY <1>1, <1>2 DEF NativeLen
  <1>3. CASE NativeStr
    BY <1>1, <1>3 DEF NativeStr
  <1>4. CASE NativeType
    BY <1>1, <1>4 DEF NativeType
  <1>5. CASE NativeAbs
    BY <1>1, <1>5 DEF NativeAbs
  <1>6. CASE NativeClock
    BY <1>1, <1>6 DEF NativeClock
  <1>7. CASE NativeEmit
    <2>1. PICK c \in Calls :
            prog' = prog /\ stack' = Append(c.rest, c.argv[1]) /\ frames' = Read(1)
      BY <1>7 DEF NativeEmit
    <2>2. QED
      BY <2>1, ResultSteps
  <1>8. CASE NativeGcCollect
    BY <1>1, <1>8 DEF NativeGcCollect
  <1>9. CASE NativeGcTouch
    BY <1>1, <1>9 DEF NativeGcTouch
  <1>10. CASE NativeMakeBigDict
    BY <1>1, <1>10 DEF NativeMakeBigDict
  <1>11. QED
    BY <1>2, <1>3, <1>4, <1>5, <1>6, <1>7, <1>8, <1>9, <1>10 DEF Native

\* OP_CALLV takes its arguments and its callee.
LEMMA CallVTakes ==
  ASSUME FlowInv, AtCallV
  PROVE  /\ Running /\ Code[Place] \in CallOps /\ Taken = Opnd(1) + 1
         /\ Opnd(1) \in 0 .. Len(stack) /\ Opnd(1) + 1 \in 0 .. Len(stack)
         /\ IsSeq(stack) /\ Len(stack) \in Nat
  <1>1. IsSeq(stack) /\ Len(stack) \in Nat
    BY SeqLength DEF FlowInv
  <1>2. Opnd(1) = Code[Place + 1]
    BY DEF Opnd, Place
  <1>3. Running /\ Code[Place] = "OP_CALLV" /\ Opnd(1) \in 0 .. Len(stack) - 1
    BY DEF AtCallV, At, Place
  <1>4. QED
    BY <1>1, <1>2, <1>3, TakesOf DEF Taken, CallOps

LEMMA ConstructPlainSteps ==
  ASSUME FlowInv, ConstructPlain PROVE FlowInv'
  <1>1. /\ AtCallV /\ Opnd(1) = 0 /\ prog' = prog /\ stack' = Replaced(1, <<NewOne>>)
        /\ frames' = Read(1)
    BY DEF ConstructPlain, ClassCalled, Allocates
  <1>2. IsSeq(stack') /\ Len(stack') = Len(stack) - Taken + 1
    <2>1. 1 \in 0 .. Len(stack) /\ Taken = 1
      BY <1>1, CallVTakes
    <2>2. QED
      BY <1>1, <2>1, StackPut, ShortSeq
  <1>3. QED
    BY <1>1, <1>2, CallVTakes, StepResults

\* A function's frame fits when it begins: its arguments are in the first slots.
LEMMA Begins ==
  ASSUME FunctionsFormed(prog), Accepts(Bodies, Arities), NEW i \in DOMAIN Bodies,
         NEW g, IsFrame(g), g.fn = i, g.ip = 0, Len(g.locals) = FnOf(i).localCount,
         \A s \in DOMAIN g.locals : s > FnOf(i).arity => g.locals[s] = Null
  PROVE  FrameFits(Bodies, g) /\ Depth(Bodies, g) = 0
  <1> DEFINE fl == Flow(FnOf(i), Arities)
  <1>1. Bodies[i].fn = FnOf(i) /\ Bodies[i].flow = fl
    BY BodyOf
  <1>2. /\ 1 \in DOMAIN fl.depth /\ fl.depth[1] = 0 /\ FnOf(i).arity <= fl.slots[1]
        /\ fl.slots[1] \in Nat
    <2>1. Verified(FnOf(i), Arities, i = Script)
      BY <1>1 DEF Accepts
    <2> HIDE DEF fl
    <2>2. QED
      BY <2>1 DEF Verified, fl
  <1> HIDE DEF fl
  <1>3. FnOf(i).arity \in Nat /\ Len(FnOf(i).code) \in Nat
    <2>1. FnOf(i) \in FunctionsOf(prog)
      BY BodyFunction
    <2>2. QED
      BY <2>1 DEF FunctionsFormed
  <1>4. Depth(Bodies, g) = 0 /\ Slots(Bodies, g) = fl.slots[1]
    BY <1>1, <1>2 DEF Depth, Slots
  <1>5. \A s \in DOMAIN g.locals : s > Slots(Bodies, g) => g.locals[s] = Null
    <2>1. DOMAIN g.locals = 1 .. Len(g.locals) /\ Len(g.locals) \in Nat
      BY SeqLength DEF IsFrame
    <2>2. QED
      BY <1>2, <1>3, <1>4, <2>1
  <1>6. QED
    BY <1>1, <1>2, <1>3, <1>4, <1>5 DEF FrameFits

\* A call goes on in the function's frame g; the caller waits for what it returns.
LEMMA StepEnters ==
  ASSUME FlowInv, Running, Code[Place] \in CallOps, prog' = prog,
         IsSeq(stack'), Len(stack') = Len(stack) - Taken,
         NEW i, NEW argv, IsSeq(argv), MayEnter(i, argv),
         NEW g, IsFrame(g), g.fn = i, g.ip = 0, g.locals = NewFrame(i, argv).locals,
         frames' = Append(Read(1), g)
  PROVE  FlowInv'
  <1> DEFINE e == Frame.ip + 1 + 1
             w == [Frame EXCEPT !.ip = e]
             frs == [frames EXCEPT ![Len(frames)] = w]
             m == Len(stack) - DepthHere + Depth(Bodies, w)
  <1>1. Left = 1 /\ OperandCount(Code[Place]) = 1
    BY JumpEffects DEF Left, CallOps
  <1>2. e \in Int /\ e + 1 \in Successors(Code, Place)
    <2>1. Frame.ip \in Int
      BY Instruction, FrameHere
    <2>2. Successors(Code, Place) = {Place + 1 + 1}
      BY <1>1, SuccessorsOf DEF CallOps, JumpOps
    <2>3. QED
      BY <2>1, <2>2 DEF Place
  <1>3. Code[Place] \notin {"OP_STORE_VAR", "OP_POPN"}
    BY DEF CallOps
  <1>4. Read(1) = [frames EXCEPT ![Len(frames)].ip = e]
    BY DEF Read, Frame
  <1> HIDE DEF e
  <1>5. /\ Read(1) = frs /\ IsFrame(w) /\ w.fn = Frame.fn /\ w.ip = e
        /\ Len(w.locals) = Len(Frame.locals)
        /\ \A s \in DOMAIN w.locals :
             s > SlotsAfter(Code, Place, SlotsHere) => w.locals[s] = Null
    BY <1>2, <1>3, <1>4, ReadsOn
  <1> HIDE DEF w
  <1>6. FrameFits(Bodies, w) /\ Depth(Bodies, w) = DepthHere - Taken + 1
    BY <1>1, <1>2, <1>5, GoesOn
  <1>7. /\ DepthHere \in Nat /\ Taken \in Nat /\ Taken <= DepthHere /\ frames # <<>>
        /\ Len(stack) \in Nat
    BY Instruction, FrameHere, SeqLength DEF FlowInv
  <1>8. /\ FramesFit(Bodies, frs) /\ frs # <<>> /\ frs[Len(frs)] = w
        /\ Balanced(Bodies, frs, m)
    <2>1. FramesFit(Bodies, frames) /\ Balanced(Bodies, frames, Len(stack))
      BY DEF FlowInv
    <2>2. IsFrame(w) /\ w.fn = frames[Len(frames)].fn
      BY <1>5 DEF Frame
    <2>3. DepthHere = Depth(Bodies, frames[Len(frames)])
      BY DEF DepthHere, Frame
    <2>4. QED
      BY <1>6, <1>7, <2>1, <2>2, <2>3, TopGoesOn
  <1> HIDE DEF frs, m
  <1>9. FrameFits(Bodies, g) /\ Depth(Bodies, g) = 0 /\ g.fn # Script
    <2>1. i \in DOMAIN Bodies /\ i # Script
      BY BodyOf DEF MayEnter, Script, BuiltinCount, Callables
    <2>2. /\ FnOf(i).localCount \in Nat
          /\ FnOf(i).arity = Len(argv)
      BY FunctionTypes DEF MayEnter, Arity, FlowInv
    <2>3. g.locals = [s \in 1 .. FnOf(i).localCount |-> IF s <= Len(argv) THEN argv[s] ELSE Null]
      BY <2>2, NewFrameHolds
    <2>4. /\ Len(g.locals) = FnOf(i).localCount
          /\ \A s \in DOMAIN g.locals : s > FnOf(i).arity => g.locals[s] = Null
      <3>1. IsSeq(g.locals) /\ Len(g.locals) \in Nat /\ DOMAIN g.locals = 1 .. Len(g.locals)
        BY SeqLength DEF IsFrame
      <3>2. Len(argv) \in Nat
        BY SeqLength
      <3>3. 1 .. Len(g.locals) = 1 .. FnOf(i).localCount
        BY <2>3, <3>1
      <3>4. Len(g.locals) = FnOf(i).localCount
        BY <2>2, <3>1, <3>3, SameInterval
      <3>5. QED
        BY <2>2, <2>3, <3>2, <3>4
    <2>5. QED
      BY <2>1, <2>4, Begins DEF FlowInv
  <1>10. FramesFit(Bodies, frames') /\ Balanced(Bodies, frames', m - 1)
    <2>1. Depth(Bodies, w) >= 1
      BY <1>6, <1>7
    <2>2. frames' = Append(frs, g)
      BY <1>5
    <2>3. FramesFit(Bodies, Append(frs, g)) /\ Balanced(Bodies, Append(frs, g), m - 1)
      BY <1>8, <1>9, <2>1, FramePushed
    <2>4. QED
      BY <2>2, <2>3
  <1>11. m - 1 = Len(stack')
    BY <1>6, <1>7 DEF m
  <1>12. QED
    BY <1>10, <1>11, StepFits

LEMMA CallFunctionSteps ==
  ASSUME FlowInv, CallFunction PROVE FlowInv'
  <1>1. PICK c \in Calls :
          /\ MayEnter(c.i, c.argv) /\ stack' = c.rest /\ frames' = Entered(c.i, c.argv)
          /\ prog' = prog
    BY DEF CallFunction
  <1> DEFINE i == c.i
             argv == c.argv
             g == NewFrame(i, argv)
  <1>2. /\ Running /\ Code[Place] \in CallOps /\ IsSeq(argv)
        /\ IsSeq(stack') /\ Len(stack') = Len(stack) - Taken
    BY <1>1, CallTakes
  <1>3. MayEnter(i, argv) /\ frames' = Append(Read(1), g)
    BY <1>1 DEF Entered
  <1> HIDE DEF i, argv
  <1>4. IsFrame(g)
    BY <1>2, <1>3, FunctionTypes, NewFrameHolds DEF MayEnter, FlowInv
  <1>5. g.fn = i /\ g.ip = 0
    BY DEF NewFrame
  <1> HIDE DEF g
  <1>6. g.locals = NewFrame(i, argv).locals
    BY DEF g
  <1>7. QED
    BY <1>1, <1>2, <1>3, <1>4, <1>5, <1>6, StepEnters

LEMMA ConstructInitSteps ==
  ASSUME FlowInv, ConstructInit PROVE FlowInv'
  <1> DEFINE i == GetMethodIndex(Callee[2], "init")
             args == Args(Opnd(1))
             self == <<NewOne>>
             argv == self \o args
             f == NewFrame(i, argv)
             g == [f EXCEPT !.returnInstance = TRUE, !.instance = NewOne]
             e == Append(Read(1), f)
  <1>1. /\ AtCallV /\ MayEnter(i, argv) /\ prog' = prog
        /\ stack' = Replaced(Opnd(1) + 1, <<>>)
        /\ frames' = [e EXCEPT ![Len(e)].returnInstance = TRUE, ![Len(e)].instance = NewOne]
    BY DEF ConstructInit, ClassCalled, Entered
  <1>2. /\ Running /\ Code[Place] \in CallOps /\ Taken = Opnd(1) + 1
        /\ IsSeq(stack') /\ Len(stack') = Len(stack) - Taken
    <2>1. /\ Running /\ Code[Place] \in CallOps /\ Taken = Opnd(1) + 1
          /\ Opnd(1) + 1 \in 0 .. Len(stack) /\ Len(stack) \in Nat
      BY <1>1, CallVTakes
    <2>2. QED
      BY <1>1, <2>1, StackPut, ShortSeq
  <1>3. IsSeq(argv)
    <2>1. IsSeq(self)
      BY ShortSeq
    <2>2. IsSeq(args)
      BY <1>1, CallVTakes, BackSeq DEF Args
    <2> HIDE DEF self, args
    <2>3. QED
      BY <2>1, <2>2, JoinSeq
  <1> HIDE DEF i, argv
  <1>4. /\ IsFrame(f) /\ f.fn = i /\ f.ip = 0
    <2>1. IsFrame(f)
      BY <1>1, <1>3, FunctionTypes, NewFrameHolds DEF MayEnter, FlowInv
    <2>2. QED
      BY <2>1 DEF NewFrame
  <1>5. f.locals = NewFrame(i, argv).locals
    OBVIOUS
  <1> HIDE DEF f
  <1>6. IsFrame(g) /\ g.fn = i /\ g.ip = 0 /\ g.locals = f.locals
    BY <1>4, ScalarsHoldNothing DEF IsFrame, NewOne
  <1>7. frames' = Append(Read(1), g)
    <2>1. IsSeq(Read(1))
      BY <1>2, ReadSeq
    <2>2. e[Len(e)] = f /\ Len(e) = Len(Read(1)) + 1
      BY <2>1, AppendSeq
    <2>3. frames' = [e EXCEPT ![Len(e)] = g]
      BY <1>1, <2>2
    <2> HIDE DEF g, e
    <2>4. [e EXCEPT ![Len(e)] = g] = Append(Read(1), g)
      BY <2>1, <2>2, AppendPut DEF e
    <2>5. QED
      BY <2>3, <2>4
  <1> HIDE DEF g
  <1>8. QED
    BY <1>1, <1>2, <1>3, <1>5, <1>6, <1>7, StepEnters

LEMMA ReturnSteps ==
  ASSUME FlowInv, Return PROVE FlowInv'
  <1> DEFINE e == SubSeq(frames, 1, Len(frames) - 1)
  <1>1. /\ Running /\ Code[Place] = "OP_RETURN" /\ 1 \in 0 .. Len(stack) /\ Len(stack) \in Nat
        /\ prog' = prog /\ frames' = e
        /\ stack' = Replaced(1, IF Len(frames) = 1 THEN <<>> ELSE <<Returned>>)
    <2>1. Len(stack) \in Nat
      BY SeqLength DEF FlowInv
    <2>2. QED
      BY <2>1 DEF Return, At, Place
  <1>2. /\ FramesFit(Bodies, e)
        /\ Balanced(Bodies, e, IF Len(frames) = 1 THEN Len(stack) - 1 ELSE Len(stack))
    <2>1. frames # <<>> /\ Depth(Bodies, frames[Len(frames)]) = 1
      BY <1>1, Instruction DEF DepthHere, Frame
    <2>2. QED
      BY <2>1, FramePopped DEF FlowInv
  <1>3. /\ IsSeq(stack')
        /\ Len(stack') = IF Len(frames) = 1 THEN Len(stack) - 1 ELSE Len(stack)
    <2>1. CASE Len(frames) = 1
      <3>1. stack' = Replaced(1, <<>>)
        BY <1>1, <2>1
      <3>2. QED
        BY <1>1, <2>1, <3>1, StackPut, ShortSeq
    <2>2. CASE Len(frames) # 1
      <3>1. stack' = Replaced(1, <<Returned>>)
        BY <1>1, <2>2
      <3>2. IsSeq(<<Returned>>) /\ Len(<<Returned>>) = 1
        BY ShortSeq
      <3>3. IsSeq(stack') /\ Len(stack') = Len(stack) - 1 + 1
        BY <1>1, <3>1, <3>2, StackPut
      <3>4. QED
        BY <1>1, <2>2, <3>3
    <2>3. QED
      BY <2>1, <2>2
  <1> HIDE DEF e
  <1>4. QED
    BY <1>1, <1>2, <1>3, StepFits

-----------------------------------------------------------------------------
(* The invariant                                                            *)

LEMMA StepFlows ==
  ASSUME FlowInv, Step PROVE FlowInv'
  BY ValueSteps, ObjectSteps, JumpSteps, StoreVarSteps, PopNSteps, NativeSteps,
     ConstructPlainSteps, CallFunctionSteps, ConstructInitSteps, ReturnSteps
     DEF Step

LEMMA NextFlows ==
  ASSUME FlowInv, [Next]_vars PROVE FlowInv'
  <1>1. CASE UNCHANGED vars
    BY <1>1, StepFits DEF vars, FlowInv
  <1>2. QED
    BY <1>1, StepFlows DEF Next, Halted

\* A run begins with its script's frame and with nothing on the stack.
LEMMA RunFlows ==
  ASSUME FunctionsFormed(prog), frames = <<NewRun(prog)>>, stack = <<>>, CodeVerified
  PROVE  FlowInv
  <1> DEFINE f == NewRun(prog)
  <1>1. frames = <<f>>
    OBVIOUS
  <1>2. Accepts(Bodies, Arities)
    BY <1>1, BodyOf DEF CodeVerified, Accepts
  <1>3. /\ IsFrame(f) /\ f.fn = Script /\ f.ip = 0
        /\ Len(f.locals) = FnOf(Script).localCount
        /\ \A s \in DOMAIN f.locals : f.locals[s] = Null
    <2> DEFINE n == prog.script.localCount
               loc == [s \in 1 .. n |-> Null]
    <2>1. f = [fn |-> Script, ip |-> 0, returnInstance |-> FALSE, instance |-> Null,
               locals |-> loc]
      BY DEF NewRun
    <2>2. n \in Nat
      BY DEF FunctionsFormed, FunctionsOf
    <2>3. loc \in [1 .. n -> {Null}]
      OBVIOUS
    <2>4. IsSeq(loc) /\ Len(loc) = n /\ \A s \in DOMAIN loc : loc[s] = Null
      BY <2>2, <2>3, FunctionSeq
    <2>5. FnOf(Script).localCount = n
      BY DEF FnOf
    <2> HIDE DEF loc, n
    <2>6. f.fn = Script /\ f.ip = 0 /\ f.locals = loc
      BY <2>1
    <2>7. IsFrame(f)
      BY <2>1, <2>4, <2>6 DEF IsFrame
    <2>8. QED
      BY <2>4, <2>5, <2>6, <2>7
  <1> HIDE DEF f
  <1>4. FrameFits(Bodies, f) /\ Depth(Bodies, f) = 0
    BY <1>1, <1>2, <1>3, BodyOf, Begins
  <1>5. /\ AreFrames(frames) /\ Len(frames) = 1 /\ DOMAIN frames = {1} /\ frames[1] = f
        /\ frames # <<>>
    <2>1. IsSeq(<<f>>) /\ Len(<<f>>) = 1 /\ DOMAIN <<f>> = {1} /\ <<f>>[1] = f
      BY ShortSeq
    <2>2. AreFrames(<<f>>)
      BY <1>3, <2>1 DEF AreFrames
    <2>3. QED
      BY <1>1, <2>1, <2>2
  <1>6. FramesFit(Bodies, frames)
    BY <1>3, <1>4, <1>5 DEF FramesFit
  <1>7. Balanced(Bodies, frames, 0)
    <2> DEFINE base == [i \in 1 .. 1 |-> 0]
    <2>1. Piled(Bodies, base, frames, 0)
      BY <1>4, <1>5 DEF Piled
    <2>2. QED
      BY <1>5, <2>1 DEF Balanced
  <1>8. IsSeq(stack) /\ Len(stack) = 0
    BY ShortSeq
  <1>9. QED
    BY <1>2, <1>6, <1>7, <1>8 DEF FlowInv

LEMMA InitFlows ==
  ASSUME Init, CodeVerified PROVE FlowInv
  BY RunFlows, ProgramAssumption DEF Init, WellFormed

\* What the flow says of any frame's next instruction.
LEMMA FrameAccepted ==
  ASSUME FlowInv, NEW i \in DOMAIN frames, frames[i].ip < Len(FnOf(frames[i].fn).code)
  PROVE  LET f == frames[i]
             fn == FnOf(f.fn)
         IN  /\ WholeInstruction(fn, Arities, f.ip + 1)
             /\ fn.live[f.ip + 1] \in Nat /\ Len(f.locals) = fn.localCount
             /\ \A s \in DOMAIN f.locals : s > fn.live[f.ip + 1] => f.locals[s] = Null
  <1> DEFINE f == frames[i]
             fn == FnOf(f.fn)
             fl == Flow(fn, Arities)
             p == f.ip + 1
  <1>1. IsFrame(f) /\ FrameFits(Bodies, f)
    BY DEF FlowInv, FramesFit, AreFrames
  <1>2. /\ f.fn \in DOMAIN Bodies /\ Bodies[f.fn].fn = fn /\ Bodies[f.fn].flow = fl
    BY <1>1, BodyOf DEF FrameFits
  <1>3. Verified(fn, Arities, f.fn = Script) /\ Len(fn.code) \in Nat
    <2>1. Verified(fn, Arities, f.fn = Script)
      BY <1>2 DEF FlowInv, Accepts
    <2>2. fn \in FunctionsOf(prog)
      BY <1>2, BodyFunction DEF FlowInv
    <2>3. QED
      BY <2>1, <2>2 DEF FlowInv, FunctionsFormed
  <1>4. /\ p \in DOMAIN fl.depth /\ f.ip \in 0 .. Len(fn.code)
        /\ Len(f.locals) = fn.localCount
        /\ \A s \in DOMAIN f.locals : s > fl.slots[p] => f.locals[s] = Null
    BY <1>1, <1>2 DEF FrameFits, Slots
  <1> HIDE DEF fn, f
  <1>5. fl.slots[p] \in Nat /\ Accepted(fn, Arities, fl, p)
    <2>1. p # Len(fn.code) + 1
      BY <1>3, <1>4 DEF f, fn
    <2> HIDE DEF fl, p
    <2>2. QED
      BY <1>3, <1>4, <2>1 DEF Verified, fl
  <1> HIDE DEF fl, p
  <1>6. WholeInstruction(fn, Arities, p) /\ fn.live[p] \in Nat /\ fl.slots[p] <= fn.live[p]
    BY <1>5 DEF Accepted
  <1>7. ASSUME NEW s \in DOMAIN f.locals, s > fn.live[p]
        PROVE  f.locals[s] = Null
    <2>1. s \in Nat
      BY <1>1, SeqLength DEF IsFrame, f
    <2>2. QED
      BY <1>4, <1>5, <1>6, <1>7, <2>1
  <1>8. QED
    BY <1>4, <1>6, <1>7 DEF f, fn, p

LEMMA FlowSlots ==
  ASSUME FlowInv PROVE SlotsExist
  <1> SUFFICES ASSUME NEW i \in DOMAIN frames,
                      frames[i].ip < Len(FnOf(frames[i].fn).code),
                      FnOf(frames[i].fn).code[frames[i].ip + 1] \in {"OP_LOAD_VAR", "OP_STORE_VAR"}
               PROVE  FnOf(frames[i].fn).code[frames[i].ip + 2] \in 0 .. Len(frames[i].locals) - 1
    BY DEF SlotsExist
  <1> DEFINE f == frames[i]
             fn == FnOf(f.fn)
             p == f.ip + 1
  <1>1. WholeInstruction(fn, Arities, p) /\ Len(f.locals) = fn.localCount
    BY FrameAccepted
  <1>2. f.ip \in Int
    BY DEF FlowInv, FramesFit, FrameFits
  <1>3. fn.code[p + 1] \in 0 .. fn.localCount - 1
    BY <1>1 DEF WholeInstruction, IndicesExist, SlotOps
  <1>4. p + 1 = f.ip + 2
    BY <1>2
  <1>5. QED
    BY <1>1, <1>3, <1>4

LEMMA FlowStale ==
  ASSUME FlowInv PROVE NoStaleLocals
  <1> SUFFICES ASSUME NEW i \in DOMAIN frames,
                      frames[i].ip < Len(FnOf(frames[i].fn).code),
                      NEW s \in FnOf(frames[i].fn).live[frames[i].ip + 1] + 1
                                   .. Len(frames[i].locals)
               PROVE  frames[i].locals[s] = Null
    BY DEF NoStaleLocals
  <1> DEFINE f == frames[i]
             l == FnOf(f.fn).live[f.ip + 1]
  <1>1. l \in Nat /\ \A k \in DOMAIN f.locals : k > l => f.locals[k] = Null
    BY FrameAccepted
  <1>2. Len(f.locals) \in Nat /\ DOMAIN f.locals = 1 .. Len(f.locals)
    BY SeqLength DEF FlowInv, FramesFit, AreFrames, IsFrame
  <1> HIDE DEF f, l
  <1>3. ASSUME NEW k \in l + 1 .. Len(f.locals)
        PROVE  f.locals[k] = Null
    BY <1>1, <1>2
  <1>4. QED
    BY <1>3 DEF f, l

\* When the VM stops, it has returned from the script or come to its end.
LEMMA FlowBalanced ==
  ASSUME FlowInv PROVE StackBalanced
  <1> SUFFICES ASSUME ~Running PROVE stack = <<>>
    BY DEF StackBalanced
  <1>1. IsSeq(stack) /\ AreFrames(frames)
    BY DEF FlowInv, FramesFit
  <1>2. Len(stack) = 0
    <2>1. CASE frames = <<>>
      BY <2>1 DEF FlowInv, Balanced
    <2>2. CASE frames # <<>>
      <3>1. /\ Frame.ip \in 0 .. Len(Code) /\ Len(Code) \in Nat
            /\ Place \in DOMAIN FlowHere.depth /\ DepthHere = FlowHere.depth[Place]
            /\ Verified(FnOf(Frame.fn), Arities, Frame.fn = Script)
        BY <2>2, FrameHere
      <3>2. Place = Len(Code) + 1
        BY <2>2, <3>1 DEF Running, Place
      <3>3. Frame.fn = Script /\ DepthHere = 0
        BY <3>1, <3>2 DEF Verified, FlowHere, Code
      <3>4. Len(frames) = 1
        BY <1>1, <2>2, <3>3, FrameCount DEF FlowInv, FramesFit, Frame
      <3>5. PICK base : Piled(Bodies, base, frames, Len(stack))
        BY <2>2 DEF FlowInv, Balanced
      <3>6. base[1] = 0 /\ Len(stack) = base[1] + DepthHere
        BY <3>4, <3>5 DEF Piled, DepthHere, Frame
      <3>7. QED
        BY <3>3, <3>6
    <2>3. QED
      BY <2>1, <2>2
  <1>3. QED
    BY <1>1, <1>2, EmptySeq DEF IsSeq

LEMMA FlowOperands ==
  ASSUME FlowInv PROVE OperandsThere
  <1> SUFFICES ASSUME Running
               PROVE  /\ WholeInstruction(FnOf(Frame.fn), Arities, Frame.ip + 1)
                      /\ Len(stack) >= Takes(Code, Frame.ip + 1, Arities)
    BY DEF OperandsThere
  <1>1. /\ WholeInstruction(FnOf(Frame.fn), Arities, Place)
        /\ Taken \in Nat /\ Taken <= DepthHere /\ frames # <<>>
    BY Instruction
  <1>2. DepthHere \in Nat /\ Len(stack) \in Nat /\ DepthHere <= Len(stack)
    BY <1>1, FrameHere, OnStack
  <1>3. QED
    BY <1>1, <1>2 DEF Taken, Place

LEMMA FlowTypes ==
  ASSUME FlowInv, Inv PROVE TypeOK
  <1>1. SlotsExist
    BY FlowSlots
  <1>2. ASSUME NEW i \in DOMAIN frames
        PROVE  /\ frames[i].ip \in 0 .. Len(FnOf(frames[i].fn).code)
               /\ frames[i].returnInstance => IsObj(frames[i].instance)
    <2>1. IsFrame(frames[i]) /\ FrameFits(Bodies, frames[i])
      BY DEF FlowInv, FramesFit, AreFrames
    <2>2. Bodies[frames[i].fn].fn = FnOf(frames[i].fn)
      BY <2>1, BodyOf DEF FrameFits
    <2>3. QED
      BY <2>1, <2>2 DEF IsFrame, FrameFits
  <1>3. HeapOK(heap, nextObj)
    BY DEF Inv, Shape
  <1>4. QED
    BY <1>1, <1>2, <1>3 DEF TypeOK, HeapOK

-----------------------------------------------------------------------------
(* Theorems                                                                 *)

\* When every function of the program is accepted before it runs, frames and stack
\* follow the flow that accepted it, through calls, returns and jumps (vm.cc Run).
THEOREM FlowInvariance ==
  Spec /\ CodeVerified => []FlowInv
  <1>1. Init /\ CodeVerified => FlowInv
    BY InitFlows
  <1>2. FlowInv /\ [Next]_vars => FlowInv'
    BY NextFlows
  <1>3. QED
    BY <1>1, <1>2, PTL DEF Spec

\* Nothing is left on the operand stack when Run returns, whichever way the frames
\* of a program came and went (OP_RETURN, and the end of the script).
THEOREM Balance ==
  Spec /\ CodeVerified => []StackBalanced
  <1>1. FlowInv => StackBalanced
    BY FlowBalanced
  <1>2. QED
    BY <1>1, FlowInvariance, PTL

\* No instruction pops more than its function has on the stack, nor names a
\* constant, a slot, a callable or a place that is not there (the asserts of vm.cc
\* and StackStats::Pop).
THEOREM OperandsAreThere ==
  Spec /\ CodeVerified => []OperandsThere
  <1>1. FlowInv => OperandsThere
    BY FlowOperands
  <1>2. QED
    BY <1>1, FlowInvariance, PTL

\* A slot that no variable in scope owns is null in every frame, the suspended ones
\* included (OP_POPN, EmitUnwindToDepth).
THEOREM NothingStale ==
  Spec /\ CodeVerified => []NoStaleLocals
  <1>1. FlowInv => NoStaleLocals
    BY FlowStale
  <1>2. QED
    BY <1>1, FlowInvariance, PTL

\* Type correctness: with the heap's part of it from the invariant of VMProofs.
THEOREM TypesHold ==
  Spec /\ CodeVerified /\ []FieldsTraced => []TypeOK
  <1>1. FlowInv /\ Inv => TypeOK
    BY FlowTypes
  <1>2. QED
    BY <1>1, FlowInvariance, Invariance, PTL
=============================================================================
