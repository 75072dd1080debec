------------------------------ MODULE Verifier ------------------------------
(***************************************************************************)
(* What the asserts of vm.cc and stack_stats.cc ask of bytecode, without      *)
(* running it: a flow analysis in the manner of a bytecode verifier, which    *)
(* the repository does not have.  It gives every instruction the number of    *)
(* operands that its function has on the stack when it begins, and how many    *)
(* of the frame's slots may then hold something.  Words and slots are counted  *)
(* as in VM.tla: the word at p of the code is code[p], and jumps and slots     *)
(* count from 0.                                                             *)
(***************************************************************************)
EXTENDS VMProperties

JumpOps == {"OP_JUMP", "OP_JUMP_IF_FALSE"}
SlotOps == {"OP_LOAD_VAR", "OP_STORE_VAR"}
ConstOps == {"OP_CONSTANT", "OP_DEFINE_GLOBAL", "OP_GET_GLOBAL", "OP_SET_GLOBAL",
             "OP_GET_PROP", "OP_SET_PROP", "OP_GET_SUPER"}
CallOps == {"OP_CALL", "OP_CALLV"}
TwoOperands == {"OP_POPN", "OP_GET_SUPER"}
OneOperand == (JumpOps \cup SlotOps \cup ConstOps \cup CallOps) \ TwoOperands

TakeNone == {"OP_CONSTANT", "OP_LOAD_VAR", "OP_POPN", "OP_JUMP", "OP_GET_GLOBAL",
             "OP_LIST_NEW", "OP_DICT_NEW"}
TakeOne == {"OP_POP", "OP_DUP", "OP_STORE_VAR", "OP_NOT", "OP_NEGATE", "OP_JUMP_IF_FALSE",
            "OP_PRINT", "OP_DEFINE_GLOBAL", "OP_SET_GLOBAL", "OP_LIST_LEN", "OP_GET_PROP",
            "OP_GET_SUPER", "OP_RETURN"}
TakeTwo == {"OP_ADD", "OP_SUB", "OP_MUL", "OP_DIV", "OP_LESS", "OP_GREATER", "OP_EQ",
            "OP_NOT_EQUAL", "OP_LIST_PUSH", "OP_DICT_HAS", "OP_INDEX_GET", "OP_SET_PROP"}
TakeThree == {"OP_INDEX_SET"}
LeaveNone == {"OP_POP", "OP_STORE_VAR", "OP_POPN", "OP_JUMP", "OP_JUMP_IF_FALSE", "OP_PRINT",
              "OP_DEFINE_GLOBAL", "OP_SET_GLOBAL", "OP_INDEX_SET", "OP_SET_PROP", "OP_RETURN"}
LeaveTwo == {"OP_DUP"}
Opcodes == TakeNone \cup TakeOne \cup TakeTwo \cup TakeThree \cup CallOps

\* How many operands follow an opcode.
OperandCount(op) ==
  IF op \in TwoOperands THEN 2 ELSE IF op \in OneOperand THEN 1 ELSE 0

\* How many values the instruction at p takes off the stack, a list that
\* OP_LIST_PUSH leaves there included; arity is what callables take.
Takes(code, p, arity) ==
  CASE code[p] \in TakeNone  -> 0
    [] code[p] \in TakeOne   -> 1
    [] code[p] \in TakeTwo   -> 2
    [] code[p] \in TakeThree -> 3
    [] code[p] = "OP_CALL"   -> arity[code[p + 1]]
    [] code[p] = "OP_CALLV"  -> code[p + 1] + 1

\* How many it puts there; a call's is what the callee returns.
Leaves(op) == IF op \in LeaveNone THEN 0 ELSE IF op \in LeaveTwo THEN 2 ELSE 1

\* The places that control can come to from p.
Successors(code, p) ==
  CASE code[p] = "OP_RETURN" -> {}
    [] code[p] = "OP_JUMP" -> {code[p + 1] + 1}
    [] code[p] = "OP_JUMP_IF_FALSE" -> {p + 2, code[p + 1] + 1}
    [] OTHER -> {p + 1 + OperandCount(code[p])}

\* How many slots may hold something after p, if l may before: a store may add to
\* them, and clearing the last ones takes them away.
SlotsAfter(code, p, l) ==
  CASE code[p] = "OP_STORE_VAR" -> IF code[p + 1] < l THEN l ELSE code[p + 1] + 1
    [] code[p] = "OP_POPN" -> IF code[p + 1] < l /\ l <= code[p + 1] + code[p + 2]
                                THEN code[p + 1] ELSE l
    [] OTHER -> l

\* The flow once the instruction at flow.next is seen.  What no jump leads to begins
\* with an empty stack.
SeenNext(code, arity, flow) ==
  LET p == flow.next
      d == flow.depth[p] - Takes(code, p, arity) + Leaves(code[p])
      l == SlotsAfter(code, p, flow.slots[p])
      next == p + 1 + OperandCount(code[p])
      to == Successors(code, p)
      dead == {next} \cap DOMAIN code
      most(q) == IF q \in DOMAIN flow.slots /\ flow.slots[q] > l THEN flow.slots[q] ELSE l
  IN  IF p > Len(code) THEN flow
      ELSE [next   |-> next,
            begins |-> flow.begins \cup {next},
            depth  |-> flow.depth @@ [q \in to |-> d] @@ [q \in dead |-> 0],
            slots  |-> [q \in to |-> most(q)] @@ flow.slots @@ [q \in dead |-> 0]]

\* depth and slots of every place that an instruction begins at or the code ends at,
\* from one pass over the code.  It goes by stretches of 16 instructions, each after
\* the one before is done, because TLC cannot recurse as deeply as code is long.
Flow(fn, arity) ==
  LET stretch[k \in 0 .. Len(fn.code) \div 16 + 1] ==
        IF k = 0 THEN [next |-> 1, begins |-> {1}, depth |-> 1 :> 0, slots |-> 1 :> fn.arity]
        ELSE LET before == stretch[k - 1]
                 seen[i \in 0 .. 16] ==
                   IF i = 0 THEN before ELSE SeenNext(fn.code, arity, seen[i - 1])
             IN  IF before.next > Len(fn.code) THEN before ELSE seen[16]
  IN  stretch[Len(fn.code) \div 16 + 1]

\* The operands of the instruction at p name something: its frame's slots, its
\* function's constants and words, callables.
IndicesExist(fn, arity, p) ==
  LET op == fn.code[p]
      k == fn.code[p + 1]
  IN  /\ op \in SlotOps => k \in 0 .. fn.localCount - 1
      /\ op = "OP_POPN" => /\ k \in Nat /\ fn.code[p + 2] \in Nat
                           /\ k + fn.code[p + 2] <= fn.localCount
      /\ op \in ConstOps => k + 1 \in DOMAIN fn.consts
      /\ op = "OP_GET_SUPER" => fn.code[p + 2] + 1 \in DOMAIN fn.consts
      /\ op \in JumpOps => k \in 0 .. Len(fn.code)
      /\ op = "OP_CALL" => k \in DOMAIN arity
      /\ op = "OP_CALLV" => k \in Nat

WholeInstruction(fn, arity, p) ==
  /\ fn.code[p] \in Opcodes
  /\ p + OperandCount(fn.code[p]) <= Len(fn.code)
  /\ IndicesExist(fn, arity, p)

\* The instruction at p finds its operands, and wherever control goes next, the
\* flow says what it leaves.
Accepted(fn, arity, flow, p) ==
  LET d == flow.depth[p] - Takes(fn.code, p, arity)
  IN  /\ WholeInstruction(fn, arity, p)
      /\ d >= 0 /\ (fn.code[p] = "OP_RETURN" => d = 0)
      /\ fn.live[p] \in Nat /\ flow.slots[p] <= fn.live[p]
      /\ \A q \in Successors(fn.code, p) :
           /\ q \in DOMAIN flow.depth
           /\ flow.depth[q] = d + Leaves(fn.code[p])
           /\ flow.slots[q] >= SlotsAfter(fn.code, p, flow.slots[p])

\* A function whose end control can come to is accepted if it may end, and the
\* stack is empty then.
Verified(fn, arity, mayEnd) ==
  LET flow == Flow(fn, arity)
      end == Len(fn.code) + 1
  IN  /\ 1 \in DOMAIN flow.depth /\ flow.depth[1] = 0 /\ fn.arity <= flow.slots[1]
      /\ DOMAIN flow.depth \subseteq flow.begins
      /\ \A p \in DOMAIN flow.depth :
           /\ flow.slots[p] \in Nat
           /\ IF p = end THEN mayEnd /\ flow.depth[p] = 0 ELSE Accepted(fn, arity, flow, p)

Arities == [i \in Callables |-> Arity(i)]

\* A program is accepted before it runs, all of its functions, on every path
\* through them: statements leave the operand stack as they found it, no path runs
\* out of a function, blocks clear their slots however they are left (what the
\* generator has to see to, generator.cc; vm.cc asserts it as it goes).
CodeVerified ==
  frames # <<>> /\ frames = <<NewRun(prog)>> =>
    \A i \in {Script} \cup {j \in Callables : j >= BuiltinCount} :
      Verified(FnOf(i), Arities, i = Script)

\* No instruction is cut off, names what does not exist, or pops an empty stack
\* (the asserts of vm.cc, and of StackStats::Pop).
OperandsThere ==
  Running =>
    /\ WholeInstruction(FnOf(Frame.fn), Arities, Frame.ip + 1)
    /\ Len(stack) >= Takes(Code, Frame.ip + 1, Arities)
=============================================================================
