---------------------------- MODULE VMProperties ----------------------------
(* What is true of programs while the VM runs them.  A program's "expected" is *)
(* what the reference evaluator says that it shows.                          *)
EXTENDS VM

\* A frame has the slot that its next instruction asks for (the asserts of
\* OP_LOAD_VAR and OP_STORE_VAR).
SlotsExist ==
  \A i \in DOMAIN frames :
    LET f == frames[i] fn == FnOf(f.fn)
    IN  f.ip < Len(fn.code) /\ fn.code[f.ip + 1] \in {"OP_LOAD_VAR", "OP_STORE_VAR"} =>
          fn.code[f.ip + 2] \in 0 .. Len(f.locals) - 1

\* Type correctness: instruction pointers stay within their function, frames have
\* their slots, and objects were made before they are used.
TypeOK ==
  /\ SlotsExist
  /\ \A i \in DOMAIN frames :
       /\ frames[i].ip \in 0 .. Len(FnOf(frames[i].fn).code)
       /\ frames[i].returnInstance => IsObj(frames[i].instance)
  /\ DOMAIN heap \subseteq 1 .. nextObj - 1
  /\ \A o \in DOMAIN heap : Children(heap[o]) \subseteq 1 .. nextObj - 1

\* What the program can still come to use, and what a collection would keep of it.
Roots == TraceRoots(stack, frames, globals, lastReturn)
Held == Closure([o \in DOMAIN heap |-> Children(heap[o])], Roots)
Kept == Closure([o \in DOMAIN heap |-> Traced(heap[o])], Roots)

\* Whatever the program can still come to use is allocated, at whichever of its
\* safepoints collections ran (GC.md, vm.cc TraceRoots and argument pinning).
NoDangling == Held \subseteq DOMAIN heap

\* An object in a field is also reached another way than through fields that a
\* collection has marked: what NoDangling takes, since Trace() of a fields
\* dictionary is called once (vm.cc OP_CALLV, gc.cc Mark).
FieldsTraced == Held \subseteq Kept

\* The slots that no variable in scope owns are null, on every path into a
\* statement: a block's variables are cleared when it ends, and when break,
\* continue or return leaves it (EmitBlockStmt, EmitUnwindToDepth).
NoStaleLocals ==
  \A i \in DOMAIN frames :
    LET f == frames[i] fn == FnOf(f.fn)
    IN  f.ip < Len(fn.code) =>
          \A s \in fn.live[f.ip + 1] + 1 .. Len(f.locals) : f.locals[s] = Null

\* Statements leave the operand stack as they found it, whichever jumps they
\* took: nothing is left on it when Run returns.
StackBalanced == ~Running => stack = <<>>

\* The program shows what the reference evaluator says, in that order, whenever
\* collections run.
OutputAgrees ==
  /\ Len(emitted) <= Len(prog.expected)
  /\ emitted = SubSeq(prog.expected, 1, Len(emitted))
  /\ ~Running => emitted = prog.expected

\* Every program that the reference evaluator finishes, the VM finishes.
Terminates == <>(~Running)
=============================================================================
