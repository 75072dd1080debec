------------------------------- MODULE Session -------------------------------
(***************************************************************************)
(* A VM that runs several functions, one after the other, and registers       *)
(* functions in between, as a host program may.                              *)
(***************************************************************************)
EXTENDS VMProperties

CONSTANTS
  Tests(_),       \* what may be run, given the index that the next callable gets
  MaxRuns,        \* bound: how many runs there are
  MaxIndex        \* bound: the highest index that a test may be given

\* Functions that are made by hand have no objects among their constants: nothing
\* has made one when they are built.
HandMade(p) == FunctionsFormed(p) /\ \A fn \in FunctionsOf(p) : ObjsIn(fn.consts) = {}

ASSUME TestsAssumption ==
  /\ MaxIndex \in Nat
  /\ \A base \in BuiltinCount .. MaxIndex : \A t \in DOMAIN Tests(base) :
       LET test == Tests(base)[t]
       IN  {"script", "functions"} \subseteq DOMAIN test /\ HandMade(test)

VARIABLE runs     \* how many there have been

session == <<vars, runs>>

\* Variant: the frames of the last run stay below the new one.
StartRunBug(main) ==
  /\ frames' = Append(frames, NewRun(main))
  /\ stack' = <<>>
  /\ lastReturn' = Null
  /\ UNCHANGED <<globals, heap, nextObj>>

\* Variant: what the last run returned is still there.
StartRunStaleBug(main) ==
  /\ frames' = <<NewRun(main)>>
  /\ stack' = <<>>
  /\ UNCHANGED <<globals, heap, nextObj, lastReturn>>

\* VM::Run, up to its loop: globals_ and callables_ stay.
StartRun(main) ==
  /\ frames' = <<NewRun(main)>>
  /\ stack' = <<>>
  /\ lastReturn' = Null
  /\ UNCHANGED <<globals, heap, nextObj>>

\* Variant: the natives are not all counted.
NextIndexBug == BuiltinCount - 1 + Len(prog.functions)

\* The index that RegisterFunction returns next.
NextIndex == BuiltinCount + Len(prog.functions)

\* Register the functions that a test needs and run its main function.
RunTest(t) ==
  /\ ~Running /\ runs < MaxRuns /\ NextIndex <= MaxIndex
  /\ LET test == Tests(NextIndex)[t]
     IN  /\ prog' = [test EXCEPT !.functions = prog.functions \o @]
         /\ StartRun(test)
  /\ emitted' = <<>>
  /\ runs' = runs + 1

\* A new VM: no frames, only the natives registered.
NewVM ==
  /\ prog = [functions |-> <<>>]
  /\ frames = <<>> /\ stack = <<>> /\ globals = NoFields
  /\ heap = [o \in {} |-> 0] /\ nextObj = 1
  /\ lastReturn = Null /\ emitted = <<>>
  /\ runs = 0

SessionNext ==
  \/ Step /\ UNCHANGED runs
  \/ \E t \in DOMAIN Tests(NextIndex) : RunTest(t)
  \/ Halted /\ UNCHANGED runs

SessionSpec == NewVM /\ [][SessionNext]_session

-----------------------------------------------------------------------------
(* Properties                                                               *)

\* Each run prints and returns what it is announced to, whatever was run and
\* registered on the VM before (vm.cc Run, RegisterFunction; main.cc, "Expect").
AsAnnounced ==
  ~Running /\ runs > 0 => emitted = prog.prints /\ lastReturn = prog.returns
=============================================================================
