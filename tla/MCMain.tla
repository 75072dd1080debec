------------------------------- MODULE MCMain -------------------------------
(* What main.cc runs: one of its scripts (Pipeline.tla), or its hand-made    *)
(* functions (Session.tla).  main.cc makes a VM for each of these; here any   *)
(* three run one after the other on one VM, the first of them on a new one.   *)
EXTENDS Session, Verifier, Suite, Pipeline, Scripts

MCTests(base) ==
  [FunctionTest |-> FunctionTest, VMTest |-> VMTest, VarTest |-> VarTest,
   CallTest |-> CallTest(base), CallWithArgTest |-> CallWithArgTest(base), Eqtest |-> Eqtest,
   ForLoopTest |-> ForLoopTest, IfTest |-> IfTest, CompareTest |-> CompareTest,
   ListOpcodeTest |-> ListOpcodeTest, DictOpcodeTest |-> DictOpcodeTest]

\* The twelfth, whose announcement is not true.
MCOddEven(base) == [OddEvenTest |-> OddEvenTest(base)]

MCScript ==
  {LexerSmokeTest, ParserExprSmokeTest, FrontendEndToEndTest, FrontendEndToEndBlockTest,
   FrontendETESmokeTest, ScopeAllFeatureSmokeTest, CallFunctionSmokeTest,
   NativeFunctionSmokeTest, CallVirtualFunctionTest}

Letters == "abcdefghijklmnopqrstuvwxyzABCDEFGHIJKLMNOPQRSTUVWXYZ_"
MCAlpha == {SubSeq(Letters, i, i) : i \in 1..Len(Letters)}
MCDigits == {"0", "1", "2", "3", "4", "5", "6", "7", "8", "9"}
MCChar ==
  MCAlpha \cup MCDigits \cup
  {" ", "\n", "\"", "(", ")", "{", "}", "[", "]", ",", ";", ":", "+", "-", "*", "/", "<", ">", "=", "!"}

\* Several tests on one VM, which is more than main.cc does, or the way of a
\* script.  A session has an empty script, and control never gets to a stage of the
\* other.
MainInit ==
  \/ NewVM /\ StartPipeline(ScriptOf("", <<>>), "host")
  \/ PipelineInit /\ runs = 0

MainNext ==
  \/ stage = "host" /\ SessionNext /\ UNCHANGED <<script, stage, front>>
  \/ PipelineNext /\ UNCHANGED runs

MainSpec == MainInit /\ [][MainNext]_<<session, pipeline>>
=============================================================================
