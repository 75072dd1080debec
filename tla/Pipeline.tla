------------------------------ MODULE Pipeline ------------------------------
(***************************************************************************)
(* The whole program on a script: the lexer, the parser, the generator and    *)
(* the VM, each begun when the one before it has ended, as the functions of    *)
(* main.cc do (and tests/run_script.cc).                                      *)
(***************************************************************************)
EXTENDS VMProperties

CONSTANTS
  Texts,              \* the scripts, as Scripts.tla has them
  Char, Alpha, Digits \* as in Lexer.tla

VARIABLES
  script,             \* the script
  stage,              \* "lex", "parse" or "run": which of the four has control; else "host"
  source, mode, current, line, col, first, tokens,   \* the lexer's
  parser              \* the parser's

front == <<source, mode, current, line, col, first, tokens, parser>>
pipeline == <<vars, script, stage, front>>

Lex == INSTANCE Lexer WITH Sources <- {}
Par == INSTANCE Parser
Gen == INSTANCE Generator
Ref == INSTANCE Lang

\* A token with its lexeme.
Spelt(t) == Par!Token(t.kind, SubSeq(script.text, t.from + 1, t.to))

\* ScanAll, step by step.
Scan ==
  /\ stage = "lex"
  /\ Lex!Next
  /\ UNCHANGED <<vars, script, stage, parser>>

\* Parser parser(tokens); the last of them is eof.
BeginParse ==
  /\ stage = "lex" /\ mode = "done"
  /\ stage' = "parse"
  /\ parser' = Par!Start([i \in 1 .. Len(tokens) - 1 |-> Spelt(tokens[i])])
  /\ UNCHANGED <<vars, script, source, mode, current, line, col, first, tokens>>

Parse ==
  /\ stage = "parse"
  /\ Par!ParseDeclaration
  /\ UNCHANGED <<vars, script, stage, source, mode, current, line, col, first, tokens>>

\* What the script is to show: what its comments say, else what the reference
\* evaluator says of the tree.
Expected == IF script.shows = <<>> THEN Ref!Output(parser.out) ELSE script.shows

\* The generator's main function and the functions to register.
Loaded ==
  LET made == Gen!Generate(parser.out)
  IN  [script |-> made.script, functions |-> made.functions,
       objects |-> made.objects, expected |-> Expected]

\* Generate, and Run on a new VM with its functions registered in their order.
BeginRun ==
  /\ stage = "parse" /\ parser.ok /\ Par!IsAtEnd(parser)
  /\ stage' = "run"
  /\ prog' = Loaded
  /\ frames' = <<NewRun(prog')>>
  /\ heap' = prog'.objects
  /\ nextObj' = Cardinality(DOMAIN heap') + 1
  /\ UNCHANGED <<stack, globals, lastReturn, emitted, script, front>>

Execute ==
  /\ stage = "run"
  /\ Step
  /\ UNCHANGED <<script, stage, front>>

\* The objects of the pipeline, with control at a stage.
StartPipeline(s, at) ==
  /\ script = s
  /\ stage = at
  /\ source = Par!Chars(s.text)
  /\ mode = "between" /\ current = 0 /\ line = 1 /\ col = 1
  /\ first = Lex!Position
  /\ tokens = <<>>
  /\ parser = Par!Start(<<>>)

PipelineInit ==
  /\ \E s \in Texts : StartPipeline(s, "lex")
  /\ prog = [functions |-> <<>>]
  /\ frames = <<>> /\ stack = <<>> /\ globals = NoFields
  /\ heap = [o \in {} |-> 0] /\ nextObj = 1
  /\ lastReturn = Null /\ emitted = <<>>

PipelineNext ==
  \/ Scan \/ BeginParse \/ Parse \/ BeginRun \/ Execute
  \/ stage = "run" /\ Halted /\ UNCHANGED <<script, stage, front>>

PipelineSpec == PipelineInit /\ [][PipelineNext]_pipeline

-----------------------------------------------------------------------------
(* Properties                                                               *)

\* A script is accepted, and from its characters to its last instruction shows
\* what it is said to show, whenever collections run (main.cc; lexer.cc ScanAll,
\* parser.cc ParseProgram, generator.cc Generate, vm.cc Run and RegisterFunction).
EndToEnd ==
  /\ mode # "failed" /\ parser.ok
  /\ stage = "run" => OutputAgrees
=============================================================================
