------------------------------- MODULE Parser -------------------------------
(***************************************************************************)
(* frontend/parser.cc: from tokens to syntax trees, by recursive descent      *)
(* with a little lookahead.                                                  *)
(*                                                                          *)
(* A parser state p holds the tokens, the last of which is eof; current, the *)
(* number of tokens that have been read; out, the trees and names that have   *)
(* been built and belong to no larger tree yet; and ok, which an assert that  *)
(* fails makes FALSE for good.  An operator named for a method of the parser  *)
(* reads the tokens that the method reads and adds its result to out.         *)
(***************************************************************************)
EXTENDS Syntax

VARIABLE parser

IsAtEnd(p) == p.tokens[p.current + 1].kind = "eof"

Peek(p) == p.tokens[p.current + 1]

Fail(p) == [p EXCEPT !.ok = FALSE]

Push(p, tree) == [p EXCEPT !.out = Append(@, tree)]

Advance(p) == IF IsAtEnd(p) THEN p ELSE [p EXCEPT !.current = @ + 1]

\* The kind of the token so many ahead; beyond the last, the last.
LookAhead(p, offset) ==
  p.tokens[IF p.current + offset < Len(p.tokens) THEN p.current + offset + 1
           ELSE Len(p.tokens)].kind

Check(p, kind) == p.ok /\ ~IsAtEnd(p) /\ Peek(p).kind = kind
CheckAny(p, kinds) == p.ok /\ ~IsAtEnd(p) /\ Peek(p).kind \in kinds

Consume(p, kind) == IF Check(p, kind) THEN Advance(p) ELSE Fail(p)

\* An identifier, whose name is kept.
Name(p) ==
  IF Check(p, "identifier") THEN Push(Advance(p), Peek(p).lexeme) ELSE Fail(p)

StripQuotes(lexeme) == SubSeq(lexeme, 2, Len(lexeme) - 1)

-----------------------------------------------------------------------------
(* Trees are made of what stands last in out.                                *)

Below(p, n) == SubSeq(p.out, 1, Len(p.out) - n)
Nth(p, n, i) == p.out[Len(p.out) - n + i]

Build1(p, T(_)) ==
  IF p.ok THEN [p EXCEPT !.out = Append(Below(p, 1), T(Nth(p, 1, 1)))] ELSE p
Build2(p, T(_, _)) ==
  IF p.ok THEN [p EXCEPT !.out = Append(Below(p, 2), T(Nth(p, 2, 1), Nth(p, 2, 2)))] ELSE p
Build3(p, T(_, _, _)) ==
  IF p.ok
    THEN [p EXCEPT !.out = Append(Below(p, 3), T(Nth(p, 3, 1), Nth(p, 3, 2), Nth(p, 3, 3)))]
    ELSE p
Build4(p, T(_, _, _, _)) ==
  IF p.ok
    THEN [p EXCEPT !.out = Append(Below(p, 4),
                                  T(Nth(p, 4, 1), Nth(p, 4, 2), Nth(p, 4, 3), Nth(p, 4, 4)))]
    ELSE p

\* What stands above the first n elements of out becomes a sequence.
Gather(p, n) ==
  IF p.ok
    THEN [p EXCEPT !.out = Append(SubSeq(@, 1, n), SubSeq(@, n + 1, Len(@)))]
    ELSE p

-----------------------------------------------------------------------------
(* Lookahead                                                                *)

IsAssignmentAhead(p) == Check(p, "identifier") /\ LookAhead(p, 1) = "equal"

\* Variant: the first ] closes the index.
IsIndexAssignAheadBug(p) ==
  /\ Check(p, "identifier") /\ LookAhead(p, 1) = "lbracket"
  /\ \E i \in 2..Len(p.tokens) :
       /\ LookAhead(p, i) = "rbracket" /\ LookAhead(p, i + 1) = "equal"
       /\ \A j \in 2..(i - 1) : LookAhead(p, j) # "rbracket"

\* x[...] = with the ] that matches, whatever stands between the two.
IsIndexAssignAhead(p) ==
  LET places(n, kind) == {j \in 1..n : LookAhead(p, j) = kind}
      depth(n) == Cardinality(places(n, "lbracket")) - Cardinality(places(n, "rbracket"))
  IN  /\ Check(p, "identifier") /\ LookAhead(p, 1) = "lbracket"
      /\ \E i \in 2..Len(p.tokens) :
           /\ depth(i) = 0 /\ LookAhead(p, i + 1) = "equal"
           /\ \A j \in 1..(i - 1) : depth(j) > 0

IsPropAssignAhead(p) ==
  /\ CheckAny(p, {"identifier", "this"})
  /\ <<LookAhead(p, 1), LookAhead(p, 2), LookAhead(p, 3)>> = <<"dot", "identifier", "equal">>

-----------------------------------------------------------------------------
(* Expressions, the loosest operators first.  Each is as the one below it,   *)
(* or left-associative with it.                                              *)

RECURSIVE Expression(_), Unary(_), Binary(_, _), MoreOperands(_, _),
          Elements(_), Entries(_), Arguments(_), MoreSuffixes(_)

Operators == <<{"equal_equal", "not_equal"}, {"less", "greater"}, {"plus", "minus"},
               {"star", "slash"}>>

\* Variant: operators of a level associate to the right.
MoreOperandsBug(p, level) ==
  IF ~CheckAny(p, Operators[level]) THEN p
  ELSE LET r == Binary(Push(Advance(p), OperatorOf[Peek(p).kind]), level)
       IN  Build3(r, BinaryExpr)

\* The loops of Equality, Comparison, Term and Factor.
MoreOperands(p, level) ==
  IF ~CheckAny(p, Operators[level]) THEN p
  ELSE LET r == Binary(Push(Advance(p), OperatorOf[Peek(p).kind]), level + 1)
       IN  MoreOperands(Build3(r, BinaryExpr), level)

\* Equality, Comparison, Term, Factor and, below them, Unary.
Binary(p, level) ==
  IF level > Len(Operators) THEN Unary(p)
  ELSE MoreOperands(Binary(p, level + 1), level)

Expression(p) == IF p.ok THEN Binary(p, 1) ELSE p

\* Expressions up to ], with a comma after the last one or none.
Elements(p) ==
  IF Check(p, "rbracket") \/ ~p.ok THEN Consume(p, "rbracket")
  ELSE LET q == Expression(p)
       IN  IF Check(q, "rbracket") THEN Advance(q) ELSE Elements(Consume(q, "comma"))

\* The same for "key": value up to }.
Entries(p) ==
  IF Check(p, "rbrace") \/ ~p.ok THEN Consume(p, "rbrace")
  ELSE LET key == Push(Consume(p, "string"), StripQuotes(Peek(p).lexeme))
           q == Build2(Expression(Consume(key, "colon")), LAMBDA k, v : <<k, v>>)
       IN  IF Check(q, "rbrace") THEN Advance(q) ELSE Entries(Consume(q, "comma"))

Primary(p) ==
  LET q == Advance(p)
      lexeme == Peek(p).lexeme
  IN  CASE Check(p, "number")     -> Push(q, LiteralExpr("number", lexeme))
        [] Check(p, "identifier") -> Push(q, VariableExpr(lexeme))
        [] Check(p, "string")     -> Push(q, LiteralExpr("string", StripQuotes(lexeme)))
        [] CheckAny(p, {"true", "false"}) -> Push(q, LiteralExpr("bool", lexeme))
        [] Check(p, "null")       -> Push(q, LiteralExpr("null", lexeme))
        [] Check(p, "lparen")     -> Consume(Expression(q), "rparen")
        [] Check(p, "lbracket")   -> Build1(Gather(Elements(q), Len(p.out)), ListExpr)
        [] Check(p, "lbrace")     -> Build1(Gather(Entries(q), Len(p.out)), DictExpr)
        [] Check(p, "this")       -> Push(q, ThisExpr)
        [] Check(p, "super")      -> Build1(Name(Consume(q, "dot")), SuperExpr)
        [] OTHER                  -> Fail(p)

\* Expressions with commas between them.  255 of them are more than any input has.
Arguments(p) ==
  LET q == Expression(p)
  IN  IF Check(q, "comma") THEN Arguments(Advance(q)) ELSE q

\* Indices, calls and properties.
MoreSuffixes(p) ==
  LET q == Advance(p)
  IN  CASE Check(p, "lbracket") ->
             MoreSuffixes(Build2(Consume(Expression(q), "rbracket"), IndexExpr))
        [] Check(p, "lparen") ->
             LET args == IF Check(q, "rparen") THEN q ELSE Arguments(q)
             IN  MoreSuffixes(Build2(Gather(Consume(args, "rparen"), Len(p.out)), CallExpr))
        [] Check(p, "dot") -> MoreSuffixes(Build2(Name(q), GetPropExpr))
        [] OTHER -> p

ProFix(p) == MoreSuffixes(Primary(p))

Unary(p) ==
  IF CheckAny(p, {"minus", "not"})
    THEN Build2(Unary(Push(Advance(p), OperatorOf[Peek(p).kind])), UnaryExpr)
    ELSE ProFix(p)

-----------------------------------------------------------------------------
(* Statements                                                               *)

RECURSIVE Statement(_), Declaration(_), Declarations(_), Parameters(_), Methods(_)

PrintStatement(p) == Build1(Consume(Expression(p), "semicolon"), PrintStmt)

ExprStatement(p) == Build1(Consume(Expression(p), "semicolon"), ExprStmt)

ReturnStatement(p) == Build1(Consume(Expression(p), "semicolon"), ReturnStmt)

VarDeclaration(p) ==
  LET name == Name(p)
      q == IF Check(name, "equal") THEN Expression(Advance(name)) ELSE Push(name, None)
  IN  Build2(Consume(q, "semicolon"), VarStmt)

\* The name is whatever token stands there.
AssignStatement(p, requireSemicolon) ==
  LET q == Expression(Consume(Push(Advance(p), Peek(p).lexeme), "equal"))
  IN  Build2(IF requireSemicolon THEN Consume(q, "semicolon") ELSE q, AssignStmt)

IndexAssignStatement(p) ==
  LET object == Build1(Name(p), VariableExpr)
      index == Consume(Expression(Consume(object, "lbracket")), "rbracket")
  IN  Build3(Consume(Expression(Consume(index, "equal")), "semicolon"), IndexAssignStmt)

PropAssignStatement(p) ==
  LET object == IF Check(p, "this") THEN Push(Advance(p), ThisExpr)
                ELSE Build1(Name(p), VariableExpr)
      name == Name(Consume(object, "dot"))
  IN  Build3(Consume(Expression(Consume(name, "equal")), "semicolon"), PropAssignStmt)

Condition(p) == Consume(Expression(Consume(p, "lparen")), "rparen")

WhileStatement(p) == Build2(Statement(Condition(p)), WhileStmt)

ForInit(p) ==
  CASE Check(p, "semicolon") -> Push(Advance(p), None)
    [] Check(p, "var")       -> VarDeclaration(Advance(p))
    [] OTHER                 -> AssignStatement(p, TRUE)

\* Without a condition the loop goes on for ever.
ForCondition(p) ==
  Consume(IF Check(p, "semicolon") THEN Push(p, LiteralExpr("bool", "true")) ELSE Expression(p),
          "semicolon")

ForStep(p) ==
  CASE Check(p, "rparen")   -> Push(p, None)
    [] IsAssignmentAhead(p) -> AssignStatement(p, FALSE)
    [] OTHER                -> Build1(Expression(p), ExprStmt)

ForStatement(p) ==
  LET header == ForStep(ForCondition(ForInit(Consume(p, "lparen"))))
  IN  Build4(Statement(Consume(header, "rparen")), ForStmt)

\* Variant: the branch after else belongs to the outermost if.
IfStatementBug(p) ==
  LET q == Statement(Condition(p))
  IN  IF Check(q, "else") /\ q.out[Len(q.out)][1] # "if"
        THEN Build3(Statement(Advance(q)), IfStmt)
        ELSE Build3(Push(q, None), IfStmt)

\* The branch after else belongs to the innermost if that has none.
IfStatement(p) ==
  LET q == Statement(Condition(p))
  IN  Build3(IF Check(q, "else") THEN Statement(Advance(q)) ELSE Push(q, None), IfStmt)

Declarations(p) ==
  IF IsAtEnd(p) \/ Check(p, "rbrace") \/ ~p.ok THEN p ELSE Declarations(Declaration(p))

BlockStatement(p) ==
  Build1(Gather(Consume(Declarations(p), "rbrace"), Len(p.out)), BlockStmt)

\* Names, with a comma after the last one or none.
Parameters(p) ==
  IF Check(p, "rparen") \/ ~p.ok THEN p
  ELSE LET q == Name(p)
       IN  IF Check(q, "rparen") THEN q ELSE Parameters(Consume(q, "comma"))

FuncitonDeclaration(p) ==
  LET name == Name(p)
      params == Gather(Parameters(Consume(name, "lparen")), Len(name.out))
      body == BlockStatement(Consume(Consume(params, "rparen"), "lbrace"))
  IN  Build3(body, LAMBDA f, ps, b : FunctionStmt(f, ps, b[2]))

Methods(p) ==
  IF Check(p, "rbrace") \/ IsAtEnd(p) \/ ~p.ok THEN p
  ELSE Methods(FuncitonDeclaration(Consume(p, "fun")))

ClassDeclaration(p) ==
  LET name == Name(p)
      super == IF Check(name, "colon") THEN Name(Advance(name)) ELSE Push(name, "")
      methods == Methods(Consume(super, "lbrace"))
  IN  Build3(Gather(Consume(methods, "rbrace"), Len(super.out)), ClassStmt)

Statement(p) ==
  LET q == Advance(p)
  IN  CASE Check(p, "lbrace")   -> BlockStatement(q)
        [] Check(p, "print")    -> PrintStatement(q)
        [] Check(p, "while")    -> WhileStatement(q)
        [] Check(p, "for")      -> ForStatement(q)
        [] Check(p, "break")    -> Push(Consume(q, "semicolon"), BreakStmt)
        [] Check(p, "continue") -> Push(Consume(q, "semicolon"), ContinueStmt)
        [] Check(p, "if")       -> IfStatement(q)
        [] IsIndexAssignAhead(p) -> IndexAssignStatement(p)
        [] IsAssignmentAhead(p) -> AssignStatement(p, TRUE)
        [] Check(p, "return")   -> ReturnStatement(q)
        [] IsPropAssignAhead(p) -> PropAssignStatement(p)
        [] OTHER                -> ExprStatement(p)

\* block_depth_ is 0 wherever this is called from.
Declaration(p) ==
  CASE Check(p, "var")   -> VarDeclaration(Advance(p))
    [] Check(p, "fun")   -> FuncitonDeclaration(Advance(p))
    [] Check(p, "class") -> ClassDeclaration(Advance(p))
    [] OTHER             -> Statement(p)

-----------------------------------------------------------------------------
(* ParseProgram, one declaration at a time.                                  *)

\* A parser of the tokens of input.
Start(input) ==
  [tokens |-> Append(input, Token("eof", "")), current |-> 0, out |-> <<>>, ok |-> TRUE]

ParseDeclaration ==
  /\ parser.ok /\ ~IsAtEnd(parser)
  /\ parser' = Declaration(parser)
=============================================================================
