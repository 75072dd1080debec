------------------------------ MODULE Grammar -------------------------------
(***************************************************************************)
(* The language as a grammar: which trees a sequence of tokens may stand for, *)
(* by how it can be split, without order, lookahead or state.  This is a      *)
(* reference for Parser.tla and has no counterpart in the program.  Where the *)
(* comments and asserts of the parser say what is in the language (functions  *)
(* and classes at the top only, assignments to names), it follows them.       *)
(***************************************************************************)
EXTENDS Syntax

\* The tokens of ts are of these kinds.
Are(ts, kinds) == [i \in DOMAIN ts |-> ts[i].kind] = kinds

\* Where tokens of these kinds stand in ts.
At(ts, kinds) == {i \in DOMAIN ts : ts[i].kind \in kinds}

From(ts, i) == SubSeq(ts, i, Len(ts))
Until(ts, i) == SubSeq(ts, 1, i - 1)
Between(ts, i, j) == SubSeq(ts, i + 1, j - 1)

Begins(ts, kinds) == Len(kinds) <= Len(ts) /\ Are(SubSeq(ts, 1, Len(kinds)), kinds)
Ends(ts, kinds) ==
  Len(kinds) <= Len(ts) /\ Are(SubSeq(ts, Len(ts) - Len(kinds) + 1, Len(ts)), kinds)

Unquoted(t) == SubSeq(t.lexeme, 2, Len(t.lexeme) - 1)

-----------------------------------------------------------------------------
Level == <<[equal_equal |-> "eq", not_equal |-> "ne"], [less |-> "less", greater |-> "greater"],
           [plus |-> "plus", minus |-> "minus"], [star |-> "star", slash |-> "slash"]>>

RECURSIVE Expr(_, _), Listed(_, _), Item(_, _), Prefixed(_), Operand(_)

\* Expressions whose operators bind as tightly as level's or tighter: an operator
\* of the level splits it, with tighter operators only on the right.
Expr(ts, level) ==
  IF level > Len(Level) THEN Prefixed(ts)
  ELSE Expr(ts, level + 1)
       \cup {<<"binary", Level[level][ts[i].kind], l, r>> : <<i, l, r>> \in
               UNION {{i} \X Expr(Until(ts, i), level) \X Expr(From(ts, i + 1), level + 1) :
                        i \in At(ts, DOMAIN Level[level])}}

Prefixed(ts) ==
  IF Begins(ts, <<"minus">>) \/ Begins(ts, <<"not">>)
    THEN {<<"unary", ts[1].kind, e>> : e \in Prefixed(Tail(ts))}
    ELSE Operand(ts)

\* Sequences with commas between the items.
Item(ts, what) ==
  CASE what = "name"  -> IF Are(ts, <<"identifier">>) THEN {ts[1].lexeme} ELSE {}
    [] what = "entry" -> IF Begins(ts, <<"string", "colon">>)
                           THEN {Unquoted(ts[1])} \X Expr(From(ts, 3), 1) ELSE {}
    [] OTHER          -> Expr(ts, 1)

Listed(ts, what) ==
  {<<e>> : e \in Item(ts, what)}
    \cup UNION {{<<e>> \o es : e \in Item(Until(ts, i), what), es \in Listed(From(ts, i + 1), what)} :
                  i \in At(ts, {"comma"})}

\* No item, or several.
Series(ts, what) == IF ts = <<>> THEN {<<>>} ELSE Listed(ts, what)

\* The same, where a comma may follow the last item.
Trailing(ts, what) ==
  Series(ts, what) \cup (IF Ends(ts, <<"comma">>) THEN Listed(Front(ts), what) ELSE {})

Literal(ts) ==
  CASE Are(ts, <<"number">>)     -> {<<"num", NumberOf(ts[1].lexeme)>>}
    [] Are(ts, <<"string">>)     -> {<<"str", Unquoted(ts[1])>>}
    [] Are(ts, <<"identifier">>) -> {<<"var", ts[1].lexeme>>}
    [] Are(ts, <<"true">>) \/ Are(ts, <<"false">>) -> {<<"bool", ts[1].kind = "true">>}
    [] Are(ts, <<"null">>) \/ Are(ts, <<"this">>)  -> {<<ts[1].kind>>}
    [] Are(ts, <<"super", "dot", "identifier">>)   -> {<<"super", ts[3].lexeme>>}
    [] OTHER -> {}

Bracketed(ts) ==
  LET inner == Between(ts, 1, Len(ts))
  IN  CASE Begins(ts, <<"lparen">>) /\ Ends(ts, <<"rparen">>) -> Expr(inner, 1)
        [] Begins(ts, <<"lbracket">>) /\ Ends(ts, <<"rbracket">>) ->
             {<<"list", es>> : es \in Trailing(inner, "expr")}
        [] Begins(ts, <<"lbrace">>) /\ Ends(ts, <<"rbrace">>) ->
             {<<"dict", es>> : es \in Trailing(inner, "entry")}
        [] OTHER -> {}

Suffixed(ts) ==
  CASE Ends(ts, <<"rbracket">>) ->
         UNION {{<<"index", o, e>> : o \in Operand(Until(ts, i)),
                                     e \in Expr(Between(ts, i, Len(ts)), 1)} :
                  i \in At(ts, {"lbracket"})}
    [] Ends(ts, <<"rparen">>) ->
         UNION {{<<"call", f, es>> : f \in Operand(Until(ts, i)),
                                     es \in Series(Between(ts, i, Len(ts)), "expr")} :
                  i \in At(ts, {"lparen"})}
    [] Ends(ts, <<"dot", "identifier">>) ->
         {<<"get", o, Last(ts).lexeme>> : o \in Operand(Until(ts, Len(ts) - 1))}
    [] OTHER -> {}

Operand(ts) == IF ts = <<>> THEN {} ELSE Literal(ts) \cup Bracketed(ts) \cup Suffixed(ts)

-----------------------------------------------------------------------------
RECURSIVE Stmt(_), Body(_), Decls(_), Open(_), Funs(_)

\* An else after s would belong to s.
Open(s) ==
  \/ s[1] = "if" /\ (s[4] = None \/ Open(s[4]))
  \/ s[1] \in {"while", "for"} /\ Open(Last(s))

\* x = e, without what follows.
Assignment(ts) ==
  IF Begins(ts, <<"identifier", "equal">>)
    THEN {<<"assign", ts[1].lexeme, e>> : e \in Expr(From(ts, 3), 1)} ELSE {}

\* What ends with a semicolon, without it.
Simple(ts) ==
  LET e(i) == Expr(From(ts, i), 1)
  IN  CASE Begins(ts, <<"print">>)  -> {<<"print", x>> : x \in e(2)}
        [] Begins(ts, <<"return">>) -> {<<"return", x>> : x \in e(2)}
        [] Are(ts, <<"break">>) \/ Are(ts, <<"continue">>) -> {<<ts[1].kind>>}
        [] Begins(ts, <<"var", "identifier", "equal">>) ->
             {<<"vardecl", ts[2].lexeme, x>> : x \in e(4)}
        [] Are(ts, <<"var", "identifier">>) -> {<<"vardecl", ts[2].lexeme, None>>}
        [] Begins(ts, <<"identifier", "equal">>) -> Assignment(ts)
        [] Begins(ts, <<"identifier", "dot", "identifier", "equal">>) ->
             {<<"propassign", <<"var", ts[1].lexeme>>, ts[3].lexeme, x>> : x \in e(5)}
        [] Begins(ts, <<"this", "dot", "identifier", "equal">>) ->
             {<<"propassign", <<"this">>, ts[3].lexeme, x>> : x \in e(5)}
        [] Begins(ts, <<"lbrace">>) -> {}
        [] OTHER -> {<<"expr", x>> : x \in e(1)}
             \cup UNION {{<<"indexassign", <<"var", ts[1].lexeme>>, x, y>> :
                             x \in Expr(Between(ts, 2, i), 1), y \in e(i + 2)} :
                           i \in {i \in At(ts, {"rbracket"}) :
                                    /\ Begins(ts, <<"identifier", "lbracket">>)
                                    /\ Begins(From(ts, i), <<"rbracket", "equal">>)}}

\* The first clause of a for loop: nothing, a declaration, or x = e (parser.h:108).
ForInit(ts) ==
  CASE ts = <<>> -> {None}
    [] Begins(ts, <<"var">>) -> Simple(ts)
    [] OTHER -> Assignment(ts)

ForHead(ts) ==
  UNION {{<<"for", init, cond, step>> :
            init \in ForInit(Until(ts, i)),
            cond \in IF j = i + 1 THEN {<<"bool", TRUE>>} ELSE Expr(Between(ts, i, j), 1),
            step \in IF j = Len(ts) THEN {None}
                     ELSE Assignment(From(ts, j + 1))
                          \cup {<<"expr", e>> : e \in Expr(From(ts, j + 1), 1)}} :
           <<i, j>> \in {p \in At(ts, {"semicolon"}) \X At(ts, {"semicolon"}) : p[1] < p[2]}}

\* Statements that begin with what is in parentheses.
Headed(ts) ==
  UNION {LET head == Between(ts, 2, i)
             rest == From(ts, i + 1)
         IN  CASE ts[1].kind = "while" -> {<<"while", c, s>> : c \in Expr(head, 1), s \in Stmt(rest)}
               [] ts[1].kind = "for" -> {Append(h, s) : h \in ForHead(head), s \in Stmt(rest)}
               [] ts[1].kind = "if" ->
                    {<<"if", c, s, None>> : c \in Expr(head, 1), s \in Stmt(rest)}
                      \cup UNION {{<<"if", c, s, t>> :
                                     c \in Expr(head, 1),
                                     s \in {s \in Stmt(Until(rest, j)) : ~Open(s)},
                                     t \in Stmt(From(rest, j + 1))} :
                                    j \in At(rest, {"else"})} :
           i \in At(ts, {"rparen"})}

Stmt(ts) ==
  CASE ts = <<>> -> {}
    [] Begins(ts, <<"lbrace">>) /\ Ends(ts, <<"rbrace">>) ->
         {<<"block", ss>> : ss \in Body(Between(ts, 1, Len(ts)))}
    [] Len(ts) > 1 /\ ts[1].kind \in {"while", "for", "if"} /\ ts[2].kind = "lparen" -> Headed(ts)
    [] Begins(ts, <<"var">>) -> {}
    [] Ends(ts, <<"semicolon">>) -> Simple(Front(ts))
    [] OTHER -> {}

\* f(x, ...) { ... }
Fun(ts) ==
  IF ~(Begins(ts, <<"identifier", "lparen">>) /\ Ends(ts, <<"rbrace">>)) THEN {}
  ELSE UNION {{<<"fun", ts[1].lexeme, ps, ss>> : ps \in Trailing(Between(ts, 2, i), "name"),
                                                 ss \in Body(Between(ts, i + 1, Len(ts)))} :
                i \in {i \in At(ts, {"rparen"}) : Begins(From(ts, i), <<"rparen", "lbrace">>)}}

\* Methods, each introduced by fun.
Funs(ts) ==
  IF ts = <<>> THEN {<<>>}
  ELSE IF ~Begins(ts, <<"fun">>) THEN {}
  ELSE UNION {{<<f>> \o fs : f \in Fun(Between(ts, 1, i + 1)), fs \in Funs(From(ts, i + 1))} :
                i \in At(ts, {"rbrace"})}

Class(ts) ==
  LET derived == Begins(ts, <<"identifier", "colon", "identifier", "lbrace">>)
  IN  IF ~Ends(ts, <<"rbrace">>) \/ ~(derived \/ Begins(ts, <<"identifier", "lbrace">>)) THEN {}
      ELSE {<<"class", ts[1].lexeme, IF derived THEN ts[3].lexeme ELSE "", ms>> :
              ms \in Funs(Between(ts, IF derived THEN 4 ELSE 2, Len(ts)))}

\* What a block may have: variables and statements, but neither functions nor
\* classes (parser.h:148, parser.cc:558, 562).
Local(ts) ==
  IF Begins(ts, <<"var">>) /\ Ends(ts, <<"semicolon">>) THEN Simple(Front(ts)) ELSE Stmt(ts)

Decl(ts) ==
  CASE Begins(ts, <<"fun">>)   -> Fun(Tail(ts))
    [] Begins(ts, <<"class">>) -> Class(Tail(ts))
    [] OTHER                   -> Local(ts)

\* Where a declaration may end.
Stops(ts) == At(ts, {"semicolon", "rbrace"})

Body(ts) ==
  IF ts = <<>> THEN {<<>>}
  ELSE UNION {{<<d>> \o ds : d \in Local(SubSeq(ts, 1, i)), ds \in Body(From(ts, i + 1))} :
                i \in Stops(ts)}

Decls(ts) ==
  IF ts = <<>> THEN {<<>>}
  ELSE UNION {{<<d>> \o ds : d \in Decl(SubSeq(ts, 1, i)), ds \in Decls(From(ts, i + 1))} :
                i \in Stops(ts)}
=============================================================================
