------------------------------ MODULE MCParser ------------------------------
(* Parser.tla on every sequence of a few fragments of program text, against  *)
(* the grammar.                                                              *)
EXTENDS Parser, FiniteSets

CONSTANT Subjects   \* which of the materials below

G == INSTANCE Grammar

KindOf ==
  [x |-> "identifier", y |-> "identifier", A |-> "identifier", this |-> "this", super |-> "super",
   true |-> "true", null |-> "null", var |-> "var", fun |-> "fun", class |-> "class",
   if |-> "if", else |-> "else", while |-> "while", for |-> "for", break |-> "break",
   continue |-> "continue", return |-> "return", print |-> "print"]
  @@ "1" :> "number" @@ "\"k\"" :> "string"
  @@ "(" :> "lparen" @@ ")" :> "rparen" @@ "{" :> "lbrace" @@ "}" :> "rbrace"
  @@ "[" :> "lbracket" @@ "]" :> "rbracket" @@ "," :> "comma" @@ ";" :> "semicolon"
  @@ ":" :> "colon" @@ "." :> "dot" @@ "=" :> "equal" @@ "==" :> "equal_equal"
  @@ "-" :> "minus" @@ "*" :> "star" @@ "<" :> "less" @@ "!" :> "not"

Tokens(words) == [i \in DOMAIN words |-> Token(KindOf[words[i]], words[i])]

\* The fragments, what comes before and after them, and how many there are (bound).
Material ==
  [operators |->
     [before |-> <<>>, after |-> <<";">>, most |-> 5, parts |->
        {<<"x">>, <<"x", "-">>, <<"x", "*">>, <<"x", "==">>, <<"y", "<">>, <<"(">>, <<")">>,
         <<"-">>, <<"!">>, <<",">>}],
   operands |->
     [before |-> <<"print">>, after |-> <<";">>, most |-> 6, parts |->
        {<<"[">>, <<"]">>, <<"{">>, <<"}">>, <<"\"k\"", ":">>, <<"1">>, <<"1", ",">>}],
   assignments |->
     [before |-> <<>>, after |-> <<>>, most |-> 6, parts |->
        {<<"x", "[">>, <<"x">>, <<"]">>, <<".", "y">>, <<"=", "1", ";">>, <<"this">>, <<";">>}],
   branches |->
     [before |-> <<>>, after |-> <<>>, most |-> 7, parts |->
        {<<"if", "(", "super", ".", "x", ")">>, <<"else">>, <<"break", ";">>,
         <<"while", "(", "null", ")">>, <<"{">>, <<"}">>}],
   loops |->
     [before |-> <<"for", "(">>, after |-> <<")", "continue", ";">>, most |-> 7, parts |->
        {<<"var">>, <<"x">>, <<"x", "=", "1">>, <<";">>, <<"true">>}],
   steps |->
     [before |-> <<"for", "(", "var", "x">>, after |-> <<")", "continue", ";">>, most |-> 7, parts |->
        {<<"x">>, <<"=", "1">>, <<";">>, <<"true">>}],
   declarations |->
     [before |-> <<>>, after |-> <<>>, most |-> 6, parts |->
        {<<"class", "A", "{">>, <<"class", "A", ":", "A", "{">>, <<"fun", "x", "(">>, <<"x">>,
         <<",">>, <<")", "{", "}">>, <<"}">>, <<"var", "y", ";">>}],
   bodies |->
     [before |-> <<"fun", "x", "(", ")">>, after |-> <<>>, most |-> 6, parts |->
        {<<"{">>, <<"}">>, <<"return", "x", ";">>, <<"var">>, <<"y">>, <<";">>}],
   \* The parser takes more than the grammar of the next two.
   nested |->
     [before |-> <<"{">>, after |-> <<"}">>, most |-> 3, parts |->
        {<<"fun", "x", "(", ")">>, <<"class", "A">>, <<"{">>, <<"}">>, <<"return", "1", ";">>}],
   targets |->
     [before |-> <<"for", "(">>, after |-> <<")", "continue", ";">>, most |-> 5, parts |->
        {<<"true">>, <<"x">>, <<"=", "1">>, <<";">>}]]

\* The parts are chosen one by one, all before the parser starts.
Init ==
  \E s \in Subjects : \E n \in 0..Material[s].most : \E parts \in [1..n -> Material[s].parts] :
    LET words[i \in 0..n] == IF i = 0 THEN Material[s].before ELSE words[i - 1] \o parts[i]
    IN  parser = Start(Tokens(words[n] \o Material[s].after))

Next == ParseDeclaration

Spec == Init /\ [][Next]_parser

-----------------------------------------------------------------------------
(* Properties                                                               *)

\* The parser accepts what the grammar derives, all of it and nothing else, and
\* builds the one tree that the grammar has for it: precedence and associativity,
\* the three lookaheads that tell assignments from expressions, else with the
\* innermost if, trailing commas, declarations at the top (parser.cc Statement,
\* IsIndexAssignAhead, IsPropAssignAhead, Equality ... ProFix, IfStatement,
\* ForStatement, Declaration).  It is false of texts with functions in blocks and of
\* for loops that begin by assigning to a literal.
GrammarAgrees ==
  LET derived == G!Decls(Front(parser.tokens))
  IN  IF ~parser.ok THEN derived = {} ELSE IsAtEnd(parser) => derived = {parser.out}
=============================================================================
