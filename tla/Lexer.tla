------------------------------- MODULE Lexer --------------------------------
(***************************************************************************)
(* frontend/lexer.cc: from characters to tokens, a character at a time.       *)
(*                                                                          *)
(* The source is a sequence of characters.  mode says which loop of the       *)
(* lexer is running: "between" is SkipWhitespace, "comment" its inner loop,   *)
(* "identifier", "number" and "string" are the loops of ScanIdentifier,       *)
(* ScanNumber and ScanString, "done" is the end of ScanAll and "failed" a     *)
(* failed assert.  The lexeme of a token is given by where it stands: the     *)
(* characters after the first from up to and including to.                    *)
(***************************************************************************)
EXTENDS Syntax

CONSTANTS
  Char,           \* the characters that a source may have
  Alpha, Digits,  \* those that IsAlpha and IsDigit accept
  Sources         \* the sources to scan

ASSUME LexerAssumption ==
  /\ Sources \subseteq Seq(Char)
  /\ Alpha \subseteq Char /\ Digits \subseteq Char
  /\ Alpha \cap Digits = {}

VARIABLES
  source,         \* source_
  mode,
  current,        \* current_, the number of characters that have been read
  line, col,      \* line_, col_
  first,          \* start_, token_start_line_ and token_start_col_
  tokens          \* what ScanAll has so far

vars == <<source, mode, current, line, col, first, tokens>>

Blank == {" ", "\r", "\t", "\n"}

Quote == "\""

AlphaNumeric == Alpha \cup Digits

IsAtEnd == current >= Len(source)

\* What Peek and PeekNext see; nothing at the end.
Peek == IF IsAtEnd THEN {} ELSE {source[current + 1]}
PeekNext == IF current + 1 >= Len(source) THEN {} ELSE {source[current + 2]}

Sees(chars) == Peek \subseteq chars /\ ~IsAtEnd

Position == [at |-> current, line |-> line, col |-> col]

\* Variant: a new line does not reset the column.
AdvanceBug ==
  /\ current' = current + 1
  /\ line' = IF Sees({"\n"}) THEN line + 1 ELSE line
  /\ col' = col + 1

Advance ==
  /\ current' = current + 1
  /\ IF Sees({"\n"}) THEN line' = line + 1 /\ col' = 1 ELSE line' = line /\ col' = col + 1

\* Variant: the lexeme has a character too many.
MakeTokenBug(kind, start, to) ==
  [kind |-> kind, from |-> start.at, to |-> to + 1, line |-> start.line, col |-> start.col]

\* MakeToken, when current_ is to.
MakeToken(kind, start, to) ==
  [kind |-> kind, from |-> start.at, to |-> to, line |-> start.line, col |-> start.col]

-----------------------------------------------------------------------------
(* SkipWhitespace                                                           *)

SkipBlank ==
  /\ mode = "between" /\ Sees(Blank)
  /\ Advance
  /\ UNCHANGED <<source, mode, first, tokens>>

AtComment == Sees({"/"}) /\ PeekNext = {"/"}

BeginComment ==
  /\ mode = "between" /\ AtComment
  /\ Advance /\ mode' = "comment"
  /\ UNCHANGED <<source, first, tokens>>

\* A comment takes its new line with it.
SkipComment ==
  /\ mode = "comment" /\ ~IsAtEnd
  /\ Advance
  /\ mode' = IF Sees({"\n"}) THEN "between" ELSE mode
  /\ UNCHANGED <<source, first, tokens>>

\* Variant: a comment without a new line never ends.
EndCommentBug == FALSE

EndComment ==
  /\ mode = "comment" /\ IsAtEnd
  /\ mode' = "between"
  /\ UNCHANGED <<source, current, line, col, first, tokens>>

-----------------------------------------------------------------------------
(* ScanToken                                                                *)

\* The tokens of one character that no other token begins with.
Symbol ==
  [c \in {"(", ")", "{", "}", "[", "]", ",", ";", ":", ".", "+", "-", "*", "/", "<", ">"} |->
     CASE c = "(" -> "lparen"   [] c = ")" -> "rparen"   [] c = "{" -> "lbrace"
       [] c = "}" -> "rbrace"   [] c = "[" -> "lbracket" [] c = "]" -> "rbracket"
       [] c = "," -> "comma"    [] c = ";" -> "semicolon" [] c = ":" -> "colon"
       [] c = "." -> "dot"      [] c = "+" -> "plus"     [] c = "-" -> "minus"
       [] c = "*" -> "star"     [] c = "/" -> "slash"    [] c = "<" -> "less"
       [] c = ">" -> "greater"]

\* = and !, alone and with = behind.
Equals == [c \in {"=", "!"} |->
             IF c = "=" THEN <<"equal", "equal_equal">> ELSE <<"not", "not_equal">>]

\* Letters, digits and _ begin no other token.
ASSUME AlphaNumericAssumption ==
  AlphaNumeric \cap (Blank \cup {Quote} \cup DOMAIN Symbol \cup DOMAIN Equals) = {}

\* ScanAll comes to a token: the mode that reads the rest of it.
Begin(chars, next) ==
  /\ mode = "between" /\ Sees(chars)
  /\ Advance
  /\ mode' = next /\ first' = Position
  /\ UNCHANGED <<source, tokens>>

ScanIdentifier == Begin(Alpha, "identifier")
ScanNumber == Begin(Digits, "number")
ScanString == Begin({Quote}, "string")

ScanSymbol ==
  /\ mode = "between" /\ Sees(DOMAIN Symbol) /\ ~AtComment
  /\ Advance
  /\ first' = Position
  /\ tokens' = Append(tokens, MakeToken(Symbol[source[current + 1]], Position, current + 1))
  /\ UNCHANGED <<source, mode>>

\* Variant: = is not looked for behind it.
ScanEqualsBug ==
  /\ mode = "between" /\ Sees(DOMAIN Equals)
  /\ Advance
  /\ first' = Position
  /\ tokens' = Append(tokens, MakeToken(Equals[source[current + 1]][1], Position, current + 1))
  /\ UNCHANGED <<source, mode>>

\* Match moves on by a character that is no new line.
ScanEquals ==
  /\ mode = "between" /\ Sees(DOMAIN Equals)
  /\ LET n == IF PeekNext = {"="} THEN 2 ELSE 1
     IN  /\ current' = current + n /\ col' = col + n
         /\ tokens' = Append(tokens, MakeToken(Equals[source[current + 1]][n], Position, current + n))
  /\ first' = Position
  /\ UNCHANGED <<source, mode, line>>

Fail ==
  /\ mode' = "failed"
  /\ UNCHANGED <<source, current, line, col, first, tokens>>

ScanUnknown ==
  /\ mode = "between" /\ ~IsAtEnd
  /\ ~Sees(Blank \cup AlphaNumeric \cup {Quote} \cup DOMAIN Symbol \cup DOMAIN Equals)
  /\ Fail

Keywords == {"var", "fun", "if", "else", "for", "while", "break", "continue", "print",
             "true", "false", "null", "return", "class", "this", "super"}

\* Variant: a word is a keyword if it begins with one.
KindOfWordBug(word) ==
  IF \E k \in Keywords : IsPrefix(Chars(k), word)
    THEN CHOOSE k \in Keywords : IsPrefix(Chars(k), word) ELSE "identifier"

KindOfWord(word) ==
  IF \E k \in Keywords : Chars(k) = word THEN CHOOSE k \in Keywords : Chars(k) = word
  ELSE "identifier"

\* The loop of the mode: while it sees one of chars.
Continue(in, chars) ==
  /\ mode = in /\ Sees(chars)
  /\ Advance
  /\ UNCHANGED <<source, mode, first, tokens>>

\* ... and its end.
End(in, chars, kind) ==
  /\ mode = in /\ ~Sees(chars)
  /\ tokens' = Append(tokens, MakeToken(kind, first, current))
  /\ mode' = "between"
  /\ UNCHANGED <<source, current, line, col, first>>

ReadIdentifier == Continue("identifier", AlphaNumeric)
ReadNumber == Continue("number", Digits)
ReadString == Continue("string", Char \ {"\n", Quote})

EndIdentifier ==
  End("identifier", AlphaNumeric, KindOfWord(SubSeq(source, first.at + 1, current)))
EndNumber == End("number", Digits, "number")

\* The closing quote is part of the token.
EndString ==
  /\ mode = "string" /\ Sees({Quote})
  /\ Advance
  /\ tokens' = Append(tokens, MakeToken("string", first, current + 1))
  /\ mode' = "between"
  /\ UNCHANGED <<source, first>>

OpenString == mode = "string" /\ (IsAtEnd \/ Sees({"\n"})) /\ Fail

\* ScanAll adds eof.
ScanEof ==
  /\ mode = "between" /\ IsAtEnd
  /\ tokens' = Append(tokens, MakeToken("eof", Position, current))
  /\ mode' = "done"
  /\ UNCHANGED <<source, current, line, col, first>>

-----------------------------------------------------------------------------
Init ==
  /\ source \in Sources
  /\ mode = "between"
  /\ current = 0 /\ line = 1 /\ col = 1
  /\ first = Position
  /\ tokens = <<>>

SkipWhitespace == SkipBlank \/ BeginComment \/ SkipComment \/ EndComment

ScanToken ==
  \/ ScanIdentifier \/ ReadIdentifier \/ EndIdentifier
  \/ ScanNumber \/ ReadNumber \/ EndNumber
  \/ ScanString \/ ReadString \/ EndString \/ OpenString
  \/ ScanSymbol \/ ScanEquals \/ ScanUnknown

Next == SkipWhitespace \/ ScanToken \/ ScanEof

Spec == Init /\ [][Next]_vars /\ WF_vars(Next)

-----------------------------------------------------------------------------
(* Properties                                                               *)

TypeOK ==
  /\ source \in Seq(Char)
  /\ mode \in {"between", "comment", "identifier", "number", "string", "done", "failed"}
  /\ current \in 0..Len(source) /\ line \in Nat \ {0} /\ col \in Nat \ {0}
  /\ first.at \in 0..current
  /\ \A i \in DOMAIN tokens : 0 <= tokens[i].from /\ tokens[i].to <= current

\* The lines and columns that errors are reported at: a token's line is one more
\* than the new lines before it, its column one more than the characters since the
\* last of them, through blanks, comments, and tokens that Match or the loops of
\* ScanToken read (lexer.cc Advance, Match, SkipWhitespace, ScanAll; lexer.h Token).
NewLines(at) == {i \in 1..at : source[i] = "\n"}

TruePosition(at, l, c) ==
  /\ l = Cardinality(NewLines(at)) + 1
  /\ \E last \in NewLines(at) \cup {0} : c = at - last + 1 /\ \A i \in NewLines(at) : i <= last

PositionsTrue ==
  /\ TruePosition(current, line, col)
  /\ \A i \in DOMAIN tokens : TruePosition(tokens[i].from, tokens[i].line, tokens[i].col)

\* What the text s is behind place a, up to place b: the kind of one token, "blank"
\* or "comment"; "" if it is none of these.
IsComment(s, a, b) ==
  b > a + 1 /\ s[a + 1] = "/" /\ s[a + 2] = "/" /\ \A i \in (a + 2)..(b - 1) : s[i] # "\n"

IsString(s, a, b) ==
  b > a + 1 /\ s[a + 1] = Quote /\ s[b] = Quote /\ \A i \in (a + 2)..(b - 1) : s[i] \notin {Quote, "\n"}

IsWord(s, a, b) == s[a + 1] \in Alpha /\ \A i \in (a + 1)..b : s[i] \in AlphaNumeric

\* Digits, with a point between them or without (lexer.h, TokenKind).
IsNumber(s, a, b) ==
  \/ \A i \in (a + 1)..b : s[i] \in Digits
  \/ \E p \in (a + 2)..(b - 1) :
       s[p] = "." /\ \A i \in (a + 1)..b : i # p => s[i] \in Digits

\* A point stands between two digits of s.
HasDecimal(s) ==
  \E p \in 2 .. Len(s) - 1 : s[p - 1] \in Digits /\ s[p] = "." /\ s[p + 1] \in Digits

Form(s, a, b) ==
  CASE b = a + 1 /\ s[b] \in Blank         -> "blank"
    [] IsComment(s, a, b)                  -> "comment"
    [] IsString(s, a, b)                   -> "string"
    [] IsNumber(s, a, b)                   -> "number"
    [] IsWord(s, a, b)                     -> KindOfWord(SubSeq(s, a + 1, b))
    [] b = a + 1 /\ s[b] \in DOMAIN Symbol -> Symbol[s[b]]
    [] b \in a + 1 .. a + 2 /\ s[a + 1] \in DOMAIN Equals /\ (b = a + 2 => s[b] = "=") ->
         Equals[s[a + 1]][b - a]
    [] OTHER                               -> ""

\* Where the longest of these ends that stands behind a; a if none does.
LongestTo(s, a) ==
  LET ends == {b \in a + 1 .. Len(s) : Form(s, a, b) # ""}
  IN  IF ends = {} THEN a ELSE Max(ends)

\* The text behind each place, cut into such parts up to its end or to where there
\* is none; blanks and comments are left out.
Parts(s) ==
  LET longest == [a \in 0..Len(s) |-> LongestTo(s, a)]
      parts[a \in 0..Len(s)] ==
        LET b == longest[a]
            kind == Form(s, a, b)
        IN  IF a = Len(s) THEN <<<<"eof", a, a>>>>
            ELSE IF b = a THEN <<>>
            ELSE (IF kind \in {"blank", "comment"} THEN <<>> ELSE <<<<kind, a, b>>>>) \o parts[b]
  IN  parts

\* The lexer finds the longest token at each place, leaves out blanks and comments,
\* and stops where there is none; it stops early nowhere else (lexer.cc ScanAll,
\* SkipWhitespace and ScanToken).  What a token is, numbers with a fraction included,
\* is what lexer.h says: of texts with such a number this is false.
LongestMatch ==
  mode \in {"done", "failed"} =>
    [i \in DOMAIN tokens |-> <<tokens[i].kind, tokens[i].from, tokens[i].to>>] = Parts(source)[0]

\* Every source is scanned to its end, or to the first thing that is no token
\* (lexer.cc ScanAll and the loops it calls).
Ends == <>(mode \in {"done", "failed"})
=============================================================================
