----------------------------- MODULE LexerProofs -----------------------------
(***************************************************************************)
(* Machine-checked proofs about Lexer.tla, for every set of characters and   *)
(* every source, of any length.                                             *)
(***************************************************************************)
EXTENDS Lexer, DataLemmas

Modes == {"between", "comment", "identifier", "number", "string", "done", "failed"}

Kinds ==
  {Symbol[c] : c \in DOMAIN Symbol} \cup {Equals[c][n] : c \in DOMAIN Equals, n \in 1..2}
    \cup Keywords \cup {"identifier", "number", "string", "eof"}

\* Where the lexer is, and where the token begins that it is reading.
Here ==
  /\ source \in Seq(Char)
  /\ mode \in Modes
  /\ current \in 0..Len(source) /\ line \in Nat \ {0} /\ col \in Nat \ {0}
  /\ TruePosition(current, line, col)

Began ==
  /\ first \in [at : Nat, line : Nat \ {0}, col : Nat \ {0}]
  /\ first.at <= current
  /\ TruePosition(first.at, first.line, first.col)

\* The tokens so far.
Placed == [kind : Kinds, from : Nat, to : Nat, line : Nat \ {0}, col : Nat \ {0}]

TokensPlaced ==
  /\ tokens \in Seq(Placed)
  /\ \A i \in 1..Len(tokens) :
       tokens[i].to <= current /\ TruePosition(tokens[i].from, tokens[i].line, tokens[i].col)

IInv == Here /\ Began /\ TokensPlaced

-----------------------------------------------------------------------------
(* Positions                                                                *)

LEMMA NewLinesFinite == ASSUME NEW at \in Nat PROVE IsFiniteSet(NewLines(at))
<1>1. IsFiniteSet(1..at)
  BY FS_Interval
<1> QED
  BY <1>1, FS_Subset DEF NewLines

\* One character further: on the next line after a new line, else a column further.
LEMMA NextPosition ==
  ASSUME NEW at \in Nat, NEW l \in Nat, NEW c \in Nat, TruePosition(at, l, c)
  PROVE  /\ source[at + 1] = "\n" => TruePosition(at + 1, l + 1, 1)
         /\ source[at + 1] # "\n" => TruePosition(at + 1, l, c + 1)
<1>1. 1..(at + 1) = (1..at) \cup {at + 1} /\ at + 1 \notin 1..at
  OBVIOUS
<1>2. \A i \in NewLines(at) : i \in Nat /\ i <= at
  BY DEF NewLines
<1>3. CASE source[at + 1] = "\n"
  <2>1. NewLines(at + 1) = NewLines(at) \cup {at + 1} /\ at + 1 \notin NewLines(at)
    BY <1>1, <1>3 DEF NewLines
  <2>2. Cardinality(NewLines(at + 1)) = Cardinality(NewLines(at)) + 1
    BY <2>1, NewLinesFinite, FS_AddElement
  <2>3. \A i \in NewLines(at + 1) : i <= at + 1
    BY <1>2, <2>1
  <2>4. at + 1 \in NewLines(at + 1) /\ 1 = (at + 1) - (at + 1) + 1
    BY <2>1
  <2> QED
    BY <1>3, <2>2, <2>3, <2>4 DEF TruePosition
<1>4. CASE source[at + 1] # "\n"
  <2>1. NewLines(at + 1) = NewLines(at)
    BY <1>1, <1>4 DEF NewLines
  <2>2. PICK last \in NewLines(at) \cup {0} :
          c = at - last + 1 /\ \A i \in NewLines(at) : i <= last
    BY DEF TruePosition
  <2>3. c + 1 = (at + 1) - last + 1
    BY <1>2, <2>2
  <2> QED
    BY <1>4, <2>1, <2>2, <2>3 DEF TruePosition
<1> QED
  BY <1>3, <1>4

LEMMA SamePosition ==
  ASSUME source' = source, NEW at \in Nat, NEW l, NEW c
  PROVE  TruePosition(at, l, c)' <=> TruePosition(at, l, c)
BY DEF TruePosition, NewLines

\* Advance, when there is a character, comes to the place behind it.
LEMMA AdvanceHere ==
  ASSUME Here, current < Len(source), Advance, source' = source, mode' \in Modes
  PROVE  Here' /\ current' = current + 1
<1> USE DEF Here
<1>1. TruePosition(current', line', col') /\ line' \in Nat \ {0} /\ col' \in Nat \ {0}
  <2>1. CASE source[current + 1] = "\n"
    BY <2>1, NextPosition DEF Advance, Sees, Peek, IsAtEnd
  <2>2. CASE source[current + 1] # "\n"
    BY <2>2, NextPosition DEF Advance, Sees, Peek, IsAtEnd
  <2> QED
    BY <2>1, <2>2
<1>2. current' = current + 1 /\ current' \in 0..Len(source')
  BY DEF Advance
<1>3. TruePosition(current, line, col)'
  BY <1>1, <1>2 DEF TruePosition, NewLines
<1> QED
  BY <1>1, <1>2, <1>3

-----------------------------------------------------------------------------
(* What a step leaves, and what it adds                                     *)

LEMMA BeganStays ==
  ASSUME Here, Began, source' = source, first' = first, current' >= current, current' \in Nat
  PROVE  Began'
BY SamePosition DEF Began, Here

LEMMA BeganAnew ==
  ASSUME Here, source' = source, first' = Position, current' >= current, current' \in Nat
  PROVE  Began'
<1>1. first' = [at |-> current, line |-> line, col |-> col]
  BY DEF Position
<1> QED
  BY <1>1, SamePosition DEF Began, Here

LEMMA TokensStay ==
  ASSUME Here, TokensPlaced, source' = source, tokens' = tokens, current' >= current,
         current' \in Nat
  PROVE  TokensPlaced'
<1>1. \A i \in 1..Len(tokens) : tokens[i] \in Placed
  BY DEF TokensPlaced
<1>2. \A i \in 1..Len(tokens) : TruePosition(tokens[i].from, tokens[i].line, tokens[i].col)'
  BY <1>1, SamePosition DEF TokensPlaced, Placed
<1>3. \A i \in 1..Len(tokens) : tokens[i].to <= current'
  <2>1. \A t \in Placed : t.to \in Nat
    BY DEF Placed
  <2>2. current \in Nat
    BY DEF Here
  <2>3. \A i \in 1..Len(tokens) : tokens[i].to <= current
    BY DEF TokensPlaced
  <2>4. \A n \in Nat : n <= current => n <= current'
    BY <2>2
  <2> QED
    BY <1>1, <2>1, <2>3, <2>4
<1> QED
  BY <1>2, <1>3 DEF TokensPlaced

LEMMA TokenAdded ==
  ASSUME Here, TokensPlaced, source' = source, current' >= current, current' \in Nat,
         NEW kind \in Kinds, NEW to \in Nat, to <= current',
         NEW start \in [at : Nat, line : Nat \ {0}, col : Nat \ {0}],
         TruePosition(start.at, start.line, start.col),
         tokens' = Append(tokens, MakeToken(kind, start, to))
  PROVE  TokensPlaced'
<1> DEFINE t == MakeToken(kind, start, to)
<1>1. /\ t \in Placed /\ t.to = to
      /\ t.from = start.at /\ t.line = start.line /\ t.col = start.col
  BY DEF MakeToken, Placed
<1> HIDE DEF t
<1>2. /\ tokens' \in Seq(Placed) /\ Len(tokens') = Len(tokens) + 1
      /\ \A i \in 1..Len(tokens) : tokens'[i] = tokens[i]
      /\ tokens'[Len(tokens) + 1] = t
  BY <1>1 DEF TokensPlaced, t
<1>3. SUFFICES ASSUME NEW i \in 1..Len(tokens')
               PROVE  (/\ tokens[i].to <= current
                       /\ TruePosition(tokens[i].from, tokens[i].line, tokens[i].col))'
  BY <1>2 DEF TokensPlaced
<1>4. CASE i \in 1..Len(tokens)
  <2>1. tokens[i] \in Placed
    BY <1>4 DEF TokensPlaced
  <2>2. /\ tokens[i].to \in Nat /\ tokens[i].to <= current
        /\ TruePosition(tokens[i].from, tokens[i].line, tokens[i].col)
    BY <1>4, <2>1 DEF TokensPlaced, Placed
  <2>3. TruePosition(tokens[i].from, tokens[i].line, tokens[i].col)'
    <3> DEFINE at == tokens[i].from
               ln == tokens[i].line
               cl == tokens[i].col
    <3>1. at \in Nat /\ ln \in Nat /\ cl \in Nat
      BY <2>1 DEF Placed
    <3>2. tokens'[i] = tokens[i]
      BY <1>2, <1>4
    <3>3. TruePosition(at, ln, cl)
      BY <2>2
    <3> QED
      BY <3>1, <3>2, <3>3 DEF TruePosition, NewLines
  <2>4. tokens'[i] = tokens[i]
    BY <1>2, <1>4
  <2> QED
    BY <2>2, <2>3, <2>4 DEF Here
<1>5. CASE i = Len(tokens) + 1
  BY <1>1, <1>2, <1>5, SamePosition
<1> QED
  BY <1>2, <1>4, <1>5 DEF TokensPlaced

-----------------------------------------------------------------------------
(* The actions                                                              *)

LEMMA InitInv == Init => IInv
<1> SUFFICES ASSUME Init PROVE IInv
  OBVIOUS
<1>1. source \in Seq(Char) /\ Len(source) \in Nat
  BY LexerAssumption DEF Init
<1>2. NewLines(0) = {}
  BY DEF NewLines
<1>3. Cardinality(NewLines(0)) = 0
  BY <1>2, FS_EmptySet
<1>4. TruePosition(0, 1, 1)
  BY <1>2, <1>3 DEF TruePosition
<1>5. Here
  BY <1>1, <1>4 DEF Init, Here, Modes
<1>6. first = [at |-> 0, line |-> 1, col |-> 1]
  BY DEF Init, Position
<1>7. Began
  BY <1>4, <1>6 DEF Init, Began
<1>8. TokensPlaced
  BY DEF Init, TokensPlaced
<1> QED
  BY <1>5, <1>7, <1>8 DEF IInv

\* A step that reads a character and makes no token.
LEMMA AdvanceInv ==
  ASSUME IInv, current < Len(source), Advance, mode' \in Modes, source' = source,
         tokens' = tokens, first' \in {first, Position}
  PROVE  IInv'
<1>1. Here' /\ current' = current + 1
  BY AdvanceHere DEF IInv
<1>2. current' \in Nat /\ current' >= current
  BY <1>1 DEF IInv, Here
<1>3. Began'
  BY <1>2, BeganStays, BeganAnew DEF IInv
<1>4. TokensPlaced'
  BY <1>2, TokensStay DEF IInv
<1> QED
  BY <1>1, <1>3, <1>4 DEF IInv

\* A step that only changes the mode, and may add a token that began before.
LEMMA ModeHere ==
  ASSUME Here, mode' \in Modes, UNCHANGED <<source, current, line, col>>
  PROVE  Here' /\ current' \in Nat /\ current' >= current
<1>1. TruePosition(current, line, col)'
  BY DEF Here, TruePosition, NewLines
<1> QED
  BY <1>1 DEF Here

LEMMA SkipWhitespaceInv == ASSUME IInv, SkipWhitespace PROVE IInv'
<1>1. Len(source) \in Nat /\ current \in Nat /\ mode \in Modes
  BY DEF IInv, Here
<1>2. CASE SkipBlank
  BY <1>1, <1>2, AdvanceInv DEF SkipBlank, Sees, IsAtEnd
<1>3. CASE BeginComment
  BY <1>1, <1>3, AdvanceInv DEF BeginComment, AtComment, Sees, IsAtEnd, Modes
<1>4. CASE SkipComment
  BY <1>1, <1>4, AdvanceInv DEF SkipComment, IsAtEnd, Modes
<1>5. CASE EndComment
  <2>1. Here' /\ current' \in Nat /\ current' >= current
    BY <1>5, ModeHere DEF EndComment, IInv, Modes
  <2>2. Began' /\ TokensPlaced'
    BY <1>5, <2>1, BeganStays, TokensStay DEF EndComment, IInv
  <2> QED
    BY <2>1, <2>2 DEF IInv
<1> QED
  BY <1>2, <1>3, <1>4, <1>5 DEF SkipWhitespace

LEMMA KindOfWordKinds == ASSUME NEW word PROVE KindOfWord(word) \in Kinds
BY DEF KindOfWord, Kinds

\* The end of an identifier or a number.
LEMMA EndInv ==
  ASSUME IInv, NEW kind \in Kinds, NEW in, NEW chars, End(in, chars, kind)
  PROVE  IInv'
<1>1. Here' /\ current' \in Nat /\ current' >= current
  BY ModeHere DEF End, IInv, Modes
<1>2. Began'
  BY <1>1, BeganStays DEF End, IInv
<1>3. current \in Nat /\ current <= current'
  BY DEF End, IInv, Here
<1>4. TokensPlaced'
  BY <1>1, <1>3, TokenAdded DEF End, IInv, Began
<1> QED
  BY <1>1, <1>2, <1>4 DEF IInv

LEMMA FailInv == ASSUME IInv, Fail PROVE IInv'
<1>1. Here' /\ current' \in Nat /\ current' >= current
  BY ModeHere DEF Fail, IInv, Modes
<1>2. Began' /\ TokensPlaced'
  BY <1>1, BeganStays, TokensStay DEF Fail, IInv
<1> QED
  BY <1>1, <1>2 DEF IInv

LEMMA PositionHere ==
  ASSUME Here
  PROVE  /\ Position \in [at : Nat, line : Nat \ {0}, col : Nat \ {0}]
         /\ TruePosition(Position.at, Position.line, Position.col)
BY DEF Here, Position

LEMMA EndStringInv == ASSUME IInv, EndString PROVE IInv'
<1>1. Here' /\ current' = current + 1 /\ current \in Nat
  BY AdvanceHere DEF EndString, IInv, Here, Sees, IsAtEnd, Modes
<1>2. Began'
  BY <1>1, BeganStays DEF EndString, IInv
<1>3. "string" \in Kinds
  BY DEF Kinds
<1>4. TokensPlaced'
  BY <1>1, <1>3, TokenAdded DEF EndString, IInv, Began
<1> QED
  BY <1>1, <1>2, <1>4 DEF IInv

LEMMA ScanSymbolInv == ASSUME IInv, ScanSymbol PROVE IInv'
<1>1. Here' /\ current' = current + 1 /\ current \in Nat
  BY AdvanceHere DEF ScanSymbol, IInv, Here, Sees, IsAtEnd, Modes
<1>2. Began'
  BY <1>1, BeganAnew DEF ScanSymbol, IInv
<1>3. Symbol[source[current + 1]] \in Kinds
  BY DEF ScanSymbol, Sees, Peek, Kinds
<1>4. TokensPlaced'
  BY <1>1, <1>3, PositionHere, TokenAdded DEF ScanSymbol, IInv
<1> QED
  BY <1>1, <1>2, <1>4 DEF IInv

\* One or two characters, neither of them a new line.
LEMMA ScanEqualsInv == ASSUME IInv, ScanEquals PROVE IInv'
<1> DEFINE n == IF PeekNext = {"="} THEN 2 ELSE 1
           kind == Equals[source[current + 1]][n]
<1>1. /\ current' = current + n /\ col' = col + n /\ line' = line
      /\ source' = source /\ mode' = mode /\ first' = Position
      /\ tokens' = Append(tokens, MakeToken(kind, Position, current + n))
  BY DEF ScanEquals
<1>2. /\ current \in Nat /\ line \in Nat \ {0} /\ col \in Nat \ {0} /\ Len(source) \in Nat
      /\ current < Len(source) /\ TruePosition(current, line, col)
  BY DEF ScanEquals, IInv, Here, Sees, IsAtEnd
<1>3. source[current + 1] \in {"=", "!"} /\ source[current + 1] # "\n"
  BY DEF ScanEquals, Sees, Peek, Equals
<1>4. TruePosition(current + 1, line, col + 1)
  BY <1>2, <1>3, NextPosition
<1>5. TruePosition(current + n, line, col + n) /\ current + n <= Len(source) /\ n \in 1..2
  <2>1. CASE PeekNext = {"="}
    <3>1. current + 1 < Len(source) /\ source[current + 2] = "="
      BY <1>2, <2>1 DEF PeekNext
    <3>2. TruePosition(current + 2, line, col + 2)
      BY <1>2, <1>4, <3>1, NextPosition
    <3> QED
      BY <1>2, <2>1, <3>1, <3>2
  <2>2. CASE PeekNext # {"="}
    BY <1>2, <1>4, <2>2
  <2> QED
    BY <2>1, <2>2
<1>6. kind \in Kinds
  BY <1>3, <1>5 DEF Kinds, Equals
<1> HIDE DEF n, kind
<1>7. TruePosition(current, line, col)'
  BY <1>1, <1>5 DEF TruePosition, NewLines
<1>8. Here'
  BY <1>1, <1>2, <1>5, <1>7 DEF IInv, Here
<1>9. current' \in Nat /\ current' >= current
  BY <1>1, <1>2, <1>5
<1>10. Began'
  BY <1>1, <1>9, BeganAnew DEF IInv
<1>11. TokensPlaced'
  BY <1>1, <1>2, <1>5, <1>6, <1>9, PositionHere, TokenAdded DEF IInv
<1> QED
  BY <1>8, <1>10, <1>11 DEF IInv

LEMMA ScanTokenInv == ASSUME IInv, ScanToken PROVE IInv'
<1>1. Len(source) \in Nat /\ current \in Nat /\ mode \in Modes
  BY DEF IInv, Here
<1>2. CASE ScanIdentifier \/ ScanNumber \/ ScanString
  BY <1>1, <1>2, AdvanceInv
     DEF ScanIdentifier, ScanNumber, ScanString, Begin, Sees, IsAtEnd, Modes
<1>3. CASE ReadIdentifier \/ ReadNumber \/ ReadString
  BY <1>1, <1>3, AdvanceInv
     DEF ReadIdentifier, ReadNumber, ReadString, Continue, Sees, IsAtEnd
<1>4. CASE EndIdentifier
  BY <1>4, EndInv, KindOfWordKinds DEF EndIdentifier
<1>5. CASE EndNumber
  <2>1. "number" \in Kinds
    BY DEF Kinds
  <2> QED
    BY <1>5, <2>1, EndInv DEF EndNumber
<1>6. CASE OpenString \/ ScanUnknown
  BY <1>6, FailInv DEF OpenString, ScanUnknown
<1> QED
  BY <1>2, <1>3, <1>4, <1>5, <1>6, EndStringInv, ScanSymbolInv, ScanEqualsInv DEF ScanToken

LEMMA ScanEofInv == ASSUME IInv, ScanEof PROVE IInv'
<1>1. Here' /\ current' \in Nat /\ current' >= current
  BY ModeHere DEF ScanEof, IInv, Modes
<1>2. Began'
  BY <1>1, BeganStays DEF ScanEof, IInv
<1>3. "eof" \in Kinds /\ current \in Nat
  BY DEF Kinds, IInv, Here
<1>4. TokensPlaced'
  BY <1>1, <1>3, PositionHere, TokenAdded DEF ScanEof, IInv
<1> QED
  BY <1>1, <1>2, <1>4 DEF IInv

LEMMA StutterInv == ASSUME IInv, UNCHANGED vars PROVE IInv'
<1>1. Here' /\ current' \in Nat /\ current' >= current
  BY ModeHere DEF vars, IInv, Here
<1>2. Began' /\ TokensPlaced'
  BY <1>1, BeganStays, TokensStay DEF vars, IInv
<1> QED
  BY <1>1, <1>2 DEF IInv

-----------------------------------------------------------------------------
(* The theorems                                                             *)

\* The inductive invariant: where the lexer is, where it began the token in hand,
\* and where it put the tokens it has made.
THEOREM Invariance == Spec => []IInv
<1>1. IInv /\ [Next]_vars => IInv'
  BY SkipWhitespaceInv, ScanTokenInv, ScanEofInv, StutterInv DEF Next
<1> QED
  BY InitInv, <1>1, PTL DEF Spec

\* The lexer never reads beyond the end of its source, and no token ends beyond
\* what it has read (lexer.cc Advance, Match, MakeToken).
THEOREM TypeCorrect == Spec => []TypeOK
<1>1. IInv => TypeOK
  <2> SUFFICES ASSUME IInv PROVE TypeOK
    OBVIOUS
  <2>1. \A i \in 1..Len(tokens) : tokens[i] \in Placed
    BY DEF IInv, TokensPlaced
  <2>2. \A t \in Placed : 0 <= t.from
    BY DEF Placed
  <2>3. \A i \in 1..Len(tokens) : tokens[i].to <= current
    BY DEF IInv, TokensPlaced
  <2>4. DOMAIN tokens = 1..Len(tokens)
    BY DEF IInv, TokensPlaced
  <2>5. \A i \in DOMAIN tokens : 0 <= tokens[i].from /\ tokens[i].to <= current
    BY <2>1, <2>2, <2>3, <2>4
  <2> QED
    BY <2>5 DEF IInv, Here, Began, Modes, TypeOK
<1> QED
  BY Invariance, <1>1, PTL

\* Every token has the line and the column of its first character (lexer.cc
\* Advance, Match, SkipWhitespace, ScanAll).
THEOREM Positions == Spec => []PositionsTrue
<1>1. IInv => PositionsTrue
  BY DEF IInv, Here, TokensPlaced, PositionsTrue
<1> QED
  BY Invariance, <1>1, PTL

-----------------------------------------------------------------------------
(* What can stand behind a place, by its first character                     *)

Marks == Blank \cup {Quote} \cup DOMAIN Symbol \cup DOMAIN Equals

LEMMA Domains ==
  /\ DOMAIN Symbol = {"(", ")", "{", "}", "[", "]", ",", ";", ":", ".", "+", "-", "*", "/", "<", ">"}
  /\ DOMAIN Equals = {"=", "!"}
BY DEF Symbol, Equals

LEMMA BlankApart ==
  ASSUME NEW c \in Blank
  PROVE  c # Quote /\ c \notin DOMAIN Symbol /\ c \notin DOMAIN Equals /\ c # "/"
BY Domains DEF Blank, Quote

LEMMA QuoteApart == Quote \notin DOMAIN Symbol /\ Quote \notin DOMAIN Equals /\ Quote # "/"
BY Domains DEF Quote

LEMMA SymbolApart ==
  ASSUME NEW c \in DOMAIN Symbol
  PROVE  c \notin DOMAIN Equals
BY Domains

LEMMA SlashIs == "/" \in DOMAIN Symbol /\ Symbol["/"] = "slash" /\ "/" \notin DOMAIN Equals
BY Domains DEF Symbol

LEMMA EqualsApart ==
  ASSUME NEW c \in DOMAIN Equals
  PROVE  c # "/"
BY Domains

LEMMA LettersApart ==
  ASSUME NEW c \in AlphaNumeric
  PROVE  c \notin Blank /\ c # Quote /\ c \notin DOMAIN Symbol /\ c \notin DOMAIN Equals /\ c # "/"
<1>1. c \notin Blank /\ c # Quote /\ c \notin DOMAIN Symbol /\ c \notin DOMAIN Equals
  BY AlphaNumericAssumption
<1> QED
  BY <1>1, SlashIs

LEMMA LettersOrDigits ==
  ASSUME NEW c
  PROVE  /\ c \in Alpha => c \in AlphaNumeric /\ c \notin Digits
         /\ c \in Digits => c \in AlphaNumeric /\ c \notin Alpha
BY LexerAssumption DEF AlphaNumeric

\* The guards of Form that the first character rules out.
LEMMA FormGuards ==
  ASSUME NEW s, NEW a \in Nat, NEW b \in Nat, b > a
  PROVE  LET c == s[a + 1]
         IN  /\ c \notin Blank => ~ (b = a + 1 /\ s[b] \in Blank)
             /\ c # "/" => ~ IsComment(s, a, b)
             /\ c # Quote => ~ IsString(s, a, b)
             /\ c \notin Digits => ~ IsNumber(s, a, b)
             /\ c \notin Alpha => ~ IsWord(s, a, b)
             /\ c \notin DOMAIN Symbol => ~ (b = a + 1 /\ s[b] \in DOMAIN Symbol)
             /\ b # a + 1 => ~ (b = a + 1 /\ s[b] \in Blank) /\ ~ (b = a + 1 /\ s[b] \in DOMAIN Symbol)
             /\ b = a + 1 => ~ IsComment(s, a, b) /\ ~ IsString(s, a, b)
<1>1. a + 1 \in (a + 1)..b
  OBVIOUS
<1> QED
  BY <1>1 DEF IsComment, IsString, IsNumber, IsWord

InEquals(s, a, b) ==
  b \in a + 1 .. a + 2 /\ s[a + 1] \in DOMAIN Equals /\ (b = a + 2 => s[b] = "=")

LEMMA FormWord ==
  ASSUME NEW s, NEW a \in Nat, NEW b \in Nat, b > a, s[a + 1] \in Alpha
  PROVE  Form(s, a, b) = IF \A i \in (a + 1)..b : s[i] \in AlphaNumeric
                           THEN KindOfWord(SubSeq(s, a + 1, b)) ELSE ""
<1> DEFINE c == s[a + 1]
<1>1. /\ c \notin Blank /\ c # Quote /\ c \notin DOMAIN Symbol /\ c \notin DOMAIN Equals
      /\ c # "/" /\ c \notin Digits
  BY LettersApart, LettersOrDigits
<1>2. /\ ~ (b = a + 1 /\ s[b] \in Blank) /\ ~ IsComment(s, a, b) /\ ~ IsString(s, a, b)
      /\ ~ IsNumber(s, a, b) /\ ~ (b = a + 1 /\ s[b] \in DOMAIN Symbol)
  BY <1>1, FormGuards
<1>3. ~ InEquals(s, a, b)
  BY <1>1 DEF InEquals
<1>4. IsWord(s, a, b) <=> \A i \in (a + 1)..b : s[i] \in AlphaNumeric
  BY DEF IsWord
<1> QED
  BY <1>2, <1>3, <1>4 DEF Form, InEquals

LEMMA FormNumber ==
  ASSUME NEW s, Len(s) \in Nat, ~ HasDecimal(s), NEW a \in Nat, NEW b \in Nat, b > a, b <= Len(s),
         s[a + 1] \in Digits
  PROVE  Form(s, a, b) = IF \A i \in (a + 1)..b : s[i] \in Digits THEN "number" ELSE ""
<1> DEFINE c == s[a + 1]
<1>1. /\ c \notin Blank /\ c # Quote /\ c \notin DOMAIN Symbol /\ c \notin DOMAIN Equals
      /\ c # "/" /\ c \notin Alpha
  BY LettersApart, LettersOrDigits
<1>2. /\ ~ (b = a + 1 /\ s[b] \in Blank) /\ ~ IsComment(s, a, b) /\ ~ IsString(s, a, b)
      /\ ~ IsWord(s, a, b) /\ ~ (b = a + 1 /\ s[b] \in DOMAIN Symbol)
  BY <1>1, FormGuards
<1>3. ~ InEquals(s, a, b)
  BY <1>1 DEF InEquals
<1>4. IsNumber(s, a, b) <=> \A i \in (a + 1)..b : s[i] \in Digits
  <2>1. ASSUME NEW p \in (a + 2)..(b - 1), s[p] = ".",
               \A i \in (a + 1)..b : i # p => s[i] \in Digits
        PROVE  FALSE
    <3>1. p \in 2 .. Len(s) - 1 /\ p - 1 \in (a + 1)..b /\ p + 1 \in (a + 1)..b
      OBVIOUS
    <3>2. s[p - 1] \in Digits /\ s[p + 1] \in Digits
      BY <2>1, <3>1
    <3> QED
      BY <2>1, <3>1, <3>2 DEF HasDecimal
  <2> QED
    BY <2>1 DEF IsNumber
<1> QED
  BY <1>2, <1>3, <1>4 DEF Form, InEquals

LEMMA MarksApart ==
  ASSUME NEW c \in Marks
  PROVE  c \notin Alpha /\ c \notin Digits
BY AlphaNumericAssumption DEF Marks, AlphaNumeric

LEMMA FormBlank ==
  ASSUME NEW s, NEW a \in Nat, NEW b \in Nat, b > a, s[a + 1] \in Blank
  PROVE  Form(s, a, b) = IF b = a + 1 THEN "blank" ELSE ""
<1> DEFINE c == s[a + 1]
<1>1. /\ c # Quote /\ c \notin DOMAIN Symbol /\ c \notin DOMAIN Equals
      /\ c # "/" /\ c \notin Alpha /\ c \notin Digits
  BY BlankApart, MarksApart DEF Marks
<1>2. /\ ~ IsComment(s, a, b) /\ ~ IsString(s, a, b) /\ ~ IsNumber(s, a, b)
      /\ ~ IsWord(s, a, b) /\ ~ (b = a + 1 /\ s[b] \in DOMAIN Symbol)
  BY <1>1, FormGuards
<1>3. ~ InEquals(s, a, b)
  BY <1>1 DEF InEquals
<1> QED
  BY <1>2, <1>3 DEF Form, InEquals

LEMMA FormString ==
  ASSUME NEW s, NEW a \in Nat, NEW b \in Nat, b > a, s[a + 1] = Quote
  PROVE  Form(s, a, b) = IF IsString(s, a, b) THEN "string" ELSE ""
<1> DEFINE c == s[a + 1]
<1>1. /\ c \notin Blank /\ c \notin DOMAIN Symbol /\ c \notin DOMAIN Equals
      /\ c # "/" /\ c \notin Alpha /\ c \notin Digits
  BY BlankApart, QuoteApart, MarksApart DEF Marks
<1>2. /\ ~ (b = a + 1 /\ s[b] \in Blank) /\ ~ IsComment(s, a, b) /\ ~ IsNumber(s, a, b)
      /\ ~ IsWord(s, a, b) /\ ~ (b = a + 1 /\ s[b] \in DOMAIN Symbol)
  BY <1>1, FormGuards
<1>3. ~ InEquals(s, a, b)
  BY <1>1 DEF InEquals
<1> QED
  BY <1>2, <1>3 DEF Form, InEquals

LEMMA FormSlash ==
  ASSUME NEW s, NEW a \in Nat, NEW b \in Nat, b > a, s[a + 1] = "/"
  PROVE  Form(s, a, b) = IF b = a + 1 THEN "slash" ELSE IF IsComment(s, a, b) THEN "comment" ELSE ""
<1> DEFINE c == s[a + 1]
<1>1. c \notin Blank /\ c # Quote /\ c \notin DOMAIN Equals /\ c \notin Alpha /\ c \notin Digits
  BY BlankApart, QuoteApart, SlashIs, MarksApart DEF Marks
<1>2. /\ ~ (b = a + 1 /\ s[b] \in Blank) /\ ~ IsString(s, a, b) /\ ~ IsNumber(s, a, b)
      /\ ~ IsWord(s, a, b)
  BY <1>1, FormGuards
<1>3. ~ InEquals(s, a, b)
  BY <1>1 DEF InEquals
<1>4. b = a + 1 => ~ IsComment(s, a, b) /\ s[b] \in DOMAIN Symbol /\ Symbol[s[b]] = "slash"
  BY FormGuards, SlashIs
<1> QED
  BY <1>2, <1>3, <1>4 DEF Form, InEquals

LEMMA FormSymbol ==
  ASSUME NEW s, NEW a \in Nat, NEW b \in Nat, b > a, s[a + 1] \in DOMAIN Symbol, s[a + 1] # "/"
  PROVE  Form(s, a, b) = IF b = a + 1 THEN Symbol[s[a + 1]] ELSE ""
<1> DEFINE c == s[a + 1]
<1>1. /\ c \notin Blank /\ c # Quote /\ c \notin DOMAIN Equals /\ c # "/"
      /\ c \notin Alpha /\ c \notin Digits
  BY BlankApart, QuoteApart, SymbolApart, MarksApart DEF Marks
<1>2. /\ ~ (b = a + 1 /\ s[b] \in Blank) /\ ~ IsComment(s, a, b) /\ ~ IsString(s, a, b)
      /\ ~ IsNumber(s, a, b) /\ ~ IsWord(s, a, b)
  BY <1>1, FormGuards
<1>3. ~ InEquals(s, a, b)
  BY <1>1 DEF InEquals
<1> QED
  BY <1>2, <1>3 DEF Form, InEquals

LEMMA FormEquals ==
  ASSUME NEW s, NEW a \in Nat, NEW b \in Nat, b > a, s[a + 1] \in DOMAIN Equals
  PROVE  Form(s, a, b) = IF b = a + 1 THEN Equals[s[a + 1]][1]
                         ELSE IF b = a + 2 /\ s[b] = "=" THEN Equals[s[a + 1]][2] ELSE ""
<1> DEFINE c == s[a + 1]
<1>1. /\ c \notin Blank /\ c # Quote /\ c \notin DOMAIN Symbol /\ c # "/"
      /\ c \notin Alpha /\ c \notin Digits
  BY BlankApart, QuoteApart, SymbolApart, EqualsApart, MarksApart DEF Marks
<1>2. /\ ~ (b = a + 1 /\ s[b] \in Blank) /\ ~ IsComment(s, a, b) /\ ~ IsString(s, a, b)
      /\ ~ IsNumber(s, a, b) /\ ~ IsWord(s, a, b) /\ ~ (b = a + 1 /\ s[b] \in DOMAIN Symbol)
  BY <1>1, FormGuards
<1>3. InEquals(s, a, b) <=> b = a + 1 \/ (b = a + 2 /\ s[b] = "=")
  BY DEF InEquals
<1>4. Form(s, a, b) = IF InEquals(s, a, b) THEN Equals[s[a + 1]][b - a] ELSE ""
  BY <1>2 DEF Form, InEquals
<1>5. b = a + 1 => b - a = 1 /\ b # a + 2
  OBVIOUS
<1>6. b = a + 2 => b - a = 2 /\ b # a + 1
  OBVIOUS
<1> QED
  BY <1>3, <1>4, <1>5, <1>6

LEMMA FormUnknown ==
  ASSUME NEW s, NEW a \in Nat, NEW b \in Nat, b > a, s[a + 1] \notin Marks, s[a + 1] \notin AlphaNumeric
  PROVE  Form(s, a, b) = ""
<1> DEFINE c == s[a + 1]
<1>1. /\ c \notin Blank /\ c # Quote /\ c \notin DOMAIN Symbol /\ c \notin DOMAIN Equals
      /\ c # "/" /\ c \notin Alpha /\ c \notin Digits
  BY SlashIs DEF Marks, AlphaNumeric
<1>2. /\ ~ (b = a + 1 /\ s[b] \in Blank) /\ ~ IsComment(s, a, b) /\ ~ IsString(s, a, b)
      /\ ~ IsNumber(s, a, b) /\ ~ IsWord(s, a, b) /\ ~ (b = a + 1 /\ s[b] \in DOMAIN Symbol)
  BY <1>1, FormGuards
<1>3. ~ InEquals(s, a, b)
  BY <1>1 DEF InEquals
<1> QED
  BY <1>2, <1>3 DEF Form, InEquals

-----------------------------------------------------------------------------
(* The longest part behind a place, and the parts from there on              *)

\* Nothing that stands behind a is longer than up to b.
NoLonger(s, a, b) == \A n \in b + 1 .. Len(s) : Form(s, a, n) = ""

LEMMA Between ==
  ASSUME NEW N \in Nat, NEW a \in Nat, NEW b \in a + 1 .. N, NEW n \in a + 1 .. N, n \notin b + 1 .. N
  PROVE  n \in Nat /\ b \in Nat /\ b >= n
OBVIOUS

LEMMA Antisymmetry ==
  ASSUME NEW m \in Nat, NEW n \in Nat, m >= n, n >= m
  PROVE  m = n
OBVIOUS

LEMMA LongestIs ==
  ASSUME NEW s, IsSeq(s), NEW a \in Nat, NEW b \in a + 1 .. Len(s), Form(s, a, b) # "", NoLonger(s, a, b)
  PROVE  LongestTo(s, a) = b
<1> DEFINE N == Len(s)
           ends == {n \in a + 1 .. N : Form(s, a, n) # ""}
<1>1. N \in Nat
  BY SeqLength
<1>2. b \in ends /\ \A n \in ends : n \in a + 1 .. N
  OBVIOUS
<1>3. \A n \in ends : n \notin b + 1 .. N
  BY DEF NoLonger
<1> HIDE DEF N, ends
<1>4. \A n \in ends : n \in Nat /\ b \in Nat /\ b >= n
  <2>1. SUFFICES ASSUME NEW n \in ends PROVE n \in Nat /\ b \in Nat /\ b >= n
    OBVIOUS
  <2>2. n \in a + 1 .. N /\ b \in a + 1 .. N /\ n \notin b + 1 .. N
    BY <1>2, <1>3
  <2> QED
    BY <1>1, <2>2, Between
<1>5. Max(ends) = b
  <2>1. \A x \in ends : (\A y \in ends : x >= y) => x = b
    <3>1. SUFFICES ASSUME NEW x \in ends, x >= b PROVE x = b
      BY <1>2
    <3>2. x \in Nat /\ b \in Nat /\ b >= x /\ x >= b
      BY <1>4, <3>1
    <3> QED
      BY <3>2, Antisymmetry
  <2> QED
    BY <1>2, <1>4, <2>1 DEF Max
<1>6. ends # {}
  BY <1>2
<1> QED
  BY <1>5, <1>6 DEF LongestTo, ends, N

LEMMA NoneIs ==
  ASSUME NEW s, NEW a \in Nat, NoLonger(s, a, a)
  PROVE  LongestTo(s, a) = a
BY DEF LongestTo, NoLonger

\* The longest part there is.
LEMMA LongestRange ==
  ASSUME NEW s, IsSeq(s), NEW a \in 0 .. Len(s)
  PROVE  LongestTo(s, a) \in a .. Len(s)
<1> DEFINE N == Len(s)
           ends == {n \in a + 1 .. N : Form(s, a, n) # ""}
           T == {N - n : n \in ends}
<1>1. N \in Nat /\ a \in 0 .. N
  BY SeqLength
<1>2. \A n \in ends : n \in a + 1 .. N
  OBVIOUS
<1>3. LongestTo(s, a) = IF ends = {} THEN a ELSE Max(ends)
  BY DEF LongestTo
<1> HIDE DEF N, ends
<1>4. \A n \in a + 1 .. N : n \in Nat /\ N - n \in Nat
  BY <1>1
<1>5. ASSUME ends # {}
      PROVE  Max(ends) \in ends
  <2>1. T \in SUBSET Nat /\ T # {}
    BY <1>2, <1>4, <1>5
  <2>2. PICK t \in T : \A k \in T : t <= k
    <3> HIDE DEF T
    <3> QED
      BY <2>1, LeastNatural
  <2>3. PICK b \in ends : t = N - b
    OBVIOUS
  <2>4. ASSUME NEW n \in ends
        PROVE  b >= n
    <3>1. N - b <= N - n
      BY <2>2, <2>3
    <3>2. b \in Nat /\ n \in Nat
      BY <1>2, <1>4
    <3> QED
      BY <1>1, <3>1, <3>2
  <2> QED
    BY <2>4 DEF Max
<1>6. a \in a .. N /\ a + 1 .. N \subseteq a .. N
  BY <1>1
<1> QED
  BY <1>2, <1>3, <1>5, <1>6 DEF N

Longest(s) == [a \in 0..Len(s) |-> LongestTo(s, a)]

\* f gives the parts behind the places from m on.
HasParts(s, m, f) ==
  f = [a \in m..Len(s) |->
        IF a = Len(s) THEN <<<<"eof", a, a>>>>
        ELSE IF Longest(s)[a] = a THEN <<>>
        ELSE (IF Form(s, a, Longest(s)[a]) \in {"blank", "comment"} THEN <<>>
              ELSE <<<<Form(s, a, Longest(s)[a]), a, Longest(s)[a]>>>>) \o f[Longest(s)[a]]]

LEMMA PartsIs ==
  ASSUME NEW s
  PROVE  Parts(s) = CHOOSE f :
    f = [a \in 0..Len(s) |->
          IF a = Len(s) THEN <<<<"eof", a, a>>>>
          ELSE IF Longest(s)[a] = a THEN <<>>
          ELSE (IF Form(s, a, Longest(s)[a]) \in {"blank", "comment"} THEN <<>>
                ELSE <<<<Form(s, a, Longest(s)[a]), a, Longest(s)[a]>>>>) \o f[Longest(s)[a]]]
BY DEF Parts, Longest

Head1(s, a) ==
  IF Form(s, a, Longest(s)[a]) \in {"blank", "comment"} THEN <<>>
  ELSE <<<<Form(s, a, Longest(s)[a]), a, Longest(s)[a]>>>>

LEMMA PartsStep ==
  ASSUME NEW s, NEW m, NEW f, HasParts(s, m, f), NEW a \in m..Len(s)
  PROVE  f[a] = IF a = Len(s) THEN <<<<"eof", a, a>>>>
                ELSE IF Longest(s)[a] = a THEN <<>>
                ELSE Head1(s, a) \o f[Longest(s)[a]]
BY DEF HasParts, Head1

LEMMA PartsExist ==
  ASSUME NEW s, IsSeq(s)
  PROVE  \E f : HasParts(s, 0, f)
<1> DEFINE N == Len(s)
           T == {m \in Nat : m <= N => \E f : HasParts(s, N - m, f)}
<1>1. N \in Nat
  BY SeqLength
<1>2. \A a \in 0..N : Longest(s)[a] \in a..N
  BY LongestRange DEF Longest
<1> HIDE DEF N
<1>3. 0 \in T
  <2> DEFINE g == [a \in N..N |-> <<<<"eof", a, a>>>>]
             h == [a \in N..N |->
                    IF a = N THEN <<<<"eof", a, a>>>>
                    ELSE IF Longest(s)[a] = a THEN <<>>
                    ELSE (IF Form(s, a, Longest(s)[a]) \in {"blank", "comment"} THEN <<>>
                          ELSE <<<<Form(s, a, Longest(s)[a]), a, Longest(s)[a]>>>>) \o g[Longest(s)[a]]]
  <2>1. \A a \in N..N : a = N
    BY <1>1
  <2>2. g = h
    BY <2>1
  <2>3. HasParts(s, N, g)
    BY <2>2 DEF HasParts, N
  <2>4. N - 0 = N
    BY <1>1
  <2> QED
    BY <2>3, <2>4
<1>4. ASSUME NEW m \in Nat, m \in T
      PROVE  m + 1 \in T
  <2>1. SUFFICES ASSUME m + 1 <= N PROVE \E f : HasParts(s, N - (m + 1), f)
    OBVIOUS
  <2>2. PICK f : HasParts(s, N - m, f)
    BY <1>1, <1>4, <2>1
  <2> DEFINE l == N - (m + 1)
  <2>3. l \in 0..N /\ l # N /\ l + 1 = N - m /\ N \in Nat
    BY <1>1, <2>1
  <2> HIDE DEF l
  <2> DEFINE top == IF Longest(s)[l] = l THEN <<>> ELSE Head1(s, l) \o f[Longest(s)[l]]
             g == [a \in l..N |-> IF a = l THEN top ELSE f[a]]
             body(a) == IF a = N THEN <<<<"eof", a, a>>>>
                        ELSE IF Longest(s)[a] = a THEN <<>>
                        ELSE Head1(s, a) \o g[Longest(s)[a]]
             h == [a \in l..N |-> body(a)]
  <2>4. ASSUME NEW a \in l..N
        PROVE  g[a] = body(a)
    <3>1. Longest(s)[a] \in a..N /\ a \in 0..N
      BY <1>2, <2>3
    <3>2. CASE a = l
      <4>1. g[a] = top
        <5> HIDE DEF top
        <5> QED
          BY <3>2
      <4>2. CASE Longest(s)[l] = l
        BY <2>3, <3>2, <4>1, <4>2
      <4>3. CASE Longest(s)[l] # l
        <5>1. g[Longest(s)[l]] = f[Longest(s)[l]]
          <6>1. Longest(s)[l] \in l..N
            BY <3>1, <3>2
          <6> HIDE DEF top
          <6> QED
            BY <4>3, <6>1
        <5>2. body(a) = Head1(s, l) \o g[Longest(s)[l]]
          <6> HIDE DEF g
          <6> QED
            BY <2>3, <3>2, <4>3
        <5>3. top = Head1(s, l) \o f[Longest(s)[l]]
          BY <4>3
        <5> HIDE DEF top, body, g
        <5> QED
          BY <4>1, <5>1, <5>2, <5>3
      <4> QED
        BY <4>2, <4>3
    <3>3. CASE a # l
      <4>1. a \in N - m .. Len(s) /\ g[a] = f[a]
        <5> HIDE DEF top
        <5> QED
          BY <2>3, <3>3 DEF N
      <4>2. f[a] = IF a = Len(s) THEN <<<<"eof", a, a>>>>
                   ELSE IF Longest(s)[a] = a THEN <<>>
                   ELSE Head1(s, a) \o f[Longest(s)[a]]
        BY <2>2, <4>1, PartsStep
      <4>3. g[Longest(s)[a]] = f[Longest(s)[a]]
        <5>1. Longest(s)[a] \in l..N /\ Longest(s)[a] # l
          BY <2>3, <3>1, <3>3
        <5> HIDE DEF top
        <5> QED
          BY <5>1
      <4> HIDE DEF g
      <4> QED
        BY <4>1, <4>2, <4>3 DEF N
    <3> QED
      BY <3>2, <3>3
  <2>5. g = h
    <3> HIDE DEF top, body
    <3>1. \A a \in l..N : g[a] = h[a]
      BY <2>4
    <3> QED
      BY <3>1
  <2>6. HasParts(s, l, g)
    <3> HIDE DEF g
    <3> QED
      BY <2>5 DEF HasParts, Head1, N
  <2> QED
    BY <2>6 DEF l
<1>5. N \in T
  <2> HIDE DEF T
  <2> QED
    BY <1>1, <1>3, <1>4, Induction
<1>6. N - N = 0
  BY <1>1
<1> QED
  BY <1>1, <1>5, <1>6

LEMMA PartsHas ==
  ASSUME NEW s, IsSeq(s)
  PROVE  HasParts(s, 0, Parts(s))
<1>1. PICK f : HasParts(s, 0, f)
  BY PartsExist
<1> QED
  BY <1>1, PartsIs DEF HasParts

LEMMA PartsAt ==
  ASSUME NEW s, IsSeq(s), NEW a \in 0..Len(s)
  PROVE  Parts(s)[a] = IF a = Len(s) THEN <<<<"eof", a, a>>>>
                       ELSE IF Longest(s)[a] = a THEN <<>>
                       ELSE Head1(s, a) \o Parts(s)[Longest(s)[a]]
<1> DEFINE f == Parts(s)
<1>1. HasParts(s, 0, f)
  BY PartsHas
<1> HIDE DEF f
<1>2. f[a] = IF a = Len(s) THEN <<<<"eof", a, a>>>>
             ELSE IF Longest(s)[a] = a THEN <<>>
             ELSE Head1(s, a) \o f[Longest(s)[a]]
  BY <1>1, PartsStep
<1> QED
  BY <1>2 DEF f

LEMMA Further ==
  ASSUME NEW N \in Nat, NEW a \in 0..N, NEW b \in a + 1 .. N
  PROVE  a \in Nat /\ b \in Nat /\ b > a /\ a # N /\ b # a /\ b \in 0..N /\ a < N
OBVIOUS

LEMMA PartsSeq ==
  ASSUME NEW s, IsSeq(s), NEW a \in 0..Len(s)
  PROVE  IsSeq(Parts(s)[a])
<1> DEFINE N == Len(s)
           f == Parts(s)
           T == {m \in Nat : \A k \in 0..N : N - k <= m => IsSeq(f[k])}
<1>1. N \in Nat
  BY SeqLength
<1>2. \A k \in 0..N : Longest(s)[k] \in k..N
  BY LongestRange DEF Longest
<1>3. \A k \in 0..N : f[k] = IF k = N THEN <<<<"eof", k, k>>>>
                             ELSE IF Longest(s)[k] = k THEN <<>>
                             ELSE Head1(s, k) \o f[Longest(s)[k]]
  BY PartsAt
<1>4. \A k : IsSeq(Head1(s, k)) /\ IsSeq(<<<<"eof", k, k>>>>) /\ IsSeq(<<>>)
  BY ShortSeq DEF Head1
<1> HIDE DEF N, f
<1>5. 0 \in T
  <2>1. \A k \in 0..N : N - k <= 0 => k = N
    BY <1>1
  <2> QED
    BY <1>3, <1>4, <2>1
<1>6. ASSUME NEW m \in Nat, m \in T
      PROVE  m + 1 \in T
  <2>1. SUFFICES ASSUME NEW k \in 0..N, N - k <= m + 1 PROVE IsSeq(f[k])
    OBVIOUS
  <2>2. CASE k = N \/ Longest(s)[k] = k
    BY <1>3, <1>4, <2>2
  <2>3. CASE k # N /\ Longest(s)[k] # k
    <3>1. Longest(s)[k] \in 0..N /\ N - Longest(s)[k] <= m
      BY <1>1, <1>2, <2>1, <2>3
    <3>2. IsSeq(f[Longest(s)[k]])
      BY <1>6, <3>1
    <3>3. IsSeq(Head1(s, k) \o f[Longest(s)[k]])
      BY <1>4, <3>2, JoinSeq
    <3> QED
      BY <1>3, <2>3, <3>3
  <2> QED
    BY <2>2, <2>3
<1>7. N \in T
  <2> HIDE DEF T
  <2> QED
    BY <1>1, <1>5, <1>6, Induction
<1>8. a \in 0..N /\ N - a <= N
  BY <1>1 DEF N
<1> QED
  BY <1>7, <1>8 DEF f

-----------------------------------------------------------------------------
(* The tokens made, and the parts that are left                              *)

Made(t) == [i \in DOMAIN t |-> <<t[i].kind, t[i].from, t[i].to>>]

\* With the parts behind a, the tokens t are the parts of s.
Rest(s, t, a) == a \in 0..Len(s) /\ Made(t) \o Parts(s)[a] = Parts(s)[0]

LEMMA MadeSeq ==
  ASSUME NEW t, IsSeq(t)
  PROVE  IsSeq(Made(t))
<1> DEFINE n == Len(t)
           u == Made(t)
<1>1. n \in Nat /\ DOMAIN t = 1..n
  BY SeqLength
<1>2. u \in [1..n -> {u[i] : i \in 1..n}]
  BY <1>1 DEF Made
<1> HIDE DEF n, u
<1>3. IsSeq(u)
  BY <1>1, <1>2, FunctionSeq
<1> QED
  BY <1>3 DEF u

LEMMA SameSequence ==
  ASSUME NEW s, IsSeq(s), NEW t, IsSeq(t), NEW n, Len(s) = n, Len(t) = n,
         \A i \in 1..n : s[i] = t[i]
  PROVE  s = t
<1>1. n \in Nat /\ DOMAIN s = 1..n /\ DOMAIN t = 1..n
  BY SeqLength
<1>2. s = [i \in 1..n |-> s[i]] /\ t = [i \in 1..n |-> t[i]]
  BY <1>1 DEF IsSeq
<1> QED
  BY <1>2

LEMMA MadeAppend ==
  ASSUME NEW t, IsSeq(t), NEW r
  PROVE  Made(Append(t, r)) = Made(t) \o <<<<r.kind, r.from, r.to>>>> /\ IsSeq(Append(t, r))
<1> DEFINE n == Len(t)
           x == <<r.kind, r.from, r.to>>
           w == Append(t, r)
           m == Made(t)
           u == Made(w)
           v == m \o <<x>>
<1>1. n \in Nat /\ DOMAIN t = 1..n /\ IsSeq(w) /\ DOMAIN w = 1..n + 1
      /\ (\A i \in 1..n : w[i] = t[i]) /\ w[n + 1] = r /\ Len(w) = n + 1
  BY AppendSeq, SeqLength
<1>2. IsSeq(m) /\ IsSeq(u)
  BY <1>1, MadeSeq
<1>3. DOMAIN m = 1..n /\ \A i \in 1..n : m[i] = <<t[i].kind, t[i].from, t[i].to>>
  BY <1>1 DEF Made
<1>4. DOMAIN u = 1..n + 1 /\ (\A i \in 1..n : u[i] = m[i]) /\ u[n + 1] = x
  <2>1. \A i \in 1..n : i \in 1..n + 1
    BY <1>1
  <2>2. n + 1 \in 1..n + 1
    BY <1>1
  <2> HIDE DEF w, n
  <2> QED
    BY <1>1, <1>3, <2>1, <2>2 DEF Made
<1> HIDE DEF n, x, w, m, u
<1>5. Len(m) = n /\ Len(u) = n + 1
  <2>1. Len(m) \in Nat /\ 1..Len(m) = 1..n /\ Len(u) \in Nat /\ 1..Len(u) = 1..n + 1
    BY <1>2, <1>3, <1>4, SeqLength
  <2>2. \A i, j \in Nat : 1..i = 1..j => i = j
    OBVIOUS
  <2> QED
    BY <1>1, <2>1, <2>2
<1>6. IsSeq(<<x>>) /\ Len(<<x>>) = 1 /\ <<x>>[1] = x
  BY ShortSeq
<1>7. /\ IsSeq(v) /\ Len(v) = n + 1
      /\ \A i \in 1..n : v[i] = m[i]
      /\ v[n + 1] = x
  BY <1>2, <1>5, <1>6, JoinSeq
<1> HIDE DEF v
<1>8. ASSUME NEW i \in 1..n + 1
      PROVE  u[i] = v[i]
  <2>1. i \in 1..n \/ i = n + 1
    BY <1>1
  <2> QED
    BY <1>4, <1>7, <2>1
<1>9. u = v
  BY <1>2, <1>5, <1>7, <1>8, SameSequence
<1> QED
  BY <1>1, <1>9 DEF u, v, m, w, x

\* Behind one another, however they are grouped.
LEMMA JoinAssociates ==
  ASSUME NEW s, IsSeq(s), NEW t, IsSeq(t), NEW u, IsSeq(u)
  PROVE  (s \o t) \o u = s \o (t \o u)
<1> DEFINE S == {s[i] : i \in DOMAIN s} \cup {t[i] : i \in DOMAIN t} \cup {u[i] : i \in DOMAIN u}
<1>1. s \in Seq(S) /\ t \in Seq(S) /\ u \in Seq(S)
  BY SeqMonotonic DEF IsSeq
<1> HIDE DEF S
<1> QED
  BY <1>1, ConcatAssociative

LEMMA OneBetween ==
  ASSUME NEW m, IsSeq(m), NEW x, NEW q, IsSeq(q)
  PROVE  (m \o <<x>>) \o q = m \o (<<x>> \o q)
<1>1. IsSeq(<<x>>)
  BY ShortSeq
<1> QED
  BY <1>1, JoinAssociates

\* OneBetween as a formula, for steps that have other facts about sequences.
LEMMA JoinOne ==
  \A m, x, q : IsSeq(m) /\ IsSeq(q) => (m \o <<x>>) \o q = m \o (<<x>> \o q)
BY OneBetween

LEMMA JoinEmpty ==
  ASSUME NEW s, IsSeq(s)
  PROVE  s \o <<>> = s /\ <<>> \o s = s
BY ConcatEmptySeq DEF IsSeq

\* The parts behind a begin with the longest part there.
LEMMA PartsNext ==
  ASSUME NEW s, IsSeq(s), NEW a \in 0..Len(s), NEW b \in a + 1 .. Len(s),
         Form(s, a, b) # "", NoLonger(s, a, b)
  PROVE  /\ Form(s, a, b) \in {"blank", "comment"} => Parts(s)[a] = Parts(s)[b]
         /\ Form(s, a, b) \notin {"blank", "comment"} =>
              Parts(s)[a] = <<<<Form(s, a, b), a, b>>>> \o Parts(s)[b]
         /\ b \in 0..Len(s) /\ IsSeq(Parts(s)[b])
<1> DEFINE k == Form(s, a, b)
           N == Len(s)
           f == Parts(s)
<1>1. N \in Nat /\ a \in 0..N /\ b \in a + 1 .. N
  BY SeqLength
<1>2. a \in Nat /\ a # N /\ b # a /\ b \in 0..N
  <2> HIDE DEF N
  <2> QED
    BY <1>1, Further
<1>3. Longest(s)[a] = b
  BY <1>2, LongestIs DEF Longest
<1>4. f[a] = IF a = N THEN <<<<"eof", a, a>>>>
             ELSE IF Longest(s)[a] = a THEN <<>>
             ELSE Head1(s, a) \o f[Longest(s)[a]]
  BY PartsAt
<1> HIDE DEF f, N
<1>5. f[a] = Head1(s, a) \o f[b]
  BY <1>2, <1>3, <1>4
<1>6. Head1(s, a) = IF k \in {"blank", "comment"} THEN <<>> ELSE <<<<k, a, b>>>>
  BY <1>3 DEF Head1
<1>7. IsSeq(f[b])
  BY <1>2, PartsSeq DEF f, N
<1>8. <<>> \o f[b] = f[b]
  BY <1>7, JoinEmpty
<1> QED
  BY <1>2, <1>5, <1>6, <1>7, <1>8 DEF f, N

LEMMA PartsToken ==
  ASSUME NEW s, IsSeq(s), NEW a \in 0..Len(s), NEW b \in a + 1 .. Len(s),
         Form(s, a, b) \notin {"", "blank", "comment"}, NoLonger(s, a, b)
  PROVE  /\ Parts(s)[a] = <<<<Form(s, a, b), a, b>>>> \o Parts(s)[b]
         /\ b \in 0..Len(s) /\ IsSeq(Parts(s)[b])
<1>1. Form(s, a, b) # "" /\ Form(s, a, b) \notin {"blank", "comment"}
  OBVIOUS
<1> QED
  BY <1>1, PartsNext

LEMMA RestSkip ==
  ASSUME NEW s, IsSeq(s), NEW t, NEW a, Rest(s, t, a), NEW b \in a + 1 .. Len(s),
         Form(s, a, b) \in {"blank", "comment"}, NoLonger(s, a, b)
  PROVE  Rest(s, t, b)
<1>1. Parts(s)[a] = Parts(s)[b] /\ b \in 0..Len(s)
  BY PartsNext DEF Rest
<1> QED
  BY <1>1 DEF Rest

LEMMA RestJoined ==
  ASSUME NEW s, NEW t, NEW a, NEW b, NEW r, IsSeq(t), IsSeq(Parts(s)[b]), Rest(s, t, a),
         Parts(s)[a] = <<<<r.kind, r.from, r.to>>>> \o Parts(s)[b], b \in 0..Len(s)
  PROVE  Rest(s, Append(t, r), b)
<1> DEFINE x == <<r.kind, r.from, r.to>>
           q == Parts(s)[b]
<1>1. Made(Append(t, r)) = Made(t) \o <<x>> /\ IsSeq(Made(t)) /\ IsSeq(q)
  BY MadeAppend, MadeSeq
<1>2. Parts(s)[a] = <<x>> \o q
  OBVIOUS
<1> HIDE DEF x, q
<1>3. (Made(t) \o <<x>>) \o q = Made(t) \o (<<x>> \o q)
  BY ONLY <1>1, JoinOne
<1>4. Made(Append(t, r)) \o q = Parts(s)[0]
  BY <1>1, <1>2, <1>3 DEF Rest
<1> QED
  BY <1>4 DEF Rest, q

LEMMA RestToken ==
  ASSUME NEW s, IsSeq(s), NEW t, IsSeq(t), NEW a, Rest(s, t, a), NEW b \in a + 1 .. Len(s),
         Form(s, a, b) \notin {"", "blank", "comment"}, NoLonger(s, a, b),
         NEW r, r.kind = Form(s, a, b), r.from = a, r.to = b
  PROVE  Rest(s, Append(t, r), b)
<1>1. a \in 0..Len(s)
  BY DEF Rest
<1>2. /\ Parts(s)[a] = <<<<Form(s, a, b), a, b>>>> \o Parts(s)[b]
      /\ b \in 0..Len(s) /\ IsSeq(Parts(s)[b])
  BY <1>1, PartsToken
<1>3. Parts(s)[a] = <<<<r.kind, r.from, r.to>>>> \o Parts(s)[b]
  BY <1>2
<1>4. b \in 0..Len(s) /\ IsSeq(Parts(s)[b]) /\ IsSeq(t) /\ Rest(s, t, a)
  BY <1>2
<1> QED
  BY <1>3, <1>4, RestJoined

\* No part stands behind a: there are no more.
LEMMA RestNone ==
  ASSUME NEW s, IsSeq(s), NEW t, IsSeq(t), NEW a, Rest(s, t, a), a < Len(s), NoLonger(s, a, a)
  PROVE  Made(t) = Parts(s)[0]
<1> DEFINE f == Parts(s)
<1>1. Len(s) \in Nat /\ a \in 0..Len(s) /\ a # Len(s) /\ a \in Nat
  BY SeqLength DEF Rest
<1>2. Longest(s)[a] = a
  BY <1>1, NoneIs DEF Longest
<1>3. f[a] = IF a = Len(s) THEN <<<<"eof", a, a>>>>
             ELSE IF Longest(s)[a] = a THEN <<>>
             ELSE Head1(s, a) \o f[Longest(s)[a]]
  BY <1>1, PartsAt
<1> HIDE DEF f
<1>5. f[a] = <<>>
  BY <1>1, <1>2, <1>3
<1>6. Made(t) \o <<>> = Made(t)
  BY MadeSeq, JoinEmpty
<1> QED
  BY <1>5, <1>6 DEF Rest, f

LEMMA RestEof ==
  ASSUME NEW s, IsSeq(s), NEW t, IsSeq(t), NEW a, Rest(s, t, a), a = Len(s),
         NEW r, r.kind = "eof", r.from = a, r.to = a
  PROVE  Made(Append(t, r)) = Parts(s)[0]
<1> DEFINE f == Parts(s)
<1>1. a \in 0..Len(s)
  BY DEF Rest
<1>3. f[a] = IF a = Len(s) THEN <<<<"eof", a, a>>>>
             ELSE IF Longest(s)[a] = a THEN <<>>
             ELSE Head1(s, a) \o f[Longest(s)[a]]
  BY <1>1, PartsAt
<1> HIDE DEF f
<1>4. f[a] = <<<<"eof", a, a>>>>
  BY <1>3
<1>5. Made(Append(t, r)) = Made(t) \o <<<<"eof", a, a>>>>
  BY MadeAppend
<1> QED
  BY <1>4, <1>5 DEF Rest, f

-----------------------------------------------------------------------------
(* The tokens, one by one                                                    *)

NoToken == {"", "blank", "comment"}

LEMMA WordKinds == ASSUME NEW w PROVE KindOfWord(w) \notin NoToken
<1>1. KindOfWord(w) \in Keywords \cup {"identifier"}
  BY DEF KindOfWord
<1> QED
  BY <1>1 DEF Keywords, NoToken

LEMMA SymbolKinds == ASSUME NEW c \in DOMAIN Symbol PROVE Symbol[c] \notin NoToken
BY Domains DEF Symbol, NoToken

LEMMA EqualsKinds ==
  ASSUME NEW c \in DOMAIN Equals
  PROVE  Equals[c][1] \notin NoToken /\ Equals[c][2] \notin NoToken
BY Domains DEF Equals, NoToken

LEMMA RestPlace ==
  ASSUME NEW s, IsSeq(s), NEW t, NEW a, Rest(s, t, a)
  PROVE  Len(s) \in Nat /\ a \in Nat /\ a <= Len(s)
BY SeqLength DEF Rest

LEMMA OneFurther ==
  ASSUME NEW N \in Nat, NEW a \in Nat, a < N
  PROVE  /\ a + 1 \in a + 1 .. N /\ a + 1 \in Nat /\ a + 1 > a
         /\ \A n \in (a + 1) + 1 .. N : n \in Nat /\ n > a /\ n # a + 1
OBVIOUS

\* A token of one character that ends there.
LEMMA OneRest ==
  ASSUME NEW s, IsSeq(s), NEW t, IsSeq(t), NEW a, Rest(s, t, a), a < Len(s),
         NEW k, k # "", \A n \in Nat : n > a => Form(s, a, n) = IF n = a + 1 THEN k ELSE ""
  PROVE  /\ k \in {"blank", "comment"} => Rest(s, t, a + 1)
         /\ \A r : k \notin NoToken /\ r.kind = k /\ r.from = a /\ r.to = a + 1 =>
              Rest(s, Append(t, r), a + 1)
<1> DEFINE b == a + 1
<1>1. Len(s) \in Nat /\ a \in Nat
  BY RestPlace
<1>2. /\ b \in a + 1 .. Len(s) /\ b \in Nat /\ b > a
      /\ \A n \in b + 1 .. Len(s) : n \in Nat /\ n > a /\ n # b
  BY <1>1, OneFurther
<1>3. Form(s, a, b) = k /\ NoLonger(s, a, b)
  BY <1>2 DEF NoLonger
<1> HIDE DEF b
<1>4. k \in {"blank", "comment"} => Rest(s, t, b)
  BY <1>2, <1>3, RestSkip
<1>5. ASSUME NEW r, k \notin NoToken, r.kind = k, r.from = a, r.to = b
      PROVE  Rest(s, Append(t, r), b)
  BY <1>2, <1>3, <1>5, RestToken DEF NoToken
<1> QED
  BY <1>4, <1>5 DEF b

LEMMA BlankRest ==
  ASSUME NEW s, IsSeq(s), NEW t, IsSeq(t), NEW a, Rest(s, t, a), a < Len(s), s[a + 1] \in Blank
  PROVE  Rest(s, t, a + 1)
<1>1. a \in Nat
  BY RestPlace
<1>2. \A n \in Nat : n > a => Form(s, a, n) = IF n = a + 1 THEN "blank" ELSE ""
  BY <1>1, FormBlank
<1> QED
  BY <1>2, OneRest

LEMMA SymbolRest ==
  ASSUME NEW s, IsSeq(s), NEW t, IsSeq(t), NEW a, Rest(s, t, a), a < Len(s),
         s[a + 1] \in DOMAIN Symbol,
         ~ (s[a + 1] = "/" /\ a + 1 < Len(s) /\ s[a + 2] = "/"),
         NEW r, r.kind = Symbol[s[a + 1]], r.from = a, r.to = a + 1
  PROVE  Rest(s, Append(t, r), a + 1)
<1> DEFINE k == Symbol[s[a + 1]]
<1>1. a \in Nat /\ Len(s) \in Nat
  BY RestPlace
<1>2. k \notin NoToken /\ k # ""
  BY SymbolKinds DEF NoToken
<1>3. CASE s[a + 1] # "/"
  <2>1. \A n \in Nat : n > a => Form(s, a, n) = IF n = a + 1 THEN k ELSE ""
    BY <1>1, <1>3, FormSymbol
  <2> HIDE DEF k
  <2> QED
    BY <1>2, <2>1, OneRest DEF k
<1>4. CASE s[a + 1] = "/"
  <2> DEFINE b == a + 1
  <2>1. b \in a + 1 .. Len(s) /\ b \in Nat /\ b > a
    BY <1>1
  <2>2. k = "slash"
    BY <1>4, SlashIs
  <2>3. Form(s, a, b) = "slash"
    BY <1>1, <1>4, <2>1, FormSlash
  <2>4. ASSUME NEW n \in b + 1 .. Len(s)
        PROVE  Form(s, a, n) = ""
    <3>1. n \in Nat /\ n > a /\ n # a + 1 /\ a + 1 < Len(s)
      BY <1>1
    <3>2. ~ IsComment(s, a, n)
      BY <1>4, <3>1 DEF IsComment
    <3> QED
      BY <1>1, <1>4, <3>1, <3>2, FormSlash
  <2>5. NoLonger(s, a, b)
    BY <2>4 DEF NoLonger
  <2> HIDE DEF b
  <2>6. r.kind = Form(s, a, b) /\ r.from = a /\ r.to = b /\ Form(s, a, b) \notin {"", "blank", "comment"}
    BY <2>2, <2>3 DEF b
  <2>7. Rest(s, Append(t, r), b)
    BY <2>1, <2>5, <2>6, RestToken
  <2> QED
    BY <2>7 DEF b
<1> QED
  BY <1>3, <1>4

\* = or ! that is not followed by =.
LEMMA EqualsOne ==
  ASSUME NEW s, IsSeq(s), NEW t, IsSeq(t), NEW a, Rest(s, t, a), a < Len(s),
         s[a + 1] \in DOMAIN Equals, ~ (a + 1 < Len(s) /\ s[a + 2] = "="),
         NEW r, r.kind = Equals[s[a + 1]][1], r.from = a, r.to = a + 1
  PROVE  Rest(s, Append(t, r), a + 1)
<1> DEFINE b == a + 1
           k == Equals[s[a + 1]][1]
<1>1. a \in Nat /\ Len(s) \in Nat
  BY RestPlace
<1>2. /\ b \in a + 1 .. Len(s) /\ b \in Nat /\ b > a
      /\ \A n \in b + 1 .. Len(s) : n \in Nat /\ n > a /\ n # b
  BY <1>1, OneFurther
<1>3. Form(s, a, b) = k
  BY <1>1, <1>2, FormEquals
<1>4. ASSUME NEW n \in b + 1 .. Len(s)
      PROVE  Form(s, a, n) = ""
  <2>1. n \in Nat /\ n > a /\ n # a + 1
    BY <1>2
  <2>2. ~ (n = a + 2 /\ s[n] = "=")
    BY <1>1
  <2> QED
    BY <1>1, <2>1, <2>2, FormEquals
<1>5. NoLonger(s, a, b)
  BY <1>4 DEF NoLonger
<1>6. k \notin {"", "blank", "comment"}
  BY EqualsKinds DEF NoToken
<1> HIDE DEF b, k
<1>7. r.kind = Form(s, a, b) /\ r.from = a /\ r.to = b /\ Form(s, a, b) \notin {"", "blank", "comment"}
  BY <1>3, <1>6 DEF b, k
<1>8. Rest(s, Append(t, r), b)
  BY <1>2, <1>5, <1>7, RestToken
<1> QED
  BY <1>8 DEF b

\* = or ! and = behind it.
LEMMA EqualsTwo ==
  ASSUME NEW s, IsSeq(s), NEW t, IsSeq(t), NEW a, Rest(s, t, a), a + 1 < Len(s),
         s[a + 1] \in DOMAIN Equals, s[a + 2] = "=",
         NEW r, r.kind = Equals[s[a + 1]][2], r.from = a, r.to = a + 2
  PROVE  Rest(s, Append(t, r), a + 2)
<1> DEFINE b == a + 2
           k == Equals[s[a + 1]][2]
<1>1. a \in Nat /\ Len(s) \in Nat
  BY RestPlace
<1>2. /\ b \in a + 1 .. Len(s) /\ b \in Nat /\ b > a /\ b # a + 1
      /\ \A n \in b + 1 .. Len(s) : n \in Nat /\ n > a /\ n # b /\ n # a + 1
  BY <1>1
<1>3. Form(s, a, b) = k
  BY <1>1, <1>2, FormEquals
<1>4. \A n \in b + 1 .. Len(s) : Form(s, a, n) = ""
  BY <1>1, <1>2, FormEquals
<1>5. NoLonger(s, a, b)
  BY <1>4 DEF NoLonger
<1>6. k \notin {"", "blank", "comment"}
  BY EqualsKinds DEF NoToken
<1> HIDE DEF b, k
<1>7. r.kind = Form(s, a, b) /\ r.from = a /\ r.to = b /\ Form(s, a, b) \notin {"", "blank", "comment"}
  BY <1>3, <1>6 DEF b, k
<1>8. Rest(s, Append(t, r), b)
  BY <1>2, <1>5, <1>7, RestToken
<1> QED
  BY <1>8 DEF b

LEMMA UnknownRest ==
  ASSUME NEW s, IsSeq(s), NEW t, IsSeq(t), NEW a, Rest(s, t, a), a < Len(s),
         s[a + 1] \notin Marks, s[a + 1] \notin AlphaNumeric
  PROVE  Made(t) = Parts(s)[0]
<1>1. a \in Nat /\ Len(s) \in Nat
  BY RestPlace
<1>2. \A n \in a + 1 .. Len(s) : n \in Nat /\ n > a
  BY <1>1
<1>3. NoLonger(s, a, a)
  BY <1>1, <1>2, FormUnknown DEF NoLonger
<1> QED
  BY <1>3, RestNone

-----------------------------------------------------------------------------
(* Comments                                                                  *)

\* Up to b there is a comment, without its end.
CommentFrom(s, t, a, b) ==
  /\ Rest(s, t, a) /\ a + 1 < Len(s) /\ s[a + 1] = "/" /\ s[a + 2] = "/"
  /\ b \in a + 1 .. Len(s)
  /\ \A i \in a + 2 .. b : s[i] # "\n"

InComment(s, t, b) == \E a : CommentFrom(s, t, a, b)

LEMMA CommentPlaces ==
  ASSUME NEW N \in Nat, NEW a \in Nat, NEW b \in a + 1 .. N
  PROVE  /\ b \in Nat
         /\ b < N => b + 1 \in a + 1 .. N /\ b + 1 >= a + 2
         /\ \A i \in a + 2 .. b + 1 : i \in a + 2 .. b \/ i = b + 1
         /\ \A n \in b + 1 .. N : n \in Nat /\ n > a
OBVIOUS

LEMMA CommentBegins ==
  ASSUME NEW s, IsSeq(s), NEW t, NEW a, Rest(s, t, a), a + 1 < Len(s), s[a + 1] = "/", s[a + 2] = "/"
  PROVE  InComment(s, t, a + 1)
<1>1. a \in Nat /\ Len(s) \in Nat
  BY RestPlace
<1>2. a + 1 \in a + 1 .. Len(s) /\ a + 2 .. a + 1 = {}
  BY <1>1
<1>3. CommentFrom(s, t, a, a + 1)
  BY <1>2 DEF CommentFrom
<1> QED
  BY <1>3 DEF InComment

LEMMA CommentGoesOn ==
  ASSUME NEW s, IsSeq(s), NEW t, NEW b, InComment(s, t, b), b < Len(s), s[b + 1] # "\n"
  PROVE  InComment(s, t, b + 1)
<1>1. PICK a : CommentFrom(s, t, a, b)
  BY DEF InComment
<1>2. a \in Nat /\ Len(s) \in Nat /\ b \in a + 1 .. Len(s)
  BY <1>1, RestPlace DEF CommentFrom
<1>3. b + 1 \in a + 1 .. Len(s) /\ \A i \in a + 2 .. b + 1 : i \in a + 2 .. b \/ i = b + 1
  BY <1>2, CommentPlaces
<1>4. CommentFrom(s, t, a, b + 1)
  BY <1>1, <1>3 DEF CommentFrom
<1> QED
  BY <1>4 DEF InComment

\* The end of a comment, if no longer one begins where it does.
LEMMA CommentRest ==
  ASSUME NEW s, IsSeq(s), NEW t, NEW a, Rest(s, t, a), NEW b \in a + 2 .. Len(s), IsComment(s, a, b),
         b < Len(s) => s[b] = "\n"
  PROVE  Rest(s, t, b)
<1>1. a \in Nat /\ Len(s) \in Nat
  BY RestPlace
<1>2. b \in a + 1 .. Len(s) /\ b \in Nat /\ b > a /\ b # a + 1 /\ s[a + 1] = "/"
  BY <1>1 DEF IsComment
<1>3. Form(s, a, b) = "comment"
  BY <1>1, <1>2, FormSlash
<1>4. ASSUME NEW n \in b + 1 .. Len(s)
      PROVE  Form(s, a, n) = ""
  <2>1. n \in Nat /\ n > a /\ n # a + 1 /\ b < Len(s) /\ b \in a + 2 .. n - 1
    BY <1>1
  <2>2. ~ IsComment(s, a, n)
    BY <2>1 DEF IsComment
  <2> QED
    BY <1>1, <1>2, <2>1, <2>2, FormSlash
<1>5. NoLonger(s, a, b)
  BY <1>4 DEF NoLonger
<1> QED
  BY <1>2, <1>3, <1>5, RestSkip

LEMMA CommentEnds ==
  ASSUME NEW s, IsSeq(s), NEW t, NEW b, InComment(s, t, b), b = Len(s)
  PROVE  Rest(s, t, b)
<1>1. PICK a : CommentFrom(s, t, a, b)
  BY DEF InComment
<1>2. a \in Nat /\ Len(s) \in Nat /\ Rest(s, t, a) /\ a + 1 < Len(s)
  BY <1>1, RestPlace DEF CommentFrom
<1>3. b \in a + 2 .. Len(s) /\ b > a + 1 /\ ~ b < Len(s) /\ \A i \in a + 2 .. b - 1 : i \in a + 2 .. b
  BY <1>2
<1>4. IsComment(s, a, b)
  BY <1>1, <1>3 DEF CommentFrom, IsComment
<1> QED
  BY <1>2, <1>3, <1>4, CommentRest

LEMMA LineEnds ==
  ASSUME NEW s, IsSeq(s), NEW t, NEW b, InComment(s, t, b), b < Len(s), s[b + 1] = "\n"
  PROVE  Rest(s, t, b + 1)
<1> DEFINE e == b + 1
<1>1. PICK a : CommentFrom(s, t, a, b)
  BY DEF InComment
<1>2. a \in Nat /\ Len(s) \in Nat /\ Rest(s, t, a) /\ b \in a + 1 .. Len(s)
  BY <1>1, RestPlace DEF CommentFrom
<1>3. e \in a + 2 .. Len(s) /\ e > a + 1 /\ s[e] = "\n" /\ \A i \in a + 2 .. e - 1 : i \in a + 2 .. b
  BY <1>2
<1> HIDE DEF e
<1>4. IsComment(s, a, e)
  BY <1>1, <1>3 DEF CommentFrom, IsComment
<1>5. Rest(s, t, e)
  BY <1>2, <1>3, <1>4, CommentRest
<1> QED
  BY <1>5 DEF e

-----------------------------------------------------------------------------
(* Words, numbers and strings                                                *)

\* Behind a begins a token with one of begin, and goes on with chars up to b.
TokenFrom(s, t, a, b, begin, chars) ==
  /\ Rest(s, t, a) /\ b \in a + 1 .. Len(s)
  /\ s[a + 1] \in begin
  /\ \A i \in a + 2 .. b : s[i] \in chars

LEMMA TokenBegins ==
  ASSUME NEW s, IsSeq(s), NEW t, NEW a, Rest(s, t, a), a < Len(s),
         NEW begin, s[a + 1] \in begin, NEW chars
  PROVE  TokenFrom(s, t, a, a + 1, begin, chars)
<1>1. a \in Nat /\ Len(s) \in Nat
  BY RestPlace
<1>2. a + 1 \in a + 1 .. Len(s) /\ a + 2 .. a + 1 = {}
  BY <1>1
<1> QED
  BY <1>2 DEF TokenFrom

LEMMA TokenGoesOn ==
  ASSUME NEW s, IsSeq(s), NEW t, NEW a, NEW b, NEW begin, NEW chars,
         TokenFrom(s, t, a, b, begin, chars), b < Len(s), s[b + 1] \in chars
  PROVE  TokenFrom(s, t, a, b + 1, begin, chars)
<1>1. a \in Nat /\ Len(s) \in Nat /\ b \in a + 1 .. Len(s)
  BY RestPlace DEF TokenFrom
<1>2. b + 1 \in a + 1 .. Len(s) /\ \A i \in a + 2 .. b + 1 : i \in a + 2 .. b \/ i = b + 1
  BY <1>1, CommentPlaces
<1> QED
  BY <1>2 DEF TokenFrom

\* What ends where the loop over chars does is the longest.
LEMMA TokenEnds ==
  ASSUME NEW s, IsSeq(s), NEW t, NEW a, NEW b, NEW begin, NEW chars, begin \subseteq chars,
         TokenFrom(s, t, a, b, begin, chars), ~ (b < Len(s) /\ s[b + 1] \in chars)
  PROVE  /\ \A i \in a + 1 .. b : s[i] \in chars
         /\ \A n \in b + 1 .. Len(s) : ~ \A i \in a + 1 .. n : s[i] \in chars
<1>1. a \in Nat /\ Len(s) \in Nat /\ b \in a + 1 .. Len(s)
  BY RestPlace DEF TokenFrom
<1>2. \A i \in a + 1 .. b : i = a + 1 \/ i \in a + 2 .. b
  BY <1>1
<1>3. \A n \in b + 1 .. Len(s) : b < Len(s) /\ b + 1 \in a + 1 .. n
  BY <1>1
<1> QED
  BY <1>2, <1>3 DEF TokenFrom

LEMMA WordRest ==
  ASSUME NEW s, IsSeq(s), NEW t, IsSeq(t), NEW a, NEW b, TokenFrom(s, t, a, b, Alpha, AlphaNumeric),
         ~ (b < Len(s) /\ s[b + 1] \in AlphaNumeric),
         NEW r, r.kind = KindOfWord(SubSeq(s, a + 1, b)), r.from = a, r.to = b
  PROVE  Rest(s, Append(t, r), b)
<1> DEFINE k == KindOfWord(SubSeq(s, a + 1, b))
<1>1. /\ a \in Nat /\ Len(s) \in Nat /\ Rest(s, t, a) /\ b \in a + 1 .. Len(s)
      /\ s[a + 1] \in Alpha /\ Alpha \subseteq AlphaNumeric
  BY RestPlace DEF TokenFrom, AlphaNumeric
<1>2. b \in Nat /\ b > a /\ \A n \in b + 1 .. Len(s) : n \in Nat /\ n > a
  BY <1>1, CommentPlaces
<1>3. /\ \A i \in a + 1 .. b : s[i] \in AlphaNumeric
      /\ \A n \in b + 1 .. Len(s) : ~ \A i \in a + 1 .. n : s[i] \in AlphaNumeric
  BY <1>1, TokenEnds
<1>4. Form(s, a, b) = k
  BY <1>1, <1>2, <1>3, FormWord
<1>5. \A n \in b + 1 .. Len(s) : Form(s, a, n) = ""
  BY <1>1, <1>2, <1>3, FormWord
<1>6. NoLonger(s, a, b)
  BY <1>5 DEF NoLonger
<1>7. k \notin {"", "blank", "comment"}
  BY WordKinds DEF NoToken
<1> HIDE DEF k
<1>8. r.kind = Form(s, a, b) /\ Form(s, a, b) \notin {"", "blank", "comment"}
  BY <1>4, <1>7 DEF k
<1> QED
  BY <1>1, <1>6, <1>8, RestToken

LEMMA NumberRest ==
  ASSUME NEW s, IsSeq(s), ~ HasDecimal(s), NEW t, IsSeq(t), NEW a, NEW b, TokenFrom(s, t, a, b, Digits, Digits),
         ~ (b < Len(s) /\ s[b + 1] \in Digits),
         NEW r, r.kind = "number", r.from = a, r.to = b
  PROVE  Rest(s, Append(t, r), b)
<1>1. /\ a \in Nat /\ Len(s) \in Nat /\ Rest(s, t, a) /\ b \in a + 1 .. Len(s)
      /\ s[a + 1] \in Digits
  BY RestPlace DEF TokenFrom
<1>2. /\ b \in Nat /\ b > a /\ b <= Len(s)
      /\ \A n \in b + 1 .. Len(s) : n \in Nat /\ n > a /\ n <= Len(s)
  BY <1>1, CommentPlaces
<1>3. /\ \A i \in a + 1 .. b : s[i] \in Digits
      /\ \A n \in b + 1 .. Len(s) : ~ \A i \in a + 1 .. n : s[i] \in Digits
  BY <1>1, TokenEnds
<1>4. Form(s, a, b) = "number"
  BY <1>1, <1>2, <1>3, FormNumber
<1>5. \A n \in b + 1 .. Len(s) : Form(s, a, n) = ""
  BY <1>1, <1>2, <1>3, FormNumber
<1>6. NoLonger(s, a, b)
  BY <1>5 DEF NoLonger
<1>7. r.kind = Form(s, a, b) /\ Form(s, a, b) \notin {"", "blank", "comment"}
  BY <1>4
<1> QED
  BY <1>1, <1>6, <1>7, RestToken

Inner == Char \ {"\n", Quote}

\* The closing quote.
LEMMA StringRest ==
  ASSUME NEW s, IsSeq(s), NEW t, IsSeq(t), NEW a, NEW b, TokenFrom(s, t, a, b, {Quote}, Inner),
         b < Len(s), s[b + 1] = Quote,
         NEW r, r.kind = "string", r.from = a, r.to = b + 1
  PROVE  Rest(s, Append(t, r), b + 1)
<1> DEFINE e == b + 1
<1>1. /\ a \in Nat /\ Len(s) \in Nat /\ Rest(s, t, a) /\ b \in a + 1 .. Len(s)
      /\ s[a + 1] = Quote /\ \A i \in a + 2 .. b : s[i] \notin {Quote, "\n"}
  BY RestPlace DEF TokenFrom, Inner
<1>2. /\ e \in a + 1 .. Len(s) /\ e \in Nat /\ e > a /\ e > a + 1
      /\ \A i \in a + 2 .. e - 1 : i \in a + 2 .. b
  BY <1>1
<1>3. IsString(s, a, e)
  BY <1>1, <1>2 DEF IsString
<1>4. Form(s, a, e) = "string"
  BY <1>1, <1>2, <1>3, FormString
<1>5. ASSUME NEW n \in e + 1 .. Len(s)
      PROVE  Form(s, a, n) = ""
  <2>1. n \in Nat /\ n > a /\ e \in a + 2 .. n - 1
    BY <1>1, <1>2
  <2>2. ~ IsString(s, a, n)
    BY <2>1 DEF IsString
  <2> QED
    BY <1>1, <2>1, <2>2, FormString
<1>6. NoLonger(s, a, e)
  BY <1>5 DEF NoLonger
<1> HIDE DEF e
<1>7. r.kind = Form(s, a, e) /\ r.to = e /\ Form(s, a, e) \notin {"", "blank", "comment"}
  BY <1>4 DEF e
<1>8. Rest(s, Append(t, r), e)
  BY <1>1, <1>2, <1>6, <1>7, RestToken
<1> QED
  BY <1>8 DEF e

\* A string without a closing quote on its line is no token.
LEMMA StringNone ==
  ASSUME NEW s, IsSeq(s), NEW t, IsSeq(t), NEW a, NEW b, TokenFrom(s, t, a, b, {Quote}, Inner),
         b < Len(s) => s[b + 1] = "\n"
  PROVE  Made(t) = Parts(s)[0]
<1>1. /\ a \in Nat /\ Len(s) \in Nat /\ Rest(s, t, a) /\ b \in a + 1 .. Len(s)
      /\ s[a + 1] = Quote /\ \A i \in a + 2 .. b : s[i] \notin {Quote, "\n"}
  BY RestPlace DEF TokenFrom, Inner
<1>2. ASSUME NEW n \in a + 1 .. Len(s)
      PROVE  Form(s, a, n) = ""
  <2>1. n \in Nat /\ n > a
    BY <1>1
  <2>2. \/ n = a + 1
        \/ n \in a + 2 .. b
        \/ b < Len(s) /\ n = b + 1
        \/ b < Len(s) /\ b + 1 \in a + 2 .. n - 1
    BY <1>1
  <2>3. ~ IsString(s, a, n)
    <3>1. CASE n = a + 1
      BY <1>1, <3>1 DEF IsString
    <3>2. CASE n \in a + 2 .. b
      BY <1>1, <3>2 DEF IsString
    <3>3. CASE b < Len(s) /\ n = b + 1
      BY <3>3 DEF IsString, Quote
    <3>4. CASE b < Len(s) /\ b + 1 \in a + 2 .. n - 1
      BY <3>4 DEF IsString
    <3> QED
      BY <2>2, <3>1, <3>2, <3>3, <3>4
  <2> QED
    BY <1>1, <2>1, <2>3, FormString
<1>3. NoLonger(s, a, a)
  BY <1>2 DEF NoLonger
<1>4. a < Len(s)
  BY <1>1
<1> QED
  BY <1>1, <1>3, <1>4, RestNone

-----------------------------------------------------------------------------
(* What each mode knows of the tokens                                        *)

\* In mode m, when the token in hand began at a and b characters have been read.
Left(m, s, t, a, b) ==
  /\ m = "between" => Rest(s, t, b)
  /\ m = "comment" => InComment(s, t, b)
  /\ m = "identifier" => TokenFrom(s, t, a, b, Alpha, AlphaNumeric)
  /\ m = "number" => TokenFrom(s, t, a, b, Digits, Digits)
  /\ m = "string" => TokenFrom(s, t, a, b, {Quote}, Inner)
  /\ m \in {"done", "failed"} => Made(t) = Parts(s)[0]

LongestInv == Left(mode, source, tokens, first.at, current)

Sequences == IsSeq(source) /\ IsSeq(tokens) /\ current \in Nat /\ Len(source) \in Nat

LEMMA InvSequences == ASSUME IInv PROVE Sequences
BY SeqShape DEF IInv, Here, TokensPlaced, Sequences

LEMMA LeftBetween ==
  ASSUME NEW s, NEW t, NEW a, NEW b, Rest(s, t, b)
  PROVE  Left("between", s, t, a, b)
BY DEF Left

LEMMA LeftEnd ==
  ASSUME NEW s, NEW t, NEW a, NEW b, NEW m \in {"done", "failed"}, Made(t) = Parts(s)[0]
  PROVE  Left(m, s, t, a, b)
BY DEF Left

LEMMA InitLongest == Init => LongestInv
<1> SUFFICES ASSUME Init PROVE LongestInv
  OBVIOUS
<1>1. source \in Seq(Char)
  BY LexerAssumption DEF Init
<1>2. IsSeq(source) /\ Len(source) \in Nat
  BY <1>1, SeqShape
<1>3. 0 \in 0..Len(source)
  BY <1>2
<1>4. Made(<<>>) = <<>>
  BY DEF Made
<1>5. IsSeq(Parts(source)[0])
  BY <1>2, <1>3, PartsSeq
<1>6. <<>> \o Parts(source)[0] = Parts(source)[0]
  BY <1>5, JoinEmpty
<1>7. Rest(source, <<>>, 0)
  BY <1>3, <1>4, <1>6 DEF Rest
<1> QED
  BY <1>7, LeftBetween DEF LongestInv, Init

LEMMA SkipBlankLongest == ASSUME Sequences, LongestInv, SkipBlank PROVE LongestInv'
<1>1. Rest(source, tokens, current) /\ current < Len(source) /\ source[current + 1] \in Blank
  BY DEF LongestInv, Left, SkipBlank, Sees, Peek, IsAtEnd, Sequences
<1>2. Rest(source, tokens, current + 1)
  BY <1>1, BlankRest DEF Sequences
<1>3. mode' = "between" /\ source' = source /\ tokens' = tokens /\ current' = current + 1
  BY DEF SkipBlank, Advance
<1> QED
  BY <1>2, <1>3, LeftBetween DEF LongestInv

LEMMA BeginCommentLongest == ASSUME Sequences, LongestInv, BeginComment PROVE LongestInv'
<1>1. /\ Rest(source, tokens, current) /\ current + 1 < Len(source)
      /\ source[current + 1] = "/" /\ source[current + 2] = "/"
  BY DEF LongestInv, Left, BeginComment, AtComment, Sees, Peek, PeekNext, IsAtEnd, Sequences
<1>2. InComment(source, tokens, current + 1)
  BY <1>1, CommentBegins DEF Sequences
<1>3. mode' = "comment" /\ source' = source /\ tokens' = tokens /\ current' = current + 1
  BY DEF BeginComment, Advance
<1> QED
  BY <1>2, <1>3 DEF LongestInv, Left

LEMMA SkipCommentLongest == ASSUME Sequences, LongestInv, SkipComment PROVE LongestInv'
<1>1. InComment(source, tokens, current) /\ current < Len(source)
  BY DEF LongestInv, Left, SkipComment, IsAtEnd, Sequences
<1>2. source' = source /\ tokens' = tokens /\ current' = current + 1
  BY DEF SkipComment, Advance
<1>3. CASE source[current + 1] = "\n"
  <2>1. Rest(source, tokens, current + 1)
    BY <1>1, <1>3, LineEnds DEF Sequences
  <2>2. mode' = "between"
    BY <1>3 DEF SkipComment, Sees, Peek, IsAtEnd
  <2> QED
    BY <1>2, <2>1, <2>2, LeftBetween DEF LongestInv
<1>4. CASE source[current + 1] # "\n"
  <2>1. InComment(source, tokens, current + 1)
    BY <1>1, <1>4, CommentGoesOn DEF Sequences
  <2>2. mode' = "comment"
    BY <1>4 DEF SkipComment, Sees, Peek, IsAtEnd
  <2> QED
    BY <1>2, <2>1, <2>2 DEF LongestInv, Left
<1> QED
  BY <1>3, <1>4

LEMMA EndCommentLongest == ASSUME IInv, LongestInv, EndComment PROVE LongestInv'
<1>1. InComment(source, tokens, current) /\ current = Len(source) /\ IsSeq(source)
  BY InvSequences DEF LongestInv, Left, EndComment, IsAtEnd, Sequences, IInv, Here
<1>2. Rest(source, tokens, current)
  BY <1>1, CommentEnds
<1>3. mode' = "between" /\ source' = source /\ tokens' = tokens /\ current' = current
  BY DEF EndComment
<1> QED
  BY <1>2, <1>3, LeftBetween DEF LongestInv

\* Where a token of several characters begins.
LEMMA BeginLongest ==
  ASSUME Sequences, LongestInv, NEW chars, NEW next, Begin(chars, next), NEW more
  PROVE  /\ TokenFrom(source', tokens', first'.at, current', chars, more)
         /\ mode' = next
<1>1. Rest(source, tokens, current) /\ current < Len(source) /\ source[current + 1] \in chars
  BY DEF LongestInv, Left, Begin, Sees, Peek, IsAtEnd, Sequences
<1>2. TokenFrom(source, tokens, current, current + 1, chars, more)
  BY <1>1, TokenBegins DEF Sequences
<1>3. /\ source' = source /\ tokens' = tokens /\ current' = current + 1
      /\ first'.at = current /\ mode' = next
  BY DEF Begin, Advance, Position
<1> QED
  BY <1>2, <1>3

LEMMA ContinueLongest ==
  ASSUME Sequences, NEW in, NEW chars, Continue(in, chars), NEW begin,
         TokenFrom(source, tokens, first.at, current, begin, chars)
  PROVE  /\ TokenFrom(source', tokens', first'.at, current', begin, chars)
         /\ mode' = in
<1>1. current < Len(source) /\ source[current + 1] \in chars
  BY DEF Continue, Sees, Peek, IsAtEnd, Sequences
<1>2. TokenFrom(source, tokens, first.at, current + 1, begin, chars)
  BY <1>1, TokenGoesOn DEF Sequences
<1>3. source' = source /\ tokens' = tokens /\ current' = current + 1 /\ first' = first /\ mode' = in
  BY DEF Continue, Advance
<1> QED
  BY <1>2, <1>3

LEMMA LoopLongest ==
  ASSUME Sequences, LongestInv,
         \/ ScanIdentifier \/ ScanNumber \/ ScanString
         \/ ReadIdentifier \/ ReadNumber \/ ReadString
  PROVE  LongestInv'
<1>1. CASE ScanIdentifier
  <2>1. TokenFrom(source', tokens', first'.at, current', Alpha, AlphaNumeric) /\ mode' = "identifier"
    BY <1>1, BeginLongest DEF ScanIdentifier
  <2> QED
    BY <2>1 DEF LongestInv, Left
<1>2. CASE ScanNumber
  <2>1. TokenFrom(source', tokens', first'.at, current', Digits, Digits) /\ mode' = "number"
    BY <1>2, BeginLongest DEF ScanNumber
  <2> QED
    BY <2>1 DEF LongestInv, Left
<1>3. CASE ScanString
  <2>1. TokenFrom(source', tokens', first'.at, current', {Quote}, Inner) /\ mode' = "string"
    BY <1>3, BeginLongest DEF ScanString
  <2> QED
    BY <2>1 DEF LongestInv, Left
<1>4. CASE ReadIdentifier
  <2>1. TokenFrom(source, tokens, first.at, current, Alpha, AlphaNumeric)
    BY <1>4 DEF ReadIdentifier, Continue, LongestInv, Left
  <2>2. TokenFrom(source', tokens', first'.at, current', Alpha, AlphaNumeric) /\ mode' = "identifier"
    BY <1>4, <2>1, ContinueLongest DEF ReadIdentifier
  <2> QED
    BY <2>2 DEF LongestInv, Left
<1>5. CASE ReadNumber
  <2>1. TokenFrom(source, tokens, first.at, current, Digits, Digits)
    BY <1>5 DEF ReadNumber, Continue, LongestInv, Left
  <2>2. TokenFrom(source', tokens', first'.at, current', Digits, Digits) /\ mode' = "number"
    BY <1>5, <2>1, ContinueLongest DEF ReadNumber
  <2> QED
    BY <2>2 DEF LongestInv, Left
<1>6. CASE ReadString
  <2>1. TokenFrom(source, tokens, first.at, current, {Quote}, Inner)
    BY <1>6 DEF ReadString, Continue, LongestInv, Left
  <2>2. TokenFrom(source', tokens', first'.at, current', {Quote}, Inner) /\ mode' = "string"
    BY <1>6, <2>1, ContinueLongest DEF ReadString, Inner
  <2> QED
    BY <2>2 DEF LongestInv, Left
<1> QED
  BY <1>1, <1>2, <1>3, <1>4, <1>5, <1>6

LEMMA TokenIs ==
  ASSUME NEW kind, NEW start, NEW to
  PROVE  LET r == MakeToken(kind, start, to)
         IN  r.kind = kind /\ r.from = start.at /\ r.to = to
BY DEF MakeToken

LEMMA EndIdentifierLongest == ASSUME Sequences, LongestInv, EndIdentifier PROVE LongestInv'
<1> DEFINE r == MakeToken(KindOfWord(SubSeq(source, first.at + 1, current)), first, current)
<1>1. /\ TokenFrom(source, tokens, first.at, current, Alpha, AlphaNumeric)
      /\ ~ (current < Len(source) /\ source[current + 1] \in AlphaNumeric)
  BY DEF EndIdentifier, End, LongestInv, Left, Sees, Peek, IsAtEnd, Sequences
<1>2. /\ r.kind = KindOfWord(SubSeq(source, first.at + 1, current))
      /\ r.from = first.at /\ r.to = current
  BY TokenIs
<1>3. mode' = "between" /\ source' = source /\ tokens' = Append(tokens, r) /\ current' = current
  BY DEF EndIdentifier, End
<1> HIDE DEF r
<1>4. Rest(source, Append(tokens, r), current)
  BY <1>1, <1>2, WordRest DEF Sequences
<1> QED
  BY <1>3, <1>4, LeftBetween DEF LongestInv

LEMMA EndNumberLongest ==
  ASSUME Sequences, LongestInv, ~ HasDecimal(source), EndNumber
  PROVE  LongestInv'
<1> DEFINE r == MakeToken("number", first, current)
<1>1. /\ TokenFrom(source, tokens, first.at, current, Digits, Digits)
      /\ ~ (current < Len(source) /\ source[current + 1] \in Digits)
  BY DEF EndNumber, End, LongestInv, Left, Sees, Peek, IsAtEnd, Sequences
<1>2. r.kind = "number" /\ r.from = first.at /\ r.to = current
  BY TokenIs
<1>3. mode' = "between" /\ source' = source /\ tokens' = Append(tokens, r) /\ current' = current
  BY DEF EndNumber, End
<1> HIDE DEF r
<1>4. Rest(source, Append(tokens, r), current)
  BY <1>1, <1>2, NumberRest DEF Sequences
<1> QED
  BY <1>3, <1>4, LeftBetween DEF LongestInv

LEMMA EndStringLongest == ASSUME Sequences, LongestInv, EndString PROVE LongestInv'
<1> DEFINE r == MakeToken("string", first, current + 1)
<1>1. /\ TokenFrom(source, tokens, first.at, current, {Quote}, Inner)
      /\ current < Len(source) /\ source[current + 1] = Quote
  BY DEF EndString, LongestInv, Left, Sees, Peek, IsAtEnd, Sequences
<1>2. r.kind = "string" /\ r.from = first.at /\ r.to = current + 1
  BY TokenIs
<1>3. mode' = "between" /\ source' = source /\ tokens' = Append(tokens, r) /\ current' = current + 1
  BY DEF EndString, Advance
<1> HIDE DEF r
<1>4. Rest(source, Append(tokens, r), current + 1)
  BY <1>1, <1>2, StringRest DEF Sequences
<1> QED
  BY <1>3, <1>4, LeftBetween DEF LongestInv

LEMMA OpenStringLongest == ASSUME Sequences, LongestInv, OpenString PROVE LongestInv'
<1>1. /\ TokenFrom(source, tokens, first.at, current, {Quote}, Inner)
      /\ current < Len(source) => source[current + 1] = "\n"
  BY DEF OpenString, LongestInv, Left, Sees, Peek, IsAtEnd, Sequences
<1>2. Made(tokens) = Parts(source)[0]
  BY <1>1, StringNone DEF Sequences
<1>3. mode' = "failed" /\ source' = source /\ tokens' = tokens
  BY DEF OpenString, Fail
<1> QED
  BY <1>2, <1>3, LeftEnd DEF LongestInv

LEMMA ScanSymbolLongest == ASSUME Sequences, LongestInv, ScanSymbol PROVE LongestInv'
<1> DEFINE r == MakeToken(Symbol[source[current + 1]], Position, current + 1)
<1>1. /\ Rest(source, tokens, current) /\ current < Len(source)
      /\ source[current + 1] \in DOMAIN Symbol
      /\ ~ (source[current + 1] = "/" /\ current + 1 < Len(source) /\ source[current + 2] = "/")
  BY DEF ScanSymbol, AtComment, LongestInv, Left, Sees, Peek, PeekNext, IsAtEnd, Sequences
<1>2. r.kind = Symbol[source[current + 1]] /\ r.from = current /\ r.to = current + 1
  BY TokenIs DEF Position
<1>3. mode' = "between" /\ source' = source /\ tokens' = Append(tokens, r) /\ current' = current + 1
  BY DEF ScanSymbol, Advance
<1> HIDE DEF r
<1>4. Rest(source, Append(tokens, r), current + 1)
  BY <1>1, <1>2, SymbolRest DEF Sequences
<1> QED
  BY <1>3, <1>4, LeftBetween DEF LongestInv

LEMMA ScanEqualsLongest == ASSUME Sequences, LongestInv, ScanEquals PROVE LongestInv'
<1> DEFINE n == IF PeekNext = {"="} THEN 2 ELSE 1
           r == MakeToken(Equals[source[current + 1]][n], Position, current + n)
<1>1. /\ Rest(source, tokens, current) /\ current < Len(source)
      /\ source[current + 1] \in DOMAIN Equals
  BY DEF ScanEquals, LongestInv, Left, Sees, Peek, IsAtEnd, Sequences
<1>2. r.kind = Equals[source[current + 1]][n] /\ r.from = current /\ r.to = current + n
  BY TokenIs DEF Position
<1>3. mode' = "between" /\ source' = source /\ tokens' = Append(tokens, r) /\ current' = current + n
  BY DEF ScanEquals
<1> HIDE DEF r
<1>4. Rest(source, Append(tokens, r), current + n)
  <2>1. CASE PeekNext = {"="}
    <3>1. current + 1 < Len(source) /\ source[current + 2] = "="
      BY <2>1 DEF PeekNext, Sequences
    <3>2. n = 2
      BY <2>1
    <3> HIDE DEF n
    <3> QED
      BY <1>1, <1>2, <3>1, <3>2, EqualsTwo DEF Sequences
  <2>2. CASE PeekNext # {"="}
    <3>1. ~ (current + 1 < Len(source) /\ source[current + 2] = "=")
      BY <2>2 DEF PeekNext, Sequences
    <3>2. n = 1
      BY <2>2
    <3> HIDE DEF n
    <3> QED
      BY <1>1, <1>2, <3>1, <3>2, EqualsOne DEF Sequences
  <2> QED
    BY <2>1, <2>2
<1> HIDE DEF n
<1> QED
  BY <1>3, <1>4, LeftBetween DEF LongestInv

LEMMA ScanUnknownLongest == ASSUME Sequences, LongestInv, ScanUnknown PROVE LongestInv'
<1>1. /\ Rest(source, tokens, current) /\ current < Len(source)
      /\ source[current + 1] \notin Marks /\ source[current + 1] \notin AlphaNumeric
  BY DEF ScanUnknown, LongestInv, Left, Sees, Peek, IsAtEnd, Sequences, Marks
<1>2. Made(tokens) = Parts(source)[0]
  BY <1>1, UnknownRest DEF Sequences
<1>3. mode' = "failed" /\ source' = source /\ tokens' = tokens
  BY DEF ScanUnknown, Fail
<1> QED
  BY <1>2, <1>3, LeftEnd DEF LongestInv

LEMMA ScanEofLongest == ASSUME IInv, LongestInv, ScanEof PROVE LongestInv'
<1> DEFINE r == MakeToken("eof", Position, current)
<1>1. /\ Rest(source, tokens, current) /\ current = Len(source)
      /\ IsSeq(source) /\ IsSeq(tokens)
  BY InvSequences DEF ScanEof, LongestInv, Left, IsAtEnd, Sequences, IInv, Here
<1>2. r.kind = "eof" /\ r.from = current /\ r.to = current
  BY TokenIs DEF Position
<1>3. mode' = "done" /\ source' = source /\ tokens' = Append(tokens, r)
  BY DEF ScanEof
<1> HIDE DEF r
<1>4. Made(Append(tokens, r)) = Parts(source)[0]
  BY <1>1, <1>2, RestEof
<1> QED
  BY <1>3, <1>4, LeftEnd DEF LongestInv

\* Every step keeps what the mode knows.
LEMMA StepLongest ==
  ASSUME IInv, LongestInv, ~ HasDecimal(source), [Next]_vars
  PROVE  LongestInv'
<1>1. Sequences
  BY InvSequences
<1>2. CASE SkipWhitespace
  BY <1>1, <1>2, SkipBlankLongest, BeginCommentLongest, SkipCommentLongest, EndCommentLongest
     DEF SkipWhitespace
<1>3. CASE ScanToken
  BY <1>1, <1>3, LoopLongest, EndIdentifierLongest, EndNumberLongest, EndStringLongest,
     OpenStringLongest, ScanSymbolLongest, ScanEqualsLongest, ScanUnknownLongest DEF ScanToken
<1>4. CASE ScanEof
  BY <1>4, ScanEofLongest
<1>5. CASE UNCHANGED vars
  BY <1>5 DEF vars, LongestInv
<1> QED
  BY <1>2, <1>3, <1>4, <1>5 DEF Next

\* The source stays what it was.
LEMMA SourceStays == ASSUME source \in Sources, [Next]_vars PROVE source' \in Sources
BY DEF Next, SkipWhitespace, SkipBlank, BeginComment, SkipComment, EndComment, ScanToken,
       ScanIdentifier, ScanNumber, ScanString, Begin, ReadIdentifier, ReadNumber, ReadString, Continue,
       EndIdentifier, EndNumber, End, EndString, OpenString, ScanUnknown, Fail, ScanSymbol, ScanEquals,
       ScanEof, vars

\* Of sources in which no number has a fraction, the tokens are the text cut into
\* the longest tokens from its beginning, and the lexer stops only at its end or where
\* no token begins (lexer.cc ScanAll, SkipWhitespace, ScanToken and the loops it calls).
THEOREM LongestTokens ==
  ASSUME \A s \in Sources : ~ HasDecimal(s)
  PROVE  Spec => []LongestMatch
<1>1. Init => source \in Sources
  BY DEF Init
<1>2. source \in Sources => ~ HasDecimal(source)
  OBVIOUS
<1>3. source \in Sources /\ [Next]_vars => (source \in Sources)'
  BY SourceStays
<1>4. IInv /\ LongestInv /\ source \in Sources /\ [Next]_vars => LongestInv'
  BY <1>2, StepLongest
<1>5. LongestInv => LongestMatch
  BY DEF LongestInv, Left, LongestMatch, Made
<1> QED
  BY Invariance, InitLongest, <1>1, <1>3, <1>4, <1>5, PTL DEF Spec
=============================================================================
