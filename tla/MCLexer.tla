------------------------------ MODULE MCLexer -------------------------------
(* Lexer.tla on every short text over a few characters.                       *)
EXTENDS Lexer

CONSTANT Longest    \* bound: how long a source is

MCAlpha == {"i", "f"}
MCDigits == {"1"}
MCChar == MCAlpha \cup MCDigits \cup {"=", "!", "/", "\"", ".", " ", "\n", "#"}

\* Every text of these characters with no number such as 1.1: the lexer has none.
MCSources == {s \in UNION {[1..n -> MCChar] : n \in 0..Longest} : ~HasDecimal(s)}

\* Texts of digits, points and blanks, numbers such as 1.1 included.
MCNumerals == UNION {[1..n -> MCDigits \cup {".", " "}] : n \in 0..Longest}
=============================================================================
