------------------------------- MODULE Syntax -------------------------------
(***************************************************************************)
(* Tokens (lexer.h) and syntax trees (ast.h).  A tree is a tuple that begins *)
(* with the node's kind.  Of the tokens that a node holds, it keeps the name *)
(* or operator; the others serve error messages.  A number literal is the     *)
(* number that its lexeme denotes.                                           *)
(***************************************************************************)
EXTENDS Integers, Sequences, SequencesExt

Token(kind, lexeme) == [kind |-> kind, lexeme |-> lexeme]

\* The characters of a lexeme.
Chars(s) == [i \in 1..Len(s) |-> SubSeq(s, i, i)]

Digit == [c \in {"0", "1", "2", "3", "4", "5", "6", "7", "8", "9"} |->
            CHOOSE d \in 0..9 : ToString(d) = c]

\* std::stod, of digits.
NumberOf(lexeme) == FoldLeft(LAMBDA n, c : 10 * n + Digit[c], 0, Chars(lexeme))

\* Expressions
LiteralExpr(kind, lexeme) ==
  CASE kind = "number" -> <<"num", NumberOf(lexeme)>>
    [] kind = "string" -> <<"str", lexeme>>
    [] kind = "bool"   -> <<"bool", lexeme = "true">>
    [] kind = "null"   -> <<"null">>

VariableExpr(name)        == <<"var", name>>
CallExpr(callee, args)    == <<"call", callee, args>>
BinaryExpr(l, op, r)      == <<"binary", op, l, r>>
ListExpr(elements)        == <<"list", elements>>
DictExpr(entries)         == <<"dict", entries>>
IndexExpr(object, e)      == <<"index", object, e>>
UnaryExpr(op, e)          == <<"unary", op, e>>
GetPropExpr(object, name) == <<"get", object, name>>
ThisExpr                  == <<"this">>
SuperExpr(method)         == <<"super", method>>

\* Statements; None is a null pointer.
None                            == <<"none">>
VarStmt(name, initializer)      == <<"vardecl", name, initializer>>
ExprStmt(e)                     == <<"expr", e>>
PrintStmt(e)                    == <<"print", e>>
WhileStmt(cond, body)           == <<"while", cond, body>>
ForStmt(init, cond, step, body) == <<"for", init, cond, step, body>>
BreakStmt                       == <<"break">>
ContinueStmt                    == <<"continue">>
BlockStmt(statements)           == <<"block", statements>>
FunctionStmt(name, params, body) == <<"fun", name, params, body>>
AssignStmt(name, e)             == <<"assign", name, e>>
IndexAssignStmt(object, i, e)   == <<"indexassign", object, i, e>>
IfStmt(cond, then, else)        == <<"if", cond, then, else>>
ReturnStmt(e)                   == <<"return", e>>
PropAssignStmt(object, name, e) == <<"propassign", object, name, e>>
ClassStmt(name, super, methods) == <<"class", name, super, methods>>

\* The operators' names, as the generator knows them.
OperatorOf == [equal_equal |-> "eq", not_equal |-> "ne", less |-> "less",
               greater |-> "greater", plus |-> "plus", minus |-> "minus",
               star |-> "star", slash |-> "slash", not |-> "not"]
=============================================================================
