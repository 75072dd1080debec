------------------------------- MODULE MCFiles -------------------------------
(* Files.tla on small functions.                                             *)
EXTENDS Files

\* The constants that main.cc saves, and what looks like another's length or tag;
\* and a callable, as a variable expression that names a function makes one.
MCConst == {Null, Bool(TRUE), Num(3), Str(<<"a", "b">>), Callable(9)}

MCName == {<<>>, <<"f">>}
=============================================================================
