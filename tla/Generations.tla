----------------------------- MODULE Generations -----------------------------
(***************************************************************************)
(* One generator that compiles several scripts, one after the other.         *)
(* (generator.cc, Generate).                                                *)
(***************************************************************************)
EXTENDS Generator

CONSTANTS
  Script,         \* the scripts, as syntax trees
  MaxScripts      \* bound: how many a generator compiles

VARIABLES
  scripts,        \* those that it has compiled
  kept,           \* functions_, class_map_, super_name_map_
  made            \* what the last Generate gave

vars == <<scripts, kept, made>>

GenerateNext(p) ==
  /\ Len(scripts) < MaxScripts
  /\ scripts' = Append(scripts, p)
  /\ made' = GenerateAfter(p, kept)
  /\ kept' = made'.decl

Init ==
  /\ scripts = <<>>
  /\ kept = Clean
  /\ made = Generate(<<>>)

Next == \E p \in Script : GenerateNext(p)

Spec == Init /\ [][Next]_vars

-----------------------------------------------------------------------------
(* Properties                                                               *)

Afresh == Generate(IF scripts = <<>> THEN <<>> ELSE Last(scripts))

\* Functions as they are but for the identity of class objects.
Named(result, fn) ==
  [fn EXCEPT !.consts = [i \in DOMAIN @ |->
                           IF IsObj(@[i]) THEN <<"class", result.objects[@[i][2]].name>> ELSE @[i]]]

Functions(result) ==
  [i \in DOMAIN result.functions |-> Named(result, result.functions[i])]

\* The script's code and the functions to register are those that a new generator
\* would make: none that an earlier script declared, each at its own index, with
\* the superclasses of this script (generator.cc Generate, PredeclareFunctions).
FunctionsAfresh ==
  /\ Functions(made) = Functions(Afresh)
  /\ Named(made, made.script) = Named(Afresh, Afresh.script)

\* A class: its superclass and its methods.
ClassOf(result, name) ==
  LET k == result.objects[result.decl.classes[name]]
  IN  [k EXCEPT !.super = IF @ = 0 THEN "" ELSE result.objects[@].name]

\* Each script is compiled from a clean state (generator.cc, Generate): its
\* classes have the methods and superclasses that it declares.
CleanStart == \A c \in DOMAIN Afresh.decl.classes : ClassOf(made, c) = ClassOf(Afresh, c)
=============================================================================
