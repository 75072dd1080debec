---------------------------- MODULE MCGenerations ----------------------------
(* Generations.tla on scripts that declare the same names differently.        *)
EXTENDS Generations

Method(m, e) == <<"fun", m, <<>>, <<<<"return", e>>>>>>
Class(c, super, methods) == <<"class", c, super, methods>>
Call(e) == <<"expr", <<"call", e, <<>>>>>>

MCScript ==
  {<<Class("A", "", <<Method("m", Num(1))>>), Call(<<"var", "A">>)>>,
   <<<<"fun", "f", <<"x">>, <<<<"return", <<"var", "x">>>>>>>>,
     Class("A", "", <<Method("n", Num(2)), Method("init", <<"this">>)>>), Call(<<"var", "A">>)>>,
   <<Class("B", "", <<Method("m", Num(3))>>),
     Class("A", "B", <<Method("n", <<"super", "m">>)>>)>>,
   <<Class("A", "", <<Method("m", Num(4))>>),
     Class("B", "A", <<Method("m", <<"super", "m">>)>>), Call(<<"var", "B">>)>>,
   <<<<"vardecl", "f", <<"none">>>>, <<"assign", "f", <<"var", "g">>>>,
     <<"fun", "g", <<>>, <<<<"vardecl", "A", <<"var", "f">>>>>>>>>>}
=============================================================================
