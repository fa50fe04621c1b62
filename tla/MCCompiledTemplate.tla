------------------------- MODULE MCCompiledTemplate -------------------------
(* A template with a function, and a library file with another one.         *)
EXTENDS CompiledTemplate, SequencesExt

S(op, cond) == [op |-> op, cond |-> cond]
C(op, fn) == [op |-> op, cond |-> FALSE, fn |-> fn]
LoadLib == [op |-> "load", cond |-> FALSE, tpl |-> "lib"]

MCHome == [f |-> "main", g |-> "lib"]

Bodies(statements, n) == UNION {[1 .. m -> statements] : m \in 0 .. n}

FBodies == Bodies({S("node", FALSE), S("return", TRUE), C("call", "g"), C("try_to", "g")}, 3)
GBodies == Bodies({S("node", TRUE), S("return", TRUE), S("return_value", FALSE),
                   S("fail", TRUE), C("call", "g")}, 2)

MainTops == {<<LoadLib, C("call", "f"), S("node", FALSE)>>,
             <<LoadLib, S("node", FALSE), C("try_to", "f"), C("call", "g")>>}
LibTops == {<< >>, <<S("node", FALSE), C("call", "g")>>}

MCPrograms ==
  {[top |-> [main |-> m, lib |-> l], body |-> [f |-> b, g |-> c]] :
     m \in MainTops, l \in LibTops, b \in FBodies, c \in GBodies}

=============================================================================
