--------------------------- MODULE MCExpressions ---------------------------
(* Expressions for TLC: variables of five types, and three functions.      *)
EXTENDS Expressions

SomeVariables ==
  [i |-> Type("int", 0), u |-> Type("uint", 0), k |-> Type("long", 0),
   p |-> Type("int", 1), w |-> Type("void", 1)]
SomeFunctions ==
  [f |-> [ret |-> Type("void", 0), params |-> <<>>],
   g |-> [ret |-> Type("int", 1), params |-> <<Type("int", 1), Type("int", 0)>>],
   h |-> [ret |-> Type("int", 0), params |-> <<Type("void", 0)>>]]
SomeDeclared ==
  [x \in DOMAIN SomeVariables \cup DOMAIN SomeFunctions |->
    IF x \in DOMAIN SomeVariables THEN SomeVariables[x] ELSE Type(x, 0)]
SomeConstants == {Type("int", 0)}
SomeTypeNames == {Type("void", 0), Type("int", 0), Type("ulong", 0)}
=============================================================================
