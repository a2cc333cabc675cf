-------------------------- MODULE MCInstructions --------------------------
(* Instructions for TLC.  Addresses are such that those of i, j and u fit  *)
(* in the 4 bits of an int, and that p + 1 is &j.                          *)
EXTENDS Instructions

SomeVariables == [i |-> "int", j |-> "int", u |-> "uint", k |-> "long", p |-> "int*", w |-> "void*"]
SomeAddresses == [i |-> 4, j |-> 8, u |-> 12, k |-> 16, p |-> 24, w |-> 32]
Memory(i, j, u, k, p) ==
  [a \in {4, 8, 12, 16, 24, 32} |-> CASE a = 4 -> i [] a = 8 -> j [] a = 12 -> u [] a = 16 -> k
                                      [] a = 24 -> p [] a = 32 -> 8]
SomeMemories ==
  {Memory(1, 13, 2, 254, 4), Memory(8, 15, 9, 100, 8), Memory(0, 3, 6, 7, 4)}
AllOperators == Arithmetic \cup Shifts \cup Comparisons
=============================================================================
