------------------------------- MODULE MCSums -------------------------------
(* Sums for TLC: the architectures C allows with widths of a few bits, and *)
(* the table of main.c with bytes of one bit.                              *)
EXTENDS Sums

Bits(i, l, ll) ==
  [t \in IntegerTypes |->
    LET n == IF t \in {"int", "uint"} THEN 1 ELSE IF t \in {"long", "ulong"} THEN 2 ELSE 3
    IN  [rank |-> n, width |-> <<i, l, ll>>[n],
         sign |-> IF t \in {"int", "long", "llong"} THEN 1 ELSE 0]]

Widths == {<<i, l, ll>> \in (2..4) \X (2..4) \X (2..4) : i <= l /\ l <= ll}
TableOfMain == {Amd64(1)}
AllTables == {Bits(w[1], w[2], w[3]) : w \in Widths} \cup TableOfMain
=============================================================================
