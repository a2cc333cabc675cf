---------------------------- MODULE Conversions ----------------------------
(***************************************************************************)
(* The conversions of arithmetic types in src/semant.c: integer promotion, *)
(* the usual arithmetic conversions and the type of an integer constant.   *)
(* They work on whatever struct arch isemant is given; here it is the      *)
(* parameter a, a function from the integer types to their rank, their     *)
(* width in bits and their sign.                                           *)
(***************************************************************************)
EXTENDS Integers, Specifiers

(* The array of iconsttype. *)
IntTypes == <<"int", "uint", "long", "ulong", "llong", "ullong">>

(* The bits of a type that hold a value, without that of the sign. *)
ValueBits(a, t) == a[t].width - a[t].sign

(* promote *)
Promoted(a, t) ==
  IF a[t].rank > a["int"].rank THEN t
  ELSE IF ValueBits(a, t) <= ValueBits(a, "int") THEN "int" ELSE "uint"

(* What commonrealtype falls back on; the other types fail its assertion   *)
(* or reach its die.                                                       *)
UnsignedOf(t) == IF t = "long" THEN "ulong" ELSE IF t = "llong" THEN "ullong" ELSE "die"

(* Mutant of CommonRealType: the wider type wins, whatever its sign. *)
WiderRealType(a, l, r) == IF a[l].width > a[r].width THEN l ELSE r

(* commonrealtype: u and s are its tl and tr after the unsigned one is put *)
(* first.                                                                  *)
CommonRealType(a, l, r) ==
  LET u == IF a[l].sign = 1 THEN r ELSE l
      s == IF a[l].sign = 1 THEN l ELSE r
  IN  IF      l = r                      THEN l
      ELSE IF a[l].sign = a[r].sign      THEN IF a[l].rank > a[r].rank THEN l ELSE r
      ELSE IF a[u].rank >= a[s].rank     THEN u
      ELSE IF a[u].width < a[s].width    THEN s
      ELSE UnsignedOf(s)

(* The types iconsttype tries, as places in IntTypes, and those among them *)
(* that pass its test.                                                     *)
Tried(decimal) == {i \in 1..6 : decimal => i % 2 = 1}
(* Mutant of Able: the bit of the sign counts as a bit of the value. *)
AbleWithSignBit(a, k, decimal) == {i \in Tried(decimal) : k < 2 ^ a[IntTypes[i]].width}

Able(a, k, decimal) == {i \in Tried(decimal) : k < 2 ^ ValueBits(a, IntTypes[i])}

(* iconsttype *)
ConstantType(a, k, decimal) ==
  LET able == Able(a, k, decimal) IN
  IF able = {} THEN "ullong"
  ELSE IntTypes[CHOOSE i \in able : \A j \in able : i <= j]

(* basety and the table of src/main.c, with bytes of the given size. *)
BaseType(byte, w, s) == [rank |-> w * 8, width |-> w * byte, sign |-> s]

Amd64(byte) ==
  [t \in IntegerTypes |->
    IF t = "int" THEN BaseType(byte, 4, 1)
    ELSE IF t = "uint" THEN BaseType(byte, 4, 0)
    ELSE BaseType(byte, 8, 1)]
=============================================================================
