-------------------------------- MODULE Sums --------------------------------
(***************************************************************************)
(* The type of a sum (or of any chain of arithmetic operators): variables  *)
(* are declared with lists of type specifiers, make_iconst gives constants *)
(* a type, make_binary promotes both sides and brings them to a common     *)
(* type, operand after operand.                                            *)
(***************************************************************************)
EXTENDS SpecifierList, Conversions

CONSTANTS
  Architectures, \* what isemant may be given
  Constants      \* values of integer constants

(* What C asks of an architecture. *)
AsInC(a) ==
  /\ \A t \in IntegerTypes : a[t].width > 0
  /\ \A t \in {"int", "long", "llong"} : a[t].sign = 1
  /\ \A t \in {"uint", "ulong", "ullong"} : a[t].sign = 0
  /\ a["int"].rank = a["uint"].rank /\ a["int"].width = a["uint"].width
  /\ a["long"].rank = a["ulong"].rank /\ a["long"].width = a["ulong"].width
  /\ a["llong"].rank = a["ullong"].rank /\ a["llong"].width = a["ullong"].width
  /\ a["int"].rank < a["long"].rank /\ a["long"].rank < a["llong"].rank
  /\ a["int"].width <= a["long"].width /\ a["long"].width <= a["llong"].width

(* The one that the program has, where ulong, llong and ullong are what    *)
(* long is: signed, and of its rank.  C allows none of the three.          *)
AsInMain(a) == \E byte \in 1..a["int"].width : a = Amd64(byte)

ASSUME ArchitecturesAssumption ==
  /\ Architectures \subseteq [IntegerTypes -> [rank : Nat, width : Nat, sign : {0, 1}]]
  /\ \A a \in Architectures : AsInC(a) \/ AsInMain(a)
  /\ Constants \subseteq Nat

VARIABLES
  arch, \* the architecture
  seen, \* the types of the operands read so far
  acc,  \* the type of the tree built so far, "none" before the first
  lit   \* the last constant: its value, whether it is decimal, its type

sum     == <<arch, seen, acc, lit>>
sumVars == <<vars, sum>>

NoConstant == [k |-> 0, decimal |-> TRUE, ty |-> "none"]

SumInit ==
  /\ EnterDecl
  /\ arch \in Architectures
  /\ seen = {}
  /\ acc = "none"
  /\ lit = NoConstant

(* The declaration of the next variable goes on. *)
Declare(atom) ==
  /\ ReadSpecifier(atom)
  /\ lit' = NoConstant
  /\ UNCHANGED <<arch, seen, acc>>

(* make_binary, for an operator that takes its operands through the usual  *)
(* arithmetic conversions: its label conv.                                 *)
Operand(t) ==
  /\ acc # "die"
  /\ seen' = seen \cup {t}
  /\ acc' = IF acc = "none" THEN Promoted(arch, t)
            ELSE CommonRealType(arch, acc, Promoted(arch, t))
  /\ UNCHANGED arch

(* The variable just declared, with declspec_type; another may follow. *)
Variable ==
  /\ length > 0 /\ ts # SpecInvalid
  /\ DeclspecType(ts) \in IntegerTypes
  /\ Operand(DeclspecType(ts))
  /\ lit' = NoConstant
  /\ ts' = SpecNone /\ count' = [a \in Atoms |-> 0]
  /\ length' = 0 /\ errors' = 0

Constant(k, decimal) ==
  LET ty == ConstantType(arch, k, decimal) IN
  /\ length = 0
  /\ Operand(ty)
  /\ lit' = [k |-> k, decimal |-> decimal, ty |-> ty]
  /\ UNCHANGED vars

SumNext ==
  \/ \E atom \in Atoms : Declare(atom)
  \/ Variable
  \/ \E k \in Constants, decimal \in BOOLEAN :
       k < 2 ^ arch["ullong"].width /\ Constant(k, decimal)

SumSpec == SumInit /\ [][SumNext]_sumVars
-----------------------------------------------------------------------------
Position == [int |-> 1, uint |-> 2, long |-> 3, ulong |-> 4, llong |-> 5, ullong |-> 6]

(* t can be the type of an expression with an operand of type s: it comes  *)
(* no earlier, and holds the values of s or wraps around.                  *)
FitFor(a, t, s) ==
  /\ Position[s] <= Position[t]
  /\ a[t].sign = 0 \/ ValueBits(a, s) <= ValueBits(a, t)

(* The first type that is fit for every operand. *)
Least(a, t, operands) ==
  /\ \A s \in operands : FitFor(a, t, s)
  /\ \A u \in IntegerTypes :
       (\A s \in operands : FitFor(a, u, s)) => Position[t] <= Position[u]

SumTypeOK ==
  /\ arch \in Architectures
  /\ seen \subseteq IntegerTypes
  /\ acc \in IntegerTypes \cup {"none", "die"}
  /\ acc = "none" <=> seen = {}

(* Two types that the architecture does not tell from each other.          *)
Alike(a, t, u) == t # u /\ a[t] = a[u]

(* The type of a sum is the one C gives it, which depends on the set of    *)
(* its operands' types and not on their order: promote and commonrealtype  *)
(* neither assert nor die.  One exception, which C rules out and the table *)
(* of main.c has: where the type C gives is that of an operand, and        *)
(* another operand has a type alike, the sum may have that one's.          *)
SumTypeIsLeast ==
  acc # "none" =>
    /\ acc \in IntegerTypes
    /\ \/ Least(arch, acc, seen)
       \/ acc \in seen /\ \E t \in seen : Alike(arch, acc, t) /\ Least(arch, t, seen)

(* iconsttype: "Returns the first type capable of representing k", among   *)
(* the signed ones for a decimal constant if one of them is capable.  One  *)
(* exception, which C rules out and the table of main.c has: if no type is *)
(* capable, as ullong is signed, the constant is of type ullong.           *)
ConstantTypeIsAble ==
  lit.ty # "none" =>
    LET able == {t \in IntegerTypes : lit.k < 2 ^ ValueBits(arch, t)}
        some == {t \in able : lit.decimal => t \in {"int", "long", "llong"}}
    IN  IF able = {} THEN arch["ullong"].sign = 1 /\ lit.ty = "ullong"
        ELSE lit.ty \in able /\ \A t \in some : Position[lit.ty] <= Position[t]
=============================================================================
