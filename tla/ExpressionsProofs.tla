------------------------- MODULE ExpressionsProofs -------------------------
(***************************************************************************)
(* Theorems on Expressions, for any declarations, functions and numbers of *)
(* values.                                                                 *)
(***************************************************************************)
EXTENDS Expressions, SequenceTheorems, OperatorTheorems

(* The types of trees: an error leaves NULL, and nothing points to it.     *)
TreeTypes == {t \in Types : t.core = "NULL" => t = NULL}

Ops == UnaryOps \cup BinaryOps \cup {"Odiv", "Oassign", "Ovar", "Oconst", "Ocast", "Oseq"}

(* A tree that fits among others, which are what its base may be.          *)
(* "base" is the operand of an Oaddr or Oindir that has a type; what has   *)
(* an address or is of function type is a variable or a star, and no       *)
(* variable is void.                                                       *)
Fits(S, t) ==
  /\ t \in [op : Ops, ty : TreeTypes, null : BOOLEAN, decayed : BOOLEAN,
            lvalue : BOOLEAN, base : S \cup {NoTree}]
  /\ t.base # NoTree => t.op \in {"Oaddr", "Oindir"} /\ t.base.ty # NULL
  /\ t.op \in {"Oaddr", "Oindir"} /\ t.ty # NULL => t.base # NoTree
  /\ t.op = "Oaddr" /\ t.base # NoTree => t.base.op \in {"Ovar", "Oindir"}
  /\ t.decayed => t.op = "Oaddr" /\ t.base # NoTree /\ IsFun(t.base.ty)
  /\ t.lvalue /\ t.ty # NULL => t.op \in {"Ovar", "Oindir"} /\ ~IsFun(t.ty)
  /\ IsFun(t.ty) => t.op \in {"Ovar", "Oindir"}
  /\ t.op = "Ovar" => t.ty # Void

(* Sets of trees that hold what the trees in them are made of.             *)
Closed(S) == \A t \in S : Fits(S, t)

(* What is made of trees in S: a tree that fits among them.                *)
Makes(S, t) == \E T : S \subseteq T /\ Closed(T) /\ t \in T
-----------------------------------------------------------------------------
(* The kinds of types exclude each other.                                  *)
LEMMA Kinds ==
  ASSUME NEW t \in TreeTypes
  PROVE  /\ t \in [core : Cores, depth : Nat] /\ t.depth <= MaxDepth
         /\ t = NULL => ~IsScalar(t) /\ ~IsFun(t) /\ t # Void
         /\ t = Void => ~IsScalar(t) /\ ~IsFun(t)
         /\ IsFun(t) => ~IsScalar(t)
         /\ IsArith(t) => ~IsPtr(t)
         /\ t = NULL \/ t = Void \/ IsScalar(t) \/ IsFun(t)
  BY ConstantsAssumption
     DEF TreeTypes, Types, Cores, NULL, Void, Type, IsScalar, IsArith, IsPtr, IsFun, IntegerTypes

(* What a pointer points to, and a pointer to what has a type.             *)
LEMMA Pointers ==
  ASSUME NEW t \in TreeTypes
  PROVE  /\ IsPtr(t) => Base(t) \in TreeTypes /\ Base(t) # NULL
         /\ t # NULL /\ t.depth < MaxDepth => PtrTo(t) \in TreeTypes /\ PtrTo(t) # NULL /\ IsPtr(PtrTo(t))
  <1>1. MaxDepth \in Nat
    BY ConstantsAssumption
  <1>2. t \in Types /\ t = [core |-> t.core, depth |-> t.depth] /\ t.depth \in 0..MaxDepth /\ t.core \in Cores
    BY DEF TreeTypes, Types
  <1>3. t.core = "NULL" => t = NULL /\ t.depth = 0
    BY DEF TreeTypes, NULL, Type
  <1>4. IsPtr(t) => t.depth - 1 \in 0..MaxDepth /\ t.core # "NULL"
    BY <1>1, <1>2, <1>3 DEF IsPtr
  <1>5. t # NULL /\ t.depth < MaxDepth => t.depth + 1 \in 0..MaxDepth /\ t.core # "NULL"
    <2>1. t.core = "NULL" => t = NULL
      BY <1>3
    <2> QED
      BY <1>1, <1>2, <2>1
  <1> QED
    BY <1>2, <1>4, <1>5 DEF IsPtr, Base, PtrTo, Type, TreeTypes, Types, NULL

(* The types that are always there.                                        *)
LEMMA FixedTypes ==
  /\ NULL \in TreeTypes /\ Void \in TreeTypes
  /\ IntT \in TreeTypes /\ SizeT \in TreeTypes /\ PtrDiffT \in TreeTypes
  /\ IsArith(IntT) /\ IsArith(SizeT) /\ IsArith(PtrDiffT)
  BY ConstantsAssumption
     DEF TreeTypes, Types, Cores, NULL, Void, IntT, SizeT, PtrDiffT, Type, IsArith, IntegerTypes

(* Promotion and the usual arithmetic conversions give arithmetic types.   *)
LEMMA ArchIs ==
  /\ Arch["int"] = [rank |-> 32, width |-> 4, sign |-> 1]
  /\ Arch["uint"] = [rank |-> 32, width |-> 4, sign |-> 0]
  /\ \A t \in IntegerTypes \ {"int", "uint"} : Arch[t] = [rank |-> 64, width |-> 8, sign |-> 1]
  BY DEF Arch, Amd64, BaseType, IntegerTypes

(* What arithmetic converts to is arithmetic.                              *)
LEMMA ArithmeticTypes ==
  ASSUME NEW s \in TreeTypes, NEW t \in TreeTypes, IsArith(s), IsArith(t)
  PROVE  /\ Promote(t) \in TreeTypes /\ IsArith(Promote(t))
         /\ Common(s, t) \in TreeTypes /\ IsArith(Common(s, t))
  <1>1. ASSUME NEW c \in IntegerTypes PROVE Promoted(Arch, c) \in IntegerTypes
    BY <1>1 DEF Promoted, IntegerTypes
  <1>2. ASSUME NEW c \in IntegerTypes, NEW d \in IntegerTypes
        PROVE  CommonRealType(Arch, c, d) \in IntegerTypes
    BY <1>2, ArchIs DEF CommonRealType, UnsignedOf, IntegerTypes
  <1>3. s.core \in IntegerTypes /\ t.core \in IntegerTypes
    BY DEF IsArith
  <1>4. \A c \in IntegerTypes : Type(c, 0) \in TreeTypes /\ IsArith(Type(c, 0))
    BY ConstantsAssumption DEF TreeTypes, Types, Cores, NULL, Type, IsArith, IntegerTypes
  <1> QED
    BY <1>1, <1>2, <1>3, <1>4 DEF Promote, Common

(* Types that are not the same are compatible only if they are pointers to *)
(* functions, or functions, alike.                                         *)
LEMMA CompatibleKinds ==
  ASSUME NEW s \in TreeTypes, NEW t \in TreeTypes, Compatible(s, t), t # NULL
  PROVE  /\ s # NULL
         /\ IsFun(s) <=> IsFun(t)
         /\ s = Void <=> t = Void
  BY ConstantsAssumption DEF TreeTypes, Types, Compatible, IsFun, NULL, Void, Type

(* A tree that fits can be added; one that is there already is there.      *)
LEMMA FitsMakes ==
  ASSUME NEW S, Closed(S), NEW t, Fits(S, t) \/ t \in S
  PROVE  Makes(S, t)
  <1>1. CASE t \in S
    BY <1>1 DEF Makes
  <1>2. CASE Fits(S, t)
    <2> DEFINE T == S \cup {t}
    <2>1. \A x : Fits(S, x) => Fits(T, x)
      BY DEF Fits
    <2>2. Closed(T)
      BY <1>2, <2>1 DEF Closed
    <2>3. S \subseteq T /\ t \in T
      OBVIOUS
    <2> HIDE DEF T
    <2> QED
      BY <2>2, <2>3 DEF Makes
  <1> QED
    BY <1>1, <1>2
-----------------------------------------------------------------------------
(* New trees without an operand, and trees that have lost their type.      *)
LEMMA TreeIs ==
  ASSUME NEW op, NEW ty
  PROVE  Tree(op, ty) = [op |-> op, ty |-> ty, null |-> FALSE, decayed |-> FALSE,
                         lvalue |-> FALSE, base |-> NoTree]
  BY DEF Tree

(* A new tree that has a type, or one that has none.                       *)
LEMMA TreeFits ==
  ASSUME NEW S, NEW op \in Ops \ {"Oaddr", "Oindir", "Ovar"}, NEW ty \in TreeTypes, ~IsFun(ty),
         NEW b \in BOOLEAN
  PROVE  Fits(S, Tree(op, ty)) /\ Fits(S, [Tree(op, ty) EXCEPT !.null = b])
  BY TreeIs DEF Fits

(* A tree that has lost its type, but keeps its flag lvalue.              *)
LEMMA UntypedFits ==
  ASSUME NEW S, NEW op \in Ops, NEW b \in BOOLEAN
  PROVE  Fits(S, Tree(op, NULL)) /\ Fits(S, [Tree(op, NULL) EXCEPT !.lvalue = b])
  <1>1. NULL \in TreeTypes /\ ~IsFun(NULL) /\ NULL # Void
    BY FixedTypes, Kinds
  <1> QED
    BY <1>1, TreeIs DEF Fits

(* What Fits says of a tree in a closed set.                               *)
LEMMA MemberFits ==
  ASSUME NEW S, Closed(S), NEW t \in S
  PROVE  /\ Fits(S, t)
         /\ t.op \in Ops /\ t.ty \in TreeTypes /\ t.lvalue \in BOOLEAN /\ t.null \in BOOLEAN
         /\ t.base # NoTree => t.base \in S /\ t.base.ty # NULL
  BY DEF Closed, Fits

(* & of a tree with a type. *)
LEMMA AddressOfMakes ==
  ASSUME NEW S, Closed(S), NEW t \in S, t.ty # NULL, t.ty.depth < MaxDepth
  PROVE  /\ Makes(S, AddressOf(t).tree) /\ AddressOf(t).stop = "no"
         /\ AddressOf(t).tree.ty = NULL => AddressOf(t).report
  <1> DEFINE x == IF t.decayed THEN t.base ELSE t
  <1>1. x \in S /\ x.ty # NULL /\ x.ty.depth < MaxDepth
    <2>1. CASE t.decayed
      <3>1. t.base # NoTree /\ IsFun(t.base.ty)
        BY <2>1, MemberFits DEF Fits
      <3> QED
        BY <2>1, <3>1, MemberFits, ConstantsAssumption DEF IsFun
    <2> QED
      BY <2>1
  <1>2. /\ Fits(S, x) /\ x.op \in Ops /\ x.ty \in TreeTypes
        /\ x.base # NoTree => x.base \in S /\ x.base.ty # NULL
    BY <1>1, MemberFits
  <1>3. AddressOf(t) =
          IF ~x.lvalue /\ ~IsFun(x.ty) THEN Refused(Tree("Oaddr", NULL), x.ty, NULL)
          ELSE IF x.op = "Oindir" THEN Made(x.base, x.ty, NULL)
          ELSE Made([Tree("Oaddr", PtrTo(x.ty)) EXCEPT !.base = x], x.ty, NULL)
    BY DEF AddressOf
  <1> HIDE DEF x
  <1>4. CASE ~x.lvalue /\ ~IsFun(x.ty)
    <2>1. Makes(S, Tree("Oaddr", NULL))
      BY UntypedFits, FitsMakes DEF Ops, UnaryOps
    <2> QED
      BY <1>3, <1>4, <2>1 DEF Refused, Made
  <1>5. CASE (x.lvalue \/ IsFun(x.ty)) /\ x.op = "Oindir"
    <2>1. x.base \in S /\ x.base.ty # NULL
      BY <1>1, <1>2, <1>5 DEF Fits
    <2>2. Makes(S, x.base)
      BY <2>1, FitsMakes
    <2> QED
      BY <1>3, <1>5, <2>1, <2>2 DEF Made
  <1>6. CASE (x.lvalue \/ IsFun(x.ty)) /\ x.op # "Oindir"
    <2>1. x.op = "Ovar" /\ x # NoTree
      BY <1>1, <1>2, <1>6 DEF Fits, NoTree
    <2> DEFINE y == [Tree("Oaddr", PtrTo(x.ty)) EXCEPT !.base = x]
    <2>2. PtrTo(x.ty) \in TreeTypes /\ PtrTo(x.ty) # NULL /\ IsPtr(PtrTo(x.ty))
      BY <1>1, <1>2, Pointers
    <2>3. ~IsFun(PtrTo(x.ty))
      BY <2>2, Kinds DEF IsScalar
    <2>4. y \in [op : {"Oaddr"}, ty : {PtrTo(x.ty)}, null : {FALSE}, decayed : {FALSE},
                 lvalue : {FALSE}, base : {x}]
      BY TreeIs
    <2>5. Fits(S, y)
      BY <1>1, <2>1, <2>2, <2>3, <2>4 DEF Fits, Ops, UnaryOps
    <2>6. y.ty # NULL
      BY <2>2, <2>4
    <2> HIDE DEF y
    <2>7. Makes(S, y)
      BY <2>5, FitsMakes
    <2>8. AddressOf(t) = Made(y, x.ty, NULL)
      BY <1>3, <1>6 DEF y
    <2> QED
      BY <2>6, <2>7, <2>8 DEF Made
  <1> QED
    BY <1>4, <1>5, <1>6

(* A star before a tree with a type. *)
LEMMA DereferencedMakes ==
  ASSUME NEW S, Closed(S), NEW t \in S, t.ty # NULL
  PROVE  /\ Makes(S, Dereferenced(t).tree) /\ Dereferenced(t).stop = "no"
         /\ Dereferenced(t).tree.ty = NULL => Dereferenced(t).report
  <1>1. /\ Fits(S, t) /\ t.op \in Ops /\ t.ty \in TreeTypes
        /\ t.base # NoTree => t.base \in S /\ t.base.ty # NULL
    BY MemberFits
  <1>2. CASE ~IsPtr(t.ty)
    <2> DEFINE y == [Tree("Oindir", NULL) EXCEPT !.lvalue = TRUE]
    <2>1. Fits(S, y)
      BY UntypedFits DEF Ops, UnaryOps
    <2> HIDE DEF y
    <2>2. Makes(S, y)
      BY <2>1, FitsMakes
    <2>3. Dereferenced(t) = Refused(y, t.ty, NULL)
      BY <1>2 DEF Dereferenced, y
    <2> QED
      BY <2>2, <2>3 DEF Refused, Made
  <1>3. CASE IsPtr(t.ty) /\ t.op = "Oaddr"
    <2>1. t.base \in S /\ t.base.ty # NULL
      BY <1>1, <1>3 DEF Fits
    <2>2. Makes(S, t.base)
      BY <2>1, FitsMakes
    <2> QED
      BY <1>3, <2>1, <2>2 DEF Dereferenced, Made
  <1>4. CASE IsPtr(t.ty) /\ t.op # "Oaddr"
    <2>0. PICK b : b \in BOOLEAN /\ (b <=> ~IsFun(Base(t.ty))) /\ b = ~IsFun(Base(t.ty))
      OBVIOUS
    <2> DEFINE y == [Tree("Oindir", Base(t.ty)) EXCEPT !.lvalue = b, !.base = t]
    <2>1. Base(t.ty) \in TreeTypes /\ Base(t.ty) # NULL
      BY <1>1, <1>4, Pointers
    <2>2. y \in [op : {"Oindir"}, ty : {Base(t.ty)}, null : {FALSE}, decayed : {FALSE},
                 lvalue : {b}, base : {t}]
      BY TreeIs
    <2>3. t # NoTree
      BY <1>1 DEF Ops, UnaryOps, BinaryOps, NoTree
    <2>4. Fits(S, y)
      BY <2>0, <2>1, <2>2, <2>3 DEF Fits, Ops, UnaryOps
    <2>5. y.ty # NULL
      BY <2>1, <2>2
    <2> HIDE DEF y
    <2>6. Makes(S, y)
      BY <2>4, FitsMakes
    <2>7. Dereferenced(t) = Made(y, t.ty, NULL)
      BY <1>4, <2>0 DEF Dereferenced, y
    <2> QED
      BY <2>5, <2>6, <2>7 DEF Made
  <1> QED
    BY <1>2, <1>3, <1>4

(* make_unary loses a type in silence only for the operators it refuses.   *)
LEMMA MakeUnaryMakes ==
  ASSUME NEW S, Closed(S), NEW t \in S, NEW op \in UnaryOps, op = "Oaddr" => t.ty.depth < MaxDepth
  PROVE  /\ Makes(S, MakeUnary(op, t).tree) /\ MakeUnary(op, t).stop = "no"
         /\ MakeUnary(op, t).tree.ty = NULL => 
              MakeUnary(op, t).report \/ (op \in {"Oneg", "Onot"} /\ t.ty # NULL)
         /\ t.ty = NULL => MakeUnary(op, t).tree.ty = NULL
  <1>1. t.ty \in TreeTypes
    BY MemberFits
  <1>2. CASE t.ty = NULL
    <2> DEFINE y == [Tree(op, NULL) EXCEPT !.lvalue = op = "Oindir"]
    <2>1. Fits(S, y) /\ y.ty = NULL
      BY UntypedFits, TreeIs DEF Ops
    <2> HIDE DEF y
    <2>2. MakeUnary(op, t) = Refused(y, NULL, NULL)
      BY <1>2, Zenon DEF MakeUnary, y
    <2> QED
      BY <2>1, <2>2, FitsMakes DEF Refused, Made
  <1>3. CASE t.ty # NULL /\ op = "Oaddr"
    BY <1>3, AddressOfMakes DEF MakeUnary
  <1>4. CASE t.ty # NULL /\ op = "Oindir"
    BY <1>4, DereferencedMakes DEF MakeUnary
  <1>5. CASE t.ty # NULL /\ op \in {"Oneg", "Onot"}
    <2>1. PICK ty : /\ ty \in {IntT, NULL} \/ (ty = Promote(t.ty) /\ IsArith(t.ty))
                    /\ MakeUnary(op, t).tree = Tree(op, ty) /\ MakeUnary(op, t).stop = "no"
      <3>1. CASE op = "Onot"
        BY <1>5, <3>1 DEF MakeUnary, Made
      <3>2. CASE op = "Oneg"
        BY <1>5, <3>2 DEF MakeUnary, Made
      <3> QED
        BY <1>5, <3>1, <3>2
    <2>2. ty \in TreeTypes /\ ~IsFun(ty)
      BY <1>1, <2>1, FixedTypes, ArithmeticTypes, Kinds DEF IsScalar
    <2>3. Fits(S, Tree(op, ty))
      BY <1>5, <2>2, TreeFits DEF Ops, UnaryOps
    <2> QED
      BY <1>5, <2>1, <2>3, FitsMakes
  <1> QED
    BY <1>2, <1>3, <1>4, <1>5 DEF UnaryOps

(* What is made of trees made of trees in S.                               *)
LEMMA MakesMore ==
  ASSUME NEW S, NEW T, S \subseteq T, NEW t, Makes(T, t)
  PROVE  Makes(S, t)
  BY DEF Makes

(* A conversion to a type that is not that of a function.                  *)
LEMMA ConvertMakes ==
  ASSUME NEW S, Closed(S), NEW t \in S, t.ty # NULL, NEW to \in TreeTypes, to # NULL, ~IsFun(to)
  PROVE  Makes(S, Convert(to, t)) /\ Convert(to, t).ty = to
  <1>1. Fits(S, t) /\ t.ty \in TreeTypes
    BY MemberFits
  <1>2. CASE Compatible(to, t.ty)
    <2> DEFINE y == [t EXCEPT !.ty = to]
    <2>1. y \in [op : {t.op}, ty : {to}, null : {t.null}, decayed : {t.decayed},
                 lvalue : {t.lvalue}, base : {t.base}]
      BY <1>1 DEF Fits
    <2>2. to = Void => t.ty = Void
      BY <1>1, <1>2, CompatibleKinds
    <2>3. Fits(S, y)
      BY <1>1, <2>1, <2>2 DEF Fits
    <2>4. y.ty = to
      BY <2>1
    <2> HIDE DEF y
    <2>5. Convert(to, t) = y
      BY <1>2 DEF Convert, y
    <2> QED
      BY <2>3, <2>4, <2>5, FitsMakes
  <1>3. CASE ~Compatible(to, t.ty)
    <2>1. PICK b : b \in BOOLEAN /\ b = (t.null /\ to = PtrTo(Void))
      OBVIOUS
    <2> DEFINE y == [Tree("Ocast", to) EXCEPT !.null = b]
    <2>2. Fits(S, y)
      BY <2>1, TreeFits DEF Ops
    <2>3. y.ty = to
      BY TreeIs
    <2>4. Convert(to, t) = y
      BY <1>3, <2>1 DEF Convert
    <2> HIDE DEF y
    <2> QED
      BY <2>2, <2>3, <2>4, FitsMakes
  <1> QED
    BY <1>2, <1>3

(* An identifier; that of a function becomes its address.                  *)
LEMMA MakeIdentMakes ==
  ASSUME NEW S, Closed(S), NEW n \in DOMAIN Declared
  PROVE  /\ Makes(S, MakeIdent(n).tree) /\ MakeIdent(n).stop = "no"
         /\ MakeIdent(n).tree.ty # NULL
  <1> DEFINE ty == Declared[n]
  <1>1. ty \in TreeTypes /\ ty # NULL /\ ty # Void
    <2>1. ty \in TreeTypes /\ ty # NULL
      BY ConstantsAssumption DEF TreeTypes, NULL, Type
    <2> QED
      BY <2>1, Kinds, ConstantsAssumption
  <1>2. PICK b : b \in BOOLEAN /\ (b <=> ~IsFun(ty)) /\ b = ~IsFun(ty)
    OBVIOUS
  <1> HIDE DEF ty
  <1> DEFINE x == [Tree("Ovar", ty) EXCEPT !.lvalue = b]
  <1>3. x \in [op : {"Ovar"}, ty : {ty}, null : {FALSE}, decayed : {FALSE}, lvalue : {b}, base : {NoTree}]
    BY TreeIs
  <1>4. Fits(S, x)
    BY <1>1, <1>2, <1>3 DEF Fits, Ops
  <1>5. MakeIdent(n) = Made(Decay(x), NULL, NULL)
    BY <1>2 DEF MakeIdent, ty
  <1> HIDE DEF x
  <1>6. CASE ~IsFun(ty)
    <2>1. Decay(x) = x
      BY <1>3, <1>6 DEF Decay
    <2> QED
      BY <1>1, <1>3, <1>4, <1>5, <2>1, FitsMakes DEF Made
  <1>7. CASE IsFun(ty)
    <2>1. PICK T : S \subseteq T /\ Closed(T) /\ x \in T
      BY <1>4, FitsMakes DEF Makes
    <2> DEFINE z == [Tree("Oaddr", PtrTo(ty)) EXCEPT !.base = x]
               y == [z EXCEPT !.decayed = TRUE]
    <2>2. MakeUnary("Oaddr", x) = Made(z, ty, NULL)
      <3>1. x.ty = ty /\ x.op = "Ovar" /\ x.decayed = FALSE
        BY <1>3
      <3>2. MakeUnary("Oaddr", x) = AddressOf(x)
        BY <1>1, <3>1 DEF MakeUnary
      <3> DEFINE w == IF x.decayed THEN x.base ELSE x
      <3>3. w = x
        BY <3>1
      <3>4. AddressOf(x) =
              IF ~w.lvalue /\ ~IsFun(w.ty) THEN Refused(Tree("Oaddr", NULL), w.ty, NULL)
              ELSE IF w.op = "Oindir" THEN Made(w.base, w.ty, NULL)
              ELSE Made([Tree("Oaddr", PtrTo(w.ty)) EXCEPT !.base = w], w.ty, NULL)
        BY DEF AddressOf
      <3> HIDE DEF w
      <3>5. AddressOf(x) = Made([Tree("Oaddr", PtrTo(x.ty)) EXCEPT !.base = x], x.ty, NULL)
        BY <1>7, <3>1, <3>3, <3>4
      <3>6. AddressOf(x) = Made(z, ty, NULL)
        BY <3>1, <3>5
      <3> QED
        BY <3>2, <3>6
    <2>3. Decay(x) = y
      <3>1. MakeUnary("Oaddr", x).tree = z
        <4> HIDE DEF z
        <4> QED
          BY <2>2 DEF Made
      <3>2. x.ty = ty
        BY <1>3
      <3> HIDE DEF z
      <3> QED
        BY <1>7, <3>1, <3>2 DEF Decay
    <2>4. PtrTo(ty) \in TreeTypes /\ PtrTo(ty) # NULL /\ IsPtr(PtrTo(ty))
      BY <1>1, <1>7, Pointers, ConstantsAssumption DEF IsFun
    <2>5. ~IsFun(PtrTo(ty))
      BY <2>4, Kinds DEF IsScalar
    <2>6. z \in [op : {"Oaddr"}, ty : {PtrTo(ty)}, null : {FALSE}, decayed : {FALSE},
                 lvalue : {FALSE}, base : {x}]
      BY TreeIs
    <2> HIDE DEF z
    <2>7. y \in [op : {"Oaddr"}, ty : {PtrTo(ty)}, null : {FALSE}, decayed : {TRUE},
                 lvalue : {FALSE}, base : {x}]
      BY <2>6
    <2> HIDE DEF y
    <2>8. x # NoTree
      BY <1>3 DEF NoTree
    <2>9. Fits(T, y)
      BY <1>1, <1>3, <1>7, <2>1, <2>4, <2>5, <2>7, <2>8 DEF Fits, Ops, UnaryOps
    <2>10. Makes(S, y)
      BY <2>1, <2>9, FitsMakes, MakesMore
    <2> QED
      BY <1>5, <2>3, <2>4, <2>7, <2>10 DEF Made
  <1> QED
    BY <1>6, <1>7

(* An undeclared identifier has no type, which is reported.                *)
LEMMA MakeUndeclaredMakes ==
  ASSUME NEW S, Closed(S)
  PROVE  /\ Makes(S, MakeUndeclared.tree) /\ MakeUndeclared.stop = "no" /\ MakeUndeclared.report
  <1> DEFINE y == [Tree("Ovar", NULL) EXCEPT !.lvalue = TRUE]
  <1>1. Makes(S, y)
    BY UntypedFits, FitsMakes DEF Ops
  <1>2. MakeUndeclared = Refused(y, NULL, NULL)
    BY DEF MakeUndeclared
  <1> HIDE DEF y
  <1> QED
    BY <1>1, <1>2 DEF Refused, Made

(* A constant has an arithmetic type.                                      *)
LEMMA MakeIconstMakes ==
  ASSUME NEW S, Closed(S), NEW ty \in Constants, NEW zero \in BOOLEAN
  PROVE  /\ Makes(S, MakeIconst(ty, zero).tree) /\ MakeIconst(ty, zero).stop = "no"
         /\ MakeIconst(ty, zero).tree.ty # NULL
  <1> DEFINE y == [Tree("Oconst", ty) EXCEPT !.null = zero]
  <1>1. ty \in TreeTypes /\ IsArith(ty)
    BY ConstantsAssumption DEF TreeTypes, IsArith, IntegerTypes
  <1>2. ty # NULL /\ ~IsFun(ty)
    BY <1>1, Kinds DEF IsScalar
  <1>3. Fits(S, y) /\ y.ty = ty
    BY <1>1, <1>2, TreeFits, TreeIs DEF Ops
  <1>4. MakeIconst(ty, zero) = Made(y, NULL, NULL)
    BY DEF MakeIconst
  <1> HIDE DEF y
  <1> QED
    BY <1>2, <1>3, <1>4, FitsMakes DEF Made
-----------------------------------------------------------------------------
(* What tree() relies on, for an operator, its type and its operands'.     *)
Agree(op, ty, l, r) ==
  /\ op \in {"Omul", "Odiv"} => IsArith(ty) /\ l = ty /\ r = ty
  /\ op \in {"Oadd", "Osub"} => \/ IsArith(ty) /\ l = ty /\ r = ty
                                \/ IsPtr(ty) /\ l = ty /\ r = SizeT
  /\ op = "Osl" => l = ty /\ IsArith(r)
  /\ op \in {"Olt", "Oeq"} => /\ ty = IntT
                              /\ \/ IsArith(l) /\ l = r
                                 \/ IsPtr(l) /\ IsPtr(r)
                              /\ op = "Olt" => Compatible(l, r)
  /\ op = "Oassign" => IsScalar(ty) /\ l = ty /\ r = ty

(* A binary operator makes a tree without a base: it has a type and agrees *)
(* with its operands, or it is refused, or one of these had no type.       *)
BinaryTree(l, r, out) ==
  \E o \in BinaryOps \cup {"Odiv"}, ty \in TreeTypes :
    /\ out.tree = Tree(o, ty) /\ out.stop = "no" /\ ~IsFun(ty)
    /\ ty = NULL => out.report \/ NULL \in {l.ty, r.ty}
    /\ NULL \in {l.ty, r.ty} => ty = NULL
    /\ ty # NULL => Agree(o, ty, out.l, out.r)

(* The two ways in which make_binary ends, when its operands have types.   *)
LEMMA MadeBinary ==
  ASSUME NEW l, NEW r, NEW o \in BinaryOps \cup {"Odiv"}, NEW ty \in TreeTypes, NEW a, NEW b,
         ~IsFun(ty), NULL \notin {l.ty, r.ty}, ty # NULL, Agree(o, ty, a, b)
  PROVE  BinaryTree(l, r, Made(Tree(o, ty), a, b))
  <1>1. PICK t : t = Tree(o, ty)
    OBVIOUS
  <1> QED
    BY <1>1 DEF BinaryTree, Made

(* The second: it reports an error.                                        *)
LEMMA RefusedBinary ==
  ASSUME NEW l, NEW r, NEW o \in BinaryOps, NEW a, NEW b
  PROVE  BinaryTree(l, r, Refused(Tree(o, NULL), a, b))
  <1>1. NULL \in TreeTypes /\ ~IsFun(NULL)
    BY FixedTypes, Kinds
  <1>2. PICK t : t = Tree(o, NULL)
    OBVIOUS
  <1> QED
    BY <1>1, <1>2 DEF BinaryTree, Refused, Made

(* make_binary, by its cases.                                              *)
LEMMA MakeBinaryTree ==
  ASSUME NEW l, NEW r, l.ty \in TreeTypes, r.ty \in TreeTypes, NEW op \in BinaryOps
  PROVE  BinaryTree(l, r, MakeBinary(op, l, r))
  <1>1. CASE NULL \in {l.ty, r.ty}
    <2>1. NULL \in TreeTypes /\ ~IsFun(NULL)
      BY FixedTypes, Kinds
    <2>2. PICK t : t = Tree(op, NULL)
      OBVIOUS
    <2>3. MakeBinary(op, l, r) = Made(t, l.ty, r.ty)
      BY <1>1, <2>2 DEF MakeBinary
    <2> QED
      BY <1>1, <2>1, <2>2, <2>3 DEF BinaryTree, Made
  <1>2. CASE NULL \notin {l.ty, r.ty} /\ IsArith(l.ty) /\ IsArith(r.ty)
    <2> DEFINE c == Common(l.ty, r.ty)
    <2>1. c \in TreeTypes /\ IsArith(c) /\ c # NULL /\ ~IsFun(c)
      BY <1>2, ArithmeticTypes, Kinds DEF IsScalar
    <2>2. /\ Promote(l.ty) \in TreeTypes /\ IsArith(Promote(l.ty))
          /\ Promote(l.ty) # NULL /\ ~IsFun(Promote(l.ty))
          /\ IsArith(Promote(r.ty))
      BY <1>2, ArithmeticTypes, Kinds DEF IsScalar
    <2>3. IntT \in TreeTypes /\ IntT # NULL /\ ~IsFun(IntT)
      BY FixedTypes, Kinds DEF IsScalar
    <2>4. MakeBinary(op, l, r) = MakeArithmetic(op, l.ty, r.ty)
      BY <1>2 DEF MakeBinary
    <2> HIDE DEF c
    <2>5. CASE op = "Osl"
      <3>1. MakeBinary(op, l, r) = Made(Tree(op, Promote(l.ty)), Promote(l.ty), Promote(r.ty))
        BY <2>4, <2>5 DEF MakeArithmetic
      <3>2. Agree(op, Promote(l.ty), Promote(l.ty), Promote(r.ty))
        BY <2>2, <2>5 DEF Agree
      <3> QED
        BY <1>2, <2>2, <3>1, <3>2, MadeBinary
    <2>6. CASE op \in {"Olt", "Oeq"}
      <3>1. MakeBinary(op, l, r) = Made(Tree(op, IntT), c, c)
        BY <2>4, <2>6 DEF MakeArithmetic, c
      <3>2. Agree(op, IntT, c, c)
        BY <2>1, <2>6 DEF Agree, Compatible
      <3> QED
        BY <1>2, <2>3, <3>1, <3>2, MadeBinary
    <2>7. CASE op \in {"Omul", "Oadd", "Osub"}
      <3>1. MakeBinary(op, l, r) = Made(Tree(op, c), c, c)
        BY <2>4, <2>7 DEF MakeArithmetic, c
      <3>2. Agree(op, c, c, c)
        BY <2>1, <2>7 DEF Agree
      <3> QED
        BY <1>2, <2>1, <3>1, <3>2, MadeBinary
    <2> QED
      BY <2>5, <2>6, <2>7 DEF BinaryOps
  <1>3. ASSUME NULL \notin {l.ty, r.ty}, NEW tl, NEW tr, tl \in TreeTypes, IsPtr(tl),
               op \in {"Oadd", "Osub"}, MakeBinary(op, l, r) = PointerPlus(op, tl, tr)
        PROVE  BinaryTree(l, r, MakeBinary(op, l, r))
    <2>1. CASE Complete(Base(tl))
      <3>1. Agree(op, tl, tl, SizeT)
        BY <1>3 DEF Agree
      <3>2. tl # NULL /\ ~IsFun(tl)
        BY <1>3, Kinds DEF IsScalar
      <3>3. MakeBinary(op, l, r) = Made(Tree(op, tl), tl, SizeT)
        BY <1>3, <2>1 DEF PointerPlus
      <3> QED
        BY <1>3, <3>1, <3>2, <3>3, MadeBinary
    <2>2. CASE ~Complete(Base(tl))
      BY <1>3, <2>2, RefusedBinary DEF PointerPlus
    <2> QED
      BY <2>1, <2>2
  <1>4. CASE NULL \notin {l.ty, r.ty} /\ op = "Osub" /\ IsPtr(l.ty) /\ IsPtr(r.ty)
    <2>1. MakeBinary(op, l, r) = PointerMinus(l.ty, r.ty)
      BY <1>4, Kinds DEF MakeBinary
    <2>2. CASE Compatible(l.ty, r.ty) /\ Complete(Base(l.ty))
      <3> DEFINE c == Common(PtrDiffT, IntT)
      <3>1. c \in TreeTypes /\ IsArith(c) /\ c # NULL /\ ~IsFun(c)
        BY FixedTypes, ArithmeticTypes, Kinds DEF IsScalar
      <3>2. MakeBinary(op, l, r) = Made(Tree("Odiv", c), c, c)
        BY <2>1, <2>2 DEF PointerMinus
      <3> HIDE DEF c
      <3>3. Agree("Odiv", c, c, c)
        BY <3>1 DEF Agree
      <3> QED
        BY <1>4, <3>1, <3>2, <3>3, MadeBinary
    <2>3. CASE ~(Compatible(l.ty, r.ty) /\ Complete(Base(l.ty)))
      <3>1. MakeBinary(op, l, r) = Refused(Tree("Osub", NULL), l.ty, r.ty)
        BY <2>1, <2>3 DEF PointerMinus
      <3> QED
        BY <3>1, RefusedBinary DEF BinaryOps
    <2> QED
      BY <2>2, <2>3
  <1>5. CASE /\ NULL \notin {l.ty, r.ty} /\ op \in {"Olt", "Oeq"} /\ IsPtr(l.ty) /\ IsPtr(r.ty)
             /\ Comparable(op, l, r)
    <2>1. MakeBinary(op, l, r) = Made(Tree(op, IntT), l.ty, r.ty)
      BY <1>5, Kinds DEF MakeBinary
    <2>2. Agree(op, IntT, l.ty, r.ty)
      BY <1>5 DEF Agree, Comparable
    <2>3. IntT \in TreeTypes /\ IntT # NULL /\ ~IsFun(IntT)
      BY FixedTypes, Kinds DEF IsScalar
    <2> QED
      BY <1>5, <2>1, <2>2, <2>3, MadeBinary
  <1>6. CASE NULL \notin {l.ty, r.ty} /\ op = "Oadd" /\ IsArith(l.ty) /\ IsPtr(r.ty)
    <2>1. MakeBinary(op, l, r) = PointerPlus(op, r.ty, l.ty)
      BY <1>6, Kinds DEF MakeBinary
    <2> QED
      BY <1>3, <1>6, <2>1
  <1>7. CASE NULL \notin {l.ty, r.ty} /\ op \in {"Oadd", "Osub"} /\ IsPtr(l.ty) /\ IsArith(r.ty)
    <2>1. MakeBinary(op, l, r) = PointerPlus(op, l.ty, r.ty)
      BY <1>7, Kinds DEF MakeBinary
    <2> QED
      BY <1>3, <1>7, <2>1
  <1> DEFINE x == Refused(Tree(op, NULL), l.ty, r.ty)
  <1>8. \/ NULL \in {l.ty, r.ty}
        \/ NULL \notin {l.ty, r.ty} /\ IsArith(l.ty) /\ IsArith(r.ty)
        \/ NULL \notin {l.ty, r.ty} /\ op = "Osub" /\ IsPtr(l.ty) /\ IsPtr(r.ty)
        \/ NULL \notin {l.ty, r.ty} /\ op = "Oadd" /\ IsArith(l.ty) /\ IsPtr(r.ty)
        \/ NULL \notin {l.ty, r.ty} /\ op \in {"Oadd", "Osub"} /\ IsPtr(l.ty) /\ IsArith(r.ty)
        \/ /\ NULL \notin {l.ty, r.ty} /\ op \in {"Olt", "Oeq"} /\ IsPtr(l.ty) /\ IsPtr(r.ty)
           /\ Comparable(op, l, r)
        \/ MakeBinary(op, l, r) = x
    BY Zenon DEF MakeBinary
  <1>9. BinaryTree(l, r, x)
    BY RefusedBinary
  <1> HIDE DEF x
  <1> QED
    BY <1>1, <1>2, <1>4, <1>5, <1>6, <1>7, <1>8, <1>9
-----------------------------------------------------------------------------
(* What a production may leave: a tree that fits, in which a type is       *)
(* missing for a reason; or a stop for a reason.                           *)
Untracked(n, out) == out.report \/ \E i \in 1..n : Value(i).ty = NULL

Outcome(T, by, n, out) ==
  /\ out.stop \in {"no", "segv", "die"}
  /\ out.stop = "no" =>
       /\ Makes(T, out.tree)
       /\ out.tree.ty = NULL => \/ Untracked(n, out)
                                \/ by \in {"Oneg", "Onot"} /\ Value(1).ty # NULL
       /\ by \in BinaryOps \cup {"Oassign"} /\ ~out.report /\ out.tree.ty # NULL =>
            Agree(out.tree.op, out.tree.ty, out.l, out.r)
  /\ out.stop # "no" => out.tree.ty = NULL
  /\ out.stop = "segv" => Untracked(n, out)
  /\ out.stop = "die" => \/ Value(2).op = "Oindir" /\ Value(2).ty = Void
                         \/ by = "call" /\ \E t \in OnStack : IsCallee(t) /\ TakesVoid(t.ty.core)

(* The values that a production pops are trees on the stack.               *)
LEMMA ValueFacts ==
  ASSUME NEW T, stack \in Seq(T), NEW i \in 1..Len(stack)
  PROVE  Value(i) \in T /\ Value(i) \in OnStack
  <1>1. Len(stack) + 1 - i \in 1..Len(stack)
    OBVIOUS
  <1> QED
    BY <1>1 DEF Value, OnStack

(* What stops a production is reported or has lost its type before.        *)
LEMMA StoppedIs ==
  ASSUME NEW how, NEW rep
  PROVE  /\ Stopped(how, rep).stop = how /\ Stopped(how, rep).report = rep
         /\ Stopped(how, rep).tree.ty = NULL
  BY TreeIs DEF Stopped, Made

(* What each production leaves: the binary operators,                      *)
LEMMA BinaryOutcome ==
  ASSUME NEW T, Closed(T), stack \in Seq(T), Len(stack) >= 2, NEW op \in BinaryOps
  PROVE  Outcome(T, op, 2, MakeBinary(op, Value(2), Value(1)))
  <1> DEFINE l == Value(2)
             r == Value(1)
             out == MakeBinary(op, l, r)
  <1>1. l \in T /\ r \in T /\ l.ty \in TreeTypes /\ r.ty \in TreeTypes
    BY ValueFacts, MemberFits
  <1>2. BinaryTree(l, r, out)
    BY <1>1, MakeBinaryTree
  <1> HIDE DEF out
  <1>3. PICK o \in BinaryOps \cup {"Odiv"}, ty \in TreeTypes :
          /\ out.tree = Tree(o, ty) /\ out.stop = "no" /\ ~IsFun(ty)
          /\ ty = NULL => out.report \/ NULL \in {l.ty, r.ty}
          /\ ty # NULL => Agree(o, ty, out.l, out.r)
    BY <1>2 DEF BinaryTree
  <1>4. Makes(T, out.tree)
    BY <1>3, TreeFits, FitsMakes DEF Ops, BinaryOps
  <1>5. out.tree.op = o /\ out.tree.ty = ty
    BY <1>3, TreeIs
  <1> QED
    BY <1>3, <1>4, <1>5 DEF Outcome, Untracked, out

(* the unary operators,                                                    *)
LEMMA UnaryOutcome ==
  ASSUME NEW T, Closed(T), stack \in Seq(T), Len(stack) >= 1, NEW op \in UnaryOps,
         op = "Oaddr" => Value(1).ty.depth < MaxDepth
  PROVE  Outcome(T, op, 1, MakeUnary(op, Value(1)))
  <1> DEFINE t == Value(1)
             out == MakeUnary(op, t)
  <1>1. t \in T
    BY ValueFacts
  <1>2. /\ Makes(T, out.tree) /\ out.stop = "no"
        /\ out.tree.ty = NULL => out.report \/ (op \in {"Oneg", "Onot"} /\ t.ty # NULL)
    BY <1>1, MakeUnaryMakes
  <1> HIDE DEF out
  <1>3. op \notin BinaryOps \cup {"Oassign"}
    BY DEF UnaryOps, BinaryOps
  <1> QED
    BY <1>2, <1>3 DEF Outcome, Untracked, out

(* the subscript, which is an addition and a star,                         *)
LEMMA SubscriptOutcome ==
  ASSUME NEW T, Closed(T), stack \in Seq(T), Len(stack) >= 2
  PROVE  Outcome(T, "subscript", 2, MakeSubscript(Value(2), Value(1)))
  <1> DEFINE l == Value(2)
             r == Value(1)
             out == MakeSubscript(l, r)
  <1>1. l \in T /\ r \in T /\ l.ty \in TreeTypes /\ r.ty \in TreeTypes /\ l.op \in Ops /\ l.lvalue \in BOOLEAN
    BY ValueFacts, MemberFits
  <1>2. "subscript" \notin BinaryOps \cup {"Oassign"}
    BY DEF BinaryOps
  <1>3. ASSUME out.stop = "no", Makes(T, out.tree), out.tree.ty = NULL => out.report \/ NULL \in {l.ty, r.ty}
        PROVE  Outcome(T, "subscript", 2, out)
    <2> HIDE DEF out
    <2> QED
      BY <1>2, <1>3 DEF Outcome, Untracked
  <1>4. CASE NULL \in {l.ty, r.ty}
    <2>1. PICK x : x \in {l, r} /\ out = Made(x, NULL, NULL)
      BY <1>4 DEF MakeSubscript
    <2>2. Makes(T, x)
      BY <1>1, <2>1, FitsMakes
    <2>3. out.stop = "no" /\ out.tree = x
      BY <2>1 DEF Made
    <2> HIDE DEF out
    <2> QED
      BY <1>3, <1>4, <2>2, <2>3 DEF out
  <1>5. CASE /\ NULL \notin {l.ty, r.ty}
             /\ (IsArith(l.ty) /\ IsPtr(r.ty)) \/ (IsArith(r.ty) /\ IsPtr(l.ty))
    <2> DEFINE p == MakeBinary("Oadd", l, r)
               x == MakeUnary("Oindir", p.tree)
    <2>1. out = [x EXCEPT !.report = p.report \/ x.report]
      BY <1>5 DEF MakeSubscript
    <2>2. BinaryTree(l, r, p)
      BY <1>1, MakeBinaryTree DEF BinaryOps
    <2> HIDE DEF p
    <2>3. PICK o \in BinaryOps \cup {"Odiv"}, ty \in TreeTypes : p.tree = Tree(o, ty) /\ ~IsFun(ty)
      BY <2>2 DEF BinaryTree
    <2>4. Makes(T, p.tree)
      BY <2>3, TreeFits, FitsMakes DEF Ops, BinaryOps
    <2>5. PICK U : T \subseteq U /\ Closed(U) /\ p.tree \in U
      BY <2>4 DEF Makes
    <2>6. Makes(U, x.tree) /\ x.stop = "no" /\ (x.tree.ty = NULL => x.report)
      BY <2>5, MakeUnaryMakes DEF UnaryOps
    <2>7. Makes(T, x.tree)
      BY <2>5, <2>6, MakesMore
    <2>8. \E t, a, b : x \in [tree : {t}, l : {a}, r : {b}, report : BOOLEAN, stop : {"no"}]
      <3>1. x = IF p.tree.ty = NULL THEN Refused([Tree("Oindir", NULL) EXCEPT !.lvalue = TRUE], NULL, NULL)
                ELSE Dereferenced(p.tree)
        BY DEF MakeUnary
      <3> HIDE DEF x
      <3>2. ASSUME NEW t, NEW a, NEW b
            PROVE  /\ Made(t, a, b) \in [tree : {t}, l : {a}, r : {b}, report : BOOLEAN, stop : {"no"}]
                   /\ Refused(t, a, b) \in [tree : {t}, l : {a}, r : {b}, report : BOOLEAN, stop : {"no"}]
        BY DEF Refused, Made
      <3>3. \/ \E t, a, b : x = Made(t, a, b)
            \/ \E t, a, b : x = Refused(t, a, b)
        BY <3>1 DEF Dereferenced
      <3> QED
        BY <3>2, <3>3
    <2> HIDE DEF x, out
    <2>9. out.stop = "no" /\ out.tree = x.tree /\ (x.report => out.report)
      <3>1. PICK b : b \in BOOLEAN /\ (b <=> p.report \/ x.report) /\ b = (p.report \/ x.report)
        OBVIOUS
      <3>2. out = [x EXCEPT !.report = b]
        BY <2>1, <3>1
      <3>3. out.stop = x.stop /\ out.tree = x.tree /\ out.report = b
        BY <2>8, <3>2
      <3> QED
        BY <2>6, <3>1, <3>3
    <2> QED
      BY <1>3, <2>6, <2>7, <2>9 DEF out
  <1>6. CASE /\ NULL \notin {l.ty, r.ty}
             /\ ~((IsArith(l.ty) /\ IsPtr(r.ty)) \/ (IsArith(r.ty) /\ IsPtr(l.ty)))
    <2>1. out = Refused(Untyped(l), l.ty, r.ty)
      BY <1>6 DEF MakeSubscript
    <2>2. Makes(T, Untyped(l))
      BY <1>1, UntypedFits, FitsMakes DEF Untyped
    <2> HIDE DEF out
    <2>3. out.stop = "no" /\ out.tree = Untyped(l) /\ out.report
      BY <2>1 DEF Refused, Made
    <2> QED
      BY <1>3, <2>2, <2>3 DEF out
  <1> QED
    BY <1>4, <1>5, <1>6

(* the cast,                                                               *)
LEMMA CastOutcome ==
  ASSUME NEW T, Closed(T), stack \in Seq(T), Len(stack) >= 1, NEW to \in TypeNames \cup {NULL}
  PROVE  Outcome(T, "cast", 1, MakeCast(to, Value(1)))
  <1> DEFINE t == Value(1)
             out == MakeCast(to, t)
  <1>1. t \in T /\ t.ty \in TreeTypes /\ t.op \in Ops /\ t.lvalue \in BOOLEAN
    BY ValueFacts, MemberFits
  <1>2. "cast" \notin BinaryOps \cup {"Oassign"}
    BY DEF BinaryOps
  <1>3. CASE to = NULL \/ t.ty = NULL
    <2>1. out = Stopped("segv", TRUE) \/ (t.ty = NULL /\ out = Stopped("segv", FALSE))
      BY <1>3 DEF MakeCast
    <2> HIDE DEF out
    <2>2. out.stop = "segv" /\ out.tree.ty = NULL /\ (out.report \/ t.ty = NULL)
      <3>0. PICK b : out = Stopped("segv", b)
        BY <2>1
      <3>1. out.stop = "segv" /\ out.tree.ty = NULL
        BY <3>0, StoppedIs
      <3>2. out = Stopped("segv", TRUE) => out.report
        BY DEF Stopped, Made
      <3> QED
        BY <2>1, <3>1, <3>2
    <2> QED
      BY <2>2 DEF Outcome, Untracked, out
  <1>4. CASE to # NULL /\ t.ty # NULL /\ ~IsScalar(t.ty) /\ to # Void
    <2>1. out = Refused(Untyped(t), t.ty, NULL)
      BY <1>4 DEF MakeCast
    <2>2. Makes(T, Untyped(t))
      BY <1>1, UntypedFits, FitsMakes DEF Untyped
    <2> HIDE DEF out
    <2>3. out.stop = "no" /\ out.tree = Untyped(t) /\ out.report
      BY <2>1 DEF Refused, Made
    <2> QED
      BY <1>2, <2>2, <2>3 DEF Outcome, Untracked, out
  <1>5. CASE to # NULL /\ t.ty # NULL /\ (IsScalar(t.ty) \/ to = Void)
    <2>1. to \in TreeTypes /\ ~IsFun(to)
      <3>1. to \in Types /\ (to = Void \/ IsArith(to))
        BY <1>5, ConstantsAssumption
      <3>2. to \in TreeTypes
        BY <3>1, FixedTypes DEF TreeTypes, IsArith, IntegerTypes
      <3> QED
        BY <3>1, <3>2, Kinds DEF IsScalar
    <2>2. Makes(T, Convert(to, t)) /\ Convert(to, t).ty = to
      BY <1>1, <1>5, <2>1, ConvertMakes
    <2>3. out = Made(Convert(to, t), t.ty, NULL)
      BY <1>5 DEF MakeCast
    <2> HIDE DEF out
    <2>4. out.stop = "no" /\ out.tree = Convert(to, t)
      BY <2>3 DEF Made
    <2> QED
      BY <1>2, <1>5, <2>2, <2>4 DEF Outcome, out
  <1> QED
    BY <1>3, <1>4, <1>5

(* What assign does not stop on is assigned to a scalar type.              *)
LEMMA AssignStopsIs ==
  ASSUME NEW lty \in TreeTypes, NEW r, r.ty \in TreeTypes
  PROVE  /\ AssignStops(lty, r) \in {"no", "segv", "die"}
         /\ AssignStops(lty, r) = "no" => IsScalar(lty) /\ r.ty # NULL
         /\ AssignStops(lty, r) = "segv" => lty = NULL \/ r.ty = NULL
         /\ AssignStops(lty, r) = "die" => lty = Void \/ IsFun(lty)
  BY Kinds DEF AssignStops

(* the assignment, which dies only for a star that is void,                *)
LEMMA AssignOutcome ==
  ASSUME NEW T, Closed(T), stack \in Seq(T), Len(stack) >= 2
  PROVE  Outcome(T, "Oassign", 2, MakeAssign(Value(2), Value(1)))
  <1> DEFINE l == Value(2)
             r == Value(1)
             out == MakeAssign(l, r)
             s == AssignStops(l.ty, r)
  <1>1. /\ l \in T /\ r \in T /\ l.ty \in TreeTypes /\ r.ty \in TreeTypes
        /\ l.lvalue /\ l.ty # NULL => l.op \in {"Ovar", "Oindir"} /\ ~IsFun(l.ty)
        /\ l.op = "Ovar" => l.ty # Void
    BY ValueFacts, MemberFits DEF Fits
  <1>2. CASE ~l.lvalue
    <2>1. PICK y : y = Tree("Oassign", NULL)
      OBVIOUS
    <2>2. Makes(T, y)
      BY <2>1, UntypedFits, FitsMakes DEF Ops
    <2>3. out = Refused(y, l.ty, r.ty)
      BY <1>2, <2>1 DEF MakeAssign
    <2> HIDE DEF out
    <2>4. out.stop = "no" /\ out.tree = y /\ out.report
      BY <2>3 DEF Refused, Made
    <2> QED
      BY <2>2, <2>4 DEF Outcome, Untracked, out
  <1>3. CASE l.lvalue /\ s # "no"
    <2>1. out = Stopped(s, FALSE)
      BY <1>3 DEF MakeAssign
    <2>2. /\ s \in {"segv", "die"}
          /\ s = "segv" => l.ty = NULL \/ r.ty = NULL
          /\ s = "die" => l.ty = Void \/ IsFun(l.ty)
      BY <1>1, <1>3, AssignStopsIs
    <2> HIDE DEF out, s
    <2>3. out.stop = s /\ out.tree.ty = NULL
      BY <2>1, StoppedIs
    <2>4. s = "die" => l.op = "Oindir" /\ l.ty = Void
      BY <1>1, <1>3, <2>2, FixedTypes, Kinds
    <2> QED
      BY <2>2, <2>3, <2>4 DEF Outcome, Untracked, out
  <1>4. CASE l.lvalue /\ s = "no"
    <2>1. IsScalar(l.ty) /\ r.ty # NULL
      BY <1>1, <1>4, AssignStopsIs
    <2>2. l.ty # NULL /\ ~IsFun(l.ty)
      BY <1>1, <2>1, Kinds
    <2>3. PICK y : y = Tree("Oassign", l.ty)
      OBVIOUS
    <2>4. Makes(T, y) /\ y.op = "Oassign" /\ y.ty = l.ty
      BY <1>1, <2>2, <2>3, TreeFits, TreeIs, FitsMakes DEF Ops
    <2>5. Convert(l.ty, r).ty = l.ty
      BY <1>1, <2>1, <2>2, ConvertMakes
    <2>6. out = [Made(y, l.ty, Convert(l.ty, r).ty) EXCEPT !.report = AssignReports(l.ty, r)]
      BY <1>4, <2>3 DEF MakeAssign
    <2> HIDE DEF out
    <2>7. out.stop = "no" /\ out.tree = y /\ out.l = l.ty /\ out.r = l.ty
      BY <2>5, <2>6 DEF Made
    <2>8. Agree("Oassign", l.ty, l.ty, l.ty)
      BY <2>1 DEF Agree
    <2> QED
      BY <2>2, <2>4, <2>7, <2>8 DEF Outcome, out
  <1> QED
    BY <1>2, <1>3, <1>4

-----------------------------------------------------------------------------
(* The loop of make_call ends, or stops at one of the arguments.           *)
CallIs(out, fn, f, args) ==
  \/ /\ BadArguments(f, args) = {}
     /\ \E rep \in BOOLEAN :
          /\ rep <=> CallReports(f, args, Len(args))
          /\ out = [Made(Tree("Oseq", f.ret), fn.ty, NULL) EXCEPT !.report = rep]
  \/ \E k \in BadArguments(f, args), rep \in BOOLEAN :
       /\ WrongNumber(f, args) => rep
       /\ out = Stopped(AssignStops(ParamAt(f.params, k), args[k]), rep)

(* make_call is that loop.                                                 *)
LEMMA MakeCallIs ==
  ASSUME NEW fn, NEW T, NEW args \in Seq(T), fn.ty # NULL, IsCallee(fn),
         NEW f, f = Functions[fn.ty.core]
  PROVE  CallIs(MakeCall(fn, args), fn, f, args)
  <1> DEFINE bad == BadArguments(f, args)
             first == CHOOSE i \in bad : \A j \in bad : i <= j
  <1>1. MakeCall(fn, args) =
          IF bad = {}
          THEN [Made(Tree("Oseq", f.ret), fn.ty, NULL) EXCEPT !.report = CallReports(f, args, Len(args))]
          ELSE Stopped(AssignStops(ParamAt(f.params, first), args[first]), CallReports(f, args, first - 1))
    BY DEF MakeCall
  <1>2. CASE bad = {}
    <2>1. PICK rep : /\ rep \in BOOLEAN /\ (rep <=> CallReports(f, args, Len(args)))
                     /\ rep = CallReports(f, args, Len(args))
      BY DEF CallReports
    <2>2. MakeCall(fn, args) = [Made(Tree("Oseq", f.ret), fn.ty, NULL) EXCEPT !.report = rep]
      BY <1>1, <1>2, <2>1
    <2> QED
      BY <1>2, <2>1, <2>2 DEF CallIs
  <1>3. CASE bad # {}
    <2>1. bad \in SUBSET Nat
      BY DEF BadArguments
    <2> HIDE DEF bad
    <2>2. first \in bad
      BY <1>3, <2>1, HasLeast
    <2>3. PICK rep : /\ rep \in BOOLEAN /\ (rep <=> CallReports(f, args, first - 1))
                     /\ rep = CallReports(f, args, first - 1)
      BY DEF CallReports
    <2>4. WrongNumber(f, args) => rep
      BY <2>3 DEF CallReports
    <2> HIDE DEF first
    <2>5. MakeCall(fn, args) = Stopped(AssignStops(ParamAt(f.params, first), args[first]), rep)
      BY <1>1, <1>3, <2>3
    <2> QED
      BY <2>2, <2>3, <2>4, <2>5 DEF bad, CallIs
  <1> QED
    BY <1>2, <1>3

(* The values that are the arguments of a call.                            *)
LEMMA Arguments ==
  ASSUME NEW T, stack \in Seq(T), NEW n \in 0..(Len(stack) - 1), NEW args,
         args = SubSeq(stack, Len(stack) - n + 1, Len(stack))
  PROVE  /\ args \in Seq(T) /\ Len(args) = n
         /\ \A i \in 1..n : args[i] \in T /\ n + 1 - i \in 1..(n + 1) /\ args[i] = Value(n + 1 - i)
  <1>1. Len(stack) \in Nat /\ n \in Nat /\ Len(stack) - n + 1 \in 1..(Len(stack) + 1)
    OBVIOUS
  <1>2. /\ args \in Seq(T) /\ Len(args) = n
        /\ \A i \in 1..n : args[i] = stack[(Len(stack) - n + 1) + i - 1]
    BY <1>1, SubSeqProperties
  <1>3. ASSUME NEW i \in 1..n PROVE args[i] \in T /\ n + 1 - i \in 1..(n + 1) /\ args[i] = Value(n + 1 - i)
    <2>1. (Len(stack) - n + 1) + i - 1 = Len(stack) + 1 - (n + 1 - i)
      BY <1>1
    <2>2. n + 1 - i \in 1..(n + 1) /\ args[i] \in T
      BY <1>1, <1>2
    <2> QED
      BY <1>2, <2>1, <2>2 DEF Value
  <1> QED
    BY <1>2, <1>3

(* What a function returns and takes.                                      *)
LEMMA FunctionFacts ==
  ASSUME NEW fn, fn.ty \in TreeTypes, IsCallee(fn), NEW f, f = Functions[fn.ty.core]
  PROVE  /\ fn.ty.core \in DOMAIN Functions
         /\ f.ret \in TreeTypes /\ f.ret # NULL /\ ~IsFun(f.ret)
         /\ Len(f.params) \in Nat
         /\ \A i \in 1..Len(f.params) : /\ f.params[i] \in TreeTypes
                                        /\ f.params[i] # NULL /\ ~IsFun(f.params[i])
  <1>1. fn.ty.core \in DOMAIN Functions
    BY DEF IsCallee, IsFun, Base, Type
  <1>2. /\ f.ret \in Types /\ (f.ret = Void \/ IsScalar(f.ret)) /\ f.ret.core # "NULL"
        /\ f.params \in Seq({t \in Types : t.core # "NULL" /\ ~IsFun(t)})
    BY <1>1, ConstantsAssumption
  <1>3. f.ret \in TreeTypes /\ f.ret # NULL
    BY <1>2 DEF TreeTypes, NULL, Type
  <1>4. ~IsFun(f.ret)
    BY <1>2, <1>3, Kinds
  <1>5. Len(f.params) \in Nat /\ \A i \in 1..Len(f.params) :
          f.params[i] \in Types /\ f.params[i].core # "NULL" /\ ~IsFun(f.params[i])
    BY <1>2
  <1> QED
    BY <1>1, <1>3, <1>4, <1>5 DEF TreeTypes, NULL, Type

(* and the call, which dies only for a parameter that is void.             *)
LEMMA CallOutcome ==
  ASSUME NEW T, Closed(T), stack \in Seq(T), NEW n \in 0..(Len(stack) - 1), NEW args,
         args = SubSeq(stack, Len(stack) - n + 1, Len(stack))
  PROVE  Outcome(T, "call", n + 1, MakeCall(Value(n + 1), args))
  <1> DEFINE fn == Value(n + 1)
             out == MakeCall(fn, args)
  <1>0. n \in Nat /\ n + 1 \in 1..(n + 1) /\ n + 1 \in 1..Len(stack)
    OBVIOUS
  <1>1. fn \in T /\ fn \in OnStack /\ fn.ty \in TreeTypes
    BY <1>0, ValueFacts, MemberFits
  <1>2. "call" \notin BinaryOps \cup {"Oassign"}
    BY DEF BinaryOps
  <1>3. /\ args \in Seq(T) /\ Len(args) = n
        /\ \A i \in 1..n : /\ args[i] \in T /\ args[i].ty \in TreeTypes
                           /\ n + 1 - i \in 1..(n + 1) /\ args[i] = Value(n + 1 - i)
    <2>1. /\ args \in Seq(T) /\ Len(args) = n
          /\ \A i \in 1..n : args[i] \in T /\ n + 1 - i \in 1..(n + 1) /\ args[i] = Value(n + 1 - i)
      BY Arguments
    <2>2. \A t \in T : t.ty \in TreeTypes
      BY MemberFits
    <2> QED
      BY <2>1, <2>2
  <1>4. CASE fn.ty = NULL
    <2>1. out = Made(fn, NULL, NULL)
      BY <1>4 DEF MakeCall
    <2>2. Makes(T, fn)
      BY <1>1, FitsMakes
    <2> HIDE DEF out
    <2>3. out.stop = "no" /\ out.tree = fn
      BY <2>1 DEF Made
    <2> QED
      BY <1>0, <1>2, <1>4, <2>2, <2>3 DEF Outcome, Untracked, out
  <1>5. CASE fn.ty # NULL /\ ~IsCallee(fn)
    <2>1. out = Stopped("segv", TRUE)
      BY <1>5 DEF MakeCall
    <2> HIDE DEF out
    <2>2. out.stop = "segv" /\ out.tree.ty = NULL /\ out.report
      <3>1. PICK b : out = Stopped("segv", b)
        BY <2>1
      <3>2. out.report
        BY <2>1 DEF Stopped, Made
      <3> QED
        BY <3>1, <3>2, StoppedIs
    <2> QED
      BY <2>2 DEF Outcome, Untracked, out
  <1>6. CASE fn.ty # NULL /\ IsCallee(fn)
    <2>1. PICK f : f = Functions[fn.ty.core]
      OBVIOUS
    <2>2. /\ fn.ty.core \in DOMAIN Functions
          /\ f.ret \in TreeTypes /\ f.ret # NULL /\ ~IsFun(f.ret)
          /\ Len(f.params) \in Nat
          /\ \A i \in 1..Len(f.params) : /\ f.params[i] \in TreeTypes
                                         /\ f.params[i] # NULL /\ ~IsFun(f.params[i])
      BY <1>1, <1>6, <2>1, FunctionFacts
    <2>3. ASSUME NEW rep, out = [Made(Tree("Oseq", f.ret), fn.ty, NULL) EXCEPT !.report = rep]
          PROVE  Outcome(T, "call", n + 1, out)
      <3>1. PICK y : y = Tree("Oseq", f.ret)
        OBVIOUS
      <3>2. Makes(T, y) /\ y.ty # NULL
        BY <2>2, <3>1, TreeFits, TreeIs, FitsMakes DEF Ops
      <3>3. out = [Made(y, fn.ty, NULL) EXCEPT !.report = rep]
        BY <2>3, <3>1
      <3> HIDE DEF out
      <3>4. out.stop = "no" /\ out.tree = y
        BY <3>3 DEF Made
      <3> QED
        BY <1>2, <3>2, <3>4 DEF Outcome, out
    <2>4. ASSUME NEW k \in BadArguments(f, args), NEW rep \in BOOLEAN, WrongNumber(f, args) => rep,
                 out = Stopped(AssignStops(ParamAt(f.params, k), args[k]), rep)
          PROVE  Outcome(T, "call", n + 1, out)
      <3> DEFINE lty == ParamAt(f.params, k)
                 s == AssignStops(lty, args[k])
      <3>1. k \in 1..n /\ k \in Nat /\ s # "no"
        BY <1>3, <2>4 DEF BadArguments
      <3>2. lty \in TreeTypes /\ ~IsFun(lty)
        BY <2>2, <3>1, FixedTypes, Kinds DEF ParamAt
      <3> HIDE DEF lty
      <3>3. /\ s \in {"segv", "die"}
            /\ s = "segv" => lty = NULL \/ args[k].ty = NULL
            /\ s = "die" => lty = Void
        BY <1>3, <3>1, <3>2, AssignStopsIs
      <3> HIDE DEF s
      <3>4. lty = NULL => rep
        BY <1>3, <2>2, <2>4, <3>1 DEF WrongNumber, ParamAt, lty
      <3>5. lty = Void => TakesVoid(fn.ty.core)
        <4>1. NULL # Void
          BY FixedTypes, Kinds
        <4> QED
          BY <2>1, <2>2, <3>1, <4>1 DEF TakesVoid, ParamAt, lty
      <3>6. args[k].ty = NULL => \E i \in 1..(n + 1) : Value(i).ty = NULL
        BY <1>3, <3>1
      <3> HIDE DEF out
      <3>7. out.stop = s /\ out.report = rep /\ out.tree.ty = NULL
        BY <2>4, StoppedIs DEF s, lty
      <3> QED
        BY <1>1, <1>6, <3>3, <3>4, <3>5, <3>6, <3>7 DEF Outcome, Untracked, out
    <2>5. args \in Seq(T)
      BY <1>3
    <2>6. \/ \E rep \in BOOLEAN : out = [Made(Tree("Oseq", f.ret), fn.ty, NULL) EXCEPT !.report = rep]
          \/ \E k \in BadArguments(f, args), rep \in BOOLEAN :
              /\ WrongNumber(f, args) => rep
              /\ out = Stopped(AssignStops(ParamAt(f.params, k), args[k]), rep)
      <3>1. fn.ty # NULL /\ IsCallee(fn)
        BY <1>6
      <3> HIDE DEF fn
      <3>2. CallIs(out, fn, f, args)
        BY <2>1, <2>5, <3>1, MakeCallIs
      <3> HIDE DEF out
      <3> QED
        BY <3>2 DEF CallIs
    <2> HIDE DEF out
    <2>7. Outcome(T, "call", n + 1, out)
      BY <2>3, <2>4, <2>6
    <2> QED
      BY <2>7 DEF out
  <1> QED
    BY <1>4, <1>5, <1>6
-----------------------------------------------------------------------------
(* The inductive invariant: all trees on the stack are in a closed set of  *)
(* trees, and nothing is lost in silence.                                  *)
EInv ==
  /\ \E T : Closed(T) /\ stack \in Seq(T)
  /\ Len(stack) <= MaxStack + MaxArgs
  /\ {err, silent} \subseteq BOOLEAN
  /\ status \in {"running", "segv", "die"}
  /\ ErrorsAreTracked
  /\ OperandsAgree

(* The stack after a production.                                           *)
LEMMA Reduced ==
  ASSUME NEW T, stack \in Seq(T), NEW n \in 0..Len(stack), NEW x, NEW U, T \subseteq U, x \in U,
         stack' = Append(SubSeq(stack, 1, Len(stack) - n), x)
  PROVE  /\ stack' \in Seq(U) /\ Len(stack') = Len(stack) - n + 1
         /\ \A i \in 1..(Len(stack) - n) : stack'[i] = stack[i]
         /\ stack'[Len(stack')] = x
         /\ \A t \in OnStack' : t = x \/ t \in OnStack
  <1> DEFINE q == SubSeq(stack, 1, Len(stack) - n)
  <1>1. Len(stack) \in Nat /\ Len(stack) - n \in 0..Len(stack)
    OBVIOUS
  <1>2. q \in Seq(T) /\ Len(q) = Len(stack) - n /\ \A i \in 1..(Len(stack) - n) : q[i] = stack[i]
    BY <1>1, SubSeqProperties
  <1>3. q \in Seq(U)
    BY <1>2
  <1> HIDE DEF q
  <1>4. stack' = Append(q, x)
    BY DEF q
  <1>5. /\ stack' \in Seq(U) /\ Len(stack') = Len(q) + 1
        /\ \A i \in 1..Len(q) : stack'[i] = q[i]
        /\ stack'[Len(q) + 1] = x
    <2>1. /\ Append(q, x) \in Seq(U) /\ Len(Append(q, x)) = Len(q) + 1
          /\ \A i \in 1..Len(q) : Append(q, x)[i] = q[i]
          /\ Append(q, x)[Len(q) + 1] = x
      BY <1>3, AppendProperties
    <2> QED
      BY <1>4, <2>1
  <1>6. ASSUME NEW t \in OnStack' PROVE t = x \/ t \in OnStack
    <2>0. OnStack' = {stack'[i] : i \in 1..Len(stack')}
      BY DEF OnStack
    <2>1. PICK i \in 1..Len(stack') : t = stack'[i]
      BY <2>0
    <2>2. i = Len(q) + 1 \/ i \in 1..Len(q)
      <3>1. Len(q) \in Nat /\ Len(stack') = Len(q) + 1
        BY <1>1, <1>2, <1>5
      <3> QED
        BY <3>1
    <2>3. i \in 1..Len(q) => i \in 1..Len(stack) /\ t = stack[i]
      BY <1>1, <1>2, <1>5, <2>1
    <2> QED
      BY <1>5, <2>1, <2>2, <2>3 DEF OnStack
  <1> QED
    BY <1>1, <1>2, <1>5, <1>6

(* A production with such an outcome keeps the invariant.                  *)
LEMMA ReduceKeeps ==
  ASSUME EInv, NEW T, Closed(T), stack \in Seq(T), NEW by, NEW n \in 0..Len(stack), NEW out,
         Reduce(by, n, out), Outcome(T, by, n, out),
         n = 0 => Len(stack) < MaxStack + MaxArgs
  PROVE  EInv'
  <1>0. /\ status = "running" /\ err' = (err \/ out.report)
        /\ last'.by = by /\ last'.op = out.tree.op /\ last'.ty = out.tree.ty
        /\ last'.l = out.l /\ last'.r = out.r
    BY DEF Reduce
  <1>1. MaxStack \in Nat /\ MaxArgs \in Nat /\ Len(stack) \in Nat /\ n \in Nat
    BY ConstantsAssumption
  <1>2. Untracked(n, out) => err' \/ silent
    <2>1. ASSUME NEW i \in 1..n, Value(i).ty = NULL PROVE err \/ silent
      <3>1. i \in 1..Len(stack)
        BY <1>1
      <3>2. Value(i) \in OnStack
        BY <3>1, ValueFacts
      <3> QED
        BY <2>1, <3>2 DEF EInv, ErrorsAreTracked
    <2> QED
      BY <1>0, <2>1 DEF Untracked
  <1>3. err => err'
    BY <1>0
  <1>4. CASE out.stop # "no"
    <2>1. status' = out.stop /\ stack' = stack /\ silent' = silent
      BY <1>4 DEF Reduce
    <2>2. OnStack' = OnStack /\ \A i : Value(i)' = Value(i)
      BY <2>1 DEF OnStack, Value
    <2>3. last'.ty = NULL
      BY <1>0, <1>4 DEF Outcome
    <2>4. OperandsAgree'
      BY <2>3 DEF OperandsAgree
    <2>5. /\ status' = "segv" => err' \/ silent'
          /\ status' = "die" => \/ Value(2)'.op = "Oindir" /\ Value(2)'.ty = Void
                                \/ last'.by = "call" /\ \E t \in OnStack' : IsCallee(t) /\ TakesVoid(t.ty.core)
      BY <1>0, <1>2, <2>1, <2>2 DEF Outcome
    <2> QED
      <3>1. /\ \E U : Closed(U) /\ stack' \in Seq(U)
            /\ Len(stack') <= MaxStack + MaxArgs
        BY <2>1 DEF EInv
      <3>2. {err', silent'} \subseteq BOOLEAN /\ status' \in {"running", "segv", "die"}
        <4>1. err' \in BOOLEAN
          BY <1>0
        <4>2. silent' \in BOOLEAN
          BY <2>1 DEF EInv
        <4>3. out.stop \in {"no", "segv", "die"}
          BY DEF Outcome
        <4> QED
          BY <1>4, <2>1, <4>1, <4>2, <4>3
      <3>3. (\E t \in OnStack' : t.ty = NULL) => err' \/ silent'
        BY <1>3, <2>1, <2>2 DEF EInv, ErrorsAreTracked
      <3>4. ErrorsAreTracked'
        BY <2>5, <3>3 DEF ErrorsAreTracked
      <3> QED
        BY <2>4, <3>1, <3>2, <3>4 DEF EInv
  <1>5. CASE out.stop = "no"
    <2>1. /\ stack' = Append(SubSeq(stack, 1, Len(stack) - n), out.tree) /\ status' = "running"
          /\ silent' = \/ silent
                       \/ by \in {"Oneg", "Onot"} /\ Value(1).ty # NULL /\ out.tree.ty = NULL
      BY <1>0, <1>5 DEF Reduce
    <2>2. PICK x : x = out.tree
      OBVIOUS
    <2>3. PICK U : T \subseteq U /\ Closed(U) /\ x \in U
      BY <1>5, <2>2 DEF Outcome, Makes
    <2>4. /\ stack' \in Seq(U) /\ Len(stack') = Len(stack) - n + 1
          /\ \A t \in OnStack' : t = x \/ t \in OnStack
      <3>1. stack' = Append(SubSeq(stack, 1, Len(stack) - n), x)
        BY <2>1, <2>2
      <3> QED
        BY <2>3, <3>1, Reduced
    <2>5. Len(stack') <= MaxStack + MaxArgs
      BY <1>1, <2>4 DEF EInv
    <2>6. silent' \in BOOLEAN /\ (silent => silent')
      BY <2>1 DEF EInv
    <2>7. x.ty = NULL => err' \/ silent'
      BY <1>0, <1>2, <1>5, <2>1, <2>2, <2>6 DEF Outcome
    <2>8. ErrorsAreTracked'
      <3>1. (\E t \in OnStack' : t.ty = NULL) => err' \/ silent'
        BY <1>3, <2>4, <2>6, <2>7 DEF EInv, ErrorsAreTracked
      <3> QED
        BY <2>1, <3>1 DEF ErrorsAreTracked
    <2>9. OperandsAgree'
      BY <1>0, <1>5 DEF OperandsAgree, Outcome, Agree
    <2>10. err' \in BOOLEAN
      BY <1>0
    <2> QED
      BY <2>1, <2>3, <2>4, <2>5, <2>6, <2>8, <2>9, <2>10 DEF EInv
  <1> QED
    BY <1>4, <1>5

-----------------------------------------------------------------------------
(* A primary expression is a tree of its own.                              *)
LEMMA PrimaryOutcome ==
  ASSUME NEW T, Closed(T), NEW by \in {"ident", "iconst"}, NEW out,
         Makes(T, out.tree), out.stop = "no", out.tree.ty # NULL \/ out.report
  PROVE  Outcome(T, by, 0, out)
  <1>1. by \notin BinaryOps \cup {"Oassign"}
    BY DEF BinaryOps
  <1> QED
    BY <1>1 DEF Outcome, Untracked

(* The invariant holds in the initial state.                               *)
LEMMA EInvInit ==
  ASSUME Init
  PROVE  EInv
  <1>1. stack = <<>> /\ Len(stack) = 0
    BY DEF Init
  <1>2. Closed({}) /\ stack \in Seq({})
    BY <1>1 DEF Closed
  <1>3. OnStack = {}
    BY <1>1 DEF OnStack
  <1>4. ErrorsAreTracked
    BY <1>3 DEF Init, ErrorsAreTracked
  <1>5. OperandsAgree
    BY DEF Init, NoCall, OperandsAgree
  <1>6. Len(stack) <= MaxStack + MaxArgs
    BY <1>1, ConstantsAssumption
  <1> QED
    BY <1>2, <1>4, <1>5, <1>6 DEF EInv, Init

(* Each production keeps it.                                               *)
LEMMA EInvNext ==
  ASSUME EInv, [Next]_vars
  PROVE  EInv'
  <1>1. PICK T : Closed(T) /\ stack \in Seq(T)
    BY DEF EInv
  <1>2. Len(stack) \in Nat /\ MaxStack \in Nat \ {0} /\ MaxArgs \in Nat
    BY <1>1, ConstantsAssumption
  <1>3. CASE Primary
    <2>1. Len(stack) < MaxStack + MaxArgs
      <3>1. Len(stack) < 1 + MaxArgs \/ Len(stack) < MaxStack
        BY <1>3 DEF Primary
      <3> QED
        BY <1>2, <3>1
    <2>2. ASSUME NEW by \in {"ident", "iconst"}, NEW out, Reduce(by, 0, out),
                 Makes(T, out.tree), out.stop = "no", out.tree.ty # NULL \/ out.report
          PROVE  EInv'
      <3>1. Outcome(T, by, 0, out)
        BY <1>1, <2>2, PrimaryOutcome
      <3>2. 0 \in 0..Len(stack)
        BY <1>2
      <3> QED
        BY <1>1, <2>1, <2>2, <3>1, <3>2, ReduceKeeps
    <2>3. CASE \E n \in DOMAIN Declared : Reduce("ident", 0, MakeIdent(n))
      BY <1>1, <2>2, <2>3, MakeIdentMakes
    <2>4. CASE Reduce("ident", 0, MakeUndeclared)
      BY <1>1, <2>2, <2>4, MakeUndeclaredMakes
    <2>5. CASE \E ty \in Constants, zero \in BOOLEAN : Reduce("iconst", 0, MakeIconst(ty, zero))
      BY <1>1, <2>2, <2>5, MakeIconstMakes
    <2> QED
      BY <1>3, <2>3, <2>4, <2>5 DEF Primary
  <1>4. ASSUME NEW by, NEW n \in 1..Len(stack), NEW out, Reduce(by, n, out), Outcome(T, by, n, out)
        PROVE  EInv'
    <2>1. n \in 0..Len(stack) /\ n # 0
      BY <1>2
    <2> QED
      BY <1>1, <1>4, <2>1, ReduceKeeps
  <1>5. CASE Unary
    <2>1. PICK op \in UnaryOps : /\ op = "Oaddr" => Value(1).ty.depth < MaxDepth
                                 /\ Reduce(op, 1, MakeUnary(op, Value(1)))
      BY <1>5 DEF Unary
    <2>2. Len(stack) >= 1 /\ 1 \in 1..Len(stack)
      BY <1>2, <1>5 DEF Unary
    <2>3. Outcome(T, op, 1, MakeUnary(op, Value(1)))
      BY <1>1, <2>1, <2>2, UnaryOutcome
    <2> QED
      BY <1>4, <2>1, <2>2, <2>3
  <1>6. CASE Cast
    <2>1. PICK to \in TypeNames \cup {NULL} : Reduce("cast", 1, MakeCast(to, Value(1)))
      BY <1>6 DEF Cast
    <2>2. Len(stack) >= 1 /\ 1 \in 1..Len(stack)
      BY <1>2, <1>6 DEF Cast
    <2>3. Outcome(T, "cast", 1, MakeCast(to, Value(1)))
      BY <1>1, <2>1, <2>2, CastOutcome
    <2> QED
      BY <1>4, <2>1, <2>2, <2>3
  <1>7. CASE Binary
    <2>1. PICK op \in BinaryOps : Reduce(op, 2, MakeBinary(op, Value(2), Value(1)))
      BY <1>7 DEF Binary
    <2>2. Len(stack) >= 2 /\ 2 \in 1..Len(stack)
      BY <1>2, <1>7 DEF Binary
    <2>3. Outcome(T, op, 2, MakeBinary(op, Value(2), Value(1)))
      BY <1>1, <2>1, <2>2, BinaryOutcome
    <2> QED
      BY <1>4, <2>1, <2>2, <2>3
  <1>8. CASE Assign
    <2>1. Reduce("Oassign", 2, MakeAssign(Value(2), Value(1)))
      BY <1>8 DEF Assign
    <2>2. Len(stack) >= 2 /\ 2 \in 1..Len(stack)
      BY <1>2, <1>8 DEF Assign
    <2>3. Outcome(T, "Oassign", 2, MakeAssign(Value(2), Value(1)))
      BY <1>1, <2>2, AssignOutcome
    <2> QED
      BY <1>4, <2>1, <2>2, <2>3
  <1>9. CASE Subscript
    <2>1. Reduce("subscript", 2, MakeSubscript(Value(2), Value(1)))
      BY <1>9 DEF Subscript
    <2>2. Len(stack) >= 2 /\ 2 \in 1..Len(stack)
      BY <1>2, <1>9 DEF Subscript
    <2>3. Outcome(T, "subscript", 2, MakeSubscript(Value(2), Value(1)))
      BY <1>1, <2>2, SubscriptOutcome
    <2> QED
      BY <1>4, <2>1, <2>2, <2>3
  <1>10. CASE Calling
    <2>0. PICK n \in 0..(Len(stack) - 1) :
            Reduce("call", n + 1, MakeCall(Value(n + 1), SubSeq(stack, Len(stack) - n + 1, Len(stack))))
      BY <1>10 DEF Calling
    <2>a. PICK args : args = SubSeq(stack, Len(stack) - n + 1, Len(stack))
      OBVIOUS
    <2>1. Reduce("call", n + 1, MakeCall(Value(n + 1), args))
      BY <2>0, <2>a
    <2>2. Outcome(T, "call", n + 1, MakeCall(Value(n + 1), args))
      BY <1>1, <2>a, CallOutcome
    <2>3. n + 1 \in 1..Len(stack)
      BY <1>2
    <2> QED
      BY <1>4, <2>1, <2>2, <2>3
  <1>11. CASE EndStatement
    <2>1. /\ stack' = <<>> /\ last'.ty = NULL /\ err' = err /\ silent' = silent /\ status' = "running"
      BY <1>11 DEF EndStatement, NoCall
    <2>2. OnStack' = {} /\ Len(stack') = 0
      BY <2>1 DEF OnStack
    <2>3. ErrorsAreTracked' /\ OperandsAgree'
      BY <2>1, <2>2 DEF ErrorsAreTracked, OperandsAgree
    <2>4. \E U : Closed(U) /\ stack' \in Seq(U)
      BY <1>1, <2>1
    <2>5. Len(stack') <= MaxStack + MaxArgs
      BY <1>2, <2>2
    <2>6. {err', silent'} \subseteq BOOLEAN
      BY <2>1 DEF EInv
    <2> QED
      BY <2>1, <2>3, <2>4, <2>5, <2>6 DEF EInv
  <1>12. CASE UNCHANGED vars
    <2>1. stack' = stack /\ err' = err /\ silent' = silent /\ status' = status /\ last' = last
      BY <1>12 DEF vars
    <2>2. OnStack' = OnStack /\ Value(2)' = Value(2)
      BY <2>1 DEF OnStack, Value
    <2>3. ErrorsAreTracked'
      BY <2>1, <2>2 DEF EInv, ErrorsAreTracked
    <2>4. OperandsAgree'
      BY <2>1 DEF EInv, OperandsAgree
    <2> QED
      BY <2>1, <2>3, <2>4 DEF EInv
  <1> QED
    BY <1>3, <1>5, <1>6, <1>7, <1>8, <1>9, <1>10, <1>11, <1>12 DEF Next

(* So it always holds.                                                     *)
LEMMA EInvAlways == Spec => []EInv
  BY EInvInit, EInvNext, PTL DEF Spec
-----------------------------------------------------------------------------
(* The compiler stops on an expression, or loses its type, only after an   *)
(* error that semant_error records, but for the three exceptions: whatever *)
(* is declared and however long the program.                               *)
THEOREM ErrorsTracked == Spec => []ErrorsAreTracked
  <1>1. EInv => ErrorsAreTracked
    BY DEF EInv
  <1> QED
    BY <1>1, EInvAlways, PTL

(* The operands of every tree that the semantic actions make without an    *)
(* error have the types with which tree() emits its instruction.           *)
THEOREM OperandsAlwaysAgree == Spec => []OperandsAgree
  <1>1. EInv => OperandsAgree
    BY DEF EInv
  <1> QED
    BY <1>1, EInvAlways, PTL

(* The trees on the stack, and those below them, are of a closed set.      *)
LEMMA TreesFit ==
  ASSUME EInv
  PROVE  \E T : Closed(T) /\ Trees \subseteq T
  <1>1. PICK T : Closed(T) /\ stack \in Seq(T)
    BY DEF EInv
  <1>2. OnStack \subseteq T
    BY <1>1 DEF OnStack
  <1>3. \A t \in T : Below(t) \subseteq T
    BY <1>1 DEF Closed, Fits, Below
  <1>4. Trees \subseteq T
    BY <1>2, <1>3 DEF Trees
  <1> QED
    BY <1>1, <1>4

(* lvalue() of the code generator finds a variable or a star below every & *)
(* and on the left of every assignment.                                    *)
THEOREM LvaluesAlwaysHaveAddress == Spec => []LvaluesHaveAddress
  <1>1. ASSUME EInv PROVE LvaluesHaveAddress
    <2>1. PICK T : Closed(T) /\ Trees \subseteq T
      BY <1>1, TreesFit
    <2>2. ASSUME NEW t \in Trees
          PROVE  /\ t.ty \in Types
                 /\ t.base # NoTree => t.op \in {"Oaddr", "Oindir"}
                 /\ t.decayed => t.op = "Oaddr" /\ IsFun(t.base.ty)
                 /\ t.lvalue /\ t.ty # NULL => t.op \in {"Ovar", "Oindir"} /\ ~IsFun(t.ty)
                 /\ t.op = "Oaddr" /\ t.ty # NULL => t.base.op \in {"Ovar", "Oindir"}
      <3>1. Fits(T, t)
        BY <2>1 DEF Closed
      <3> QED
        BY <3>1 DEF Fits, TreeTypes
    <2>3. TypeOK
      BY <1>1, <2>2 DEF EInv, TypeOK
    <2> QED
      BY <2>2, <2>3 DEF LvaluesHaveAddress
  <1> QED
    BY <1>1, EInvAlways, PTL

-----------------------------------------------------------------------------
(* What a production makes of its operands, one of which has no type, has  *)
(* no type.                                                                *)
LEMMA Propagates ==
  ASSUME NEW T, Closed(T), stack \in Seq(T), NEW by, NEW n \in 1..Len(stack), NEW out,
         Reduce(by, n, out), out.stop = "no",
         (\E i \in 1..n : Value(i).ty = NULL) => out.tree.ty = NULL,
         NEW i \in Len(stack')..Len(stack), stack[i].ty = NULL
  PROVE  stack'[Len(stack')].ty = NULL
  <1>1. stack' = Append(SubSeq(stack, 1, Len(stack) - n), out.tree)
    BY DEF Reduce
  <1>2. PICK x : x = out.tree
    OBVIOUS
  <1>3. stack' = Append(SubSeq(stack, 1, Len(stack) - n), x)
    BY <1>1, <1>2
  <1>4. n \in 0..Len(stack) /\ T \subseteq T \cup {x} /\ x \in T \cup {x}
    OBVIOUS
  <1>5. Len(stack') = Len(stack) - n + 1 /\ stack'[Len(stack')] = x
    <2> DEFINE U == T \cup {x}
    <2>1. T \subseteq U /\ x \in U /\ n \in 0..Len(stack)
      BY <1>4
    <2> HIDE DEF U
    <2> QED
      BY <1>3, <2>1, Reduced
  <1>6. Len(stack) + 1 - i \in 1..n /\ Value(Len(stack) + 1 - i) = stack[i]
    <2>1. Len(stack) \in Nat /\ i \in (Len(stack) - n + 1)..Len(stack)
      BY <1>5
    <2>2. Len(stack) + 1 - i \in 1..n /\ Len(stack) + 1 - (Len(stack) + 1 - i) = i
      BY <2>1
    <2> QED
      BY <2>2 DEF Value
  <1> QED
    BY <1>2, <1>5, <1>6

(* Of a subscript: its result has no type if one of its operands has none. *)
LEMMA SubscriptPropagates ==
  ASSUME NEW l, NEW r
  PROVE  NULL \in {l.ty, r.ty} => MakeSubscript(l, r).stop = "no" /\ MakeSubscript(l, r).tree.ty = NULL
  <1>1. ASSUME NULL \in {l.ty, r.ty}
        PROVE  MakeSubscript(l, r).stop = "no" /\ MakeSubscript(l, r).tree.ty = NULL
    <2>1. PICK x : x.ty = NULL /\ MakeSubscript(l, r) = Made(x, NULL, NULL)
      BY <1>1 DEF MakeSubscript
    <2> QED
      BY <2>1 DEF Made
  <1> QED
    BY <1>1

(* An operand without a type makes the whole expression one.               *)
THEOREM ErrorsAlwaysPropagate == Spec => ErrorsPropagate
  <1> DEFINE A == /\ last'.by \in UnaryOps \cup BinaryOps \cup {"subscript"}
                  /\ \E i \in Len(stack')..Len(stack) : stack[i].ty = NULL
                  => stack'[Len(stack')].ty = NULL
  <1>1. ASSUME EInv, [Next]_vars PROVE [A]_vars
    <2>1. PICK T : Closed(T) /\ stack \in Seq(T)
      BY <1>1 DEF EInv
    <2>2. SUFFICES ASSUME Next, last'.by \in UnaryOps \cup BinaryOps \cup {"subscript"},
                          NEW i \in Len(stack')..Len(stack), stack[i].ty = NULL
                   PROVE  stack'[Len(stack')].ty = NULL
      BY <1>1
    <2>3. ASSUME NEW by, NEW n, NEW out, Reduce(by, n, out)
          PROVE  last'.by = by
      BY <2>3 DEF Reduce
    <2>4. ~Primary /\ ~Cast /\ ~Assign /\ ~Calling
      <3>1. {"ident", "iconst", "cast", "Oassign", "call"} \cap (UnaryOps \cup BinaryOps \cup {"subscript"}) = {}
        BY DEF UnaryOps, BinaryOps
      <3>2. ASSUME NEW by \in {"ident", "iconst", "cast", "Oassign", "call"}, NEW n, NEW out
            PROVE  ~Reduce(by, n, out)
        BY <2>2, <2>3, <3>1
      <3>3. ~Primary
        BY <3>2 DEF Primary
      <3>4. ~Cast
        BY <3>2 DEF Cast
      <3>5. ~Assign
        BY <3>2 DEF Assign
      <3>6. ~Calling
        BY <3>2 DEF Calling
      <3> QED
        BY <3>3, <3>4, <3>5, <3>6
    <2>5. ~EndStatement
      BY <2>2 DEF EndStatement, NoCall, UnaryOps, BinaryOps
    <2>6. Len(stack) \in Nat
      BY <2>1
    <2>7. CASE Unary
      <3>1. PICK op \in UnaryOps : /\ op = "Oaddr" => Value(1).ty.depth < MaxDepth
                                   /\ Reduce(op, 1, MakeUnary(op, Value(1)))
        BY <2>7 DEF Unary
      <3>2. 1 \in 1..Len(stack)
        BY <2>6, <2>7 DEF Unary
      <3>3. Value(1) \in T
        BY <2>1, <3>2, ValueFacts
      <3>4. PICK out : out = MakeUnary(op, Value(1))
        OBVIOUS
      <3>5. out.stop = "no" /\ (Value(1).ty = NULL => out.tree.ty = NULL)
        BY <2>1, <3>1, <3>3, <3>4, MakeUnaryMakes
      <3>6. (\E j \in 1..1 : Value(j).ty = NULL) => out.tree.ty = NULL
        BY <3>5
      <3> QED
        BY <2>1, <2>2, <3>1, <3>2, <3>4, <3>5, <3>6, Propagates
    <2>8. CASE Binary
      <3>1. PICK op \in BinaryOps : Reduce(op, 2, MakeBinary(op, Value(2), Value(1)))
        BY <2>8 DEF Binary
      <3>2. 1 \in 1..Len(stack) /\ 2 \in 1..Len(stack)
        BY <2>6, <2>8 DEF Binary
      <3>3. Value(1).ty \in TreeTypes /\ Value(2).ty \in TreeTypes
        BY <2>1, <3>2, ValueFacts, MemberFits
      <3>4. PICK out : out = MakeBinary(op, Value(2), Value(1))
        OBVIOUS
      <3>5. BinaryTree(Value(2), Value(1), out)
        BY <3>3, <3>4, MakeBinaryTree
      <3>6. out.stop = "no" /\ (NULL \in {Value(2).ty, Value(1).ty} => out.tree.ty = NULL)
        BY <3>5, TreeIs DEF BinaryTree
      <3>7. (\E j \in 1..2 : Value(j).ty = NULL) => out.tree.ty = NULL
        <4>1. \A j \in 1..2 : j = 1 \/ j = 2
          OBVIOUS
        <4> QED
          BY <3>6, <4>1
      <3> QED
        BY <2>1, <2>2, <3>1, <3>2, <3>4, <3>6, <3>7, Propagates
    <2>9. CASE Subscript
      <3>1. Reduce("subscript", 2, MakeSubscript(Value(2), Value(1)))
        BY <2>9 DEF Subscript
      <3>2. 2 \in 1..Len(stack)
        BY <2>6, <2>9 DEF Subscript
      <3>3. PICK out : out = MakeSubscript(Value(2), Value(1))
        OBVIOUS
      <3>4. NULL \in {Value(2).ty, Value(1).ty} => out.stop = "no" /\ out.tree.ty = NULL
        BY <3>3, SubscriptPropagates
      <3>5. (\E j \in 1..2 : Value(j).ty = NULL) => NULL \in {Value(2).ty, Value(1).ty}
        <4>1. \A j \in 1..2 : j = 1 \/ j = 2
          OBVIOUS
        <4> QED
          BY <4>1
      <3>6. out.stop = "no"
        <4>1. SUFFICES ASSUME out.stop # "no" PROVE FALSE
          OBVIOUS
        <4>2. stack' = stack
          BY <3>1, <3>3, <4>1 DEF Reduce
        <4>3. i = Len(stack) /\ Value(1) = stack[i]
          BY <2>2, <2>6, <4>2 DEF Value
        <4> QED
          BY <2>2, <3>4, <4>1, <4>3
      <3> QED
        BY <2>1, <2>2, <3>1, <3>2, <3>3, <3>4, <3>5, <3>6, Propagates
    <2> QED
      BY <2>2, <2>4, <2>5, <2>7, <2>8, <2>9 DEF Next
  <1> QED
    BY <1>1, EInvAlways, PTL DEF Spec, ErrorsPropagate

(* A call that is accepted has converted each of its arguments to its      *)
(* parameter.                                                              *)
LEMMA CallMatches ==
  ASSUME NEW T, Closed(T), stack \in Seq(T), NEW k \in 0..(Len(stack) - 1), NEW args,
         args = SubSeq(stack, Len(stack) - k + 1, Len(stack)),
         Reduce("call", k + 1, MakeCall(Value(k + 1), args)),
         status' = "running", ~last'.report, Value(k + 1).ty # NULL
  PROVE  LET ps == Functions[Value(k + 1).ty.core].params IN
         /\ Len(args) = Len(ps)
         /\ \A i \in 1..Len(ps) : IsArith(args[i].ty) = IsArith(ps[i]) \/ args[i].null
  <1>1. PICK fn : fn = Value(k + 1)
    OBVIOUS
  <1>2. PICK out : out = MakeCall(fn, args)
    OBVIOUS
  <1>3. Reduce("call", k + 1, out) /\ fn.ty # NULL
    BY <1>1, <1>2
  <1>4. ~out.report /\ out.stop \in {"no", "running"}
    <2>1. last'.report = out.report
      BY <1>3 DEF Reduce
    <2>2. ~out.report
      BY <2>1
    <2>3. out.stop \in {"no", "running"}
      BY <1>3 DEF Reduce
    <2> QED
      BY <2>2, <2>3
  <1>5. IsCallee(fn)
    <2>1. SUFFICES ASSUME ~IsCallee(fn) PROVE FALSE
      OBVIOUS
    <2>2. out = Stopped("segv", TRUE)
      BY <1>2, <1>3, <2>1 DEF MakeCall
    <2> QED
      BY <1>4, <2>2 DEF Stopped, Made
  <1>6. k + 1 \in 1..Len(stack)
    OBVIOUS
  <1>7. fn.ty \in TreeTypes
    BY <1>1, <1>6, ValueFacts, MemberFits
  <1>8. PICK f : f = Functions[fn.ty.core]
    OBVIOUS
  <1>9. /\ Len(f.params) \in Nat
        /\ \A i \in 1..Len(f.params) : f.params[i] \in TreeTypes
    BY <1>5, <1>7, <1>8, FunctionFacts
  <1>10. args \in Seq(T) /\ Len(args) = k /\ \A i \in 1..k : args[i].ty \in TreeTypes
    <2>1. args \in Seq(T) /\ Len(args) = k /\ \A i \in 1..k : args[i] \in T
      BY Arguments
    <2>2. \A t \in T : t.ty \in TreeTypes
      BY MemberFits
    <2> QED
      BY <2>1, <2>2
  <1>11. CallIs(out, fn, f, args)
    BY <1>2, <1>3, <1>5, <1>8, <1>10, MakeCallIs
  <1>12. BadArguments(f, args) = {} /\ ~CallReports(f, args, Len(args))
    <2>1. ASSUME NEW i \in BadArguments(f, args), NEW rep,
                 out = Stopped(AssignStops(ParamAt(f.params, i), args[i]), rep)
          PROVE  FALSE
      <3>1. i \in 1..k /\ AssignStops(ParamAt(f.params, i), args[i]) # "no"
        BY <1>10 DEF BadArguments
      <3>2. ParamAt(f.params, i) \in TreeTypes
        BY <1>9, <3>1, FixedTypes DEF ParamAt
      <3>3. AssignStops(ParamAt(f.params, i), args[i]) \in {"segv", "die"}
        BY <1>10, <3>1, <3>2, AssignStopsIs
      <3> QED
        BY <1>4, <2>1, <3>3, StoppedIs
    <2>2. PICK rep \in BOOLEAN : /\ BadArguments(f, args) = {}
                                 /\ rep <=> CallReports(f, args, Len(args))
                                 /\ out = [Made(Tree("Oseq", f.ret), fn.ty, NULL) EXCEPT !.report = rep]
      BY <1>11, <2>1 DEF CallIs
    <2>3. out.report = rep
      <3>1. PICK y : y = Tree("Oseq", f.ret)
        OBVIOUS
      <3> QED
        BY <2>2, <3>1 DEF Made
    <2> QED
      BY <1>4, <2>2, <2>3
  <1>13. Len(args) = Len(f.params)
    BY <1>12 DEF CallReports, WrongNumber
  <1>14. ASSUME NEW i \in 1..Len(f.params)
         PROVE  (IsArith(args[i].ty) <=> IsArith(f.params[i])) \/ args[i].null
    <2>1. i \in 1..k /\ i \in 1..Len(args) /\ ParamAt(f.params, i) = f.params[i]
      BY <1>9, <1>10, <1>13 DEF ParamAt
    <2>2. AssignStops(f.params[i], args[i]) = "no"
      BY <1>12, <2>1 DEF BadArguments
    <2>3. ~AssignReports(f.params[i], args[i])
      BY <1>12, <2>1 DEF CallReports
    <2>4. args[i].ty \in TreeTypes
      BY <1>10, <2>1
    <2> QED
      BY <2>3, <2>4, Kinds DEF AssignReports
  <1>15. \A i \in 1..Len(f.params) : IsArith(args[i].ty) = IsArith(f.params[i]) \/ args[i].null
    BY <1>14, Zenon DEF IsArith
  <1> QED
    BY <1>1, <1>8, <1>13, <1>15

(* What is called takes as many arguments as it is given, each of its kind.*)
THEOREM CallsAlwaysMatch == Spec => CallsMatch
  <1> DEFINE A == LET n    == Len(stack')
                      args == SubSeq(stack, n + 1, Len(stack))
                  IN  /\ last'.by = "call" /\ status' = "running" /\ ~last'.report
                      /\ stack[n].ty # NULL
                      => LET ps == Functions[stack[n].ty.core].params IN
                         /\ Len(args) = Len(ps)
                         /\ \A i \in 1..Len(ps) : IsArith(args[i].ty) = IsArith(ps[i]) \/ args[i].null
  <1>1. ASSUME EInv, [Next]_vars PROVE [A]_vars
    <2>1. PICK T : Closed(T) /\ stack \in Seq(T)
      BY <1>1 DEF EInv
    <2>2. SUFFICES ASSUME Next, last'.by = "call", status' = "running", ~last'.report,
                          stack[Len(stack')].ty # NULL
                   PROVE  LET n    == Len(stack')
                              args == SubSeq(stack, n + 1, Len(stack))
                              ps   == Functions[stack[n].ty.core].params
                          IN  /\ Len(args) = Len(ps)
                              /\ \A i \in 1..Len(ps) : IsArith(args[i].ty) = IsArith(ps[i]) \/ args[i].null
      BY <1>1
    <2>3. Calling
      <3>1. ASSUME NEW by, NEW n, NEW out, Reduce(by, n, out)
            PROVE  by = "call"
        BY <2>2, <3>1 DEF Reduce
      <3>2. ~Primary /\ ~Unary /\ ~Cast /\ ~Binary /\ ~Assign /\ ~Subscript
        <4>1. "call" \notin UnaryOps \cup BinaryOps
          BY DEF UnaryOps, BinaryOps
        <4>2. ~Primary
          BY <3>1 DEF Primary
        <4>3. ~Unary /\ ~Binary
          BY <3>1, <4>1 DEF Unary, Binary
        <4>4. ~Cast /\ ~Assign /\ ~Subscript
          BY <3>1 DEF Cast, Assign, Subscript
        <4> QED
          BY <4>2, <4>3, <4>4
      <3>3. ~EndStatement
        BY <2>2 DEF EndStatement, NoCall
      <3> QED
        BY <2>2, <3>2, <3>3 DEF Next
    <2>4. PICK k \in 0..(Len(stack) - 1) :
            Reduce("call", k + 1, MakeCall(Value(k + 1), SubSeq(stack, Len(stack) - k + 1, Len(stack))))
      BY <2>3 DEF Calling
    <2>5. PICK args : args = SubSeq(stack, Len(stack) - k + 1, Len(stack))
      OBVIOUS
    <2>6. Reduce("call", k + 1, MakeCall(Value(k + 1), args))
      BY <2>4, <2>5
    <2>7. Len(stack) \in Nat /\ k + 1 \in 0..Len(stack)
      BY <2>1
    <2>8. PICK out : out = MakeCall(Value(k + 1), args)
      OBVIOUS
    <2>9. Len(stack') = Len(stack) - k
      <3>1. CASE out.stop = "no"
        <4>1. stack' = Append(SubSeq(stack, 1, Len(stack) - (k + 1)), out.tree)
          BY <2>6, <2>8, <3>1 DEF Reduce
        <4>2. PICK x : x = out.tree
          OBVIOUS
        <4>3. stack' = Append(SubSeq(stack, 1, Len(stack) - (k + 1)), x)
          BY <4>1, <4>2
        <4>4. PICK U : T \subseteq U /\ x \in U
          <5>1. T \subseteq T \cup {x} /\ x \in T \cup {x}
            OBVIOUS
          <5> QED
            BY <5>1
        <4>5. Len(stack') = Len(stack) - (k + 1) + 1
          BY <2>1, <2>7, <4>3, <4>4, Reduced
        <4> QED
          BY <2>7, <4>5
      <3>2. CASE out.stop # "no"
        <4>1. Outcome(T, "call", k + 1, out)
          BY <2>1, <2>5, <2>8, CallOutcome
        <4> QED
          BY <2>2, <2>6, <2>8, <3>2, <4>1 DEF Reduce, Outcome
      <3> QED
        BY <3>1, <3>2
    <2>10. Value(k + 1) = stack[Len(stack')] /\ args = SubSeq(stack, Len(stack') + 1, Len(stack))
      <3>1. Len(stack) + 1 - (k + 1) = Len(stack')
        BY <2>7, <2>9
      <3> QED
        BY <2>5, <2>9, <3>1 DEF Value
    <2>11. Value(k + 1).ty # NULL
      BY <2>2, <2>10
    <2>12. LET ps == Functions[Value(k + 1).ty.core].params IN
           /\ Len(args) = Len(ps)
           /\ \A i \in 1..Len(ps) : IsArith(args[i].ty) = IsArith(ps[i]) \/ args[i].null
      BY <2>1, <2>2, <2>5, <2>6, <2>11, CallMatches
    <2> QED
      BY <2>10, <2>12
  <1> QED
    BY <1>1, EInvAlways, PTL DEF Spec, CallsMatch
=============================================================================
