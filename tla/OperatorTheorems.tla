-------------------------- MODULE OperatorTheorems --------------------------
(***************************************************************************)
(* Facts about operators that the proofs cite.  A nonempty set of natural  *)
(* numbers has a least element, and a greatest one when it is bounded:     *)
(* what walks like those of resolve find.  And what add_specifier and      *)
(* declspec_type return, whatever was read before.                         *)
(***************************************************************************)
EXTENDS Integers, Specifiers, WellFoundedInduction, TLAPS

(* The least element, by well-foundedness. *)
LEMMA HasLeast ==
  ASSUME NEW S \in SUBSET Nat, S # {}
  PROVE  \E x \in S : \A y \in S : x <= y
  <1> DEFINE R == OpToRel(<, Nat)
  <1>1. IsWellFoundedOn(R, Nat)
    BY NatLessThanWellFounded
  <1>2. \A x, y \in Nat : x < y => <<x, y>> \in R
    BY DEF OpToRel
  <1> HIDE DEF R
  <1>3. PICK x \in S : \A y \in S : ~(<<y, x>> \in R)
    BY <1>1, WFMin
  <1>4. ASSUME NEW y \in S PROVE x <= y
    <2>1. x \in Nat /\ y \in Nat
      OBVIOUS
    <2>2. ~(y < x)
      BY <1>2, <1>3, <2>1
    <2> QED
      BY <2>1, <2>2
  <1> QED
    BY <1>4

(* The greatest element: the least distance from the bound. *)
LEMMA HasGreatest ==
  ASSUME NEW S, NEW n \in Nat, S \subseteq 1..n, S # {}
  PROVE  \E x \in S : \A y \in S : y <= x
  <1> DEFINE T == {n - x : x \in S}
  <1>1. \A x \in S : n - x \in Nat /\ x \in Nat
    OBVIOUS
  <1>2. T \in SUBSET Nat /\ T # {}
    BY <1>1
  <1>3. PICK t \in T : \A u \in T : t <= u
    BY <1>2, HasLeast
  <1>4. PICK x \in S : t = n - x
    OBVIOUS
  <1>5. ASSUME NEW y \in S PROVE y <= x
    <2>1. n - y \in T
      OBVIOUS
    <2>2. n - x <= n - y /\ x \in Nat /\ y \in Nat
      BY <1>1, <1>3, <1>4, <2>1
    <2> QED
      BY <2>2
  <1> QED
    BY <1>5

(* Induction over m..n: the members of G go up to n. *)
LEMMA UpTo ==
  ASSUME NEW m \in Nat, NEW n \in Nat, NEW G,
         \A i \in m..n : (i = m \/ i - 1 \in G) => i \in G
  PROVE  \A i \in m..n : i \in G
  <1> DEFINE bad == {i \in m..n : i \notin G}
  <1>1. SUFFICES ASSUME bad # {} PROVE FALSE
    OBVIOUS
  <1>2. bad \in SUBSET Nat
    OBVIOUS
  <1>3. PICK i \in bad : \A j \in bad : i <= j
    BY <1>1, <1>2, HasLeast
  <1>4. i \in m..n /\ i # m
    BY <1>3
  <1>5. i - 1 \in m..n /\ ~(i <= i - 1)
    BY <1>4
  <1> QED
    BY <1>3, <1>4, <1>5
-----------------------------------------------------------------------------
(* The set of an empty list and that of a refused one. *)
LEMMA SpecifierSetsMembers == SpecNone \in SpecifierSets /\ SpecInvalid \in SpecifierSets
  BY DEF SpecifierSets, SpecNone, SpecInvalid, Signedness

(* One of the sets, and never that of an empty list. *)
LEMMA AddSpecifierType ==
  ASSUME NEW s \in SpecifierSets, NEW a \in Atoms
  PROVE  AddSpecifier(s, a) \in SpecifierSets /\ AddSpecifier(s, a) # SpecNone
  BY DEF AddSpecifier, SpecifierSets, Atoms, Combines, Combine, SpecNone, SpecInvalid, Signedness

(* The default case of declspec_type, which dies, is out of reach; NULL is *)
(* returned only for an empty list or after an error.                      *)
LEMMA DeclspecTypeType ==
  ASSUME NEW s \in SpecifierSets
  PROVE  /\ DeclspecType(s) \in {"none", "void"} \cup IntegerTypes
         /\ DeclspecType(s) = "none" => s = SpecNone \/ s = SpecInvalid
  <1> DEFINE rest == s \ {"int", "signed"}
  <1>1. CASE s = SpecInvalid \/ s = SpecNone
    BY <1>1 DEF DeclspecType
  <1>2. CASE s # SpecInvalid /\ s # SpecNone
    <2>1. /\ ~(Signedness \subseteq s)
          /\ "void" \in s => s = {"void"}
          /\ ~({"long", "longlong"} \subseteq s)
          /\ \A x \in s : x \in {"void", "int", "long", "signed", "unsigned", "longlong"}
      BY <1>2 DEF SpecifierSets, Atoms
    <2>2. CASE "void" \in s
      BY <1>2, <2>1, <2>2 DEF DeclspecType
    <2>3. CASE "void" \notin s
      <3>1. CASE "unsigned" \in s
        <4>1. "long" \in s /\ "longlong" \notin s => rest = {"unsigned", "long"}
          BY <2>1, <2>3, <3>1
        <4>2. "longlong" \in s /\ "long" \notin s => rest = {"unsigned", "longlong"}
          BY <2>1, <2>3, <3>1
        <4>3. "longlong" \notin s /\ "long" \notin s => rest = {"unsigned"}
          BY <2>1, <2>3, <3>1
        <4> QED
          BY <1>2, <2>1, <2>3, <4>1, <4>2, <4>3 DEF DeclspecType, IntegerTypes
      <3>2. CASE "unsigned" \notin s
        <4>1. "long" \in s /\ "longlong" \notin s => rest = {"long"}
          BY <2>1, <2>3, <3>2
        <4>2. "longlong" \in s /\ "long" \notin s => rest = {"longlong"}
          BY <2>1, <2>3, <3>2
        <4>3. "longlong" \notin s /\ "long" \notin s => rest = {}
          BY <2>1, <2>3, <3>2
        <4> QED
          BY <1>2, <2>1, <2>3, <4>1, <4>2, <4>3 DEF DeclspecType, IntegerTypes
      <3> QED
        BY <3>1, <3>2
    <2> QED
      BY <2>2, <2>3
  <1> QED
    BY <1>1, <1>2

(* SpecInvalid is never left behind in silence. *)
LEMMA AddSpecifierReports ==
  ASSUME NEW s \in SpecifierSets, NEW a \in Atoms, AddSpecifier(s, a) = SpecInvalid
  PROVE  s = SpecInvalid \/ SpecifierError(s, a)
  BY DEF AddSpecifier, SpecifierError, Combine, SpecInvalid, Atoms
=============================================================================
