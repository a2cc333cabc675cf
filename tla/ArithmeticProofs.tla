-------------------------- MODULE ArithmeticProofs --------------------------
(***************************************************************************)
(* Theorems on the modules that rest on Conversions: SpecifierList and     *)
(* Sums, which extends it, and Instructions.                               *)
(*                                                                         *)
(* Sums: add_specifier and declspec_type agree with the C rule for         *)
(* specifier lists of every length; then the types of sums and of          *)
(* constants are those of C, for every chain of operands, on every         *)
(* architecture that C allows; and on the table of main.c, which it does   *)
(* not allow, up to types alike.                                           *)
(*                                                                         *)
(* Instructions: whatever an expression is made of, the instructions that  *)
(* are selected for it compute its meaning.  A tree is good for what an    *)
(* expression means if its code, executed from any state of the processor, *)
(* leaves the value and the memory of the meaning and what was pushed; it  *)
(* is shown for the code of each operator, then for the trees make_unary,  *)
(* make_binary and make_assign put together, then for every tree on the    *)
(* parser's stack.                                                         *)
(***************************************************************************)
EXTENDS Sums, Instructions, FiniteSetTheorems, SequenceTheorems, OperatorTheorems

(* The specifiers a multiset is made of: two longs are one. *)
Bits == Atoms \cup {"longlong"}

(* While the multiset is allowed, the bits of ts are a function of it: one *)
(* bit per specifier, except that two longs are the bit longlong.          *)
Canonical ==
  /\ ts \subseteq Bits
  /\ \A a \in Atoms \ {"long"} : a \in ts <=> count[a] = 1
  /\ "long" \in ts <=> count["long"] = 1
  /\ "longlong" \in ts <=> count["long"] = 2

(* How often each specifier was written. *)
CountOK == count \in [Atoms -> Nat]

(* The inductive invariant of SpecifierList. *)
SpecifierInv ==
  /\ TypeOK
  /\ length > 0 => \E a \in Atoms : count[a] > 0
  /\ Allowed(count) => Canonical /\ errors = 0
  /\ ~Allowed(count) => ts = SpecInvalid /\ errors = 1

(* An empty list satisfies the invariant. *)
LEMMA InitInductive == EnterDecl => SpecifierInv
  BY SpecifierSetsMembers DEF EnterDecl, SpecifierInv, TypeOK, Canonical, Allowed, Atoms, Bits,
                              SpecNone, SpecInvalid

(* Once a multiset is not allowed, no longer list repairs it. *)
LEMMA NotAllowedIsSticky ==
  ASSUME NEW c \in [Atoms -> Nat], NEW a \in Atoms,
         Allowed([c EXCEPT ![a] = @ + 1])
  PROVE  Allowed(c)
  BY DEF Allowed, Atoms

(* One more specifier keeps an allowed multiset allowed exactly when       *)
(* add_specifier accepts it.                                               *)
LEMMA AcceptsWhatIsAllowed ==
  ASSUME CountOK, Allowed(count), Canonical, NEW a \in Atoms
  PROVE  Combines(ts, a) <=> Allowed([count EXCEPT ![a] = @ + 1])
  <1> USE DEF CountOK, Allowed, Canonical, Combines, Atoms, Bits, SpecNone, Signedness
  <1>1. CASE a = "void"
    BY <1>1
  <1>2. CASE a = "int"
    BY <1>2
  <1>3. CASE a = "long"
    BY <1>3
  <1>4. CASE a = "signed"
    BY <1>4
  <1>5. CASE a = "unsigned"
    BY <1>5
  <1> QED
    BY <1>1, <1>2, <1>3, <1>4, <1>5

(* The set add_specifier computes stays canonical. *)
LEMMA CombineIsCanonical ==
  ASSUME CountOK, Allowed(count), Canonical, NEW a \in Atoms,
         Combines(ts, a), ts' = Combine(ts, a),
         count' = [count EXCEPT ![a] = @ + 1]
  PROVE  Canonical'
  <1>1. /\ count'[a] = count[a] + 1
        /\ \A b \in Atoms \ {a} : count'[b] = count[b]
        /\ \A b \in Atoms : count[b] \in Nat
    BY DEF CountOK
  <1>2. ts' \subseteq Bits
    BY DEF Canonical, Combine, Bits
  <1>3. a # "long" => a \notin ts
    BY DEF Combines, Signedness, Canonical, Bits, Atoms, SpecNone
  <1>4. CASE a = "long"
    <2>1. count["long"] \in Nat /\ count'["long"] = count["long"] + 1 /\ "longlong" \notin ts
      BY <1>1, <1>4 DEF Combines, Atoms
    <2>2. CASE "long" \in ts
      <3>1. ts' = (ts \ {"long"}) \cup {"longlong"} /\ count["long"] = 1
        BY <1>4, <2>2 DEF Combine, Canonical
      <3> QED
        BY <1>1, <1>2, <1>4, <2>1, <3>1 DEF Canonical, Atoms
    <2>3. CASE "long" \notin ts
      <3>1. ts' = ts \cup {"long"}
        BY <1>4, <2>3 DEF Combine
      <3>2. count["long"] = 0
        <4>1. count["void"] \in Nat /\ count["long"] <= 2
          BY <1>1 DEF Allowed, Atoms
        <4> QED
          BY <2>1, <2>3, <4>1 DEF Canonical
      <3> QED
        BY <1>1, <1>2, <1>4, <2>1, <3>1, <3>2 DEF Canonical, Atoms
    <2> QED
      BY <2>2, <2>3
  <1>5. CASE a # "long"
    <2>1. ts' = ts \cup {a} /\ a \notin ts /\ a \in Atoms \ {"long"}
      BY <1>3, <1>5 DEF Combine
    <2>2. count[a] = 0
      <3>1. count[a] <= 1
        BY <1>1, <1>5 DEF Allowed, Atoms
      <3>2. count[a] # 1
        BY <2>1 DEF Canonical
      <3> QED
        BY <1>1, <3>1, <3>2
    <2>3. count'[a] = 1 /\ "longlong" \notin Atoms
      BY <1>1, <2>2 DEF Atoms
    <2>4. count'["long"] = count["long"]
      BY <1>1, <1>5 DEF Atoms
    <2> QED
      BY <1>1, <1>2, <2>1, <2>3, <2>4 DEF Canonical
  <1> QED
    BY <1>4, <1>5

(* The set of an allowed list is not the one that stands for an error. *)
LEMMA CanonicalIsNotInvalid == Canonical => ts # SpecInvalid
  BY DEF Canonical, Bits, Atoms, SpecInvalid

(* One more specifier keeps the invariant. *)
LEMMA NextInductive == SpecifierInv /\ [Next]_vars => SpecifierInv'
  <1> SUFFICES ASSUME SpecifierInv, [Next]_vars PROVE SpecifierInv'
    OBVIOUS
  <1>1. ASSUME NEW a \in Atoms, ReadSpecifier(a) PROVE SpecifierInv'
    <2>1. /\ count \in [Atoms -> Nat]
          /\ count' = [count EXCEPT ![a] = @ + 1]
          /\ count' \in [Atoms -> Nat]
          /\ length' \in Nat
          /\ count'[a] > 0
      BY <1>1 DEF SpecifierInv, TypeOK, ReadSpecifier
    <2>2. CASE Allowed(count) /\ Combines(ts, a)
      <3>1. Allowed(count') /\ CountOK /\ Canonical /\ errors = 0
        BY <2>1, <2>2, AcceptsWhatIsAllowed DEF SpecifierInv, CountOK
      <3>2. ts' = Combine(ts, a) /\ errors' = 0
        BY <1>1, <2>2, <3>1, CanonicalIsNotInvalid
           DEF ReadSpecifier, AddSpecifier, SpecifierError
      <3>3. Canonical'
        BY <2>1, <2>2, <3>1, <3>2, CombineIsCanonical
      <3> QED
        BY <1>1, <2>1, <3>1, <3>2, <3>3, AddSpecifierType DEF SpecifierInv, TypeOK, CountOK, ReadSpecifier
    <2>3. CASE Allowed(count) /\ ~Combines(ts, a)
      <3>1. ~Allowed(count') /\ Canonical /\ errors = 0
        BY <2>1, <2>3, AcceptsWhatIsAllowed DEF SpecifierInv, CountOK
      <3>2. ts' = SpecInvalid /\ errors' = 1
        BY <1>1, <2>3, <3>1, CanonicalIsNotInvalid
           DEF ReadSpecifier, AddSpecifier, SpecifierError
      <3> QED
        BY <2>1, <3>1, <3>2, SpecifierSetsMembers DEF SpecifierInv, TypeOK
    <2>4. CASE ~Allowed(count)
      <3>1. ~Allowed(count')
        BY <2>1, <2>4, NotAllowedIsSticky
      <3>2. ts' = SpecInvalid /\ errors' = 1
        BY <1>1, <2>4 DEF SpecifierInv, TypeOK, ReadSpecifier, AddSpecifier, SpecifierError
      <3> QED
        BY <2>1, <3>1, <3>2, SpecifierSetsMembers DEF SpecifierInv, TypeOK
    <2> QED
      BY <2>2, <2>3, <2>4
  <1>2. CASE UNCHANGED vars
    BY <1>2 DEF vars, SpecifierInv, TypeOK, Canonical, Allowed
  <1> QED
    BY <1>1, <1>2 DEF Next

(* The inductive invariant holds of every list. *)
THEOREM Inductive == Spec => []SpecifierInv
  BY InitInductive, NextInductive, PTL DEF Spec

(* TypeOK: the variables of the list stay in their types. *)
THEOREM TypeCorrect == Spec => []TypeOK
  <1>1. SpecifierInv => TypeOK
    BY DEF SpecifierInv
  <1> QED
    BY <1>1, Inductive, PTL

(* RejectedIffNotAllowed, for lists of any length. *)
THEOREM RejectsExactly == Spec => []RejectedIffNotAllowed
  <1>1. SpecifierInv => RejectedIffNotAllowed
    BY CanonicalIsNotInvalid DEF SpecifierInv, RejectedIffNotAllowed
  <1> QED
    BY <1>1, Inductive, PTL

(* A canonical set names the type of its multiset. *)
LEMMA CanonicalNamesType ==
  ASSUME TypeOK, Allowed(count), Canonical,
         \E a \in Atoms : count[a] > 0
  PROVE  DeclspecType(ts) = NamedType(count)
  <1> DEFINE rest == ts \ {"int", "signed"}
  <1>1. ts # SpecInvalid
    BY CanonicalIsNotInvalid
  <1>2. ts # SpecNone
    BY DEF TypeOK, Allowed, Canonical, Atoms, SpecNone
  <1>3. ~(Signedness \subseteq ts)
    BY DEF TypeOK, Allowed, Canonical, Atoms, Signedness
  <1>4. \A x \in ts : x \in {"void", "int", "long", "signed", "unsigned", "longlong"}
    BY DEF Canonical, Bits, Atoms
  <1>5. /\ "void" \in ts <=> count["void"] = 1
        /\ "unsigned" \in ts <=> count["unsigned"] = 1
        /\ "long" \in ts <=> count["long"] = 1
        /\ "longlong" \in ts <=> count["long"] = 2
    BY DEF Canonical, Atoms
  <1>6. CASE count["void"] = 1
    <2>1. "void" \in ts /\ \A x \in {"int", "long", "signed", "unsigned", "longlong"} : x \notin ts
      BY <1>6 DEF TypeOK, Allowed, Canonical, Atoms
    <2>2. ts = {"void"}
      BY <1>4, <2>1
    <2> QED
      BY <1>1, <1>2, <1>3, <1>6, <2>2 DEF DeclspecType, NamedType
  <1>7. CASE count["void"] # 1
    <2>1. /\ "void" \notin ts
          /\ ts # {"void"}
          /\ count["long"] \in {0, 1, 2}
      BY <1>5, <1>7 DEF TypeOK, Allowed, Atoms
    <2>2. CASE count["unsigned"] = 1 /\ count["long"] = 0
      <3>1. rest = {"unsigned"}
        <4>1. "unsigned" \in ts /\ "long" \notin ts /\ "longlong" \notin ts
          BY <1>5, <2>2
        <4> QED
          BY <1>4, <2>1, <4>1
      <3> QED
        BY <1>1, <1>2, <1>3, <1>7, <2>1, <2>2, <3>1 DEF DeclspecType, NamedType
    <2>3. CASE count["unsigned"] = 1 /\ count["long"] = 1
      <3>1. rest = {"unsigned", "long"}
        <4>1. "unsigned" \in ts /\ "long" \in ts /\ "longlong" \notin ts
          BY <1>5, <2>3
        <4> QED
          BY <1>4, <2>1, <4>1
      <3> QED
        BY <1>1, <1>2, <1>3, <1>7, <2>1, <2>3, <3>1 DEF DeclspecType, NamedType
    <2>4. CASE count["unsigned"] = 1 /\ count["long"] = 2
      <3>1. rest = {"unsigned", "longlong"}
        <4>1. "unsigned" \in ts /\ "long" \notin ts /\ "longlong" \in ts
          BY <1>5, <2>4
        <4> QED
          BY <1>4, <2>1, <4>1
      <3> QED
        BY <1>1, <1>2, <1>3, <1>7, <2>1, <2>4, <3>1 DEF DeclspecType, NamedType
    <2>5. CASE count["unsigned"] # 1 /\ count["long"] = 0
      <3>1. rest = {}
        <4>1. "unsigned" \notin ts /\ "long" \notin ts /\ "longlong" \notin ts
          BY <1>5, <2>5
        <4> QED
          BY <1>4, <2>1, <4>1
      <3> QED
        BY <1>1, <1>2, <1>3, <1>7, <2>1, <2>5, <3>1 DEF DeclspecType, NamedType
    <2>6. CASE count["unsigned"] # 1 /\ count["long"] = 1
      <3>1. rest = {"long"}
        <4>1. "unsigned" \notin ts /\ "long" \in ts /\ "longlong" \notin ts
          BY <1>5, <2>6
        <4> QED
          BY <1>4, <2>1, <4>1
      <3> QED
        BY <1>1, <1>2, <1>3, <1>7, <2>1, <2>6, <3>1 DEF DeclspecType, NamedType
    <2>7. CASE count["unsigned"] # 1 /\ count["long"] = 2
      <3>1. rest = {"longlong"}
        <4>1. "unsigned" \notin ts /\ "long" \notin ts /\ "longlong" \in ts
          BY <1>5, <2>7
        <4> QED
          BY <1>4, <2>1, <4>1
      <3> QED
        BY <1>1, <1>2, <1>3, <1>7, <2>1, <2>7, <3>1 DEF DeclspecType, NamedType
    <2> QED
      BY <2>1, <2>2, <2>3, <2>4, <2>5, <2>6, <2>7
  <1> QED
    BY <1>6, <1>7

(* OrderFree, for lists of any length. *)
THEOREM NamesItsMultiset == Spec => []OrderFree
  <1>1. SpecifierInv => OrderFree
    BY CanonicalNamesType DEF SpecifierInv, OrderFree
  <1> QED
    BY <1>1, Inductive, PTL

(* The default case of declspec_type is reached from no set that an        *)
(* allowed list leaves.                                                    *)
LEMMA HoldsNeverDies == SpecifierInv => NeverDies
  <1> SUFFICES ASSUME SpecifierInv PROVE NeverDies
    OBVIOUS
  <1>1. CASE ts = SpecInvalid \/ ts = {}
    BY <1>1 DEF NeverDies, DeclspecType, SpecNone
  <1>2. CASE ts # SpecInvalid /\ ts # {}
    <2>1. Allowed(count) /\ Canonical /\ TypeOK
      BY <1>2 DEF SpecifierInv
    <2>2. \E a \in Atoms : count[a] > 0
      <3>1. PICK b \in ts : TRUE
        BY <1>2
      <3>2. CASE b \in {"long", "longlong"}
        <4>1. count["long"] > 0 /\ "long" \in Atoms
          BY <2>1, <3>1, <3>2 DEF Canonical, Atoms
        <4> QED
          BY <4>1
      <3>3. CASE b \notin {"long", "longlong"}
        <4>1. b \in Atoms /\ count[b] = 1
          BY <2>1, <3>1, <3>3 DEF Canonical, Bits, Atoms
        <4> QED
          BY <4>1
      <3> QED
        BY <3>2, <3>3
    <2> QED
      BY <2>1, <2>2, CanonicalNamesType DEF NeverDies, NamedType
  <1> QED
    BY <1>1, <1>2

(* NeverDies, for lists of any length: the default case of declspec_type   *)
(* is unreachable.                                                         *)
THEOREM DefaultCaseUnreachable == Spec => []NeverDies
  BY Inductive, HoldsNeverDies, PTL

-----------------------------------------------------------------------------
(* What isemant may be given. *)
Architecture == [IntegerTypes -> [rank : Nat, width : Nat, sign : {0, 1}]]

(* There is no integer type below int: promotion changes nothing.          *)
LEMMA PromotedIsSame ==
  ASSUME NEW a \in Architecture, AsInC(a),
         NEW t \in IntegerTypes
  PROVE  Promoted(a, t) = t
  BY DEF Architecture, AsInC, Promoted, ValueBits, IntegerTypes

(* The common type of two is fit for both, and no type that is comes       *)
(* before it.                                                              *)
LEMMA CommonIsLeast ==
  ASSUME NEW a \in Architecture, AsInC(a),
         NEW l \in IntegerTypes, NEW r \in IntegerTypes
  PROVE  /\ CommonRealType(a, l, r) \in IntegerTypes
         /\ Least(a, CommonRealType(a, l, r), {l, r})
<1>1. /\ a["int"].sign = 1 /\ a["long"].sign = 1 /\ a["llong"].sign = 1
      /\ a["uint"].sign = 0 /\ a["ulong"].sign = 0 /\ a["ullong"].sign = 0
  BY DEF Architecture, AsInC
<1>2. \A t \in IntegerTypes : /\ a[t].rank \in Nat /\ a[t].width \in Nat /\ a[t].sign \in Nat
                               /\ a[t].width > 0
  BY DEF Architecture, AsInC
<1> DEFINE c == CommonRealType(a, l, r)
<1>3. c \in IntegerTypes /\ FitFor(a, c, l) /\ FitFor(a, c, r)
  BY <1>1, <1>2, AsInC(a), SMTT(60)
     DEF AsInC, CommonRealType, UnsignedOf, FitFor, ValueBits, IntegerTypes, Position
<1>4. ASSUME NEW u \in IntegerTypes, FitFor(a, u, l), FitFor(a, u, r)
      PROVE  Position[c] <= Position[u]
  <2>1. CASE u \in {"int", "uint"}
    BY <1>1, <1>2, <1>4, <2>1, AsInC(a), SMTT(60)
       DEF AsInC, CommonRealType, UnsignedOf, FitFor, ValueBits, IntegerTypes, Position
  <2>2. CASE u \in {"long", "ulong"}
    BY <1>1, <1>2, <1>4, <2>2, AsInC(a), SMTT(60)
       DEF AsInC, CommonRealType, UnsignedOf, FitFor, ValueBits, IntegerTypes, Position
  <2>3. CASE u \in {"llong", "ullong"}
    BY <1>1, <1>2, <1>4, <2>3, AsInC(a), SMTT(60)
       DEF AsInC, CommonRealType, UnsignedOf, FitFor, ValueBits, IntegerTypes, Position
  <2>4. QED
    BY <2>1, <2>2, <2>3 DEF IntegerTypes
<1>5. QED
  BY <1>3, <1>4 DEF Least

(* Being fit is transitive. *)
LEMMA FitTransitive ==
  ASSUME NEW a \in Architecture, AsInC(a),
         NEW t \in IntegerTypes, NEW p \in IntegerTypes, NEW s \in IntegerTypes,
         FitFor(a, t, p), FitFor(a, p, s)
  PROVE  FitFor(a, t, s)
  BY SMTT(60) DEF Architecture, AsInC, FitFor, ValueBits, IntegerTypes, Position

(* What is fit for some operands is fit for the least type of these: if    *)
(* that is unsigned although an earlier type is signed and as wide, one of *)
(* the operands was to blame, and is as wide itself.                       *)
LEMMA FitForLeast ==
  ASSUME NEW a \in Architecture, AsInC(a), NEW S \in SUBSET IntegerTypes,
         NEW p \in IntegerTypes, Least(a, p, S),
         NEW u \in IntegerTypes, \A s \in S : FitFor(a, u, s)
  PROVE  FitFor(a, u, p)
<1>1. Position[p] <= Position[u]
  BY DEF Least
<1>2. CASE a[p].sign = 1 \/ a[u].sign = 0
  BY <1>1, <1>2, SMTT(60) DEF Architecture, AsInC, FitFor, ValueBits, IntegerTypes, Position
<1>3. ASSUME a[p].sign = 0, a[u].sign = 1
      PROVE  ValueBits(a, p) <= ValueBits(a, u)
  <2>1. PICK q \in IntegerTypes : /\ a[q].sign = 1 /\ a[q].width = a[p].width
                                  /\ Position[q] + 1 = Position[p]
    BY <1>3, SMTT(60) DEF Architecture, AsInC, IntegerTypes, Position
  <2>2. ~(Position[p] <= Position[q])
    BY <2>1 DEF IntegerTypes, Position
  <2>3. PICK s \in S : ~FitFor(a, q, s)
    BY <2>2 DEF Least
  <2>4. FitFor(a, p, s) /\ FitFor(a, u, s) /\ s \in IntegerTypes
    BY DEF Least
  <2>5. CASE s = p
    BY <2>4, <2>5, <1>3 DEF Architecture, FitFor
  <2>6. CASE s # p
    <3>1. Position[s] <= Position[q]
      BY <2>1, <2>4, <2>6, SMTT(60) DEF FitFor, IntegerTypes, Position
    <3>2. ValueBits(a, q) < ValueBits(a, s)
      BY <3>1, <2>1, <2>3, <2>4 DEF Architecture, FitFor, ValueBits
    <3>3. ValueBits(a, s) <= ValueBits(a, u)
      BY <2>4, <1>3 DEF FitFor
    <3>4. QED
      BY <3>2, <3>3, <2>1, <2>4, <1>3 DEF Architecture, ValueBits
  <2>7. QED
    BY <2>5, <2>6
<1>4. a[p].sign \in {0, 1} /\ a[u].sign \in {0, 1}
  BY DEF Architecture
<1>5. QED
  BY <1>1, <1>2, <1>3, <1>4 DEF FitFor

(* One more operand: the common type of the least type and the operand is  *)
(* the least for all.                                                      *)
LEMMA CommonExtends ==
  ASSUME NEW a \in Architecture, AsInC(a), NEW S \in SUBSET IntegerTypes,
         NEW p \in IntegerTypes, Least(a, p, S), NEW r \in IntegerTypes
  PROVE  Least(a, CommonRealType(a, p, r), S \cup {r})
<1> DEFINE c == CommonRealType(a, p, r)
<1>1. c \in IntegerTypes /\ Least(a, c, {p, r})
  BY CommonIsLeast
<1> HIDE DEF c
<1>2. ASSUME NEW s \in S \cup {r}
      PROVE  FitFor(a, c, s)
  <2>1. CASE s = r
    BY <1>1, <2>1 DEF Least
  <2>2. CASE s \in S
    <3>1. FitFor(a, c, p) /\ FitFor(a, p, s) /\ s \in IntegerTypes
      BY <1>1, <2>2 DEF Least
    <3>2. QED
      BY <1>1, <3>1, FitTransitive
  <2>3. QED
    BY <2>1, <2>2
<1>3. ASSUME NEW u \in IntegerTypes, \A s \in S \cup {r} : FitFor(a, u, s)
      PROVE  Position[c] <= Position[u]
  <2>1. FitFor(a, u, p)
    BY <1>3, FitForLeast
  <2>2. FitFor(a, u, r)
    BY <1>3
  <2>3. QED
    BY <1>1, <2>1, <2>2 DEF Least
<1>4. QED
  BY <1>2, <1>3 DEF Least, c

(* The table of main.c, at any size of a byte. *)
LEMMA MainTypes ==
  ASSUME NEW a, AsInMain(a)
  PROVE  \E byte \in Nat \ {0} :
           /\ a["int"] = [rank |-> 32, width |-> 4 * byte, sign |-> 1]
           /\ a["uint"] = [rank |-> 32, width |-> 4 * byte, sign |-> 0]
           /\ \A t \in {"long", "ulong", "llong", "ullong"} :
                a[t] = [rank |-> 64, width |-> 8 * byte, sign |-> 1]
<1>1. PICK byte \in 1..a["int"].width : a = Amd64(byte)
  BY DEF AsInMain
<1>2. a["int"] = [rank |-> 32, width |-> 4 * byte, sign |-> 1]
  BY <1>1 DEF Amd64, BaseType, IntegerTypes
<1>3. a["uint"] = [rank |-> 32, width |-> 4 * byte, sign |-> 0]
  BY <1>1 DEF Amd64, BaseType, IntegerTypes
<1>4. \A t \in {"long", "ulong", "llong", "ullong"} :
        a[t] = [rank |-> 64, width |-> 8 * byte, sign |-> 1]
  BY <1>1 DEF Amd64, BaseType, IntegerTypes
<1>5. byte \in Nat \ {0}
  OBVIOUS
<1> QED
  BY <1>2, <1>3, <1>4, <1>5

(* On that table, a sum has the type of one of its operands: int if they   *)
(* all are, uint if they are int and uint, one of the others otherwise.    *)
Narrow == {"int", "uint"}
OfOperand(t, S) ==
  /\ t \in S
  /\ t \in Narrow => S \subseteq Narrow
  /\ t = "int" => S = {"int"}

(* There promotion changes nothing either. *)
LEMMA PromotedInMain ==
  ASSUME NEW a, AsInMain(a), NEW t \in IntegerTypes
  PROVE  Promoted(a, t) = t
<1>1. PICK byte \in Nat \ {0} :
        /\ a["int"] = [rank |-> 32, width |-> 4 * byte, sign |-> 1]
        /\ a["uint"] = [rank |-> 32, width |-> 4 * byte, sign |-> 0]
        /\ \A u \in {"long", "ulong", "llong", "ullong"} :
             a[u] = [rank |-> 64, width |-> 8 * byte, sign |-> 1]
  BY MainTypes
<1> QED
  BY <1>1 DEF Promoted, ValueBits, IntegerTypes

(* There the common type is the greater of int, uint and the others, and   *)
(* of two others the right one.                                            *)
LEMMA CommonInMain ==
  ASSUME NEW a, AsInMain(a), NEW l \in IntegerTypes, NEW r \in IntegerTypes
  PROVE  CommonRealType(a, l, r) = IF r \notin Narrow THEN r
                                   ELSE IF l \notin Narrow THEN l
                                   ELSE IF l = "uint" THEN l ELSE r
<1>1. PICK byte \in Nat \ {0} :
        /\ a["int"] = [rank |-> 32, width |-> 4 * byte, sign |-> 1]
        /\ a["uint"] = [rank |-> 32, width |-> 4 * byte, sign |-> 0]
        /\ \A u \in {"long", "ulong", "llong", "ullong"} :
             a[u] = [rank |-> 64, width |-> 8 * byte, sign |-> 1]
  BY MainTypes
<1>2. /\ a["int"].rank = 32 /\ a["int"].width = 4 * byte /\ a["int"].sign = 1
      /\ a["uint"].rank = 32 /\ a["uint"].width = 4 * byte /\ a["uint"].sign = 0
      /\ \A u \in {"long", "ulong", "llong", "ullong"} :
           a[u].rank = 64 /\ a[u].width = 8 * byte /\ a[u].sign = 1
      /\ 4 * byte < 8 * byte
  BY <1>1
<1>3. CASE r \notin Narrow
  BY <1>2, <1>3, SMTT(60) DEF CommonRealType, IntegerTypes, Narrow
<1>4. CASE r \in Narrow /\ l \notin Narrow
  BY <1>2, <1>4, SMTT(60) DEF CommonRealType, IntegerTypes, Narrow
<1>5. CASE r \in Narrow /\ l \in Narrow
  BY <1>2, <1>5, SMTT(60) DEF CommonRealType, IntegerTypes, Narrow
<1> QED
  BY <1>3, <1>4, <1>5

(* So a further operand keeps that. *)
LEMMA OfOperandExtends ==
  ASSUME NEW a, AsInMain(a), NEW S \in SUBSET IntegerTypes, NEW p, OfOperand(p, S),
         NEW r \in IntegerTypes
  PROVE  OfOperand(CommonRealType(a, p, r), S \cup {r})
<1>1. p \in IntegerTypes
  BY DEF OfOperand
<1> QED
  BY <1>1, CommonInMain DEF OfOperand, Narrow, IntegerTypes

(* On the table of main.c, the last of the operands' types is fit for all  *)
(* of them.                                                                *)
LEMMA LastIsLeast ==
  ASSUME NEW a, AsInMain(a), NEW S \in SUBSET IntegerTypes, NEW t \in S,
         \A s \in S : Position[s] <= Position[t]
  PROVE  Least(a, t, S)
<1>1. PICK byte \in Nat \ {0} :
        /\ a["int"] = [rank |-> 32, width |-> 4 * byte, sign |-> 1]
        /\ a["uint"] = [rank |-> 32, width |-> 4 * byte, sign |-> 0]
        /\ \A u \in {"long", "ulong", "llong", "ullong"} :
             a[u] = [rank |-> 64, width |-> 8 * byte, sign |-> 1]
  BY MainTypes
<1>2. /\ a["int"].sign = 1 /\ ValueBits(a, "int") = 4 * byte - 1
      /\ a["uint"].sign = 0 /\ ValueBits(a, "uint") = 4 * byte
      /\ \A u \in {"long", "ulong", "llong", "ullong"} :
           a[u].sign = 1 /\ ValueBits(a, u) = 8 * byte - 1
      /\ 4 * byte <= 8 * byte - 1 /\ 4 * byte - 1 <= 4 * byte /\ 4 * byte \in Int /\ 8 * byte \in Int
  BY <1>1 DEF ValueBits
<1>3. ASSUME NEW s \in S PROVE FitFor(a, t, s)
  <2>1. Position[s] <= Position[t] /\ s \in IntegerTypes /\ t \in IntegerTypes
    OBVIOUS
  <2>2. CASE t = "int"
    <3>1. s = "int"
      BY <2>1, <2>2 DEF Position, IntegerTypes
    <3> QED
      BY <1>2, <2>1, <2>2, <3>1 DEF FitFor
  <2>3. CASE t = "uint"
    BY <1>2, <2>1, <2>3 DEF FitFor
  <2>4. CASE t \in {"long", "ulong", "llong", "ullong"}
    <3>1. ValueBits(a, s) <= 8 * byte - 1
      BY <1>2, <2>1 DEF IntegerTypes
    <3> QED
      BY <1>2, <2>1, <2>4, <3>1 DEF FitFor
  <2> QED
    BY <2>1, <2>2, <2>3, <2>4 DEF IntegerTypes
<1>4. ASSUME NEW u \in IntegerTypes, \A s \in S : FitFor(a, u, s)
      PROVE  Position[t] <= Position[u]
  BY <1>4 DEF FitFor
<1> QED
  BY <1>3, <1>4 DEF Least

(* The type of a sum there is that last one, or alike. *)
LEMMA OfOperandIsLeast ==
  ASSUME NEW a, AsInMain(a), NEW S \in SUBSET IntegerTypes, NEW p, OfOperand(p, S)
  PROVE  Least(a, p, S) \/ \E t \in S : Alike(a, p, t) /\ Least(a, t, S)
<1>1. PICK t \in S : \A s \in S : Position[s] <= Position[t]
  <2>1. S \cap {"int"} # {} \/ S \cap {"uint"} # {} \/ S \cap {"long"} # {}
        \/ S \cap {"ulong"} # {} \/ S \cap {"llong"} # {} \/ S \cap {"ullong"} # {}
    BY DEF OfOperand, IntegerTypes
  <2>2. CASE "ullong" \in S
    BY <2>2 DEF Position, IntegerTypes
  <2>3. CASE "ullong" \notin S /\ "llong" \in S
    BY <2>3 DEF Position, IntegerTypes
  <2>4. CASE "ullong" \notin S /\ "llong" \notin S /\ "ulong" \in S
    BY <2>4 DEF Position, IntegerTypes
  <2>5. CASE S \subseteq {"int", "uint", "long"} /\ "long" \in S
    BY <2>5 DEF Position, IntegerTypes
  <2>6. CASE S \subseteq {"int", "uint"} /\ "uint" \in S
    BY <2>6 DEF Position, IntegerTypes
  <2>7. CASE S = {"int"}
    BY <2>7 DEF Position, IntegerTypes
  <2> QED
    BY <2>1, <2>2, <2>3, <2>4, <2>5, <2>6, <2>7 DEF IntegerTypes
<1>2. Least(a, t, S)
  BY <1>1, LastIsLeast
<1>3. p \in S /\ p \in IntegerTypes /\ t \in IntegerTypes /\ Position[p] <= Position[t]
  BY <1>1 DEF OfOperand
<1>4. CASE p \in Narrow
  <2>1. t \in Narrow /\ (p = "int" => t = "int")
    BY <1>4 DEF OfOperand
  <2>2. p = t
    BY <1>3, <1>4, <2>1 DEF Position, Narrow, IntegerTypes
  <2> QED
    BY <1>2, <2>2
<1>5. CASE p \notin Narrow /\ p # t
  <2>1. p \in {"long", "ulong", "llong", "ullong"} /\ t \in {"long", "ulong", "llong", "ullong"}
    BY <1>3, <1>5 DEF Position, Narrow, IntegerTypes
  <2>2. a[p] = a[t]
    BY <2>1, MainTypes
  <2> QED
    BY <1>2, <1>5, <2>2 DEF Alike
<1> QED
  BY <1>2, <1>4, <1>5

(* The inductive invariant of Sums, for each of the two kinds of tables.   *)
LeastInC == AsInC(arch) /\ acc # "none" => acc \in IntegerTypes /\ Least(arch, acc, seen)
LastInMain == AsInMain(arch) /\ acc # "none" => OfOperand(acc, seen)
SumInv == SumTypeOK /\ LeastInC /\ LastInMain

(* One more operand, of whatever type. *)
LEMMA OperandKeeps ==
  ASSUME SumInv, NEW t \in IntegerTypes, Operand(t)
  PROVE  SumInv'
<1>1. /\ arch \in Architectures /\ arch' = arch /\ arch \in Architecture
      /\ seen \in SUBSET IntegerTypes /\ seen' = seen \cup {t} /\ seen' # {}
      /\ acc \in IntegerTypes \cup {"none"} /\ (acc = "none" <=> seen = {})
  BY ArchitecturesAssumption DEF SumInv, SumTypeOK, Operand, Architecture
<1>2. Promoted(arch, t) \in IntegerTypes
  BY DEF Promoted, IntegerTypes
<1>3. CASE acc = "none"
  <2>1. acc' = Promoted(arch, t) /\ seen' = {t}
    BY <1>1, <1>3 DEF Operand
  <2>2. AsInC(arch) => acc' = t /\ Least(arch, t, {t})
    BY <2>1, <1>1, PromotedIsSame DEF Least, FitFor, Architecture, IntegerTypes, Position, ValueBits
  <2>3. AsInMain(arch) => OfOperand(acc', {t})
    BY <2>1, PromotedInMain DEF OfOperand
  <2>4. LeastInC'
    BY <1>1, <2>1, <2>2 DEF LeastInC
  <2>5. LastInMain'
    BY <1>1, <2>1, <2>3 DEF LastInMain
  <2>6. SumTypeOK'
    BY <1>1, <1>2, <2>1 DEF SumTypeOK, IntegerTypes
  <2> QED
    BY <2>4, <2>5, <2>6 DEF SumInv
<1>4. CASE acc \in IntegerTypes
  <2> DEFINE r == Promoted(arch, t)
  <2>1. acc' = CommonRealType(arch, acc, r) /\ acc # "none"
    BY <1>4 DEF Operand, IntegerTypes
  <2>2. acc' \in IntegerTypes \cup {"die"}
    BY <2>1, <1>2, <1>4 DEF CommonRealType, UnsignedOf, IntegerTypes
  <2>3. ASSUME AsInC(arch)
        PROVE  acc' \in IntegerTypes /\ Least(arch, acc', seen')
    <3>1. r = t /\ Least(arch, acc, seen)
      BY <1>1, <2>1, <2>3, PromotedIsSame DEF SumInv, LeastInC
    <3>2. QED
      BY <1>1, <1>4, <2>1, <2>3, <3>1, CommonExtends, CommonIsLeast
  <2>4. ASSUME AsInMain(arch)
        PROVE  OfOperand(acc', seen')
    <3>1. r = t /\ OfOperand(acc, seen)
      BY <2>1, <2>4, PromotedInMain DEF SumInv, LastInMain
    <3> QED
      BY <1>1, <2>1, <2>4, <3>1, OfOperandExtends
  <2>5. acc' # "none"
    BY <2>2 DEF IntegerTypes
  <2>6. LeastInC' /\ LastInMain'
    BY <1>1, <2>3, <2>4 DEF LeastInC, LastInMain
  <2>7. SumTypeOK'
    BY <1>1, <2>2, <2>5 DEF SumTypeOK
  <2> QED
    BY <2>6, <2>7 DEF SumInv
<1>5. QED
  BY <1>1, <1>3, <1>4

(* The invariant implies the property, for both. *)
LEMMA SumsAreLeast == SumInv => SumTypeIsLeast
<1> SUFFICES ASSUME SumInv, acc # "none"
             PROVE  /\ acc \in IntegerTypes
                    /\ \/ Least(arch, acc, seen)
                       \/ acc \in seen /\ \E t \in seen : Alike(arch, acc, t) /\ Least(arch, t, seen)
  BY DEF SumTypeIsLeast
<1>1. AsInC(arch) \/ AsInMain(arch)
  BY ArchitecturesAssumption DEF SumInv, SumTypeOK
<1>2. CASE AsInC(arch)
  BY <1>2 DEF SumInv, LeastInC
<1>3. CASE AsInMain(arch)
  <2>1. seen \in SUBSET IntegerTypes /\ OfOperand(acc, seen)
    BY <1>3 DEF SumInv, SumTypeOK, LastInMain
  <2>2. acc \in seen /\ acc \in IntegerTypes
    BY <2>1 DEF OfOperand
  <2> QED
    BY <1>3, <2>1, <2>2, OfOperandIsLeast
<1> QED
  BY <1>1, <1>2, <1>3

(* The type of an integer constant is an integer type. *)
LEMMA ConstantTypeIsInteger ==
  ASSUME NEW a, NEW k, NEW decimal
  PROVE  ConstantType(a, k, decimal) \in IntegerTypes
<1>1. Able(a, k, decimal) \subseteq 1..6
  BY DEF Able, Tried
<1>2. CASE Able(a, k, decimal) = {}
  BY <1>2 DEF ConstantType, IntegerTypes
<1>3. CASE Able(a, k, decimal) # {}
  <2> DEFINE least(i) == \A j \in Able(a, k, decimal) : i <= j
  <2>1. \E i \in Able(a, k, decimal) : least(i)
    BY <1>1, <1>3
  <2>2. PICK i \in 1..6 : ConstantType(a, k, decimal) = IntTypes[i]
    BY <1>1, <1>3, <2>1 DEF ConstantType
  <2>3. QED
    BY <2>2 DEF IntTypes, IntegerTypes
<1>4. QED
  BY <1>2, <1>3

(* The invariant holds in every reachable state. *)
LEMMA SumsInductive == SumSpec => []SumInv
<1>1. SumInit => SumInv
  BY DEF SumInit, SumInv, SumTypeOK, LeastInC, LastInMain
<1>2. SumInv /\ [SumNext]_sumVars => SumInv'
  <2> SUFFICES ASSUME SumInv, [SumNext]_sumVars PROVE SumInv'
    OBVIOUS
  <2>1. CASE SumNext
    <3>1. ASSUME NEW atom \in Atoms, Declare(atom) PROVE SumInv'
      BY <3>1 DEF Declare, SumInv, SumTypeOK, LeastInC, LastInMain
    <3>2. CASE Variable
      BY <3>2, OperandKeeps DEF Variable
    <3>3. ASSUME NEW k, NEW decimal, Constant(k, decimal) PROVE SumInv'
      BY <3>3, OperandKeeps, ConstantTypeIsInteger DEF Constant
    <3>4. QED
      BY <2>1, <3>1, <3>2, <3>3 DEF SumNext
  <2>2. CASE UNCHANGED sumVars
    BY <2>2 DEF sumVars, sum, SumInv, SumTypeOK, LeastInC, LastInMain
  <2>3. QED
    BY <2>1, <2>2
<1>3. QED
  BY <1>1, <1>2, PTL DEF SumSpec

(* The table of main.c is one of those, whatever a byte has for bits.      *)
LEMMA MainIsCovered ==
  ASSUME NEW byte \in Nat \ {0}
  PROVE  AsInMain(Amd64(byte))
<1>1. Amd64(byte)["int"].width = 4 * byte
  BY DEF Amd64, BaseType, IntegerTypes
<1>2. byte \in 1..Amd64(byte)["int"].width
  BY <1>1
<1> QED
  BY <1>2 DEF AsInMain

(* The type of a sum of any length is the first that is fit for all its    *)
(* operands, in whatever order they come: for every architecture C allows, *)
(* and for the table of main.c up to types that it does not tell apart.    *)
(* commonrealtype never dies.                                              *)
THEOREM TypeOfSum == SumSpec => [](SumTypeOK /\ SumTypeIsLeast)
<1>1. SumInv => SumTypeOK /\ SumTypeIsLeast
  BY SumsAreLeast DEF SumInv
<1> QED
  BY <1>1, SumsInductive, PTL

(* "Performs usual arithmetic conversions" (semant.c:225), whatever the    *)
(* order of the operands.                                                  *)
UsualArithmeticConversions == acc # "none" => acc \in IntegerTypes /\ Least(arch, acc, seen)

(* Where no two types are alike, as C asks, that is all there is to say.   *)
(* On the table of main.c it is not so: ulong + long is long there, and    *)
(* long + ulong is ulong.                                                  *)
THEOREM TypeOfSumInC == SumSpec => [](AsInC(arch) => UsualArithmeticConversions)
<1>1. SumInv /\ AsInC(arch) => UsualArithmeticConversions
  BY DEF SumInv, LeastInC, UsualArithmeticConversions
<1> QED
  BY <1>1, SumsInductive, PTL

(* Whatever is declared in a row, with whatever lists of specifiers: each  *)
(* list is accepted, named and diagnosed as C asks, for the next one too.  *)
THEOREM SpecifiersOfSums == SumSpec => [](RejectedIffNotAllowed /\ OrderFree /\ NeverDies)
<1>1. SumInit => SpecifierInv
  BY InitInductive DEF SumInit
<1>2. SpecifierInv /\ [SumNext]_sumVars => SpecifierInv'
  <2> SUFFICES ASSUME SpecifierInv, [SumNext]_sumVars PROVE SpecifierInv'
    OBVIOUS
  <2>1. ASSUME NEW atom \in Atoms, Declare(atom) PROVE SpecifierInv'
    BY <2>1, NextInductive DEF Declare, Next
  <2>2. CASE Variable
    <3>1. EnterDecl'
      BY <2>2 DEF Variable, EnterDecl
    <3>2. EnterDecl' => SpecifierInv'
      BY InitInductive, PTL
    <3> QED
      BY <3>1, <3>2
  <2>3. ASSUME NEW k, NEW decimal, Constant(k, decimal) PROVE SpecifierInv'
    BY <2>3, NextInductive DEF Constant
  <2>4. CASE UNCHANGED sumVars
    BY <2>4, NextInductive DEF sumVars
  <2> QED
    BY <2>1, <2>2, <2>3, <2>4 DEF SumNext
<1>3. SpecifierInv => RejectedIffNotAllowed /\ OrderFree /\ NeverDies
  <2>1. SpecifierInv => RejectedIffNotAllowed
    BY CanonicalIsNotInvalid DEF SpecifierInv, RejectedIffNotAllowed
  <2>2. SpecifierInv => OrderFree
    BY CanonicalNamesType DEF SpecifierInv, OrderFree
  <2> QED
    BY <2>1, <2>2, HoldsNeverDies
<1> QED
  BY <1>1, <1>2, <1>3, PTL DEF SumSpec

(* What is known of the last constant. *)
LitOK ==
  lit.ty # "none" =>
    /\ lit.k \in Nat /\ lit.k < 2 ^ arch["ullong"].width
    /\ lit.decimal \in BOOLEAN
    /\ lit.ty = ConstantType(arch, lit.k, lit.decimal)

(* The types that can represent k, by their places. *)
LEMMA AbleTypes ==
  ASSUME NEW a, NEW k, NEW decimal \in BOOLEAN, NEW i \in 1..6
  PROVE  /\ IntTypes[i] \in IntegerTypes /\ Position[IntTypes[i]] = i
         /\ i \in Able(a, k, decimal) <=>
              /\ k < 2 ^ ValueBits(a, IntTypes[i])
              /\ decimal => IntTypes[i] \in {"int", "long", "llong"}
<1>1. IntTypes[i] \in IntegerTypes /\ Position[IntTypes[i]] = i
  BY DEF IntTypes, IntegerTypes, Position
<1>2. i % 2 = 1 <=> IntTypes[i] \in {"int", "long", "llong"}
  BY DEF IntTypes
<1>3. i \in Able(a, k, decimal) <=> (decimal => i % 2 = 1) /\ k < 2 ^ ValueBits(a, IntTypes[i])
  BY DEF Able, Tried
<1> QED
  BY <1>1, <1>2, <1>3

(* A number of few bits is one of more bits. *)
LEMMA PowersGrow ==
  ASSUME NEW m \in Nat, NEW n \in Nat, m <= n, NEW k \in Nat, k < 2 ^ m
  PROVE  k < 2 ^ n
<1>1. IsFiniteSet(1..m) /\ Cardinality(1..m) = m /\ IsFiniteSet(1..n) /\ Cardinality(1..n) = n
  BY FS_Interval
<1>2. /\ IsFiniteSet(SUBSET (1..m)) /\ Cardinality(SUBSET (1..m)) = 2 ^ m
      /\ IsFiniteSet(SUBSET (1..n)) /\ Cardinality(SUBSET (1..n)) = 2 ^ n
  <2>1. IsFiniteSet(SUBSET (1..m)) /\ Cardinality(SUBSET (1..m)) = 2 ^ Cardinality(1..m)
    BY <1>1, FS_SUBSET
  <2>2. IsFiniteSet(SUBSET (1..n)) /\ Cardinality(SUBSET (1..n)) = 2 ^ Cardinality(1..n)
    BY <1>1, FS_SUBSET
  <2> QED
    BY <1>1, <2>1, <2>2
<1>3. SUBSET (1..m) \in SUBSET (SUBSET (1..n))
  <2>1. 1..m \subseteq 1..n
    OBVIOUS
  <2> QED
    BY <2>1
<1>4. Cardinality(SUBSET (1..m)) <= Cardinality(SUBSET (1..n))
  BY <1>2, <1>3, FS_Subset
<1>5. Cardinality(SUBSET (1..m)) \in Nat /\ Cardinality(SUBSET (1..n)) \in Nat
  BY <1>2, FS_CardinalityType
<1> PICK x, y : x = 2 ^ m /\ y = 2 ^ n
  OBVIOUS
<1>6. x \in Nat /\ y \in Nat /\ x <= y /\ k < x
  BY <1>2, <1>4, <1>5
<1> QED
  BY <1>6

(* Whether a type can represent k. *)
CanHold(a, k, t) == k < 2 ^ ValueBits(a, t)

(* In C every constant fits ullong; on the table of main.c one that fits   *)
(* any type fits long, llong and ullong.                                   *)
LEMMA FitsOnTables ==
  ASSUME NEW a \in Architecture, AsInC(a) \/ AsInMain(a),
         NEW k \in Nat, k < 2 ^ a["ullong"].width
  PROVE  /\ a["ullong"].sign = 0 => CanHold(a, k, "ullong")
         /\ a["ullong"].sign = 1 => \A t \in IntegerTypes : CanHold(a, k, t) => CanHold(a, k, "ullong")
<1>1. CASE AsInC(a)
  <2>1. a["ullong"].sign = 0 /\ ValueBits(a, "ullong") = a["ullong"].width
    BY <1>1 DEF AsInC, ValueBits, Architecture, IntegerTypes
  <2> QED
    BY <2>1 DEF CanHold
<1>2. CASE AsInMain(a)
  <2>1. PICK byte \in Nat \ {0} :
          /\ a["int"] = [rank |-> 32, width |-> 4 * byte, sign |-> 1]
          /\ a["uint"] = [rank |-> 32, width |-> 4 * byte, sign |-> 0]
          /\ \A u \in {"long", "ulong", "llong", "ullong"} :
               a[u] = [rank |-> 64, width |-> 8 * byte, sign |-> 1]
    BY <1>2, MainTypes
  <2>2. /\ a["ullong"].sign = 1
        /\ ValueBits(a, "int") = 4 * byte - 1 /\ ValueBits(a, "uint") = 4 * byte
        /\ \A u \in {"long", "ulong", "llong", "ullong"} : ValueBits(a, u) = 8 * byte - 1
    BY <2>1 DEF ValueBits
  <2>3. \A t \in IntegerTypes :
          ValueBits(a, t) \in Nat /\ ValueBits(a, t) <= ValueBits(a, "ullong")
    BY <2>2 DEF IntegerTypes
  <2>4. ASSUME NEW t \in IntegerTypes, CanHold(a, k, t) PROVE CanHold(a, k, "ullong")
    <3>1. PICK m, n : m = ValueBits(a, t) /\ n = ValueBits(a, "ullong")
      OBVIOUS
    <3>2. m \in Nat /\ n \in Nat /\ m <= n /\ k < 2 ^ m
      BY <2>3, <2>4, <3>1 DEF CanHold, IntegerTypes
    <3>3. k < 2 ^ n
      BY <3>2, PowersGrow
    <3> QED
      BY <3>1, <3>3 DEF CanHold
  <2> QED
    BY <2>2, <2>4
<1> QED
  BY <1>1, <1>2

(* The type that iconsttype finds holds the constant, and of C's           *)
(* candidates that do it is the first; if no type holds it, it is ullong.  *)
LEMMA ConstantTypeFacts ==
  ASSUME NEW a \in Architecture, AsInC(a) \/ AsInMain(a),
         NEW k \in Nat, k < 2 ^ a["ullong"].width,
         NEW decimal \in BOOLEAN, NEW ty, ty = ConstantType(a, k, decimal)
  PROVE  /\ (\A t \in IntegerTypes : ~CanHold(a, k, t)) => a["ullong"].sign = 1 /\ ty = "ullong"
         /\ (\E t \in IntegerTypes : CanHold(a, k, t)) => ty \in IntegerTypes /\ CanHold(a, k, ty)
         /\ \A t \in IntegerTypes :
              CanHold(a, k, t) /\ (decimal => t \in {"int", "long", "llong"})
              => Position[ty] <= Position[t]
<1>0. a["ullong"].sign \in {0, 1} /\ "ullong" \in IntegerTypes
  BY DEF Architecture, IntegerTypes
<1>1. PICK able : able = Able(a, k, decimal)
  OBVIOUS
<1>2. able \subseteq 1..6
  BY <1>1 DEF Able, Tried
<1>3. ASSUME NEW t \in IntegerTypes, CanHold(a, k, t),
             decimal => t \in {"int", "long", "llong"}
      PROVE  Position[t] \in able
  <2>1. PICK i \in 1..6 : t = IntTypes[i]
    BY DEF IntegerTypes, IntTypes
  <2> QED
    BY <1>1, <1>3, <2>1, AbleTypes DEF CanHold
<1>4. CASE able = {}
  <2>1. ty = "ullong"
    BY <1>1, <1>4 DEF ConstantType
  <2> QED
    BY <1>0, <1>3, <1>4, <2>1, FitsOnTables
<1>5. CASE able # {}
  <2>1. able \in SUBSET Nat
    BY <1>2
  <2>2. \E i \in able : \A j \in able : i <= j
    BY <1>5, <2>1, HasLeast
  <2>3. PICK i : i = CHOOSE n \in able : \A j \in able : n <= j
    OBVIOUS
  <2>4. i \in able /\ \A j \in able : i <= j
    BY <2>2, <2>3
  <2>5. ty = IntTypes[i]
    BY <1>1, <1>5, <2>3 DEF ConstantType
  <2>6. i \in 1..6 /\ i \in Able(a, k, decimal)
    BY <1>1, <1>2, <2>4
  <2>7. ty \in IntegerTypes /\ Position[ty] = i /\ CanHold(a, k, ty)
    BY <2>5, <2>6, AbleTypes DEF CanHold
  <2> QED
    BY <1>3, <2>4, <2>7
<1> QED
  BY <1>4, <1>5

(* The comment of iconsttype, for every architecture C allows and for the  *)
(* table of main.c: the type of a constant is the first one that can       *)
(* represent it, and ullong if none can.                                   *)
THEOREM ConstantTypesAreAble == SumSpec => []ConstantTypeIsAble
<1>1. SumInit => LitOK
  BY DEF SumInit, LitOK, NoConstant
<1>2. LitOK /\ [SumNext]_sumVars => LitOK'
  <2> SUFFICES ASSUME LitOK, [SumNext]_sumVars PROVE LitOK'
    OBVIOUS
  <2>1. ASSUME NEW atom \in Atoms, Declare(atom) PROVE LitOK'
    BY <2>1 DEF Declare, LitOK, NoConstant
  <2>2. CASE Variable
    BY <2>2 DEF Variable, LitOK, NoConstant
  <2>3. ASSUME NEW k \in Constants, NEW decimal \in BOOLEAN,
               k < 2 ^ arch["ullong"].width, Constant(k, decimal)
        PROVE  LitOK'
    <3>1. PICK ty : ty = ConstantType(arch, k, decimal)
      OBVIOUS
    <3>2. lit' = [k |-> k, decimal |-> decimal, ty |-> ty] /\ arch' = arch
      BY <2>3, <3>1 DEF Constant, Operand
    <3>3. lit'.k = k /\ lit'.decimal = decimal /\ lit'.ty = ty /\ k \in Nat
      BY <3>2, ArchitecturesAssumption
    <3> QED
      BY <2>3, <3>1, <3>2, <3>3 DEF LitOK
  <2>4. CASE UNCHANGED sumVars
    BY <2>4 DEF sumVars, sum, LitOK
  <2> QED
    BY <2>1, <2>2, <2>3, <2>4 DEF SumNext
<1>3. ASSUME SumInv, LitOK PROVE ConstantTypeIsAble
  <2> SUFFICES ASSUME lit.ty # "none" PROVE ConstantTypeIsAble
    BY DEF ConstantTypeIsAble
  <2>1. arch \in Architecture /\ (AsInC(arch) \/ AsInMain(arch))
    BY <1>3, ArchitecturesAssumption DEF SumInv, SumTypeOK, Architecture
  <2>2. /\ lit.k \in Nat /\ lit.k < 2 ^ arch["ullong"].width /\ lit.decimal \in BOOLEAN
        /\ lit.ty = ConstantType(arch, lit.k, lit.decimal)
    BY <1>3 DEF LitOK
  <2>3. PICK k, ty, decimal : k = lit.k /\ ty = lit.ty /\ decimal = lit.decimal
    OBVIOUS
  <2>4. /\ (\A t \in IntegerTypes : ~CanHold(arch, k, t)) => arch["ullong"].sign = 1 /\ ty = "ullong"
        /\ (\E t \in IntegerTypes : CanHold(arch, k, t)) => ty \in IntegerTypes /\ CanHold(arch, k, ty)
        /\ \A t \in IntegerTypes :
             CanHold(arch, k, t) /\ (decimal => t \in {"int", "long", "llong"})
             => Position[ty] <= Position[t]
    BY <2>1, <2>2, <2>3, ConstantTypeFacts
  <2> QED
    BY <2>3, <2>4 DEF ConstantTypeIsAble, CanHold
<1> QED
  BY <1>1, <1>2, <1>3, SumsInductive, PTL DEF SumSpec
-----------------------------------------------------------------------------
(* Numbers and words. *)

(* The lengths of words, in bits. *)
Word == {4, 8}

(* Words x and y agree in their low w bits. *)
Same(w, x, y) == Low(w, x) = Low(w, y)

(* The types of trees; ulong is that of a scaled index before it is added. *)
Types == {"int", "uint", "long", "ulong"} \cup Pointers

(* The numbers of a type, as the meaning of an expression has them. *)
Values(ty) ==
  IF ty = "int" THEN -8..7 ELSE IF ty = "uint" THEN 0..15
  ELSE IF ty \in Pointers THEN 0..255 ELSE -128..127

(* The types on the scaled processor. *)
LEMMA TypeFacts ==
  /\ Width("int") = 4 /\ Signed("int") /\ IsInt("int") /\ ~IsPtr("int")
  /\ Width("uint") = 4 /\ ~Signed("uint") /\ IsInt("uint") /\ ~IsPtr("uint")
  /\ Width("long") = 8 /\ Signed("long") /\ IsInt("long") /\ ~IsPtr("long")
  /\ Width("ulong") = 8 /\ Signed("ulong") /\ IsInt("ulong") /\ ~IsPtr("ulong")
  /\ Width("int*") = 8 /\ ~Signed("int*") /\ ~IsInt("int*") /\ IsPtr("int*")
  /\ Width("void*") = 8 /\ ~Signed("void*") /\ ~IsInt("void*") /\ IsPtr("void*")
  BY DEF Width, Signed, IsInt, IsPtr, Pointers, Arch, Amd64, BaseType, IntegerTypes

(* Promotion leaves these types alone, and the common type of two of them  *)
(* is the longer one, or the unsigned one.                                 *)
LEMMA CommonFacts ==
  /\ \A t \in {"int", "uint", "long"} : Promoted(Arch, t) = t /\ CommonRealType(Arch, t, t) = t
  /\ \A t \in {"int", "uint"} : /\ CommonRealType(Arch, t, "long") = "long"
                                /\ CommonRealType(Arch, "long", t) = "long"
  /\ CommonRealType(Arch, "int", "uint") = "uint"
  /\ CommonRealType(Arch, "uint", "int") = "uint"
  <1>1. /\ Arch["int"] = [rank |-> 32, width |-> 4, sign |-> 1]
        /\ Arch["uint"] = [rank |-> 32, width |-> 4, sign |-> 0]
        /\ Arch["long"] = [rank |-> 64, width |-> 8, sign |-> 1]
    BY DEF Arch, Amd64, BaseType, IntegerTypes
  <1> QED
    BY <1>1 DEF Promoted, ValueBits, CommonRealType

(* Words of 4 bits that agree differ by a multiple of 16. *)
LEMMA Same4 ==
  ASSUME NEW x \in Int, NEW y \in Int
  PROVE  Same(4, x, y) <=> \E q \in Int : x = y + 16 * q
  <1>1. ASSUME x % 16 = y % 16 PROVE \E q \in Int : x = y + 16 * q
    BY <1>1
  <1>2. ASSUME NEW q \in Int, x = y + 16 * q PROVE x % 16 = y % 16
    BY <1>2
  <1>3. Low(4, x) = x % 16 /\ Low(4, y) = y % 16
    BY DEF Low
  <1> QED
    BY <1>1, <1>2, <1>3 DEF Same

(* The low bits, and as a signed number. *)
LEMMA Low4 ==
  ASSUME NEW x \in Int
  PROVE  Low(4, x) \in 0..15 /\ \E q \in Int : x = Low(4, x) + 16 * q
  <1>1. Low(4, x) = x % 16
    BY DEF Low
  <1>2. x % 16 \in 0..15 /\ \E q \in Int : x = (x % 16) + 16 * q
    OBVIOUS
  <1> QED
    BY <1>1, <1>2

(* A word of 4 bits as a signed number differs from it by a multiple of    *)
(* 16.                                                                     *)
LEMMA Signed4 ==
  ASSUME NEW x \in Int
  PROVE  AsSigned(4, x) \in -8..7 /\ \E q \in Int : x = AsSigned(4, x) + 16 * q
  <1>1. PICK q \in Int : x = Low(4, x) + 16 * q
    BY Low4
  <1>2. AsSigned(4, x) = IF Low(4, x) >= 8 THEN Low(4, x) - 16 ELSE Low(4, x)
    BY DEF AsSigned
  <1>3. Low(4, x) \in 0..15
    BY Low4
  <1>4. CASE Low(4, x) >= 8
    <2>1. AsSigned(4, x) = Low(4, x) - 16
      BY <1>2, <1>4
    <2>2. x = AsSigned(4, x) + 16 * (q + 1) /\ q + 1 \in Int
      BY <1>1, <1>3, <2>1
    <2>3. AsSigned(4, x) \in -8..7
      BY <1>3, <1>4, <2>1
    <2> QED
      BY <2>2, <2>3
  <1>5. CASE ~(Low(4, x) >= 8)
    <2>1. AsSigned(4, x) = Low(4, x)
      BY <1>2, <1>5
    <2>2. Low(4, x) \in -8..7
      BY <1>3, <1>5
    <2> QED
      BY <1>1, <2>1, <2>2
  <1> QED
    BY <1>4, <1>5

(* Words of 8 bits that agree differ by a multiple of 256. *)
LEMMA Same8 ==
  ASSUME NEW x \in Int, NEW y \in Int
  PROVE  Same(8, x, y) <=> \E q \in Int : x = y + 256 * q
  <1>1. ASSUME x % 256 = y % 256 PROVE \E q \in Int : x = y + 256 * q
    BY <1>1
  <1>2. ASSUME NEW q \in Int, x = y + 256 * q PROVE x % 256 = y % 256
    BY <1>2
  <1>3. Low(8, x) = x % 256 /\ Low(8, y) = y % 256
    BY DEF Low
  <1> QED
    BY <1>1, <1>2, <1>3 DEF Same

(* The low bits, and as a signed number. *)
LEMMA Low8 ==
  ASSUME NEW x \in Int
  PROVE  Low(8, x) \in 0..255 /\ \E q \in Int : x = Low(8, x) + 256 * q
  <1>1. Low(8, x) = x % 256
    BY DEF Low
  <1>2. x % 256 \in 0..255 /\ \E q \in Int : x = (x % 256) + 256 * q
    OBVIOUS
  <1> QED
    BY <1>1, <1>2

(* A word of 8 bits as a signed number differs from it by a multiple of    *)
(* 256.                                                                    *)
LEMMA Signed8 ==
  ASSUME NEW x \in Int
  PROVE  AsSigned(8, x) \in -128..127 /\ \E q \in Int : x = AsSigned(8, x) + 256 * q
  <1>1. PICK q \in Int : x = Low(8, x) + 256 * q
    BY Low8
  <1>2. AsSigned(8, x) = IF Low(8, x) >= 128 THEN Low(8, x) - 256 ELSE Low(8, x)
    BY DEF AsSigned
  <1>3. Low(8, x) \in 0..255
    BY Low8
  <1>4. CASE Low(8, x) >= 128
    <2>1. AsSigned(8, x) = Low(8, x) - 256
      BY <1>2, <1>4
    <2>2. x = AsSigned(8, x) + 256 * (q + 1) /\ q + 1 \in Int
      BY <1>1, <1>3, <2>1
    <2>3. AsSigned(8, x) \in -128..127
      BY <1>3, <1>4, <2>1
    <2> QED
      BY <2>2, <2>3
  <1>5. CASE ~(Low(8, x) >= 128)
    <2>1. AsSigned(8, x) = Low(8, x)
      BY <1>2, <1>5
    <2>2. Low(8, x) \in -128..127
      BY <1>3, <1>5
    <2> QED
      BY <1>1, <2>1, <2>2
  <1> QED
    BY <1>4, <1>5

(* Agreement is an equivalence. *)
LEMMA SameRefl == \A w, x : Same(w, x, x)
  BY DEF Same

(* Agreement is symmetric. *)
LEMMA SameSym == \A w, x, y : Same(w, x, y) => Same(w, y, x)
  BY DEF Same

(* Agreement is transitive. *)
LEMMA SameTrans == \A w, x, y, z : Same(w, x, y) /\ Same(w, y, z) => Same(w, x, z)
  BY DEF Same

(* What is left of a number in a register agrees with the number. *)
LEMMA LowFacts ==
  ASSUME NEW w \in Word, NEW x \in Int
  PROVE  /\ Low(w, x) \in 0..255 /\ Low(w, x) \in Int /\ (w = 4 => Low(w, x) \in 0..15)
         /\ Same(w, Low(w, x), x) /\ Same(w, x, Low(w, x))
  <1>1. CASE w = 4
    <2>1. Low(4, x) \in 0..15 /\ Low(4, x) \in Int
      BY Low4
    <2>2. \E q \in Int : x = Low(4, x) + 16 * q
      BY Low4
    <2>3. Same(4, x, Low(4, x))
      BY <2>1, <2>2, Same4
    <2> QED
      BY <1>1, <2>1, <2>3, SameSym
  <1>2. CASE w = 8
    <2>1. Low(8, x) \in 0..255 /\ Low(8, x) \in Int
      BY Low8
    <2>2. \E q \in Int : x = Low(8, x) + 256 * q
      BY Low8
    <2>3. Same(8, x, Low(8, x))
      BY <2>1, <2>2, Same8
    <2> QED
      BY <1>2, <2>1, <2>3, SameSym
  <1> QED
    BY <1>1, <1>2 DEF Word

(* Words that agree agree in their halves. *)
LEMMA SameHalf ==
  ASSUME NEW w \in Word, NEW v \in Word, v <= w, NEW x \in Int, NEW y \in Int, Same(w, x, y)
  PROVE  Same(v, x, y)
  <1>1. ASSUME Same(8, x, y) PROVE Same(4, x, y)
    <2>1. PICK q \in Int : x = y + 256 * q
      BY <1>1, Same8
    <2>2. x = y + 16 * (16 * q) /\ 16 * q \in Int
      BY <2>1
    <2> QED
      BY <2>2, Same4
  <1> QED
    BY <1>1 DEF Word

(* Two numbers of 4 bits that agree are the same. *)
LEMMA Near4 ==
  ASSUME NEW x \in Int, NEW y \in Int, Same(4, x, y)
  PROVE  /\ x \in 0..15 /\ y \in 0..15 => x = y
         /\ x \in -8..7 /\ y \in -8..7 => x = y
  <1>1. PICK q \in Int : x = y + 16 * q
    BY Same4
  <1> QED
    BY <1>1

(* Two numbers of 8 bits that agree are the same. *)
LEMMA Near8 ==
  ASSUME NEW x \in Int, NEW y \in Int, Same(8, x, y)
  PROVE  /\ x \in 0..255 /\ y \in 0..255 => x = y
         /\ x \in -128..127 /\ y \in -128..127 => x = y
  <1>1. PICK q \in Int : x = y + 256 * q
    BY Same8
  <1> QED
    BY <1>1

(* A register read as a signed number agrees with it. *)
LEMMA SignedFacts ==
  ASSUME NEW w \in Word, NEW x \in Int
  PROVE  /\ AsSigned(w, x) \in Int /\ AsSigned(w, x) \in -128..127
         /\ w = 4 => AsSigned(w, x) \in -8..7
         /\ Same(w, AsSigned(w, x), x) /\ Same(w, x, AsSigned(w, x))
  <1>1. CASE w = 4
    <2>1. AsSigned(4, x) \in -8..7 /\ AsSigned(4, x) \in Int
      BY Signed4
    <2>2. \E q \in Int : x = AsSigned(4, x) + 16 * q
      BY Signed4
    <2>3. Same(4, x, AsSigned(4, x))
      BY <2>1, <2>2, Same4
    <2> QED
      BY <1>1, <2>1, <2>3, SameSym
  <1>2. CASE w = 8
    <2>1. AsSigned(8, x) \in -128..127 /\ AsSigned(8, x) \in Int
      BY Signed8
    <2>2. \E q \in Int : x = AsSigned(8, x) + 256 * q
      BY Signed8
    <2>3. Same(8, x, AsSigned(8, x))
      BY <2>1, <2>2, Same8
    <2> QED
      BY <1>2, <2>1, <2>3, SameSym
  <1> QED
    BY <1>1, <1>2 DEF Word

(* The numbers of a type are integers, and 0 is one of them. *)
LEMMA ValuesInt ==
  ASSUME NEW ty \in Types
  PROVE  Values(ty) \subseteq Int /\ 0 \in Values(ty) /\ Width(ty) \in Word
  BY TypeFacts DEF Values, Types, Pointers, Word

(* A number of a type is determined by its word. *)
LEMMA ValuesUnique ==
  ASSUME NEW ty \in Types, NEW x \in Values(ty), NEW y \in Values(ty), Same(Width(ty), x, y)
  PROVE  x = y
  <1>1. x \in Int /\ y \in Int
    BY ValuesInt
  <1>2. CASE ty = "int"
    BY <1>1, <1>2, TypeFacts, Near4 DEF Values
  <1>3. CASE ty = "uint"
    BY <1>1, <1>3, TypeFacts, Near4 DEF Values
  <1>4. CASE ty \in {"long", "ulong"}
    BY <1>1, <1>4, TypeFacts, Near8 DEF Values, Pointers
  <1>5. CASE ty \in Pointers
    BY <1>1, <1>5, TypeFacts, Near8 DEF Values, Pointers
  <1> QED
    BY <1>2, <1>3, <1>4, <1>5 DEF Types

(* A number made one of a type has its low bits, and is itself if it is    *)
(* one already.                                                            *)
LEMMA ToTypeFacts ==
  ASSUME NEW ty \in Types, NEW x \in Int
  PROVE  /\ ToType(ty, x) \in Values(ty) /\ ToType(ty, x) \in Int
         /\ Same(Width(ty), ToType(ty, x), x) /\ Same(Width(ty), x, ToType(ty, x))
         /\ x \in Values(ty) => ToType(ty, x) = x
  <1>1. ToType(ty, x) \in Values(ty) /\ Same(Width(ty), ToType(ty, x), x)
    <2>1. CASE ty = "int"
      BY <2>1, TypeFacts, SignedFacts DEF ToType, Values, Word
    <2>2. CASE ty = "uint"
      BY <2>2, TypeFacts, LowFacts DEF ToType, Values, Word
    <2>3. CASE ty \in {"long", "ulong"}
      BY <2>3, TypeFacts, SignedFacts DEF ToType, Values, Word, Pointers
    <2>4. CASE ty \in Pointers
      BY <2>4, TypeFacts, LowFacts DEF ToType, Values, Word, Pointers
    <2> QED
      BY <2>1, <2>2, <2>3, <2>4 DEF Types
  <1>2. ToType(ty, x) \in Int
    BY <1>1, ValuesInt
  <1> QED
    BY <1>1, <1>2, ValuesUnique, SameSym

(* The conversion to a type depends on the word alone. *)
LEMMA ToTypeSame ==
  ASSUME NEW ty \in Types, NEW x \in Int, NEW y \in Int, Same(Width(ty), x, y)
  PROVE  ToType(ty, x) = ToType(ty, y)
  BY DEF ToType, AsSigned, Same

(* Agreement is kept by the operators of the processor. *)
LEMMA SumsAgree ==
  ASSUME NEW w \in Word, NEW x \in Int, NEW y \in Int, NEW u \in Int, NEW v \in Int,
         Same(w, x, y), Same(w, u, v)
  PROVE  Same(w, x + u, y + v) /\ Same(w, x - u, y - v)
  <1>1. CASE w = 4
    <2>1. PICK p \in Int : x = y + 16 * p
      BY <1>1, Same4
    <2>2. PICK q \in Int : u = v + 16 * q
      BY <1>1, Same4
    <2>3. x + u = (y + v) + 16 * (p + q) /\ x - u = (y - v) + 16 * (p - q)
      BY <2>1, <2>2
    <2>4. p + q \in Int /\ p - q \in Int /\ x + u \in Int /\ x - u \in Int /\ y + v \in Int /\ y - v \in Int
      OBVIOUS
    <2> QED
      BY <1>1, <2>3, <2>4, Same4
  <1>2. CASE w = 8
    <2>1. PICK p \in Int : x = y + 256 * p
      BY <1>2, Same8
    <2>2. PICK q \in Int : u = v + 256 * q
      BY <1>2, Same8
    <2>3. x + u = (y + v) + 256 * (p + q) /\ x - u = (y - v) + 256 * (p - q)
      BY <2>1, <2>2
    <2>4. p + q \in Int /\ p - q \in Int /\ x + u \in Int /\ x - u \in Int /\ y + v \in Int /\ y - v \in Int
      OBVIOUS
    <2>5. p + q \in Int /\ p - q \in Int
      BY <2>4
    <2>6. Same(8, x + u, y + v)
      BY <2>3, <2>4, <2>5, Same8
    <2>7. Same(8, x - u, y - v)
      BY <2>3, <2>4, <2>5, Same8
    <2> QED
      BY <1>2, <2>6, <2>7
  <1> QED
    BY <1>1, <1>2 DEF Word

(* neg and not of words that agree agree; not is -x - 1. *)
LEMMA NegationsAgree ==
  ASSUME NEW w \in Word, NEW x \in Int, NEW y \in Int, Same(w, x, y)
  PROVE  Same(w, -x, -y) /\ Same(w, 2 ^ w - 1 - x, -y - 1) /\ 2 ^ w - 1 - x \in Int
  <1>1. CASE w = 4
    <2>1. PICK p \in Int : x = y + 16 * p
      BY <1>1, Same4
    <2>2. 2 ^ w - 1 - x = 15 - x
      BY <1>1
    <2>3. -x = -y + 16 * (-p) /\ 15 - x = (-y - 1) + 16 * (1 - p)
      BY <2>1
    <2>4. -p \in Int /\ 1 - p \in Int /\ -x \in Int /\ -y \in Int /\ 15 - x \in Int /\ -y - 1 \in Int
      OBVIOUS
    <2>5. Same(4, -x, -y)
      BY <2>3, <2>4, Same4
    <2>6. Same(4, 15 - x, -y - 1)
      BY <2>3, <2>4, Same4
    <2> QED
      BY <1>1, <2>2, <2>4, <2>5, <2>6
  <1>2. CASE w = 8
    <2>1. PICK p \in Int : x = y + 256 * p
      BY <1>2, Same8
    <2>2. 2 ^ w - 1 - x = 255 - x
      BY <1>2
    <2>3. -x = -y + 256 * (-p) /\ 255 - x = (-y - 1) + 256 * (1 - p)
      BY <2>1
    <2>4. -p \in Int /\ 1 - p \in Int /\ -x \in Int /\ -y \in Int /\ 255 - x \in Int /\ -y - 1 \in Int
      OBVIOUS
    <2>5. Same(8, -x, -y)
      BY <2>3, <2>4, Same8
    <2>6. Same(8, 255 - x, -y - 1)
      BY <2>3, <2>4, Same8
    <2> QED
      BY <1>2, <2>2, <2>4, <2>5, <2>6
  <1> QED
    BY <1>1, <1>2 DEF Word

(* The products of words that agree agree: mul is right for both signs. *)
LEMMA ProductsAgree ==
  ASSUME NEW w \in Word, NEW x \in Int, NEW y \in Int, NEW u \in Int, NEW v \in Int,
         Same(w, x, y), Same(w, u, v)
  PROVE  Same(w, x * u, y * v)
  <1> DEFINE r(M, p, q) == y * q + p * v + M * p * q
  <1>1. \A p, q \in Int : r(16, p, q) \in Int /\ r(256, p, q) \in Int
    OBVIOUS
  <1>2. x * u \in Int /\ y * v \in Int
    OBVIOUS
  <1>3. CASE w = 4
    <2>1. PICK p \in Int : x = y + 16 * p
      BY <1>3, Same4
    <2>2. PICK q \in Int : u = v + 16 * q
      BY <1>3, Same4
    <2>3. x * u = y * v + 16 * r(16, p, q)
      BY <2>1, <2>2
    <2>4. r(16, p, q) \in Int
      BY <1>1
    <2> HIDE DEF r
    <2> QED
      BY <1>2, <1>3, <2>3, <2>4, Same4
  <1>4. CASE w = 8
    <2>1. PICK p \in Int : x = y + 256 * p
      BY <1>4, Same8
    <2>2. PICK q \in Int : u = v + 256 * q
      BY <1>4, Same8
    <2>3. x * u = y * v + 256 * r(256, p, q)
      BY <2>1, <2>2
    <2>4. r(256, p, q) \in Int
      BY <1>1
    <2> HIDE DEF r
    <2> QED
      BY <1>2, <1>4, <2>3, <2>4, Same8
  <1> QED
    BY <1>3, <1>4 DEF Word

-----------------------------------------------------------------------------
(* Runs of the processor. *)

(* The states of the processor while it executes c from m. *)
IsRun(f, c, m, n) == f = [k \in 0..n |-> IF k = 0 THEN m ELSE Execute(f[k - 1], c[k])]

(* The states of a run: the first, and each after its predecessor. *)
LEMMA RunShape ==
  ASSUME NEW f, NEW c, NEW m, NEW n \in Nat, IsRun(f, c, m, n)
  PROVE  /\ DOMAIN f = 0..n /\ f[0] = m
         /\ \A k \in 1..n : f[k] = Execute(f[k - 1], c[k])
  <1> DEFINE e(k) == IF k = 0 THEN m ELSE Execute(f[k - 1], c[k])
  <1>1. f = [k \in 0..n |-> e(k)]
    BY DEF IsRun
  <1>2. \A k \in 0..n : f[k] = e(k)
    BY <1>1
  <1>3. DOMAIN f = 0..n
    BY <1>1
  <1> QED
    BY <1>2, <1>3

(* A run of any length exists, since each state follows from the last. *)
LEMMA RunExists ==
  ASSUME NEW c, NEW m, NEW n \in Nat
  PROVE  \E f : IsRun(f, c, m, n)
  <1> DEFINE G == {i \in 0..n : \E f : IsRun(f, c, m, i)}
  <1>1. ASSUME NEW i \in 0..n, i = 0 \/ i - 1 \in G PROVE i \in G
    <2>1. CASE i = 0
      <3> DEFINE f == [k \in 0..0 |-> m]
      <3>1. IsRun(f, c, m, 0)
        BY DEF IsRun
      <3> HIDE DEF f
      <3> QED
        BY <2>1, <3>1
    <2>2. CASE i # 0
      <3>1. PICK f : IsRun(f, c, m, i - 1)
        BY <1>1, <2>2
      <3>2. i - 1 \in Nat
        BY <2>2
      <3>3. f[0] = m /\ \A k \in 1..(i - 1) : f[k] = Execute(f[k - 1], c[k])
        BY <3>1, <3>2, RunShape
      <3> DEFINE g == [k \in 0..i |-> IF k = i THEN Execute(f[i - 1], c[i]) ELSE f[k]]
                 h == [k \in 0..i |-> IF k = 0 THEN m ELSE Execute(g[k - 1], c[k])]
      <3>4. ASSUME NEW k \in 0..i PROVE g[k] = h[k]
        <4>1. CASE k = 0
          BY <2>2, <3>3, <4>1
        <4>2. CASE k # 0
          <5>1. k - 1 \in 0..i /\ k - 1 # i
            BY <4>2
          <5>2. g[k - 1] = f[k - 1]
            BY <5>1
          <5>3. h[k] = Execute(f[k - 1], c[k])
            BY <4>2, <5>2
          <5>4. k # i => k \in 1..(i - 1)
            BY <4>2
          <5> QED
            BY <3>3, <5>3, <5>4
        <4> QED
          BY <4>1, <4>2
      <3>5. g = h
        BY <3>4
      <3>6. IsRun(g, c, m, i)
        BY <3>5 DEF IsRun
      <3> HIDE DEF g, h
      <3> QED
        BY <3>6
    <2> QED
      BY <2>1, <2>2
  <1> HIDE DEF G
  <1>2. \A i \in 0..n : i \in G
    BY <1>1, UpTo
  <1>3. n \in G
    BY <1>2
  <1> QED
    BY <1>3 DEF G

(* Executed is the last state of a run. *)
LEMMA ExecutedRun ==
  ASSUME NEW c, NEW m, Len(c) \in Nat
  PROVE  \E f : IsRun(f, c, m, Len(c)) /\ Executed(c, m) = f[Len(c)]
  <1> DEFINE after == CHOOSE f : IsRun(f, c, m, Len(c))
  <1>1. IsRun(after, c, m, Len(c))
    BY RunExists
  <1>2. Executed(c, m) = after[Len(c)]
    BY DEF Executed, IsRun
  <1> HIDE DEF after
  <1> QED
    BY <1>1, <1>2

(* Two runs agree as far as their code and their first state do. *)
LEMMA RunsAgree ==
  ASSUME NEW f, NEW g, NEW c, NEW d, NEW m, NEW n \in Nat, NEW p \in Nat, NEW q \in Nat,
         n <= p, n <= q, IsRun(f, c, m, p), IsRun(g, d, m, q),
         \A k \in 1..n : c[k] = d[k]
  PROVE  f[n] = g[n]
  <1> DEFINE G == {i \in 0..n : f[i] = g[i]}
  <1>1. f[0] = m /\ g[0] = m
    BY RunShape
  <1>2. \A k \in 1..n : f[k] = Execute(f[k - 1], c[k]) /\ g[k] = Execute(g[k - 1], d[k])
    <2>1. \A k \in 1..p : f[k] = Execute(f[k - 1], c[k])
      BY RunShape
    <2>2. \A k \in 1..q : g[k] = Execute(g[k - 1], d[k])
      BY RunShape
    <2> QED
      BY <2>1, <2>2
  <1>3. ASSUME NEW i \in 0..n, i = 0 \/ i - 1 \in G PROVE i \in G
    <2>1. CASE i = 0
      BY <1>1, <2>1
    <2>2. CASE i # 0
      <3>1. f[i - 1] = g[i - 1] /\ i \in 1..n
        BY <1>3, <2>2
      <3> QED
        BY <1>2, <3>1
    <2> QED
      BY <2>1, <2>2
  <1> HIDE DEF G
  <1>4. \A i \in 0..n : i \in G
    BY <1>3, UpTo
  <1>5. n \in G
    BY <1>4
  <1> QED
    BY <1>5 DEF G

(* Nothing, and one more instruction. *)
LEMMA ExecutedNone == \A m : Executed(<<>>, m) = m
  <1> TAKE m
  <1>1. PICK f : IsRun(f, <<>>, m, 0) /\ Executed(<<>>, m) = f[0]
    BY ExecutedRun
  <1> QED
    BY <1>1, RunShape

(* The instruction at the end of a code is executed after the others. *)
LEMMA ExecutedAppend ==
  ASSUME NEW S, NEW c \in Seq(S), NEW i \in S, NEW m
  PROVE  Executed(Append(c, i), m) = Execute(Executed(c, m), i)
  <1> DEFINE d == Append(c, i)
  <1>1. /\ Len(c) \in Nat /\ Len(d) = Len(c) + 1 /\ Len(d) \in Nat /\ d[Len(d)] = i
        /\ \A k \in 1..Len(c) : c[k] = d[k]
    OBVIOUS
  <1> HIDE DEF d
  <1>2. PICK f : IsRun(f, c, m, Len(c)) /\ Executed(c, m) = f[Len(c)]
    BY <1>1, ExecutedRun
  <1>3. PICK g : IsRun(g, d, m, Len(d)) /\ Executed(d, m) = g[Len(d)]
    BY <1>1, ExecutedRun
  <1>4. Len(c) <= Len(c) /\ Len(c) <= Len(d) /\ Len(d) \in 1..Len(d) /\ Len(d) - 1 = Len(c)
    BY <1>1
  <1>5. f[Len(c)] = g[Len(c)]
    BY <1>1, <1>2, <1>3, <1>4, RunsAgree
  <1>6. \A k \in 1..Len(d) : g[k] = Execute(g[k - 1], d[k])
    BY <1>1, <1>3, RunShape
  <1>7. g[Len(d)] = Execute(g[Len(c)], i)
    BY <1>1, <1>4, <1>6
  <1> QED
    BY <1>2, <1>3, <1>5, <1>7 DEF d

(* A code of one instruction executes it. *)
LEMMA ExecutedOne ==
  ASSUME NEW S, NEW i \in S, NEW m
  PROVE  Executed(<<i>>, m) = Execute(m, i)
  <1>1. <<i>> = Append(<<>>, i) /\ <<>> \in Seq(S)
    OBVIOUS
  <1>2. Executed(Append(<<>>, i), m) = Execute(Executed(<<>>, m), i)
    BY <1>1, ExecutedAppend
  <1> QED
    BY <1>1, <1>2, ExecutedNone

(* One code after the other. *)
LEMMA ExecutedConcat ==
  ASSUME NEW S, NEW c \in Seq(S), NEW d \in Seq(S), NEW m
  PROVE  Executed(c \o d, m) = Executed(d, Executed(c, m))
  <1> DEFINE pre(i) == SubSeq(d, 1, i)
             n == Len(d)
             G == {i \in 0..n : Executed(c \o pre(i), m) = Executed(pre(i), Executed(c, m))}
  <1>1. ASSUME NEW i \in 0..n, i = 0 \/ i - 1 \in G PROVE i \in G
    <2>1. CASE i = 0
      <3>1. pre(0) = <<>> /\ c \o <<>> = c
        OBVIOUS
      <3> QED
        BY <2>1, <3>1, ExecutedNone
    <2>2. CASE i # 0
      <3>1. i \in 1..n /\ pre(i - 1) \in Seq(S) /\ d[i] \in S
        BY <2>2
      <3>2. pre(i) = Append(pre(i - 1), d[i])
        BY <3>1
      <3>3. c \o Append(pre(i - 1), d[i]) = Append(c \o pre(i - 1), d[i]) /\ c \o pre(i - 1) \in Seq(S)
        BY <3>1
      <3>4. Executed(c \o pre(i - 1), m) = Executed(pre(i - 1), Executed(c, m))
        BY <1>1, <2>2
      <3> HIDE DEF pre
      <3>5. Executed(c \o pre(i), m) = Execute(Executed(c \o pre(i - 1), m), d[i])
        BY <3>1, <3>2, <3>3, ExecutedAppend
      <3>6. Executed(pre(i), Executed(c, m)) = Execute(Executed(pre(i - 1), Executed(c, m)), d[i])
        BY <3>1, <3>2, ExecutedAppend
      <3> QED
        BY <3>4, <3>5, <3>6
    <2> QED
      BY <2>1, <2>2
  <1>2. n \in Nat /\ pre(n) = d
    OBVIOUS
  <1> HIDE DEF G, n
  <1>3. \A i \in 0..n : i \in G
    BY <1>1, <1>2, UpTo
  <1>4. n \in G
    BY <1>2, <1>3
  <1> HIDE DEF pre
  <1> QED
    BY <1>2, <1>4 DEF G

(* A fault stops the processor. *)
LEMMA ExecutedFault ==
  ASSUME NEW c, Len(c) \in Nat, NEW m, m.fault
  PROVE  Executed(c, m) = m
  <1> DEFINE n == Len(c)
  <1>1. PICK f : IsRun(f, c, m, n) /\ Executed(c, m) = f[n]
    BY ExecutedRun
  <1> DEFINE G == {i \in 0..n : f[i] = m}
  <1>2. f[0] = m /\ \A k \in 1..n : f[k] = Execute(f[k - 1], c[k])
    BY <1>1, RunShape
  <1>3. \A i : Execute(m, i) = m
    BY DEF Execute
  <1>4. ASSUME NEW i \in 0..n, i = 0 \/ i - 1 \in G PROVE i \in G
    <2>1. i # 0 => i \in 1..n /\ f[i - 1] = m
      BY <1>4
    <2> QED
      BY <1>2, <1>3, <2>1
  <1> HIDE DEF G
  <1>5. \A i \in 0..n : i \in G
    BY <1>4, UpTo
  <1>6. n \in G
    BY <1>5
  <1> QED
    BY <1>1, <1>6 DEF G

-----------------------------------------------------------------------------
(* What each instruction does. *)

(* The numbers that a register holds. *)
Regs == 0..255

(* The states of the processor. *)
Machines == [rax : Regs, rbx : Regs, rcx : Regs, rdx : Regs, cmp : Regs \X Regs \X Word,
             pushed : Seq(Regs), mem : Mem, fault : BOOLEAN]

(* The processor before any fault. *)
Running == {m \in Machines : ~m.fault}

(* What an instruction does not change but in rax. *)
Kept(m, n) == n \in Running /\ n.pushed = m.pushed /\ n.mem = m.mem

(* mov of a constant. *)
LEMMA ConstStep ==
  ASSUME NEW m \in Running, NEW w \in Word, NEW k \in Int
  PROVE  LET n == Execute(m, MovConst(w, k)) IN
         Kept(m, n) /\ n.rax = Low(w, k)
  <1>1. Low(w, k) \in Regs
    BY LowFacts DEF Regs
  <1>2. Execute(m, MovConst(w, k)) = [m EXCEPT !.rax = Low(w, k)]
    BY DEF Execute, MovConst, Running
  <1> QED
    BY <1>1, <1>2 DEF Running, Machines, Kept

(* push keeps registers and memory. *)
LEMMA PushStep ==
  ASSUME NEW m \in Running, NEW r \in {"rax", "rbx"}
  PROVE  LET n == Execute(m, Push(r)) IN
         /\ n \in Running /\ n.rax = m.rax /\ n.mem = m.mem
         /\ n.pushed = Append(m.pushed, m[r])
  <1>1. m[r] \in Regs /\ Append(m.pushed, m[r]) \in Seq(Regs)
    BY DEF Running, Machines
  <1>2. Execute(m, Push(r)) = [m EXCEPT !.pushed = Append(@, m[r])]
    BY DEF Execute, Push, Running
  <1> QED
    BY <1>1, <1>2 DEF Running, Machines

(* pop gives back what was pushed last. *)
LEMMA PopStep ==
  ASSUME NEW m \in Running, NEW r \in {"rbx", "rcx"}, NEW s \in Seq(Regs), NEW v \in Regs,
         m.pushed = Append(s, v)
  PROVE  LET n == Execute(m, PopTo(r)) IN
         /\ n \in Running /\ n.rax = m.rax /\ n.mem = m.mem
         /\ n.pushed = s /\ n[r] = v
  <1>1. m.pushed[Len(m.pushed)] = v /\ SubSeq(m.pushed, 1, Len(m.pushed) - 1) = s
    OBVIOUS
  <1>2. Execute(m, PopTo(r)) = [m EXCEPT ![r] = v, !.pushed = s]
    BY <1>1 DEF Execute, PopTo, Running
  <1> QED
    BY <1>2 DEF Running, Machines

(* The instructions with an effect of their own. *)
Kinds == {"const", "load", "lea", "push", "pop", "movq rax, rbx", "load (rax)", "Oassign", "cmp 0",
          "cmp bx", "set", "cltd", "xor dx", "idiv", "div"}

(* Any other instruction leaves a result in rax and changes nothing else. *)
LEMMA ResultStep ==
  ASSUME NEW m \in Running, NEW w \in Word, NEW i, i \notin Kinds,
         Result(m, i, w) \in Int
  PROVE  LET n == Execute(m, Ins(i, w)) IN
         Kept(m, n) /\ n.rax = Low(w, Result(m, i, w))
  <1>1. Low(w, Result(m, i, w)) \in Regs
    BY LowFacts DEF Regs
  <1>2. Execute(m, Ins(i, w)) = [m EXCEPT !.rax = Low(w, Result(m, i, w))]
    BY DEF Execute, Ins, Running, Kinds
  <1> QED
    BY <1>1, <1>2 DEF Running, Machines, Kept

(* mov from a variable. *)
LEMMA LoadStep ==
  ASSUME NEW m \in Running, NEW w \in Word, NEW x \in DOMAIN Variables
  PROVE  LET n == Execute(m, Load(w, AddressOf[x])) IN
         Kept(m, n) /\ n.rax = Low(w, m.mem[AddressOf[x]])
  <1>1. m.mem[AddressOf[x]] \in Int
    BY DEF Running, Machines, Mem
  <1>2. Low(w, m.mem[AddressOf[x]]) \in Regs
    BY <1>1, LowFacts DEF Regs
  <1>3. Execute(m, Load(w, AddressOf[x])) = [m EXCEPT !.rax = Low(w, m.mem[AddressOf[x]])]
    BY DEF Execute, Load, Running
  <1> QED
    BY <1>2, <1>3 DEF Running, Machines, Kept

(* lea of the address of a variable. *)
LEMMA LeaStep ==
  ASSUME NEW m \in Running, NEW a \in Regs
  PROVE  LET n == Execute(m, Lea(a)) IN Kept(m, n) /\ n.rbx = a
  <1>1. Execute(m, Lea(a)) = [m EXCEPT !.rbx = a]
    BY DEF Execute, Lea, Running
  <1> QED
    BY <1>1 DEF Running, Machines, Kept

(* movq rax, rbx. *)
LEMMA MoveStep ==
  ASSUME NEW m \in Running
  PROVE  LET n == Execute(m, Ins("movq rax, rbx", 8)) IN Kept(m, n) /\ n.rbx = m.rax
  <1>1. Execute(m, Ins("movq rax, rbx", 8)) = [m EXCEPT !.rbx = m.rax]
    BY DEF Execute, Ins, Running
  <1> QED
    BY <1>1 DEF Running, Machines, Kept

(* A load through rax faults unless the address is that of a variable. *)
LEMMA IndirStep ==
  ASSUME NEW m \in Running, NEW w \in Word
  PROVE  LET n == Execute(m, Ins("load (rax)", w)) IN
         /\ m.rax \in DOMAIN m.mem => Kept(m, n) /\ n.rax = Low(w, m.mem[m.rax])
         /\ m.rax \notin DOMAIN m.mem => n.fault
  <1>1. CASE m.rax \in DOMAIN m.mem
    <2>1. m.mem[m.rax] \in Int
      BY <1>1 DEF Running, Machines, Mem
    <2>2. Low(w, m.mem[m.rax]) \in Regs
      BY <2>1, LowFacts DEF Regs
    <2>3. Execute(m, Ins("load (rax)", w)) = [m EXCEPT !.rax = Low(w, m.mem[m.rax])]
      BY <1>1 DEF Execute, Ins, Running
    <2> QED
      BY <1>1, <2>2, <2>3 DEF Running, Machines, Kept
  <1>2. CASE m.rax \notin DOMAIN m.mem
    <2>1. Execute(m, Ins("load (rax)", w)) = [m EXCEPT !.fault = TRUE]
      BY <1>2 DEF Execute, Ins, Running, Fault
    <2> QED
      BY <1>2, <2>1 DEF Running, Machines
  <1> QED
    BY <1>1, <1>2

(* A store through rbx faults unless the address is that of a variable. *)
LEMMA StoreStep ==
  ASSUME NEW m \in Running, NEW w \in Word
  PROVE  LET n == Execute(m, Ins("Oassign", w)) IN
         /\ m.rbx \in DOMAIN m.mem =>
              /\ n \in Running /\ n.pushed = m.pushed /\ n.rax = m.rax
              /\ n.mem = [m.mem EXCEPT ![m.rbx] = Low(w, m.rax)]
         /\ m.rbx \notin DOMAIN m.mem => n.fault
  <1>1. CASE m.rbx \in DOMAIN m.mem
    <2>0. m.rax \in Int
      <3>1. m.rax \in Regs
        BY DEF Running, Machines
      <3> QED
        BY <3>1 DEF Regs
    <2>1. Low(w, m.rax) \in Nat
      BY <2>0, LowFacts
    <2>2. [m.mem EXCEPT ![m.rbx] = Low(w, m.rax)] \in Mem
      BY <1>1, <2>1 DEF Running, Machines, Mem
    <2>3. Execute(m, Ins("Oassign", w)) = [m EXCEPT !.mem[m.rbx] = Low(w, m.rax)]
      BY <1>1 DEF Execute, Ins, Running
    <2>4. Execute(m, Ins("Oassign", w)) = [m EXCEPT !.mem = [m.mem EXCEPT ![m.rbx] = Low(w, m.rax)]]
      BY <2>3
    <2> QED
      BY <1>1, <2>2, <2>4 DEF Running, Machines
  <1>2. CASE m.rbx \notin DOMAIN m.mem
    <2>1. Execute(m, Ins("Oassign", w)) = [m EXCEPT !.fault = TRUE]
      BY <1>2 DEF Execute, Ins, Running, Fault
    <2> QED
      BY <1>2, <2>1 DEF Running, Machines
  <1> QED
    BY <1>1, <1>2

(* cmp changes the flags alone. *)
LEMMA CompareStep ==
  ASSUME NEW m \in Running, NEW w \in Word
  PROVE  /\ LET n == Execute(m, Ins("cmp 0", w)) IN
            Kept(m, n) /\ n.rax = m.rax /\ n.cmp = <<m.rax, 0, w>>
         /\ LET n == Execute(m, Ins("cmp bx", w)) IN
            Kept(m, n) /\ n.rax = m.rax /\ n.cmp = <<m.rax, m.rbx, w>>
  <1>1. Execute(m, Ins("cmp 0", w)) = [m EXCEPT !.cmp = <<m.rax, 0, w>>]
    BY DEF Execute, Ins, Running
  <1>2. Execute(m, Ins("cmp bx", w)) = [m EXCEPT !.cmp = <<m.rax, m.rbx, w>>]
    BY DEF Execute, Ins, Running
  <1>3. <<m.rax, 0, w>> \in Regs \X Regs \X Word /\ <<m.rax, m.rbx, w>> \in Regs \X Regs \X Word
    BY DEF Running, Machines, Regs
  <1> QED
    BY <1>1, <1>2, <1>3 DEF Running, Machines, Kept

(* The bit that set puts in rax. *)
Bit(b) == IF b THEN 1 ELSE 0

(* Setting the lowest bit of a number. *)
LEMMA SetBit ==
  ASSUME NEW a \in Regs, NEW b \in {0, 1}
  PROVE  (a - (a % 2)) + b \in Regs /\ ((a - (a % 2)) + b) % 2 = b
  <1>1. ASSUME NEW x \in Int PROVE x % 2 \in {0, 1} /\ \E q \in Int : x = (x % 2) + 2 * q
    OBVIOUS
  <1>2. ASSUME NEW q \in Int PROVE (2 * q) % 2 = 0 /\ (2 * q + 1) % 2 = 1
    OBVIOUS
  <1>3. a \in Int /\ 0 <= a /\ a <= 255
    BY DEF Regs
  <1> DEFINE r == a % 2
  <1>4. r \in {0, 1}
    BY <1>1, <1>3
  <1>5. PICK q \in Int : a = r + 2 * q
    BY <1>1, <1>3
  <1> HIDE DEF r
  <1>6. (a - r) + b = 2 * q + b /\ 0 <= q /\ q <= 127
    BY <1>3, <1>4, <1>5
  <1>7. (2 * q + b) % 2 = b
    BY <1>2
  <1>8. 2 * q + b \in Regs
    BY <1>6 DEF Regs
  <1> QED
    BY <1>6, <1>7, <1>8 DEF r

(* set puts what the condition says of the flags in the lowest bit of rax. *)
LEMMA SetStep ==
  ASSUME NEW m \in Running, NEW cc
  PROVE  LET n == Execute(m, Set(cc)) IN
         Kept(m, n) /\ n.rax % 2 = Bit(Holds(cc, m.cmp))
  <1> DEFINE b == Bit(Holds(cc, m.cmp))
  <1>1. b \in {0, 1} /\ m.rax \in Regs
    BY DEF Bit, Running, Machines
  <1>2. Execute(m, Set(cc)) = [m EXCEPT !.rax = (m.rax - (m.rax % 2)) + b]
    BY DEF Execute, Set, Running, Bit
  <1> HIDE DEF b
  <1>3. (m.rax - (m.rax % 2)) + b \in Regs /\ ((m.rax - (m.rax % 2)) + b) % 2 = b
    BY <1>1, SetBit
  <1>4. Execute(m, Set(cc)).rax = (m.rax - (m.rax % 2)) + b
    BY <1>2 DEF Running, Machines
  <1>5. Kept(m, Execute(m, Set(cc)))
    BY <1>2, <1>3 DEF Running, Machines, Kept
  <1> QED
    BY <1>3, <1>4, <1>5 DEF b

(* cltd and xor make the high word of a dividend, of its sign or zero. *)
LEMMA ExtendStep ==
  ASSUME NEW m \in Running, NEW w \in Word
  PROVE  /\ LET n == Execute(m, Ins("cltd", w)) IN
            /\ Kept(m, n) /\ n.rax = m.rax /\ n.rbx = m.rbx
            /\ n.rdx = IF AsSigned(w, m.rax) < 0 THEN 2 ^ w - 1 ELSE 0
         /\ LET n == Execute(m, Ins("xor dx", w)) IN
            Kept(m, n) /\ n.rax = m.rax /\ n.rbx = m.rbx /\ n.rdx = 0
  <1> DEFINE d == IF AsSigned(w, m.rax) < 0 THEN 2 ^ w - 1 ELSE 0
  <1>1. 2 ^ w - 1 \in Regs
    <2>1. CASE w = 4
      BY <2>1 DEF Regs
    <2>2. CASE w = 8
      BY <2>2 DEF Regs
    <2> QED
      BY <2>1, <2>2 DEF Word
  <1>2. d \in Regs /\ 0 \in Regs
    BY <1>1 DEF Regs
  <1>3. Execute(m, Ins("cltd", w)) = [m EXCEPT !.rdx = d]
    BY DEF Execute, Ins, Running
  <1>4. Execute(m, Ins("xor dx", w)) = [m EXCEPT !.rdx = 0]
    BY DEF Execute, Ins, Running
  <1> HIDE DEF d
  <1>5. d = IF AsSigned(w, m.rax) < 0 THEN 2 ^ w - 1 ELSE 0
    BY DEF d
  <1> QED
    BY <1>2, <1>3, <1>4, <1>5 DEF Running, Machines, Kept

(* Powers of two of the lengths of shifts. *)
LEMMA Powers ==
  ASSUME NEW c \in 0..7
  PROVE  2 ^ c \in Int /\ 2 ^ c \in 1..128
  <1>1. CASE c = 0
    BY <1>1
  <1>2. CASE c = 1
    BY <1>2
  <1>3. CASE c = 2
    BY <1>3
  <1>4. CASE c = 3
    BY <1>4
  <1>5. CASE c = 4
    BY <1>5
  <1>6. CASE c = 5
    BY <1>6
  <1>7. CASE c = 6
    BY <1>7
  <1>8. CASE c = 7
    BY <1>8
  <1> QED
    BY <1>1, <1>2, <1>3, <1>4, <1>5, <1>6, <1>7, <1>8

(* A quotient by a power of two is an integer. *)
LEMMA Quotient ==
  ASSUME NEW a \in Int, NEW b \in 1..128
  PROVE  a \div b \in Int
  OBVIOUS

(* So is one that is rounded towards zero. *)
LEMMA TruncatedInt ==
  ASSUME NEW a \in Int, NEW b \in Int, b # 0
  PROVE  Truncated(a, b) \in Int
  <1> DEFINE x == IF a < 0 THEN -a ELSE a
             y == IF b < 0 THEN -b ELSE b
             q == x \div y
  <1>1. x \in Int /\ y \in Int /\ y > 0
    OBVIOUS
  <1> HIDE DEF x, y
  <1>2. q \in Int
    BY <1>1
  <1>3. Truncated(a, b) = IF (a < 0) = (b < 0) THEN q ELSE -q
    BY DEF Truncated, x, y
  <1> HIDE DEF q
  <1> QED
    BY <1>2, <1>3

(* The bitwise operators give integers. *)
LEMMA BitwiseInt ==
  ASSUME NEW op \in {"Oand", "Oor", "Oxor"}, NEW m \in Int, NEW n \in Int
  PROVE  Bitwise2(op, m, n) \in Int
  <1> DEFINE a == [k \in 0..7 |-> (m \div 2 ^ k) % 2]
             b == [k \in 0..7 |-> (n \div 2 ^ k) % 2]
             c == [k \in 0..7 |-> CASE op = "Oand" -> a[k] * b[k]
                                    [] op = "Oor"  -> a[k] + b[k] - a[k] * b[k]
                                    [] op = "Oxor" -> (a[k] + b[k]) % 2]
  <1>1. ASSUME NEW x \in Int, NEW k \in 0..7 PROVE (x \div 2 ^ k) % 2 \in Int
    <2>1. 2 ^ k \in 1..128
      BY Powers
    <2>2. x \div 2 ^ k \in Int
      BY <2>1, Quotient
    <2> QED
      BY <2>2
  <1>2. \A k \in 0..7 : a[k] \in Int /\ b[k] \in Int
    BY <1>1
  <1> HIDE DEF a, b
  <1>3. ASSUME NEW k \in 0..7 PROVE c[k] \in Int
    <2>1. a[k] \in Int /\ b[k] \in Int
      BY <1>2
    <2>2. a[k] * b[k] \in Int /\ a[k] + b[k] - a[k] * b[k] \in Int /\ (a[k] + b[k]) % 2 \in Int
      BY <2>1
    <2> QED
      BY <2>2
  <1>4. Bitwise2(op, m, n) = c[0] + 2 * c[1] + 4 * c[2] + 8 * c[3] + 16 * c[4] + 32 * c[5] + 64 * c[6] + 128 * c[7]
    BY DEF Bitwise2, a, b
  <1> HIDE DEF c
  <1>5. /\ c[0] \in Int /\ c[1] \in Int /\ c[2] \in Int /\ c[3] \in Int
        /\ c[4] \in Int /\ c[5] \in Int /\ c[6] \in Int /\ c[7] \in Int
    BY <1>3
  <1> QED
    BY <1>4, <1>5

(* The registers hold integers before any fault. *)
LEMMA RegsInt ==
  ASSUME NEW m \in Running
  PROVE  /\ m.rax \in Int /\ m.rbx \in Int /\ m.rcx \in Int /\ m.rdx \in Int
         /\ m.rax \in Regs /\ m.rbx \in Regs /\ m.rcx \in Regs /\ m.rdx \in Regs
         /\ m.mem \in Mem /\ m.pushed \in Seq(Regs) /\ ~m.fault
  <1>1. m.rax \in Regs /\ m.rbx \in Regs /\ m.rcx \in Regs /\ m.rdx \in Regs
    BY DEF Running, Machines
  <1>2. m.mem \in Mem /\ m.pushed \in Seq(Regs) /\ ~m.fault
    BY DEF Running, Machines
  <1>3. Regs \subseteq Int
    BY DEF Regs
  <1> QED
    BY <1>1, <1>2, <1>3

(* The instructions that leave a result in rax. *)
Computing == {"Oneg", "Ocomp", "Omul", "Oadd", "Osub", "Oand", "Oor", "Oxor", "Osl", "sar", "shr",
              "movslq", "movzbl", "mov dx, ax", "movq rbx, rax"}

(* The length of a shift. *)
LEMMA ShiftLength ==
  ASSUME NEW w \in Word, NEW x \in Int
  PROVE  x % w \in 0..7
  <1>1. CASE w = 4
    BY <1>1
  <1>2. CASE w = 8
    BY <1>2
  <1> QED
    BY <1>1, <1>2 DEF Word

(* The result of an instruction is an integer. *)
LEMMA ResultInt ==
  ASSUME NEW m \in Running, NEW w \in Word, NEW i \in Computing
  PROVE  Result(m, i, w) \in Int
  <1> DEFINE a == Low(w, m.rax)
             b == Low(w, m.rbx)
             c == m.rcx % w
  <1>1. m.rax \in Int /\ m.rbx \in Int /\ m.rcx \in Int /\ m.rdx \in Int
    BY RegsInt
  <1>2. a \in Int /\ b \in Int
    BY <1>1, LowFacts
  <1>3. 2 ^ c \in Int /\ 2 ^ c \in 1..128
    <2>1. c \in 0..7
      BY <1>1, ShiftLength
    <2> HIDE DEF c
    <2> QED
      BY <2>1, Powers
  <1>4. 4 \in Word /\ 8 \in Word
    BY DEF Word
  <1>5. AsSigned(4, m.rax) \in Int /\ AsSigned(w, m.rax) \in Int
    BY <1>1, <1>4, SignedFacts
  <1>6. 2 ^ w - 1 - a \in Int
    BY <1>2, NegationsAgree DEF Same
  <1>7. a \div 2 ^ c \in Int /\ AsSigned(w, m.rax) \div 2 ^ c \in Int
    BY <1>2, <1>3, <1>5, Quotient
  <1>8. \A op \in {"Oand", "Oor", "Oxor"} : Bitwise2(op, a, b) \in Int
    BY <1>2, BitwiseInt
  <1>9. a * b \in Int /\ a + b \in Int /\ a - b \in Int /\ -a \in Int /\ a * 2 ^ c \in Int /\ m.rax % 2 \in Int
    BY <1>1, <1>2, <1>3
  <1>10. Result(m, i, w) =
          CASE i = "Oneg"  -> -a
            [] i = "Ocomp" -> 2 ^ w - 1 - a
            [] i = "Omul"  -> a * b
            [] i = "Oadd"  -> a + b
            [] i = "Osub"  -> a - b
            [] i \in {"Oand", "Oor", "Oxor"} -> Bitwise2(i, a, b)
            [] i = "Osl"   -> a * 2 ^ c
            [] i = "sar"   -> AsSigned(w, m.rax) \div 2 ^ c
            [] i = "shr"   -> a \div 2 ^ c
            [] i = "movslq" -> AsSigned(4, m.rax)
            [] i = "movzbl" -> m.rax % 2
            [] i = "mov dx, ax" -> m.rdx
            [] i = "movq rbx, rax" -> m.rbx
    BY DEF Result
  <1> DEFINE d == 2 ^ c
             e == a * d
             f == a \div d
             g == AsSigned(w, m.rax) \div d
             h == m.rax % 2
             k == 2 ^ w - 1 - a
             ab == a * b
  <1> HIDE DEF a, b, d, e, f, g, h, k, ab
  <1>11. e \in Int /\ f \in Int /\ g \in Int /\ h \in Int /\ k \in Int /\ ab \in Int
    BY <1>6, <1>7, <1>9 DEF e, f, g, h, k, d, ab
  <1>12. Result(m, i, w) =
          CASE i = "Oneg"  -> -a
            [] i = "Ocomp" -> k
            [] i = "Omul"  -> ab
            [] i = "Oadd"  -> a + b
            [] i = "Osub"  -> a - b
            [] i \in {"Oand", "Oor", "Oxor"} -> Bitwise2(i, a, b)
            [] i = "Osl"   -> e
            [] i = "sar"   -> g
            [] i = "shr"   -> f
            [] i = "movslq" -> AsSigned(4, m.rax)
            [] i = "movzbl" -> h
            [] i = "mov dx, ax" -> m.rdx
            [] i = "movq rbx, rax" -> m.rbx
    BY <1>10 DEF e, f, g, h, k, d, ab
  <1>13. -a \in Int /\ a + b \in Int /\ a - b \in Int
    BY <1>2
  <1> QED
    BY <1>1, <1>5, <1>8, <1>11, <1>12, <1>13 DEF Computing

(* An instruction that leaves its result in rax. *)
LEMMA ComputeStep ==
  ASSUME NEW m \in Running, NEW w \in Word, NEW i \in Computing
  PROVE  LET n == Execute(m, Ins(i, w)) IN
         Kept(m, n) /\ n.rax = Low(w, Result(m, i, w)) /\ Same(w, n.rax, Result(m, i, w))
  <1>1. Result(m, i, w) \in Int
    BY ResultInt
  <1>2. i \notin Kinds
    BY DEF Computing, Kinds
  <1> DEFINE n == Execute(m, Ins(i, w))
  <1>3. Kept(m, n) /\ n.rax = Low(w, Result(m, i, w))
    BY <1>1, <1>2, ResultStep
  <1> HIDE DEF n
  <1>4. Same(w, Low(w, Result(m, i, w)), Result(m, i, w))
    BY <1>1, LowFacts
  <1> QED
    BY <1>3, <1>4 DEF n

-----------------------------------------------------------------------------
(* Codes and what they compute. *)

(* The condition codes of set. *)
Conditions == {"l", "b", "g", "a", "le", "be", "ge", "ae", "e", "ne"}

(* The instructions, the unknown one included, and their sequences. *)
InstructionSet ==
  [i : Computing \cup Kinds \cup {"movq eax, rax"}, w : {1, 4, 8}] \cup [i : {"const"}, w : Word, k : Int]
    \cup [i : {"load"}, w : Word, at : Regs] \cup [i : {"lea"}, w : {8}, at : Regs]
    \cup [i : {"push", "pop"}, w : {8}, reg : {"rax", "rbx", "rcx"}]
    \cup [i : {"set"}, w : {1}, cc : Conditions]

(* The codes. *)
Codes == Seq(InstructionSet)

(* What Ins, MovConst, Load, Lea, Push, PopTo and Set make is an           *)
(* instruction.                                                            *)
LEMMA InstructionSets ==
  /\ \A w \in {1, 4, 8}, i \in Computing \cup Kinds \cup {"movq eax, rax"} : Ins(i, w) \in InstructionSet
  /\ \A w \in Word, k \in Int : MovConst(w, k) \in InstructionSet
  /\ \A w \in Word, a \in Regs : Load(w, a) \in InstructionSet
  /\ \A a \in Regs : Lea(a) \in InstructionSet
  /\ \A r \in {"rax", "rbx", "rcx"} : Push(r) \in InstructionSet /\ PopTo(r) \in InstructionSet
  /\ \A cc \in Conditions : Set(cc) \in InstructionSet
  BY DEF InstructionSet, Ins, MovConst, Load, Lea, Push, PopTo, Set

(* What an expression of type ty gives. *)
Results(ty) == [n : Values(ty), mem : Mem, ok : BOOLEAN]

(* What an expression of type ty gives for every memory. *)
Dens(ty) == [Mem -> Results(ty)]

(* What was pushed is as it was, or the processor faulted. *)
Ends(m, n) == n.fault \/ (n \in Running /\ n.pushed = m.pushed)

(* The processor holds the result r, of type ty, and r's memory. *)
Has(ty, r, n) == n \in Running /\ Same(Width(ty), n.rax, r.n) /\ n.mem = r.mem

(* The code c computes D. *)
Denotes(c, ty, D) ==
  \A m \in Running : /\ Ends(m, Executed(c, m))
                     /\ D[m.mem].ok => Has(ty, D[m.mem], Executed(c, m))

(* The code o makes of the result a, in rax, the result r. *)
Maps(o, from, a, ty, r) ==
  \A m \in Running : /\ Ends(m, Executed(o, m))
                     /\ r.ok /\ Has(from, a, m) => Has(ty, r, Executed(o, m))

(* The same for a, in rax, and b, in the register reg. *)
Maps2(o, reg, tl, a, tr, b, ty, r) ==
  \A m \in Running : /\ Ends(m, Executed(o, m))
                     /\ r.ok /\ Has(tl, a, m) /\ Same(Width(tr), m[reg], b.n) => Has(ty, r, Executed(o, m))

(* One code after the other. *)
LEMMA Then ==
  ASSUME NEW c \in Codes, NEW d \in Codes, NEW m
  PROVE  /\ c \o d \in Codes
         /\ Executed(c \o d, m) = Executed(d, Executed(c, m))
         /\ Executed(c, m).fault => Executed(c \o d, m).fault
  <1>1. Executed(c \o d, m) = Executed(d, Executed(c, m))
    BY ExecutedConcat DEF Codes
  <1>2. Len(d) \in Nat /\ c \o d \in Codes
    BY DEF Codes
  <1>3. ASSUME NEW n, n.fault PROVE Executed(d, n) = n
    BY <1>2, <1>3, ExecutedFault
  <1> QED
    BY <1>1, <1>2, <1>3

(* A code and one more instruction. *)
LEMMA ThenOne ==
  ASSUME NEW c \in Codes, NEW i \in InstructionSet, NEW m
  PROVE  /\ c \o <<i>> \in Codes
         /\ Executed(c \o <<i>>, m) = Execute(Executed(c, m), i)
         /\ Executed(c, m).fault => Executed(c \o <<i>>, m).fault
  <1>1. <<i>> \in Codes
    BY DEF Codes
  <1>2. Executed(<<i>>, Executed(c, m)) = Execute(Executed(c, m), i)
    BY ExecutedOne
  <1> QED
    BY <1>1, <1>2, Then

(* A code of two instructions. *)
LEMMA ExecutedTwo ==
  ASSUME NEW i \in InstructionSet, NEW j \in InstructionSet, NEW m
  PROVE  Executed(<<i, j>>, m) = Execute(Execute(m, i), j)
  <1>1. <<i, j>> = Append(<<i>>, j) /\ <<i>> \in Seq(InstructionSet)
    OBVIOUS
  <1>2. Executed(Append(<<i>>, j), m) = Execute(Executed(<<i>>, m), j)
    BY <1>1, ExecutedAppend
  <1>3. Executed(<<i>>, m) = Execute(m, i)
    BY ExecutedOne
  <1> QED
    BY <1>1, <1>2, <1>3

(* The code of an operator after the code of its operand. *)
LEMMA UnaryDenotes ==
  ASSUME NEW c \in Codes, NEW o \in Codes, NEW from, NEW ty, NEW D, NEW E,
         Denotes(c, from, D),
         \A mem \in Mem : (E[mem].ok => D[mem].ok) /\ Maps(o, from, D[mem], ty, E[mem])
  PROVE  Denotes(c \o o, ty, E)
  <1>1. SUFFICES ASSUME NEW m \in Running
                 PROVE  /\ Ends(m, Executed(c \o o, m))
                        /\ E[m.mem].ok => Has(ty, E[m.mem], Executed(c \o o, m))
    BY DEF Denotes
  <1> DEFINE n == Executed(c, m)
             p == Executed(c \o o, m)
  <1>2. Ends(m, n) /\ (D[m.mem].ok => Has(from, D[m.mem], n))
    BY DEF Denotes
  <1>3. p = Executed(o, n) /\ (n.fault => p.fault)
    BY Then
  <1>4. m.mem \in Mem
    BY RegsInt
  <1>5. E[m.mem].ok => D[m.mem].ok
    BY <1>4
  <1>6. Maps(o, from, D[m.mem], ty, E[m.mem])
    BY <1>4
  <1> HIDE DEF n, p
  <1>7. n \in Running => Ends(n, p) /\ (E[m.mem].ok /\ Has(from, D[m.mem], n) => Has(ty, E[m.mem], p))
    BY <1>3, <1>6 DEF Maps
  <1>8. Ends(m, p)
    BY <1>2, <1>3, <1>7 DEF Ends
  <1>9. E[m.mem].ok => Has(ty, E[m.mem], p)
    BY <1>2, <1>5, <1>7 DEF Has
  <1> QED
    BY <1>8, <1>9 DEF p

(* Operands: the right one is pushed while the left one is computed. *)
LEMMA OperandsDenote ==
  ASSUME NEW cl \in Codes, NEW cr \in Codes, NEW o \in Codes, NEW reg \in {"rbx", "rcx"},
         NEW tl, NEW tr \in Types, NEW ty, NEW L, NEW R \in Dens(tr), NEW E,
         Denotes(cl, tl, L), Denotes(cr, tr, R),
         \A mem \in Mem : LET b == R[mem]
                              a == L[b.mem]
                          IN  (E[mem].ok => a.ok /\ b.ok) /\ Maps2(o, reg, tl, a, tr, b, ty, E[mem])
  PROVE  Denotes(cr \o <<Push("rax")>> \o cl \o <<PopTo(reg)>> \o o, ty, E)
  <1> DEFINE c1 == cr \o <<Push("rax")>>
             c2 == c1 \o cl
             c3 == c2 \o <<PopTo(reg)>>
             c4 == c3 \o o
  <1>1. SUFFICES ASSUME NEW m \in Running
                 PROVE  /\ Ends(m, Executed(c4, m))
                        /\ E[m.mem].ok => Has(ty, E[m.mem], Executed(c4, m))
    BY DEF Denotes
  <1>2. Push("rax") \in InstructionSet /\ PopTo(reg) \in InstructionSet
    BY InstructionSets
  <1> DEFINE n0 == Executed(cr, m)
             n1 == Executed(c1, m)
             n2 == Executed(c2, m)
             n3 == Executed(c3, m)
             n4 == Executed(c4, m)
             b == R[m.mem]
             a == L[b.mem]
  <1>3. c1 \in Codes /\ n1 = Execute(n0, Push("rax")) /\ (n0.fault => n1.fault)
    BY <1>2, ThenOne
  <1>4. c2 \in Codes /\ n2 = Executed(cl, n1) /\ (n1.fault => n2.fault)
    BY <1>3, Then
  <1>5. c3 \in Codes /\ n3 = Execute(n2, PopTo(reg)) /\ (n2.fault => n3.fault)
    BY <1>2, <1>4, ThenOne
  <1>6. n4 = Executed(o, n3) /\ (n3.fault => n4.fault)
    BY <1>5, Then
  <1>7. m.mem \in Mem /\ b \in Results(tr) /\ m.pushed \in Seq(Regs)
    BY RegsInt DEF Dens
  <1>8. (E[m.mem].ok => a.ok /\ b.ok) /\ Maps2(o, reg, tl, a, tr, b, ty, E[m.mem])
    BY <1>7
  <1>9. Ends(m, n0) /\ (b.ok => Has(tr, b, n0))
    BY DEF Denotes
  <1>10. \A n \in Running : Ends(n, Executed(cl, n)) /\ (L[n.mem].ok => Has(tl, L[n.mem], Executed(cl, n)))
    BY DEF Denotes
  <1> HIDE DEF c1, c2, c3, c4, n0, n1, n2, n3, n4, a, b
  <1>11. CASE n0.fault
    BY <1>3, <1>4, <1>5, <1>6, <1>8, <1>9, <1>11 DEF Ends, Has, Running, n4
  <1>12. CASE ~n0.fault
    <2>1. n0 \in Running /\ n0.pushed = m.pushed
      BY <1>9, <1>12 DEF Ends
    <2>2. n1 \in Running /\ n1.rax = n0.rax /\ n1.mem = n0.mem /\ n1.pushed = Append(m.pushed, n0.rax)
      BY <1>3, <2>1, PushStep
    <2>3. Ends(n1, n2) /\ (L[n1.mem].ok => Has(tl, L[n1.mem], n2))
      BY <1>4, <1>10, <2>2
    <2>4. CASE n2.fault
      <3>1. n4.fault
        BY <1>5, <1>6, <2>4
      <3>2. ~E[m.mem].ok
        <4>1. SUFFICES ASSUME E[m.mem].ok PROVE FALSE
          OBVIOUS
        <4>2. n1.mem = b.mem
          BY <1>8, <1>9, <2>2, <4>1 DEF Has
        <4>3. Has(tl, L[n1.mem], n2)
          BY <1>8, <2>3, <4>1, <4>2 DEF a
        <4> QED
          BY <2>4, <4>3 DEF Has, Running
      <3> QED
        BY <3>1, <3>2 DEF Ends, n4
    <2>5. CASE ~n2.fault
      <3>1. n2 \in Running /\ n2.pushed = Append(m.pushed, n0.rax)
        BY <2>2, <2>3, <2>5 DEF Ends
      <3>2. n0.rax \in Regs
        BY <2>1, RegsInt
      <3>3. n3 \in Running /\ n3.rax = n2.rax /\ n3.mem = n2.mem /\ n3.pushed = m.pushed /\ n3[reg] = n0.rax
        BY <1>5, <1>7, <3>1, <3>2, PopStep
      <3>4. Ends(n3, n4) /\ (E[m.mem].ok /\ Has(tl, a, n3) /\ Same(Width(tr), n3[reg], b.n) => Has(ty, E[m.mem], n4))
        BY <1>6, <1>8, <3>3 DEF Maps2
      <3>5. Ends(m, n4)
        BY <3>3, <3>4 DEF Ends
      <3>6. ASSUME E[m.mem].ok PROVE Has(ty, E[m.mem], n4)
        <4>1. Has(tr, b, n0) /\ a.ok
          BY <1>8, <1>9, <3>6
        <4>2. L[n1.mem] = a
          BY <2>2, <4>1 DEF Has, a
        <4>3. Has(tl, a, n2)
          BY <2>3, <4>1, <4>2
        <4>4. Has(tl, a, n3)
          BY <3>3, <4>3 DEF Has
        <4>5. Same(Width(tr), n3[reg], b.n)
          BY <3>3, <4>1 DEF Has
        <4> QED
          BY <3>4, <3>6, <4>4, <4>5
      <3> QED
        BY <3>5, <3>6 DEF n4
    <2> QED
      BY <2>4, <2>5
  <1> QED
    BY <1>11, <1>12

-----------------------------------------------------------------------------
(* The arithmetic instructions. *)

(* The types of integers that an expression of the source may have. *)
ArithTypes == {"int", "uint", "long"}

(* A register holds a number of a type. *)
LEMMA HeldValues ==
  ASSUME NEW ty \in Types, NEW x \in Int, NEW v \in Values(ty), Same(Width(ty), x, v)
  PROVE  /\ Signed(ty) => AsSigned(Width(ty), x) = v
         /\ ~Signed(ty) => Low(Width(ty), x) = v
         /\ Width(ty) = 8 /\ x \in Regs /\ ~Signed(ty) => x = v
  <1>1. v \in Int /\ Width(ty) \in Word
    BY ValuesInt
  <1>2. ToType(ty, x) = v
    <2>1. ToType(ty, x) = ToType(ty, v)
      BY <1>1, ToTypeSame
    <2>2. ToType(ty, v) = v
      BY <1>1, ToTypeFacts
    <2> QED
      BY <2>1, <2>2
  <1>3. ASSUME Width(ty) = 8, x \in Regs, ~Signed(ty) PROVE x = v
    <2>1. v \in 0..255
      BY <1>3, TypeFacts DEF Values, Types, Pointers
    <2>2. Same(8, x, v)
      BY <1>3
    <2> QED
      BY <1>1, <1>3, <2>1, <2>2, Near8 DEF Regs
  <1> QED
    BY <1>2, <1>3 DEF ToType

(* The parts of a result. *)
LEMMA ResultFields ==
  ASSUME NEW ty \in Types, NEW r \in Results(ty)
  PROVE  r.n \in Values(ty) /\ r.n \in Int /\ r.mem \in Mem /\ r.ok \in BOOLEAN
  BY ValuesInt DEF Results

(* The instructions that combine rax and rbx. *)
LEMMA CombineMaps ==
  ASSUME NEW ty \in Types, NEW tl \in Types, NEW tr \in Types, NEW a \in Results(tl), NEW b \in Results(tr),
         NEW op, op \in {"Omul", "Oadd", "Osub", "Oand", "Oor", "Oxor"}, NEW r,
         Width(tl) = Width(ty), Width(tr) = Width(ty),
         r.ok => /\ r.mem = a.mem
                 /\ r.n \in Int
                 /\ Same(Width(ty), Arithmetic2(op, ty, a.n, b.n), r.n)
  PROVE  Maps2(<<Ins(op, Width(ty))>>, "rbx", tl, a, tr, b, ty, r)
  <1> DEFINE w == Width(ty)
             o == <<Ins(op, w)>>
  <1>1. SUFFICES ASSUME NEW m \in Running
                 PROVE  /\ Ends(m, Executed(o, m))
                        /\ r.ok /\ Has(tl, a, m) /\ Same(Width(tr), m["rbx"], b.n) => Has(ty, r, Executed(o, m))
    BY DEF Maps2
  <1>2. w \in Word /\ op \in Computing /\ w \in {1, 4, 8}
    BY ValuesInt DEF Computing, Word
  <1> HIDE DEF w
  <1>3. Executed(o, m) = Execute(m, Ins(op, w))
    BY <1>2, InstructionSets, ExecutedOne
  <1> DEFINE p == Execute(m, Ins(op, w))
  <1>4. Kept(m, p) /\ Same(w, p.rax, Result(m, op, w))
    BY <1>2, ComputeStep
  <1>5. p.rax \in Int
    BY <1>4, RegsInt DEF Kept
  <1> HIDE DEF p
  <1>6. m.rax \in Int /\ m.rbx \in Int
    BY RegsInt
  <1>7. a.n \in Int /\ b.n \in Int
    BY ResultFields
  <1>8. ASSUME r.ok, Same(w, m.rax, a.n), Same(w, m.rbx, b.n) PROVE Same(w, p.rax, r.n)
    <2>1. Same(w, Result(m, op, w), Arithmetic2(op, ty, a.n, b.n))
      <3>1. CASE op \in {"Oand", "Oor", "Oxor"}
        <4>1. Result(m, op, w) = Arithmetic2(op, ty, a.n, b.n)
          BY <1>8, <3>1 DEF Result, Arithmetic2, Same, w
        <4> QED
          BY <4>1, SameRefl
      <3>2. CASE op = "Omul"
        <4> DEFINE x == Low(w, m.rax)
                   y == Low(w, m.rbx)
        <4>1. Result(m, op, w) = x * y /\ Arithmetic2(op, ty, a.n, b.n) = a.n * b.n
          BY <3>2 DEF Result, Arithmetic2
        <4>2. x \in Int /\ y \in Int /\ Same(w, x, a.n) /\ Same(w, y, b.n)
          BY <1>2, <1>6, <1>8, LowFacts, SameTrans
        <4> HIDE DEF x, y
        <4>3. Same(w, x * y, a.n * b.n)
          BY <1>2, <1>7, <4>2, ProductsAgree
        <4> QED
          BY <4>1, <4>3
      <3>3. CASE op \in {"Oadd", "Osub"}
        <4> DEFINE x == Low(w, m.rax)
                   y == Low(w, m.rbx)
        <4>1. /\ op = "Oadd" => Result(m, op, w) = x + y /\ Arithmetic2(op, ty, a.n, b.n) = a.n + b.n
              /\ op = "Osub" => Result(m, op, w) = x - y /\ Arithmetic2(op, ty, a.n, b.n) = a.n - b.n
          BY <3>3 DEF Result, Arithmetic2
        <4>2. x \in Int /\ y \in Int /\ Same(w, x, a.n) /\ Same(w, y, b.n)
          BY <1>2, <1>6, <1>8, LowFacts, SameTrans
        <4> HIDE DEF x, y
        <4>3. Same(w, x + y, a.n + b.n) /\ Same(w, x - y, a.n - b.n)
          BY <1>2, <1>7, <4>2, SumsAgree
        <4> QED
          BY <3>3, <4>1, <4>3
      <3> QED
        BY <3>1, <3>2, <3>3
    <2>2. Same(w, Arithmetic2(op, ty, a.n, b.n), r.n)
      BY <1>8 DEF w
    <2> QED
      BY <1>4, <2>1, <2>2, SameTrans
  <1>9. Ends(m, p)
    BY <1>4 DEF Ends, Kept
  <1>10. r.ok /\ Has(tl, a, m) /\ Same(Width(tr), m["rbx"], b.n) => Has(ty, r, p)
    BY <1>4, <1>8 DEF Has, Kept, w
  <1> QED
    BY <1>3, <1>9, <1>10 DEF p, w

(* The sign of the dividend in the upper word makes the same number of it  *)
(* in two words.                                                           *)
LEMMA Dividend ==
  ASSUME NEW w \in Word, NEW x \in Int,
         NEW d, d = IF AsSigned(w, x) < 0 THEN 2 ^ w - 1 ELSE 0
  PROVE  /\ AsSigned(2 * w, Low(w, d) * 2 ^ w + Low(w, x)) = AsSigned(w, x)
         /\ Low(w, 0) * 2 ^ w + Low(w, x) = Low(w, x)
  <1>1. ASSUME w = 4
        PROVE  AsSigned(8, Low(4, d) * 16 + Low(4, x)) = AsSigned(4, x)
    <2> DEFINE l == Low(4, x)
    <2>1. l \in 0..15
      BY Low4
    <2>2. AsSigned(4, x) = IF l >= 8 THEN l - 16 ELSE l
      BY DEF AsSigned
    <2> HIDE DEF l
    <2>3. d = IF l >= 8 THEN 15 ELSE 0
      BY <1>1, <2>1, <2>2
    <2>4. Low(4, d) = d
      BY <2>3 DEF Low
    <2> DEFINE n == Low(4, d) * 16 + l
    <2>5. n \in 0..255 /\ n = IF l >= 8 THEN 240 + l ELSE l
      BY <2>1, <2>3, <2>4
    <2> HIDE DEF n
    <2>6. Low(8, n) = n
      BY <2>5 DEF Low
    <2>7. AsSigned(8, n) = IF n >= 128 THEN n - 256 ELSE n
      BY <2>6 DEF AsSigned
    <2>8. AsSigned(8, n) = AsSigned(4, x)
      BY <2>1, <2>2, <2>5, <2>7
    <2> QED
      BY <2>8 DEF n, l
  <1>2. ASSUME w = 8
        PROVE  AsSigned(16, Low(8, d) * 256 + Low(8, x)) = AsSigned(8, x)
    <2> DEFINE l == Low(8, x)
    <2>1. l \in 0..255
      BY Low8
    <2>2. AsSigned(8, x) = IF l >= 128 THEN l - 256 ELSE l
      BY DEF AsSigned
    <2> HIDE DEF l
    <2>3. d = IF l >= 128 THEN 255 ELSE 0
      BY <1>2, <2>1, <2>2
    <2>4. Low(8, d) = d
      BY <2>3 DEF Low
    <2> DEFINE n == Low(8, d) * 256 + l
    <2>5. n \in Int /\ 0 <= n /\ n <= 65535 /\ n = IF l >= 128 THEN 65280 + l ELSE l
      <3>0. l \in Int /\ 0 <= l /\ l <= 255
        BY <2>1
      <3>1. CASE l >= 128
        <4>1. n = 255 * 256 + l
          BY <2>3, <2>4, <3>1
        <4> QED
          BY <3>0, <3>1, <4>1
      <3>2. CASE ~(l >= 128)
        <4>1. n = 0 * 256 + l
          BY <2>3, <2>4, <3>2
        <4> QED
          BY <3>0, <3>2, <4>1
      <3> QED
        BY <3>1, <3>2
    <2> HIDE DEF n
    <2>6. Low(16, n) = n
      <3>1. 2 ^ 16 = 65536
        OBVIOUS
      <3>2. ASSUME NEW x0 \in Int, 0 <= x0, x0 <= 65535 PROVE x0 % 65536 = x0
        BY <3>2
      <3>3. n % 65536 = n
        BY <2>5, <3>2
      <3> QED
        BY <3>1, <3>3 DEF Low
    <2>7. AsSigned(16, n) = IF n >= 32768 THEN n - 65536 ELSE n
      <3>1. 2 ^ 16 = 65536 /\ 2 ^ (16 - 1) = 32768
        OBVIOUS
      <3> QED
        BY <2>6, <3>1 DEF AsSigned
    <2>8. AsSigned(16, n) = AsSigned(8, x)
      BY <2>1, <2>2, <2>5, <2>7
    <2> QED
      BY <2>8 DEF n, l
  <1>3. Low(w, 0) * 2 ^ w + Low(w, x) = Low(w, x)
    <2>1. Low(4, 0) = 0 /\ Low(8, 0) = 0 /\ Low(w, x) \in Int
      BY LowFacts DEF Low
    <2>2. CASE w = 4
      BY <2>1, <2>2
    <2>3. CASE w = 8
      BY <2>1, <2>3
    <2> QED
      BY <2>2, <2>3 DEF Word
  <1>4. CASE w = 4
    <2>1. 2 * w = 8 /\ 2 ^ w = 16
      BY <1>4
    <2> QED
      BY <1>1, <1>3, <1>4, <2>1
  <1>5. CASE w = 8
    <2>1. 2 * w = 16 /\ 2 ^ w = 256
      BY <1>5
    <2> QED
      BY <1>2, <1>3, <1>5, <2>1
  <1> QED
    BY <1>4, <1>5 DEF Word

(* A division whose quotient the type has. *)
LEMMA DivideStep ==
  ASSUME NEW m \in Running, NEW w \in Word, NEW signed \in BOOLEAN,
         signed => m.rdx = IF AsSigned(w, m.rax) < 0 THEN 2 ^ w - 1 ELSE 0,
         ~signed => m.rdx = 0
  PROVE  LET n == Divide(m, w, signed)
             a == IF signed THEN AsSigned(w, m.rax) ELSE Low(w, m.rax)
             b == IF signed THEN AsSigned(w, m.rbx) ELSE Low(w, m.rbx)
             q == Truncated(a, b)
         IN  /\ n.fault \/ Kept(m, n)
             /\ b # 0 /\ (IF signed THEN AsSigned(w, q) ELSE Low(w, q)) = q =>
                  Kept(m, n) /\ n.rax = Low(w, q) /\ n.rdx = Low(w, a - q * b)
  <1> DEFINE n == Divide(m, w, signed)
             a == IF signed THEN AsSigned(w, m.rax) ELSE Low(w, m.rax)
             b == IF signed THEN AsSigned(w, m.rbx) ELSE Low(w, m.rbx)
             q == Truncated(a, b)
             z == IF signed THEN AsSigned(w, q) ELSE Low(w, q)
             s == q * b
  <1>1. m.rax \in Int /\ m.rbx \in Int
    BY RegsInt
  <1>2. a \in Int /\ b \in Int
    BY <1>1, LowFacts, SignedFacts
  <1> DEFINE u == Low(w, m.rdx) * 2 ^ w + Low(w, m.rax)
  <1>3. (IF signed THEN AsSigned(2 * w, u) ELSE u) = a
    BY <1>1, Dividend
  <1>4. n = IF b = 0 THEN Fault(m) ELSE IF z # q THEN Fault(m)
            ELSE [m EXCEPT !.rax = Low(w, q), !.rdx = Low(w, a - s)]
    BY <1>3 DEF Divide
  <1> HIDE DEF a, b
  <1>5. b # 0 => q \in Int
    BY <1>2, TruncatedInt
  <1> HIDE DEF q, u
  <1>6. b # 0 => s \in Int
    BY <1>2, <1>5
  <1> HIDE DEF z, s, n
  <1>7. b # 0 => Low(w, q) \in Regs /\ Low(w, a - s) \in Regs
    BY <1>2, <1>5, <1>6, LowFacts DEF Regs
  <1>8. Fault(m).fault
    BY DEF Fault, Running, Machines
  <1>9. b # 0 /\ z = q => Kept(m, n) /\ n.rax = Low(w, q) /\ n.rdx = Low(w, a - s)
    BY <1>4, <1>7 DEF Kept, Running, Machines
  <1>10. n.fault \/ Kept(m, n)
    BY <1>4, <1>8, <1>9
  <1> QED
    BY <1>9, <1>10 DEF n, a, b, q, z, s

-----------------------------------------------------------------------------
(* Division. *)

(* Up to three instructions are a code. *)
LEMMA ShortCodes ==
  ASSUME NEW i \in InstructionSet, NEW j \in InstructionSet, NEW k \in InstructionSet
  PROVE  <<>> \in Codes /\ <<i>> \in Codes /\ <<i, j>> \in Codes /\ <<i, j, k>> \in Codes
  BY DEF Codes

(* The code of a division, with the remainder in rdx. *)
DivisionCode(op, ty) ==
  (IF Signed(ty) THEN <<Ins("cltd", Width(ty)), Ins("idiv", Width(ty))>>
   ELSE <<Ins("xor dx", Width(ty)), Ins("div", Width(ty))>>)
  \o (IF op = "Omod" THEN <<Ins("mov dx, ax", Width(ty))>> ELSE <<>>)

(* A division either faults or changes rax and rdx alone, and where the    *)
(* quotient is one of the type it is in rax, or the remainder is.          *)
LEMMA DivisionRun ==
  ASSUME NEW op \in {"Odiv", "Omod"}, NEW ty \in ArithTypes, NEW m \in Running
  PROVE  LET w == Width(ty)
             p == Executed(DivisionCode(op, ty), m)
             a == IF Signed(ty) THEN AsSigned(w, m.rax) ELSE Low(w, m.rax)
             b == IF Signed(ty) THEN AsSigned(w, m.rbx) ELSE Low(w, m.rbx)
             q == Truncated(a, b)
         IN  /\ DivisionCode(op, ty) \in Codes
             /\ p.fault \/ Kept(m, p)
             /\ b # 0 /\ (IF Signed(ty) THEN AsSigned(w, q) ELSE Low(w, q)) = q =>
                  /\ Kept(m, p)
                  /\ Same(w, p.rax, IF op = "Odiv" THEN q ELSE a - q * b)
  <1> DEFINE w == Width(ty)
             p == Executed(DivisionCode(op, ty), m)
             a == IF Signed(ty) THEN AsSigned(w, m.rax) ELSE Low(w, m.rax)
             b == IF Signed(ty) THEN AsSigned(w, m.rbx) ELSE Low(w, m.rbx)
             q == Truncated(a, b)
             s == q * b
             fits == b # 0 /\ (IF Signed(ty) THEN AsSigned(w, q) ELSE Low(w, q)) = q
             first == IF Signed(ty) THEN Ins("cltd", w) ELSE Ins("xor dx", w)
             second == IF Signed(ty) THEN Ins("idiv", w) ELSE Ins("div", w)
             third == Ins("mov dx, ax", w)
             code == DivisionCode(op, ty)
             sg == Signed(ty)
  <1>1. w \in Word /\ w \in {1, 4, 8} /\ sg \in BOOLEAN
    <2>1. ty \in Types
      BY DEF Types, ArithTypes
    <2> QED
      <3>1. w \in Word
        BY <2>1, ValuesInt
      <3>2. sg \in BOOLEAN
        BY DEF Signed
      <3> QED
        BY <3>1, <3>2 DEF Word
  <1>2. m.rax \in Int /\ m.rbx \in Int
    BY RegsInt
  <1>3. a \in Int /\ b \in Int
    <2>1. AsSigned(w, m.rax) \in Int /\ AsSigned(w, m.rbx) \in Int
      BY <1>1, <1>2, SignedFacts
    <2>2. Low(w, m.rax) \in Int /\ Low(w, m.rbx) \in Int
      BY <1>1, <1>2, LowFacts
    <2> QED
      BY <2>1, <2>2
  <1>4. b # 0 => q \in Int
    <2> HIDE DEF a, b
    <2> QED
      BY <1>3, TruncatedInt
  <1>5. first \in InstructionSet /\ second \in InstructionSet /\ third \in InstructionSet
    <2> HIDE DEF w
    <2> QED
      BY <1>1, InstructionSets DEF Computing, Kinds
  <1>6. code = <<first, second>> \o (IF op = "Omod" THEN <<third>> ELSE <<>>)
    BY DEF DivisionCode
  <1> DEFINE n == Execute(m, first)
             d == Execute(n, second)
  <1>7. Kept(m, n) /\ n.rax = m.rax /\ n.rbx = m.rbx
        /\ (sg => n.rdx = IF AsSigned(w, n.rax) < 0 THEN 2 ^ w - 1 ELSE 0) /\ (~sg => n.rdx = 0)
    <2> HIDE DEF w
    <2>1. CASE sg
      <3>1. first = Ins("cltd", w)
        BY <2>1
      <3> HIDE DEF first, sg
      <3> QED
        BY <1>1, <2>1, <3>1, ExtendStep
    <2>2. CASE ~sg
      <3>1. first = Ins("xor dx", w)
        BY <2>2
      <3> HIDE DEF first, sg
      <3> QED
        BY <1>1, <2>2, <3>1, ExtendStep
    <2> QED
      BY <2>1, <2>2
  <1>8. n \in Running /\ ~n.fault
    BY <1>7 DEF Kept, Running
  <1>9. d = Divide(n, w, sg)
    <2> HIDE DEF n, w
    <2>1. CASE sg
      <3>1. d = Execute(n, Ins("idiv", w)) /\ sg = TRUE
        BY <1>1, <2>1
      <3> HIDE DEF d, sg
      <3> QED
        BY <1>8, <3>1 DEF Execute, Ins
    <2>2. CASE ~sg
      <3>1. d = Execute(n, Ins("div", w)) /\ sg = FALSE
        BY <1>1, <2>2
      <3> HIDE DEF d, sg
      <3> QED
        BY <1>8, <3>1 DEF Execute, Ins
    <2> QED
      BY <2>1, <2>2
  <1> HIDE DEF n, first
  <1>10. /\ d.fault \/ Kept(n, d)
         /\ fits => Kept(n, d) /\ d.rax = Low(w, q) /\ d.rdx = Low(w, a - q * b)
    <2>1. /\ a = IF sg THEN AsSigned(w, n.rax) ELSE Low(w, n.rax)
          /\ b = IF sg THEN AsSigned(w, n.rbx) ELSE Low(w, n.rbx)
      BY <1>7
    <2> HIDE DEF w, a, b, sg
    <2>2. LET e == Divide(n, w, sg)
              x == IF sg THEN AsSigned(w, n.rax) ELSE Low(w, n.rax)
              y == IF sg THEN AsSigned(w, n.rbx) ELSE Low(w, n.rbx)
              z == Truncated(x, y)
          IN  /\ e.fault \/ Kept(n, e)
              /\ y # 0 /\ (IF sg THEN AsSigned(w, z) ELSE Low(w, z)) = z =>
                   Kept(n, e) /\ e.rax = Low(w, z) /\ e.rdx = Low(w, x - z * y)
      BY <1>1, <1>7, <1>8, DivideStep
    <2> HIDE DEF d
    <2> QED
      BY <1>9, <2>1, <2>2 DEF sg
  <1> HIDE DEF d, second
  <1>11. d.fault \/ Kept(m, d)
    BY <1>7, <1>10 DEF Kept
  <1>12. fits => Kept(m, d)
    BY <1>7, <1>10 DEF Kept
  <1>13. <<first, second>> \in Codes /\ Executed(<<first, second>>, m) = d
    <2>1. <<first, second>> \in Codes
      BY <1>5, ShortCodes
    <2>2. Executed(<<first, second>>, m) = Execute(Execute(m, first), second)
      BY <1>5, ExecutedTwo
    <2> QED
      BY <2>1, <2>2 DEF d, n
  <1>14. fits => q \in Int /\ s \in Int /\ a - s \in Int
    <2> HIDE DEF a, b, q
    <2> QED
      BY <1>3, <1>4
  <1>15. CASE op = "Odiv"
    <2>1. code = <<first, second>>
      BY <1>6, <1>13, <1>15 DEF Codes
    <2>2. p = d
      BY <1>13, <2>1
    <2>3. fits => Same(w, d.rax, q)
      <3> HIDE DEF q, w, fits
      <3> QED
        BY <1>1, <1>10, <1>14, LowFacts
    <2> HIDE DEF p, fits, q, a, b, w, code
    <2>4. code \in Codes /\ (p.fault \/ Kept(m, p)) /\ (fits => Kept(m, p) /\ Same(w, p.rax, q))
      BY <1>11, <1>12, <1>13, <2>1, <2>2, <2>3
    <2> QED
      BY <1>15, <2>4 DEF p, fits, q, a, b, w, code
  <1>16. CASE op = "Omod"
    <2>1. code = <<first, second>> \o <<third>>
      BY <1>6, <1>16
    <2>2. code \in Codes /\ p = Execute(d, third) /\ (d.fault => p.fault)
      <3> HIDE DEF code, third
      <3> QED
        BY <1>5, <1>13, <2>1, ThenOne DEF code
    <2> HIDE DEF p
    <2>3. Kept(m, d) => Kept(m, p) /\ Same(w, p.rax, d.rdx)
      <3>1. SUFFICES ASSUME Kept(m, d) PROVE Kept(m, p) /\ Same(w, p.rax, d.rdx)
        OBVIOUS
      <3>2. d \in Running
        BY <3>1 DEF Kept
      <3> HIDE DEF w
      <3>3. Kept(d, p) /\ Same(w, p.rax, Result(d, "mov dx, ax", w))
        BY <1>1, <2>2, <3>2, ComputeStep DEF Computing
      <3>4. Result(d, "mov dx, ax", w) = d.rdx
        BY DEF Result
      <3> QED
        BY <3>1, <3>3, <3>4 DEF Kept
    <2>4. fits => Same(w, d.rdx, a - s)
      <3> HIDE DEF w, fits, a, b, q, s
      <3> QED
        BY <1>1, <1>10, <1>14, LowFacts DEF s
    <2>5. p.fault \/ Kept(m, p)
      BY <1>11, <2>2, <2>3
    <2>6. fits => Kept(m, p) /\ Same(w, p.rax, a - s)
      <3> HIDE DEF w, fits, a, b, q, s
      <3> QED
        BY <1>12, <2>3, <2>4, SameTrans
    <2> HIDE DEF fits, q, a, b, w, code
    <2> QED
      BY <1>16, <2>2, <2>5, <2>6 DEF p, fits, q, a, b, w, code, s
  <1> QED
    BY <1>15, <1>16

(* The code of / and % computes them wherever C gives them a meaning. *)
LEMMA DivisionMaps ==
  ASSUME NEW op \in {"Odiv", "Omod"}, NEW ty \in ArithTypes, NEW a \in Results(ty), NEW b \in Results(ty), NEW r,
         r.ok => /\ b.n # 0 /\ ToType(ty, Truncated(a.n, b.n)) = Truncated(a.n, b.n)
                 /\ r.mem = a.mem
                 /\ r.n \in Int /\ Same(Width(ty), Arithmetic2(op, ty, a.n, b.n), r.n)
  PROVE  Maps2(DivisionCode(op, ty), "rbx", ty, a, ty, b, ty, r)
  <1> DEFINE w == Width(ty)
             o == DivisionCode(op, ty)
  <1>1. SUFFICES ASSUME NEW m \in Running
                 PROVE  /\ Ends(m, Executed(o, m))
                        /\ r.ok /\ Has(ty, a, m) /\ Same(Width(ty), m["rbx"], b.n) => Has(ty, r, Executed(o, m))
    BY DEF Maps2
  <1> DEFINE p == Executed(o, m)
             x == IF Signed(ty) THEN AsSigned(w, m.rax) ELSE Low(w, m.rax)
             y == IF Signed(ty) THEN AsSigned(w, m.rbx) ELSE Low(w, m.rbx)
             q == Truncated(x, y)
  <1>2. /\ p.fault \/ Kept(m, p)
        /\ y # 0 /\ (IF Signed(ty) THEN AsSigned(w, q) ELSE Low(w, q)) = q =>
             Kept(m, p) /\ Same(w, p.rax, IF op = "Odiv" THEN q ELSE x - q * y)
    BY DivisionRun
  <1> HIDE DEF p
  <1>3. Ends(m, p)
    BY <1>2 DEF Ends, Kept
  <1>4. ASSUME r.ok, Has(ty, a, m), Same(w, m.rbx, b.n) PROVE Has(ty, r, p)
    <2>1. ty \in Types
      BY DEF Types, ArithTypes
    <2>2. a.n \in Values(ty) /\ b.n \in Values(ty) /\ m.rax \in Int /\ m.rbx \in Int
      BY <2>1, ResultFields, RegsInt
    <2>3. Same(w, m.rax, a.n)
      BY <1>4 DEF Has
    <2>4. x = a.n
      BY <2>1, <2>2, <2>3, HeldValues
    <2>5. y = b.n
      BY <1>4, <2>1, <2>2, HeldValues
    <2> HIDE DEF x, y
    <2>6. ToType(ty, q) = q /\ y # 0
      BY <1>4, <2>4, <2>5
    <2>7. Kept(m, p) /\ Same(w, p.rax, IF op = "Odiv" THEN q ELSE x - q * y)
      BY <1>2, <2>6 DEF ToType
    <2>8. Arithmetic2(op, ty, a.n, b.n) = IF op = "Odiv" THEN q ELSE x - q * y
      BY <2>4, <2>5 DEF Arithmetic2
    <2>9. Same(w, p.rax, r.n)
      <3> HIDE DEF q, w
      <3> QED
        BY <1>4, <2>7, <2>8, SameTrans DEF w
    <2>10. p.mem = r.mem /\ p \in Running
      BY <1>4, <2>7 DEF Kept, Has
    <2> QED
      BY <2>9, <2>10 DEF Has
  <1> QED
    BY <1>3, <1>4 DEF p

-----------------------------------------------------------------------------
(* Shifts and comparisons. *)

(* A register of which the low bits are those of a length less than that   *)
(* of a word holds this length.                                            *)
LEMMA LengthHeld ==
  ASSUME NEW w \in Word, NEW v \in Word, NEW x \in Int, NEW b \in 0..(w - 1), Same(v, x, b)
  PROVE  x % w = b
  <1>1. Same(4, x, b)
    BY SameHalf DEF Word
  <1>2. \E q \in Int : x = b + 16 * q
    BY <1>1, Same4 DEF Word
  <1>3. PICK q \in Int : x = b + 16 * q
    BY <1>2
  <1>4. CASE w = 4
    <2>1. x = b + 4 * (4 * q) /\ 4 * q \in Int /\ b \in 0..3
      BY <1>3, <1>4
    <2>2. ASSUME NEW k \in Int, NEW c \in 0..3 PROVE (c + 4 * k) % 4 = c
      OBVIOUS
    <2> QED
      BY <1>4, <2>1, <2>2
  <1>5. CASE w = 8
    <2>1. x = b + 8 * (2 * q) /\ 2 * q \in Int /\ b \in 0..7
      BY <1>3, <1>5
    <2>2. ASSUME NEW k \in Int, NEW c \in 0..7 PROVE (c + 8 * k) % 8 = c
      OBVIOUS
    <2> QED
      BY <1>5, <2>1, <2>2
  <1> QED
    BY <1>4, <1>5 DEF Word

(* The results of the two shifts to the right. *)
LEMMA ShiftResults ==
  ASSUME NEW m \in Running, NEW w \in Word
  PROVE  /\ Result(m, "sar", w) = AsSigned(w, m.rax) \div 2 ^ (m.rcx % w)
         /\ Result(m, "shr", w) = Low(w, m.rax) \div 2 ^ (m.rcx % w)
  <1> DEFINE a == Low(w, m.rax)
             b == Low(w, m.rbx)
             c == 2 ^ (m.rcx % w)
             d == AsSigned(w, m.rax) \div c
             e == a \div c
             f == a * c
             g == 2 ^ w - 1 - a
             h == m.rax % 2
             k == a * b
  <1>1. ASSUME NEW i \in {"sar", "shr"} PROVE Result(m, i, w) =
          CASE i = "Oneg"  -> -a
            [] i = "Ocomp" -> g
            [] i = "Omul"  -> k
            [] i = "Oadd"  -> a + b
            [] i = "Osub"  -> a - b
            [] i \in {"Oand", "Oor", "Oxor"} -> Bitwise2(i, a, b)
            [] i = "Osl"   -> f
            [] i = "sar"   -> d
            [] i = "shr"   -> e
            [] i = "movslq" -> AsSigned(4, m.rax)
            [] i = "movzbl" -> h
            [] i = "mov dx, ax" -> m.rdx
            [] i = "movq rbx, rax" -> m.rbx
    BY DEF Result
  <1> HIDE DEF a, b, c, d, e, f, g, h, k
  <1>2. Result(m, "sar", w) = d /\ Result(m, "shr", w) = e
    BY <1>1
  <1> QED
    BY <1>2 DEF d, e, c, a

(* The code of a shift. *)
ShiftCode(op, ty) ==
  IF op = "Osr" THEN <<Ins(IF Signed(ty) THEN "sar" ELSE "shr", Width(ty))>> ELSE <<Ins(op, Width(ty))>>

(* The code of a shift computes it for the lengths C allows; a shift to    *)
(* the right is arithmetic for a signed type.                              *)
LEMMA ShiftMaps ==
  ASSUME NEW op \in Shifts, NEW ty \in ArithTypes, NEW tr \in Types, NEW a \in Results(ty), NEW b \in Results(tr),
         NEW r,
         r.ok => /\ b.n \in 0..(Width(ty) - 1)
                 /\ r.mem = a.mem
                 /\ r.n = ToType(ty, IF op = "Osl" THEN a.n * 2 ^ b.n ELSE a.n \div 2 ^ b.n)
  PROVE  Maps2(ShiftCode(op, ty), "rcx", ty, a, tr, b, ty, r)
  <1> DEFINE w == Width(ty)
             o == ShiftCode(op, ty)
             i == IF op = "Osr" THEN (IF Signed(ty) THEN "sar" ELSE "shr") ELSE op
  <1>1. SUFFICES ASSUME NEW m \in Running
                 PROVE  /\ Ends(m, Executed(o, m))
                        /\ r.ok /\ Has(ty, a, m) /\ Same(Width(tr), m["rcx"], b.n) => Has(ty, r, Executed(o, m))
    BY DEF Maps2
  <1>2. ty \in Types
    BY DEF Types, ArithTypes
  <1>3. w \in Word /\ Width(tr) \in Word
    BY <1>2, ValuesInt
  <1>4. w \in {1, 4, 8} /\ i \in Computing /\ o = <<Ins(i, w)>>
    BY <1>3 DEF Word, ShiftCode, Computing, Shifts
  <1> HIDE DEF w, i, o
  <1>5. Executed(o, m) = Execute(m, Ins(i, w))
    BY <1>4, InstructionSets, ExecutedOne
  <1> DEFINE p == Execute(m, Ins(i, w))
  <1>6. Kept(m, p) /\ Same(w, p.rax, Result(m, i, w))
    BY <1>3, <1>4, ComputeStep
  <1> HIDE DEF p
  <1>7. m.rax \in Int /\ m.rcx \in Int
    BY RegsInt
  <1>8. a.n \in Int /\ a.n \in Values(ty)
    BY <1>2, ResultFields
  <1>9. ASSUME r.ok, Same(w, m.rax, a.n), Same(Width(tr), m.rcx, b.n) PROVE Same(w, p.rax, r.n)
    <2>1. b.n \in 0..(w - 1) /\ r.n = ToType(ty, IF op = "Osl" THEN a.n * 2 ^ b.n ELSE a.n \div 2 ^ b.n)
      BY <1>9 DEF w
    <2>2. m.rcx % w = b.n
      BY <1>3, <1>7, <1>9, <2>1, LengthHeld
    <2> DEFINE d == 2 ^ b.n
    <2>3. d \in Int /\ d \in 1..128
      <3>1. b.n \in 0..7
        BY <1>3, <2>1 DEF Word
      <3> QED
        BY <3>1, Powers
    <2>4. CASE op = "Osl"
      <3> DEFINE x == Low(w, m.rax)
      <3>1. Result(m, i, w) = x * d
        BY <2>2, <2>4 DEF Result, i
      <3>2. x \in Int /\ Same(w, x, a.n)
        BY <1>3, <1>7, <1>9, LowFacts, SameTrans
      <3> HIDE DEF x
      <3>3. Same(w, x * d, a.n * d)
        <4> HIDE DEF d
        <4> QED
          BY <1>3, <1>8, <2>3, <3>2, ProductsAgree, SameRefl
      <3>4. Same(w, a.n * d, r.n)
        <4>1. r.n = ToType(ty, a.n * d)
          BY <2>1, <2>4
        <4> HIDE DEF d
        <4>2. a.n * d \in Int
          BY <1>8, <2>3
        <4> QED
          BY <1>2, <4>1, <4>2, ToTypeFacts DEF w
      <3> HIDE DEF d
      <3> QED
        BY <1>6, <3>1, <3>3, <3>4, SameTrans
    <2>5. CASE op # "Osl"
      <3>1. op = "Osr"
        BY <2>5 DEF Shifts
      <3>2. IF Signed(ty) THEN AsSigned(w, m.rax) = a.n ELSE Low(w, m.rax) = a.n
        BY <1>2, <1>7, <1>8, <1>9, HeldValues DEF w
      <3>3. Result(m, i, w) = a.n \div d
        <4>1. CASE Signed(ty)
          <5>1. i = "sar" /\ AsSigned(w, m.rax) = a.n
            BY <3>1, <3>2, <4>1 DEF i
          <5>2. Result(m, "sar", w) = AsSigned(w, m.rax) \div 2 ^ (m.rcx % w)
            BY <1>3, ShiftResults
          <5> QED
            BY <2>2, <5>1, <5>2
        <4>2. CASE ~Signed(ty)
          <5>1. i = "shr" /\ Low(w, m.rax) = a.n
            BY <3>1, <3>2, <4>2 DEF i
          <5>2. Result(m, "shr", w) = Low(w, m.rax) \div 2 ^ (m.rcx % w)
            BY <1>3, ShiftResults
          <5> QED
            BY <2>2, <5>1, <5>2
        <4> QED
          BY <4>1, <4>2
      <3>4. r.n = ToType(ty, a.n \div d)
        BY <2>1, <2>5
      <3>5. a.n \div d \in Int
        <4> HIDE DEF d
        <4> QED
          BY <1>8, <2>3, Quotient
      <3> DEFINE e == a.n \div d
      <3> HIDE DEF e, d
      <3>6. Same(w, e, r.n)
        BY <1>2, <3>4, <3>5, ToTypeFacts DEF w, e
      <3> QED
        BY <1>6, <3>3, <3>6, SameTrans DEF e
    <2> QED
      BY <2>4, <2>5
  <1>10. Ends(m, p)
    BY <1>6 DEF Ends, Kept
  <1>11. r.ok /\ Has(ty, a, m) /\ Same(Width(tr), m["rcx"], b.n) => Has(ty, r, p)
    BY <1>6, <1>9 DEF Has, Kept, w
  <1> QED
    BY <1>5, <1>10, <1>11 DEF p

(* Of a number that fits, the low 4 bits are enough. *)
LEMMA Seen ==
  ASSUME NEW ty \in Types, ty # "ulong", NEW v \in Values(ty), Fits(ty, v), NEW x \in Int, Same(Width(ty), x, v)
  PROVE  IF Signed(ty) THEN AsSigned(4, x) = v /\ v \in -8..7 ELSE Low(4, x) = v /\ v \in 0..15
  <1>1. v \in Int /\ Width(ty) \in Word /\ 4 \in Word /\ 4 <= Width(ty)
    BY ValuesInt DEF Word
  <1>2. Same(4, x, v)
    BY <1>1, SameHalf
  <1>3. CASE Signed(ty)
    <2>1. ty \in {"int", "long"}
      BY <1>3, TypeFacts DEF Types, Pointers
    <2>2. v \in -8..7
      BY <2>1, TypeFacts DEF Fits, Values
    <2>3. AsSigned(4, x) \in -8..7 /\ AsSigned(4, x) \in Int /\ Same(4, AsSigned(4, x), x)
      BY <1>1, SignedFacts
    <2>4. Same(4, AsSigned(4, x), v)
      BY <1>2, <2>3, SameTrans
    <2> QED
      BY <1>1, <1>3, <2>2, <2>3, <2>4, Near4
  <1>4. CASE ~Signed(ty)
    <2>1. ty \in {"uint", "int*", "void*"}
      BY <1>4, TypeFacts DEF Types, Pointers
    <2>2. v \in 0..15
      <3>1. CASE ty = "uint"
        BY <3>1 DEF Values
      <3>2. CASE ty \in Pointers
        <4>1. v \in 0..255 /\ v <= 15
          BY <3>2, TypeFacts DEF Fits, Values, Pointers
        <4> QED
          BY <4>1
      <3> QED
        BY <2>1, <3>1, <3>2 DEF Pointers
    <2>3. Low(4, x) \in 0..15 /\ Low(4, x) \in Int /\ Same(4, Low(4, x), x)
      BY <1>1, LowFacts
    <2>4. Same(4, Low(4, x), v)
      BY <1>2, <2>3, SameTrans
    <2> QED
      BY <1>1, <1>4, <2>2, <2>3, <2>4, Near4
  <1> QED
    BY <1>3, <1>4

(* What a condition code says of two numbers that the low 4 bits give.     *)
LEMMA Decided ==
  ASSUME NEW op \in Comparisons, NEW ty \in Types, ty # "ulong", NEW tr \in Types, tr # "ulong",
         Signed(ty) = Signed(tr),
         NEW u \in Values(ty), NEW v \in Values(tr), Fits(ty, u), Fits(tr, v),
         NEW x \in Int, NEW y \in Int, Same(Width(ty), x, u), Same(Width(tr), y, v)
  PROVE  Bit(Holds(CmpSuffix(op, Signed(ty)), <<x, y, 4>>)) = Compared(op, u, v)
  <1>1. u \in Int /\ v \in Int
    BY ValuesInt
  <1> DEFINE a(cc) == IF cc \in {"l", "g", "le", "ge"} THEN AsSigned(4, x) ELSE Low(4, x)
             b(cc) == IF cc \in {"l", "g", "le", "ge"} THEN AsSigned(4, y) ELSE Low(4, y)
  <1>2. \A cc : Holds(cc, <<x, y, 4>>) =
                 CASE cc \in {"l", "b"}   -> a(cc) < b(cc)
                   [] cc \in {"g", "a"}   -> a(cc) > b(cc)
                   [] cc \in {"le", "be"} -> a(cc) <= b(cc)
                   [] cc \in {"ge", "ae"} -> a(cc) >= b(cc)
                   [] cc = "e"            -> a(cc) = b(cc)
                   [] cc = "ne"           -> a(cc) # b(cc)
    BY DEF Holds
  <1>3. CASE Signed(ty)
    <2>1. AsSigned(4, x) = u /\ u \in -8..7 /\ AsSigned(4, y) = v /\ v \in -8..7
      BY <1>3, Seen
    <2>2. Low(4, x) = Low(4, y) <=> u = v
      <3>1. 4 \in Word
        BY DEF Word
      <3>2. Same(4, u, x) /\ Same(4, v, y)
        BY <2>1, <3>1, SignedFacts
      <3>3. Low(4, u) = Low(4, x) /\ Low(4, v) = Low(4, y)
        BY <3>2 DEF Same
      <3>4. Same(4, u, v) => u = v
        BY <1>1, <2>1, Near4
      <3> QED
        BY <3>3, <3>4 DEF Same
    <2> DEFINE lx == Low(4, x)
               ly == Low(4, y)
               sx == AsSigned(4, x)
               sy == AsSigned(4, y)
    <2>3. CmpSuffix(op, Signed(ty)) =
            CASE op = "Olt" -> "l" [] op = "Ogt" -> "g" [] op = "Ole" -> "le"
              [] op = "Oge" -> "ge" [] op = "Oeq" -> "e" [] op = "Oneq" -> "ne"
      BY <1>3 DEF CmpSuffix, Comparisons
    <2>4. Holds(CmpSuffix(op, Signed(ty)), <<x, y, 4>>) =
            CASE op = "Olt" -> sx < sy [] op = "Ogt" -> sx > sy [] op = "Ole" -> sx <= sy
              [] op = "Oge" -> sx >= sy [] op = "Oeq" -> lx = ly [] op = "Oneq" -> lx # ly
      BY <1>2, <2>3 DEF Comparisons
    <2> HIDE DEF lx, ly, sx, sy
    <2>5. sx = u /\ sy = v /\ (lx = ly <=> u = v)
      BY <2>1, <2>2 DEF lx, ly, sx, sy
    <2> QED
      BY <2>4, <2>5 DEF Bit, Compared, Comparisons
  <1>4. CASE ~Signed(ty)
    <2>1. Low(4, x) = u /\ Low(4, y) = v
      BY <1>4, Seen
    <2>2. CmpSuffix(op, Signed(ty)) =
            CASE op = "Olt" -> "b" [] op = "Ogt" -> "a" [] op = "Ole" -> "be"
              [] op = "Oge" -> "ae" [] op = "Oeq" -> "e" [] op = "Oneq" -> "ne"
      BY <1>4 DEF CmpSuffix, Comparisons
    <2> DEFINE lx == Low(4, x)
               ly == Low(4, y)
    <2>3. Holds(CmpSuffix(op, Signed(ty)), <<x, y, 4>>) =
            CASE op = "Olt" -> lx < ly [] op = "Ogt" -> lx > ly [] op = "Ole" -> lx <= ly
              [] op = "Oge" -> lx >= ly [] op = "Oeq" -> lx = ly [] op = "Oneq" -> lx # ly
      BY <1>2, <2>2 DEF Comparisons
    <2> HIDE DEF lx, ly
    <2>4. lx = u /\ ly = v
      BY <2>1 DEF lx, ly
    <2> QED
      BY <2>3, <2>4 DEF Bit, Compared, Comparisons
  <1> QED
    BY <1>3, <1>4

(* Three instructions are two and one. *)
LEMMA TwoAndOne == \A i, j, k : <<i, j, k>> = <<i, j>> \o <<k>>
  OBVIOUS

(* A comparison is three instructions, one after the other. *)
LEMMA CompareCode ==
  ASSUME NEW i \in {"cmp 0", "cmp bx"}, NEW cc \in Conditions, NEW m
  PROVE  LET o == <<Ins(i, 4), Set(cc), Ins("movzbl", 4)>>
         IN  /\ o \in Codes
             /\ Executed(o, m) = Execute(Execute(Execute(m, Ins(i, 4)), Set(cc)), Ins("movzbl", 4))
  <1>1. Ins(i, 4) \in InstructionSet /\ Set(cc) \in InstructionSet /\ Ins("movzbl", 4) \in InstructionSet
    BY InstructionSets DEF Kinds, Computing
  <1>2. <<Ins(i, 4), Set(cc), Ins("movzbl", 4)>> \in Codes
    BY <1>1, ShortCodes
  <1>3. Executed(<<Ins(i, 4), Set(cc), Ins("movzbl", 4)>>, m)
          = Execute(Execute(Execute(m, Ins(i, 4)), Set(cc)), Ins("movzbl", 4))
    <2> DEFINE c == <<Ins(i, 4), Set(cc)>>
               d == <<Ins("movzbl", 4)>>
    <2>1. c \in Codes
      BY <1>1, ShortCodes
    <2>2. c \o d = <<Ins(i, 4), Set(cc), Ins("movzbl", 4)>>
      BY TwoAndOne
    <2>3. Executed(c, m) = Execute(Execute(m, Ins(i, 4)), Set(cc))
      BY <1>1, ExecutedTwo
    <2> HIDE DEF c
    <2>4. Executed(c \o d, m) = Execute(Executed(c, m), Ins("movzbl", 4))
      BY <1>1, <2>1, ThenOne
    <2> QED
      BY <2>2, <2>3, <2>4
  <1> QED
    BY <1>2, <1>3

(* cmp, set and the extension of the bit to an int. *)
LEMMA CompareRun ==
  ASSUME NEW i \in {"cmp 0", "cmp bx"}, NEW cc \in Conditions, NEW m \in Running
  PROVE  LET o == <<Ins(i, 4), Set(cc), Ins("movzbl", 4)>>
             p == Executed(o, m)
             y == IF i = "cmp 0" THEN 0 ELSE m.rbx
         IN  o \in Codes /\ Kept(m, p) /\ Same(4, p.rax, Bit(Holds(cc, <<m.rax, y, 4>>)))
  <1> DEFINE o == <<Ins(i, 4), Set(cc), Ins("movzbl", 4)>>
             y == IF i = "cmp 0" THEN 0 ELSE m.rbx
             n1 == Execute(m, Ins(i, 4))
             n2 == Execute(n1, Set(cc))
             n3 == Execute(n2, Ins("movzbl", 4))
  <1>2. o \in Codes /\ Executed(o, m) = n3
    BY CompareCode
  <1>3. 4 \in Word
    BY DEF Word
  <1>4. Kept(m, n1) /\ n1.cmp = <<m.rax, y, 4>>
    BY <1>3, CompareStep
  <1> HIDE DEF n1
  <1>5. n1 \in Running
    BY <1>4 DEF Kept
  <1>6. Kept(n1, n2) /\ n2.rax % 2 = Bit(Holds(cc, n1.cmp))
    BY <1>5, SetStep
  <1> HIDE DEF n2
  <1>7. n2 \in Running
    BY <1>6 DEF Kept
  <1>8. Kept(n2, n3) /\ Same(4, n3.rax, Result(n2, "movzbl", 4))
    BY <1>3, <1>7, ComputeStep DEF Computing
  <1>9. Result(n2, "movzbl", 4) = n2.rax % 2
    BY DEF Result
  <1> HIDE DEF n3
  <1>10. Kept(m, n3)
    BY <1>4, <1>6, <1>8 DEF Kept
  <1>11. Same(4, n3.rax, Bit(Holds(cc, <<m.rax, y, 4>>)))
    BY <1>4, <1>6, <1>8, <1>9
  <1> QED
    BY <1>2, <1>10, <1>11

(* cmpsuffix gives a condition code for every comparison. *)
LEMMA ConditionNames ==
  ASSUME NEW op \in Comparisons, NEW s
  PROVE  CmpSuffix(op, s) \in Conditions
  BY DEF CmpSuffix, Comparisons, Conditions

(* A comparison is 0 or 1. *)
LEMMA ComparedValue ==
  ASSUME NEW op, NEW a, NEW b
  PROVE  Compared(op, a, b) \in {0, 1}
  BY DEF Compared

(* The code of a comparison computes it, of numbers that fit in an int,    *)
(* with the condition code of the operands' signedness.                    *)
LEMMA CompareMaps ==
  ASSUME NEW op \in Comparisons, NEW tl \in Types, tl # "ulong", NEW tr \in Types, tr # "ulong",
         Signed(tl) = Signed(tr), NEW a \in Results(tl), NEW b \in Results(tr), NEW r,
         r.ok => Fits(tl, a.n) /\ Fits(tr, b.n) /\ r.mem = a.mem /\ r.n = Compared(op, a.n, b.n)
  PROVE  Maps2(<<Ins("cmp bx", 4), Set(CmpSuffix(op, Signed(tl))), Ins("movzbl", 4)>>, "rbx",
               tl, a, tr, b, "int", r)
  <1> DEFINE cc == CmpSuffix(op, Signed(tl))
             o == <<Ins("cmp bx", 4), Set(cc), Ins("movzbl", 4)>>
  <1>1. SUFFICES ASSUME NEW m \in Running
                 PROVE  /\ Ends(m, Executed(o, m))
                        /\ r.ok /\ Has(tl, a, m) /\ Same(Width(tr), m["rbx"], b.n) => Has("int", r, Executed(o, m))
    BY DEF Maps2
  <1>2. cc \in Conditions
    BY ConditionNames
  <1> HIDE DEF cc
  <1>3. Kept(m, Executed(o, m)) /\ Same(4, Executed(o, m).rax, Bit(Holds(cc, <<m.rax, m.rbx, 4>>)))
    BY <1>2, CompareRun
  <1> DEFINE p == Executed(o, m)
  <1> HIDE DEF p
  <1>4. Kept(m, p) /\ Same(4, p.rax, Bit(Holds(cc, <<m.rax, m.rbx, 4>>)))
    BY <1>3 DEF p
  <1>5. Ends(m, p)
    BY <1>4 DEF Kept, Ends
  <1>6. ASSUME r.ok, Has(tl, a, m), Same(Width(tr), m.rbx, b.n) PROVE Has("int", r, p)
    <2>1. m.rax \in Int /\ m.rbx \in Int /\ a.n \in Values(tl) /\ b.n \in Values(tr)
      BY RegsInt, ResultFields
    <2>2. Same(Width(tl), m.rax, a.n) /\ m.mem = a.mem
      BY <1>6 DEF Has
    <2>3. Bit(Holds(cc, <<m.rax, m.rbx, 4>>)) = Compared(op, a.n, b.n)
      BY <1>6, <2>1, <2>2, Decided DEF cc
    <2>4. Same(4, p.rax, r.n)
      BY <1>4, <1>6, <2>3
    <2> QED
      BY <1>4, <1>6, <2>2, <2>4, TypeFacts DEF Has, Kept
  <1> QED
    BY <1>5, <1>6 DEF p

(* The code of ! computes it, of a number that fits in an int. *)
LEMMA NotMaps ==
  ASSUME NEW from \in Types, from # "ulong", NEW a \in Results(from), NEW r,
         r.ok => Fits(from, a.n) /\ r.mem = a.mem /\ r.n = IF a.n = 0 THEN 1 ELSE 0
  PROVE  Maps(<<Ins("cmp 0", 4), Set("e"), Ins("movzbl", 4)>>, from, a, "int", r)
  <1> DEFINE o == <<Ins("cmp 0", 4), Set("e"), Ins("movzbl", 4)>>
  <1>1. SUFFICES ASSUME NEW m \in Running
                 PROVE  /\ Ends(m, Executed(o, m))
                        /\ r.ok /\ Has(from, a, m) => Has("int", r, Executed(o, m))
    BY DEF Maps
  <1>2. "e" \in Conditions
    BY DEF Conditions
  <1>3. Kept(m, Executed(o, m)) /\ Same(4, Executed(o, m).rax, Bit(Holds("e", <<m.rax, 0, 4>>)))
    BY <1>2, CompareRun
  <1> DEFINE p == Executed(o, m)
  <1> HIDE DEF p
  <1>4. Kept(m, p) /\ Same(4, p.rax, Bit(Holds("e", <<m.rax, 0, 4>>)))
    BY <1>3 DEF p
  <1>5. Ends(m, p)
    BY <1>4 DEF Kept, Ends
  <1>6. ASSUME r.ok, Has(from, a, m) PROVE Has("int", r, p)
    <2>1. m.rax \in Int /\ a.n \in Values(from) /\ a.n \in Int
      BY RegsInt, ResultFields
    <2>2. Same(Width(from), m.rax, a.n) /\ m.mem = a.mem
      BY <1>6 DEF Has
    <2>3. Fits(from, 0) /\ 0 \in Values(from) /\ Same(Width(from), 0, 0)
      BY ValuesInt DEF Fits, Same
    <2>4. "Oeq" \in Comparisons /\ CmpSuffix("Oeq", Signed(from)) = "e"
      BY DEF Comparisons, CmpSuffix
    <2>5. Bit(Holds(CmpSuffix("Oeq", Signed(from)), <<m.rax, 0, 4>>)) = Compared("Oeq", a.n, 0)
      BY <1>6, <2>1, <2>2, <2>3, <2>4, Decided
    <2>6. Compared("Oeq", a.n, 0) = IF a.n = 0 THEN 1 ELSE 0
      BY DEF Compared
    <2>7. Same(4, p.rax, r.n)
      BY <1>4, <1>6, <2>4, <2>5, <2>6
    <2> QED
      BY <1>4, <1>6, <2>2, <2>7, TypeFacts DEF Has, Kept
  <1> QED
    BY <1>5, <1>6 DEF p

(* One instruction that leaves its result in rax. *)
LEMMA ComputeMaps ==
  ASSUME NEW i \in Computing, NEW from \in Types, NEW ty \in Types, NEW w \in Word, NEW a \in Results(from), NEW r,
         Width(ty) = w,
         r.ok => r.mem = a.mem /\ \A m \in Running : Has(from, a, m) => Same(w, Result(m, i, w), r.n)
  PROVE  Maps(<<Ins(i, w)>>, from, a, ty, r)
  <1> DEFINE o == <<Ins(i, w)>>
  <1>1. SUFFICES ASSUME NEW m \in Running
                 PROVE  /\ Ends(m, Executed(o, m))
                        /\ r.ok /\ Has(from, a, m) => Has(ty, r, Executed(o, m))
    BY DEF Maps
  <1>2. w \in {1, 4, 8}
    BY DEF Word
  <1>3. Executed(o, m) = Execute(m, Ins(i, w))
    BY <1>2, InstructionSets, ExecutedOne
  <1> DEFINE p == Execute(m, Ins(i, w))
  <1>4. Kept(m, p) /\ Same(w, p.rax, Result(m, i, w))
    BY ComputeStep
  <1> HIDE DEF p
  <1>5. Ends(m, p)
    BY <1>4 DEF Kept, Ends
  <1>6. ASSUME r.ok, Has(from, a, m) PROVE Has(ty, r, p)
    <2>1. Same(w, Result(m, i, w), r.n)
      BY <1>6
    <2>2. Same(w, p.rax, r.n)
      BY <1>4, <2>1, SameTrans
    <2> QED
      BY <1>4, <1>6, <2>2 DEF Has, Kept
  <1> QED
    BY <1>3, <1>5, <1>6 DEF p

(* The code of unary - and of ~ computes them. *)
LEMMA NegateMaps ==
  ASSUME NEW op \in {"Oneg", "Ocomp"}, NEW ty \in Types, NEW a \in Results(ty), NEW r,
         r.ok => r.mem = a.mem /\ r.n = ToType(ty, IF op = "Oneg" THEN -a.n ELSE -a.n - 1)
  PROVE  Maps(<<Ins(op, Width(ty))>>, ty, a, ty, r)
  <1> DEFINE w == Width(ty)
  <1>1. w \in Word /\ a.n \in Int /\ op \in Computing
    BY ValuesInt, ResultFields DEF Computing
  <1>2. ASSUME r.ok, NEW m \in Running, Has(ty, a, m) PROVE Same(w, Result(m, op, w), r.n)
    <2> DEFINE x == Low(w, m.rax)
               k == 2 ^ w - 1 - x
    <2>1. m.rax \in Int /\ Same(w, m.rax, a.n)
      BY <1>2, RegsInt DEF Has
    <2> HIDE DEF w
    <2>2. x \in Int /\ Same(w, x, a.n)
      BY <1>1, <2>1, LowFacts, SameTrans
    <2>3. Result(m, op, w) = IF op = "Oneg" THEN -x ELSE k
      BY DEF Result
    <2> HIDE DEF x
    <2>4. Same(w, -x, -a.n) /\ Same(w, k, -a.n - 1)
      BY <1>1, <2>2, NegationsAgree
    <2> HIDE DEF k
    <2>5. -a.n \in Int /\ -a.n - 1 \in Int
      BY <1>1
    <2>6. Same(w, -a.n, ToType(ty, -a.n)) /\ Same(w, -a.n - 1, ToType(ty, -a.n - 1))
      BY <2>5, ToTypeFacts DEF w
    <2>7. r.n = IF op = "Oneg" THEN ToType(ty, -a.n) ELSE ToType(ty, -a.n - 1)
      BY <1>2
    <2> QED
      BY <2>3, <2>4, <2>6, <2>7, SameTrans
  <1> QED
    BY <1>1, <1>2, ComputeMaps

(* No code: the number is the same, or its low bits. *)
LEMMA NoneMaps ==
  ASSUME NEW from \in Types, NEW ty \in Types, NEW a \in Results(from), NEW r,
         Width(ty) <= Width(from),
         r.ok => r.mem = a.mem /\ r.n \in Int /\ Same(Width(ty), a.n, r.n)
  PROVE  Maps(<<>>, from, a, ty, r)
  <1>1. SUFFICES ASSUME NEW m \in Running
                 PROVE  /\ Ends(m, m)
                        /\ r.ok /\ Has(from, a, m) => Has(ty, r, m)
    BY ExecutedNone DEF Maps
  <1>2. Ends(m, m)
    BY DEF Ends
  <1>3. ASSUME r.ok, Has(from, a, m) PROVE Has(ty, r, m)
    <2>1. m.rax \in Int /\ a.n \in Int /\ Width(ty) \in Word /\ Width(from) \in Word
      BY RegsInt, ResultFields, ValuesInt
    <2>2. Same(Width(from), m.rax, a.n)
      BY <1>3 DEF Has
    <2>3. Same(Width(ty), m.rax, a.n)
      BY <2>1, <2>2, SameHalf
    <2>4. Same(Width(ty), m.rax, r.n)
      BY <1>3, <2>3, SameTrans
    <2> QED
      BY <1>3, <2>4 DEF Has
  <1> QED
    BY <1>2, <1>3

(* The code of a conversion. *)
CastCode(from, ty) ==
  IF Width(ty) = 8 /\ Width(from) = 4 THEN << Ins(IF Signed(ty) THEN "movslq" ELSE "movq eax, rax", 8) >>
  ELSE << >>

(* A conversion that the assembler knows. *)
LEMMA CastMaps ==
  ASSUME NEW from \in Types, NEW ty \in Types, from # "ulong", Width(from) = 4 => Width(ty) = 4 \/ Signed(ty),
         NEW a \in Results(from)
  PROVE  Maps(CastCode(from, ty), from, a, ty, Converted(from, ty, a))
  <1> DEFINE r == Converted(from, ty, a)
  <1>1. /\ r.n = ToType(ty, a.n) /\ r.mem = a.mem
        /\ r.ok => a.ok /\ ~(~Signed(from) /\ Width(from) = 4 /\ Width(ty) = 8 /\ a.n > 7)
    BY DEF Converted, Means
  <1> HIDE DEF r
  <1>2. a.n \in Int /\ a.n \in Values(from) /\ Width(from) \in Word /\ Width(ty) \in Word
    BY ResultFields, ValuesInt
  <1>3. r.n \in Int /\ Same(Width(ty), a.n, r.n)
    BY <1>1, <1>2, ToTypeFacts
  <1>4. CASE Width(ty) = 8 /\ Width(from) = 4
    <2>1. Signed(ty) /\ CastCode(from, ty) = <<Ins("movslq", 8)>>
      BY <1>4 DEF CastCode
    <2>2. "movslq" \in Computing /\ 8 \in Word /\ 4 \in Word
      BY DEF Computing, Word
    <2>3. ASSUME r.ok, NEW m \in Running, Has(from, a, m) PROVE Same(8, Result(m, "movslq", 8), r.n)
      <3>1. m.rax \in Int /\ Same(4, m.rax, a.n)
        BY <1>4, <2>3, RegsInt DEF Has
      <3>2. AsSigned(4, m.rax) \in -8..7 /\ AsSigned(4, m.rax) \in Int /\ Same(4, AsSigned(4, m.rax), m.rax)
        BY <2>2, <3>1, SignedFacts
      <3>3. Same(4, AsSigned(4, m.rax), a.n)
        BY <3>1, <3>2, SameTrans
      <3>4. a.n \in -8..7
        <4>1. from \in {"int", "uint"}
          BY <1>4, TypeFacts DEF Types, Pointers
        <4>2. CASE from = "int"
          BY <1>2, <4>2 DEF Values
        <4>3. CASE from = "uint"
          <5>1. a.n \in 0..15 /\ ~(a.n > 7)
            BY <1>1, <1>2, <1>4, <2>3, <4>3, TypeFacts DEF Values
          <5> QED
            BY <5>1
        <4> QED
          BY <4>1, <4>2, <4>3
      <3>5. AsSigned(4, m.rax) = a.n
        BY <1>2, <3>2, <3>3, <3>4, Near4
      <3>6. Result(m, "movslq", 8) = AsSigned(4, m.rax)
        BY DEF Result
      <3> QED
        BY <1>3, <1>4, <3>5, <3>6
    <2> QED
      BY <1>1, <1>4, <2>1, <2>2, <2>3, ComputeMaps DEF r
  <1>5. CASE ~(Width(ty) = 8 /\ Width(from) = 4)
    <2>1. Width(ty) <= Width(from)
      BY <1>2, <1>5 DEF Word
    <2>2. CastCode(from, ty) = << >>
      BY <1>5 DEF CastCode
    <2> QED
      BY <1>1, <1>3, <2>1, <2>2, NoneMaps DEF r
  <1> QED
    BY <1>4, <1>5

-----------------------------------------------------------------------------
(* The code of a tree. *)

(* The code of an operator of one operand. *)
UnaryCode(op, ty, from) ==
  CASE op = "Oindir" -> <<Ins("load (rax)", Width(ty))>>
    [] op = "Opos"   -> <<>>
    [] op \in {"Oneg", "Ocomp"} -> <<Ins(op, Width(ty))>>
    [] op = "Onot"   -> <<Ins("cmp 0", Width(ty)), Set("e"), Ins("movzbl", 4)>>
    [] op = "Ocast"  -> CastCode(from, ty)

(* The code of an operator of two operands, after their own. *)
BinaryCode(op, ty, tl) ==
  IF op \in {"Odiv", "Omod"} THEN DivisionCode(op, ty)
  ELSE IF op \in Shifts THEN ShiftCode(op, ty)
  ELSE IF op \in Comparisons
  THEN <<Ins("cmp bx", Width(ty)), Set(CmpSuffix(op, Signed(tl))), Ins("movzbl", 4)>>
  ELSE <<Ins(op, Width(ty))>>

(* The operators of two operands. *)
BinaryOps == Arithmetic \cup Shifts \cup Comparisons

(* The parts of a tree of one operand. *)
LEMMA UnaryFields ==
  \A op, ty, base : /\ Unary(op, ty, base).op = op /\ Unary(op, ty, base).ty = ty /\ Unary(op, ty, base).base = base
                    /\ Unary(op, ty, base).code = Code([op |-> op, ty |-> ty, base |-> base, code |-> <<>>])
  BY DEF Unary, Emitted

(* Its code is that of the operand, then that of the operator. *)
LEMMA UnaryTree ==
  ASSUME NEW op, op \in {"Oindir", "Opos", "Oneg", "Ocomp", "Onot", "Ocast"}, NEW ty, NEW base
  PROVE  Unary(op, ty, base).code = base.code \o UnaryCode(op, ty, base.ty)
  <1> DEFINE u == [op |-> op, ty |-> ty, base |-> base, code |-> <<>>]
  <1>1. u.op = op /\ u.ty = ty /\ u.base = base
    OBVIOUS
  <1>2. Unary(op, ty, base).code = Code(u)
    BY UnaryFields
  <1> HIDE DEF u
  <1>3. Code(u) = u.base.code \o Operator(u)
    BY <1>1 DEF Code, Arithmetic, Shifts, Comparisons
  <1>4. Operator(u) = UnaryCode(op, ty, base.ty)
    BY <1>1 DEF Operator, UnaryCode, CastCode, Comparisons
  <1> QED
    BY <1>1, <1>2, <1>3, <1>4

(* The code of & is that of the lvalue and a move to rax. *)
LEMMA AddrTree ==
  ASSUME NEW ty, NEW base
  PROVE  Unary("Oaddr", ty, base).code = Lvalue(base) \o <<Ins("movq rbx, rax", 8)>>
  <1> DEFINE u == [op |-> "Oaddr", ty |-> ty, base |-> base, code |-> <<>>]
  <1>1. u.op = "Oaddr" /\ u.ty = ty /\ u.base = base
    OBVIOUS
  <1>2. Unary("Oaddr", ty, base).code = Code(u)
    BY UnaryFields
  <1> HIDE DEF u
  <1>3. Code(u) = Lvalue(u.base) \o Operator(u)
    BY <1>1 DEF Code, Arithmetic, Shifts, Comparisons
  <1>4. Operator(u) = <<Ins("movq rbx, rax", 8)>>
    BY <1>1 DEF Operator, Comparisons
  <1> QED
    BY <1>1, <1>2, <1>3, <1>4

(* The parts of a tree of two operands. *)
LEMMA BinaryFields ==
  \A op, ty, l, r : /\ Binary(op, ty, l, r).op = op /\ Binary(op, ty, l, r).ty = ty
                    /\ Binary(op, ty, l, r).code = Code([op |-> op, ty |-> ty, l |-> l, r |-> r, code |-> <<>>])
  BY DEF Binary, Emitted

(* The code of an assignment: the address is pushed while the value is     *)
(* computed.                                                               *)
LEMMA AssignTree ==
  ASSUME NEW ty, NEW l, NEW r
  PROVE  Binary("Oassign", ty, l, r).code
           = Lvalue(l) \o <<Push("rbx")>> \o r.code \o <<PopTo("rbx")>> \o <<Ins("Oassign", Width(ty))>>
  <1> DEFINE u == [op |-> "Oassign", ty |-> ty, l |-> l, r |-> r, code |-> <<>>]
  <1>1. u.op = "Oassign" /\ u.ty = ty /\ u.l = l /\ u.r = r
    OBVIOUS
  <1>2. Binary("Oassign", ty, l, r).code = Code(u)
    BY BinaryFields
  <1> HIDE DEF u
  <1>3. Code(u) = Stored(u) \o Operator(u)
    BY <1>1 DEF Code, Arithmetic, Shifts, Comparisons
  <1>4. Operator(u) = <<Ins("Oassign", Width(ty))>>
    BY <1>1 DEF Operator, Comparisons
  <1>5. Stored(u) = Lvalue(l) \o <<Push("rbx")>> \o r.code \o <<PopTo("rbx")>>
    BY <1>1 DEF Stored
  <1> QED
    BY <1>2, <1>3, <1>4, <1>5

(* The code of two operands, of which the right one is pushed, and of the  *)
(* operator.                                                               *)
LEMMA BinaryTree ==
  ASSUME NEW op, op \in BinaryOps, NEW ty, NEW l, NEW r
  PROVE  Binary(op, ty, l, r).code
           = r.code \o <<Push("rax")>> \o l.code \o <<PopTo(IF op \in Shifts THEN "rcx" ELSE "rbx")>>
             \o BinaryCode(op, ty, l.ty)
  <1> DEFINE u == [op |-> op, ty |-> ty, l |-> l, r |-> r, code |-> <<>>]
  <1>1. u.op = op /\ u.ty = ty /\ u.l = l /\ u.r = r
    OBVIOUS
  <1>2. Binary(op, ty, l, r).code = Code(u)
    BY BinaryFields
  <1> HIDE DEF u
  <1>3. Code(u) = Operands(u) \o Operator(u)
    BY <1>1 DEF Code, BinaryOps, Arithmetic, Shifts, Comparisons
  <1>4. Operands(u) = r.code \o <<Push("rax")>> \o l.code \o <<PopTo(IF op \in Shifts THEN "rcx" ELSE "rbx")>>
    BY <1>1 DEF Operands
  <1>5. Operator(u) = BinaryCode(op, ty, l.ty)
    <2>1. CASE op \in {"Odiv", "Omod"}
      BY <1>1, <2>1 DEF Operator, BinaryCode, DivisionCode, Comparisons
    <2>2. CASE op \in Shifts
      BY <1>1, <2>2 DEF Operator, BinaryCode, ShiftCode, Shifts, Comparisons
    <2>3. CASE op \in Comparisons
      BY <1>1, <2>3 DEF Operator, BinaryCode, Shifts, Comparisons
    <2>4. CASE op \in Arithmetic \ {"Odiv", "Omod"}
      BY <1>1, <2>4 DEF Operator, BinaryCode, Arithmetic, Shifts, Comparisons
    <2> QED
      BY <2>1, <2>2, <2>3, <2>4 DEF BinaryOps
  <1> QED
    BY <1>2, <1>3, <1>4, <1>5

(* The trees of constants and variables. *)
LEMMA LeafTree ==
  /\ \A k : LET t == Const(k) IN
       t.op = "Oconst" /\ t.ty = "int" /\ t.ival = k /\ t.code = <<MovConst(4, k)>>
  /\ \A x : LET t == Var(x) IN
       t.op = "Ovar" /\ t.ty = Variables[x] /\ t.name = x
       /\ t.code = <<Load(Width(Variables[x]), AddressOf[x])>>
  <1>1. ASSUME NEW k
        PROVE  LET t == Const(k) IN t.op = "Oconst" /\ t.ty = "int" /\ t.ival = k /\ t.code = <<MovConst(4, k)>>
    <2> DEFINE u == [op |-> "Oconst", ty |-> "int", ival |-> k, code |-> <<>>]
               t == Const(k)
    <2>1. t = [u EXCEPT !.code = Code(u)]
      BY DEF Const, Emitted
    <2>2. t.op = "Oconst" /\ t.ty = "int" /\ t.ival = k /\ t.code = Code(u)
      BY <2>1
    <2>3. u.op = "Oconst" /\ u.ty = "int" /\ u.ival = k
      OBVIOUS
    <2> HIDE DEF u, t
    <2>4. Code(u) = <<MovConst(4, k)>>
      BY <2>3, TypeFacts DEF Code, Arithmetic, Shifts, Comparisons
    <2> QED
      BY <2>2, <2>4 DEF t
  <1>2. ASSUME NEW x
        PROVE  LET t == Var(x) IN
               t.op = "Ovar" /\ t.ty = Variables[x] /\ t.name = x
               /\ t.code = <<Load(Width(Variables[x]), AddressOf[x])>>
    <2> DEFINE u == [op |-> "Ovar", ty |-> Variables[x], name |-> x, code |-> <<>>]
               t == Var(x)
    <2>1. t = [u EXCEPT !.code = Code(u)]
      BY DEF Var, Emitted
    <2>2. t.op = "Ovar" /\ t.ty = Variables[x] /\ t.name = x /\ t.code = Code(u)
      BY <2>1
    <2>3. u.op = "Ovar" /\ u.ty = Variables[x] /\ u.name = x
      OBVIOUS
    <2> HIDE DEF u, t
    <2>4. Code(u) = <<Load(Width(Variables[x]), AddressOf[x])>>
      BY <2>3 DEF Code, Arithmetic, Shifts, Comparisons
    <2> QED
      BY <2>2, <2>4 DEF t
  <1> QED
    BY <1>1, <1>2

-----------------------------------------------------------------------------
(* Trees that compute, and trees that are refused. *)

(* The tree t computes D, unless the assembler refuses it, and then s.     *)
Good(t, D, s) ==
  /\ t.ty \in Types
  /\ t.code \in Codes
  /\ D \in Dens(t.ty)
  /\ s \in BOOLEAN
  /\ IF Assembles(t.code) THEN Denotes(t.code, t.ty, D) ELSE s

(* A code is refused if a part of it is. *)
LEMMA AssemblesConcat ==
  ASSUME NEW c \in Codes, NEW d \in Codes
  PROVE  Assembles(c \o d) <=> Assembles(c) /\ Assembles(d)
  <1> DEFINE e == c \o d
  <1>1. /\ Len(e) = Len(c) + Len(d) /\ Len(c) \in Nat /\ Len(d) \in Nat
        /\ \A k \in 1..Len(c) : e[k] = c[k]
        /\ \A k \in 1..Len(d) : e[Len(c) + k] = d[k]
    BY DEF Codes
  <1> HIDE DEF e
  <1>2. ASSUME Assembles(e) PROVE Assembles(c) /\ Assembles(d)
    <2>1. ASSUME NEW k \in 1..Len(c) PROVE c[k].i # "movq eax, rax"
      <3>1. k \in 1..Len(e)
        BY <1>1
      <3> QED
        BY <1>1, <1>2, <3>1 DEF Assembles
    <2>2. ASSUME NEW k \in 1..Len(d) PROVE d[k].i # "movq eax, rax"
      <3>1. Len(c) + k \in 1..Len(e)
        BY <1>1
      <3> QED
        BY <1>1, <1>2, <3>1 DEF Assembles
    <2> QED
      BY <2>1, <2>2 DEF Assembles
  <1>3. ASSUME Assembles(c), Assembles(d) PROVE Assembles(e)
    <2>1. ASSUME NEW k \in 1..Len(e) PROVE e[k].i # "movq eax, rax"
      <3>1. CASE k \in 1..Len(c)
        BY <1>1, <1>3, <3>1 DEF Assembles
      <3>2. CASE k \notin 1..Len(c)
        <4>1. k - Len(c) \in 1..Len(d) /\ k = Len(c) + (k - Len(c))
          BY <1>1, <3>2
        <4> QED
          BY <1>1, <1>3, <4>1 DEF Assembles
      <3> QED
        BY <3>1, <3>2
    <2> QED
      BY <2>1 DEF Assembles
  <1> QED
    BY <1>2, <1>3 DEF e

(* The assembler knows every instruction but one. *)
LEMMA AssemblesShort ==
  /\ Assembles(<<>>)
  /\ \A i : i.i # "movq eax, rax" => Assembles(<<i>>)
  /\ \A i, j : i.i # "movq eax, rax" /\ j.i # "movq eax, rax" => Assembles(<<i, j>>)
  /\ \A i, j, k : i.i # "movq eax, rax" /\ j.i # "movq eax, rax" /\ k.i # "movq eax, rax" => Assembles(<<i, j, k>>)
  <1> DEFINE P(i) == i.i # "movq eax, rax"
  <1>1. \A c : Assembles(c) <=> \A n \in 1..Len(c) : P(c[n])
    BY DEF Assembles
  <1> HIDE DEF P
  <1>2. Assembles(<<>>)
    BY <1>1
  <1>3. ASSUME NEW i, P(i) PROVE Assembles(<<i>>)
    <2>1. \A n \in 1..1 : P(<<i>>[n])
      BY <1>3
    <2> QED
      BY <1>1, <2>1
  <1>4. ASSUME NEW i, NEW j, P(i), P(j) PROVE Assembles(<<i, j>>)
    <2>1. \A n \in 1..2 : P(<<i, j>>[n])
      BY <1>4
    <2> QED
      BY <1>1, <2>1
  <1>5. ASSUME NEW i, NEW j, NEW k, P(i), P(j), P(k) PROVE Assembles(<<i, j, k>>)
    <2>1. \A n \in 1..3 : P(<<i, j, k>>[n])
      BY <1>5
    <2> QED
      BY <1>1, <2>1
  <1> QED
    BY <1>2, <1>3, <1>4, <1>5 DEF P

(* A tree of one operand is good if the code of its operator maps the      *)
(* operand's result to its own.                                            *)
LEMMA GoodUnary ==
  ASSUME NEW t, NEW b, NEW D, NEW E, NEW s, NEW o \in Codes, Good(b, D, s), Assembles(o),
         t.ty \in Types, t.code = b.code \o o, E \in Dens(t.ty),
         \A mem \in Mem : (E[mem].ok => D[mem].ok) /\ Maps(o, b.ty, D[mem], t.ty, E[mem])
  PROVE  Good(t, E, s)
  <1>1. b.code \in Codes
    BY DEF Good
  <1>2. t.code \in Codes /\ (Assembles(t.code) <=> Assembles(b.code))
    BY <1>1, AssemblesConcat, Then
  <1>3. ASSUME Assembles(b.code) PROVE Denotes(t.code, t.ty, E)
    <2>1. Denotes(b.code, b.ty, D)
      BY <1>3 DEF Good
    <2> QED
      BY <1>1, <2>1, UnaryDenotes
  <1> QED
    BY <1>2, <1>3 DEF Good

(* The code of two operands and an operator; the right one is popped to    *)
(* reg.                                                                    *)
Around(cr, cl, reg, o) == cr \o <<Push("rax")>> \o cl \o <<PopTo(reg)>> \o o

(* The code o makes of the results L and R of two operands the result E. *)
Composes(o, reg, tl, L, tr, R, ty, E) ==
  \A mem \in Mem : /\ E[mem].ok => L[R[mem].mem].ok /\ R[mem].ok
                   /\ Maps2(o, reg, tl, L[R[mem].mem], tr, R[mem], ty, E[mem])

(* One more reason to be refused. *)
LEMMA GoodWeaker ==
  ASSUME NEW t, NEW D, NEW r, NEW s \in BOOLEAN, Good(t, D, r), r => s
  PROVE  Good(t, D, s)
  BY DEF Good

(* The same for a tree of two operands. *)
LEMMA GoodBinary ==
  ASSUME NEW t, NEW l, NEW r, NEW L, NEW R, NEW E, NEW s, NEW o \in Codes, NEW reg, reg \in {"rbx", "rcx"},
         Good(l, L, s), Good(r, R, s), Assembles(o),
         t.ty \in Types, t.code = Around(r.code, l.code, reg, o),
         E \in Dens(t.ty),
         Composes(o, reg, l.ty, L, r.ty, R, t.ty, E)
  PROVE  Good(t, E, s)
  <1>1. l.code \in Codes /\ r.code \in Codes /\ R \in Dens(r.ty) /\ r.ty \in Types
    BY DEF Good
  <1>2. Push("rax") \in InstructionSet /\ PopTo(reg) \in InstructionSet
    BY InstructionSets
  <1> DEFINE p == <<Push("rax")>>
             q == <<PopTo(reg)>>
             c1 == r.code \o p
             c2 == c1 \o l.code
             c3 == c2 \o q
  <1>3. p \in Codes /\ q \in Codes
    BY <1>2, ShortCodes
  <1>4. Assembles(p) /\ Assembles(q)
    BY AssemblesShort DEF Push, PopTo
  <1> HIDE DEF p, q, c1, c2, c3
  <1>5. c1 \in Codes /\ (Assembles(c1) <=> Assembles(r.code))
    BY <1>1, <1>3, <1>4, AssemblesConcat, Then DEF c1
  <1>6. c2 \in Codes /\ (Assembles(c2) <=> Assembles(r.code) /\ Assembles(l.code))
    BY <1>1, <1>5, AssemblesConcat, Then DEF c2
  <1>7. c3 \in Codes /\ (Assembles(c3) <=> Assembles(r.code) /\ Assembles(l.code))
    BY <1>3, <1>4, <1>6, AssemblesConcat, Then DEF c3
  <1>8. t.code = c3 \o o
    BY DEF c1, c2, c3, p, q, Around
  <1>9. t.code \in Codes /\ (Assembles(t.code) <=> Assembles(r.code) /\ Assembles(l.code))
    BY <1>7, <1>8, AssemblesConcat, Then
  <1>10. ASSUME Assembles(r.code), Assembles(l.code) PROVE Denotes(t.code, t.ty, E)
    <2>1. Denotes(l.code, l.ty, L) /\ Denotes(r.code, r.ty, R)
      BY <1>10 DEF Good
    <2> QED
      BY <1>1, <2>1, OperandsDenote DEF Around, Composes
  <1> QED
    BY <1>9, <1>10 DEF Good

(* A constant computes its value. *)
LEMMA ConstGood ==
  ASSUME NEW k \in 0..7
  PROVE  Good(Const(k), [mem \in Mem |-> Means(k, mem, TRUE)], FALSE)
  <1> DEFINE t == Const(k)
             i == MovConst(4, k)
             D == [mem \in Mem |-> Means(k, mem, TRUE)]
  <1>1. t.ty = "int" /\ t.code = <<i>>
    BY LeafTree
  <1> HIDE DEF t
  <1>2. 4 \in Word /\ k \in Int
    BY DEF Word
  <1>3. i \in InstructionSet /\ Assembles(<<i>>) /\ <<i>> \in Codes
    <2>1. i \in InstructionSet
      BY <1>2, InstructionSets
    <2>2. i.i # "movq eax, rax"
      BY DEF MovConst
    <2> HIDE DEF i
    <2> QED
      BY <2>1, <2>2, AssemblesShort, ShortCodes
  <1>4. D \in Dens("int")
    <2>1. ASSUME NEW mem \in Mem PROVE Means(k, mem, TRUE) \in Results("int")
      BY DEF Results, Means, Values
    <2> QED
      BY <2>1 DEF Dens
  <1>5. Denotes(<<i>>, "int", D)
    <2>1. SUFFICES ASSUME NEW m \in Running
                   PROVE  /\ Ends(m, Executed(<<i>>, m))
                          /\ D[m.mem].ok => Has("int", D[m.mem], Executed(<<i>>, m))
      BY DEF Denotes
    <2>2. Executed(<<i>>, m) = Execute(m, i)
      BY <1>3, ExecutedOne
    <2> DEFINE n == Execute(m, i)
    <2>3. Kept(m, n) /\ n.rax = Low(4, k)
      BY <1>2, ConstStep
    <2> HIDE DEF n
    <2>4. Same(4, n.rax, k)
      BY <1>2, <2>3, LowFacts
    <2>5. D[m.mem].n = k /\ D[m.mem].mem = m.mem
      BY RegsInt DEF Means
    <2> HIDE DEF D
    <2> QED
      BY <2>2, <2>3, <2>4, <2>5, TypeFacts DEF Ends, Has, Kept, n
  <1> QED
    BY <1>1, <1>3, <1>4, <1>5 DEF Good, Types, t

(* The type and the place of a variable. *)
LEMMA VariableTypes ==
  ASSUME NEW x \in DOMAIN Variables
  PROVE  /\ Variables[x] \in Types /\ Variables[x] # "ulong" /\ Variables[x] \in {"int", "uint", "long"} \cup Pointers
         /\ AddressOf[x] \in Regs /\ AddressOf[x] \in Int
         /\ \A mem \in Mem : AddressOf[x] \in DOMAIN mem /\ mem[AddressOf[x]] \in Int
  <1>1. Variables[x] \in {"int", "uint", "long"} \cup Pointers
    BY VariablesAssumption
  <1>2. AddressOf[x] \in 0..255
    BY VariablesAssumption
  <1>3. \A mem \in Mem : AddressOf[x] \in DOMAIN mem /\ mem[AddressOf[x]] \in Nat
    BY DEF Mem
  <1> QED
    BY <1>1, <1>2, <1>3 DEF Types, Pointers, Regs

(* A variable computes what the memory holds for it, in its type. *)
LEMMA VarGood ==
  ASSUME NEW x \in DOMAIN Variables
  PROVE  Good(Var(x), [mem \in Mem |-> Means(ToType(Variables[x], mem[AddressOf[x]]), mem, TRUE)], FALSE)
  <1> DEFINE t == Var(x)
             ty == Variables[x]
             w == Width(ty)
             i == Load(w, AddressOf[x])
             D == [mem \in Mem |-> Means(ToType(ty, mem[AddressOf[x]]), mem, TRUE)]
  <1>1. t.ty = ty /\ t.code = <<i>>
    BY LeafTree
  <1> HIDE DEF t
  <1>2. /\ ty \in Types /\ AddressOf[x] \in Regs
        /\ \A mem \in Mem : mem[AddressOf[x]] \in Int
    BY VariableTypes
  <1> HIDE DEF ty
  <1>3. w \in Word
    BY <1>2, ValuesInt
  <1>4. i \in InstructionSet /\ Assembles(<<i>>) /\ <<i>> \in Codes
    <2>1. i \in InstructionSet
      BY <1>2, <1>3, InstructionSets
    <2>2. i.i # "movq eax, rax"
      BY DEF Load
    <2> HIDE DEF i
    <2> QED
      BY <2>1, <2>2, AssemblesShort, ShortCodes
  <1>5. D \in Dens(ty)
    <2>1. ASSUME NEW mem \in Mem PROVE Means(ToType(ty, mem[AddressOf[x]]), mem, TRUE) \in Results(ty)
      <3>1. ToType(ty, mem[AddressOf[x]]) \in Values(ty)
        BY <1>2, ToTypeFacts
      <3> QED
        BY <3>1 DEF Results, Means
    <2> QED
      BY <2>1 DEF Dens
  <1>6. Denotes(<<i>>, ty, D)
    <2>1. SUFFICES ASSUME NEW m \in Running
                   PROVE  /\ Ends(m, Executed(<<i>>, m))
                          /\ D[m.mem].ok => Has(ty, D[m.mem], Executed(<<i>>, m))
      BY DEF Denotes
    <2>2. Executed(<<i>>, m) = Execute(m, i)
      BY <1>4, ExecutedOne
    <2> DEFINE n == Execute(m, i)
               v == m.mem[AddressOf[x]]
    <2>3. Kept(m, n) /\ n.rax = Low(w, v)
      <3> HIDE DEF w
      <3> QED
        BY <1>3, LoadStep
    <2> HIDE DEF n
    <2>4. m.mem \in Mem /\ v \in Int
      BY <1>2, RegsInt
    <2>5. D[m.mem].n = ToType(ty, v) /\ D[m.mem].mem = m.mem
      BY <2>4 DEF Means
    <2> HIDE DEF D, v
    <2>6. Same(w, Low(w, v), v)
      BY <1>3, <2>4, LowFacts
    <2>7. Same(w, v, ToType(ty, v))
      BY <1>2, <2>4, ToTypeFacts
    <2>8. Same(w, n.rax, D[m.mem].n)
      BY <2>3, <2>5, <2>6, <2>7, SameTrans
    <2> QED
      BY <2>2, <2>3, <2>5, <2>8 DEF Ends, Has, Kept, n
  <1> QED
    BY <1>1, <1>2, <1>4, <1>5, <1>6 DEF Good, t, ty

-----------------------------------------------------------------------------
(* Conversions and the operators of one operand. *)

(* The types of the values the parser holds. *)
ValueTypes == {"int", "uint", "long"} \cup Pointers

(* Each is a type of integers or of pointers. *)
LEMMA ValueTypeFacts ==
  ASSUME NEW ty \in ValueTypes
  PROVE  /\ ty \in Types /\ ty # "ulong"
         /\ ty \in ArithTypes \/ ty \in Pointers
         /\ IsInt(ty) <=> ty \in ArithTypes
         /\ IsPtr(ty) <=> ty \in Pointers
  BY DEF ValueTypes, Types, Pointers, ArithTypes, IsInt, IsPtr

(* What a conversion gives. *)
LEMMA ConvertedResult ==
  ASSUME NEW from \in Types, NEW to \in Types, NEW a \in Results(from)
  PROVE  /\ Converted(from, to, a) \in Results(to)
         /\ Converted(from, to, a).n = ToType(to, a.n)
         /\ Converted(from, to, a).mem = a.mem
         /\ Converted(from, to, a).ok => a.ok
         /\ from = to => Converted(from, to, a) = a
  <1>1. a.n \in Int /\ a.mem \in Mem /\ a.ok \in BOOLEAN /\ a.n \in Values(from)
    BY ResultFields
  <1>2. ToType(to, a.n) \in Values(to) /\ (a.n \in Values(to) => ToType(to, a.n) = a.n)
    BY <1>1, ToTypeFacts
  <1> DEFINE b == a.ok /\ ~(~Signed(from) /\ Width(from) = 4 /\ Width(to) = 8 /\ a.n > 7)
  <1>3. Converted(from, to, a) = [n |-> ToType(to, a.n), mem |-> a.mem, ok |-> b]
    BY DEF Converted, Means
  <1>4. b \in BOOLEAN /\ (b => a.ok) /\ (from = to => b = a.ok)
    BY <1>1
  <1> HIDE DEF b
  <1>5. a = [n |-> a.n, mem |-> a.mem, ok |-> a.ok]
    BY DEF Results
  <1> QED
    BY <1>1, <1>2, <1>3, <1>4, <1>5 DEF Results

(* The code of a conversion; the assembler refuses that of a short integer *)
(* to a long type without a sign.                                          *)
LEMMA CastCodes ==
  ASSUME NEW from \in Types, NEW ty \in Types
  PROVE  /\ CastCode(from, ty) \in Codes
         /\ (Width(from) = 4 => Width(ty) = 4 \/ Signed(ty)) => Assembles(CastCode(from, ty))
         /\ ~(Width(from) = 4 => Width(ty) = 4 \/ Signed(ty)) => ~Assembles(CastCode(from, ty))
  <1> DEFINE i == Ins(IF Signed(ty) THEN "movslq" ELSE "movq eax, rax", 8)
  <1>1. i \in InstructionSet /\ (i.i = "movq eax, rax" <=> ~Signed(ty))
    <2>1. Ins("movslq", 8) \in InstructionSet /\ Ins("movq eax, rax", 8) \in InstructionSet
      BY InstructionSets DEF Computing
    <2>2. Ins("movslq", 8).i = "movslq" /\ Ins("movq eax, rax", 8).i = "movq eax, rax"
      BY DEF Ins
    <2> QED
      BY <2>1, <2>2
  <1>2. CastCode(from, ty) = IF Width(ty) = 8 /\ Width(from) = 4 THEN <<i>> ELSE << >>
    BY DEF CastCode
  <1> HIDE DEF i
  <1>3. <<i>> \in Codes /\ << >> \in Codes /\ Assembles(<< >>)
    BY <1>1, ShortCodes, AssemblesShort
  <1>4. Assembles(<<i>>) <=> Signed(ty)
    <2>1. Signed(ty) => Assembles(<<i>>)
      BY <1>1, AssemblesShort
    <2>2. Len(<<i>>) = 1 /\ <<i>>[1] = i /\ 1 \in 1..1
      OBVIOUS
    <2>3. Assembles(<<i>>) => i.i # "movq eax, rax"
      BY <2>2 DEF Assembles
    <2> QED
      BY <1>1, <2>1, <2>3
  <1>5. Width(ty) \in {4, 8}
    BY ValuesInt DEF Word
  <1> QED
    BY <1>2, <1>3, <1>4, <1>5

(* convert computes the conversion, unless the code is the one refused. *)
LEMMA ConvertGood ==
  ASSUME NEW t, NEW D, NEW s, Good(t, D, s), t.ty # "ulong", NEW to \in Types,
         Width(t.ty) = 4 => Width(to) = 4 \/ Signed(to)
  PROVE  /\ Good(Convert(to, t), [mem \in Mem |-> Converted(t.ty, to, D[mem])], s)
         /\ Convert(to, t).ty = to
  <1> DEFINE E == [mem \in Mem |-> Converted(t.ty, to, D[mem])]
  <1>1. t.ty \in Types /\ D \in Dens(t.ty)
    BY DEF Good
  <1>2. \A mem \in Mem : D[mem] \in Results(t.ty)
    BY <1>1 DEF Dens
  <1>3. CASE t.ty = to
    <2>1. \A mem \in Mem : E[mem] = D[mem]
      BY <1>1, <1>2, <1>3, ConvertedResult
    <2>2. E = D
      BY <1>1, <2>1 DEF Dens
    <2> QED
      BY <1>3, <2>2 DEF Convert
  <1>4. CASE t.ty # to
    <2> DEFINE u == Unary("Ocast", to, t)
    <2>1. u.ty = to /\ u.code = t.code \o UnaryCode("Ocast", to, t.ty)
      <3>1. u.ty = to
        BY UnaryFields
      <3>2. u.code = t.code \o UnaryCode("Ocast", to, t.ty)
        BY UnaryTree
      <3> QED
        BY <3>1, <3>2
    <2>2. UnaryCode("Ocast", to, t.ty) = CastCode(t.ty, to)
      BY DEF UnaryCode
    <2> HIDE DEF u
    <2>3. E \in Dens(to)
      BY <1>1, <1>2, ConvertedResult DEF Dens
    <2>4. ASSUME NEW mem \in Mem
          PROVE  (E[mem].ok => D[mem].ok) /\ Maps(CastCode(t.ty, to), t.ty, D[mem], to, E[mem])
      <3>1. E[mem] = Converted(t.ty, to, D[mem]) /\ D[mem] \in Results(t.ty)
        BY <1>2
      <3>2. Maps(CastCode(t.ty, to), t.ty, D[mem], to, Converted(t.ty, to, D[mem]))
        BY <1>1, <3>1, CastMaps
      <3>3. Converted(t.ty, to, D[mem]).ok => D[mem].ok
        BY <1>1, <3>1, ConvertedResult
      <3> QED
        BY <3>1, <3>2, <3>3
    <2>5. CastCode(t.ty, to) \in Codes /\ Assembles(CastCode(t.ty, to))
      BY <1>1, CastCodes
    <2> HIDE DEF E
    <2>6. Good(u, E, s)
      BY <2>1, <2>2, <2>3, <2>4, <2>5, GoodUnary
    <2>7. Convert(to, t) = u
      BY <1>4 DEF Convert, u
    <2> QED
      BY <2>1, <2>6, <2>7 DEF E
  <1> QED
    BY <1>3, <1>4

(* An int made a pointer: the assembler does not know it. *)
LEMMA PointerCast ==
  ASSUME NEW t, NEW D, NEW s, Good(t, D, s), t.ty # "ulong", NEW to \in Types, NEW E \in Dens(to),
         Width(t.ty) = 4, Width(to) # 4, ~Signed(to)
  PROVE  Good(Convert(to, t), E, TRUE) /\ Convert(to, t).ty = to
  <1> DEFINE u == Unary("Ocast", to, t)
  <1>1. u.ty = to /\ u.code = t.code \o UnaryCode("Ocast", to, t.ty)
    <2>1. u.ty = to
      BY UnaryFields
    <2>2. u.code = t.code \o UnaryCode("Ocast", to, t.ty)
      BY UnaryTree
    <2> QED
      BY <2>1, <2>2
  <1>2. UnaryCode("Ocast", to, t.ty) = CastCode(t.ty, to)
    BY DEF UnaryCode
  <1>3. Convert(to, t) = u
    BY DEF Convert
  <1> HIDE DEF u
  <1>4. t.ty \in Types /\ t.code \in Codes
    BY DEF Good
  <1>5. CastCode(t.ty, to) \in Codes /\ ~Assembles(CastCode(t.ty, to))
    BY <1>4, CastCodes
  <1>6. u.code \in Codes /\ ~Assembles(u.code)
    <2> DEFINE c == CastCode(t.ty, to)
    <2> HIDE DEF c
    <2>1. c \in Codes /\ ~Assembles(c) /\ u.code = t.code \o c
      BY <1>1, <1>2, <1>5 DEF c
    <2>2. Assembles(t.code \o c) <=> Assembles(t.code) /\ Assembles(c)
      BY <1>4, <2>1, AssemblesConcat
    <2>3. t.code \o c \in Codes
      BY <1>4, <2>1, Then
    <2> QED
      BY <2>1, <2>2, <2>3
  <1> QED
    BY <1>1, <1>3, <1>6 DEF Good

(* What +, -, ~ and ! give. *)
LEMMA NegatedResult ==
  ASSUME NEW op, op \in {"Opos", "Oneg", "Ocomp", "Onot"}, NEW ty \in Types, NEW from \in Types, NEW a \in Results(from),
         op = "Onot" => ty = "int"
  PROVE  /\ Negated(op, ty, from, a) \in Results(ty)
         /\ Negated(op, ty, from, a).mem = a.mem
         /\ Negated(op, ty, from, a).ok => a.ok /\ (op = "Onot" => Fits(from, a.n))
         /\ op = "Onot" => Negated(op, ty, from, a).n = IF a.n = 0 THEN 1 ELSE 0
         /\ op = "Oneg" => Negated(op, ty, from, a).n = ToType(ty, -a.n)
         /\ op = "Ocomp" => Negated(op, ty, from, a).n = ToType(ty, -a.n - 1)
         /\ op = "Opos" => Negated(op, ty, from, a).n = ToType(ty, a.n)
  <1>1. a.n \in Int /\ a.mem \in Mem /\ a.ok \in BOOLEAN
    BY ResultFields
  <1> DEFINE x == -a.n
             y == -a.n - 1
             b == a.ok /\ (op = "Onot" => Fits(from, a.n))
             v == CASE op = "Onot"  -> IF a.n = 0 THEN 1 ELSE 0
                    [] op = "Oneg"  -> ToType(ty, x)
                    [] op = "Ocomp" -> ToType(ty, y)
                    [] op = "Opos"  -> ToType(ty, a.n)
  <1>2. x \in Int /\ y \in Int
    BY <1>1
  <1>3. Negated(op, ty, from, a) = [n |-> v, mem |-> a.mem, ok |-> b]
    BY DEF Negated, Means
  <1> HIDE DEF x, y
  <1>4. ToType(ty, x) \in Values(ty) /\ ToType(ty, y) \in Values(ty) /\ ToType(ty, a.n) \in Values(ty)
    BY <1>1, <1>2, ToTypeFacts
  <1>5. op = "Onot" => 0 \in Values(ty) /\ 1 \in Values(ty)
    BY DEF Values
  <1>6. v \in Values(ty)
    BY <1>4, <1>5
  <1>7. b \in BOOLEAN
    BY <1>1
  <1>8. /\ op = "Onot" => v = IF a.n = 0 THEN 1 ELSE 0
        /\ op = "Oneg" => v = ToType(ty, -a.n)
        /\ op = "Ocomp" => v = ToType(ty, -a.n - 1)
        /\ op = "Opos" => v = ToType(ty, a.n)
    BY DEF x, y
  <1>9. b => a.ok /\ (op = "Onot" => Fits(from, a.n))
    OBVIOUS
  <1> HIDE DEF v, b
  <1>10. [n |-> v, mem |-> a.mem, ok |-> b] \in Results(ty)
    BY <1>1, <1>6, <1>7 DEF Results
  <1> QED
    BY <1>3, <1>8, <1>9, <1>10

(* The code of such an operator follows that of its operand. *)
LEMMA NegateTree ==
  ASSUME NEW t, NEW op, op \in {"Opos", "Oneg", "Ocomp", "Onot"}, NEW ty
  PROVE  Unary(op, ty, t).code = t.code \o UnaryCode(op, ty, t.ty)
  BY UnaryTree

(* +, -, ~ and ! compute their meaning. *)
LEMMA NegateGood ==
  ASSUME NEW t, NEW D, NEW s, Good(t, D, s), t.ty # "ulong", NEW op, op \in {"Opos", "Oneg", "Ocomp", "Onot"},
         NEW ty \in Types, op = "Onot" => ty = "int", op # "Onot" => ty = t.ty
  PROVE  Good(Unary(op, ty, t), [mem \in Mem |-> Negated(op, ty, t.ty, D[mem])], s)
  <1> DEFINE E == [mem \in Mem |-> Negated(op, ty, t.ty, D[mem])]
             u == Unary(op, ty, t)
             o == UnaryCode(op, ty, t.ty)
  <1>1. t.ty \in Types /\ D \in Dens(t.ty)
    BY DEF Good
  <1>2. \A mem \in Mem : D[mem] \in Results(t.ty)
    BY <1>1 DEF Dens
  <1>3. u.ty = ty /\ u.code = t.code \o o
    <2>1. u.ty = ty
      BY UnaryFields
    <2>2. u.code = t.code \o o
      BY NegateTree
    <2> QED
      BY <2>1, <2>2
  <1> HIDE DEF u
  <1>4. E \in Dens(ty)
    BY <1>1, <1>2, NegatedResult DEF Dens
  <1>5. Width(ty) \in Word /\ Width(ty) \in {1, 4, 8} /\ Width("int") = 4
    BY ValuesInt, TypeFacts DEF Word
  <1>6. ASSUME NEW mem \in Mem
        PROVE  (E[mem].ok => D[mem].ok) /\ Maps(o, t.ty, D[mem], ty, E[mem])
    <2> DEFINE a == D[mem]
               r == Negated(op, ty, t.ty, a)
    <2>1. E[mem] = r /\ a \in Results(t.ty)
      BY <1>2
    <2> HIDE DEF a, r
    <2>2. /\ r.mem = a.mem
          /\ r.ok => a.ok /\ (op = "Onot" => Fits(t.ty, a.n))
          /\ op = "Onot" => r.n = IF a.n = 0 THEN 1 ELSE 0
          /\ op = "Oneg" => r.n = ToType(ty, -a.n)
          /\ op = "Ocomp" => r.n = ToType(ty, -a.n - 1)
          /\ op = "Opos" => r.n = ToType(ty, a.n)
      <3>1. a \in Results(t.ty) /\ t.ty \in Types /\ (op = "Onot" => ty = "int")
        BY <1>1, <2>1
      <3>2. r = Negated(op, ty, t.ty, a)
        BY DEF r
      <3> QED
        BY <3>1, <3>2, NegatedResult
    <2>3. Maps(o, t.ty, a, ty, r)
      <3>1. CASE op = "Onot"
        <4>1. o = <<Ins("cmp 0", 4), Set("e"), Ins("movzbl", 4)>>
          BY <1>5, <3>1 DEF UnaryCode
        <4> QED
          BY <1>1, <2>1, <2>2, <3>1, <4>1, NotMaps
      <3>2. CASE op \in {"Oneg", "Ocomp"}
        <4>1. o = <<Ins(op, Width(ty))>> /\ ty = t.ty
          BY <3>2 DEF UnaryCode
        <4>2. r.n = ToType(ty, IF op = "Oneg" THEN -a.n ELSE -a.n - 1)
          BY <2>2, <3>2
        <4> QED
          BY <1>1, <2>1, <2>2, <3>2, <4>1, <4>2, NegateMaps
      <3>3. CASE op = "Opos"
        <4>1. o = <<>> /\ ty = t.ty
          BY <3>3 DEF UnaryCode
        <4>2. a.n \in Int
          BY <1>1, <2>1, ResultFields
        <4>3. r.n \in Int /\ Same(Width(ty), a.n, r.n)
          BY <2>2, <3>3, <4>2, ToTypeFacts
        <4>4. Width(ty) <= Width(t.ty)
          BY <1>5, <4>1 DEF Word
        <4> QED
          BY <1>1, <2>1, <2>2, <4>1, <4>3, <4>4, NoneMaps
      <3> QED
        BY <3>1, <3>2, <3>3
    <2> QED
      BY <2>1, <2>2, <2>3 DEF a
  <1>7. o \in Codes /\ Assembles(o)
    <2>1. CASE op = "Onot"
      <3> DEFINE i == Ins("cmp 0", 4)
                 j == Set("e")
                 k == Ins("movzbl", 4)
      <3>1. o = <<i, j, k>>
        BY <1>5, <2>1 DEF UnaryCode
      <3>2. i \in InstructionSet /\ j \in InstructionSet /\ k \in InstructionSet
        BY InstructionSets DEF Kinds, Computing, Conditions
      <3>3. i.i # "movq eax, rax" /\ j.i # "movq eax, rax" /\ k.i # "movq eax, rax"
        BY DEF Ins, Set
      <3> HIDE DEF i, j, k, o
      <3> QED
        BY <3>1, <3>2, <3>3, ShortCodes, AssemblesShort
    <2>2. CASE op \in {"Oneg", "Ocomp"}
      <3> DEFINE i == Ins(op, Width(ty))
      <3>1. o = <<i>>
        BY <2>2 DEF UnaryCode
      <3>2. i \in InstructionSet
        BY <1>5, <2>2, InstructionSets DEF Computing
      <3>3. i.i # "movq eax, rax"
        BY <2>2 DEF Ins
      <3> HIDE DEF i, o
      <3> QED
        BY <3>1, <3>2, <3>3, ShortCodes, AssemblesShort
    <2>3. CASE op = "Opos"
      <3>1. o = <<>>
        BY <2>3 DEF UnaryCode
      <3>2. <<>> \in Codes
        BY DEF Codes
      <3> QED
        BY <3>1, <3>2, AssemblesShort
    <2> QED
      BY <2>1, <2>2, <2>3
  <1> HIDE DEF E, o
  <1> QED
    BY <1>3, <1>4, <1>6, <1>7, GoodUnary DEF E, u

-----------------------------------------------------------------------------
(* Places: *, & and assignments. *)

(* Two instructions are one and one. *)
LEMMA OneAndOne ==
  ASSUME NEW i, NEW j
  PROVE  <<i, j>> = <<i>> \o <<j>>
  <1> DEFINE c == <<i>>
  <1>1. c \in Seq({i, j}) /\ j \in {i, j}
    OBVIOUS
  <1>2. c \o <<j>> = Append(c, j)
    <2> HIDE DEF c
    <2> QED
      BY <1>1, AppendIsConcat
  <1>3. <<i, j>> = Append(<<i>>, j)
    OBVIOUS
  <1> QED
    BY <1>2, <1>3

(* A result of a type. *)
LEMMA MeansResult ==
  ASSUME NEW ty, NEW n \in Values(ty), NEW mem \in Mem, NEW ok \in BOOLEAN
  PROVE  Means(n, mem, ok) \in Results(ty)
  BY DEF Means, Results

(* The address of an int variable is one the memory has. *)
LEMMA CellsFacts ==
  ASSUME NEW a \in Cells, NEW mem \in Mem
  PROVE  a \in DOMAIN mem /\ mem[a] \in Int /\ a \in Regs
  <1>1. PICK x \in DOMAIN Variables : a = AddressOf[x]
    BY DEF Cells
  <1> QED
    BY <1>1, VariableTypes

(* What * gives. *)
LEMMA PointedResult ==
  ASSUME NEW a \in Results("int*")
  PROVE  /\ Pointed(a) \in Results("int") /\ Pointed(a).mem = a.mem
         /\ Pointed(a).ok => a.ok /\ a.n \in Cells /\ Pointed(a).n = ToType("int", a.mem[a.n])
  <1>1. "int*" \in Types /\ "int" \in Types
    BY DEF Types, Pointers
  <1>2. a.mem \in Mem /\ 0 \in Values("int")
    BY <1>1, ResultFields, ValuesInt
  <1>3. CASE a.ok /\ a.n \in Cells
    <2> DEFINE v == ToType("int", a.mem[a.n])
    <2>1. Pointed(a) = Means(v, a.mem, TRUE)
      BY <1>3 DEF Pointed
    <2>2. a.mem[a.n] \in Int
      BY <1>2, <1>3, CellsFacts
    <2>3. v \in Values("int")
      BY <1>1, <2>2, ToTypeFacts
    <2> HIDE DEF v
    <2>4. Means(v, a.mem, TRUE) \in Results("int")
      BY <1>2, <2>3, MeansResult
    <2> QED
      <3>1. Pointed(a).n = v /\ Pointed(a).mem = a.mem
        BY <2>1 DEF Means
      <3> QED
        BY <1>3, <2>1, <2>4, <3>1 DEF v
  <1>4. CASE ~(a.ok /\ a.n \in Cells)
    <2>1. Pointed(a) = [n |-> 0, mem |-> a.mem, ok |-> FALSE]
      BY <1>4 DEF Pointed, Undefined
    <2> QED
      BY <1>2, <2>1 DEF Results
  <1> QED
    BY <1>3, <1>4

(* A load through rax computes * of the pointer there. *)
LEMMA IndirMaps ==
  ASSUME NEW a \in Results("int*")
  PROVE  Maps(<<Ins("load (rax)", 4)>>, "int*", a, "int", Pointed(a))
  <1> DEFINE i == Ins("load (rax)", 4)
             r == Pointed(a)
  <1>1. SUFFICES ASSUME NEW m \in Running
                 PROVE  /\ Ends(m, Executed(<<i>>, m))
                        /\ r.ok /\ Has("int*", a, m) => Has("int", r, Executed(<<i>>, m))
    BY DEF Maps
  <1>2. Executed(<<i>>, m) = Execute(m, i) /\ 4 \in Word
    BY InstructionSets, ExecutedOne DEF Kinds, Word
  <1> DEFINE n == Execute(m, i)
  <1>3. /\ m.rax \in DOMAIN m.mem => Kept(m, n) /\ n.rax = Low(4, m.mem[m.rax])
        /\ m.rax \notin DOMAIN m.mem => n.fault
    BY <1>2, IndirStep
  <1> HIDE DEF n, i
  <1>4. Ends(m, n)
    BY <1>3 DEF Ends, Kept
  <1>5. ASSUME r.ok, Has("int*", a, m) PROVE Has("int", r, n)
    <2>1. /\ r.mem = a.mem /\ a.n \in Cells /\ r.n = ToType("int", a.mem[a.n])
      BY <1>5, PointedResult
    <2> HIDE DEF r
    <2>2. m.mem = a.mem /\ Same(8, m.rax, a.n) /\ m.rax \in Int /\ m.rax \in Regs /\ m.mem \in Mem
      BY <1>5, RegsInt, TypeFacts DEF Has
    <2>3. "int*" \in Types /\ a.n \in Values("int*") /\ Width("int*") = 8 /\ ~Signed("int*")
      BY TypeFacts DEF Results, Types, Pointers
    <2>4. m.rax = a.n
      BY <2>2, <2>3, HeldValues
    <2> DEFINE v == m.mem[a.n]
    <2>5. a.n \in DOMAIN m.mem /\ v \in Int
      BY <2>1, <2>2, CellsFacts
    <2>6. Kept(m, n) /\ n.rax = Low(4, v)
      BY <1>3, <2>4, <2>5
    <2> HIDE DEF v
    <2>7. Same(4, Low(4, v), v)
      BY <1>2, <2>5, LowFacts
    <2>8. Same(4, v, ToType("int", v))
      BY <2>5, ToTypeFacts, TypeFacts DEF Types
    <2>9. Same(4, n.rax, r.n)
      BY <2>1, <2>2, <2>6, <2>7, <2>8, SameTrans DEF v
    <2> QED
      BY <2>1, <2>2, <2>6, <2>9, TypeFacts DEF Has, Kept
  <1> QED
    BY <1>2, <1>4, <1>5 DEF n

(* * computes what its operand points to. *)
LEMMA IndirGood ==
  ASSUME NEW b, NEW D, NEW s, Good(b, D, s), b.ty = "int*"
  PROVE  Good(Unary("Oindir", "int", b), [mem \in Mem |-> Pointed(D[mem])], s)
  <1> DEFINE E == [mem \in Mem |-> Pointed(D[mem])]
             u == Unary("Oindir", "int", b)
             i == Ins("load (rax)", 4)
  <1>1. D \in Dens("int*") /\ "int" \in Types
    BY DEF Good, Types
  <1>2. \A mem \in Mem : D[mem] \in Results("int*")
    BY <1>1 DEF Dens
  <1>3. u.ty = "int"
    BY UnaryFields
  <1>4. u.code = b.code \o <<i>>
    <2>1. u.code = b.code \o UnaryCode("Oindir", "int", b.ty)
      BY UnaryTree
    <2>2. UnaryCode("Oindir", "int", b.ty) = <<i>>
      BY TypeFacts DEF UnaryCode
    <2> QED
      BY <2>1, <2>2
  <1> HIDE DEF u
  <1>5. i \in InstructionSet /\ i.i # "movq eax, rax"
    BY InstructionSets DEF Kinds, Ins
  <1>6. E \in Dens("int")
    BY <1>2, PointedResult DEF Dens
  <1>7. ASSUME NEW mem \in Mem
        PROVE  (E[mem].ok => D[mem].ok) /\ Maps(<<i>>, b.ty, D[mem], "int", E[mem])
    <2>1. E[mem] = Pointed(D[mem]) /\ D[mem] \in Results("int*")
      BY <1>2
    <2>2. Maps(<<i>>, "int*", D[mem], "int", Pointed(D[mem]))
      BY <2>1, IndirMaps
    <2>3. Pointed(D[mem]).ok => D[mem].ok
      BY <2>1, PointedResult
    <2> QED
      BY <2>1, <2>2, <2>3
  <1> HIDE DEF i, E
  <1>8. <<i>> \in Codes /\ Assembles(<<i>>)
    BY <1>5, ShortCodes, AssemblesShort
  <1> QED
    BY <1>1, <1>3, <1>4, <1>6, <1>7, <1>8, GoodUnary DEF E, u

(* The address of a variable, as a result. *)
At(x) == [mem \in Mem |-> Means(AddressOf[x], mem, TRUE)]

(* It is a result of a pointer type. *)
LEMMA AtDens ==
  ASSUME NEW x \in DOMAIN Variables, NEW ty \in Pointers
  PROVE  At(x) \in Dens(ty)
  <1>1. AddressOf[x] \in Values(ty)
    BY VariableTypes DEF Values, Regs, Pointers
  <1> QED
    BY <1>1, MeansResult DEF At, Dens

(* The left-hand side of an assignment, its address in rbx. *)
Located(c, P, s) ==
  /\ c \in Codes
  /\ P \in Dens("void*")
  /\ s \in BOOLEAN
  /\ IF Assembles(c)
     THEN \A m \in Running : /\ Ends(m, Executed(c, m))
                             /\ P[m.mem].ok => /\ Executed(c, m) \in Running
                                               /\ Executed(c, m).rbx = P[m.mem].n
                                               /\ Executed(c, m).mem = P[m.mem].mem
     ELSE s

(* lvalue of a variable leaves its address in rbx. *)
LEMMA VarLocated ==
  ASSUME NEW x \in DOMAIN Variables
  PROVE  Located(Lvalue(Var(x)), At(x), FALSE)
  <1> DEFINE i == Lea(AddressOf[x])
             P == At(x)
  <1>1. Lvalue(Var(x)) = <<i>>
    <2>1. Var(x).op = "Ovar" /\ Var(x).name = x
      BY LeafTree
    <2> QED
      BY <2>1 DEF Lvalue
  <1>2. AddressOf[x] \in Regs
    BY VariableTypes
  <1>3. i \in InstructionSet /\ i.i # "movq eax, rax"
    BY <1>2, InstructionSets DEF Lea
  <1>4. <<i>> \in Codes /\ Assembles(<<i>>)
    <2> HIDE DEF i
    <2> QED
      BY <1>3, ShortCodes, AssemblesShort
  <1>5. P \in Dens("void*")
    BY AtDens DEF Pointers
  <1>6. ASSUME NEW m \in Running
        PROVE  /\ Ends(m, Executed(<<i>>, m))
               /\ P[m.mem].ok => /\ Executed(<<i>>, m) \in Running
                                 /\ Executed(<<i>>, m).rbx = P[m.mem].n
                                 /\ Executed(<<i>>, m).mem = P[m.mem].mem
    <2>1. Executed(<<i>>, m) = Execute(m, i)
      BY <1>3, ExecutedOne
    <2> DEFINE n == Execute(m, i)
    <2>2. Kept(m, n) /\ n.rbx = AddressOf[x]
      BY <1>2, LeaStep
    <2> HIDE DEF n
    <2>3. P[m.mem].n = AddressOf[x] /\ P[m.mem].mem = m.mem
      <3>1. P[m.mem] = Means(AddressOf[x], m.mem, TRUE)
        BY RegsInt DEF At
      <3> QED
        BY <3>1 DEF Means
    <2> HIDE DEF P
    <2> QED
      BY <2>1, <2>2, <2>3 DEF Ends, Kept, n
  <1> HIDE DEF i
  <1> QED
    BY <1>1, <1>4, <1>5, <1>6 DEF Located

(* lvalue of * leaves the value of the pointer in rbx. *)
LEMMA IndirLocated ==
  ASSUME NEW b, NEW P, NEW s, Good(b, P, s), b.ty = "int*"
  PROVE  Located(Lvalue(Unary("Oindir", "int", b)), P, s)
  <1> DEFINE i == Ins("movq rax, rbx", 8)
             c == b.code \o <<i>>
  <1>1. Lvalue(Unary("Oindir", "int", b)) = c
    <2>1. Unary("Oindir", "int", b).op = "Oindir" /\ Unary("Oindir", "int", b).base = b
      BY UnaryFields
    <2> QED
      BY <2>1 DEF Lvalue
  <1>2. i \in InstructionSet /\ i.i # "movq eax, rax"
    BY InstructionSets DEF Kinds, Ins
  <1>3. <<i>> \in Codes /\ Assembles(<<i>>)
    <2> HIDE DEF i
    <2> QED
      BY <1>2, ShortCodes, AssemblesShort
  <1>4. P \in Dens("void*")
    BY DEF Good, Dens, Results, Values, Pointers
  <1>5. b.code \in Codes
    BY DEF Good
  <1> HIDE DEF c
  <1>6. c \in Codes /\ (Assembles(c) <=> Assembles(b.code))
    <2> HIDE DEF i
    <2>1. Assembles(c) <=> Assembles(b.code) /\ Assembles(<<i>>)
      BY <1>3, <1>5, AssemblesConcat DEF c
    <2>2. c \in Codes
      BY <1>3, <1>5, Then DEF c
    <2> QED
      BY <1>3, <2>1, <2>2
  <1>7. ASSUME Assembles(b.code), NEW m \in Running
        PROVE  /\ Ends(m, Executed(c, m))
               /\ P[m.mem].ok => /\ Executed(c, m) \in Running
                                 /\ Executed(c, m).rbx = P[m.mem].n
                                 /\ Executed(c, m).mem = P[m.mem].mem
    <2> DEFINE n0 == Executed(b.code, m)
               n == Executed(c, m)
    <2>1. n = Execute(n0, i) /\ (n0.fault => n.fault)
      BY <1>2, <1>5, ThenOne DEF c
    <2>2. Ends(m, n0) /\ (P[m.mem].ok => Has("int*", P[m.mem], n0))
      BY <1>7 DEF Good, Denotes
    <2> HIDE DEF n0, n
    <2>3. n0 \in Running => Kept(n0, n) /\ n.rbx = n0.rax
      BY <2>1, MoveStep
    <2>4. Ends(m, n)
      BY <2>1, <2>2, <2>3 DEF Ends, Kept
    <2>5. ASSUME P[m.mem].ok PROVE n \in Running /\ n.rbx = P[m.mem].n /\ n.mem = P[m.mem].mem
      <3>1. Has("int*", P[m.mem], n0)
        BY <2>2, <2>5
      <3>2. n0 \in Running /\ n0.mem = P[m.mem].mem /\ Same(8, n0.rax, P[m.mem].n)
        BY <3>1, TypeFacts DEF Has
      <3>3. n0.rax \in Int /\ n0.rax \in Regs /\ m.mem \in Mem
        BY <3>2, RegsInt
      <3>4. P[m.mem].n \in Values("int*") /\ "int*" \in Types /\ Width("int*") = 8 /\ ~Signed("int*")
        BY <3>3, TypeFacts DEF Good, Dens, Results, Types, Pointers
      <3>5. n0.rax = P[m.mem].n
        BY <3>2, <3>3, <3>4, HeldValues
      <3> QED
        BY <2>3, <3>2, <3>5 DEF Kept
    <2> QED
      BY <2>4, <2>5 DEF n
  <1>8. s \in BOOLEAN /\ (~Assembles(b.code) => s)
    BY DEF Good
  <1> QED
    BY <1>1, <1>4, <1>6, <1>7, <1>8 DEF Located

(* & of a variable computes its address. *)
LEMMA AddrGood ==
  ASSUME NEW x \in DOMAIN Variables
  PROVE  Good(Unary("Oaddr", "int*", Var(x)), At(x), FALSE)
  <1> DEFINE u == Unary("Oaddr", "int*", Var(x))
             i == Lea(AddressOf[x])
             j == Ins("movq rbx, rax", 8)
  <1>1. u.ty = "int*"
    BY UnaryFields
  <1>2. u.code = Lvalue(Var(x)) \o <<j>>
    BY AddrTree
  <1> HIDE DEF u
  <1>3. Lvalue(Var(x)) = <<i>>
    <2>1. Var(x).op = "Ovar" /\ Var(x).name = x
      BY LeafTree
    <2> QED
      BY <2>1 DEF Lvalue
  <1>4. AddressOf[x] \in Regs /\ AddressOf[x] \in Int
    BY VariableTypes
  <1>5. i \in InstructionSet /\ i.i # "movq eax, rax"
    BY <1>4, InstructionSets DEF Lea
  <1>6. j \in InstructionSet /\ j.i # "movq eax, rax"
    BY InstructionSets DEF Computing, Ins
  <1>7. u.code = <<i, j>>
    <2> HIDE DEF i, j
    <2> QED
      BY <1>2, <1>3, OneAndOne
  <1>8. <<i, j>> \in Codes /\ Assembles(<<i, j>>)
    <2> HIDE DEF i, j
    <2> QED
      BY <1>5, <1>6, ShortCodes, AssemblesShort
  <1>9. At(x) \in Dens("int*") /\ "int*" \in Types /\ 8 \in Word
    BY AtDens DEF Pointers, Types, Word
  <1>10. Denotes(<<i, j>>, "int*", At(x))
    <2>1. SUFFICES ASSUME NEW m \in Running
                   PROVE  /\ Ends(m, Executed(<<i, j>>, m))
                          /\ At(x)[m.mem].ok => Has("int*", At(x)[m.mem], Executed(<<i, j>>, m))
      BY DEF Denotes
    <2>2. Executed(<<i, j>>, m) = Execute(Execute(m, i), j)
      BY <1>5, <1>6, ExecutedTwo
    <2> DEFINE n1 == Execute(m, i)
               n2 == Execute(n1, j)
    <2>3. Kept(m, n1) /\ n1.rbx = AddressOf[x]
      BY <1>4, LeaStep
    <2> HIDE DEF n1
    <2>4. n1 \in Running
      BY <2>3 DEF Kept
    <2>5. Kept(n1, n2) /\ Same(8, n2.rax, Result(n1, "movq rbx, rax", 8))
      BY <1>9, <2>4, ComputeStep DEF Computing
    <2>6. Result(n1, "movq rbx, rax", 8) = n1.rbx
      BY DEF Result
    <2> HIDE DEF n2
    <2>7. At(x)[m.mem] = Means(AddressOf[x], m.mem, TRUE)
      BY RegsInt DEF At
    <2>8. At(x)[m.mem].n = AddressOf[x] /\ At(x)[m.mem].mem = m.mem
      BY <2>7 DEF Means
    <2>9. Same(8, n2.rax, At(x)[m.mem].n)
      BY <2>3, <2>5, <2>6, <2>8
    <2>10. Ends(m, n2) /\ Has("int*", At(x)[m.mem], n2)
      BY <2>3, <2>5, <2>8, <2>9, TypeFacts DEF Ends, Kept, Has
    <2> QED
      BY <2>2, <2>10 DEF n1, n2
  <1> HIDE DEF i, j
  <1> QED
    BY <1>1, <1>7, <1>8, <1>9, <1>10 DEF Good, u

(* What an assignment gives. *)
LEMMA AssignedResult ==
  ASSUME NEW ty \in Types, NEW p \in Results("void*"), NEW r \in Results(ty)
  PROVE  /\ Assigned(ty, p, r) \in Results(ty)
         /\ Assigned(ty, p, r).ok =>
              /\ p.ok /\ r.ok /\ p.n \in DOMAIN r.mem
              /\ Assigned(ty, p, r).n = r.n
              /\ Assigned(ty, p, r).mem = [r.mem EXCEPT ![p.n] = Low(Width(ty), r.n)]
  <1>1. r.n \in Int /\ r.n \in Values(ty) /\ r.mem \in Mem /\ Width(ty) \in Word /\ 0 \in Values(ty)
    BY ResultFields, ValuesInt
  <1> DEFINE b == p.ok /\ r.ok /\ p.n \in DOMAIN r.mem /\ (ty = "int" => p.n \in Cells)
             v == Low(Width(ty), r.n)
             s == [r.mem EXCEPT ![p.n] = v]
  <1>2. v \in Nat
    BY <1>1, LowFacts
  <1> HIDE DEF v
  <1>3. p.n \in DOMAIN r.mem => s \in Mem
    BY <1>1, <1>2 DEF Mem
  <1> HIDE DEF s
  <1>4. Assigned(ty, p, r) = IF b THEN Means(r.n, s, TRUE) ELSE Undefined(r.mem)
    BY DEF Assigned, s, v
  <1>5. CASE b
    <2>1. Means(r.n, s, TRUE) \in Results(ty)
      BY <1>1, <1>3, <1>5, MeansResult
    <2>2. Assigned(ty, p, r) = Means(r.n, s, TRUE)
      BY <1>4, <1>5
    <2>3. Assigned(ty, p, r).n = r.n /\ Assigned(ty, p, r).mem = s
      BY <2>2 DEF Means
    <2> QED
      BY <1>5, <2>1, <2>2, <2>3 DEF s, v
  <1>6. CASE ~b
    <2>1. Assigned(ty, p, r) = Undefined(r.mem)
      BY <1>4, <1>6
    <2>2. Undefined(r.mem) \in Results(ty) /\ ~Undefined(r.mem).ok
      BY <1>1 DEF Results, Undefined
    <2> QED
      BY <2>1, <2>2
  <1> QED
    BY <1>5, <1>6

(* One more reason to be refused. *)
LEMMA LocatedWeaker ==
  ASSUME NEW c, NEW P, NEW r, NEW s \in BOOLEAN, Located(c, P, r), r => s
  PROVE  Located(c, P, s)
  BY DEF Located

(* An assignment of a value of the type of its left-hand side stores it    *)
(* there: what the right-hand side does to rbx is undone by the pop.       *)
LEMMA AssignGood ==
  ASSUME NEW ty \in Types, NEW l, NEW r, NEW P, NEW R, NEW s,
         Located(Lvalue(l), P, s), Good(r, R, s), r.ty = ty
  PROVE  Good(Binary("Oassign", ty, l, r), [mem \in Mem |-> Assigned(ty, P[mem], R[P[mem].mem])], s)
  <1> DEFINE E == [mem \in Mem |-> Assigned(ty, P[mem], R[P[mem].mem])]
             u == Binary("Oassign", ty, l, r)
             w == Width(ty)
             i == Ins("Oassign", w)
             p == <<Push("rbx")>>
             q == <<PopTo("rbx")>>
             c0 == Lvalue(l)
             c1 == c0 \o p
             c2 == c1 \o r.code
             c3 == c2 \o q
             c4 == c3 \o <<i>>
  <1>1. u.ty = ty
    BY BinaryFields
  <1>2. u.code = c4
    BY AssignTree
  <1> HIDE DEF u
  <1>3. c0 \in Codes /\ P \in Dens("void*") /\ s \in BOOLEAN
    BY DEF Located
  <1>4. r.code \in Codes /\ R \in Dens(ty)
    BY DEF Good
  <1>5. w \in Word /\ w \in {1, 4, 8}
    BY ValuesInt DEF Word
  <1> HIDE DEF w
  <1>6. Push("rbx") \in InstructionSet /\ PopTo("rbx") \in InstructionSet /\ i \in InstructionSet
    BY <1>5, InstructionSets DEF Kinds
  <1>7. p \in Codes /\ q \in Codes /\ <<i>> \in Codes
    <2> HIDE DEF i
    <2> QED
      BY <1>6, ShortCodes
  <1>8. Assembles(p) /\ Assembles(q) /\ Assembles(<<i>>)
    <2>1. Push("rbx").i # "movq eax, rax" /\ PopTo("rbx").i # "movq eax, rax" /\ i.i # "movq eax, rax"
      BY DEF Push, PopTo, Ins
    <2> HIDE DEF i
    <2> QED
      BY <2>1, AssemblesShort
  <1> HIDE DEF c0, c1, c2, c3, c4
  <1>9. c1 \in Codes /\ (Assembles(c1) <=> Assembles(c0))
    <2> HIDE DEF p
    <2> QED
      BY <1>3, <1>7, <1>8, AssemblesConcat, Then DEF c1
  <1>10. c2 \in Codes /\ (Assembles(c2) <=> Assembles(c0) /\ Assembles(r.code))
    BY <1>4, <1>9, AssemblesConcat, Then DEF c2
  <1>11. c3 \in Codes /\ (Assembles(c3) <=> Assembles(c0) /\ Assembles(r.code))
    <2> HIDE DEF q
    <2> QED
      BY <1>7, <1>8, <1>10, AssemblesConcat, Then DEF c3
  <1>12. c4 \in Codes /\ (Assembles(c4) <=> Assembles(c0) /\ Assembles(r.code))
    <2> DEFINE d == <<i>>
    <2> HIDE DEF d
    <2>1. d \in Codes /\ Assembles(d) /\ c4 = c3 \o d
      BY <1>7, <1>8 DEF d, c4
    <2> QED
      BY <1>11, <2>1, AssemblesConcat, Then
  <1>13. ASSUME NEW mem \in Mem
         PROVE  P[mem] \in Results("void*") /\ P[mem].mem \in Mem /\ R[P[mem].mem] \in Results(ty)
    <2>1. P[mem] \in Results("void*")
      BY <1>3 DEF Dens
    <2>2. P[mem].mem \in Mem
      BY <2>1 DEF Results
    <2> QED
      BY <1>4, <2>1, <2>2 DEF Dens
  <1>14. E \in Dens(ty)
    BY <1>13, AssignedResult DEF Dens
  <1>15. ASSUME Assembles(c0), Assembles(r.code) PROVE Denotes(c4, ty, E)
    <2>1. SUFFICES ASSUME NEW m \in Running
                   PROVE  /\ Ends(m, Executed(c4, m))
                          /\ E[m.mem].ok => Has(ty, E[m.mem], Executed(c4, m))
      BY DEF Denotes
    <2> DEFINE n0 == Executed(c0, m)
               n1 == Executed(c1, m)
               n2 == Executed(c2, m)
               n3 == Executed(c3, m)
               n4 == Executed(c4, m)
               a == P[m.mem]
               b == R[a.mem]
               e == E[m.mem]
    <2>2. n1 = Execute(n0, Push("rbx")) /\ (n0.fault => n1.fault)
      BY <1>3, <1>6, ThenOne DEF c1
    <2>3. n2 = Executed(r.code, n1) /\ (n1.fault => n2.fault)
      BY <1>4, <1>9, Then DEF c2
    <2>4. n3 = Execute(n2, PopTo("rbx")) /\ (n2.fault => n3.fault)
      BY <1>6, <1>10, ThenOne DEF c3
    <2>5. n4 = Execute(n3, i) /\ (n3.fault => n4.fault)
      BY <1>6, <1>11, ThenOne DEF c4
    <2>6. m.mem \in Mem /\ m.pushed \in Seq(Regs)
      BY RegsInt
    <2>7. Ends(m, n0) /\ (a.ok => n0 \in Running /\ n0.rbx = a.n /\ n0.mem = a.mem)
      BY <1>15 DEF Located, c0
    <2>8. \A n \in Running : Ends(n, Executed(r.code, n)) /\ (R[n.mem].ok => Has(ty, R[n.mem], Executed(r.code, n)))
      BY <1>15 DEF Good, Denotes
    <2>9. e.ok => /\ a.ok /\ b.ok /\ a.n \in DOMAIN b.mem /\ e.n = b.n
                  /\ e.mem = [b.mem EXCEPT ![a.n] = Low(w, b.n)]
      <3>1. e = Assigned(ty, a, b)
        BY <2>6
      <3>2. a \in Results("void*") /\ b \in Results(ty)
        BY <1>13, <2>6
      <3> HIDE DEF a, b, e
      <3> QED
        BY <3>1, <3>2, AssignedResult DEF w
    <2> HIDE DEF n0, n1, n2, n3, n4, a, b, e
    <2>10. CASE n0.fault
      BY <2>2, <2>3, <2>4, <2>5, <2>7, <2>9, <2>10 DEF Ends, Running, n4, e
    <2>11. CASE ~n0.fault
      <3>1. n0 \in Running /\ n0.pushed = m.pushed
        BY <2>7, <2>11 DEF Ends
      <3>2. n1 \in Running /\ n1.mem = n0.mem /\ n1.pushed = Append(m.pushed, n0.rbx)
        BY <2>2, <3>1, PushStep
      <3>3. Ends(n1, n2) /\ (R[n1.mem].ok => Has(ty, R[n1.mem], n2))
        BY <2>3, <2>8, <3>2
      <3>4. e.ok => Has(ty, b, n2)
        BY <2>7, <2>9, <3>2, <3>3 DEF b
      <3>5. CASE n2.fault
        BY <2>4, <2>5, <3>4, <3>5 DEF Ends, Has, Running, n4, e
      <3>6. CASE ~n2.fault
        <4>1. n2 \in Running /\ n2.pushed = Append(m.pushed, n0.rbx) /\ n0.rbx \in Regs
          BY <3>1, <3>2, <3>3, <3>6, RegsInt DEF Ends
        <4>2. n3 \in Running /\ n3.rax = n2.rax /\ n3.mem = n2.mem /\ n3.pushed = m.pushed /\ n3["rbx"] = n0.rbx
          BY <2>4, <2>6, <4>1, PopStep
        <4>3. /\ n3.rbx \in DOMAIN n3.mem =>
                   /\ n4 \in Running /\ n4.pushed = n3.pushed /\ n4.rax = n3.rax
                   /\ n4.mem = [n3.mem EXCEPT ![n3.rbx] = Low(w, n3.rax)]
              /\ n3.rbx \notin DOMAIN n3.mem => n4.fault
          BY <1>5, <2>5, <4>2, StoreStep
        <4>4. Ends(m, n4)
          BY <4>2, <4>3 DEF Ends
        <4>5. ASSUME e.ok PROVE Has(ty, e, n4)
          <5>1. Has(ty, b, n2) /\ n0.rbx = a.n
            BY <2>7, <2>9, <3>4, <4>5
          <5>2. n3.mem = b.mem /\ n3.rbx = a.n /\ Same(w, n3.rax, b.n)
            BY <4>2, <5>1 DEF Has, w
          <5>3. Low(w, n3.rax) = Low(w, b.n)
            BY <5>2 DEF Same
          <5> QED
            BY <2>9, <4>3, <4>5, <5>2, <5>3 DEF Has, w
        <4> QED
          BY <4>4, <4>5 DEF n4, e
      <3> QED
        BY <3>5, <3>6
    <2> QED
      BY <2>10, <2>11
  <1>16. (~Assembles(c0) => s) /\ (~Assembles(r.code) => s)
    BY DEF Located, Good, c0
  <1> HIDE DEF E
  <1> QED
    BY <1>1, <1>2, <1>3, <1>4, <1>12, <1>14, <1>15, <1>16 DEF Good, E, u

-----------------------------------------------------------------------------
(* Operators on integers. *)

(* The code of a binary operator is one the assembler knows. *)
LEMMA BinaryCodes ==
  ASSUME NEW op \in BinaryOps, NEW ty \in Types, NEW tl,
         op \in {"Odiv", "Omod"} => ty \in ArithTypes
  PROVE  BinaryCode(op, ty, tl) \in Codes /\ Assembles(BinaryCode(op, ty, tl))
  <1> DEFINE w == Width(ty)
  <1>1. w \in Word /\ w \in {1, 4, 8}
    BY ValuesInt DEF Word
  <1> HIDE DEF w
  <1>2. CASE op \in {"Odiv", "Omod"}
    <2> DEFINE i == IF Signed(ty) THEN Ins("cltd", w) ELSE Ins("xor dx", w)
               j == IF Signed(ty) THEN Ins("idiv", w) ELSE Ins("div", w)
               k == Ins("mov dx, ax", w)
    <2>1. i \in InstructionSet /\ j \in InstructionSet /\ k \in InstructionSet
      BY <1>1, InstructionSets DEF Kinds, Computing
    <2>2. i.i # "movq eax, rax" /\ j.i # "movq eax, rax" /\ k.i # "movq eax, rax"
      BY DEF Ins
    <2>3. BinaryCode(op, ty, tl) = <<i, j>> \o (IF op = "Omod" THEN <<k>> ELSE <<>>)
      BY <1>2 DEF BinaryCode, DivisionCode, w
    <2> DEFINE c == <<i, j>>
    <2> HIDE DEF i, j, k
    <2>4. c \in Codes /\ <<k>> \in Codes /\ <<>> \in Codes /\ Assembles(c) /\ Assembles(<<k>>) /\ Assembles(<<>>)
      BY <2>1, <2>2, ShortCodes, AssemblesShort
    <2> DEFINE d == IF op = "Omod" THEN <<k>> ELSE <<>>
    <2>5. d \in Codes /\ Assembles(d)
      BY <2>4
    <2> HIDE DEF c, d
    <2>6. c \o d \in Codes
      BY <2>4, <2>5, Then
    <2>7. Assembles(c \o d)
      BY <2>4, <2>5, AssemblesConcat
    <2> QED
      BY <2>3, <2>6, <2>7 DEF c, d
  <1>3. CASE op \in Shifts
    <2> DEFINE i == IF op = "Osr" THEN Ins(IF Signed(ty) THEN "sar" ELSE "shr", w) ELSE Ins(op, w)
    <2>1. i \in InstructionSet
      BY <1>1, <1>3, InstructionSets DEF Computing, Shifts
    <2>2. i.i # "movq eax, rax"
      BY <1>3 DEF Ins, Shifts
    <2>3. BinaryCode(op, ty, tl) = <<i>>
      BY <1>3 DEF BinaryCode, ShiftCode, Shifts, w
    <2> HIDE DEF i
    <2> QED
      BY <2>1, <2>2, <2>3, ShortCodes, AssemblesShort
  <1>4. CASE op \in Comparisons
    <2> DEFINE i == Ins("cmp bx", w)
               j == Set(CmpSuffix(op, Signed(tl)))
               k == Ins("movzbl", 4)
    <2>1. i \in InstructionSet /\ j \in InstructionSet /\ k \in InstructionSet
      <3>1. CmpSuffix(op, Signed(tl)) \in Conditions
        BY <1>4, ConditionNames
      <3> QED
        BY <1>1, <3>1, InstructionSets DEF Kinds, Computing
    <2>2. i.i # "movq eax, rax" /\ j.i # "movq eax, rax" /\ k.i # "movq eax, rax"
      BY DEF Ins, Set
    <2>3. BinaryCode(op, ty, tl) = <<i, j, k>>
      BY <1>4 DEF BinaryCode, Comparisons, Shifts, w
    <2> HIDE DEF i, j, k
    <2> QED
      BY <2>1, <2>2, <2>3, ShortCodes, AssemblesShort
  <1>5. CASE op \notin {"Odiv", "Omod"} \cup Shifts \cup Comparisons
    <2> DEFINE i == Ins(op, w)
    <2>1. op \in {"Omul", "Oadd", "Osub", "Oand", "Oxor", "Oor"}
      BY <1>5 DEF BinaryOps, Arithmetic
    <2>2. i \in InstructionSet
      BY <1>1, <2>1, InstructionSets DEF Computing
    <2>3. i.i # "movq eax, rax"
      BY <2>1 DEF Ins
    <2>4. BinaryCode(op, ty, tl) = <<i>>
      BY <1>5 DEF BinaryCode, w
    <2> HIDE DEF i
    <2> QED
      BY <2>2, <2>3, <2>4, ShortCodes, AssemblesShort
  <1> QED
    BY <1>2, <1>3, <1>4, <1>5

(* The register of the right operand. *)
OtherOperand(op) == IF op \in Shifts THEN "rcx" ELSE "rbx"

(* Only integers are divided. *)
Divisible(op, ty) == op \in {"Odiv", "Omod"} => ty \in ArithTypes

(* An operator of two operands computes E if its code makes E of their     *)
(* results.                                                                *)
LEMMA OperateGood ==
  ASSUME NEW op, op \in BinaryOps, NEW ty \in Types, Divisible(op, ty),
         NEW l, NEW r, NEW L, NEW R, NEW s, Good(l, L, s), Good(r, R, s),
         NEW E \in Dens(ty),
         Composes(BinaryCode(op, ty, l.ty), OtherOperand(op), l.ty, L, r.ty, R, ty, E)
  PROVE  Good(Binary(op, ty, l, r), E, s) /\ Binary(op, ty, l, r).ty = ty
  <1> DEFINE t == Binary(op, ty, l, r)
             o == BinaryCode(op, ty, l.ty)
             reg == OtherOperand(op)
  <1>1. o \in Codes /\ Assembles(o)
    BY BinaryCodes DEF Divisible
  <1>2. t.ty = ty
    BY BinaryFields
  <1>3. t.code = r.code \o <<Push("rax")>> \o l.code \o <<PopTo(IF op \in Shifts THEN "rcx" ELSE "rbx")>> \o o
    BY BinaryTree
  <1>4. t.code = Around(r.code, l.code, reg, o)
    BY <1>3 DEF Around, OtherOperand
  <1>5. reg \in {"rbx", "rcx"}
    BY DEF OtherOperand
  <1> HIDE DEF t, o, reg
  <1>6. t.ty \in Types /\ E \in Dens(t.ty)
    BY <1>2
  <1>7. Composes(o, reg, l.ty, L, r.ty, R, t.ty, E)
    BY <1>2 DEF o, reg
  <1>8. Good(t, E, s)
    BY <1>1, <1>4, <1>5, <1>6, <1>7, GoodBinary
  <1> QED
    BY <1>2, <1>8 DEF t

(* The usual arithmetic conversions never make the refused one. *)
LEMMA CommonTypes ==
  ASSUME NEW tl \in ArithTypes, NEW tr \in ArithTypes
  PROVE  LET ct == CommonRealType(Arch, tl, tr)
         IN  /\ ct \in ArithTypes /\ tl \in Types /\ tr \in Types /\ ct \in Types
             /\ tl # "ulong" /\ tr # "ulong" /\ ct # "ulong"
             /\ IsInt(tl) /\ IsInt(tr)
             /\ Width(tl) = 4 => Width(ct) = 4 \/ Signed(ct)
             /\ Width(tr) = 4 => Width(ct) = 4 \/ Signed(ct)
             /\ tr = "int" => ct = tl
  <1>1. CommonRealType(Arch, tl, tr) \in ArithTypes /\ (tr = "int" => CommonRealType(Arch, tl, tr) = tl)
    BY CommonFacts DEF ArithTypes
  <1>2. \A t \in ArithTypes : t \in Types /\ t # "ulong" /\ IsInt(t) /\ (Width(t) = 4 \/ Signed(t))
    BY TypeFacts DEF ArithTypes, Types
  <1> QED
    BY <1>1, <1>2

(* Usual and Arith convert both operands to their common type. *)
LEMMA UsualTree ==
  ASSUME NEW op, NEW ty, NEW l, NEW r, l.ty \in ArithTypes, r.ty \in ArithTypes
  PROVE  LET ct == CommonRealType(Arch, l.ty, r.ty)
         IN  /\ Usual(op, ty, l, r) = Binary(op, ty, Convert(ct, l), Convert(ct, r))
             /\ Arith(op, l, r) = Usual(op, ct, l, r)
             /\ Promote(l) = l /\ Promote(r) = r
  <1>1. Promote(l) = l /\ Promote(r) = r
    BY CommonFacts DEF Promote, Convert, ArithTypes
  <1> QED
    BY <1>1 DEF Usual, Arith, Common

(* The results of an operand, converted. *)
Coerced(from, to, D) == [mem \in Mem |-> Converted(from, to, D[mem])]

(* The same for an operator whose operands are converted to their common   *)
(* type.                                                                   *)
LEMMA UsualGood ==
  ASSUME NEW op, op \in BinaryOps, NEW ty \in Types, Divisible(op, ty),
         NEW l, NEW r, NEW L, NEW R, NEW s, Good(l, L, s), Good(r, R, s),
         l.ty \in ArithTypes, r.ty \in ArithTypes,
         NEW ct, ct = CommonRealType(Arch, l.ty, r.ty),
         NEW E \in Dens(ty),
         Composes(BinaryCode(op, ty, ct), OtherOperand(op), ct, Coerced(l.ty, ct, L), ct, Coerced(r.ty, ct, R), ty, E)
  PROVE  Good(Usual(op, ty, l, r), E, s) /\ Usual(op, ty, l, r).ty = ty
  <1> DEFINE lc == Convert(ct, l)
             rc == Convert(ct, r)
             LC == Coerced(l.ty, ct, L)
             RC == Coerced(r.ty, ct, R)
  <1>1. /\ ct \in Types /\ l.ty \in Types /\ r.ty \in Types /\ l.ty # "ulong" /\ r.ty # "ulong"
        /\ Width(l.ty) = 4 => Width(ct) = 4 \/ Signed(ct)
        /\ Width(r.ty) = 4 => Width(ct) = 4 \/ Signed(ct)
    BY CommonTypes
  <1>2. Good(lc, LC, s) /\ lc.ty = ct
    <2>1. ct \in Types /\ l.ty # "ulong" /\ (Width(l.ty) = 4 => Width(ct) = 4 \/ Signed(ct))
      BY <1>1
    <2> QED
      BY <2>1, ConvertGood DEF Coerced
  <1>3. Good(rc, RC, s) /\ rc.ty = ct
    <2>1. ct \in Types /\ r.ty # "ulong" /\ (Width(r.ty) = 4 => Width(ct) = 4 \/ Signed(ct))
      BY <1>1
    <2> QED
      BY <2>1, ConvertGood DEF Coerced
  <1>4. Usual(op, ty, l, r) = Binary(op, ty, lc, rc)
    BY UsualTree
  <1> HIDE DEF lc, rc, LC, RC
  <1>5. Composes(BinaryCode(op, ty, lc.ty), OtherOperand(op), lc.ty, LC, rc.ty, RC, ty, E)
    BY <1>2, <1>3 DEF LC, RC
  <1>6. Good(Binary(op, ty, lc, rc), E, s) /\ Binary(op, ty, lc, rc).ty = ty
    BY <1>2, <1>3, <1>5, OperateGood
  <1> QED
    BY <1>4, <1>6

(* The value of an operator on two integers, case by case. *)
LEMMA AppliedForms ==
  ASSUME NEW op, NEW tl, NEW tr, NEW a, NEW b, IsInt(tl), IsInt(tr),
         NEW ct, ct = CommonRealType(Arch, tl, tr),
         NEW x, x = Converted(tl, ct, a), NEW y, y = Converted(tr, ct, b),
         NEW e, e = Applied(op, tl, tr, a, b)
  PROVE  /\ op \in Comparisons =>
              e = Means(Compared(op, x.n, y.n), a.mem, x.ok /\ y.ok /\ Fits(ct, x.n) /\ Fits(ct, y.n))
         /\ op \notin Comparisons /\ op \in Shifts =>
              IF b.n \in 0..(Width(tl) - 1)
              THEN e = Means(ToType(tl, IF op = "Osl" THEN a.n * 2 ^ b.n ELSE a.n \div 2 ^ b.n), a.mem, a.ok /\ b.ok)
              ELSE e = Undefined(a.mem)
         /\ op \notin Comparisons /\ op \notin Shifts =>
              IF op \in {"Odiv", "Omod"} /\ (y.n = 0 \/ ToType(ct, Truncated(x.n, y.n)) # Truncated(x.n, y.n))
              THEN e = Undefined(a.mem)
              ELSE e = Means(ToType(ct, Arithmetic2(op, ct, x.n, y.n)), a.mem, x.ok /\ y.ok)
  <1>1. ~IsPtr(tl) /\ ~IsPtr(tr)
    BY DEF IsInt, IsPtr
  <1> HIDE DEF IsInt
  <1>2. CASE op \in Comparisons
    BY <1>1, <1>2 DEF Applied
  <1>3. CASE op \notin Comparisons /\ op \in Shifts
    BY <1>1, <1>3 DEF Applied
  <1>4. CASE op \notin Comparisons /\ op \notin Shifts
    BY <1>1, <1>4 DEF Applied
  <1> QED
    BY <1>2, <1>3, <1>4

(* The parts of a result. *)
LEMMA ResultOf ==
  ASSUME NEW ty \in Types, NEW n, NEW mem \in Mem, NEW ok, ok \in BOOLEAN
  PROVE  /\ Means(n, mem, ok).n = n /\ Means(n, mem, ok).mem = mem /\ (Means(n, mem, ok).ok <=> ok)
         /\ n \in Values(ty) => Means(n, mem, ok) \in Results(ty)
  BY DEF Means, Results

(* What is undefined is a result without a value. *)
LEMMA NoResult ==
  ASSUME NEW ty \in Types, NEW mem \in Mem
  PROVE  Undefined(mem) \in Results(ty) /\ ~Undefined(mem).ok
  <1>1. 0 \in Values(ty)
    BY ValuesInt
  <1> QED
    BY <1>1 DEF Undefined, Results

(* The value of a comparison of integers. *)
LEMMA AppliedCompare ==
  ASSUME NEW op, op \in Comparisons, NEW tl \in ArithTypes, NEW tr \in ArithTypes,
         NEW a \in Results(tl), NEW b \in Results(tr), NEW ct, ct = CommonRealType(Arch, tl, tr),
         NEW x, x = Converted(tl, ct, a), NEW y, y = Converted(tr, ct, b),
         NEW e, e = Applied(op, tl, tr, a, b)
  PROVE  /\ e \in Results("int")
         /\ e.ok => /\ x.ok /\ y.ok /\ Fits(ct, x.n) /\ Fits(ct, y.n)
                    /\ e.mem = x.mem /\ e.n = Compared(op, x.n, y.n)
  <1>1. tl \in Types /\ tr \in Types /\ ct \in Types /\ IsInt(tl) /\ IsInt(tr) /\ "int" \in Types
    BY CommonTypes DEF Types
  <1>2. x \in Results(ct) /\ y \in Results(ct) /\ x.mem = a.mem
    BY <1>1, ConvertedResult
  <1>3. a.mem \in Mem /\ x.ok \in BOOLEAN /\ y.ok \in BOOLEAN
    BY <1>1, <1>2, ResultFields
  <1> DEFINE ok == x.ok /\ y.ok /\ Fits(ct, x.n) /\ Fits(ct, y.n)
             n == Compared(op, x.n, y.n)
  <1>4. e = Means(n, a.mem, ok)
    BY <1>1, AppliedForms
  <1>5. n \in Values("int")
    BY ComparedValue DEF Values
  <1>6. ok \in BOOLEAN /\ (ok => x.ok /\ y.ok /\ Fits(ct, x.n) /\ Fits(ct, y.n))
    BY <1>3
  <1> HIDE DEF ok, n
  <1>7. e.n = n /\ e.mem = a.mem /\ (e.ok <=> ok) /\ e \in Results("int")
    BY <1>1, <1>3, <1>4, <1>5, <1>6, ResultOf
  <1> QED
    BY <1>2, <1>6, <1>7 DEF n

(* The arithmetic operators give integers. *)
LEMMA ArithmeticInt ==
  ASSUME NEW op, op \in Arithmetic, NEW ty, ty \in Types, NEW x \in Int, NEW y \in Int,
         op \in {"Odiv", "Omod"} => y # 0
  PROVE  Arithmetic2(op, ty, x, y) \in Int
  <1>1. CASE op \in {"Omul", "Oadd", "Osub"}
    BY <1>1 DEF Arithmetic2
  <1>2. CASE op \in {"Odiv", "Omod"}
    <2>1. Truncated(x, y) \in Int
      BY <1>2, TruncatedInt
    <2> QED
      BY <1>2, <2>1 DEF Arithmetic2
  <1>3. CASE op \in {"Oand", "Oor", "Oxor"}
    <2> DEFINE m == Low(Width(ty), x)
               n == Low(Width(ty), y)
    <2>1. m \in Int /\ n \in Int
      <3>1. Width(ty) \in Word
        BY ValuesInt
      <3> QED
        BY <3>1, LowFacts
    <2>2. Arithmetic2(op, ty, x, y) = Bitwise2(op, m, n)
      BY <1>3 DEF Arithmetic2
    <2> HIDE DEF m, n
    <2> QED
      BY <1>3, <2>1, <2>2, BitwiseInt
  <1> QED
    BY <1>1, <1>2, <1>3 DEF Arithmetic

(* The value of an arithmetic operator. *)
LEMMA AppliedArith ==
  ASSUME NEW op, op \in Arithmetic, NEW tl \in ArithTypes, NEW tr \in ArithTypes,
         NEW a \in Results(tl), NEW b \in Results(tr), NEW ct, ct = CommonRealType(Arch, tl, tr),
         NEW x, x = Converted(tl, ct, a), NEW y, y = Converted(tr, ct, b),
         NEW e, e = Applied(op, tl, tr, a, b)
  PROVE  /\ e \in Results(ct)
         /\ e.ok => /\ x.ok /\ y.ok /\ e.mem = x.mem /\ e.n \in Int
                    /\ Same(Width(ct), Arithmetic2(op, ct, x.n, y.n), e.n)
                    /\ op \in {"Odiv", "Omod"} =>
                         y.n # 0 /\ ToType(ct, Truncated(x.n, y.n)) = Truncated(x.n, y.n)
  <1>1. tl \in Types /\ tr \in Types /\ ct \in Types /\ IsInt(tl) /\ IsInt(tr)
    BY CommonTypes
  <1>2. x \in Results(ct) /\ y \in Results(ct) /\ x.mem = a.mem
    BY <1>1, ConvertedResult
  <1>3. a.mem \in Mem /\ x.ok \in BOOLEAN /\ y.ok \in BOOLEAN /\ x.n \in Int /\ y.n \in Int
    BY <1>1, <1>2, ResultFields
  <1>4. op \notin Comparisons /\ op \notin Shifts
    BY DEF Arithmetic, Comparisons, Shifts
  <1> DEFINE out == op \in {"Odiv", "Omod"} /\ (y.n = 0 \/ ToType(ct, Truncated(x.n, y.n)) # Truncated(x.n, y.n))
             z == Arithmetic2(op, ct, x.n, y.n)
             n == ToType(ct, z)
             ok == x.ok /\ y.ok
  <1>5. IF out THEN e = Undefined(a.mem) ELSE e = Means(n, a.mem, ok)
    BY <1>1, <1>4, AppliedForms
  <1>6. CASE out
    <2>1. e = Undefined(a.mem)
      BY <1>5, <1>6
    <2> QED
      BY <1>1, <1>3, <2>1, NoResult
  <1>7. CASE ~out
    <2>1. op \in {"Odiv", "Omod"} => y.n # 0 /\ ToType(ct, Truncated(x.n, y.n)) = Truncated(x.n, y.n)
      BY <1>7
    <2>2. z \in Int
      BY <1>1, <1>3, <2>1, ArithmeticInt
    <2> HIDE DEF z
    <2>3. n \in Values(ct) /\ n \in Int /\ Same(Width(ct), z, n)
      BY <1>1, <2>2, ToTypeFacts
    <2>4. e = Means(n, a.mem, ok) /\ ok \in BOOLEAN
      BY <1>3, <1>5, <1>7
    <2> HIDE DEF n, ok, out
    <2>5. e.n = n /\ e.mem = a.mem /\ (e.ok <=> ok) /\ e \in Results(ct)
      BY <1>1, <1>3, <2>3, <2>4, ResultOf
    <2> QED
      BY <1>2, <2>1, <2>3, <2>5 DEF ok, z
  <1> QED
    BY <1>6, <1>7

(* The value of a shift. *)
LEMMA AppliedShift ==
  ASSUME NEW op, op \in Shifts, NEW tl \in ArithTypes, NEW tr \in ArithTypes,
         NEW a \in Results(tl), NEW b \in Results(tr), NEW e, e = Applied(op, tl, tr, a, b)
  PROVE  /\ e \in Results(tl)
         /\ e.ok => /\ a.ok /\ b.ok /\ b.n \in 0..(Width(tl) - 1) /\ e.mem = a.mem
                    /\ e.n = ToType(tl, IF op = "Osl" THEN a.n * 2 ^ b.n ELSE a.n \div 2 ^ b.n)
  <1>1. tl \in Types /\ tr \in Types /\ IsInt(tl) /\ IsInt(tr) /\ op \notin Comparisons
    BY CommonTypes DEF Shifts, Comparisons
  <1>2. a.mem \in Mem /\ a.ok \in BOOLEAN /\ b.ok \in BOOLEAN /\ a.n \in Int
    BY <1>1, ResultFields
  <1> DEFINE z == IF op = "Osl" THEN a.n * 2 ^ b.n ELSE a.n \div 2 ^ b.n
             n == ToType(tl, z)
             ok == a.ok /\ b.ok
  <1>3. IF b.n \in 0..(Width(tl) - 1) THEN e = Means(n, a.mem, ok) ELSE e = Undefined(a.mem)
    BY <1>1, AppliedForms
  <1>4. CASE b.n \notin 0..(Width(tl) - 1)
    <2>1. e = Undefined(a.mem)
      BY <1>3, <1>4
    <2> QED
      BY <1>1, <1>2, <2>1, NoResult
  <1>5. CASE b.n \in 0..(Width(tl) - 1)
    <2>1. z \in Int
      <3>1. Width(tl) \in Word
        BY <1>1, ValuesInt
      <3>2. b.n \in 0..7
        BY <1>5, <3>1 DEF Word
      <3>3. 2 ^ b.n \in Int /\ 2 ^ b.n \in 1..128
        BY <3>2, Powers
      <3>4. a.n \div 2 ^ b.n \in Int
        BY <1>2, <3>3, Quotient
      <3> QED
        BY <1>2, <3>3, <3>4
    <2> HIDE DEF z
    <2>2. n \in Values(tl)
      BY <1>1, <2>1, ToTypeFacts
    <2>3. e = Means(n, a.mem, ok) /\ ok \in BOOLEAN
      BY <1>2, <1>3, <1>5
    <2> HIDE DEF n, ok
    <2>4. e.n = n /\ e.mem = a.mem /\ (e.ok <=> ok) /\ e \in Results(tl)
      BY <1>1, <1>2, <2>2, <2>3, ResultOf
    <2> QED
      BY <1>5, <2>4 DEF ok, n, z
  <1> QED
    BY <1>4, <1>5

(* The value of a binary operator, when the right operand comes first. *)
Both(op, tl, tr, L, R) == [mem \in Mem |-> Applied(op, tl, tr, L[R[mem].mem], R[mem])]

(* The result for one memory. *)
LEMMA DensFacts ==
  ASSUME NEW ty \in Types, NEW D \in Dens(ty), NEW mem \in Mem
  PROVE  D[mem] \in Results(ty) /\ D[mem].mem \in Mem
  <1>1. D[mem] \in Results(ty)
    BY DEF Dens
  <1> QED
    BY <1>1, ResultFields

(* The results of an operand, converted. *)
LEMMA CoercedFacts ==
  ASSUME NEW from \in Types, NEW to \in Types, NEW D \in Dens(from), NEW mem \in Mem
  PROVE  /\ Coerced(from, to, D) \in Dens(to)
         /\ Coerced(from, to, D)[mem] = Converted(from, to, D[mem])
         /\ Coerced(from, to, D)[mem].mem = D[mem].mem
         /\ Coerced(from, to, D)[mem].ok => D[mem].ok
  <1>1. \A n \in Mem : D[n] \in Results(from)
    BY DensFacts
  <1>2. \A n \in Mem : Converted(from, to, D[n]) \in Results(to)
    BY <1>1, ConvertedResult
  <1>3. Converted(from, to, D[mem]).mem = D[mem].mem /\ (Converted(from, to, D[mem]).ok => D[mem].ok)
    BY <1>1, ConvertedResult
  <1> QED
    BY <1>2, <1>3 DEF Coerced, Dens

(* make_binary, for an arithmetic operator on integers. *)
LEMMA ArithGood ==
  ASSUME NEW op, op \in Arithmetic, NEW l, NEW r, NEW L, NEW R, NEW s, Good(l, L, s), Good(r, R, s),
         l.ty \in ArithTypes, r.ty \in ArithTypes,
         NEW ct, ct = CommonRealType(Arch, l.ty, r.ty)
  PROVE  Good(Arith(op, l, r), Both(op, l.ty, r.ty, L, R), s) /\ Arith(op, l, r).ty = ct
  <1> DEFINE E == Both(op, l.ty, r.ty, L, R)
             LC == Coerced(l.ty, ct, L)
             RC == Coerced(r.ty, ct, R)
  <1>1. l.ty \in Types /\ r.ty \in Types /\ ct \in Types /\ ct \in ArithTypes
    BY CommonTypes
  <1>2. L \in Dens(l.ty) /\ R \in Dens(r.ty)
    BY DEF Good
  <1>3. op \in BinaryOps /\ Divisible(op, ct) /\ op \notin Shifts /\ op \notin Comparisons
    BY <1>1 DEF BinaryOps, Divisible, Arithmetic, Shifts, Comparisons
  <1>4. ASSUME NEW mem \in Mem
        PROVE  /\ E[mem] \in Results(ct)
               /\ E[mem].ok => LC[RC[mem].mem].ok /\ RC[mem].ok
               /\ Maps2(BinaryCode(op, ct, ct), OtherOperand(op), ct, LC[RC[mem].mem], ct, RC[mem], ct, E[mem])
    <2> DEFINE b == R[mem]
               a == L[b.mem]
               x == Converted(l.ty, ct, a)
               y == Converted(r.ty, ct, b)
               e == Applied(op, l.ty, r.ty, a, b)
    <2>1. b \in Results(r.ty) /\ b.mem \in Mem
      BY <1>1, <1>2, DensFacts
    <2>2. a \in Results(l.ty)
      BY <1>1, <1>2, <2>1, DensFacts
    <2>3. RC[mem] = y /\ RC[mem].mem = b.mem
      BY <1>1, <1>2, CoercedFacts
    <2>4. LC[b.mem] = x
      BY <1>1, <1>2, <2>1, CoercedFacts
    <2>5. E[mem] = e
      BY DEF Both
    <2>6. x \in Results(ct) /\ y \in Results(ct)
      BY <1>1, <2>1, <2>2, ConvertedResult
    <2> HIDE DEF a, b, x, y, e, LC, RC, E
    <2>7. /\ e \in Results(ct)
          /\ e.ok => /\ x.ok /\ y.ok /\ e.mem = x.mem /\ e.n \in Int
                     /\ Same(Width(ct), Arithmetic2(op, ct, x.n, y.n), e.n)
                     /\ op \in {"Odiv", "Omod"} =>
                          y.n # 0 /\ ToType(ct, Truncated(x.n, y.n)) = Truncated(x.n, y.n)
      BY <2>1, <2>2, AppliedArith DEF x, y, e
    <2>8. OtherOperand(op) = "rbx"
      BY <1>3 DEF OtherOperand
    <2>9. Maps2(BinaryCode(op, ct, ct), "rbx", ct, x, ct, y, ct, e)
      <3>1. CASE op \in {"Odiv", "Omod"}
        <4>1. BinaryCode(op, ct, ct) = DivisionCode(op, ct)
          BY <3>1 DEF BinaryCode
        <4> QED
          BY <1>1, <2>6, <2>7, <3>1, <4>1, DivisionMaps
      <3>2. CASE op \notin {"Odiv", "Omod"}
        <4>1. BinaryCode(op, ct, ct) = <<Ins(op, Width(ct))>>
          BY <1>3, <3>2 DEF BinaryCode
        <4>2. op \in {"Omul", "Oadd", "Osub", "Oand", "Oor", "Oxor"}
          BY <3>2 DEF Arithmetic
        <4> QED
          BY <1>1, <2>6, <2>7, <4>1, <4>2, CombineMaps
      <3> QED
        BY <3>1, <3>2
    <2> QED
      BY <2>3, <2>4, <2>5, <2>7, <2>8, <2>9
  <1>5. E \in Dens(ct)
    BY <1>4 DEF Dens, Both
  <1>6. Composes(BinaryCode(op, ct, ct), OtherOperand(op), ct, LC, ct, RC, ct, E)
    BY <1>4 DEF Composes
  <1> HIDE DEF E
  <1>7. Good(Usual(op, ct, l, r), E, s) /\ Usual(op, ct, l, r).ty = ct
    BY <1>1, <1>3, <1>5, <1>6, UsualGood
  <1>8. Arith(op, l, r) = Usual(op, ct, l, r)
    BY UsualTree
  <1> QED
    BY <1>7, <1>8 DEF E

(* make_binary, for a comparison of integers. *)
LEMMA CompareGood ==
  ASSUME NEW op, op \in Comparisons, NEW l, NEW r, NEW L, NEW R, NEW s, Good(l, L, s), Good(r, R, s),
         l.ty \in ArithTypes, r.ty \in ArithTypes
  PROVE  Good(Usual(op, "int", l, r), Both(op, l.ty, r.ty, L, R), s) /\ Usual(op, "int", l, r).ty = "int"
  <1> DEFINE ct == CommonRealType(Arch, l.ty, r.ty)
             E == Both(op, l.ty, r.ty, L, R)
             LC == Coerced(l.ty, ct, L)
             RC == Coerced(r.ty, ct, R)
  <1>1. l.ty \in Types /\ r.ty \in Types /\ ct \in Types /\ ct \in ArithTypes /\ ct # "ulong"
    BY CommonTypes
  <1>2. L \in Dens(l.ty) /\ R \in Dens(r.ty)
    BY DEF Good
  <1>3. /\ op \in BinaryOps /\ Divisible(op, "int") /\ op \notin Shifts /\ op \notin {"Odiv", "Omod"}
        /\ "int" \in Types /\ Width("int") = 4
    BY TypeFacts DEF BinaryOps, Divisible, Arithmetic, Shifts, Comparisons, Types
  <1>4. ct = CommonRealType(Arch, l.ty, r.ty)
    OBVIOUS
  <1> HIDE DEF ct
  <1>5. ASSUME NEW mem \in Mem
        PROVE  /\ E[mem] \in Results("int")
               /\ E[mem].ok => LC[RC[mem].mem].ok /\ RC[mem].ok
               /\ Maps2(BinaryCode(op, "int", ct), OtherOperand(op), ct, LC[RC[mem].mem], ct, RC[mem], "int", E[mem])
    <2> DEFINE b == R[mem]
               a == L[b.mem]
               x == Converted(l.ty, ct, a)
               y == Converted(r.ty, ct, b)
               e == Applied(op, l.ty, r.ty, a, b)
    <2>1. b \in Results(r.ty) /\ b.mem \in Mem
      BY <1>1, <1>2, DensFacts
    <2>2. a \in Results(l.ty)
      BY <1>1, <1>2, <2>1, DensFacts
    <2>3. RC[mem] = y /\ RC[mem].mem = b.mem
      BY <1>1, <1>2, CoercedFacts
    <2>4. LC[b.mem] = x
      BY <1>1, <1>2, <2>1, CoercedFacts
    <2>5. E[mem] = e
      BY DEF Both
    <2>6. x \in Results(ct) /\ y \in Results(ct)
      BY <1>1, <2>1, <2>2, ConvertedResult
    <2> HIDE DEF a, b, x, y, e, LC, RC, E
    <2>7. /\ e \in Results("int")
          /\ e.ok => /\ x.ok /\ y.ok /\ Fits(ct, x.n) /\ Fits(ct, y.n)
                     /\ e.mem = x.mem /\ e.n = Compared(op, x.n, y.n)
      BY <1>4, <2>1, <2>2, AppliedCompare DEF x, y, e
    <2>8. OtherOperand(op) = "rbx"
      BY <1>3 DEF OtherOperand
    <2>9. BinaryCode(op, "int", ct) = <<Ins("cmp bx", 4), Set(CmpSuffix(op, Signed(ct))), Ins("movzbl", 4)>>
      BY <1>3 DEF BinaryCode
    <2>10. Maps2(BinaryCode(op, "int", ct), "rbx", ct, x, ct, y, "int", e)
      BY <1>1, <2>6, <2>7, <2>9, CompareMaps
    <2> QED
      BY <2>3, <2>4, <2>5, <2>7, <2>8, <2>10
  <1>6. E \in Dens("int")
    BY <1>5 DEF Dens, Both
  <1>7. Composes(BinaryCode(op, "int", ct), OtherOperand(op), ct, LC, ct, RC, "int", E)
    BY <1>5 DEF Composes
  <1> HIDE DEF E
  <1>8. Good(Usual(op, "int", l, r), E, s) /\ Usual(op, "int", l, r).ty = "int"
    BY <1>3, <1>4, <1>6, <1>7, UsualGood
  <1> QED
    BY <1>8 DEF E

(* make_binary, for a shift: the operands are promoted alone. *)
LEMMA ShiftGood ==
  ASSUME NEW op, op \in Shifts, NEW l, NEW r, NEW L, NEW R, NEW s, Good(l, L, s), Good(r, R, s),
         l.ty \in ArithTypes, r.ty \in ArithTypes
  PROVE  Good(Binary(op, l.ty, l, r), Both(op, l.ty, r.ty, L, R), s) /\ Binary(op, l.ty, l, r).ty = l.ty
  <1> DEFINE E == Both(op, l.ty, r.ty, L, R)
  <1>1. l.ty \in Types /\ r.ty \in Types
    BY CommonTypes
  <1>2. L \in Dens(l.ty) /\ R \in Dens(r.ty)
    BY DEF Good
  <1>3. op \in BinaryOps /\ Divisible(op, l.ty) /\ op \notin {"Odiv", "Omod"}
    BY DEF BinaryOps, Divisible, Shifts
  <1>4. ASSUME NEW mem \in Mem
        PROVE  /\ E[mem] \in Results(l.ty)
               /\ E[mem].ok => L[R[mem].mem].ok /\ R[mem].ok
               /\ Maps2(BinaryCode(op, l.ty, l.ty), OtherOperand(op), l.ty, L[R[mem].mem], r.ty, R[mem], l.ty, E[mem])
    <2> DEFINE b == R[mem]
               a == L[b.mem]
               e == Applied(op, l.ty, r.ty, a, b)
    <2>1. b \in Results(r.ty) /\ b.mem \in Mem
      BY <1>1, <1>2, DensFacts
    <2>2. a \in Results(l.ty)
      BY <1>1, <1>2, <2>1, DensFacts
    <2>3. E[mem] = e
      BY DEF Both
    <2> HIDE DEF a, b, e, E
    <2>4. /\ e \in Results(l.ty)
          /\ e.ok => /\ a.ok /\ b.ok /\ b.n \in 0..(Width(l.ty) - 1) /\ e.mem = a.mem
                     /\ e.n = ToType(l.ty, IF op = "Osl" THEN a.n * 2 ^ b.n ELSE a.n \div 2 ^ b.n)
      BY <2>1, <2>2, AppliedShift DEF e
    <2>5. OtherOperand(op) = "rcx"
      BY DEF OtherOperand
    <2>6. BinaryCode(op, l.ty, l.ty) = ShiftCode(op, l.ty)
      BY <1>3 DEF BinaryCode
    <2>7. Maps2(ShiftCode(op, l.ty), "rcx", l.ty, a, r.ty, b, l.ty, e)
      BY <1>1, <2>1, <2>2, <2>4, ShiftMaps
    <2> QED
      BY <2>3, <2>4, <2>5, <2>6, <2>7 DEF a, b
  <1>5. E \in Dens(l.ty)
    BY <1>4 DEF Dens, Both
  <1>6. Composes(BinaryCode(op, l.ty, l.ty), OtherOperand(op), l.ty, L, r.ty, R, l.ty, E)
    BY <1>4 DEF Composes
  <1> HIDE DEF E
  <1>7. Good(Binary(op, l.ty, l, r), E, s) /\ Binary(op, l.ty, l, r).ty = l.ty
    BY <1>1, <1>3, <1>5, <1>6, OperateGood
  <1> QED
    BY <1>7 DEF E

(* The type of an operator on integers. *)
IntegerType(op, tl, tr) ==
  IF op \in Comparisons THEN "int" ELSE IF op \in Shifts THEN tl ELSE CommonRealType(Arch, tl, tr)

(* make_binary is right for integers: the tree computes the operator on    *)
(* the numbers of its operands.                                            *)
LEMMA IntegersGood ==
  ASSUME NEW op, op \in BinaryOps, NEW l, NEW r, NEW L, NEW R, NEW s, Good(l, L, s), Good(r, R, s),
         l.ty \in ArithTypes, r.ty \in ArithTypes
  PROVE  /\ Good(MakeBinary(op, l, r), Both(op, l.ty, r.ty, L, R), s)
         /\ MakeBinary(op, l, r).ty = IntegerType(op, l.ty, r.ty)
         /\ MakeBinary(op, l, r).op \notin {"Ovar", "Oindir", "Oaddr", "Oconst"}
  <1>1. ~IsPtr(l.ty) /\ ~IsPtr(r.ty) /\ Promote(l) = l /\ Promote(r) = r
    <2>1. IsInt(l.ty) /\ IsInt(r.ty)
      BY CommonTypes
    <2>2. Promote(l) = l /\ Promote(r) = r
      BY UsualTree
    <2> QED
      BY <2>1, <2>2 DEF IsInt, IsPtr
  <1>2. op \notin {"Ovar", "Oindir", "Oaddr", "Oconst"}
    BY DEF BinaryOps, Arithmetic, Shifts, Comparisons
  <1> HIDE DEF IsPtr
  <1>3. CASE op \in Shifts
    <2>1. op \notin Comparisons
      BY <1>3 DEF Shifts, Comparisons
    <2>2. MakeBinary(op, l, r) = Binary(op, l.ty, l, r)
      BY <1>1, <1>3 DEF MakeBinary
    <2>3. Binary(op, l.ty, l, r).op = op
      BY BinaryFields
    <2>4. Good(Binary(op, l.ty, l, r), Both(op, l.ty, r.ty, L, R), s) /\ Binary(op, l.ty, l, r).ty = l.ty
      BY <1>3, ShiftGood
    <2>5. IntegerType(op, l.ty, r.ty) = l.ty
      BY <1>3, <2>1 DEF IntegerType
    <2> QED
      BY <1>2, <2>2, <2>3, <2>4, <2>5
  <1>4. CASE op \in Comparisons
    <2>1. op \notin Shifts
      BY <1>4 DEF Shifts, Comparisons
    <2>2. MakeBinary(op, l, r) = Usual(op, "int", l, r)
      BY <1>1, <1>4, <2>1 DEF MakeBinary
    <2>3. Usual(op, "int", l, r).op = op
      BY BinaryFields DEF Usual
    <2>4. Good(Usual(op, "int", l, r), Both(op, l.ty, r.ty, L, R), s) /\ Usual(op, "int", l, r).ty = "int"
      BY <1>4, CompareGood
    <2>5. IntegerType(op, l.ty, r.ty) = "int"
      BY <1>4 DEF IntegerType
    <2> QED
      BY <1>2, <2>2, <2>3, <2>4, <2>5
  <1>5. CASE op \notin Shifts \cup Comparisons
    <2>1. op \in Arithmetic
      BY <1>5 DEF BinaryOps
    <2>2. MakeBinary(op, l, r) = Arith(op, l, r)
      BY <1>1, <1>5 DEF MakeBinary
    <2>3. Arith(op, l, r).op = op
      BY BinaryFields DEF Arith, Usual
    <2>4. Good(Arith(op, l, r), Both(op, l.ty, r.ty, L, R), s) /\ Arith(op, l, r).ty = CommonRealType(Arch, l.ty, r.ty)
      BY <2>1, ArithGood
    <2>5. IntegerType(op, l.ty, r.ty) = CommonRealType(Arch, l.ty, r.ty)
      BY <1>5 DEF IntegerType
    <2> QED
      BY <1>2, <2>2, <2>3, <2>4, <2>5
  <1> QED
    BY <1>3, <1>4, <1>5

-----------------------------------------------------------------------------
(* Pointers and indices. *)

(* The size of an int, as an expression of the source's types. *)
Four == [mem \in Mem |-> Means(IntWidth, mem, TRUE)]

(* The constant make_binary scales by computes the size of an int. *)
LEMMA FourGood ==
  ASSUME NEW s, s \in BOOLEAN
  PROVE  Good(Const(IntWidth), Four, s) /\ Const(IntWidth).ty = "int"
  <1>1. IntWidth \in 0..7
    BY DEF IntWidth
  <1>2. Good(Const(IntWidth), Four, FALSE)
    BY <1>1, ConstGood DEF Four
  <1>3. Const(IntWidth).ty = "int"
    BY LeafTree
  <1> QED
    BY <1>2, <1>3, GoodWeaker

(* This constant is of every type. *)
LEMMA ConvertedFour ==
  ASSUME NEW ty \in ArithTypes, NEW mem \in Mem
  PROVE  LET y == Converted("int", ty, Means(IntWidth, mem, TRUE))
         IN  y.n = 4 /\ y.mem = mem /\ y.ok = TRUE
  <1>1. ToType(ty, 4) = 4
    <2>1. 4 \in Values(ty) /\ ty \in Types
      BY DEF Values, ArithTypes, Types, Pointers
    <2> QED
      BY <2>1, ToTypeFacts
  <1> QED
    BY <1>1, TypeFacts DEF Converted, Means, IntWidth

(* An index times the size of an int, in the type of the index. *)
LEMMA ScaledValue ==
  ASSUME NEW ty \in ArithTypes, NEW b \in Results(ty), NEW mem \in Mem
  PROVE  Applied("Omul", ty, "int", b, Means(IntWidth, mem, TRUE)) = Means(ToType(ty, b.n * 4), b.mem, b.ok)
  <1> DEFINE f == Means(IntWidth, mem, TRUE)
             ct == CommonRealType(Arch, ty, "int")
             x == Converted(ty, ct, b)
             y == Converted("int", ct, f)
             e == Applied("Omul", ty, "int", b, f)
  <1>1. ct = ty /\ ty \in Types /\ IsInt(ty) /\ IsInt("int")
    BY CommonTypes DEF ArithTypes
  <1>2. x = b
    BY <1>1, ConvertedResult
  <1>3. y.n = 4 /\ y.ok = TRUE
    BY <1>1, ConvertedFour
  <1>4. "Omul" \notin Comparisons /\ "Omul" \notin Shifts /\ "Omul" \notin {"Odiv", "Omod"}
    BY DEF Comparisons, Shifts
  <1> HIDE DEF ct, x, y, f, e
  <1>5. e = Means(ToType(ct, Arithmetic2("Omul", ct, x.n, y.n)), b.mem, x.ok /\ y.ok)
    BY <1>1, <1>4, AppliedForms DEF ct, x, y, e
  <1>6. Arithmetic2("Omul", ct, x.n, y.n) = b.n * 4
    BY <1>2, <1>3 DEF Arithmetic2
  <1>7. b.ok \in BOOLEAN
    BY <1>1, ResultFields
  <1>8. (x.ok /\ y.ok) = b.ok
    BY <1>2, <1>3, <1>7
  <1> QED
    BY <1>1, <1>5, <1>6, <1>8 DEF e, f

(* Converted to the type of sizes it is the scaled index, where that fits  *)
(* in the type of the index.                                               *)
LEMMA ScaledFacts ==
  ASSUME NEW ty \in ArithTypes, NEW b \in Results(ty)
  PROVE  LET y == Converted(ty, "ulong", Means(ToType(ty, b.n * 4), b.mem, b.ok))
         IN  /\ y \in Results("ulong") /\ y.mem = b.mem
             /\ b.ok /\ (Width(ty) = 4 => 4 * b.n \in -8..7) => y.ok /\ Same(8, y.n, 4 * b.n)
  <1> DEFINE z == b.n * 4
             v == ToType(ty, z)
             e == Means(v, b.mem, b.ok)
             y == Converted(ty, "ulong", e)
  <1>1. ty \in Types /\ "ulong" \in Types
    BY CommonTypes DEF Types
  <1>2. b.n \in Values(ty) /\ b.n \in Int /\ b.mem \in Mem /\ b.ok \in BOOLEAN
    BY <1>1, ResultFields
  <1>3. z \in Int /\ z = 4 * b.n
    BY <1>2
  <1> HIDE DEF z
  <1>4. v \in Values(ty) /\ v \in Int /\ Same(Width(ty), v, z) /\ (z \in Values(ty) => v = z)
    BY <1>1, <1>3, ToTypeFacts
  <1>5. e \in Results(ty) /\ e.n = v /\ e.mem = b.mem /\ e.ok = b.ok
    BY <1>2, <1>4 DEF Means, Results
  <1>6. y.ok <=> e.ok /\ ~(~Signed(ty) /\ Width(ty) = 4 /\ Width("ulong") = 8 /\ e.n > 7)
    BY DEF Converted, Means
  <1> HIDE DEF v, e
  <1>7. y \in Results("ulong") /\ y.mem = b.mem /\ y.n = ToType("ulong", v)
    BY <1>1, <1>5, ConvertedResult
  <1> HIDE DEF y
  <1>8. Same(8, y.n, v)
    <2>1. Width("ulong") = 8
      BY TypeFacts
    <2> QED
      BY <1>1, <1>4, <1>7, <2>1, ToTypeFacts
  <1>9. ASSUME b.ok, Width(ty) = 4 => 4 * b.n \in -8..7 PROVE y.ok /\ Same(8, y.n, z)
    <2>1. CASE ty = "long"
      <3>1. Width(ty) = 8 /\ Signed(ty)
        BY <2>1, TypeFacts
      <3>2. Same(8, y.n, z)
        BY <1>4, <1>8, <3>1, SameTrans
      <3> QED
        BY <1>5, <1>6, <1>9, <3>1, <3>2
    <2>2. CASE ty = "int"
      <3>1. Width(ty) = 4 /\ Signed(ty)
        BY <2>2, TypeFacts
      <3>2. v = z
        BY <1>3, <1>4, <1>9, <2>2, <3>1 DEF Values
      <3> QED
        BY <1>5, <1>6, <1>8, <1>9, <3>1, <3>2
    <2>3. CASE ty = "uint"
      <3>1. Width(ty) = 4
        BY <2>3, TypeFacts
      <3>2. z \in 0..7
        BY <1>2, <1>3, <1>9, <2>3, <3>1 DEF Values
      <3>3. v = z
        BY <1>4, <2>3, <3>2 DEF Values
      <3>4. ~(e.n > 7)
        BY <1>5, <3>2, <3>3
      <3> QED
        BY <1>5, <1>6, <1>8, <1>9, <3>3, <3>4
    <2> QED
      BY <2>1, <2>2, <2>3 DEF ArithTypes
  <1> QED
    BY <1>3, <1>7, <1>9 DEF y, e, v, z

(* The value of a pointer and an index. *)
LEMMA AppliedIndex ==
  ASSUME NEW op, op \in {"Oadd", "Osub"}, NEW ty \in ArithTypes, NEW a \in Results("int*"), NEW b \in Results(ty),
         NEW e, e = Applied(op, "int*", ty, a, b)
  PROVE  /\ e \in Results("int*")
         /\ e.ok => /\ a.ok /\ b.ok /\ (Width(ty) = 4 => 4 * b.n \in -8..7) /\ e.mem = a.mem /\ e.n \in Int
                    /\ op = "Oadd" => Same(8, a.n + 4 * b.n, e.n)
                    /\ op = "Osub" => Same(8, a.n - 4 * b.n, e.n)
  <1>1. ty \in Types /\ IsInt(ty) /\ "int*" \in Types
    BY CommonTypes DEF Types, Pointers
  <1>2. a.mem \in Mem /\ a.ok \in BOOLEAN /\ b.ok \in BOOLEAN /\ a.n \in Int /\ b.n \in Int
    BY <1>1, ResultFields
  <1>3. op \notin Comparisons /\ op \notin Shifts /\ IsPtr("int*") /\ ~IsInt("int*") /\ ~IsPtr(ty)
    BY <1>1, TypeFacts DEF Comparisons, Shifts, IsInt, IsPtr
  <1> HIDE DEF IsInt, IsPtr
  <1> DEFINE z == IF op = "Oadd" THEN a.n + 4 * b.n ELSE a.n - 4 * b.n
             ok == a.ok /\ b.ok /\ (Width(ty) = 4 => 4 * b.n \in -8..7)
             n == Low(8, z)
  <1>4. e = Means(n, a.mem, ok)
    BY <1>3 DEF Applied, IntWidth
  <1>5. z \in Int /\ (op = "Oadd" => z = a.n + 4 * b.n) /\ (op = "Osub" => z = a.n - 4 * b.n)
    BY <1>2
  <1>6. ok \in BOOLEAN /\ (ok => a.ok /\ b.ok /\ (Width(ty) = 4 => 4 * b.n \in -8..7))
    BY <1>2
  <1> HIDE DEF z, ok
  <1>7. n \in 0..255 /\ n \in Int /\ Same(8, z, n)
    BY <1>5, LowFacts DEF Word
  <1> HIDE DEF n
  <1>8. n \in Values("int*")
    BY <1>7 DEF Values, Pointers
  <1>9. e.n = n /\ e.mem = a.mem /\ (e.ok <=> ok) /\ e \in Results("int*")
    BY <1>1, <1>2, <1>4, <1>6, <1>8, ResultOf
  <1> QED
    BY <1>5, <1>6, <1>7, <1>9

(* The code of + and - computes it of the pointer and the scaled index. *)
LEMMA IndexMaps ==
  ASSUME NEW op, op \in {"Oadd", "Osub"}, NEW a \in Results("int*"), NEW y \in Results("ulong"), NEW e, NEW z \in Int,
         e.ok => /\ e.mem = a.mem /\ e.n \in Int /\ Same(8, y.n, z)
                 /\ op = "Oadd" => Same(8, a.n + z, e.n)
                 /\ op = "Osub" => Same(8, a.n - z, e.n)
  PROVE  Maps2(BinaryCode(op, "int*", "int*"), "rbx", "int*", a, "ulong", y, "int*", e)
  <1>1. "int*" \in Types /\ "ulong" \in Types /\ Width("int*") = 8 /\ Width("ulong") = 8
    BY TypeFacts DEF Types, Pointers
  <1>2. a.n \in Int /\ y.n \in Int
    BY <1>1, ResultFields
  <1>3. BinaryCode(op, "int*", "int*") = <<Ins(op, Width("int*"))>>
    BY DEF BinaryCode, Shifts, Comparisons
  <1>4. ASSUME e.ok PROVE Same(8, Arithmetic2(op, "int*", a.n, y.n), e.n)
    <2>1. Same(8, a.n, a.n)
      BY SameRefl
    <2>2. Same(8, a.n + y.n, a.n + z) /\ Same(8, a.n - y.n, a.n - z)
      BY <1>2, <1>4, <2>1, SumsAgree DEF Word
    <2>3. CASE op = "Oadd"
      <3>1. Arithmetic2(op, "int*", a.n, y.n) = a.n + y.n
        BY <2>3 DEF Arithmetic2
      <3> QED
        BY <1>4, <2>2, <2>3, <3>1, SameTrans
    <2>4. CASE op = "Osub"
      <3>1. Arithmetic2(op, "int*", a.n, y.n) = a.n - y.n
        BY <2>4 DEF Arithmetic2
      <3> QED
        BY <1>4, <2>2, <2>4, <3>1, SameTrans
    <2> QED
      BY <2>3, <2>4
  <1>5. op \in {"Omul", "Oadd", "Osub", "Oand", "Oor", "Oxor"}
    OBVIOUS
  <1>6. e.ok => e.mem = a.mem /\ e.n \in Int /\ Same(Width("int*"), Arithmetic2(op, "int*", a.n, y.n), e.n)
    BY <1>1, <1>4
  <1>7. Maps2(<<Ins(op, Width("int*"))>>, "rbx", "int*", a, "ulong", y, "int*", e)
    BY <1>1, <1>5, <1>6, CombineMaps
  <1> QED
    BY <1>3, <1>7

(* make_binary is right for a pointer and an integer: the element is found *)
(* at its address.                                                         *)
LEMMA IndexGood ==
  ASSUME NEW op, op \in {"Oadd", "Osub"}, NEW p, NEW i, NEW P, NEW I, NEW s, Good(p, P, s), Good(i, I, s),
         p.ty = "int*", i.ty \in ArithTypes
  PROVE  Good(Index(op, p, i), Both(op, "int*", i.ty, P, I), s) /\ Index(op, p, i).ty = "int*"
  <1> DEFINE ty == i.ty
             m == Arith("Omul", i, Const(IntWidth))
             M == Both("Omul", ty, "int", I, Four)
             j == Convert("ulong", m)
             J == Coerced(ty, "ulong", M)
             E == Both(op, "int*", ty, P, I)
  <1>1. ty \in Types /\ ty # "ulong" /\ ty \in ArithTypes /\ "int*" \in Types /\ "ulong" \in Types /\ "int" \in ArithTypes
    BY CommonTypes DEF Types, Pointers, ArithTypes
  <1>2. P \in Dens("int*") /\ I \in Dens(ty) /\ s \in BOOLEAN
    BY DEF Good
  <1>3. Good(m, M, s) /\ m.ty = ty
    <2> DEFINE f == Const(IntWidth)
    <2>1. Good(f, Four, s) /\ f.ty = "int"
      BY <1>2, FourGood
    <2>2. CommonRealType(Arch, ty, "int") = ty
      BY <1>1, CommonTypes
    <2>3. "Omul" \in Arithmetic
      BY DEF Arithmetic
    <2> HIDE DEF f
    <2>4. Good(Arith("Omul", i, f), Both("Omul", i.ty, f.ty, I, Four), s) /\ Arith("Omul", i, f).ty = CommonRealType(Arch, i.ty, f.ty)
      BY <1>1, <2>1, <2>3, ArithGood
    <2> QED
      BY <2>1, <2>2, <2>4 DEF f
  <1> HIDE DEF m
  <1>4. Good(j, J, s) /\ j.ty = "ulong"
    <2>1. Signed("ulong")
      BY TypeFacts
    <2> QED
      BY <1>1, <1>3, <2>1, ConvertGood DEF Coerced
  <1>5. Index(op, p, i) = Binary(op, "int*", p, j)
    BY DEF Index, m
  <1> HIDE DEF j
  <1>6. ASSUME NEW mem \in Mem
        PROVE  /\ E[mem] \in Results("int*")
               /\ E[mem].ok => P[J[mem].mem].ok /\ J[mem].ok
               /\ Maps2(BinaryCode(op, "int*", "int*"), "rbx", "int*", P[J[mem].mem], "ulong", J[mem], "int*", E[mem])
    <2> DEFINE b == I[mem]
               a == P[b.mem]
               e == Applied(op, "int*", ty, a, b)
               y == J[mem]
    <2>1. b \in Results(ty) /\ b.mem \in Mem
      BY <1>1, <1>2, DensFacts
    <2>2. a \in Results("int*")
      BY <1>1, <1>2, <2>1, DensFacts
    <2>3. E[mem] = e
      BY DEF Both
    <2>4. M[mem] = Means(ToType(ty, b.n * 4), b.mem, b.ok)
      <3>1. Four[mem] = Means(IntWidth, mem, TRUE) /\ Four[mem].mem = mem
        BY DEF Four, Means
      <3>2. M[mem] = Applied("Omul", ty, "int", b, Means(IntWidth, mem, TRUE))
        BY <3>1 DEF Both
      <3> HIDE DEF b
      <3> QED
        BY <1>1, <2>1, <3>2, ScaledValue
    <2>5. y = Converted(ty, "ulong", Means(ToType(ty, b.n * 4), b.mem, b.ok))
      BY <2>4 DEF Coerced
    <2> HIDE DEF a, b, e, y, E, J, M
    <2>6. /\ y \in Results("ulong") /\ y.mem = b.mem
          /\ b.ok /\ (Width(ty) = 4 => 4 * b.n \in -8..7) => y.ok /\ Same(8, y.n, 4 * b.n)
      BY <1>1, <2>1, <2>5, ScaledFacts
    <2>7. /\ e \in Results("int*")
          /\ e.ok => /\ a.ok /\ b.ok /\ (Width(ty) = 4 => 4 * b.n \in -8..7) /\ e.mem = a.mem /\ e.n \in Int
                     /\ op = "Oadd" => Same(8, a.n + 4 * b.n, e.n)
                     /\ op = "Osub" => Same(8, a.n - 4 * b.n, e.n)
      BY <1>1, <2>1, <2>2, AppliedIndex DEF e
    <2>8. P[y.mem] = a
      BY <2>6 DEF a
    <2>9. 4 * b.n \in Int
      <3>1. b.n \in Int
        BY <1>1, <2>1, ResultFields
      <3> QED
        BY <3>1
    <2>10. Maps2(BinaryCode(op, "int*", "int*"), "rbx", "int*", a, "ulong", y, "int*", e)
      <3> DEFINE z == 4 * b.n
      <3>1. z \in Int
        BY <2>9
      <3>2. e.ok => /\ e.mem = a.mem /\ e.n \in Int /\ Same(8, y.n, z)
                    /\ op = "Oadd" => Same(8, a.n + z, e.n)
                    /\ op = "Osub" => Same(8, a.n - z, e.n)
        BY <2>6, <2>7
      <3> HIDE DEF z
      <3> QED
        BY <2>2, <2>6, <3>1, <3>2, IndexMaps
    <2> QED
      BY <2>3, <2>6, <2>7, <2>8, <2>10 DEF y
  <1>7. E \in Dens("int*")
    BY <1>6 DEF Dens, Both
  <1>8. Composes(BinaryCode(op, "int*", p.ty), OtherOperand(op), p.ty, P, j.ty, J, "int*", E)
    <2>1. OtherOperand(op) = "rbx"
      BY DEF OtherOperand, Shifts
    <2> HIDE DEF E, J
    <2> QED
      BY <1>4, <1>6, <2>1 DEF Composes
  <1>9. op \in BinaryOps /\ Divisible(op, "int*")
    BY DEF BinaryOps, Arithmetic, Divisible
  <1> HIDE DEF E, J
  <1>10. Good(Binary(op, "int*", p, j), E, s) /\ Binary(op, "int*", p, j).ty = "int*"
    BY <1>1, <1>4, <1>7, <1>8, <1>9, OperateGood
  <1> QED
    BY <1>5, <1>10 DEF E

(* Its tree is the operator's. *)
LEMMA IndexField ==
  ASSUME NEW op, NEW p, NEW i
  PROVE  Index(op, p, i).op = op
  BY BinaryFields DEF Index

-----------------------------------------------------------------------------
(* Pointers and pointers. *)

(* The types of pointers. *)
LEMMA PointerFacts ==
  ASSUME NEW ty, ty \in Pointers
  PROVE  /\ ty \in Types /\ ty # "ulong" /\ Width(ty) = 8 /\ ~Signed(ty) /\ IsPtr(ty) /\ ~IsInt(ty)
         /\ Values(ty) = 0..255 /\ ty \notin ArithTypes
  BY TypeFacts DEF Types, Pointers, Values, ArithTypes

(* The value of a comparison of pointers. *)
LEMMA AppliedPointers ==
  ASSUME NEW op, op \in Comparisons, NEW tl, tl \in Pointers, NEW tr, tr \in Pointers,
         NEW a \in Results(tl), NEW b \in Results(tr), NEW e, e = Applied(op, tl, tr, a, b)
  PROVE  /\ e \in Results("int")
         /\ e.ok => a.ok /\ b.ok /\ Fits(tl, a.n) /\ Fits(tr, b.n) /\ e.mem = a.mem /\ e.n = Compared(op, a.n, b.n)
  <1>1. tl \in Types /\ tr \in Types /\ "int" \in Types /\ ~IsInt(tl) /\ Width(tl) = 8 /\ Width(tr) = 8
    BY PointerFacts DEF Types
  <1>2. a.mem \in Mem /\ a.ok \in BOOLEAN /\ b.ok \in BOOLEAN /\ b.n \in Int /\ b.n \in Values(tr)
    BY <1>1, ResultFields
  <1> DEFINE x == Converted(tl, tl, a)
             y == Converted(tr, tl, b)
  <1>3. x = a
    BY <1>1, ConvertedResult
  <1>4. y.n = b.n
    <2>1. b.n \in Values(tl)
      BY <1>2, PointerFacts
    <2>2. y.n = ToType(tl, b.n)
      BY <1>1, ConvertedResult
    <2> QED
      BY <1>1, <1>2, <2>1, <2>2, ToTypeFacts
  <1>5. y.ok = b.ok
    BY <1>1, <1>2 DEF Converted, Means
  <1>6. e = Means(Compared(op, x.n, y.n), a.mem, x.ok /\ y.ok /\ Fits(tl, x.n) /\ Fits(tl, y.n))
    BY <1>1 DEF Applied
  <1> HIDE DEF x, y
  <1> DEFINE n == Compared(op, a.n, b.n)
             ok == a.ok /\ b.ok /\ Fits(tl, a.n) /\ Fits(tl, b.n)
  <1>7. e = Means(n, a.mem, ok)
    BY <1>3, <1>4, <1>5, <1>6
  <1>8. n \in Values("int")
    BY ComparedValue DEF Values
  <1>9. Fits(tl, b.n) => Fits(tr, b.n)
    <2>1. IsPtr(tl) /\ IsPtr(tr)
      BY PointerFacts
    <2> QED
      BY <1>1, <2>1 DEF Fits
  <1>10. ok \in BOOLEAN /\ (ok => a.ok /\ b.ok /\ Fits(tl, a.n) /\ Fits(tr, b.n))
    BY <1>2, <1>9
  <1> HIDE DEF n, ok
  <1>11. e.n = n /\ e.mem = a.mem /\ (e.ok <=> ok) /\ e \in Results("int")
    BY <1>1, <1>2, <1>7, <1>8, <1>10, ResultOf
  <1> QED
    BY <1>10, <1>11 DEF n

(* make_binary, for a comparison of pointers. *)
LEMMA PointersCompare ==
  ASSUME NEW op, op \in Comparisons, NEW l, NEW r, NEW L, NEW R, NEW s, Good(l, L, s), Good(r, R, s),
         l.ty \in Pointers, r.ty \in Pointers
  PROVE  Good(Binary(op, "int", l, r), Both(op, l.ty, r.ty, L, R), s) /\ Binary(op, "int", l, r).ty = "int"
  <1> DEFINE E == Both(op, l.ty, r.ty, L, R)
  <1>1. /\ l.ty \in Types /\ r.ty \in Types /\ l.ty # "ulong" /\ r.ty # "ulong" /\ "int" \in Types
        /\ Signed(l.ty) = Signed(r.ty) /\ Width("int") = 4
    <2>1. ~Signed(l.ty) /\ ~Signed(r.ty) /\ Signed(l.ty) \in BOOLEAN /\ Signed(r.ty) \in BOOLEAN
      <3>1. ~Signed(l.ty) /\ ~Signed(r.ty)
        BY PointerFacts
      <3> QED
        BY <3>1 DEF Signed
    <2> QED
      BY <2>1, PointerFacts, TypeFacts DEF Types
  <1>2. L \in Dens(l.ty) /\ R \in Dens(r.ty)
    BY DEF Good
  <1>3. op \in BinaryOps /\ Divisible(op, "int") /\ op \notin Shifts /\ op \notin {"Odiv", "Omod"}
    BY DEF BinaryOps, Divisible, Shifts, Comparisons
  <1>4. ASSUME NEW mem \in Mem
        PROVE  /\ E[mem] \in Results("int")
               /\ E[mem].ok => L[R[mem].mem].ok /\ R[mem].ok
               /\ Maps2(BinaryCode(op, "int", l.ty), OtherOperand(op), l.ty, L[R[mem].mem], r.ty, R[mem], "int", E[mem])
    <2> DEFINE b == R[mem]
               a == L[b.mem]
               e == Applied(op, l.ty, r.ty, a, b)
    <2>1. b \in Results(r.ty) /\ b.mem \in Mem
      BY <1>1, <1>2, DensFacts
    <2>2. a \in Results(l.ty)
      BY <1>1, <1>2, <2>1, DensFacts
    <2>3. E[mem] = e
      BY DEF Both
    <2> HIDE DEF a, b, e, E
    <2>4. /\ e \in Results("int")
          /\ e.ok => /\ a.ok /\ b.ok /\ Fits(l.ty, a.n) /\ Fits(r.ty, b.n) /\ e.mem = a.mem
                     /\ e.n = Compared(op, a.n, b.n)
      BY <2>1, <2>2, AppliedPointers DEF e
    <2>5. OtherOperand(op) = "rbx"
      BY <1>3 DEF OtherOperand
    <2>6. BinaryCode(op, "int", l.ty) = <<Ins("cmp bx", 4), Set(CmpSuffix(op, Signed(l.ty))), Ins("movzbl", 4)>>
      BY <1>1, <1>3 DEF BinaryCode
    <2>7. Maps2(BinaryCode(op, "int", l.ty), "rbx", l.ty, a, r.ty, b, "int", e)
      BY <1>1, <2>1, <2>2, <2>4, <2>6, CompareMaps
    <2> QED
      BY <2>3, <2>4, <2>5, <2>7 DEF a, b
  <1>5. E \in Dens("int")
    BY <1>4 DEF Dens, Both
  <1>6. Composes(BinaryCode(op, "int", l.ty), OtherOperand(op), l.ty, L, r.ty, R, "int", E)
    BY <1>4 DEF Composes
  <1> HIDE DEF E
  <1>7. Good(Binary(op, "int", l, r), E, s) /\ Binary(op, "int", l, r).ty = "int"
    BY <1>1, <1>3, <1>5, <1>6, OperateGood
  <1> QED
    BY <1>7 DEF E

(* The distance of two pointers, in bytes. *)
Distance(L, R) ==
  [mem \in Mem |-> Means(AsSigned(8, L[R[mem].mem].n - R[mem].n), L[R[mem].mem].mem, L[R[mem].mem].ok /\ R[mem].ok)]

(* - of pointers computes their distance in bytes. *)
LEMMA DistanceGood ==
  ASSUME NEW l, NEW r, NEW L, NEW R, NEW s, Good(l, L, s), Good(r, R, s), l.ty = "int*", r.ty = "int*"
  PROVE  Good(Binary("Osub", "long", l, r), Distance(L, R), s) /\ Binary("Osub", "long", l, r).ty = "long"
  <1> DEFINE E == Distance(L, R)
  <1>1. "int*" \in Types /\ "long" \in Types /\ Width("int*") = 8 /\ Width("long") = 8 /\ Signed("long") /\ "long" \in ArithTypes
    BY TypeFacts DEF Types, Pointers, ArithTypes
  <1>2. L \in Dens("int*") /\ R \in Dens("int*")
    BY DEF Good
  <1>3. "Osub" \in BinaryOps /\ Divisible("Osub", "long") /\ OtherOperand("Osub") = "rbx"
    BY DEF BinaryOps, Arithmetic, Divisible, Shifts, OtherOperand
  <1>4. ASSUME NEW mem \in Mem
        PROVE  /\ E[mem] \in Results("long")
               /\ E[mem].ok => L[R[mem].mem].ok /\ R[mem].ok
               /\ Maps2(BinaryCode("Osub", "long", "int*"), "rbx", "int*", L[R[mem].mem], "int*", R[mem], "long", E[mem])
    <2> DEFINE b == R[mem]
               a == L[b.mem]
               z == a.n - b.n
               n == AsSigned(8, z)
               ok == a.ok /\ b.ok
    <2>1. b \in Results("int*") /\ b.mem \in Mem
      BY <1>1, <1>2, DensFacts
    <2>2. a \in Results("int*")
      BY <1>1, <1>2, <2>1, DensFacts
    <2> DEFINE e == Means(n, a.mem, ok)
    <2>3. E[mem] = e
      BY DEF Distance
    <2> HIDE DEF a, b, E
    <2>4. a.n \in Int /\ b.n \in Int /\ a.mem \in Mem /\ a.ok \in BOOLEAN /\ b.ok \in BOOLEAN
      BY <1>1, <2>1, <2>2, ResultFields
    <2>5. z \in Int
      BY <2>4
    <2>6. Arithmetic2("Osub", "long", a.n, b.n) = z
      BY DEF Arithmetic2
    <2> HIDE DEF z
    <2>7. n \in Int /\ n \in -128..127 /\ Same(8, z, n)
      BY <2>5, SignedFacts DEF Word
    <2>8. n \in Values("long")
      BY <2>7 DEF Values, Pointers
    <2>9. ok \in BOOLEAN /\ (ok => a.ok /\ b.ok)
      BY <2>4
    <2> HIDE DEF n, ok
    <2>10. e.n = n /\ e.mem = a.mem /\ (e.ok <=> ok) /\ e \in Results("long")
      BY <1>1, <2>4, <2>8, <2>9, ResultOf
    <2> HIDE DEF e
    <2>11. BinaryCode("Osub", "long", "int*") = <<Ins("Osub", Width("long"))>>
      BY DEF BinaryCode, Shifts, Comparisons
    <2>12. e.ok => e.mem = a.mem /\ e.n \in Int /\ Same(Width("long"), Arithmetic2("Osub", "long", a.n, b.n), e.n)
      BY <1>1, <2>6, <2>7, <2>10
    <2>13. Maps2(<<Ins("Osub", Width("long"))>>, "rbx", "int*", a, "int*", b, "long", e)
      <3> DEFINE op == "Osub"
      <3>1. op \in {"Omul", "Oadd", "Osub", "Oand", "Oor", "Oxor"} /\ op = "Osub"
        OBVIOUS
      <3> HIDE DEF op
      <3>2. Maps2(<<Ins(op, Width("long"))>>, "rbx", "int*", a, "int*", b, "long", e)
        <4>1. e.ok => e.mem = a.mem /\ e.n \in Int /\ Same(Width("long"), Arithmetic2(op, "long", a.n, b.n), e.n)
          BY <2>12, <3>1
        <4> QED
          BY <1>1, <2>1, <2>2, <3>1, <4>1, CombineMaps
      <3> QED
        BY <3>1, <3>2
    <2> QED
      BY <2>3, <2>9, <2>10, <2>11, <2>13 DEF a, b
  <1>5. E \in Dens("long")
    BY <1>4 DEF Dens, Distance
  <1>6. Composes(BinaryCode("Osub", "long", l.ty), OtherOperand("Osub"), l.ty, L, r.ty, R, "long", E)
    BY <1>3, <1>4 DEF Composes
  <1> HIDE DEF E
  <1>7. Good(Binary("Osub", "long", l, r), E, s) /\ Binary("Osub", "long", l, r).ty = "long"
    BY <1>1, <1>3, <1>5, <1>6, OperateGood
  <1> QED
    BY <1>7 DEF E

(* A distance divided by the size of an int is one of the type. *)
LEMMA Quarter ==
  ASSUME NEW x \in -128..127
  PROVE  Truncated(x, 4) \in -32..32 /\ ToType("long", Truncated(x, 4)) = Truncated(x, 4)
  <1> DEFINE q == Truncated(x, 4)
  <1>1. q \in -32..32
    BY DEF Truncated
  <1> HIDE DEF q
  <1>2. q \in Int /\ q \in Values("long") /\ "long" \in Types
    BY <1>1 DEF Values, Types, Pointers
  <1> QED
    BY <1>1, <1>2, ToTypeFacts DEF q

(* The division of a distance by the size of an int. *)
LEMMA QuarterValue ==
  ASSUME NEW x \in Results("long"), NEW mem \in Mem
  PROVE  Applied("Odiv", "long", "int", x, Means(IntWidth, mem, TRUE)) = Means(Truncated(x.n, 4), x.mem, x.ok)
  <1> DEFINE f == Means(IntWidth, mem, TRUE)
             ct == CommonRealType(Arch, "long", "int")
             u == Converted("long", ct, x)
             y == Converted("int", ct, f)
             e == Applied("Odiv", "long", "int", x, f)
             q == Truncated(x.n, 4)
  <1>1. ct = "long" /\ "long" \in Types /\ IsInt("long") /\ IsInt("int") /\ "long" \in ArithTypes
    BY CommonTypes DEF ArithTypes
  <1>2. u = x
    BY <1>1, ConvertedResult
  <1>3. y.n = 4 /\ y.ok = TRUE
    BY <1>1, ConvertedFour
  <1>4. "Odiv" \notin Comparisons /\ "Odiv" \notin Shifts
    BY DEF Comparisons, Shifts
  <1>5. x.n \in -128..127 /\ x.ok \in BOOLEAN
    <2>1. x.n \in Values("long") /\ x.ok \in BOOLEAN
      BY <1>1, ResultFields
    <2> QED
      BY <2>1 DEF Values, Pointers
  <1>6. ToType("long", q) = q
    BY <1>5, Quarter
  <1> HIDE DEF ct, u, y, f, e
  <1>7. IF y.n = 0 \/ ToType(ct, Truncated(u.n, y.n)) # Truncated(u.n, y.n) THEN e = Undefined(x.mem)
        ELSE e = Means(ToType(ct, Arithmetic2("Odiv", ct, u.n, y.n)), x.mem, u.ok /\ y.ok)
    BY <1>1, <1>4, AppliedForms DEF ct, u, y, e
  <1>8. Arithmetic2("Odiv", ct, u.n, y.n) = q /\ Truncated(u.n, y.n) = q
    BY <1>2, <1>3 DEF Arithmetic2
  <1>9. (u.ok /\ y.ok) = x.ok
    BY <1>2, <1>3, <1>5
  <1> HIDE DEF q
  <1>10. e = Means(q, x.mem, x.ok)
    BY <1>1, <1>3, <1>6, <1>7, <1>8, <1>9
  <1> QED
    BY <1>10 DEF e, f, q

(* make_binary, for a difference of pointers: their distance in elements. *)
LEMMA PointersSubtract ==
  ASSUME NEW l, NEW r, NEW L, NEW R, NEW s, Good(l, L, s), Good(r, R, s), l.ty = "int*", r.ty = "int*"
  PROVE  LET t == Arith("Odiv", Binary("Osub", "long", l, r), Const(IntWidth))
         IN  Good(t, Both("Osub", "int*", "int*", L, R), s) /\ t.ty = "long" /\ t.op = "Odiv"
  <1> DEFINE d == Binary("Osub", "long", l, r)
             f == Const(IntWidth)
             t == Arith("Odiv", d, f)
             D == Distance(L, R)
  <1>1. Good(d, D, s) /\ d.ty = "long"
    BY DistanceGood
  <1>2. s \in BOOLEAN /\ L \in Dens("int*") /\ R \in Dens("int*")
    BY DEF Good
  <1>3. Good(f, Four, s) /\ f.ty = "int"
    BY <1>2, FourGood
  <1>4. "long" \in ArithTypes /\ "int" \in ArithTypes /\ "long" \in Types /\ "int*" \in Types
    BY DEF ArithTypes, Types, Pointers
  <1>5. CommonRealType(Arch, "long", "int") = "long"
    BY <1>4, CommonTypes
  <1>6. "Odiv" \in Arithmetic
    BY DEF Arithmetic
  <1>7. t.op = "Odiv"
    BY BinaryFields DEF Arith, Usual
  <1> HIDE DEF d, f
  <1>8. Good(Arith("Odiv", d, f), Both("Odiv", d.ty, f.ty, D, Four), s)
        /\ Arith("Odiv", d, f).ty = CommonRealType(Arch, d.ty, f.ty)
    BY <1>1, <1>3, <1>4, <1>6, ArithGood
  <1>9. ASSUME NEW mem \in Mem
        PROVE  Both("Odiv", "long", "int", D, Four)[mem] = Both("Osub", "int*", "int*", L, R)[mem]
    <2> DEFINE b == R[mem]
               a == L[b.mem]
               x == D[mem]
    <2>1. x \in Results("long")
      BY <1>1, <1>4, DensFacts DEF Good
    <2>2. Four[mem] = Means(IntWidth, mem, TRUE) /\ Four[mem].mem = mem
      BY DEF Four, Means
    <2>3. Both("Odiv", "long", "int", D, Four)[mem] = Applied("Odiv", "long", "int", x, Means(IntWidth, mem, TRUE))
      BY <2>2 DEF Both
    <2>4. x.n = AsSigned(8, a.n - b.n) /\ x.mem = a.mem /\ x.ok = (a.ok /\ b.ok)
      BY DEF Distance, Means
    <2> HIDE DEF x
    <2>5. Applied("Odiv", "long", "int", x, Means(IntWidth, mem, TRUE)) = Means(Truncated(x.n, 4), x.mem, x.ok)
      BY <2>1, QuarterValue
    <2>6. Both("Osub", "int*", "int*", L, R)[mem] = Applied("Osub", "int*", "int*", a, b)
      BY DEF Both
    <2> HIDE DEF a, b
    <2>7. Applied("Osub", "int*", "int*", a, b) = Means(Truncated(AsSigned(8, a.n - b.n), 4), a.mem, a.ok /\ b.ok)
      <3>1. ~IsInt("int*") /\ IsPtr("int*") /\ "Osub" \notin Comparisons
        BY TypeFacts DEF Comparisons
      <3> QED
        BY <3>1 DEF Applied, IntWidth
    <2> QED
      BY <2>3, <2>4, <2>5, <2>6, <2>7
  <1>10. Both("Odiv", "long", "int", D, Four) = Both("Osub", "int*", "int*", L, R)
    BY <1>9 DEF Both
  <1> QED
    BY <1>1, <1>3, <1>5, <1>7, <1>8, <1>10 DEF d, f

(* The type of a binary expression. *)
BinaryType(op, tl, tr) ==
  IF tl \in Pointers /\ tr \in Pointers THEN IF op = "Osub" THEN "long" ELSE "int"
  ELSE IF tl \in Pointers \/ tr \in Pointers THEN "int*"
  ELSE IntegerType(op, tl, tr)

(* The value of a binary expression, as BinaryMeaning has it. *)
BinaryValue(op, tl, tr, L, R) ==
  IF tl \notin Pointers /\ tr \in Pointers THEN Both(op, tr, tl, R, L) ELSE Both(op, tl, tr, L, R)

(* It is a type of the parser's values. *)
LEMMA BinaryTypes ==
  ASSUME NEW op, op \in BinaryOps, NEW tl, tl \in ValueTypes, NEW tr, tr \in ValueTypes
  PROVE  BinaryType(op, tl, tr) \in ValueTypes
  <1>1. CASE tl \in Pointers \/ tr \in Pointers
    BY <1>1 DEF BinaryType, ValueTypes, Pointers
  <1>2. CASE tl \notin Pointers /\ tr \notin Pointers
    <2>1. tl \in ArithTypes /\ tr \in ArithTypes
      BY <1>2 DEF ValueTypes, ArithTypes
    <2>2. IntegerType(op, tl, tr) \in ArithTypes
      BY <2>1, CommonTypes DEF IntegerType, ArithTypes
    <2> QED
      BY <1>2, <2>2 DEF BinaryType, ValueTypes, ArithTypes
  <1> QED
    BY <1>1, <1>2

(* make_binary is right for whatever operands semant.c accepts. *)
LEMMA BinaryGood ==
  ASSUME NEW op, op \in BinaryOps, NEW l, NEW r, NEW L, NEW R, NEW s, Good(l, L, s), Good(r, R, s),
         l.ty \in ValueTypes, r.ty \in ValueTypes, BinaryTyped(op, l, r)
  PROVE  /\ Good(MakeBinary(op, l, r), BinaryValue(op, l.ty, r.ty, L, R), s)
         /\ MakeBinary(op, l, r).ty = BinaryType(op, l.ty, r.ty)
         /\ MakeBinary(op, l, r).op \notin {"Ovar", "Oindir", "Oaddr", "Oconst"}
  <1>1. op \notin {"Ovar", "Oindir", "Oaddr", "Oconst"} /\ op # "Oassign"
    BY DEF BinaryOps, Arithmetic, Shifts, Comparisons
  <1>2. /\ IsPtr(l.ty) <=> l.ty \in Pointers
        /\ IsInt(l.ty) <=> l.ty \notin Pointers
        /\ l.ty \notin Pointers => l.ty \in ArithTypes
        /\ IsPtr(r.ty) <=> r.ty \in Pointers
        /\ IsInt(r.ty) <=> r.ty \notin Pointers
        /\ r.ty \notin Pointers => r.ty \in ArithTypes
    <2>1. /\ IsPtr(l.ty) <=> l.ty \in Pointers
          /\ IsInt(l.ty) <=> l.ty \notin Pointers
          /\ IsPtr(r.ty) <=> r.ty \in Pointers
          /\ IsInt(r.ty) <=> r.ty \notin Pointers
      BY DEF IsPtr, IsInt
    <2>2. l.ty \notin Pointers => l.ty \in ArithTypes
      BY DEF ValueTypes, ArithTypes
    <2>3. r.ty \notin Pointers => r.ty \in ArithTypes
      BY DEF ValueTypes, ArithTypes
    <2> QED
      BY <2>1, <2>2, <2>3
  <1>3. CASE l.ty \in Pointers /\ r.ty \in Pointers
    <2>1. (op = "Osub" /\ l.ty = "int*" /\ r.ty = "int*") \/ (op \in Comparisons /\ op # "Osub")
      BY <1>2, <1>3 DEF BinaryTyped, Pointers, Comparisons
    <2>2. BinaryValue(op, l.ty, r.ty, L, R) = Both(op, l.ty, r.ty, L, R)
      BY <1>3 DEF BinaryValue
    <2>3. CASE op = "Osub"
      <3> DEFINE t == Arith("Odiv", Binary("Osub", "long", l, r), Const(IntWidth))
      <3>1. Good(t, Both("Osub", "int*", "int*", L, R), s) /\ t.ty = "long" /\ t.op = "Odiv"
        BY <2>1, <2>3, PointersSubtract DEF Comparisons
      <3>2. MakeBinary(op, l, r) = t
        BY <1>2, <1>3, <2>3 DEF MakeBinary
      <3>3. BinaryType(op, l.ty, r.ty) = "long"
        BY <1>3, <2>3 DEF BinaryType
      <3>4. l.ty = "int*" /\ r.ty = "int*"
        BY <2>1, <2>3 DEF Comparisons
      <3> HIDE DEF t
      <3> QED
        BY <2>2, <2>3, <3>1, <3>2, <3>3, <3>4
    <2>4. CASE op # "Osub"
      <3> DEFINE t == Binary(op, "int", l, r)
      <3>1. Good(t, Both(op, l.ty, r.ty, L, R), s) /\ t.ty = "int"
        BY <1>3, <2>1, <2>4, PointersCompare
      <3>2. t.op = op
        BY BinaryFields
      <3>3. MakeBinary(op, l, r) = t
        BY <1>2, <1>3, <2>4 DEF MakeBinary
      <3>4. BinaryType(op, l.ty, r.ty) = "int"
        BY <1>3, <2>4 DEF BinaryType
      <3> HIDE DEF t
      <3> QED
        BY <1>1, <2>2, <3>1, <3>2, <3>3, <3>4
    <2> QED
      BY <2>3, <2>4
  <1>4. CASE l.ty \notin Pointers /\ r.ty \in Pointers
    <2>1. op = "Oadd" /\ r.ty = "int*" /\ l.ty \in ArithTypes
      BY <1>2, <1>4 DEF BinaryTyped, Pointers
    <2>2. BinaryValue(op, l.ty, r.ty, L, R) = Both(op, "int*", l.ty, R, L)
      BY <1>4, <2>1 DEF BinaryValue
    <2>3. MakeBinary(op, l, r) = Index(op, r, l)
      BY <1>2, <1>4 DEF MakeBinary
    <2>4. Good(Index(op, r, l), Both(op, "int*", l.ty, R, L), s) /\ Index(op, r, l).ty = "int*"
      BY <2>1, IndexGood
    <2>5. Index(op, r, l).op = op
      BY IndexField
    <2>6. BinaryType(op, l.ty, r.ty) = "int*"
      BY <1>4 DEF BinaryType
    <2> QED
      BY <1>1, <2>2, <2>3, <2>4, <2>5, <2>6
  <1>5. CASE l.ty \in Pointers /\ r.ty \notin Pointers
    <2>1. op \in {"Oadd", "Osub"} /\ l.ty = "int*" /\ r.ty \in ArithTypes
      BY <1>2, <1>5 DEF BinaryTyped, Pointers
    <2>2. BinaryValue(op, l.ty, r.ty, L, R) = Both(op, "int*", r.ty, L, R)
      BY <1>5, <2>1 DEF BinaryValue
    <2>3. MakeBinary(op, l, r) = Index(op, l, r)
      BY <1>2, <1>5 DEF MakeBinary
    <2>4. Good(Index(op, l, r), Both(op, "int*", r.ty, L, R), s) /\ Index(op, l, r).ty = "int*"
      BY <2>1, IndexGood
    <2>5. Index(op, l, r).op = op
      BY IndexField
    <2>6. BinaryType(op, l.ty, r.ty) = "int*"
      BY <1>5 DEF BinaryType
    <2> QED
      BY <1>1, <2>2, <2>3, <2>4, <2>5, <2>6
  <1>6. CASE l.ty \notin Pointers /\ r.ty \notin Pointers
    <2>1. l.ty \in ArithTypes /\ r.ty \in ArithTypes
      BY <1>2, <1>6
    <2>2. BinaryValue(op, l.ty, r.ty, L, R) = Both(op, l.ty, r.ty, L, R)
      BY <1>6 DEF BinaryValue
    <2>3. BinaryType(op, l.ty, r.ty) = IntegerType(op, l.ty, r.ty)
      BY <1>6 DEF BinaryType
    <2>4. /\ Good(MakeBinary(op, l, r), Both(op, l.ty, r.ty, L, R), s)
          /\ MakeBinary(op, l, r).ty = IntegerType(op, l.ty, r.ty)
          /\ MakeBinary(op, l, r).op \notin {"Ovar", "Oindir", "Oaddr", "Oconst"}
      BY <2>1, IntegersGood
    <2> QED
      BY <2>2, <2>3, <2>4
  <1> QED
    BY <1>3, <1>4, <1>5, <1>6

-----------------------------------------------------------------------------
(* Assignments. *)

(* The value of an assignment, as BinaryMeaning has it. *)
AssignValue(ty, from, P, R) == [mem \in Mem |-> Assigned(ty, P[mem], Converted(from, ty, R[P[mem].mem]))]

(* make_assign, once the converted right-hand side is known to be right. *)
LEMMA StoreGood ==
  ASSUME NEW l, NEW r, NEW P, NEW R, NEW s, NEW c, Located(Lvalue(l), P, s), l.ty \in Types, r.ty \in Types,
         c = Convert(l.ty, r), Good(c, Coerced(r.ty, l.ty, R), s), c.ty = l.ty
  PROVE  /\ Good(MakeAssign(l, r), AssignValue(l.ty, r.ty, P, R), s)
         /\ MakeAssign(l, r).ty = l.ty /\ MakeAssign(l, r).op = "Oassign"
  <1> DEFINE ty == l.ty
             RC == Coerced(r.ty, l.ty, R)
             t == Binary("Oassign", ty, l, c)
             E == [mem \in Mem |-> Assigned(ty, P[mem], RC[P[mem].mem])]
  <1>1. MakeAssign(l, r) = t /\ t.ty = ty /\ t.op = "Oassign"
    BY BinaryFields DEF MakeAssign
  <1>2. ty \in Types /\ Good(c, RC, s) /\ c.ty = ty
    OBVIOUS
  <1>3. \A mem \in Mem : P[mem].mem \in Mem
    <2>1. "void*" \in Types
      BY DEF Types, Pointers
    <2> QED
      BY <2>1, DensFacts DEF Located
  <1>4. E = AssignValue(l.ty, r.ty, P, R)
    BY <1>3 DEF AssignValue, Coerced
  <1> HIDE DEF RC
  <1>5. Good(t, E, s)
    BY <1>2, AssignGood
  <1> QED
    BY <1>1, <1>4, <1>5

(* make_assign is right, and refused only where an int is assigned to a    *)
(* pointer to void.                                                        *)
LEMMA AssignmentGood ==
  ASSUME NEW l, NEW r, NEW P, NEW R, NEW s, Located(Lvalue(l), P, s), Good(r, R, s),
         l.ty \in ValueTypes, r.ty \in ValueTypes,
         r.ty \in Pointers \/ l.ty \notin Pointers \/ (s /\ l.ty = "void*" /\ r.ty = "int")
  PROVE  /\ Good(MakeAssign(l, r), AssignValue(l.ty, r.ty, P, R), s)
         /\ MakeAssign(l, r).ty = l.ty /\ MakeAssign(l, r).op = "Oassign"
  <1>1. l.ty \in Types /\ r.ty \in Types /\ r.ty # "ulong"
    BY ValueTypeFacts
  <1> DEFINE c == Convert(l.ty, r)
             RC == Coerced(r.ty, l.ty, R)
  <1>2. CASE r.ty \in Pointers \/ l.ty \notin Pointers
    <2>1. Width(r.ty) = 4 => Width(l.ty) = 4 \/ Signed(l.ty)
      <3>1. CASE r.ty \in Pointers
        BY <3>1, PointerFacts
      <3>2. CASE l.ty \notin Pointers
        BY <3>2, TypeFacts DEF ValueTypes
      <3> QED
        BY <1>2, <3>1, <3>2
    <2>2. Good(c, RC, s) /\ c.ty = l.ty
      BY <1>1, <2>1, ConvertGood DEF Coerced
    <2> HIDE DEF c
    <2> QED
      BY <1>1, <2>2, StoreGood DEF c
  <1>3. CASE s /\ l.ty = "void*" /\ r.ty = "int"
    <2>1. s = TRUE
      BY <1>3 DEF Good
    <2>2. Width(r.ty) = 4 /\ Width(l.ty) = 8 /\ ~Signed(l.ty)
      BY <1>3, TypeFacts
    <2>3. RC \in Dens(l.ty)
      <3>1. R \in Dens(r.ty)
        BY DEF Good
      <3>2. \A mem \in Mem : R[mem] \in Results(r.ty)
        BY <1>1, <3>1, DensFacts
      <3> QED
        BY <1>1, <3>2, ConvertedResult DEF Dens, Coerced
    <2> HIDE DEF RC
    <2>4. Good(c, RC, TRUE) /\ c.ty = l.ty
      <3> DEFINE to == l.ty
      <3>1. to \in Types /\ Width(to) # 4 /\ ~Signed(to) /\ RC \in Dens(to)
        BY <1>1, <2>2, <2>3
      <3> QED
        BY <1>1, <2>2, <3>1, PointerCast
    <2>5. Good(c, RC, s)
      BY <2>1, <2>4
    <2> HIDE DEF c
    <2> QED
      BY <1>1, <2>4, <2>5, StoreGood DEF c, RC
  <1> QED
    BY <1>2, <1>3

-----------------------------------------------------------------------------
(* The meanings of expressions. *)

(* The meaning of the expression e, where m has those of its operands. *)
MeaningOf(e, m) ==
  IF e.l = 0 THEN LeafMeaning(e)
  ELSE IF e.r = 0 THEN UnaryMeaning(e, m[e.l])
  ELSE BinaryMeaning(e, m[e.l], m[e.r])

(* f gives the meanings of the first n lines. *)
IsMeaning(f, es, n) == f = [k \in 1..n |-> MeaningOf(es[k], f)]

(* Each expression comes after its operands. *)
Ordered(es, n) == \A k \in 1..n : es[k].l \in 0..(k - 1) /\ es[k].r \in 0..(k - 1)

(* Each meaning follows from those of the operands. *)
LEMMA MeaningShape ==
  ASSUME NEW f, NEW es, NEW n \in Nat, IsMeaning(f, es, n)
  PROVE  \A k \in 1..n : f[k] = MeaningOf(es[k], f)
  <1> DEFINE e(k) == MeaningOf(es[k], f)
  <1>1. f = [k \in 1..n |-> e(k)]
    BY DEF IsMeaning
  <1> HIDE DEF e
  <1>2. \A k \in 1..n : f[k] = e(k)
    BY <1>1
  <1> QED
    BY <1>2 DEF e

(* A meaning depends on those of the operands alone. *)
LEMMA MeaningLocal ==
  ASSUME NEW e, NEW f, NEW g, e.l = 0 \/ f[e.l] = g[e.l], e.r = 0 \/ f[e.r] = g[e.r]
  PROVE  MeaningOf(e, f) = MeaningOf(e, g)
  BY DEF MeaningOf

(* The first n lines have meanings. *)
LEMMA MeaningExists ==
  ASSUME NEW es, NEW n \in Nat, Ordered(es, n)
  PROVE  \E f : IsMeaning(f, es, n)
  <1> DEFINE G == {i \in 0..n : \E f : IsMeaning(f, es, i)}
  <1>1. ASSUME NEW i \in 0..n, i = 0 \/ i - 1 \in G PROVE i \in G
    <2>1. CASE i = 0
      <3> DEFINE f == [k \in 1..0 |-> 0]
                 g == [k \in 1..0 |-> MeaningOf(es[k], f)]
      <3>1. f = g
        OBVIOUS
      <3>2. IsMeaning(f, es, 0)
        BY <3>1 DEF IsMeaning
      <3> HIDE DEF f
      <3> QED
        BY <2>1, <3>2
    <2>2. CASE i # 0
      <3>1. PICK f : IsMeaning(f, es, i - 1)
        BY <1>1, <2>2
      <3>2. i - 1 \in Nat /\ i \in 1..n
        BY <2>2
      <3>3. \A k \in 1..(i - 1) : f[k] = MeaningOf(es[k], f)
        BY <3>1, <3>2, MeaningShape
      <3> DEFINE v == MeaningOf(es[i], f)
                 g == [k \in 1..i |-> IF k = i THEN v ELSE f[k]]
                 h == [k \in 1..i |-> MeaningOf(es[k], g)]
      <3> HIDE DEF v
      <3>4. \A k \in 1..(i - 1) : g[k] = f[k]
        BY <3>2
      <3>5. g[i] = v
        BY <3>2
      <3> HIDE DEF g
      <3>6. ASSUME NEW k \in 1..i PROVE MeaningOf(es[k], g) = MeaningOf(es[k], f)
        <4>1. es[k].l \in 0..(k - 1) /\ es[k].r \in 0..(k - 1)
          BY <3>2 DEF Ordered
        <4>2. es[k].l = 0 \/ g[es[k].l] = f[es[k].l]
          BY <3>2, <3>4, <4>1
        <4>3. es[k].r = 0 \/ g[es[k].r] = f[es[k].r]
          BY <3>2, <3>4, <4>1
        <4> QED
          BY <4>2, <4>3, MeaningLocal
      <3>7. ASSUME NEW k \in 1..i PROVE g[k] = h[k]
        <4>1. h[k] = MeaningOf(es[k], f)
          BY <3>6
        <4>2. CASE k = i
          BY <3>5, <4>1, <4>2 DEF v
        <4>3. CASE k # i
          <5>1. k \in 1..(i - 1)
            BY <3>2, <4>3
          <5> QED
            BY <3>3, <3>4, <4>1, <5>1
        <4> QED
          BY <4>2, <4>3
      <3>8. g = h
        BY <3>7 DEF g
      <3>9. IsMeaning(g, es, i)
        BY <3>8 DEF IsMeaning
      <3> QED
        BY <3>9
    <2> QED
      BY <2>1, <2>2
  <1> HIDE DEF G
  <1>2. \A i \in 0..n : i \in G
    BY <1>1, UpTo
  <1>3. n \in G
    BY <1>2
  <1> QED
    BY <1>3 DEF G

(* Meanings gives them. *)
LEMMA MeaningsMean ==
  ASSUME NEW es, Len(es) \in Nat, DOMAIN es = 1..Len(es), Ordered(es, Len(es))
  PROVE  IsMeaning(Meanings(es), es, Len(es))
  <1> DEFINE m == CHOOSE f : IsMeaning(f, es, Len(es))
  <1>1. IsMeaning(m, es, Len(es))
    BY MeaningExists
  <1>2. Meanings(es) = m
    BY DEF Meanings, IsMeaning, MeaningOf
  <1> HIDE DEF m
  <1> QED
    BY <1>1, <1>2

(* The meanings of the lines they share do not depend on the lines after   *)
(* them.                                                                   *)
LEMMA MeaningsAgree ==
  ASSUME NEW f, NEW g, NEW es, NEW ds, NEW n \in Nat, NEW p \in Nat, n <= p,
         IsMeaning(f, es, n), IsMeaning(g, ds, p), Ordered(es, n), \A k \in 1..n : es[k] = ds[k]
  PROVE  \A k \in 1..n : f[k] = g[k]
  <1> DEFINE G == {i \in 0..n : \A k \in 1..i : f[k] = g[k]}
  <1>1. \A k \in 1..n : f[k] = MeaningOf(es[k], f)
    BY MeaningShape
  <1>2. \A k \in 1..n : g[k] = MeaningOf(es[k], g)
    <2>1. \A k \in 1..p : g[k] = MeaningOf(ds[k], g)
      BY MeaningShape
    <2>2. \A k \in 1..n : k \in 1..p
      OBVIOUS
    <2> QED
      BY <2>1, <2>2
  <1>3. ASSUME NEW i \in 0..n, i = 0 \/ i - 1 \in G PROVE i \in G
    <2>1. CASE i = 0
      BY <2>1
    <2>2. CASE i # 0
      <3>1. \A k \in 1..(i - 1) : f[k] = g[k]
        BY <1>3, <2>2
      <3>2. i \in 1..n
        BY <2>2
      <3>3. es[i].l \in 0..(i - 1) /\ es[i].r \in 0..(i - 1)
        BY <3>2 DEF Ordered
      <3>4. es[i].l = 0 \/ f[es[i].l] = g[es[i].l]
        BY <3>1, <3>2, <3>3
      <3>5. es[i].r = 0 \/ f[es[i].r] = g[es[i].r]
        BY <3>1, <3>2, <3>3
      <3>6. MeaningOf(es[i], f) = MeaningOf(es[i], g)
        BY <3>4, <3>5, MeaningLocal
      <3>7. f[i] = g[i]
        BY <1>1, <1>2, <3>2, <3>6
      <3>8. ASSUME NEW k \in 1..i PROVE f[k] = g[k]
        <4>1. k = i \/ k \in 1..(i - 1)
          BY <3>2
        <4> QED
          BY <3>1, <3>7, <4>1
      <3> QED
        BY <3>8
    <2> QED
      BY <2>1, <2>2
  <1> HIDE DEF G
  <1>4. \A i \in 0..n : i \in G
    BY <1>3, UpTo
  <1>5. n \in G
    BY <1>4
  <1> QED
    BY <1>5 DEF G

(* One more expression leaves the meanings of the others alone. *)
LEMMA MeaningsAppend ==
  ASSUME NEW S, NEW es \in Seq(S), NEW e \in S, Ordered(es, Len(es)),
         e.l \in 0..Len(es), e.r \in 0..Len(es)
  PROVE  LET ds == Append(es, e)
         IN  /\ Ordered(ds, Len(ds)) /\ Len(ds) = Len(es) + 1
             /\ \A k \in 1..Len(es) : Meanings(ds)[k] = Meanings(es)[k]
             /\ Meanings(ds)[Len(es) + 1] = MeaningOf(e, Meanings(es))
  <1> DEFINE ds == Append(es, e)
             n == Len(es)
             p == Len(ds)
  <1>1. /\ n \in Nat /\ p = n + 1 /\ p \in Nat /\ DOMAIN es = 1..n /\ DOMAIN ds = 1..p
        /\ ds[p] = e /\ \A k \in 1..n : es[k] = ds[k]
    OBVIOUS
  <1> HIDE DEF ds
  <1>2. Ordered(ds, p)
    <2>1. ASSUME NEW k \in 1..p PROVE ds[k].l \in 0..(k - 1) /\ ds[k].r \in 0..(k - 1)
      <3>1. CASE k = p
        BY <1>1, <3>1
      <3>2. CASE k # p
        <4>1. k \in 1..n
          BY <1>1, <3>2
        <4> QED
          BY <1>1, <4>1 DEF Ordered
      <3> QED
        BY <3>1, <3>2
    <2> QED
      BY <2>1 DEF Ordered
  <1>3. IsMeaning(Meanings(es), es, n)
    BY <1>1, MeaningsMean
  <1>4. IsMeaning(Meanings(ds), ds, p)
    BY <1>1, <1>2, MeaningsMean
  <1> DEFINE f == Meanings(es)
             g == Meanings(ds)
  <1> HIDE DEF f, g, n, p
  <1>5. \A k \in 1..n : f[k] = g[k]
    <2>1. n <= p
      BY <1>1
    <2>2. Ordered(es, n)
      BY DEF n
    <2> QED
      BY <1>1, <1>3, <1>4, <2>1, <2>2, MeaningsAgree DEF f, g
  <1>6. g[p] = MeaningOf(e, g)
    <2>1. \A k \in 1..p : g[k] = MeaningOf(ds[k], g)
      BY <1>1, <1>4, MeaningShape DEF g
    <2>2. p \in 1..p
      BY <1>1
    <2> QED
      BY <1>1, <2>1, <2>2
  <1>7. MeaningOf(e, f) = MeaningOf(e, g)
    <2>1. e.l = 0 \/ f[e.l] = g[e.l]
      BY <1>1, <1>5 DEF n
    <2>2. e.r = 0 \/ f[e.r] = g[e.r]
      BY <1>1, <1>5 DEF n
    <2> QED
      BY <2>1, <2>2, MeaningLocal
  <1> QED
    BY <1>1, <1>2, <1>5, <1>6, <1>7 DEF f, g, n, p, ds

-----------------------------------------------------------------------------
(* Trees and the expressions they were made from. *)

(* The tree t computes the meaning m, and keeps in its first node what     *)
(* make_unary, make_assign and assign look at there.                       *)
OfVariable(t, m) == t.op = "Ovar" => \E x \in DOMAIN Variables : t = Var(x) /\ m.place = At(x)

(* The operand of * computes the place that * denotes, and is not itself a *)
(* * or an &, which make_unary takes back.                                 *)
OfPointer(t, m) ==
  t.op = "Oindir" =>
    \E b : /\ t = Unary("Oindir", "int", b)
           /\ b.ty = "int*"
           /\ Good(b, m.place, m.assigned)
           /\ b.op \notin {"Oindir", "Oaddr", "Oconst"}
           /\ b.op = "Ovar" => \E x \in DOMAIN Variables : b = Var(x) /\ m.pointer = At(x)

(* The operand of & is a variable, whose address it computes. *)
OfAddress(t, m) ==
  t.op = "Oaddr" =>
    \E x \in DOMAIN Variables : t = Unary("Oaddr", "int*", Var(x)) /\ Variables[x] = "int" /\ m.value = At(x)

(* A constant 0 in a tree is a constant 0 of the source. *)
OfConstant(t, m) == t.op = "Oconst" => t.ty = "int" /\ (t.ival = 0 => m.null)

(* The tree t was made of an expression that means m. *)
Sound(t, m) ==
  /\ t.ty \in ValueTypes
  /\ m.ty = t.ty
  /\ Good(t, m.value, m.assigned)
  /\ m.place \in Dens("void*")
  /\ m.pointer \in Dens("void*")
  /\ OfVariable(t, m)
  /\ OfPointer(t, m)
  /\ OfAddress(t, m)
  /\ OfConstant(t, m)

(* No place at all. *)
LEMMA NowhereDens ==
  ASSUME NEW ty \in Types
  PROVE  Nowhere \in Dens(ty)
  <1>1. \A mem \in Mem : Undefined(mem) \in Results(ty)
    BY NoResult
  <1> QED
    BY <1>1 DEF Nowhere, Dens

(* The results of one pointer type are those of the other. *)
LEMMA PointerDens ==
  ASSUME NEW ty, ty \in Pointers, NEW D
  PROVE  D \in Dens(ty) <=> D \in Dens("void*")
  <1>1. Values(ty) = Values("void*")
    BY DEF Values, Pointers
  <1> QED
    BY <1>1 DEF Dens, Results

(* The types of what a tree computes. *)
LEMMA GoodTypes ==
  ASSUME NEW t, NEW D, NEW s, Good(t, D, s)
  PROVE  D \in Dens(t.ty) /\ s \in BOOLEAN /\ t.ty \in Types
  BY DEF Good

(* Trees of another operator have nothing of their own to keep. *)
LEMMA OtherSound ==
  ASSUME NEW t, NEW m, t.op \notin {"Ovar", "Oindir", "Oaddr", "Oconst"}, t.ty \in ValueTypes, m.ty = t.ty,
         Good(t, m.value, m.assigned), m.place \in Dens("void*"), m.pointer \in Dens("void*")
  PROVE  Sound(t, m)
  BY DEF Sound, OfVariable, OfPointer, OfAddress, OfConstant

(* make_iconst is right. *)
LEMMA ConstSound ==
  ASSUME NEW k \in Literals, NEW e, e.op = "Oconst", e.ty = Const(k).ty, e.arg = k
  PROVE  Sound(Const(k), LeafMeaning(e))
  <1> DEFINE t == Const(k)
             D == [mem \in Mem |-> Means(k, mem, TRUE)]
             m == LeafMeaning(e)
  <1>1. k \in 0..7
    BY LiteralsAssumption
  <1>2. t.op = "Oconst" /\ t.ty = "int" /\ t.ival = k
    BY LeafTree
  <1>3. Good(t, D, FALSE)
    BY <1>1, ConstGood
  <1>4. m = Meaning(e.ty, D, Nowhere, Nowhere, k = 0, FALSE)
    BY DEF LeafMeaning
  <1> HIDE DEF t, D, m
  <1>5. /\ m.ty = "int" /\ m.value = D /\ m.place = Nowhere /\ m.pointer = Nowhere /\ m.null = (k = 0)
        /\ m.assigned = FALSE
    BY <1>2, <1>4 DEF Meaning, t
  <1>6. Nowhere \in Dens("void*") /\ "int" \in ValueTypes
    <2>1. "void*" \in Types
      BY DEF Types, Pointers
    <2> QED
      BY <2>1, NowhereDens DEF ValueTypes
  <1>7. OfConstant(t, m)
    BY <1>2, <1>5 DEF OfConstant
  <1>8. OfVariable(t, m) /\ OfPointer(t, m) /\ OfAddress(t, m)
    BY <1>2 DEF OfVariable, OfPointer, OfAddress
  <1> QED
    BY <1>2, <1>3, <1>5, <1>6, <1>7, <1>8 DEF Sound, t, m

(* A tree of a variable is right for whatever means its value and place. *)
LEMMA VarSound ==
  ASSUME NEW x \in DOMAIN Variables, NEW m, m.ty = Variables[x],
         m.value = [mem \in Mem |-> Means(ToType(Variables[x], mem[AddressOf[x]]), mem, TRUE)],
         m.place = At(x), m.pointer \in Dens("void*"), m.assigned \in BOOLEAN
  PROVE  Sound(Var(x), m)
  <1> DEFINE t == Var(x)
  <1>1. t.op = "Ovar" /\ t.ty = Variables[x]
    BY LeafTree
  <1>2. Variables[x] \in ValueTypes
    BY VariableTypes DEF ValueTypes
  <1>3. Good(t, m.value, FALSE)
    BY VarGood
  <1>4. Good(t, m.value, m.assigned)
    BY <1>3, GoodWeaker
  <1>5. m.place \in Dens("void*")
    BY AtDens DEF Pointers
  <1>6. OfVariable(t, m)
    BY DEF OfVariable
  <1> HIDE DEF t
  <1>7. OfPointer(t, m) /\ OfAddress(t, m) /\ OfConstant(t, m)
    BY <1>1 DEF OfPointer, OfAddress, OfConstant
  <1> QED
    BY <1>1, <1>2, <1>4, <1>5, <1>6, <1>7 DEF Sound, t

(* make_ident is right. *)
LEMMA VarLeafSound ==
  ASSUME NEW x \in DOMAIN Variables, NEW e, e.op = "Ovar", e.ty = Var(x).ty, e.arg = x
  PROVE  Sound(Var(x), LeafMeaning(e))
  <1> DEFINE D == [mem \in Mem |-> Means(ToType(Variables[x], mem[AddressOf[x]]), mem, TRUE)]
             m == LeafMeaning(e)
  <1>1. e.ty = Variables[x]
    BY LeafTree
  <1>2. m = Meaning(Variables[x], D, At(x), Nowhere, FALSE, FALSE)
    BY <1>1 DEF LeafMeaning, At
  <1> HIDE DEF D, m
  <1>3. m.ty = Variables[x] /\ m.value = D /\ m.place = At(x) /\ m.pointer = Nowhere /\ m.assigned = FALSE
    BY <1>2 DEF Meaning
  <1>4. Nowhere \in Dens("void*")
    <2>1. "void*" \in Types
      BY DEF Types, Pointers
    <2> QED
      BY <2>1, NowhereDens
  <1>5. Sound(Var(x), m)
    BY <1>3, <1>4, VarSound DEF D
  <1> QED
    BY <1>5 DEF m

(* The types of a few trees. *)
LEMMA VoidType == "void*" \in Types /\ "int*" \in Types /\ "int" \in Types /\ "int" \in ValueTypes /\ "int*" \in ValueTypes
  BY DEF Types, Pointers, ValueTypes

(* &x and &*p *)
LEMMA AddressSound ==
  ASSUME NEW t, NEW m, Sound(t, m), UnaryTyped("Oaddr", t), NEW e, e.op = "Oaddr", e.ty = MakeUnary("Oaddr", t).ty
  PROVE  Sound(MakeUnary("Oaddr", t), UnaryMeaning(e, m))
  <1> DEFINE u == UnaryMeaning(e, m)
  <1>1. u = Meaning(e.ty, m.place, m.pointer, Nowhere, FALSE, m.assigned)
    BY DEF UnaryMeaning
  <1> HIDE DEF u
  <1>2. /\ u.ty = e.ty /\ u.value = m.place /\ u.place = m.pointer /\ u.pointer = Nowhere
        /\ u.null = FALSE /\ u.assigned = m.assigned
    BY <1>1 DEF Meaning
  <1>3. u.place \in Dens("void*") /\ u.pointer \in Dens("void*")
    BY <1>2, VoidType, NowhereDens DEF Sound
  <1>4. m.assigned \in BOOLEAN
    BY GoodTypes DEF Sound
  <1>5. (t.op = "Ovar" \/ t.op = "Oindir") /\ t.ty = "int"
    BY DEF UnaryTyped, HasAddress
  <1>6. CASE t.op = "Oindir"
    <2>1. PICK b : /\ t = Unary("Oindir", "int", b)
                   /\ b.ty = "int*"
                   /\ Good(b, m.place, m.assigned)
                   /\ b.op \notin {"Oindir", "Oaddr", "Oconst"}
                   /\ b.op = "Ovar" => \E x \in DOMAIN Variables : b = Var(x) /\ m.pointer = At(x)
      BY <1>6 DEF Sound, OfPointer
    <2>2. t.base = b
      <3>1. Unary("Oindir", "int", b).base = b
        BY UnaryFields
      <3> QED
        BY <2>1, <3>1
    <2>3. MakeUnary("Oaddr", t) = b
      BY <1>6, <2>2 DEF MakeUnary
    <2>4. e.ty = "int*"
      BY <2>1, <2>3
    <2>5. OfVariable(b, u)
      BY <1>2, <2>1 DEF OfVariable
    <2>6. OfPointer(b, u) /\ OfAddress(b, u) /\ OfConstant(b, u)
      BY <2>1 DEF OfPointer, OfAddress, OfConstant
    <2>7. Good(b, u.value, u.assigned)
      BY <1>2, <2>1
    <2>8. b.ty \in ValueTypes /\ u.ty = b.ty
      BY <1>2, <2>1, <2>4, VoidType
    <2>9. Sound(b, u)
      BY <1>3, <2>5, <2>6, <2>7, <2>8 DEF Sound
    <2> QED
      BY <2>3, <2>9 DEF u
  <1>7. CASE t.op = "Ovar"
    <2>1. PICK x \in DOMAIN Variables : t = Var(x) /\ m.place = At(x)
      BY <1>7 DEF Sound, OfVariable
    <2>2. Variables[x] = "int"
      BY <1>5, <2>1, LeafTree
    <2> DEFINE b == Unary("Oaddr", "int*", Var(x))
    <2>3. MakeUnary("Oaddr", t) = b
      BY <1>7, <2>1 DEF MakeUnary
    <2>4. b.op = "Oaddr" /\ b.ty = "int*"
      BY UnaryFields
    <2>5. Good(b, At(x), FALSE)
      BY AddrGood
    <2>6. u.value = At(x)
      BY <1>2, <2>1
    <2>7. OfAddress(b, u)
      BY <2>2, <2>6 DEF OfAddress
    <2> HIDE DEF b
    <2>8. OfVariable(b, u) /\ OfPointer(b, u) /\ OfConstant(b, u)
      BY <2>4 DEF OfVariable, OfPointer, OfConstant
    <2>9. Good(b, u.value, u.assigned)
      BY <1>2, <1>4, <2>5, <2>6, GoodWeaker
    <2>10. b.ty \in ValueTypes /\ u.ty = b.ty
      BY <1>2, <2>3, <2>4, VoidType
    <2>11. Sound(b, u)
      BY <1>3, <2>7, <2>8, <2>9, <2>10 DEF Sound
    <2> QED
      BY <2>3, <2>11 DEF u
  <1> QED
    BY <1>5, <1>6, <1>7

(* *&x and *p *)
LEMMA IndirectionSound ==
  ASSUME NEW t, NEW m, Sound(t, m), UnaryTyped("Oindir", t), NEW e, e.op = "Oindir", e.ty = MakeUnary("Oindir", t).ty
  PROVE  Sound(MakeUnary("Oindir", t), UnaryMeaning(e, m))
  <1> DEFINE u == UnaryMeaning(e, m)
             D == [mem \in Mem |-> Pointed(m.value[mem])]
  <1>1. u = Meaning(e.ty, D, m.value, m.place, FALSE, m.assigned)
    BY DEF UnaryMeaning
  <1> HIDE DEF u
  <1>2. /\ u.ty = e.ty /\ u.value = D /\ u.place = m.value /\ u.pointer = m.place
        /\ u.null = FALSE /\ u.assigned = m.assigned
    BY <1>1 DEF Meaning
  <1>3. t.ty = "int*" /\ m.assigned \in BOOLEAN /\ m.value \in Dens("int*")
    BY GoodTypes DEF UnaryTyped, Sound
  <1>4. u.place \in Dens("void*") /\ u.pointer \in Dens("void*")
    BY <1>2, <1>3, PointerDens DEF Sound, Pointers
  <1>5. CASE t.op = "Oaddr"
    <2>1. PICK x \in DOMAIN Variables : t = Unary("Oaddr", "int*", Var(x)) /\ Variables[x] = "int" /\ m.value = At(x)
      BY <1>5 DEF Sound, OfAddress
    <2>2. MakeUnary("Oindir", t) = Var(x)
      <3>1. Unary("Oaddr", "int*", Var(x)).base = Var(x)
        BY UnaryFields
      <3> QED
        BY <1>5, <2>1, <3>1 DEF MakeUnary
    <2>3. e.ty = Variables[x]
      BY <2>2, LeafTree
    <2> DEFINE V == [mem \in Mem |-> Means(ToType(Variables[x], mem[AddressOf[x]]), mem, TRUE)]
    <2>4. ASSUME NEW mem \in Mem PROVE D[mem] = V[mem]
      <3>1. AddressOf[x] \in Cells
        BY <2>1, TypeFacts DEF Cells
      <3> DEFINE a == At(x)[mem]
      <3>2. a.ok /\ a.n = AddressOf[x] /\ a.mem = mem
        BY DEF At, Means
      <3> HIDE DEF a
      <3>3. Pointed(a) = Means(ToType("int", a.mem[a.n]), a.mem, TRUE)
        BY <3>1, <3>2 DEF Pointed
      <3> QED
        BY <2>1, <3>2, <3>3 DEF a
    <2>5. D = V
      BY <2>4
    <2> HIDE DEF D
    <2>6. u.ty = Variables[x] /\ u.value = V /\ u.place = At(x) /\ u.assigned \in BOOLEAN
      BY <1>2, <1>3, <2>1, <2>3, <2>5
    <2>7. Sound(Var(x), u)
      BY <1>4, <2>6, VarSound
    <2> QED
      BY <2>2, <2>7 DEF u
  <1>6. CASE t.op # "Oaddr"
    <2> DEFINE b == Unary("Oindir", "int", t)
    <2>1. MakeUnary("Oindir", t) = b
      BY <1>6 DEF MakeUnary
    <2>2. b.op = "Oindir" /\ b.ty = "int"
      BY UnaryFields
    <2>3. Good(t, m.value, m.assigned)
      BY DEF Sound
    <2>4. Good(b, D, m.assigned)
      BY <1>3, <2>3, IndirGood
    <2>5. t.op \notin {"Oindir", "Oaddr", "Oconst"}
      <3>1. t.op # "Oconst"
        BY <1>3 DEF Sound, OfConstant
      <3>2. ASSUME t.op = "Oindir" PROVE FALSE
        <4>1. PICK c : t = Unary("Oindir", "int", c)
          BY <3>2 DEF Sound, OfPointer
        <4>2. Unary("Oindir", "int", c).ty = "int"
          BY UnaryFields
        <4> QED
          BY <1>3, <4>1, <4>2
      <3> QED
        BY <1>6, <3>1, <3>2
    <2>6. t.op = "Ovar" => \E x \in DOMAIN Variables : t = Var(x) /\ u.pointer = At(x)
      BY <1>2 DEF Sound, OfVariable
    <2>7. Good(t, u.place, u.assigned)
      BY <1>2, <2>3
    <2>8. OfPointer(b, u)
      BY <1>3, <2>5, <2>6, <2>7 DEF OfPointer
    <2> HIDE DEF b, D
    <2>9. OfVariable(b, u) /\ OfAddress(b, u) /\ OfConstant(b, u)
      BY <2>2 DEF OfVariable, OfAddress, OfConstant
    <2>10. b.ty \in ValueTypes /\ u.ty = b.ty
      BY <1>2, <2>1, <2>2, VoidType
    <2>11. Good(b, u.value, u.assigned)
      BY <1>2, <2>4
    <2>12. Sound(b, u)
      BY <1>4, <2>8, <2>9, <2>10, <2>11 DEF Sound
    <2> QED
      BY <2>1, <2>12 DEF u
  <1> QED
    BY <1>5, <1>6

(* make_unary is right for +, -, ~ and !. *)
LEMMA NegationSound ==
  ASSUME NEW t, NEW m, Sound(t, m), NEW op, op \in {"Opos", "Oneg", "Ocomp", "Onot"}, UnaryTyped(op, t),
         NEW e, e.op = op, e.ty = MakeUnary(op, t).ty
  PROVE  Sound(MakeUnary(op, t), UnaryMeaning(e, m))
  <1> DEFINE ty == IF op = "Onot" THEN "int" ELSE t.ty
             b == Unary(op, ty, t)
             u == UnaryMeaning(e, m)
             D == [mem \in Mem |-> Negated(op, ty, t.ty, m.value[mem])]
  <1>1. t.ty \in ValueTypes /\ m.ty = t.ty /\ Good(t, m.value, m.assigned)
    BY DEF Sound
  <1>2. t.ty \in Types /\ t.ty # "ulong"
    BY <1>1, ValueTypeFacts
  <1>3. MakeUnary(op, t) = b
    <2>1. CASE op = "Onot"
      BY <2>1 DEF MakeUnary
    <2>2. CASE op # "Onot"
      <3>1. t.ty \in ArithTypes
        <4>1. IsInt(t.ty)
          BY <2>2 DEF UnaryTyped
        <4> QED
          BY <1>1, <4>1, ValueTypeFacts
      <3>2. Promote(t) = t
        BY <3>1, CommonFacts DEF Promote, Convert, ArithTypes
      <3> QED
        BY <2>2, <3>2 DEF MakeUnary
    <2> QED
      BY <2>1, <2>2
  <1>4. b.op = op /\ b.ty = ty
    BY UnaryFields
  <1>5. ty \in Types /\ ty \in ValueTypes /\ (op = "Onot" => ty = "int") /\ (op # "Onot" => ty = t.ty)
    BY <1>1, <1>2, VoidType
  <1>6. u = Meaning(e.ty, [mem \in Mem |-> Negated(e.op, e.ty, m.ty, m.value[mem])], Nowhere, Nowhere, FALSE, m.assigned)
    BY DEF UnaryMeaning
  <1>7. e.ty = ty
    BY <1>3, <1>4
  <1> HIDE DEF ty, u
  <1>8. Good(b, D, m.assigned)
    BY <1>1, <1>2, <1>5, NegateGood
  <1>9. u = Meaning(ty, D, Nowhere, Nowhere, FALSE, m.assigned)
    BY <1>1, <1>6, <1>7
  <1> HIDE DEF b, D
  <1>10. u.ty = ty /\ u.value = D /\ u.place = Nowhere /\ u.pointer = Nowhere /\ u.assigned = m.assigned
    BY <1>9 DEF Meaning
  <1>11. Nowhere \in Dens("void*")
    BY VoidType, NowhereDens
  <1>12. b.op \notin {"Ovar", "Oindir", "Oaddr", "Oconst"}
    BY <1>4
  <1>13. Sound(b, u)
    BY <1>4, <1>5, <1>8, <1>10, <1>11, <1>12, OtherSound
  <1> QED
    BY <1>3, <1>13 DEF u

(* A cast is right: one to the same type leaves the tree, and with it the  *)
(* place and the constant, as they are.                                    *)
LEMMA CastSound ==
  ASSUME NEW t, NEW m, Sound(t, m), NEW ty \in TypeNames, NEW e, e.op = "cast", e.ty = Convert(ty, t).ty
  PROVE  Sound(Convert(ty, t), UnaryMeaning(e, m))
  <1> DEFINE u == UnaryMeaning(e, m)
             D == Coerced(t.ty, ty, m.value)
             b == Convert(ty, t)
  <1>1. t.ty \in ValueTypes /\ m.ty = t.ty /\ Good(t, m.value, m.assigned) /\ m.place \in Dens("void*") /\ m.pointer \in Dens("void*")
    BY DEF Sound
  <1>2. t.ty \in Types /\ t.ty # "ulong" /\ m.value \in Dens(t.ty)
    BY <1>1, ValueTypeFacts, GoodTypes
  <1>3. ty \in ArithTypes /\ ty \in Types /\ ty \in ValueTypes /\ (Width(ty) = 4 \/ Signed(ty))
    BY TypeNamesAssumption, TypeFacts DEF ArithTypes, Types, ValueTypes
  <1>4. Good(b, D, m.assigned) /\ b.ty = ty
    BY <1>1, <1>2, <1>3, ConvertGood DEF Coerced
  <1>5. u = Meaning(e.ty, [mem \in Mem |-> Converted(m.ty, e.ty, m.value[mem])], m.place, m.pointer,
                    e.ty = m.ty /\ m.null, m.assigned)
    BY DEF UnaryMeaning
  <1> HIDE DEF u
  <1>6. u = Meaning(ty, D, m.place, m.pointer, ty = t.ty /\ m.null, m.assigned)
    BY <1>1, <1>4, <1>5 DEF Coerced
  <1>7. /\ u.ty = ty /\ u.value = D /\ u.place = m.place /\ u.pointer = m.pointer
        /\ (t.ty = ty /\ m.null => u.null) /\ u.assigned = m.assigned
    BY <1>6 DEF Meaning
  <1>8. CASE t.ty = ty
    <2>1. b = t
      BY <1>8 DEF Convert
    <2>2. D = m.value
      <3>1. ASSUME NEW mem \in Mem PROVE D[mem] = m.value[mem]
        <4>1. m.value[mem] \in Results(t.ty)
          BY <1>2, DensFacts
        <4>2. Converted(t.ty, ty, m.value[mem]) = m.value[mem]
          BY <1>2, <1>3, <1>8, <4>1, ConvertedResult
        <4> QED
          BY <4>2 DEF Coerced
      <3> QED
        BY <1>2, <3>1 DEF Coerced, Dens
    <2>3. /\ u.ty = t.ty /\ u.value = m.value /\ u.place = m.place /\ u.pointer = m.pointer
          /\ (m.null => u.null) /\ u.assigned = m.assigned
      BY <1>7, <1>8, <2>2
    <2>4. OfVariable(t, u) /\ OfAddress(t, u) /\ OfConstant(t, u)
      BY <2>3 DEF Sound, OfVariable, OfAddress, OfConstant
    <2>5. OfPointer(t, u)
      BY <2>3 DEF Sound, OfPointer
    <2>6. Sound(t, u)
      BY <1>1, <2>3, <2>4, <2>5 DEF Sound
    <2> QED
      BY <2>1, <2>6 DEF u
  <1>9. CASE t.ty # ty
    <2>1. b.op = "Ocast"
      BY <1>9, UnaryFields DEF Convert
    <2> HIDE DEF b, D
    <2>2. b.op \notin {"Ovar", "Oindir", "Oaddr", "Oconst"}
      BY <2>1
    <2>3. Sound(b, u)
      BY <1>1, <1>3, <1>4, <1>7, <2>2, OtherSound
    <2> QED
      BY <2>3 DEF b, u
  <1> QED
    BY <1>8, <1>9

(* make_binary is right. *)
LEMMA BinarySound ==
  ASSUME NEW l, NEW r, NEW m, NEW n, Sound(l, m), Sound(r, n), NEW op \in Operators, BinaryTyped(op, l, r),
         NEW e, e.op = op, e.ty = MakeBinary(op, l, r).ty
  PROVE  Sound(MakeBinary(op, l, r), BinaryMeaning(e, m, n))
  <1> DEFINE b == MakeBinary(op, l, r)
             u == BinaryMeaning(e, m, n)
             D == BinaryValue(op, l.ty, r.ty, m.value, n.value)
             s == m.assigned \/ n.assigned
  <1>1. /\ l.ty \in ValueTypes /\ m.ty = l.ty /\ Good(l, m.value, m.assigned)
        /\ r.ty \in ValueTypes /\ n.ty = r.ty /\ Good(r, n.value, n.assigned)
    BY DEF Sound
  <1>2. op \in BinaryOps /\ op # "Oassign"
    BY OperatorsAssumption DEF BinaryOps, Arithmetic, Shifts, Comparisons
  <1>3. s \in BOOLEAN /\ (m.assigned => s) /\ (n.assigned => s)
    OBVIOUS
  <1> DEFINE v == [mem \in Mem |->
                    IF e.op = "Oassign"
                    THEN LET p == m.place[mem] IN Assigned(e.ty, p, Converted(n.ty, e.ty, n.value[p.mem]))
                    ELSE IF IsInt(m.ty) /\ IsPtr(n.ty)
                    THEN LET a == m.value[mem] IN Applied(e.op, n.ty, m.ty, n.value[a.mem], a)
                    ELSE LET a == n.value[mem] IN Applied(e.op, m.ty, n.ty, m.value[a.mem], a)]
             w == m.assigned \/ n.assigned \/ (e.op = "Oassign" /\ e.ty = "void*" /\ n.null)
  <1>4. u = Meaning(e.ty, v, Nowhere, Nowhere, FALSE, w)
    BY DEF BinaryMeaning
  <1>5. v = D
    <2>1. CASE l.ty \notin Pointers /\ r.ty \in Pointers
      <3>1. IsInt(m.ty) /\ IsPtr(n.ty)
        BY <1>1, <2>1 DEF IsInt, IsPtr
      <3>2. D = Both(op, r.ty, l.ty, n.value, m.value)
        BY <2>1 DEF BinaryValue
      <3> HIDE DEF D
      <3>3. v = [mem \in Mem |-> Applied(op, r.ty, l.ty, n.value[m.value[mem].mem], m.value[mem])]
        BY <1>1, <1>2, <3>1
      <3> QED
        BY <3>2, <3>3 DEF Both
    <2>2. CASE ~(l.ty \notin Pointers /\ r.ty \in Pointers)
      <3>1. ~(IsInt(m.ty) /\ IsPtr(n.ty))
        BY <1>1, <2>2 DEF IsInt, IsPtr
      <3>2. D = Both(op, l.ty, r.ty, m.value, n.value)
        BY <2>2 DEF BinaryValue
      <3> HIDE DEF D
      <3>3. v = [mem \in Mem |-> Applied(op, l.ty, r.ty, m.value[n.value[mem].mem], n.value[mem])]
        BY <1>1, <1>2, <3>1
      <3> QED
        BY <3>2, <3>3 DEF Both
    <2> QED
      BY <2>1, <2>2
  <1>6. w = s
    BY <1>2
  <1> HIDE DEF u, v, w, s
  <1>7. u.ty = e.ty /\ u.value = D /\ u.place = Nowhere /\ u.pointer = Nowhere /\ u.assigned = s
    BY <1>4, <1>5, <1>6 DEF Meaning
  <1>8. Good(l, m.value, s) /\ Good(r, n.value, s)
    <2>1. Good(l, m.value, s)
      BY <1>1, <1>3, GoodWeaker
    <2>2. Good(r, n.value, s)
      BY <1>1, <1>3, GoodWeaker
    <2> QED
      BY <2>1, <2>2
  <1>9. Good(b, D, s) /\ b.ty = BinaryType(op, l.ty, r.ty) /\ b.op \notin {"Ovar", "Oindir", "Oaddr", "Oconst"}
    BY <1>1, <1>2, <1>8, BinaryGood
  <1>10. b.ty \in ValueTypes
    BY <1>1, <1>2, <1>9, BinaryTypes
  <1>11. Nowhere \in Dens("void*")
    BY VoidType, NowhereDens
  <1> HIDE DEF b, D
  <1>12. u.ty = b.ty
    BY <1>7 DEF b
  <1>13. Sound(b, u)
    BY <1>7, <1>9, <1>10, <1>11, <1>12, OtherSound
  <1> QED
    BY <1>13 DEF b, u

(* lvalue leaves the place that the expression denotes in rbx. *)
LEMMA Left ==
  ASSUME NEW t, NEW m, Sound(t, m), HasAddress(t)
  PROVE  Located(Lvalue(t), m.place, m.assigned)
  <1>1. m.assigned \in BOOLEAN
    BY GoodTypes DEF Sound
  <1>2. CASE t.op = "Ovar"
    <2>1. PICK x \in DOMAIN Variables : t = Var(x) /\ m.place = At(x)
      BY <1>2 DEF Sound, OfVariable
    <2>2. Located(Lvalue(t), m.place, FALSE)
      BY <2>1, VarLocated
    <2> QED
      BY <1>1, <2>2, LocatedWeaker
  <1>3. CASE t.op = "Oindir"
    <2>1. PICK b : t = Unary("Oindir", "int", b) /\ b.ty = "int*" /\ Good(b, m.place, m.assigned)
      BY <1>3 DEF Sound, OfPointer
    <2> QED
      BY <2>1, IndirLocated
  <1> QED
    BY <1>2, <1>3 DEF HasAddress

(* make_assign is right, and what it has refused is an assignment of a     *)
(* constant 0 to a pointer to void.                                        *)
LEMMA AssignSound ==
  ASSUME NEW l, NEW r, NEW m, NEW n, Sound(l, m), Sound(r, n), AssignTyped(l, r),
         NEW e, e.op = "Oassign", e.ty = MakeAssign(l, r).ty
  PROVE  Sound(MakeAssign(l, r), BinaryMeaning(e, m, n))
  <1> DEFINE b == MakeAssign(l, r)
             u == BinaryMeaning(e, m, n)
             D == AssignValue(l.ty, r.ty, m.place, n.value)
             s == m.assigned \/ n.assigned \/ (l.ty = "void*" /\ n.null)
  <1>1. /\ l.ty \in ValueTypes /\ m.ty = l.ty /\ Good(l, m.value, m.assigned)
        /\ r.ty \in ValueTypes /\ n.ty = r.ty /\ Good(r, n.value, n.assigned)
    BY DEF Sound
  <1>2. b.ty = l.ty
    BY BinaryFields DEF MakeAssign
  <1>3. s \in BOOLEAN /\ (m.assigned => s) /\ (n.assigned => s) /\ (l.ty = "void*" /\ n.null => s)
    OBVIOUS
  <1> DEFINE v == [mem \in Mem |->
                    IF e.op = "Oassign"
                    THEN LET p == m.place[mem] IN Assigned(e.ty, p, Converted(n.ty, e.ty, n.value[p.mem]))
                    ELSE IF IsInt(m.ty) /\ IsPtr(n.ty)
                    THEN LET a == m.value[mem] IN Applied(e.op, n.ty, m.ty, n.value[a.mem], a)
                    ELSE LET a == n.value[mem] IN Applied(e.op, m.ty, n.ty, m.value[a.mem], a)]
             w == m.assigned \/ n.assigned \/ (e.op = "Oassign" /\ e.ty = "void*" /\ n.null)
  <1>4. u = Meaning(e.ty, v, Nowhere, Nowhere, FALSE, w)
    BY DEF BinaryMeaning
  <1>5. v = D
    BY <1>1, <1>2 DEF AssignValue
  <1>6. w = s
    BY <1>2
  <1> HIDE DEF u, v, w, s, D
  <1>7. u.ty = e.ty /\ u.value = D /\ u.place = Nowhere /\ u.pointer = Nowhere /\ u.assigned = s
    BY <1>4, <1>5, <1>6 DEF Meaning
  <1>8. Located(Lvalue(l), m.place, s)
    <2>1. Located(Lvalue(l), m.place, m.assigned)
      BY Left DEF AssignTyped
    <2> QED
      BY <1>3, <2>1, LocatedWeaker
  <1>9. Good(r, n.value, s)
    BY <1>1, <1>3, GoodWeaker
  <1>10. r.ty \in Pointers \/ l.ty \notin Pointers \/ (s /\ l.ty = "void*" /\ r.ty = "int")
    <2>1. CASE IsInt(l.ty)
      BY <2>1 DEF IsInt
    <2>2. CASE IsPtr(r.ty)
      BY <2>2 DEF IsPtr
    <2>3. CASE l.ty = "void*" /\ IsNull(r)
      <3>1. r.ty = "int" /\ n.null
        BY <2>3 DEF IsNull, Sound, OfConstant
      <3> QED
        BY <1>3, <2>3, <3>1
    <2> QED
      BY <2>1, <2>2, <2>3 DEF AssignTyped
  <1>11. Good(b, D, s) /\ b.op = "Oassign"
    BY <1>1, <1>8, <1>9, <1>10, AssignmentGood DEF D
  <1>12. Nowhere \in Dens("void*")
    BY VoidType, NowhereDens
  <1> HIDE DEF b
  <1>13. u.ty = b.ty
    BY <1>7 DEF b
  <1>14. b.op \notin {"Ovar", "Oindir", "Oaddr", "Oconst"}
    BY <1>11
  <1>15. Sound(b, u)
    BY <1>1, <1>2, <1>7, <1>11, <1>12, <1>13, <1>14, OtherSound
  <1> QED
    BY <1>15 DEF b, u

-----------------------------------------------------------------------------
(* The inductive invariant of Instructions. *)

(* The trees on the stack compute the expressions they were made from. *)
Consistent(st, es) ==
  /\ \E S : es \in Seq(S)
  /\ \E S : st \in Seq(S)
  /\ Ordered(es, Len(es))
  /\ \A k \in 1..Len(st) : st[k].src \in 1..Len(es) /\ Sound(st[k].tree, Meanings(es)[st[k].src])

(* What has been evaluated, and what has been refused. *)
Evaluated ==
  /\ status = "done" =>
       /\ Len(stack) = 1
       /\ before \in Memories
       /\ Assembles(stack[1].tree.code)
       /\ machine = Executed(stack[1].tree.code, Machine(before))
  /\ status = "unassembled" => Len(stack) = 1 /\ ~Assembles(stack[1].tree.code)

(* The inductive invariant of Instructions. *)
IInv == Consistent(stack, exprs) /\ Evaluated

(* A sequence with one more element. *)
LEMMA Longer ==
  ASSUME NEW S, NEW s \in Seq(S), NEW i
  PROVE  s \in Seq(S \cup {i}) /\ Append(s, i) \in Seq(S \cup {i})
  <1>1. Len(s) \in Nat /\ s \in [1..Len(s) -> S]
    OBVIOUS
  <1>2. s \in [1..Len(s) -> S \cup {i}]
    BY <1>1
  <1>3. s \in Seq(S \cup {i})
    BY <1>1, <1>2
  <1> QED
    BY <1>3

(* The last n values of the stack become one. *)
LEMMA Replaced ==
  ASSUME NEW S, NEW s \in Seq(S), NEW i, NEW n \in 0..Len(s)
  PROVE  LET t == Append(SubSeq(s, 1, Len(s) - n), i)
         IN  /\ t \in Seq(S \cup {i}) /\ Len(t) = Len(s) - n + 1 /\ t[Len(t)] = i
             /\ \A k \in 1..(Len(s) - n) : t[k] = s[k]
  <1> DEFINE u == SubSeq(s, 1, Len(s) - n)
  <1>1. u \in Seq(S) /\ Len(u) = Len(s) - n /\ \A k \in 1..(Len(s) - n) : u[k] = s[k]
    OBVIOUS
  <1> HIDE DEF u
  <1>2. u \in Seq(S \cup {i}) /\ Append(u, i) \in Seq(S \cup {i})
    BY <1>1, Longer
  <1>3. Len(Append(u, i)) = Len(u) + 1 /\ Append(u, i)[Len(u) + 1] = i /\ \A k \in 1..Len(u) : Append(u, i)[k] = u[k]
    BY <1>2
  <1> QED
    BY <1>1, <1>2, <1>3 DEF u

(* The values below the new one. *)
LEMMA Below ==
  ASSUME NEW a \in Nat, NEW n \in 0..a, NEW c, c = a - n + 1, NEW k \in 1..c, k # c
  PROVE  k \in 1..(a - n) /\ k \in 1..a
  OBVIOUS

(* A reduction keeps the trees and the expressions consistent, if the new  *)
(* tree computes the new expression.                                       *)
LEMMA ReduceConsistent ==
  ASSUME NEW st, NEW es, Consistent(st, es), NEW e, NEW i, NEW n \in 0..Len(st),
         e.l \in 0..Len(es), e.r \in 0..Len(es), i.src = Len(es) + 1, Sound(i.tree, MeaningOf(e, Meanings(es)))
  PROVE  Consistent(Append(SubSeq(st, 1, Len(st) - n), i), Append(es, e))
  <1> DEFINE t == Append(SubSeq(st, 1, Len(st) - n), i)
             ds == Append(es, e)
  <1>1. PICK S : es \in Seq(S)
    BY DEF Consistent
  <1>2. PICK T : st \in Seq(T)
    BY DEF Consistent
  <1>3. /\ t \in Seq(T \cup {i}) /\ Len(t) = Len(st) - n + 1 /\ t[Len(t)] = i
        /\ \A k \in 1..(Len(st) - n) : t[k] = st[k]
    BY <1>2, Replaced
  <1>4. es \in Seq(S \cup {e}) /\ ds \in Seq(S \cup {e}) /\ e \in S \cup {e}
    BY <1>1, Longer
  <1>5. Ordered(es, Len(es)) /\ \A k \in 1..Len(st) : st[k].src \in 1..Len(es) /\ Sound(st[k].tree, Meanings(es)[st[k].src])
    BY DEF Consistent
  <1>6. /\ Ordered(ds, Len(ds)) /\ Len(ds) = Len(es) + 1
        /\ \A k \in 1..Len(es) : Meanings(ds)[k] = Meanings(es)[k]
        /\ Meanings(ds)[Len(es) + 1] = MeaningOf(e, Meanings(es))
    BY <1>4, <1>5, MeaningsAppend
  <1>7. Len(st) \in Nat /\ Len(es) \in Nat
    BY <1>1, <1>2
  <1> HIDE DEF t, ds
  <1>8. ASSUME NEW k \in 1..Len(t) PROVE t[k].src \in 1..Len(ds) /\ Sound(t[k].tree, Meanings(ds)[t[k].src])
    <2>1. CASE k = Len(t)
      BY <1>3, <1>6, <1>7, <2>1
    <2>2. CASE k # Len(t)
      <3>1. k \in 1..(Len(st) - n) /\ k \in 1..Len(st)
        BY <1>3, <1>7, <2>2, Below
      <3>2. t[k] = st[k] /\ st[k].src \in 1..Len(es) /\ Sound(st[k].tree, Meanings(es)[st[k].src])
        BY <1>3, <1>5, <3>1
      <3>3. Meanings(ds)[st[k].src] = Meanings(es)[st[k].src] /\ st[k].src \in 1..Len(ds)
        BY <1>6, <1>7, <3>2
      <3> QED
        BY <3>2, <3>3
    <2> QED
      BY <2>1, <2>2
  <1>9. Consistent(t, ds)
    BY <1>3, <1>4, <1>6, <1>8 DEF Consistent
  <1> QED
    BY <1>9 DEF t, ds

(* Reduce keeps the invariant under the same condition. *)
LEMMA ReduceInductive ==
  ASSUME IInv, status = "parsing", NEW n \in 0..Len(stack), NEW tree, NEW op, NEW arg, NEW l, NEW r, NEW ops,
         Reduce(n, tree, op, arg, l, r, ops), l \in 0..Len(exprs), r \in 0..Len(exprs),
         NEW e, e = [op |-> op, ty |-> tree.ty, arg |-> arg, l |-> l, r |-> r],
         Sound(tree, MeaningOf(e, Meanings(exprs)))
  PROVE  IInv'
  <1> DEFINE i == [tree |-> tree, src |-> Len(exprs) + 1, ops |-> ops]
  <1>1. /\ exprs' = Append(exprs, e)
        /\ stack' = Append(SubSeq(stack, 1, Len(stack) - n), i)
        /\ status' = "parsing"
    BY DEF Reduce
  <1>2. i.tree = tree /\ i.src = Len(exprs) + 1 /\ e.l = l /\ e.r = r
    OBVIOUS
  <1> HIDE DEF i
  <1>3. Consistent(stack, exprs)
    BY DEF IInv
  <1>4. Consistent(Append(SubSeq(stack, 1, Len(stack) - n), i), Append(exprs, e))
    <2>1. e.l \in 0..Len(exprs) /\ e.r \in 0..Len(exprs)
      BY <1>2
    <2>2. Sound(i.tree, MeaningOf(e, Meanings(exprs)))
      BY <1>2
    <2> QED
      BY <1>2, <1>3, <2>1, <2>2, ReduceConsistent
  <1>5. Consistent(stack', exprs')
    BY <1>1, <1>4
  <1>6. Evaluated'
    BY <1>1 DEF Evaluated
  <1> QED
    BY <1>5, <1>6 DEF IInv

(* The empty stack satisfies it. *)
LEMMA InitInv == ExprInit => IInv
  <1> SUFFICES ASSUME ExprInit PROVE IInv
    OBVIOUS
  <1>1. exprs = <<>> /\ stack = <<>> /\ status = "parsing"
    BY DEF ExprInit
  <1>2. <<>> \in Seq({}) /\ Len(<<>>) = 0
    OBVIOUS
  <1>3. Ordered(<<>>, 0)
    BY DEF Ordered
  <1>4. Consistent(stack, exprs)
    BY <1>1, <1>2, <1>3 DEF Consistent
  <1> QED
    BY <1>1, <1>4 DEF IInv, Evaluated

-----------------------------------------------------------------------------
(* Its preservation, and what follows from it. *)

(* What the invariant says of the stack, counted from its top. *)
LEMMA StackFacts ==
  ASSUME IInv
  PROVE  /\ Len(stack) \in Nat /\ Len(exprs) \in Nat
         /\ stack # <<>> => Len(stack) >= 1
         /\ \A k \in 1..Len(stack) : Value(k).src \in 1..Len(exprs)
                                     /\ Sound(Value(k).tree, Meanings(exprs)[Value(k).src])
  <1>1. Len(stack) \in Nat /\ Len(exprs) \in Nat /\ (stack # <<>> => Len(stack) >= 1)
    BY DEF IInv, Consistent
  <1>2. ASSUME NEW k \in 1..Len(stack) PROVE Len(stack) + 1 - k \in 1..Len(stack)
    BY <1>1
  <1> QED
    BY <1>1, <1>2 DEF IInv, Consistent, Value

(* Primary keeps the invariant. *)
LEMMA PrimaryInv == IInv /\ Primary => IInv'
  <1> SUFFICES ASSUME IInv, Primary PROVE IInv'
    OBVIOUS
  <1>1. status = "parsing" /\ Len(stack) \in Nat /\ Len(exprs) \in Nat
    BY StackFacts DEF Primary
  <1>2. 0 \in 0..Len(stack) /\ 0 \in 0..Len(exprs)
    BY <1>1
  <1>3. ASSUME NEW x \in DOMAIN Variables, Reduce(0, Var(x), "Ovar", x, 0, 0, 0) PROVE IInv'
    <2> DEFINE e == [op |-> "Ovar", ty |-> Var(x).ty, arg |-> x, l |-> 0, r |-> 0]
    <2>1. e.op = "Ovar" /\ e.ty = Var(x).ty /\ e.arg = x /\ e.l = 0
      OBVIOUS
    <2>2. e = [op |-> "Ovar", ty |-> Var(x).ty, arg |-> x, l |-> 0, r |-> 0]
      OBVIOUS
    <2> HIDE DEF e
    <2>3. Sound(Var(x), LeafMeaning(e))
      BY <2>1, VarLeafSound
    <2>4. Sound(Var(x), MeaningOf(e, Meanings(exprs)))
      BY <2>1, <2>3 DEF MeaningOf
    <2> QED
      BY <1>1, <1>2, <1>3, <2>2, <2>4, ReduceInductive
  <1>4. ASSUME NEW k \in Literals, Reduce(0, Const(k), "Oconst", k, 0, 0, 0) PROVE IInv'
    <2> DEFINE e == [op |-> "Oconst", ty |-> Const(k).ty, arg |-> k, l |-> 0, r |-> 0]
    <2>1. e.op = "Oconst" /\ e.ty = Const(k).ty /\ e.arg = k /\ e.l = 0
      OBVIOUS
    <2>2. e = [op |-> "Oconst", ty |-> Const(k).ty, arg |-> k, l |-> 0, r |-> 0]
      OBVIOUS
    <2> HIDE DEF e
    <2>3. Sound(Const(k), LeafMeaning(e))
      BY <2>1, ConstSound
    <2>4. Sound(Const(k), MeaningOf(e, Meanings(exprs)))
      BY <2>1, <2>3 DEF MeaningOf
    <2> QED
      BY <1>1, <1>2, <1>4, <2>2, <2>4, ReduceInductive
  <1> QED
    BY <1>3, <1>4 DEF Primary

(* A reduction of one value. *)
LEMMA ReduceUnaryInv ==
  ASSUME IInv, status = "parsing", stack # <<>>, NEW op, NEW tree, ReduceUnary(op, tree),
         NEW e, e = [op |-> op, ty |-> tree.ty, arg |-> 0, l |-> Value(1).src, r |-> 0],
         Sound(tree, UnaryMeaning(e, Meanings(exprs)[Value(1).src]))
  PROVE  IInv'
  <1>1. /\ Len(stack) \in Nat /\ Len(exprs) \in Nat /\ 1 \in 0..Len(stack) /\ 1 \in 1..Len(stack)
        /\ 0 \in 0..Len(exprs)
    BY StackFacts
  <1>2. Value(1).src \in 1..Len(exprs)
    BY <1>1, StackFacts
  <1> DEFINE l == Value(1).src
             ops == Value(1).ops + 1
  <1>3. Reduce(1, tree, op, 0, l, 0, ops)
    BY DEF ReduceUnary
  <1>4. l \in 0..Len(exprs) /\ l # 0
    BY <1>1, <1>2
  <1>5. e = [op |-> op, ty |-> tree.ty, arg |-> 0, l |-> l, r |-> 0] /\ e.l = l /\ e.r = 0
    OBVIOUS
  <1>6. Sound(tree, UnaryMeaning(e, Meanings(exprs)[l]))
    OBVIOUS
  <1> HIDE DEF l, ops
  <1>7. MeaningOf(e, Meanings(exprs)) = UnaryMeaning(e, Meanings(exprs)[l])
    BY <1>4, <1>5 DEF MeaningOf
  <1>8. Sound(tree, MeaningOf(e, Meanings(exprs)))
    BY <1>6, <1>7
  <1> QED
    BY <1>1, <1>3, <1>4, <1>5, <1>8, ReduceInductive

(* A reduction of two values. *)
LEMMA ReduceBinaryInv ==
  ASSUME IInv, status = "parsing", Len(stack) >= 2, NEW op, NEW tree, ReduceBinary(op, tree),
         NEW e, e = [op |-> op, ty |-> tree.ty, arg |-> 0, l |-> Value(2).src, r |-> Value(1).src],
         Sound(tree, BinaryMeaning(e, Meanings(exprs)[Value(2).src], Meanings(exprs)[Value(1).src]))
  PROVE  IInv'
  <1>1. /\ Len(stack) \in Nat /\ Len(exprs) \in Nat
        /\ 2 \in 0..Len(stack) /\ 1 \in 1..Len(stack) /\ 2 \in 1..Len(stack)
    BY StackFacts
  <1>2. Value(1).src \in 1..Len(exprs) /\ Value(2).src \in 1..Len(exprs)
    BY <1>1, StackFacts
  <1> DEFINE l == Value(2).src
             r == Value(1).src
             ops == Value(2).ops + Value(1).ops + 1
  <1>3. Reduce(2, tree, op, 0, l, r, ops)
    BY DEF ReduceBinary
  <1>4. l \in 0..Len(exprs) /\ l # 0 /\ r \in 0..Len(exprs) /\ r # 0
    BY <1>1, <1>2
  <1>5. e = [op |-> op, ty |-> tree.ty, arg |-> 0, l |-> l, r |-> r] /\ e.l = l /\ e.r = r
    OBVIOUS
  <1>6. Sound(tree, BinaryMeaning(e, Meanings(exprs)[l], Meanings(exprs)[r]))
    OBVIOUS
  <1> HIDE DEF l, r, ops
  <1>7. MeaningOf(e, Meanings(exprs)) = BinaryMeaning(e, Meanings(exprs)[l], Meanings(exprs)[r])
    BY <1>4, <1>5 DEF MeaningOf
  <1>8. Sound(tree, MeaningOf(e, Meanings(exprs)))
    BY <1>6, <1>7
  <1> QED
    BY <1>1, <1>3, <1>4, <1>5, <1>8, ReduceInductive

(* UnaryExpression keeps the invariant. *)
LEMMA UnaryInv == IInv /\ UnaryExpression => IInv'
  <1> SUFFICES ASSUME IInv, UnaryExpression PROVE IInv'
    OBVIOUS
  <1>1. status = "parsing" /\ stack # <<>>
    BY DEF UnaryExpression
  <1>2. PICK op \in {"Oaddr", "Oindir", "Opos", "Oneg", "Ocomp", "Onot"} :
          UnaryTyped(op, Value(1).tree) /\ ReduceUnary(op, MakeUnary(op, Value(1).tree))
    BY DEF UnaryExpression
  <1> DEFINE t == Value(1).tree
             u == MakeUnary(op, t)
             m == Meanings(exprs)[Value(1).src]
             e == [op |-> op, ty |-> u.ty, arg |-> 0, l |-> Value(1).src, r |-> 0]
  <1>3. Sound(t, m)
    <2>1. 1 \in 1..Len(stack)
      BY <1>1, StackFacts
    <2> QED
      BY <2>1, StackFacts
  <1>4. e.op = op /\ e.ty = u.ty /\ ReduceUnary(op, u) /\ UnaryTyped(op, t)
    BY <1>2
  <1>5. e = [op |-> op, ty |-> u.ty, arg |-> 0, l |-> Value(1).src, r |-> 0]
    OBVIOUS
  <1> HIDE DEF e, t
  <1>6. Sound(u, UnaryMeaning(e, m))
    <2> HIDE DEF m
    <2>1. CASE op = "Oaddr"
      BY <1>3, <1>4, <2>1, AddressSound
    <2>2. CASE op = "Oindir"
      BY <1>3, <1>4, <2>2, IndirectionSound
    <2>3. CASE op \in {"Opos", "Oneg", "Ocomp", "Onot"}
      BY <1>3, <1>4, <2>3, NegationSound
    <2> QED
      BY <1>2, <2>1, <2>2, <2>3
  <1> HIDE DEF u
  <1> QED
    BY <1>1, <1>4, <1>5, <1>6, ReduceUnaryInv

(* Cast keeps the invariant. *)
LEMMA CastInv == IInv /\ Cast => IInv'
  <1> SUFFICES ASSUME IInv, Cast PROVE IInv'
    OBVIOUS
  <1>1. status = "parsing" /\ stack # <<>>
    BY DEF Cast
  <1>2. PICK ty \in TypeNames : ReduceUnary("cast", Convert(ty, Value(1).tree))
    BY DEF Cast
  <1> DEFINE t == Value(1).tree
             u == Convert(ty, t)
             m == Meanings(exprs)[Value(1).src]
             e == [op |-> "cast", ty |-> u.ty, arg |-> 0, l |-> Value(1).src, r |-> 0]
  <1>3. Sound(t, m)
    <2>1. 1 \in 1..Len(stack)
      BY <1>1, StackFacts
    <2> QED
      BY <2>1, StackFacts
  <1>4. e.op = "cast" /\ e.ty = u.ty /\ ReduceUnary("cast", u)
    BY <1>2
  <1>5. e = [op |-> "cast", ty |-> u.ty, arg |-> 0, l |-> Value(1).src, r |-> 0]
    OBVIOUS
  <1> HIDE DEF e, t
  <1>6. Sound(u, UnaryMeaning(e, m))
    <2> HIDE DEF m
    <2> QED
      BY <1>2, <1>3, <1>4, CastSound
  <1> HIDE DEF u
  <1> QED
    BY <1>1, <1>4, <1>5, <1>6, ReduceUnaryInv

(* The two values at the top of the stack. *)
LEMMA OperandsSound ==
  ASSUME IInv, Len(stack) >= 2
  PROVE  /\ Sound(Value(2).tree, Meanings(exprs)[Value(2).src])
         /\ Sound(Value(1).tree, Meanings(exprs)[Value(1).src])
  <1>1. 1 \in 1..Len(stack) /\ 2 \in 1..Len(stack)
    BY StackFacts
  <1> QED
    BY <1>1, StackFacts

(* BinaryExpression keeps the invariant. *)
LEMMA BinaryInv == IInv /\ BinaryExpression => IInv'
  <1> SUFFICES ASSUME IInv, BinaryExpression PROVE IInv'
    OBVIOUS
  <1>1. status = "parsing" /\ Len(stack) >= 2
    BY DEF BinaryExpression
  <1>2. PICK op \in Operators :
          BinaryTyped(op, Value(2).tree, Value(1).tree) /\ ReduceBinary(op, MakeBinary(op, Value(2).tree, Value(1).tree))
    BY DEF BinaryExpression
  <1> DEFINE l == Value(2).tree
             r == Value(1).tree
             u == MakeBinary(op, l, r)
             m == Meanings(exprs)[Value(2).src]
             n == Meanings(exprs)[Value(1).src]
             e == [op |-> op, ty |-> u.ty, arg |-> 0, l |-> Value(2).src, r |-> Value(1).src]
  <1>3. Sound(l, m) /\ Sound(r, n)
    BY <1>1, OperandsSound
  <1>4. e.op = op /\ e.ty = u.ty /\ ReduceBinary(op, u) /\ BinaryTyped(op, l, r)
    BY <1>2
  <1>5. e = [op |-> op, ty |-> u.ty, arg |-> 0, l |-> Value(2).src, r |-> Value(1).src]
    OBVIOUS
  <1> HIDE DEF e, l, r
  <1>6. Sound(u, BinaryMeaning(e, m, n))
    <2> HIDE DEF m, n
    <2> QED
      BY <1>2, <1>3, <1>4, BinarySound
  <1> HIDE DEF u
  <1> QED
    BY <1>1, <1>4, <1>5, <1>6, ReduceBinaryInv

(* Assignment keeps the invariant. *)
LEMMA AssignmentInv == IInv /\ Assignment => IInv'
  <1> SUFFICES ASSUME IInv, Assignment PROVE IInv'
    OBVIOUS
  <1>1. status = "parsing" /\ Len(stack) >= 2
    BY DEF Assignment
  <1> DEFINE l == Value(2).tree
             r == Value(1).tree
             u == MakeAssign(l, r)
             m == Meanings(exprs)[Value(2).src]
             n == Meanings(exprs)[Value(1).src]
             e == [op |-> "Oassign", ty |-> u.ty, arg |-> 0, l |-> Value(2).src, r |-> Value(1).src]
  <1>3. Sound(l, m) /\ Sound(r, n)
    BY <1>1, OperandsSound
  <1>4. e.op = "Oassign" /\ e.ty = u.ty /\ ReduceBinary("Oassign", u) /\ AssignTyped(l, r)
    BY DEF Assignment
  <1>5. e = [op |-> "Oassign", ty |-> u.ty, arg |-> 0, l |-> Value(2).src, r |-> Value(1).src]
    OBVIOUS
  <1> HIDE DEF e, l, r
  <1>6. Sound(u, BinaryMeaning(e, m, n))
    <2> HIDE DEF m, n
    <2> QED
      BY <1>3, <1>4, AssignSound
  <1> HIDE DEF u
  <1> QED
    BY <1>1, <1>4, <1>5, <1>6, ReduceBinaryInv

(* Evaluate keeps the invariant. *)
LEMMA EvaluateInv == IInv /\ Evaluate => IInv'
  <1> SUFFICES ASSUME IInv, Evaluate PROVE IInv'
    OBVIOUS
  <1>1. stack' = stack /\ exprs' = exprs /\ Len(stack) = 1
    BY DEF Evaluate
  <1>2. Consistent(stack', exprs')
    BY <1>1 DEF IInv
  <1>3. CASE Assembles(stack[1].tree.code)
    <2>1. PICK mem \in Memories :
            status' = "done" /\ before' = mem /\ machine' = Executed(stack[1].tree.code, Machine(mem))
      BY <1>3 DEF Evaluate
    <2>2. Evaluated'
      BY <1>1, <1>3, <2>1 DEF Evaluated
    <2> QED
      BY <1>2, <2>2 DEF IInv
  <1>4. CASE ~Assembles(stack[1].tree.code)
    <2>1. status' = "unassembled"
      BY <1>4 DEF Evaluate
    <2>2. Evaluated'
      BY <1>1, <1>4, <2>1 DEF Evaluated
    <2> QED
      BY <1>2, <2>2 DEF IInv
  <1> QED
    BY <1>3, <1>4

(* Every step keeps the invariant. *)
LEMMA StepInv == IInv /\ [ExprNext]_exprVars => IInv'
  <1> SUFFICES ASSUME IInv, [ExprNext]_exprVars PROVE IInv'
    OBVIOUS
  <1>1. CASE UNCHANGED exprVars
    BY <1>1 DEF IInv, Evaluated, exprVars
  <1> QED
    BY <1>1, PrimaryInv, UnaryInv, CastInv, BinaryInv, AssignmentInv, EvaluateInv DEF ExprNext

(* The processor before it executes anything. *)
LEMMA Started == \A mem \in Memories : Machine(mem) \in Running /\ Machine(mem).mem = mem /\ Machine(mem).pushed = <<>>
  <1> SUFFICES ASSUME NEW mem \in Memories
               PROVE Machine(mem) \in Running /\ Machine(mem).mem = mem /\ Machine(mem).pushed = <<>>
    OBVIOUS
  <1>1. mem \in Mem
    BY MemoriesAssumption
  <1>2. 0 \in Regs /\ 4 \in Word /\ <<>> \in Seq(Regs)
    BY DEF Regs, Word
  <1>3. <<0, 0, 4>> \in Regs \X Regs \X Word
    BY <1>2
  <1> QED
    BY <1>1, <1>2, <1>3 DEF Machine, Running, Machines

(* After the evaluation, what was pushed is popped, and where C gives the  *)
(* expression a meaning the processor holds it.                            *)
LEMMA Done ==
  ASSUME IInv, status = "done"
  PROVE  LET D == Meanings(exprs)[stack[1].src].value
         IN  /\ machine.fault \/ machine.pushed = <<>>
             /\ D[before].ok => Has(stack[1].tree.ty, D[before], machine)
  <1>1. /\ Len(stack) = 1 /\ before \in Memories /\ Assembles(stack[1].tree.code)
        /\ machine = Executed(stack[1].tree.code, Machine(before))
    BY DEF IInv, Evaluated
  <1> DEFINE t == stack[1].tree
             m == Meanings(exprs)[stack[1].src]
  <1>2. Sound(t, m)
    BY <1>1 DEF IInv, Consistent
  <1>3. Assembles(t.code)
    BY <1>1
  <1> HIDE DEF t, m
  <1>4. Denotes(t.code, t.ty, m.value)
    BY <1>2, <1>3 DEF Sound, Good
  <1>5. Machine(before) \in Running /\ Machine(before).mem = before /\ Machine(before).pushed = <<>>
    BY <1>1, Started
  <1>6. /\ Ends(Machine(before), Executed(t.code, Machine(before)))
        /\ m.value[before].ok => Has(t.ty, m.value[before], Executed(t.code, Machine(before)))
    BY <1>4, <1>5 DEF Denotes
  <1>7. machine = Executed(t.code, Machine(before))
    BY <1>1 DEF t
  <1>8. machine.fault \/ machine.pushed = <<>>
    BY <1>5, <1>6, <1>7 DEF Ends
  <1>9. m.value[before].ok => Has(t.ty, m.value[before], machine)
    BY <1>6, <1>7
  <1> QED
    BY <1>8, <1>9 DEF t, m

(* The result is in rax and the memory is that of the meaning. *)
LEMMA InvComputes == IInv => ComputesMeaning
  <1> SUFFICES ASSUME IInv, status = "done", Meanings(exprs)[stack[1].src].value[before].ok
               PROVE /\ ~machine.fault
                     /\ Low(Width(stack[1].tree.ty), machine.rax)
                          = Low(Width(stack[1].tree.ty), Meanings(exprs)[stack[1].src].value[before].n)
                     /\ machine.mem = Meanings(exprs)[stack[1].src].value[before].mem
    BY DEF ComputesMeaning
  <1>1. Has(stack[1].tree.ty, Meanings(exprs)[stack[1].src].value[before], machine)
    BY Done
  <1> QED
    BY <1>1 DEF Has, Same, Running

(* What is pushed is popped. *)
LEMMA InvBalance == IInv => PushesBalance
  BY Done DEF PushesBalance

(* What the assembler refuses assigns a constant 0 to a pointer to void. *)
LEMMA InvUnassembled == IInv => OnlyNullUnassembled
  <1> SUFFICES ASSUME IInv, status = "unassembled" PROVE Meanings(exprs)[stack[1].src].assigned
    BY DEF OnlyNullUnassembled
  <1>1. Len(stack) = 1 /\ ~Assembles(stack[1].tree.code)
    BY DEF IInv, Evaluated
  <1>2. Sound(stack[1].tree, Meanings(exprs)[stack[1].src])
    BY <1>1 DEF IInv, Consistent
  <1>3. Good(stack[1].tree, Meanings(exprs)[stack[1].src].value, Meanings(exprs)[stack[1].src].assigned)
    BY <1>2 DEF Sound
  <1> QED
    BY <1>1, <1>3 DEF Good

(* Every tree on the parser's stack computes the expression of the source  *)
(* it was made from, however these nest, and what was executed is the      *)
(* tree's code.                                                            *)
THEOREM Invariance == ExprSpec => []IInv
  <1>1. ExprInit => IInv
    BY InitInv
  <1>2. IInv /\ [ExprNext]_exprVars => IInv'
    BY StepInv
  <1> QED
    BY <1>1, <1>2, PTL DEF ExprSpec

(* make_unary, make_binary, make_assign and tree() translate every         *)
(* expression to instructions that compute what C says it means, wherever  *)
(* C gives it a meaning: whatever its size, its variables, their places    *)
(* and what they hold.                                                     *)
THEOREM ComputesItsMeaning == ExprSpec => []ComputesMeaning
  BY Invariance, InvComputes, PTL

(* The pushes and pops of tree() and lvalue() balance in every expression. *)
THEOREM PushesAreBalanced == ExprSpec => []PushesBalance
  BY Invariance, InvBalance, PTL

(* The one instruction the assembler does not know is selected only for    *)
(* the constant 0 that becomes a pointer in an assignment.                 *)
THEOREM OnlyNullsUnassembled == ExprSpec => []OnlyNullUnassembled
  BY Invariance, InvUnassembled, PTL
=============================================================================
