-------------------------- MODULE StatementsProofs --------------------------
(***************************************************************************)
(* Theorems on Statements: for functions of every size and depth.  What    *)
(* the parser makes of the source is a relation between lists of           *)
(* statements and trees; from it come the labels of the code, and what is  *)
(* left of the source between any two of its instructions.                 *)
(***************************************************************************)
EXTENDS Statements, SequenceTheorems, FiniteSetTheorems, TLAPS

(* Lists of statements and of trees are nested, and no set holds them all. *)
IsList(x) == \E S : x \in Seq(S)

(* The empty list and one of a single element are lists. *)
LEMMA ListOfOne == IsList(<<>>) /\ \A x : IsList(<<x>>)
<1>1. <<>> \in Seq({})
  OBVIOUS
<1>2. \A x : <<x>> \in Seq({x})
  OBVIOUS
<1> QED BY <1>1, <1>2 DEF IsList

(* Two lists have a set of elements in common. *)
LEMMA CommonSet ==
  ASSUME NEW a, NEW b, IsList(a), IsList(b)
  PROVE  \E S : a \in Seq(S) /\ b \in Seq(S)
<1>1. PICK A : a \in Seq(A)
  BY DEF IsList
<1>2. PICK B : b \in Seq(B)
  BY DEF IsList
<1>3. PICK S : S = A \cup B
  OBVIOUS
<1>4. a \in Seq(S)
  BY <1>1, <1>3, SeqMonotonic
<1>5. b \in Seq(S)
  BY <1>2, <1>3, SeqMonotonic
<1> QED BY <1>4, <1>5

(* Lists are concatenated to lists, with the elements of both. *)
LEMMA Concat ==
  ASSUME NEW a, NEW b, IsList(a), IsList(b)
  PROVE  /\ IsList(a \o b)
         /\ Len(a) \in Nat /\ Len(b) \in Nat
         /\ Len(a \o b) = Len(a) + Len(b)
         /\ \A i \in 1..Len(a) : (a \o b)[i] = a[i]
         /\ \A i \in 1..Len(b) : (a \o b)[Len(a) + i] = b[i]
         /\ a \o <<>> = a /\ <<>> \o a = a
<1>1. PICK S : a \in Seq(S) /\ b \in Seq(S)
  BY CommonSet
<1>2. Len(a) \in Nat /\ Len(b) \in Nat
  BY <1>1, LenProperties
<1>3. a \o b \in Seq(S)
  BY <1>1
<1>4. /\ Len(a \o b) = Len(a) + Len(b)
      /\ \A i \in 1..Len(a) + Len(b) : (a \o b)[i] =
           IF i <= Len(a) THEN a[i] ELSE b[i - Len(a)]
  BY <1>1, ConcatProperties
<1>5. \A i \in 1..Len(a) : (a \o b)[i] = a[i]
  BY <1>2, <1>4
<1>6. ASSUME NEW i \in 1..Len(b)
      PROVE  (a \o b)[Len(a) + i] = b[i]
  <2>1. Len(a) + i \in 1..Len(a) + Len(b) /\ ~(Len(a) + i <= Len(a)) /\ Len(a) + i - Len(a) = i
    BY <1>2
  <2> QED BY <2>1, <1>4
<1>7. a \o <<>> = a /\ <<>> \o a = a
  BY <1>1, ConcatEmptySeq
<1> QED BY <1>2, <1>3, <1>4, <1>5, <1>6, <1>7 DEF IsList

(* It does not matter which are concatenated first. *)
LEMMA Associative ==
  ASSUME NEW a, NEW b, NEW c, IsList(a), IsList(b), IsList(c)
  PROVE  (a \o b) \o c = a \o (b \o c)
<1>1. PICK S : a \in Seq(S) /\ b \in Seq(S)
  BY CommonSet
<1>2. PICK C : c \in Seq(C)
  BY DEF IsList
<1>3. PICK D : D = S \cup C
  OBVIOUS
<1>4. a \in Seq(D) /\ b \in Seq(D) /\ c \in Seq(D)
  BY <1>1, <1>2, <1>3, SeqMonotonic
<1> QED BY <1>4, ConcatAssociative

(* A list is its head and its tail. *)
LEMMA HeadAndTail ==
  ASSUME NEW a, IsList(a), a # <<>>
  PROVE  /\ IsList(Tail(a)) /\ a = <<Head(a)>> \o Tail(a)
         /\ Head(a) = a[1] /\ Len(a) \in Nat \ {0}
<1>1. PICK S : a \in Seq(S)
  BY DEF IsList
<1>2. Tail(a) \in Seq(S) /\ Head(a) = a[1] /\ Len(a) \in Nat \ {0}
  BY <1>1, HeadTailProperties, EmptySeq, LenProperties
<1>3. a = <<Head(a)>> \o Tail(a)
  BY <1>1
<1> QED BY <1>2, <1>3 DEF IsList

(* The head and the tail of a list that begins with x. *)
LEMMA BeginsWith ==
  ASSUME NEW x, NEW a, IsList(a)
  PROVE  /\ Head(<<x>> \o a) = x /\ Tail(<<x>> \o a) = a
         /\ <<x>> \o a # <<>> /\ IsList(<<x>> \o a)
<1>1. PICK S : a \in Seq(S)
  BY DEF IsList
<1>2. Head(<<x>> \o a) = x /\ Tail(<<x>> \o a) = a /\ <<x>> \o a # <<>>
  BY <1>1
<1> QED BY <1>2, Concat, ListOfOne

(* The head and the tail of a concatenation. *)
LEMMA HeadOfConcat ==
  ASSUME NEW a, NEW b, IsList(a), IsList(b), a # <<>>
  PROVE  /\ a \o b # <<>> /\ Head(a \o b) = Head(a)
         /\ Tail(a \o b) = Tail(a) \o b
<1>1. /\ IsList(Tail(a)) /\ a = <<Head(a)>> \o Tail(a)
  BY HeadAndTail
<1>2. a \o b = <<Head(a)>> \o (Tail(a) \o b)
  <2>1. (<<Head(a)>> \o Tail(a)) \o b = <<Head(a)>> \o (Tail(a) \o b)
    BY <1>1, Associative, ListOfOne
  <2> QED BY <2>1, <1>1
<1>3. IsList(Tail(a) \o b)
  BY <1>1, Concat
<1> QED BY <1>2, <1>3, BeginsWith

(* To append an element is to concatenate the list of it. *)
LEMMA AppendIsConcatenation ==
  ASSUME NEW a, IsList(a), NEW x
  PROVE  Append(a, x) = a \o <<x>> /\ IsList(Append(a, x))
<1>1. PICK A : a \in Seq(A)
  BY DEF IsList
<1>2. PICK S : S = A \cup {x}
  OBVIOUS
<1>3. a \in Seq(S) /\ x \in S
  BY <1>1, <1>2, SeqMonotonic
<1>4. Append(a, x) = a \o <<x>>
  BY <1>3, AppendIsConcat
<1>5. IsList(a \o <<x>>)
  BY Concat, ListOfOne
<1> QED BY <1>4, <1>5

(* Lists of two and of three elements. *)
LEMMA TwoElements ==
  ASSUME NEW x, NEW y
  PROVE  <<x>> \o <<y>> = <<x, y>> /\ Append(<<x>>, y) = <<x, y>>
<1>0. PICK a, b : a = <<x>> /\ b = <<y>>
  OBVIOUS
<1>1. PICK u : u = a \o b
  OBVIOUS
<1>2. PICK S : S = {x, y}
  OBVIOUS
<1>3. a \in Seq(S) /\ b \in Seq(S)
  BY <1>0, <1>2
<1>4. u \in Seq(S)
  BY <1>1, <1>3
<1>5. Len(u) = 2 /\ u[1] = x /\ u[2] = y
  <2>1. Len(a) = 1 /\ Len(b) = 1 /\ a[1] = x /\ b[1] = y
    BY <1>0
  <2>0. IsList(a) /\ IsList(b)
    BY <1>3 DEF IsList
  <2>2. /\ Len(u) = Len(a) + Len(b)
        /\ \A i \in 1..Len(a) : u[i] = a[i]
        /\ \A i \in 1..Len(b) : u[Len(a) + i] = b[i]
    BY <1>1, <2>0, Concat
  <2> QED BY <2>1, <2>2
<1>9. PICK w : w = <<x, y>>
  OBVIOUS
<1>6. w \in Seq(S) /\ Len(w) = 2 /\ w[1] = x /\ w[2] = y
  BY <1>2, <1>9
<1>10. \A i \in 1..Len(u) : u[i] = w[i]
  BY <1>5, <1>6
<1>7. u = <<x, y>>
  BY <1>4, <1>5, <1>6, <1>9, <1>10, SeqEqual
<1>8. Append(<<x>>, y) = <<x>> \o <<y>>
  BY ListOfOne, AppendIsConcatenation
<1> QED BY <1>0, <1>1, <1>7, <1>8

(* Lists of one element make one of three. *)
LEMMA ThreeElements ==
  ASSUME NEW x, NEW y, NEW z
  PROVE  <<x>> \o <<y>> \o <<z>> = <<x, y, z>>
<1>1. PICK v : v = <<x, y>>
  OBVIOUS
<1>2. PICK u : u = v \o <<z>>
  OBVIOUS
<1>3. PICK S : S = {x, y, z}
  OBVIOUS
<1>4. v \in Seq(S) /\ <<z>> \in Seq(S) /\ Len(v) = 2 /\ v[1] = x /\ v[2] = y
  BY <1>1, <1>3
<1>5. u \in Seq(S) /\ IsList(v)
  BY <1>2, <1>4 DEF IsList
<1>6. Len(u) = 3 /\ u[1] = x /\ u[2] = y /\ u[3] = z
  <2>1. Len(<<z>>) = 1 /\ <<z>>[1] = z
    OBVIOUS
  <2>2. /\ Len(u) = Len(v) + Len(<<z>>)
        /\ \A i \in 1..Len(v) : u[i] = v[i]
        /\ \A i \in 1..Len(<<z>>) : u[Len(v) + i] = <<z>>[i]
    BY <1>2, <1>5, ListOfOne, Concat
  <2> QED BY <1>4, <2>1, <2>2
<1>7. PICK w : w = <<x, y, z>>
  OBVIOUS
<1>8. w \in Seq(S) /\ Len(w) = 3 /\ w[1] = x /\ w[2] = y /\ w[3] = z
  BY <1>3, <1>7
<1>9. \A i \in 1..Len(u) : u[i] = w[i]
  BY <1>6, <1>8
<1>10. u = w
  BY <1>5, <1>6, <1>8, <1>9, SeqEqual
<1> QED BY <1>1, <1>2, <1>7, <1>10, TwoElements
-----------------------------------------------------------------------------
(* What the parser makes of the source: P relates lists of statements to   *)
(* the trees that they are lowered to.                                     *)
IsExpr(t, e) == e # 0 /\ t.op = "Oexpr" /\ t.e = e

LowersNull(sn, s, t) == t.op = "NULL" /\ s = <<>> /\ "hollow" \in sn
LowersExpr(s, t)     == \E e : IsExpr(t, e) /\ s = Evaluate(e)
LowersRet(s, t)      == /\ t.op = "Oret"
                        /\ \/ t.base = Null /\ s = ReturnOf(0)
                           \/ \E e : IsExpr(t.base, e) /\ t.base # Null /\ s = ReturnOf(e)
LowersBranch(P, s, t) ==
  \E e, a, b :
    /\ t.op = "Obranch" /\ IsExpr(t.cond, e)
    /\ s = IfOf(e, a, b)
    /\ IsList(a) /\ IsList(b)
    /\ <<a, t.t>> \in P
    /\ IF t.f = Null THEN b = <<>> ELSE <<b, t.f>> \in P
LowersWhile(P, sn, s, t) ==
  \E e, a :
    /\ t.op = "Owhile"
    /\ IsExpr(t.cond, e) \/ (t.cond = Zero /\ "for" \in sn)
    /\ s = WhileOf(e, a)
    /\ IsList(a)
    /\ <<a, t.t>> \in P
LowersDo(P, sn, s, t) ==
  \E e, a :
    /\ t.op = "Odowhile" /\ "do" \in sn
    /\ IsExpr(t.cond, e)
    /\ s = DoOf(e, a)
    /\ IsList(a)
    /\ <<a, t.t>> \in P
LowersSeq(P, s, t) ==
  \E ts :
    /\ t = Seq_(ts) /\ IsList(ts)
    /\ \/ ts = <<>> /\ s = <<>>
       \/ /\ ts # <<>>
          /\ \E x, y : /\ s = x \o y
                       /\ IsList(x) /\ IsList(y)
                       /\ <<x, Head(ts)>> \in P /\ <<y, Seq_(Tail(ts))>> \in P

Lowers(P, sn, s, t) ==
  /\ IsList(s)
  /\ \/ LowersNull(sn, s, t) \/ LowersExpr(s, t) \/ LowersRet(s, t)
     \/ LowersBranch(P, s, t) \/ LowersWhile(P, sn, s, t) \/ LowersDo(P, sn, s, t)
     \/ LowersSeq(P, s, t)

(* What a tree is made of is in P as well. *)
Lowering(P, sn) == \A s, t : <<s, t>> \in P => Lowers(P, sn, s, t)

(* What is lowered stays so as the parser reads on. *)
LEMMA LowersMore ==
  ASSUME NEW P, NEW Q, P \subseteq Q, NEW sn, NEW tn, sn \subseteq tn,
         NEW s, NEW t, Lowers(P, sn, s, t)
  PROVE  Lowers(Q, tn, s, t)
<1>1. CASE LowersNull(sn, s, t)
  BY <1>1 DEF Lowers, LowersNull
<1>2. CASE LowersExpr(s, t)
  BY <1>2 DEF Lowers
<1>3. CASE LowersRet(s, t)
  BY <1>3 DEF Lowers
<1>4. CASE LowersBranch(P, s, t)
  <2>1. LowersBranch(Q, s, t)
    BY <1>4 DEF LowersBranch
  <2> QED BY <2>1 DEF Lowers
<1>5. CASE LowersWhile(P, sn, s, t)
  <2>1. LowersWhile(Q, tn, s, t)
    BY <1>5 DEF LowersWhile
  <2> QED BY <2>1 DEF Lowers
<1>6. CASE LowersDo(P, sn, s, t)
  <2>1. LowersDo(Q, tn, s, t)
    BY <1>6 DEF LowersDo
  <2> QED BY <2>1 DEF Lowers
<1>7. CASE LowersSeq(P, s, t)
  <2>1. LowersSeq(Q, s, t)
    BY <1>7 DEF LowersSeq
  <2> QED BY <2>1 DEF Lowers
<1> QED BY <1>1, <1>2, <1>3, <1>4, <1>5, <1>6, <1>7 DEF Lowers

(* A relation with more seen. *)
LEMMA LoweringSeen ==
  ASSUME NEW P, NEW sn, NEW tn, sn \subseteq tn, Lowering(P, sn)
  PROVE  Lowering(P, tn)
BY LowersMore DEF Lowering

(* One more pair. *)
LEMMA LoweringAdds ==
  ASSUME NEW P, NEW sn, Lowering(P, sn), NEW s, NEW t, Lowers(P, sn, s, t)
  PROVE  \E Q : P \subseteq Q /\ <<s, t>> \in Q /\ Lowering(Q, sn)
<1>1. PICK Q : Q = P \cup {<<s, t>>}
  OBVIOUS
<1>2. P \subseteq Q /\ <<s, t>> \in Q
  BY <1>1
<1>3. ASSUME NEW u, NEW v, <<u, v>> \in Q
      PROVE  Lowers(P, sn, u, v)
  <2>1. CASE <<u, v>> \in P
    BY <2>1 DEF Lowering
  <2>2. CASE <<u, v>> = <<s, t>>
    BY <2>2
  <2> QED BY <1>1, <1>3, <2>1, <2>2
<1>4. \A u, v : <<u, v>> \in Q => Lowers(Q, sn, u, v)
  BY <1>2, <1>3, LowersMore
<1> QED BY <1>2, <1>4 DEF Lowering
(* A tree that is a sequence. *)
LEMMA SequenceLowered ==
  ASSUME NEW P, NEW sn, NEW s, NEW ts, Lowers(P, sn, s, Seq_(ts))
  PROVE  /\ IsList(s) /\ IsList(ts)
         /\ \/ ts = <<>> /\ s = <<>>
            \/ /\ ts # <<>>
               /\ \E x, y : /\ s = x \o y
                            /\ IsList(x) /\ IsList(y)
                            /\ <<x, Head(ts)>> \in P /\ <<y, Seq_(Tail(ts))>> \in P
<1>1. PICK t : t = Seq_(ts)
  OBVIOUS
<1>2. t.op = "Oseq" /\ t.stmts = ts
  BY <1>1 DEF Seq_
<1>3. LowersSeq(P, s, t) /\ IsList(s)
  BY <1>1, <1>2 DEF Lowers, LowersNull, LowersExpr, LowersRet, LowersBranch, LowersWhile,
    LowersDo, IsExpr
<1>4. \A us : t = Seq_(us) => us = ts
  BY <1>2 DEF Seq_
<1> QED BY <1>3, <1>4 DEF LowersSeq

(* The pairs of the sequences of P with a tree appended. *)
AppendedTo(P, s2, t2) ==
  {<<p[1] \o s2, Seq_(Append(p[2].stmts, t2))>> :
     p \in {q \in P : q = <<q[1], q[2]>> /\ q[2] = Seq_(q[2].stmts)}}

(* Every list before another, and its sequence with the tree appended, is  *)
(* in the relation that appending makes.                                   *)
LEMMA AppendedMembers ==
  ASSUME NEW P, NEW s2, NEW t2, NEW x, NEW us, <<x, Seq_(us)>> \in P
  PROVE  <<x \o s2, Seq_(Append(us, t2))>> \in AppendedTo(P, s2, t2)
<1>1. PICK t : t = Seq_(us)
  OBVIOUS
<1>2. t.stmts = us
  BY <1>1 DEF Seq_
<1>3. PICK p : p = <<x, t>>
  OBVIOUS
<1>4. p \in P /\ p[1] = x /\ p[2] = t /\ p = <<p[1], p[2]>> /\ p[2] = Seq_(p[2].stmts)
  BY <1>1, <1>2, <1>3
<1>5. <<p[1] \o s2, Seq_(Append(p[2].stmts, t2))>> \in AppendedTo(P, s2, t2)
  BY <1>4 DEF AppendedTo
<1> QED BY <1>2, <1>4, <1>5

(* A pair that appending makes. *)
IsAppended(P, s2, t2, u) ==
  \E x, us : <<x, Seq_(us)>> \in P /\ u = <<x \o s2, Seq_(Append(us, t2))>>

(* There is nothing else in it. *)
LEMMA AppendedOnly ==
  ASSUME NEW P, NEW s2, NEW t2, NEW u \in AppendedTo(P, s2, t2)
  PROVE  IsAppended(P, s2, t2, u)
BY DEF AppendedTo, IsAppended

(* The list with a statement after it is lowered to the sequence with its  *)
(* tree appended.                                                          *)
LEMMA AppendLowered ==
  ASSUME NEW P, NEW sn, Lowering(P, sn),
         NEW s1, NEW ts, <<s1, Seq_(ts)>> \in P,
         NEW s2, NEW t2, <<s2, t2>> \in P
  PROVE  \E Q : /\ P \subseteq Q /\ Lowering(Q, sn)
                /\ <<s1 \o s2, Seq_(Append(ts, t2))>> \in Q
<1> DEFINE A == AppendedTo(P, s2, t2)
<1>1. \A x, us : <<x, Seq_(us)>> \in P => <<x \o s2, Seq_(Append(us, t2))>> \in A
  BY AppendedMembers, ZenonT(40)
<1>2. ASSUME NEW u \in A
      PROVE  IsAppended(P, s2, t2, u)
  BY AppendedOnly
<1> HIDE DEF A
<1>3. PICK Q : Q = P \cup {<<<<>>, Seq_(<<>>)>>} \cup A
  OBVIOUS
<1>4. P \subseteq Q
  BY <1>3
<1>5. IsList(s2)
  BY DEF Lowering, Lowers
<1>6. ASSUME NEW x, NEW us, <<x, Seq_(us)>> \in P
      PROVE  Lowers(Q, sn, x \o s2, Seq_(Append(us, t2)))
  <2>1. Lowers(P, sn, x, Seq_(us))
    BY <1>6 DEF Lowering
  <2>2. /\ IsList(x) /\ IsList(us)
        /\ \/ us = <<>> /\ x = <<>>
           \/ /\ us # <<>>
              /\ \E v, y : /\ x = v \o y
                           /\ IsList(v) /\ IsList(y)
                           /\ <<v, Head(us)>> \in P /\ <<y, Seq_(Tail(us))>> \in P
    BY <2>1, SequenceLowered
  <2>3. Append(us, t2) = us \o <<t2>> /\ IsList(Append(us, t2))
    BY <2>2, AppendIsConcatenation
  <2>4. IsList(x \o s2)
    BY <1>5, <2>2, Concat
  <2>5. PICK ns : ns = Append(us, t2)
    OBVIOUS
  <2>6. ns # <<>> /\ \E v, y : /\ x \o s2 = v \o y
                               /\ IsList(v) /\ IsList(y)
                               /\ <<v, Head(ns)>> \in Q /\ <<y, Seq_(Tail(ns))>> \in Q
    <3>1. CASE us = <<>> /\ x = <<>>
      <4>1. ns = <<t2>>
        BY <2>5, <3>1
      <4>2. ns # <<>> /\ Head(ns) = t2 /\ Tail(ns) = <<>>
        BY <4>1
      <4>3. x \o s2 = s2 /\ s2 \o <<>> = s2
        BY <1>5, <3>1, Concat
      <4>4. <<s2, Head(ns)>> \in Q /\ <<<<>>, Seq_(Tail(ns))>> \in Q
        BY <1>3, <4>2
      <4> QED BY <1>5, <4>2, <4>3, <4>4, ListOfOne
    <3>2. CASE us # <<>>
      <4>1. PICK v, y : /\ x = v \o y
                        /\ IsList(v) /\ IsList(y)
                        /\ <<v, Head(us)>> \in P /\ <<y, Seq_(Tail(us))>> \in P
        BY <2>2, <3>2
      <4>2. us \o <<t2>> # <<>> /\ Head(us \o <<t2>>) = Head(us)
              /\ Tail(us \o <<t2>>) = Tail(us) \o <<t2>>
        BY <2>2, <3>2, HeadOfConcat, ListOfOne
      <4>3. Tail(us) \o <<t2>> = Append(Tail(us), t2)
        BY <2>2, <3>2, HeadAndTail, AppendIsConcatenation
      <4>4. ns # <<>> /\ Head(ns) = Head(us) /\ Tail(ns) = Append(Tail(us), t2)
        BY <2>3, <2>5, <4>2, <4>3
      <4>5. x \o s2 = v \o (y \o s2) /\ IsList(y \o s2)
        BY <1>5, <4>1, Associative, Concat
      <4>6. <<y \o s2, Seq_(Append(Tail(us), t2))>> \in A
        BY <1>1, <4>1
      <4>7. <<v, Head(ns)>> \in Q /\ <<y \o s2, Seq_(Tail(ns))>> \in Q
        BY <1>3, <4>1, <4>4, <4>6
      <4> QED BY <4>1, <4>4, <4>5, <4>7
    <3> QED BY <2>2, <3>1, <3>2
  <2>7. LowersSeq(Q, x \o s2, Seq_(ns))
    BY <2>3, <2>5, <2>6 DEF LowersSeq
  <2> QED BY <2>4, <2>5, <2>7 DEF Lowers
<1>7. Lowers(Q, sn, <<>>, Seq_(<<>>))
  <2>1. LowersSeq(Q, <<>>, Seq_(<<>>))
    BY ListOfOne DEF LowersSeq
  <2> QED BY <2>1, ListOfOne DEF Lowers
<1>8. ASSUME NEW s, NEW t, <<s, t>> \in Q
      PROVE  Lowers(Q, sn, s, t)
  <2>1. CASE <<s, t>> \in P
    <3>1. Lowers(P, sn, s, t)
      BY <2>1 DEF Lowering
    <3> QED BY <1>4, <3>1, LowersMore
  <2>2. CASE <<s, t>> = <<<<>>, Seq_(<<>>)>>
    BY <1>7, <2>2
  <2>3. CASE <<s, t>> \in A
    <3>1. PICK x, us : <<x, Seq_(us)>> \in P /\ <<s, t>> = <<x \o s2, Seq_(Append(us, t2))>>
      BY <1>2, <2>3 DEF IsAppended
    <3>2. s = x \o s2 /\ t = Seq_(Append(us, t2))
      BY <3>1
    <3> QED BY <1>6, <3>1, <3>2
  <2> QED BY <1>3, <1>8, <2>1, <2>2, <2>3
<1>9. <<s1 \o s2, Seq_(Append(ts, t2))>> \in Q
  BY <1>1, <1>3
<1> QED BY <1>4, <1>8, <1>9 DEF Lowering
-----------------------------------------------------------------------------
(* The blocks among the first k statements of the parser's stack. *)
Level(s, k) == Cardinality({i \in 1..k : s[i].op = "block"})

(* The blocks among the first frames are finitely many. *)
LEMMA LevelNumbers ==
  ASSUME NEW s, NEW k \in Nat
  PROVE  Level(s, k) \in Nat /\ IsFiniteSet({i \in 1..k : s[i].op = "block"})
<1>1. IsFiniteSet(1..k)
  BY FS_Interval
<1>2. {i \in 1..k : s[i].op = "block"} \subseteq 1..k
  OBVIOUS
<1>3. IsFiniteSet({i \in 1..k : s[i].op = "block"})
  BY <1>1, <1>2, FS_Subset
<1> QED BY <1>3, FS_CardinalityType DEF Level

(* One more statement. *)
LEMMA LevelStep ==
  ASSUME NEW s, NEW k \in Nat
  PROVE  Level(s, k + 1) = Level(s, k) + (IF s[k + 1].op = "block" THEN 1 ELSE 0)
<1>1. PICK S : S = {i \in 1..k : s[i].op = "block"}
  OBVIOUS
<1>5. IsFiniteSet({i \in 1..k : s[i].op = "block"})
  BY LevelNumbers
<1>6. Cardinality(S) = Level(s, k)
  BY <1>1 DEF Level
<1>7. k + 1 \notin S
  BY <1>1
<1>2. IsFiniteSet(S) /\ Cardinality(S) = Level(s, k) /\ k + 1 \notin S
  BY <1>1, <1>5, <1>6, <1>7
<1>3. CASE s[k + 1].op = "block"
  <2>1. {i \in 1..(k + 1) : s[i].op = "block"} = S \cup {k + 1}
    BY <1>1, <1>3
  <2>2. Cardinality(S \cup {k + 1}) = Cardinality(S) + 1
    BY <1>2, FS_AddElement
  <2>3. Level(s, k + 1) = Cardinality(S) + 1
    BY <2>1, <2>2 DEF Level
  <2> QED BY <1>2, <1>3, <2>3
<1>4. CASE s[k + 1].op # "block"
  <2>1. {i \in 1..(k + 1) : s[i].op = "block"} = S
    BY <1>1, <1>4
  <2>2. Level(s, k + 1) = Cardinality(S)
    BY <2>1 DEF Level
  <2>3. Level(s, k) \in Nat
    BY LevelNumbers
  <2> QED BY <1>2, <1>4, <2>2, <2>3
<1> QED BY <1>3, <1>4

(* It depends on what the statements are only. *)
LEMMA LevelSame ==
  ASSUME NEW s, NEW t, NEW k \in Nat,
         \A i \in 1..k : s[i].op = "block" <=> t[i].op = "block"
  PROVE  Level(s, k) = Level(t, k)
<1>1. {i \in 1..k : s[i].op = "block"} = {i \in 1..k : t[i].op = "block"}
  OBVIOUS
<1> QED BY <1>1 DEF Level

(* It grows with k, and is positive from a block on. *)
LEMMA LevelGrows ==
  ASSUME NEW s, NEW k \in Nat, NEW j \in 0..k
  PROVE  Level(s, j) <= Level(s, k)
<1>1. {i \in 1..j : s[i].op = "block"} \subseteq {i \in 1..k : s[i].op = "block"}
  OBVIOUS
<1>2. IsFiniteSet({i \in 1..k : s[i].op = "block"})
  BY LevelNumbers
<1> QED BY <1>1, <1>2, FS_Subset DEF Level

(* A block of the stack has a place of its own on bstack: that of the      *)
(* blocks up to it, one more than of those before it.                      *)
LEMMA LevelOfBlock ==
  ASSUME NEW s, NEW k \in Nat, NEW j \in 1..k, s[j].op = "block"
  PROVE  Level(s, j) \in 1..Level(s, k) /\ Level(s, j - 1) = Level(s, j) - 1
<1>1. j - 1 \in Nat /\ j \in Nat /\ (j - 1) + 1 = j /\ j \in 0..k
  OBVIOUS
<1>2. Level(s, j - 1) \in Nat /\ Level(s, j) \in Nat /\ Level(s, k) \in Nat
  BY <1>1, LevelNumbers
<1>3. Level(s, (j - 1) + 1) = Level(s, j - 1) + 1
  BY <1>1, LevelStep
<1>4. Level(s, j) <= Level(s, k)
  BY <1>1, LevelGrows
<1> QED BY <1>1, <1>2, <1>3, <1>4
-----------------------------------------------------------------------------
(* A list with an element pushed, with its last one replaced, or popped. *)
LEMMA Pushed ==
  ASSUME NEW s, IsList(s), NEW f
  PROVE  /\ IsList(Append(s, f)) /\ Len(s) \in Nat /\ Append(s, f) # <<>>
         /\ Len(Append(s, f)) = Len(s) + 1
         /\ \A i \in 1..Len(s) : Append(s, f)[i] = s[i]
         /\ Append(s, f)[Len(s) + 1] = f
<1>1. PICK A : s \in Seq(A)
  BY DEF IsList
<1>2. PICK S : S = A \cup {f}
  OBVIOUS
<1>3. s \in Seq(S) /\ f \in S
  BY <1>1, <1>2, SeqMonotonic
<1>4. Len(s) \in Nat
  BY <1>3, LenProperties
<1>5. IsList(Append(s, f))
  BY AppendIsConcatenation
<1>6. /\ Len(Append(s, f)) = Len(s) + 1
      /\ \A i \in 1..Len(s) : Append(s, f)[i] = s[i]
      /\ Append(s, f)[Len(s) + 1] = f
  BY <1>3, AppendProperties
<1>7. Append(s, f) # <<>>
  BY <1>4, <1>6
<1> QED BY <1>4, <1>5, <1>6, <1>7

(* A list with its last element replaced. *)
LEMMA Replacing ==
  ASSUME NEW s, IsList(s), s # <<>>, NEW f
  PROVE  /\ IsList([s EXCEPT ![Len(s)] = f]) /\ Len(s) \in Nat \ {0}
         /\ Len([s EXCEPT ![Len(s)] = f]) = Len(s)
         /\ \A i \in 1..Len(s) - 1 : [s EXCEPT ![Len(s)] = f][i] = s[i]
         /\ [s EXCEPT ![Len(s)] = f][Len(s)] = f
<1>1. PICK A : s \in Seq(A)
  BY DEF IsList
<1>2. PICK S : S = A \cup {f}
  OBVIOUS
<1>3. s \in Seq(S) /\ f \in S
  BY <1>1, <1>2, SeqMonotonic
<1>4. Len(s) \in Nat \ {0} /\ DOMAIN s = 1..Len(s)
  BY <1>3, LenProperties, EmptySeq
<1>5. PICK t : t = [s EXCEPT ![Len(s)] = f]
  OBVIOUS
<1>6. t \in Seq(S) /\ Len(t) = Len(s)
  BY <1>3, <1>4, <1>5, ExceptSeq
<1>7. /\ \A i \in 1..Len(s) : i # Len(s) => t[i] = s[i]
      /\ t[Len(s)] = f
  BY <1>4, <1>5
<1>8. ASSUME NEW i \in 1..Len(s) - 1
      PROVE  t[i] = s[i]
  <2>1. PICK n : n = Len(s)
    OBVIOUS
  <2>2. n \in Nat /\ i \in 1..n - 1
    BY <1>4, <2>1
  <2>3. i \in 1..n /\ i # n
    BY <2>2
  <2> QED BY <1>7, <2>1, <2>3
<1> QED BY <1>4, <1>5, <1>6, <1>7, <1>8 DEF IsList

IsReplaced(s, f, t) == t = [s EXCEPT ![Len(s)] = f]

(* The same of a list that is given a name. *)
LEMMA Replaced ==
  ASSUME NEW s, IsList(s), s # <<>>, NEW f, NEW t, IsReplaced(s, f, t)
  PROVE  /\ IsList(t) /\ Len(s) \in Nat \ {0} /\ Len(t) = Len(s) /\ t[Len(s)] = f
         /\ \A i \in 1..Len(s) - 1 : t[i] = s[i]
<1>1. /\ IsList([s EXCEPT ![Len(s)] = f]) /\ Len(s) \in Nat \ {0}
      /\ Len([s EXCEPT ![Len(s)] = f]) = Len(s)
      /\ \A i \in 1..Len(s) - 1 : [s EXCEPT ![Len(s)] = f][i] = s[i]
      /\ [s EXCEPT ![Len(s)] = f][Len(s)] = f
  BY Replacing
<1>2. t = [s EXCEPT ![Len(s)] = f]
  BY DEF IsReplaced
<1> QED BY <1>1, <1>2, Zenon

(* A list without its last element. *)
LEMMA Popped ==
  ASSUME NEW s, IsList(s), s # <<>>
  PROVE  /\ IsList(SubSeq(s, 1, Len(s) - 1)) /\ Len(s) \in Nat \ {0}
         /\ Len(SubSeq(s, 1, Len(s) - 1)) = Len(s) - 1
         /\ \A i \in 1..Len(s) - 1 : SubSeq(s, 1, Len(s) - 1)[i] = s[i]
<1>1. PICK S : s \in Seq(S)
  BY DEF IsList
<1>2. Len(s) \in Nat \ {0} /\ \A i \in 1..Len(s) : s[i] \in S
  BY <1>1, LenProperties, EmptySeq, ElementOfSeq
<1>3. PICK m \in Int : m = Len(s) - 1
  BY <1>2
<1>4. \A i \in 1..m : s[i] \in S
  BY <1>2, <1>3
<1>5. PICK t : t = SubSeq(s, 1, m)
  OBVIOUS
<1>6. /\ t \in Seq(S)
      /\ Len(t) = IF 1 <= m THEN m - 1 + 1 ELSE 0
      /\ \A i \in 1..m - 1 + 1 : t[i] = s[1 + i - 1]
  BY <1>4, <1>5, SubSeqProperties
<1>7. Len(t) = m
  BY <1>2, <1>3, <1>6
<1>8. \A i \in 1..m : t[i] = s[i]
  BY <1>3, <1>6
<1> QED BY <1>2, <1>3, <1>5, <1>6, <1>7, <1>8 DEF IsList
-----------------------------------------------------------------------------
(* The parser's stack st, bstack bl, and the statement d just reduced.     *)
IsFrame(fr) ==
  fr = [op |-> fr.op, i |-> fr.i, c |-> fr.c, n |-> fr.n, src |-> fr.src, tree |-> fr.tree]

(* Each block on the stack has its statements on bstack. *)
Shaped(st, bl, d) ==
  /\ IsList(st) /\ IsList(bl)
  /\ st # <<>> /\ st[1].op = "block"
  /\ Len(bl) = Level(st, Len(st))
  /\ \A k \in 1..Len(st) : IsFrame(st[k])
  /\ d.kind = "none" => d = None

(* What is on them is lowered, as far as it was read. *)
IntExpr(e) == Expr(e, "int")
LowersFrame(P, fr) ==
  /\ fr.op = "if" => fr.c # 0 /\ fr.tree = Branch("Obranch", IntExpr(fr.c))
  /\ fr.op = "while" => fr.c # 0 /\ fr.tree = Branch("Owhile", IntExpr(fr.c))
  /\ fr.op = "do" => fr.c # 0
  /\ fr.op = "for" => fr.tree = MakeFor(IntExpr(fr.i), IntExpr(fr.c), IntExpr(fr.n))
  /\ fr.op = "else" =>
       /\ fr.c # 0
       /\ \E t : /\ fr.tree = [op |-> "Obranch", cond |-> IntExpr(fr.c), t |-> t, f |-> Null]
                 /\ <<fr.src, t>> \in P

LowersBlock(P, st, bl, k) ==
  st[k].op = "block" => <<st[k].src, Seq_(bl[Level(st, k)])>> \in P

LowersDone(P, d) ==
  IF d.kind = "none" THEN TRUE
  ELSE IF d.kind = "empty" THEN d.src = <<>> /\ d.tree = Null
  ELSE <<d.src, d.tree>> \in P /\ d.tree # Null

LowersAll(P, st, bl, d) ==
  /\ \A k \in 1..Len(st) : LowersFrame(P, st[k]) /\ LowersBlock(P, st, bl, k)
  /\ LowersDone(P, d)

(* What the parser holds stays lowered as more is. *)
LEMMA LowersAllMore ==
  ASSUME NEW P, NEW Q, P \subseteq Q, NEW st, NEW bl, NEW d, LowersAll(P, st, bl, d)
  PROVE  LowersAll(Q, st, bl, d)
<1>1. ASSUME NEW k \in 1..Len(st)
      PROVE  LowersFrame(Q, st[k]) /\ LowersBlock(Q, st, bl, k)
  <2>1. LowersFrame(P, st[k]) /\ LowersBlock(P, st, bl, k)
    BY DEF LowersAll
  <2>2. LowersFrame(Q, st[k])
    BY <2>1 DEF LowersFrame
  <2>3. LowersBlock(Q, st, bl, k)
    BY <2>1 DEF LowersBlock
  <2> QED BY <2>2, <2>3
<1>2. LowersDone(Q, d)
  BY DEF LowersAll, LowersDone
<1> QED BY <1>1, <1>2 DEF LowersAll

(* A statement that is no block is pushed. *)
LEMMA PushShaped ==
  ASSUME NEW st, NEW bl, NEW d, Shaped(st, bl, d), NEW fr, IsFrame(fr), fr.op # "block",
         NEW s2, s2 = Append(st, fr)
  PROVE  /\ Shaped(s2, bl, d)
         /\ \A P : LowersAll(P, st, bl, d) /\ LowersFrame(P, fr) => LowersAll(P, s2, bl, d)
<1>1. /\ IsList(s2) /\ Len(st) \in Nat /\ s2 # <<>>
      /\ Len(s2) = Len(st) + 1
      /\ \A i \in 1..Len(st) : s2[i] = st[i]
      /\ s2[Len(st) + 1] = fr
  BY Pushed DEF Shaped
<1>2. Len(st) # 0
  BY EmptySeq DEF Shaped, IsList
<1>3. ASSUME NEW k \in 0..Len(st)
      PROVE  Level(s2, k) = Level(st, k)
  <2>1. k \in Nat
    BY <1>1
  <2>2. \A i \in 1..k : s2[i].op = "block" <=> st[i].op = "block"
    BY <1>1
  <2> QED BY <2>1, <2>2, LevelSame
<1>4. Level(s2, Len(s2)) = Level(st, Len(st))
  <2>1. Level(s2, Len(st) + 1) = Level(s2, Len(st)) + (IF s2[Len(st) + 1].op = "block" THEN 1 ELSE 0)
    BY <1>1, LevelStep
  <2>2. Level(s2, Len(st)) = Level(st, Len(st))
    BY <1>1, <1>3
  <2>3. Level(st, Len(st)) \in Nat
    BY <1>1, LevelNumbers
  <2> QED BY <1>1, <2>1, <2>2, <2>3
<1>5. \A k \in 1..Len(s2) : IsFrame(s2[k])
  BY <1>1 DEF Shaped
<1>6. s2[1] = st[1]
  BY <1>1, <1>2
<1>7. Shaped(s2, bl, d)
  BY <1>1, <1>4, <1>5, <1>6 DEF Shaped
<1>8. ASSUME NEW P, LowersAll(P, st, bl, d), LowersFrame(P, fr)
      PROVE  LowersAll(P, s2, bl, d)
  <2>1. ASSUME NEW k \in 1..Len(st)
        PROVE  LowersFrame(P, s2[k]) /\ LowersBlock(P, s2, bl, k)
    <3>1. s2[k] = st[k] /\ Level(s2, k) = Level(st, k)
      BY <1>1, <1>3
    <3>2. LowersFrame(P, st[k]) /\ LowersBlock(P, st, bl, k)
      BY <1>8 DEF LowersAll
    <3> QED BY <3>1, <3>2 DEF LowersBlock
  <2>2. LowersFrame(P, s2[Len(st) + 1]) /\ LowersBlock(P, s2, bl, Len(st) + 1)
    BY <1>1, <1>8 DEF LowersBlock
  <2>3. \A k \in 1..Len(s2) : k \in 1..Len(st) \/ k = Len(st) + 1
    BY <1>1
  <2> QED BY <1>8, <2>1, <2>2, <2>3 DEF LowersAll
<1> QED BY <1>7, <1>8

(* A block is opened. *)
LEMMA OpenShaped ==
  ASSUME NEW st, NEW bl, NEW d, Shaped(st, bl, d),
         NEW fr, IsFrame(fr), fr.op = "block", fr.src = <<>>,
         NEW s2, s2 = Append(st, fr), NEW b2, b2 = Append(bl, <<>>)
  PROVE  /\ Shaped(s2, b2, d)
         /\ \A P : LowersAll(P, st, bl, d) /\ <<<<>>, Seq_(<<>>)>> \in P => LowersAll(P, s2, b2, d)
<1>1. /\ IsList(s2) /\ Len(st) \in Nat /\ s2 # <<>>
      /\ Len(s2) = Len(st) + 1
      /\ \A i \in 1..Len(st) : s2[i] = st[i]
      /\ s2[Len(st) + 1] = fr
  BY Pushed DEF Shaped
<1>2. Len(st) # 0
  BY EmptySeq DEF Shaped, IsList
<1>3. ASSUME NEW k \in 0..Len(st)
      PROVE  Level(s2, k) = Level(st, k)
  <2>1. k \in Nat
    BY <1>1
  <2>2. \A i \in 1..k : s2[i].op = "block" <=> st[i].op = "block"
    BY <1>1
  <2> QED BY <2>1, <2>2, LevelSame
<1>4. /\ IsList(b2) /\ Len(bl) \in Nat
      /\ Len(b2) = Len(bl) + 1
      /\ \A i \in 1..Len(bl) : b2[i] = bl[i]
      /\ b2[Len(bl) + 1] = <<>>
  BY Pushed DEF Shaped
<1>5. Level(s2, Len(st) + 1) = Len(bl) + 1
  <2>1. Level(s2, Len(st) + 1) = Level(s2, Len(st)) + (IF s2[Len(st) + 1].op = "block" THEN 1 ELSE 0)
    BY <1>1, LevelStep
  <2>2. Level(s2, Len(st)) = Len(bl)
    BY <1>1, <1>3 DEF Shaped
  <2> QED BY <1>1, <1>4, <2>1, <2>2
<1>6. \A k \in 1..Len(s2) : IsFrame(s2[k])
  BY <1>1 DEF Shaped
<1>7. s2[1] = st[1]
  BY <1>1, <1>2
<1>8. Shaped(s2, b2, d)
  BY <1>1, <1>4, <1>5, <1>6, <1>7 DEF Shaped
<1>9. ASSUME NEW P, LowersAll(P, st, bl, d), <<<<>>, Seq_(<<>>)>> \in P
      PROVE  LowersAll(P, s2, b2, d)
  <2>1. ASSUME NEW k \in 1..Len(st)
        PROVE  LowersFrame(P, s2[k]) /\ LowersBlock(P, s2, b2, k)
    <3>1. s2[k] = st[k] /\ Level(s2, k) = Level(st, k)
      BY <1>1, <1>3
    <3>2. LowersFrame(P, st[k]) /\ LowersBlock(P, st, bl, k)
      BY <1>9 DEF LowersAll
    <3>3. ASSUME st[k].op = "block"
          PROVE  b2[Level(st, k)] = bl[Level(st, k)]
      <4>1. Level(st, k) \in 1..Level(st, Len(st))
        BY <1>1, <3>3, LevelOfBlock
      <4> QED BY <1>4, <4>1 DEF Shaped
    <3> QED BY <3>1, <3>2, <3>3 DEF LowersBlock
  <2>2. LowersFrame(P, s2[Len(st) + 1]) /\ LowersBlock(P, s2, b2, Len(st) + 1)
    BY <1>1, <1>4, <1>5, <1>9 DEF LowersBlock, LowersFrame
  <2>3. \A k \in 1..Len(s2) : k \in 1..Len(st) \/ k = Len(st) + 1
    BY <1>1
  <2> QED BY <1>9, <2>1, <2>2, <2>3 DEF LowersAll
<1> QED BY <1>8, <1>9

(* The statement on top, no block, is popped, and another one reduced. *)
IsPopped(s, t) == t = SubSeq(s, 1, Len(s) - 1)

(* A stack without its top frame: the blocks below are as they were. *)
LEMMA PopFacts ==
  ASSUME NEW st, IsList(st), st # <<>>, NEW s2, IsPopped(st, s2)
  PROVE  /\ IsList(s2) /\ Len(st) \in Nat \ {0}
         /\ Len(s2) = Len(st) - 1
         /\ \A i \in 1..Len(st) - 1 : s2[i] = st[i]
         /\ \A k \in 0..Len(st) - 1 : Level(s2, k) = Level(st, k)
<1>1. /\ IsList(s2) /\ Len(st) \in Nat \ {0}
      /\ Len(s2) = Len(st) - 1
      /\ \A i \in 1..Len(st) - 1 : s2[i] = st[i]
  BY Popped DEF IsPopped
<1>2. ASSUME NEW k \in 0..Len(st) - 1
      PROVE  Level(s2, k) = Level(st, k)
  <2>1. k \in Nat
    BY <1>1
  <2>2. \A i \in 1..k : s2[i].op = "block" <=> st[i].op = "block"
    BY <1>1
  <2> QED BY <2>1, <2>2, LevelSame
<1> QED BY <1>1, <1>2

(* When a statement that is no block is popped, the stacks keep their      *)
(* shape.                                                                  *)
LEMMA PopShaped ==
  ASSUME NEW st, NEW bl, NEW d, Shaped(st, bl, d), st[Len(st)].op # "block",
         NEW s2, IsPopped(st, s2), NEW d2, d2.kind # "none"
  PROVE  Shaped(s2, bl, d2)
<1>1. /\ IsList(s2) /\ Len(st) \in Nat \ {0}
      /\ Len(s2) = Len(st) - 1
      /\ \A i \in 1..Len(st) - 1 : s2[i] = st[i]
      /\ \A k \in 0..Len(st) - 1 : Level(s2, k) = Level(st, k)
  BY PopFacts DEF Shaped
<1>2. Len(st) # 1 /\ s2 # <<>>
  <2>1. st[1].op = "block"
    BY DEF Shaped
  <2>2. Len(st) # 1
    BY <2>1
  <2>3. Len(s2) # 0
    BY <1>1, <2>2
  <2>4. s2 # <<>>
    BY <2>3
  <2> QED BY <2>2, <2>4
<1>3. Level(s2, Len(s2)) = Level(st, Len(st))
  <2>1. Len(st) - 1 \in Nat /\ (Len(st) - 1) + 1 = Len(st)
    BY <1>1
  <2>2. Level(st, (Len(st) - 1) + 1)
          = Level(st, Len(st) - 1) + (IF st[(Len(st) - 1) + 1].op = "block" THEN 1 ELSE 0)
    BY <2>1, LevelStep
  <2>3. Level(s2, Len(st) - 1) = Level(st, Len(st) - 1)
    BY <1>1, <2>1
  <2>4. Level(st, Len(st) - 1) \in Nat
    BY <2>1, LevelNumbers
  <2> QED BY <1>1, <2>1, <2>2, <2>3, <2>4
<1>4. \A k \in 1..Len(s2) : IsFrame(s2[k])
  BY <1>1 DEF Shaped
<1>5. s2[1] = st[1]
  BY <1>1, <1>2
<1> QED BY <1>1, <1>2, <1>3, <1>4, <1>5 DEF Shaped

(* What the parser holds is still lowered after it, if what was reduced    *)
(* is.                                                                     *)
LEMMA PopLowered ==
  ASSUME NEW st, NEW bl, NEW d, Shaped(st, bl, d), st[Len(st)].op # "block",
         NEW s2, IsPopped(st, s2), NEW d2, d2.kind # "none",
         NEW P, LowersAll(P, st, bl, d), LowersDone(P, d2)
  PROVE  LowersAll(P, s2, bl, d2)
<1>1. /\ Len(st) \in Nat \ {0} /\ Len(s2) = Len(st) - 1
      /\ \A i \in 1..Len(st) - 1 : s2[i] = st[i]
      /\ \A k \in 0..Len(st) - 1 : Level(s2, k) = Level(st, k)
  BY PopFacts DEF Shaped
<1>2. ASSUME NEW k \in 1..Len(s2)
      PROVE  LowersFrame(P, s2[k]) /\ LowersBlock(P, s2, bl, k)
  <2>1. s2[k] = st[k] /\ Level(s2, k) = Level(st, k) /\ k \in 1..Len(st)
    BY <1>1
  <2>2. LowersFrame(P, st[k]) /\ LowersBlock(P, st, bl, k)
    BY <2>1 DEF LowersAll
  <2> QED BY <2>1, <2>2 DEF LowersBlock
<1> QED BY <1>2 DEF LowersAll

(* The statement on top is replaced, and if it is a block, its statements. *)
LEMMA ReplaceFacts ==
  ASSUME NEW st, IsList(st), st # <<>>, NEW fr, fr.op = "block" <=> st[Len(st)].op = "block",
         NEW s2, IsList(s2), Len(s2) = Len(st), s2[Len(st)] = fr,
         \A i \in 1..Len(st) - 1 : s2[i] = st[i]
  PROVE  /\ Len(st) \in Nat \ {0} /\ s2 # <<>>
         /\ \A i \in 1..Len(st) : i # Len(st) => s2[i] = st[i]
         /\ \A i \in 1..Len(st) : s2[i].op = "block" <=> st[i].op = "block"
         /\ \A k \in 0..Len(st) : Level(s2, k) = Level(st, k)
<1>1. Len(st) \in Nat \ {0}
  BY HeadAndTail
<1>2. s2 # <<>>
  BY <1>1
<1>3. \A i \in 1..Len(st) : i # Len(st) => s2[i] = st[i]
  BY <1>1
<1>4. \A i \in 1..Len(st) : s2[i].op = "block" <=> st[i].op = "block"
  BY <1>3
<1>5. ASSUME NEW k \in 0..Len(st)
      PROVE  Level(s2, k) = Level(st, k)
  <2>1. k \in Nat
    BY <1>1
  <2>2. \A i \in 1..k : s2[i].op = "block" <=> st[i].op = "block"
    BY <1>1, <1>4
  <2> QED BY <2>1, <2>2, LevelSame
<1> QED BY <1>1, <1>2, <1>3, <1>4, <1>5

(* When the top frame changes, with the block on top of bstack if it is a  *)
(* block, the stacks keep their shape.                                     *)
LEMMA ReplaceShaped ==
  ASSUME NEW st, NEW bl, NEW d, Shaped(st, bl, d),
         NEW fr, IsFrame(fr), fr.op = "block" <=> st[Len(st)].op = "block",
         NEW s2, IsList(s2), Len(s2) = Len(st), s2[Len(st)] = fr,
         \A i \in 1..Len(st) - 1 : s2[i] = st[i],
         NEW b2, IsList(b2), Len(b2) = Len(bl), \A i \in 1..Len(bl) - 1 : b2[i] = bl[i],
         fr.op # "block" => b2 = bl
  PROVE  Shaped(s2, b2, None)
<1>1. /\ Len(st) \in Nat \ {0} /\ s2 # <<>>
      /\ \A i \in 1..Len(st) : i # Len(st) => s2[i] = st[i]
      /\ \A i \in 1..Len(st) : s2[i].op = "block" <=> st[i].op = "block"
      /\ \A k \in 0..Len(st) : Level(s2, k) = Level(st, k)
  BY ReplaceFacts DEF Shaped
<1>2. Level(s2, Len(s2)) = Len(b2)
  BY <1>1 DEF Shaped
<1>3. \A k \in 1..Len(s2) : IsFrame(s2[k])
  BY <1>1 DEF Shaped
<1>4. s2[1].op = "block"
  <2>1. st[1].op = "block" /\ 1 \in 1..Len(st)
    BY <1>1 DEF Shaped
  <2> QED BY <1>1, <2>1
<1> QED BY <1>1, <1>2, <1>3, <1>4 DEF Shaped

(* What the parser holds is still lowered after it, if the frame is and    *)
(* the block on top of bstack.                                             *)
LEMMA ReplaceLowered ==
  ASSUME NEW st, NEW bl, NEW d, Shaped(st, bl, d),
         NEW fr, IsFrame(fr), fr.op = "block" <=> st[Len(st)].op = "block",
         NEW s2, IsList(s2), Len(s2) = Len(st), s2[Len(st)] = fr,
         \A i \in 1..Len(st) - 1 : s2[i] = st[i],
         NEW b2, IsList(b2), Len(b2) = Len(bl), \A i \in 1..Len(bl) - 1 : b2[i] = bl[i],
         fr.op # "block" => b2 = bl,
         NEW P, LowersAll(P, st, bl, d), LowersFrame(P, fr),
         fr.op = "block" => <<fr.src, Seq_(b2[Len(bl)])>> \in P
  PROVE  LowersAll(P, s2, b2, None)
<1>1. /\ Len(st) \in Nat \ {0}
      /\ \A i \in 1..Len(st) : i # Len(st) => s2[i] = st[i]
      /\ \A k \in 0..Len(st) : Level(s2, k) = Level(st, k)
  BY ReplaceFacts DEF Shaped
<1>2. ASSUME NEW k \in 1..Len(st), k # Len(st)
      PROVE  LowersFrame(P, s2[k]) /\ LowersBlock(P, s2, b2, k)
  <2>1. s2[k] = st[k] /\ Level(s2, k) = Level(st, k)
    BY <1>1, <1>2
  <2>2. LowersFrame(P, st[k]) /\ LowersBlock(P, st, bl, k)
    BY DEF LowersAll
  <2>3. ASSUME st[k].op = "block"
        PROVE  b2[Level(st, k)] = bl[Level(st, k)]
    <3>1. Level(st, k) \in 1..Level(st, Len(st))
      BY <1>1, <2>3, LevelOfBlock
    <3>2. Level(st, Len(st)) = Len(bl) /\ Level(st, Len(st)) \in Nat
      BY <1>1, LevelNumbers DEF Shaped
    <3>3. CASE st[Len(st)].op = "block"
      <4>1. Level(st, Len(st) - 1) = Level(st, Len(st)) - 1
        BY <1>1, <3>3, LevelOfBlock
      <4>2. k \in 0..(Len(st) - 1) /\ Len(st) - 1 \in Nat
        BY <1>1, <1>2
      <4>3. Level(st, k) <= Level(st, Len(st) - 1)
        BY <4>2, LevelGrows
      <4> QED BY <3>1, <3>2, <4>1, <4>3
    <3>4. CASE st[Len(st)].op # "block"
      BY <3>4
    <3> QED BY <3>3, <3>4
  <2> QED BY <2>1, <2>2, <2>3 DEF LowersBlock
<1>3. LowersFrame(P, s2[Len(st)]) /\ LowersBlock(P, s2, b2, Len(st))
  <2>1. Level(s2, Len(st)) = Len(bl)
    BY <1>1 DEF Shaped
  <2> QED BY <1>1, <2>1 DEF LowersBlock
<1>4. \A k \in 1..Len(s2) : LowersFrame(P, s2[k]) /\ LowersBlock(P, s2, b2, k)
  BY <1>1, <1>2, <1>3
<1>5. LowersDone(P, None)
  BY DEF LowersDone, None, Reduced
<1> QED BY <1>4, <1>5 DEF LowersAll

(* The block on top is popped, and is the statement just reduced. *)
LEMMA CloseShaped ==
  ASSUME NEW st, NEW bl, NEW d, Shaped(st, bl, d), st[Len(st)].op = "block", Len(st) > 1,
         NEW s2, IsPopped(st, s2), NEW b2, IsPopped(bl, b2),
         NEW d2, d2.kind = "closed", d2.src = st[Len(st)].src, d2.tree = Seq_(bl[Len(bl)])
  PROVE  /\ Shaped(s2, b2, d2)
         /\ \A P : LowersAll(P, st, bl, d) => LowersAll(P, s2, b2, d2)
<1>1. /\ IsList(s2) /\ Len(st) \in Nat \ {0}
      /\ Len(s2) = Len(st) - 1
      /\ \A i \in 1..Len(st) - 1 : s2[i] = st[i]
  BY Popped DEF Shaped, IsPopped
<1>2. s2 # <<>>
  <2>1. Len(s2) # 0
    BY <1>1
  <2> QED BY <2>1
<1>3. ASSUME NEW k \in 0..Len(st) - 1
      PROVE  Level(s2, k) = Level(st, k)
  <2>1. k \in Nat
    BY <1>1
  <2>2. \A i \in 1..k : s2[i].op = "block" <=> st[i].op = "block"
    BY <1>1
  <2> QED BY <2>1, <2>2, LevelSame
<1>4. /\ Level(st, Len(st)) \in 1..Level(st, Len(st))
      /\ Level(st, Len(st) - 1) = Level(st, Len(st)) - 1
  BY <1>1, LevelOfBlock
<1>5. Len(bl) = Level(st, Len(st)) /\ IsList(bl)
  BY DEF Shaped
<1>6. Len(bl) \in Nat \ {0} /\ bl # <<>>
  <2>1. Level(st, Len(st)) \in Nat
    BY <1>1, LevelNumbers
  <2>2. Len(bl) \in Nat \ {0}
    BY <1>4, <1>5, <2>1
  <2>3. bl # <<>>
    BY <2>2
  <2> QED BY <2>2, <2>3
<1>7. /\ IsList(b2) /\ Len(b2) = Len(bl) - 1
      /\ \A i \in 1..Len(bl) - 1 : b2[i] = bl[i]
  BY <1>5, <1>6, Popped DEF IsPopped
<1>8. Level(s2, Len(s2)) = Len(b2)
  <2>1. Level(s2, Len(st) - 1) = Level(st, Len(st) - 1)
    BY <1>1, <1>3
  <2> QED BY <1>1, <1>4, <1>5, <1>7, <2>1
<1>9. Shaped(s2, b2, d2)
  <2>1. \A k \in 1..Len(s2) : IsFrame(s2[k])
    BY <1>1 DEF Shaped
  <2>2. s2[1].op = "block"
    BY <1>1 DEF Shaped
  <2> QED BY <1>1, <1>2, <1>7, <1>8, <2>1, <2>2 DEF Shaped
<1>10. ASSUME NEW P, LowersAll(P, st, bl, d)
       PROVE  LowersAll(P, s2, b2, d2)
  <2>1. ASSUME NEW k \in 1..Len(s2)
        PROVE  LowersFrame(P, s2[k]) /\ LowersBlock(P, s2, b2, k)
    <3>1. s2[k] = st[k] /\ Level(s2, k) = Level(st, k) /\ k \in 1..Len(st) /\ k \in 1..Len(st) - 1
      BY <1>1, <1>3
    <3>2. LowersFrame(P, st[k]) /\ LowersBlock(P, st, bl, k)
      BY <1>10, <3>1 DEF LowersAll
    <3>3. ASSUME st[k].op = "block"
          PROVE  b2[Level(st, k)] = bl[Level(st, k)]
      <4>1. Level(st, k) \in 1..Level(st, Len(st) - 1)
        BY <1>1, <3>1, <3>3, LevelOfBlock
      <4> QED BY <1>4, <1>5, <1>6, <1>7, <4>1
    <3> QED BY <3>1, <3>2, <3>3 DEF LowersBlock
  <2>2. <<d2.src, d2.tree>> \in P
    <3>1. LowersBlock(P, st, bl, Len(st))
      BY <1>1, <1>10 DEF LowersAll
    <3> QED BY <1>5, <3>1 DEF LowersBlock
  <2>3. LowersDone(P, d2)
    BY <2>2 DEF LowersDone, Seq_, Null
  <2> QED BY <2>1, <2>3 DEF LowersAll
<1> QED BY <1>9, <1>10
-----------------------------------------------------------------------------
(* The statement just reduced, as the body of another one. *)
LEMMA BodyLowered ==
  ASSUME NEW P, NEW sn, NEW tn, Lowering(P, sn), sn \subseteq tn,
         NEW d, LowersDone(P, d), d.kind # "none", d.kind = "empty" => "hollow" \in tn
  PROVE  \E Q : P \subseteq Q /\ Lowering(Q, tn) /\ <<d.src, d.tree>> \in Q
<1>1. Lowering(P, tn)
  BY LoweringSeen
<1>2. CASE d.kind # "empty"
  BY <1>1, <1>2 DEF LowersDone
<1>3. CASE d.kind = "empty"
  <2>1. d.src = <<>> /\ d.tree = Null
    BY <1>3 DEF LowersDone
  <2>2. LowersNull(tn, <<>>, Null)
    BY <1>3 DEF LowersNull, Null
  <2>3. Lowers(P, tn, d.src, d.tree)
    BY <2>1, <2>2, ListOfOne DEF Lowers
  <2> QED BY <1>1, <2>3, LoweringAdds
<1> QED BY <1>2, <1>3

(* An expression. *)
LEMMA ExpressionLowered ==
  ASSUME NEW P, NEW sn, Lowering(P, sn), NEW e, e # 0, NEW ty
  PROVE  /\ \E Q : P \subseteq Q /\ Lowering(Q, sn) /\ <<Evaluate(e), Expr(e, ty)>> \in Q
         /\ Expr(e, ty) # Null /\ IsExpr(Expr(e, ty), e)
<1>1. PICK t : t = Expr(e, ty)
  OBVIOUS
<1>2. t # Null /\ IsExpr(t, e)
  BY <1>1 DEF Expr, Null, IsExpr
<1>3. LowersExpr(Evaluate(e), t) /\ IsList(Evaluate(e))
  BY <1>2, ListOfOne DEF LowersExpr, Evaluate
<1>4. Lowers(P, sn, Evaluate(e), t)
  BY <1>3 DEF Lowers
<1>5. \E Q : P \subseteq Q /\ <<Evaluate(e), t>> \in Q /\ Lowering(Q, sn)
  BY <1>4, LoweringAdds
<1> QED BY <1>1, <1>2, <1>5

(* A return. *)
LEMMA ReturnLowered ==
  ASSUME NEW P, NEW sn, Lowering(P, sn), NEW e, NEW ty
  PROVE  /\ \E Q : P \subseteq Q /\ Lowering(Q, sn) /\ <<ReturnOf(e), Ret(Expr(e, ty))>> \in Q
         /\ Ret(Expr(e, ty)) # Null
<1>1. PICK b : b = Expr(e, ty)
  OBVIOUS
<1>2. PICK t : t = Ret(b)
  OBVIOUS
<1>3. t.op = "Oret" /\ t.base = b
  BY <1>2 DEF Ret
<1>4. LowersRet(ReturnOf(e), t)
  <2>1. CASE e = 0
    <3>1. b = Null
      BY <1>1, <2>1 DEF Expr
    <3> QED BY <1>3, <2>1, <3>1 DEF LowersRet
  <2>2. CASE e # 0
    <3>1. IsExpr(b, e) /\ b # Null
      BY <1>1, <2>2, ExpressionLowered
    <3> QED BY <1>3, <3>1 DEF LowersRet
  <2> QED BY <2>1, <2>2
<1>5. IsList(ReturnOf(e))
  BY ListOfOne DEF ReturnOf
<1>6. Lowers(P, sn, ReturnOf(e), t)
  BY <1>4, <1>5 DEF Lowers
<1>7. \E Q : P \subseteq Q /\ <<ReturnOf(e), t>> \in Q /\ Lowering(Q, sn)
  BY <1>6, LoweringAdds
<1>8. t # Null
  BY <1>3 DEF Null
<1> QED BY <1>1, <1>2, <1>7, <1>8

(* The trees of branches and loops, with their bodies. *)
LEMMA BodyOfBranch ==
  ASSUME NEW op, op # "Oexpr", NEW c, NEW t, NEW f, NEW g, NEW tree,
         tree = [op |-> op, cond |-> c, t |-> f, f |-> g]
  PROVE  /\ Then(tree, t) = [op |-> op, cond |-> c, t |-> t, f |-> g]
         /\ Else(tree, t) = [op |-> op, cond |-> c, t |-> f, f |-> t]
BY DEF Then, Else

(* An if with what its branches were lowered to is lowered. *)
LEMMA IfLowered ==
  ASSUME NEW P, NEW sn, Lowering(P, sn), NEW c, c # 0,
         NEW s, NEW t, <<s, t>> \in P, NEW b, NEW f,
         IF f = Null THEN b = <<>> ELSE <<b, f>> \in P,
         NEW tree, tree = [op |-> "Obranch", cond |-> IntExpr(c), t |-> t, f |-> f]
  PROVE  tree # Null /\ \E Q : P \subseteq Q /\ Lowering(Q, sn) /\ <<IfOf(c, s, b), tree>> \in Q
<1>1. tree.op = "Obranch" /\ tree.cond = IntExpr(c) /\ tree.t = t /\ tree.f = f
  OBVIOUS
<1>2. IsExpr(tree.cond, c)
  BY <1>1, ExpressionLowered DEF IntExpr
<1>3. IsList(s) /\ IsList(b)
  BY ListOfOne DEF Lowering, Lowers
<1>4. LowersBranch(P, IfOf(c, s, b), tree)
  BY <1>1, <1>2, <1>3 DEF LowersBranch
<1>5. Lowers(P, sn, IfOf(c, s, b), tree)
  BY <1>4, ListOfOne DEF Lowers, IfOf
<1>6. tree # Null
  BY <1>1 DEF Null
<1> QED BY <1>5, <1>6, LoweringAdds

(* A while is, also one whose condition is the constant of a for without   *)
(* one.                                                                    *)
LEMMA LoopLowered ==
  ASSUME NEW P, NEW sn, Lowering(P, sn), NEW c,
         NEW s, NEW t, <<s, t>> \in P, NEW cond, IsExpr(cond, c) \/ (cond = Zero /\ "for" \in sn),
         NEW tree, tree = [op |-> "Owhile", cond |-> cond, t |-> t, f |-> Null]
  PROVE  tree # Null /\ \E Q : P \subseteq Q /\ Lowering(Q, sn) /\ <<WhileOf(c, s), tree>> \in Q
<1>1. tree.op = "Owhile" /\ tree.cond = cond /\ tree.t = t
  OBVIOUS
<1>2. IsList(s)
  BY DEF Lowering, Lowers
<1>3. LowersWhile(P, sn, WhileOf(c, s), tree)
  BY <1>1, <1>2 DEF LowersWhile
<1>4. Lowers(P, sn, WhileOf(c, s), tree)
  BY <1>3, ListOfOne DEF Lowers, WhileOf
<1>5. tree # Null
  BY <1>1 DEF Null
<1> QED BY <1>4, <1>5, LoweringAdds

(* A do is: its body, then a while of it. *)
LEMMA DoLowered ==
  ASSUME NEW P, NEW sn, Lowering(P, sn), "do" \in sn, NEW c, c # 0,
         NEW s, NEW t, <<s, t>> \in P,
         NEW tree, tree = [op |-> "Odowhile", cond |-> IntExpr(c), t |-> t, f |-> Null]
  PROVE  tree # Null /\ \E Q : P \subseteq Q /\ Lowering(Q, sn) /\ <<DoOf(c, s), tree>> \in Q
<1>1. tree.op = "Odowhile" /\ tree.cond = IntExpr(c) /\ tree.t = t
  OBVIOUS
<1>2. IsExpr(tree.cond, c)
  BY <1>1, ExpressionLowered DEF IntExpr
<1>3. IsList(s)
  BY DEF Lowering, Lowers
<1>4. LowersDo(P, sn, DoOf(c, s), tree)
  BY <1>1, <1>2, <1>3 DEF LowersDo
<1>5. IsList(DoOf(c, s))
  BY <1>3, ListOfOne, Concat DEF DoOf, WhileOf
<1>6. Lowers(P, sn, DoOf(c, s), tree)
  BY <1>4, <1>5 DEF Lowers
<1>7. tree # Null
  BY <1>1 DEF Null
<1> QED BY <1>6, <1>7, LoweringAdds
(* Two statements in a sequence. *)
LEMMA PairLowered ==
  ASSUME NEW P, NEW sn, Lowering(P, sn),
         NEW s1, NEW t1, <<s1, t1>> \in P, NEW s2, NEW t2, <<s2, t2>> \in P
  PROVE  \E Q : P \subseteq Q /\ Lowering(Q, sn) /\ <<s1 \o s2, Seq_(<<t1, t2>>)>> \in Q
<1>1. Lowers(P, sn, <<>>, Seq_(<<>>))
  <2>1. LowersSeq(P, <<>>, Seq_(<<>>))
    BY ListOfOne DEF LowersSeq
  <2> QED BY <2>1, ListOfOne DEF Lowers
<1>2. PICK A : P \subseteq A /\ <<<<>>, Seq_(<<>>)>> \in A /\ Lowering(A, sn)
  BY <1>1, LoweringAdds
<1>3. PICK z, zs : z = <<>> /\ zs = <<>>
  OBVIOUS
<1>4. PICK B : A \subseteq B /\ Lowering(B, sn) /\ <<<<>> \o s1, Seq_(Append(<<>>, t1))>> \in B
  <2>1. <<z, Seq_(zs)>> \in A /\ <<s1, t1>> \in A
    BY <1>2, <1>3
  <2>2. Lowering(A, sn)
    BY <1>2
  <2>3. \E B : A \subseteq B /\ Lowering(B, sn) /\ <<z \o s1, Seq_(Append(zs, t1))>> \in B
    BY <2>1, <2>2, AppendLowered
  <2> QED BY <1>3, <2>3
<1>5. Append(<<>>, t1) = <<t1>> /\ Append(<<t1>>, t2) = <<t1, t2>>
  <2>1. Append(<<>>, t1) = <<t1>>
    OBVIOUS
  <2> QED BY <2>1, TwoElements
<1>6. <<>> \o s1 = s1
  <2>1. IsList(s1)
    BY DEF Lowering, Lowers
  <2> QED BY <2>1, ListOfOne, Concat
<1>7. <<s1, Seq_(<<t1>>)>> \in B /\ <<s2, t2>> \in B
  BY <1>2, <1>4, <1>5, <1>6
<1>8. PICK Q : B \subseteq Q /\ Lowering(Q, sn) /\ <<s1 \o s2, Seq_(Append(<<t1>>, t2))>> \in Q
  BY <1>4, <1>7, AppendLowered
<1>9. P \subseteq Q
  BY <1>2, <1>4, <1>8
<1>10. <<s1 \o s2, Seq_(<<t1, t2>>)>> \in Q
  BY <1>5, <1>8
<1> QED BY <1>8, <1>9, <1>10

(* What make_for gives, and add_for_body makes of it. *)
LEMMA ForTree ==
  ASSUME NEW i, NEW c, NEW n, NEW t,
         NEW tree, tree = AddForBody(MakeFor(IntExpr(i), IntExpr(c), IntExpr(n)), t)
  PROVE  IF i = 0 \/ n = 0 \/ t = Null THEN tree = Null
         ELSE tree = Seq_(<<IntExpr(i),
                [op |-> "Owhile", cond |-> IF c = 0 THEN Zero ELSE IntExpr(c), f |-> Null,
                 t |-> Seq_(IF t.op = "Oseq" THEN Append(t.stmts, IntExpr(n))
                            ELSE <<t, IntExpr(n)>>)]>>)
<1>1. PICK w : w = [op |-> "Owhile", cond |-> IF c = 0 THEN Zero ELSE IntExpr(c),
                    t |-> Null, f |-> Null]
  OBVIOUS
<1>2. MakeBranch("Owhile", IF IntExpr(c) = Null THEN Zero ELSE IntExpr(c)) = w
  BY <1>1 DEF MakeBranch, Branch, IntExpr, Expr, Null, Zero
<1>3. PICK fr : fr = MakeFor(IntExpr(i), IntExpr(c), IntExpr(n))
  OBVIOUS
<1>4. fr.op = "Oseq" /\ fr.stmts = Listed(IntExpr(i)) \o <<w>> \o Listed(IntExpr(n))
  BY <1>2, <1>3 DEF MakeFor, Seq_
<1>5. /\ i = 0 => Listed(IntExpr(i)) = <<>>
      /\ i # 0 => Listed(IntExpr(i)) = <<IntExpr(i)>>
      /\ n = 0 => Listed(IntExpr(n)) = <<>>
      /\ n # 0 => Listed(IntExpr(n)) = <<IntExpr(n)>>
  BY DEF Listed, IntExpr, Expr, Null
<1>6. CASE i = 0 \/ n = 0
  <2>1. fr.stmts = <<w>> \/ fr.stmts = <<w, IntExpr(n)>> \/ fr.stmts = <<IntExpr(i), w>>
    <3>1. CASE i = 0 /\ n = 0
      <4>1. Listed(IntExpr(i)) = <<>> /\ Listed(IntExpr(n)) = <<>>
        BY <1>5, <3>1
      <4>2. <<>> \o <<w>> \o <<>> = <<w>>
        <5>1. <<>> \o <<w>> = <<w>> /\ <<w>> \o <<>> = <<w>>
          OBVIOUS
        <5> QED BY <5>1
      <4> QED BY <1>4, <4>1, <4>2
    <3>2. CASE i = 0 /\ n # 0
      <4>1. Listed(IntExpr(i)) = <<>> /\ Listed(IntExpr(n)) = <<IntExpr(n)>>
        BY <1>5, <3>2
      <4>2. <<>> \o <<w>> \o <<IntExpr(n)>> = <<w, IntExpr(n)>>
        <5>1. <<>> \o <<w>> = <<w>> /\ <<w>> \o <<>> = <<w>>
          OBVIOUS
        <5> QED BY <5>1, TwoElements
      <4> QED BY <1>4, <4>1, <4>2
    <3>3. CASE i # 0 /\ n = 0
      <4>1. Listed(IntExpr(i)) = <<IntExpr(i)>> /\ Listed(IntExpr(n)) = <<>>
        BY <1>5, <3>3
      <4>2. <<IntExpr(i)>> \o <<w>> \o <<>> = <<IntExpr(i), w>>
        <5>1. <<>> \o <<w>> = <<w>> /\ <<w>> \o <<>> = <<w>>
          OBVIOUS
        <5>2. <<IntExpr(i)>> \o (<<w>> \o <<>>) = (<<IntExpr(i)>> \o <<w>>) \o <<>>
          BY ListOfOne, Associative
        <5> QED BY <5>1, <5>2, TwoElements
      <4> QED BY <1>4, <4>1, <4>2
    <3> QED BY <1>6, <3>1, <3>2, <3>3
  <2>2. Len(fr.stmts) # 3
    BY <2>1
  <2>3. AddForBody(fr, t) = Null
    BY <2>2 DEF AddForBody
  <2> QED BY <1>3, <1>6, <2>3
<1>7. CASE i # 0 /\ n # 0
  <2>0. Listed(IntExpr(i)) = <<IntExpr(i)>> /\ Listed(IntExpr(n)) = <<IntExpr(n)>>
    BY <1>5, <1>7
  <2>1. fr.stmts = <<IntExpr(i), w, IntExpr(n)>>
    BY <1>4, <2>0, ThreeElements
  <2>2. /\ Len(fr.stmts) = 3 /\ fr.stmts[2] = w /\ fr.stmts[2].op = "Owhile"
        /\ fr.stmts[1] = IntExpr(i) /\ fr.stmts[3] = IntExpr(n)
    BY <1>1, <2>1
  <2>3. CASE t = Null
    BY <1>3, <1>7, <2>3 DEF AddForBody
  <2>4. CASE t # Null
    <3>1. PICK inner : inner = IF t.op = "Oseq" THEN Append(t.stmts, IntExpr(n))
                               ELSE <<t, IntExpr(n)>>
      OBVIOUS
    <3>2. AddForBody(fr, t) = Seq_(<<IntExpr(i), [w EXCEPT !.t = Seq_(inner)]>>)
      BY <2>2, <2>4, <3>1 DEF AddForBody
    <3>3. [w EXCEPT !.t = Seq_(inner)] =
            [op |-> "Owhile", cond |-> IF c = 0 THEN Zero ELSE IntExpr(c), f |-> Null,
             t |-> Seq_(inner)]
      BY <1>1
    <3> QED BY <1>3, <1>7, <2>4, <3>1, <3>2, <3>3
  <2> QED BY <2>3, <2>4
<1> QED BY <1>6, <1>7

(* add_for_body stops if the body is no tree, or a part is missing that is *)
(* not the condition; otherwise it makes a tree.                           *)
LEMMA ForStops ==
  ASSUME NEW i, NEW c, NEW n, NEW t,
         NEW tree, tree = AddForBody(MakeFor(IntExpr(i), IntExpr(c), IntExpr(n)), t)
  PROVE  IF i = 0 \/ n = 0 \/ t = Null THEN tree = Null ELSE tree # Null
<1>1. PICK x : x = <<IntExpr(i),
           [op |-> "Owhile", cond |-> IF c = 0 THEN Zero ELSE IntExpr(c), f |-> Null,
            t |-> Seq_(IF t.op = "Oseq" THEN Append(t.stmts, IntExpr(n))
                       ELSE <<t, IntExpr(n)>>)]>>
  OBVIOUS
<1>2. IF i = 0 \/ n = 0 \/ t = Null THEN tree = Null ELSE tree = Seq_(x)
  BY <1>1, ForTree
<1> QED BY <1>2 DEF Seq_, Null

(* The tree it makes lowers the for, whatever its body is: the tail is     *)
(* after the body, in the loop.                                            *)
LEMMA ForLowered ==
  ASSUME NEW P, NEW sn, Lowering(P, sn), NEW i, NEW c, NEW n, i # 0, n # 0,
         c = 0 => "for" \in sn,
         NEW s, NEW t, <<s, t>> \in P, t # Null,
         NEW tree, tree = AddForBody(MakeFor(IntExpr(i), IntExpr(c), IntExpr(n)), t)
  PROVE  tree # Null /\ \E Q : P \subseteq Q /\ Lowering(Q, sn) /\ <<ForOf(i, c, n, s), tree>> \in Q
<1>1. PICK inner : inner = IF t.op = "Oseq" THEN Append(t.stmts, IntExpr(n)) ELSE <<t, IntExpr(n)>>
  OBVIOUS
<1>2. PICK cond : cond = IF c = 0 THEN Zero ELSE IntExpr(c)
  OBVIOUS
<1>3. PICK w : w = [op |-> "Owhile", cond |-> cond, t |-> Seq_(inner), f |-> Null]
  OBVIOUS
<1>4. tree = Seq_(<<IntExpr(i), w>>)
  BY <1>1, <1>2, <1>3, ForTree
<1>5. PICK A : P \subseteq A /\ Lowering(A, sn) /\ <<Evaluate(i), IntExpr(i)>> \in A
  BY ExpressionLowered DEF IntExpr
<1>6. PICK B : A \subseteq B /\ Lowering(B, sn) /\ <<Evaluate(n), IntExpr(n)>> \in B
  BY <1>5, ExpressionLowered DEF IntExpr
<1>7. <<s, t>> \in B
  BY <1>5, <1>6
<1>8. \E Q : B \subseteq Q /\ Lowering(Q, sn) /\ <<s \o Evaluate(n), Seq_(inner)>> \in Q
  <2>1. CASE t.op = "Oseq"
    <3>1. LowersSeq(P, s, t)
      BY <2>1 DEF Lowering, Lowers, LowersNull, LowersExpr, LowersRet, LowersBranch, LowersWhile,
        LowersDo, IsExpr
    <3>2. PICK ts : t = Seq_(ts)
      BY <3>1 DEF LowersSeq
    <3>3. t.stmts = ts
      BY <3>2 DEF Seq_
    <3>4. <<s, Seq_(ts)>> \in B
      BY <1>7, <3>2
    <3>5. \E Q : B \subseteq Q /\ Lowering(Q, sn)
                 /\ <<s \o Evaluate(n), Seq_(Append(ts, IntExpr(n)))>> \in Q
      BY <1>6, <3>4, AppendLowered
    <3>6. inner = Append(ts, IntExpr(n))
      BY <1>1, <2>1, <3>3
    <3> QED BY <3>5, <3>6
  <2>2. CASE t.op # "Oseq"
    <3>1. \E Q : B \subseteq Q /\ Lowering(Q, sn)
                 /\ <<s \o Evaluate(n), Seq_(<<t, IntExpr(n)>>)>> \in Q
      BY <1>6, <1>7, PairLowered
    <3>2. inner = <<t, IntExpr(n)>>
      BY <1>1, <2>2
    <3> QED BY <3>1, <3>2
  <2> QED BY <2>1, <2>2
<1>9. PICK C : B \subseteq C /\ Lowering(C, sn) /\ <<s \o Evaluate(n), Seq_(inner)>> \in C
  BY <1>8
<1>10. IsExpr(cond, c) \/ (cond = Zero /\ "for" \in sn)
  <2>1. c # 0 => IsExpr(IntExpr(c), c)
    BY ExpressionLowered DEF IntExpr
  <2> QED BY <1>2, <2>1
<1>11. PICK D : C \subseteq D /\ Lowering(D, sn) /\ <<WhileOf(c, s \o Evaluate(n)), w>> \in D
  BY <1>3, <1>9, <1>10, LoopLowered
<1>12. <<Evaluate(i), IntExpr(i)>> \in D
  BY <1>5, <1>6, <1>9, <1>11
<1>13. PICK Q : /\ D \subseteq Q /\ Lowering(Q, sn)
                /\ <<Evaluate(i) \o WhileOf(c, s \o Evaluate(n)), Seq_(<<IntExpr(i), w>>)>> \in Q
  BY <1>11, <1>12, PairLowered
<1>14. P \subseteq Q
  BY <1>5, <1>6, <1>9, <1>11, <1>13
<1>15. tree # Null
  BY <1>4 DEF Seq_, Null
<1>16. <<ForOf(i, c, n, s), tree>> \in Q
  BY <1>4, <1>13 DEF ForOf
<1> QED BY <1>13, <1>14, <1>15, <1>16
-----------------------------------------------------------------------------
(* While the parser reads, each block on its stack has its statements on   *)
(* bstack, and as long as there is no error all of it is lowered.          *)
Parsed ==
  status = "parsing" =>
    /\ Shaped(stack, blocks, done)
    /\ ~err => \E P : Lowering(P, seen) /\ LowersAll(P, stack, blocks, done)

Statuses ==
  {"parsing", "segv", "crashed", "refused", "emitting", "unassembled", "running", "returned"}

(* The types, and what does not change before the code is emitted. *)
Types ==
  /\ size \in 0..MaxSize
  /\ {void, err, ax} \subseteq BOOLEAN
  /\ seen \subseteq {"do", "for", "hollow"}
  /\ status \in Statuses
  /\ label \in Nat /\ IsList(code)
  /\ pc \in 1..(Len(code) + 1)
  /\ Len(blocks) = Level(stack, Len(stack))
  /\ status = "parsing" => code = <<>> /\ label = 0
  /\ status \in {"parsing", "emitting"} => pc = 1

(* A statement that is no block is pushed. *)
LEMMA PushKeeps ==
  ASSUME Parsed, status = "parsing", NEW fr, IsFrame(fr), fr.op # "block",
         stack' = Append(stack, fr), blocks' = blocks, done' = done, seen' = seen,
         ~err' => ~err /\ \A P : LowersFrame(P, fr)
  PROVE  Parsed' /\ Len(blocks') = Level(stack', Len(stack'))
<1>1. Shaped(stack, blocks, done)
  BY DEF Parsed
<1>2. /\ Shaped(stack', blocks, done)
      /\ \A P : LowersAll(P, stack, blocks, done) /\ LowersFrame(P, fr)
                => LowersAll(P, stack', blocks, done)
  BY <1>1, PushShaped
<1>3. Shaped(stack', blocks', done')
  BY <1>2
<1>4. ASSUME ~err'
      PROVE  \E P : Lowering(P, seen') /\ LowersAll(P, stack', blocks', done')
  <2>1. PICK P : Lowering(P, seen) /\ LowersAll(P, stack, blocks, done)
    BY <1>4 DEF Parsed
  <2>2. LowersAll(P, stack', blocks, done)
    BY <1>2, <1>4, <2>1
  <2>3. LowersAll(P, stack', blocks', done') /\ Lowering(P, seen')
    BY <2>1, <2>2
  <2> QED BY <2>3
<1> QED BY <1>3, <1>4 DEF Parsed, Shaped

(* A statement is reduced, on its own. *)
LEMMA ReduceKeeps ==
  ASSUME Parsed, status = "parsing", done.kind = "none", NEW d, d.kind # "none", done' = d,
         stack' = stack, blocks' = blocks, seen' = seen,
         ~err' => /\ ~err
                  /\ \A P : Lowering(P, seen) =>
                       \E Q : P \subseteq Q /\ Lowering(Q, seen) /\ LowersDone(Q, d)
  PROVE  Parsed' /\ Len(blocks') = Level(stack', Len(stack'))
<1>1. Shaped(stack, blocks, done)
  BY DEF Parsed
<1>2. Shaped(stack', blocks', done')
  BY <1>1 DEF Shaped
<1>3. ASSUME ~err'
      PROVE  \E P : Lowering(P, seen') /\ LowersAll(P, stack', blocks', done')
  <2>1. PICK P : Lowering(P, seen) /\ LowersAll(P, stack, blocks, done)
    BY <1>3 DEF Parsed
  <2>2. PICK Q : P \subseteq Q /\ Lowering(Q, seen) /\ LowersDone(Q, d)
    BY <1>3, <2>1
  <2>3. LowersAll(Q, stack, blocks, done)
    BY <2>1, <2>2, LowersAllMore
  <2>4. LowersAll(Q, stack, blocks, d)
    BY <2>2, <2>3 DEF LowersAll, LowersBlock
  <2>5. LowersAll(Q, stack', blocks', done') /\ Lowering(Q, seen')
    BY <2>2, <2>4
  <2> QED BY <2>5
<1> QED BY <1>2, <1>3 DEF Parsed, Shaped

(* The statement on top ends, and is reduced. *)
LEMMA EndKeeps ==
  ASSUME Parsed, status = "parsing", stack[Len(stack)].op # "block",
         NEW d, d.kind # "none", done' = d,
         stack' = SubSeq(stack, 1, Len(stack) - 1), blocks' = blocks,
         ~err' => /\ ~err
                  /\ \A P : /\ Lowering(P, seen)
                            /\ LowersFrame(P, stack[Len(stack)])
                            /\ LowersDone(P, done)
                            => \E Q : P \subseteq Q /\ Lowering(Q, seen') /\ LowersDone(Q, d)
  PROVE  Parsed' /\ Len(blocks') = Level(stack', Len(stack'))
<1>1. Shaped(stack, blocks, done)
  BY DEF Parsed
<1>2. IsPopped(stack, stack') /\ Shaped(stack', blocks, d)
  <2>1. IsPopped(stack, stack')
    BY DEF IsPopped
  <2> QED BY <1>1, <2>1, PopShaped
<1>3. Shaped(stack', blocks', done')
  BY <1>2
<1>4. ASSUME ~err'
      PROVE  \E P : Lowering(P, seen') /\ LowersAll(P, stack', blocks', done')
  <2>1. PICK P : Lowering(P, seen) /\ LowersAll(P, stack, blocks, done)
    BY <1>4 DEF Parsed
  <2>2. LowersFrame(P, stack[Len(stack)]) /\ LowersDone(P, done)
    <3>1. Len(stack) \in 1..Len(stack)
      BY <1>1, HeadAndTail DEF Shaped
    <3> QED BY <2>1, <3>1 DEF LowersAll
  <2>3. PICK Q : P \subseteq Q /\ Lowering(Q, seen') /\ LowersDone(Q, d)
    BY <1>4, <2>1, <2>2
  <2>4. LowersAll(Q, stack, blocks, done)
    BY <2>1, <2>3, LowersAllMore
  <2>5. LowersAll(Q, stack', blocks, d)
    BY <1>1, <1>2, <2>3, <2>4, PopLowered
  <2>6. LowersAll(Q, stack', blocks', done') /\ Lowering(Q, seen')
    BY <2>3, <2>5
  <2> QED BY <2>6
<1> QED BY <1>3, <1>4 DEF Parsed, Shaped
-----------------------------------------------------------------------------
(* The parser's actions. *)
LEMMA ReadFacts ==
  ASSUME Types, NEW n \in 1..3, Read(n)
  PROVE  /\ status = "parsing" /\ done = None /\ done.kind = "none"
         /\ size' \in 0..MaxSize /\ size' = size + n /\ size' # 0
         /\ void' = void /\ seen' = seen /\ label' = label /\ code' = code /\ pc' = pc /\ ax' = ax
<1>1. size' \in 0..MaxSize /\ size' = size + n /\ size' # 0
  BY StatementsAssumption DEF Types, Read
<1>2. done = None /\ done.kind = "none"
  BY DEF Read, None, Reduced
<1> QED BY <1>1, <1>2 DEF Read, emitter, program

(* What stays in a step of the parser that does not stop. *)
LEMMA ParsingTypes ==
  ASSUME Types, status = "parsing", status' = "parsing", size' \in 0..MaxSize,
         void' = void, err' \in BOOLEAN, seen' \subseteq {"do", "for", "hollow"},
         label' = label, code' = code, pc' = pc, ax' = ax,
         Len(blocks') = Level(stack', Len(stack'))
  PROVE  Types' /\ CrashesAreHollow'
BY DEF Types, Statuses, CrashesAreHollow

(* A block that opens is empty, and so are both its list and its sequence. *)
LEMMA OpenBlockKeeps ==
  ASSUME Types, Parsed, OpenBlock
  PROVE  Types' /\ Parsed' /\ CrashesAreHollow'
<1>1. /\ status = "parsing" /\ size' \in 0..MaxSize
      /\ void' = void /\ seen' = seen /\ label' = label /\ code' = code /\ pc' = pc /\ ax' = ax
  BY ReadFacts DEF OpenBlock
<1>2. PICK fr : fr = Frame("block", 0, 0, 0, Null)
  OBVIOUS
<1>3. IsFrame(fr) /\ fr.op = "block" /\ fr.src = <<>>
  BY <1>2 DEF IsFrame, Frame
<1>4. /\ stack' = Append(stack, fr) /\ blocks' = Append(blocks, <<>>)
      /\ done' = done /\ err' = err /\ status' = status
  BY <1>2 DEF OpenBlock
<1>5. Shaped(stack, blocks, done)
  BY <1>1 DEF Parsed
<1>6. /\ Shaped(stack', blocks', done)
      /\ \A P : LowersAll(P, stack, blocks, done) /\ <<<<>>, Seq_(<<>>)>> \in P
                => LowersAll(P, stack', blocks', done)
  BY <1>3, <1>4, <1>5, OpenShaped
<1>7. ASSUME ~err'
      PROVE  \E P : Lowering(P, seen') /\ LowersAll(P, stack', blocks', done')
  <2>1. PICK P : Lowering(P, seen) /\ LowersAll(P, stack, blocks, done)
    BY <1>1, <1>4, <1>7 DEF Parsed
  <2>2. Lowers(P, seen, <<>>, Seq_(<<>>))
    <3>1. LowersSeq(P, <<>>, Seq_(<<>>))
      BY ListOfOne DEF LowersSeq
    <3> QED BY <3>1, ListOfOne DEF Lowers
  <2>3. PICK Q : P \subseteq Q /\ <<<<>>, Seq_(<<>>)>> \in Q /\ Lowering(Q, seen)
    BY <2>1, <2>2, LoweringAdds
  <2>4. LowersAll(Q, stack, blocks, done)
    BY <2>1, <2>3, LowersAllMore
  <2>5. LowersAll(Q, stack', blocks', done') /\ Lowering(Q, seen')
    BY <1>1, <1>4, <1>6, <2>3, <2>4
  <2> QED BY <2>5
<1>8. Parsed' /\ Len(blocks') = Level(stack', Len(stack'))
  BY <1>4, <1>6, <1>7 DEF Parsed, Shaped
<1>9. err' \in BOOLEAN /\ seen' \subseteq {"do", "for", "hollow"}
  BY <1>1, <1>4 DEF Types
<1> QED BY <1>1, <1>4, <1>8, <1>9, ParsingTypes

(* An empty statement, and an expression, keep what is lowered. *)
LEMMA ExpressionKeeps ==
  ASSUME Types, Parsed, Expression
  PROVE  Types' /\ Parsed' /\ CrashesAreHollow'
<1>1. /\ status = "parsing" /\ done.kind = "none" /\ size' \in 0..MaxSize /\ size' # 0
      /\ void' = void /\ seen' = seen /\ label' = label /\ code' = code /\ pc' = pc /\ ax' = ax
  <2>1. Read(1)
    BY DEF Expression
  <2> QED BY <2>1, ReadFacts
<1>2. /\ stack' = stack /\ blocks' = blocks /\ status' = status
      /\ err' \in BOOLEAN /\ (~err' => ~err)
  <2>1. stack' = stack /\ blocks' = blocks /\ status' = status
    BY DEF Expression, Reduce
  <2>2. err' = err \/ \E ty \in ExprTypes : Report(ty = "NULL")
    BY DEF Expression
  <2>3. CASE err' = err
    BY <2>1, <2>3 DEF Types
  <2>4. ASSUME NEW ty \in ExprTypes, Report(ty = "NULL")
        PROVE  err' \in BOOLEAN /\ (~err' => ~err)
    BY <2>4 DEF Report, Types
  <2> QED BY <2>1, <2>2, <2>3, <2>4
<1>3. PICK d : /\ done' = d /\ d.kind # "none"
               /\ \A P : Lowering(P, seen) =>
                    \E Q : P \subseteq Q /\ Lowering(Q, seen) /\ LowersDone(Q, d)
  <2>1. CASE Reduce(Reduced("empty", <<>>, Null))
    <3>1. PICK d : d = Reduced("empty", <<>>, Null)
      OBVIOUS
    <3>2. done' = d /\ d.kind # "none" /\ \A P : LowersDone(P, d)
      BY <2>1, <3>1 DEF Reduce, Reduced, LowersDone
    <3> QED BY <3>2
  <2>2. ASSUME NEW ty, Reduce(Reduced("closed", Evaluate(size'), Expr(size', ty)))
        PROVE  \E d : /\ done' = d /\ d.kind # "none"
                      /\ \A P : Lowering(P, seen) =>
                           \E Q : P \subseteq Q /\ Lowering(Q, seen) /\ LowersDone(Q, d)
    <3>1. PICK s, t, e : s = Evaluate(e) /\ t = Expr(e, ty) /\ e = size'
      OBVIOUS
    <3>2. PICK d : d = Reduced("closed", s, t)
      OBVIOUS
    <3>3. done' = d /\ d.kind = "closed" /\ d.src = s /\ d.tree = t
      BY <2>2, <3>1, <3>2 DEF Reduce, Reduced
    <3>4. ASSUME NEW P, Lowering(P, seen)
          PROVE  \E Q : P \subseteq Q /\ Lowering(Q, seen) /\ LowersDone(Q, d)
      <4>1. /\ \E Q : P \subseteq Q /\ Lowering(Q, seen) /\ <<s, t>> \in Q
            /\ t # Null
        BY <1>1, <3>1, <3>4, ExpressionLowered
      <4> QED BY <3>3, <4>1 DEF LowersDone
    <3> QED BY <3>3, <3>4
  <2> QED BY <2>1, <2>2 DEF Expression
<1>4. Parsed' /\ Len(blocks') = Level(stack', Len(stack'))
  BY <1>1, <1>2, <1>3, ReduceKeeps
<1> QED BY <1>1, <1>2, <1>4, ParsingTypes DEF Types
(* A return does; without a type for its expression the compiler stops. *)
LEMMA ReturnKeeps ==
  ASSUME Types, Parsed, Return
  PROVE  Types' /\ Parsed' /\ CrashesAreHollow'
<1>1. /\ status = "parsing" /\ done.kind = "none" /\ size' \in 0..MaxSize /\ size' # 0
      /\ void' = void /\ seen' = seen /\ label' = label /\ code' = code /\ pc' = pc /\ ax' = ax
  <2>1. Read(1)
    BY DEF Return
  <2> QED BY <2>1, ReadFacts
<1>2. PICK e \in {0, size'}, ty \in ExprTypes :
        /\ Report((void <=> e # 0) \/ (e # 0 /\ ty # "int"))
        /\ IF ~void /\ e # 0 /\ ty = "NULL"
           THEN status' = "segv" /\ UNCHANGED <<stack, blocks, done>>
           ELSE /\ Reduce(Reduced("closed", ReturnOf(e), Ret(Expr(e, ty))))
                /\ UNCHANGED status
  BY DEF Return
<1>3. PICK b \in BOOLEAN : b <=> (void <=> e # 0) \/ (e # 0 /\ ty # "int")
  OBVIOUS
<1>4. err' \in BOOLEAN /\ (~err' => ~err) /\ (~err' => ~b)
  BY <1>2, <1>3 DEF Report, Types
<1>5. CASE ~void /\ e # 0 /\ ty = "NULL"
  <2>1. status' = "segv" /\ stack' = stack /\ blocks' = blocks
    BY <1>2, <1>5
  <2>2. b
    BY <1>3, <1>5
  <2>3. Parsed' /\ CrashesAreHollow'
    BY <1>4, <2>1, <2>2 DEF Parsed, CrashesAreHollow
  <2>4. Types'
    BY <1>1, <1>4, <2>1 DEF Types, Statuses
  <2> QED BY <2>3, <2>4
<1>6. CASE ~(~void /\ e # 0 /\ ty = "NULL")
  <2>1. Reduce(Reduced("closed", ReturnOf(e), Ret(Expr(e, ty)))) /\ status' = status
    BY <1>2, <1>6
  <2>2. PICK s, t : s = ReturnOf(e) /\ t = Ret(Expr(e, ty))
    OBVIOUS
  <2>3. PICK d : d = Reduced("closed", s, t)
    OBVIOUS
  <2>4. /\ done' = d /\ stack' = stack /\ blocks' = blocks
        /\ d.kind = "closed" /\ d.src = s /\ d.tree = t
    BY <2>1, <2>2, <2>3 DEF Reduce, Reduced
  <2>5. ASSUME NEW P, Lowering(P, seen)
        PROVE  \E Q : P \subseteq Q /\ Lowering(Q, seen) /\ LowersDone(Q, d)
    <3>1. /\ \E Q : P \subseteq Q /\ Lowering(Q, seen) /\ <<s, t>> \in Q
          /\ t # Null
      BY <2>2, <2>5, ReturnLowered
    <3> QED BY <2>4, <3>1 DEF LowersDone
  <2>6. Parsed' /\ Len(blocks') = Level(stack', Len(stack'))
    BY <1>1, <1>4, <2>4, <2>5, ReduceKeeps
  <2> QED BY <1>1, <1>4, <2>1, <2>6, ParsingTypes DEF Types
<1> QED BY <1>5, <1>6

(* The conditions of branches and loops. *)
LEMMA ConditionTree ==
  ASSUME NEW e, e # 0, NEW op
  PROVE  MakeBranch(op, Expr(e, "int")) = Branch(op, IntExpr(e))
<1>1. PICK t : t = Expr(e, "int")
  OBVIOUS
<1>2. t.ty = "int"
  BY <1>1 DEF Expr
<1> QED BY <1>1, <1>2 DEF MakeBranch, IntExpr

(* An if or a while begins with its condition: with a type that is no int  *)
(* there is an error.                                                      *)
LEMMA ConditionKeeps ==
  ASSUME Types, Parsed, NEW op \in {"if", "while"}, NEW ty \in ExprTypes, Read(1),
         NEW tree, ty = "int" => tree = Branch(IF op = "if" THEN "Obranch" ELSE "Owhile", IntExpr(size')),
         Push(Frame(op, 0, size', 0, tree)), Report(ty # "int"), status' = status
  PROVE  Types' /\ Parsed' /\ CrashesAreHollow'
<1>1. /\ status = "parsing" /\ size' \in 0..MaxSize /\ size' # 0
      /\ void' = void /\ seen' = seen /\ label' = label /\ code' = code /\ pc' = pc /\ ax' = ax
  BY ReadFacts
<1>2. PICK e : e = size'
  OBVIOUS
<1>3. PICK fr : fr = Frame(op, 0, e, 0, tree)
  OBVIOUS
<1>4. IsFrame(fr) /\ fr.op = op /\ fr.op # "block" /\ fr.c = e /\ fr.tree = tree
  BY <1>3 DEF IsFrame, Frame
<1>5. stack' = Append(stack, fr) /\ blocks' = blocks /\ done' = done
  BY <1>2, <1>3 DEF Push
<1>6. err' \in BOOLEAN /\ (~err' => ~err) /\ (~err' => ty = "int")
  BY DEF Report, Types
<1>7. ASSUME ~err'
      PROVE  ~err /\ \A P : LowersFrame(P, fr)
  <2>1. fr.c # 0
    BY <1>1, <1>2, <1>4
  <2>2. op = "if" => fr.tree = Branch("Obranch", IntExpr(fr.c))
    BY <1>2, <1>4, <1>6, <1>7
  <2>3. op = "while" => fr.tree = Branch("Owhile", IntExpr(fr.c))
    BY <1>2, <1>4, <1>6, <1>7
  <2> QED BY <1>4, <1>6, <1>7, <2>1, <2>2, <2>3 DEF LowersFrame
<1>8. Parsed' /\ Len(blocks') = Level(stack', Len(stack'))
  BY <1>1, <1>4, <1>5, <1>7, PushKeeps
<1> QED BY <1>1, <1>6, <1>8, ParsingTypes DEF Types

(* An if keeps what is lowered as it begins, *)
LEMMA IfKeeps ==
  ASSUME Types, Parsed, If
  PROVE  Types' /\ Parsed' /\ CrashesAreHollow'
<1>1. PICK ty \in ExprTypes :
        /\ Read(1)
        /\ Push(Frame("if", 0, size', 0, MakeBranch("Obranch", Expr(size', ty))))
        /\ Report(ty # "int") /\ status' = status
  BY DEF If
<1>2. PICK tree, op : tree = MakeBranch("Obranch", Expr(size', ty)) /\ op = "if"
  OBVIOUS
<1>3. size' # 0
  BY <1>1, ReadFacts
<1>4. ty = "int" => tree = Branch(IF op = "if" THEN "Obranch" ELSE "Owhile", IntExpr(size'))
  BY <1>2, <1>3, ConditionTree
<1>5. Push(Frame(op, 0, size', 0, tree)) /\ op \in {"if", "while"}
  BY <1>1, <1>2
<1> QED BY <1>1, <1>4, <1>5, ConditionKeeps

(* and a while, *)
LEMMA WhileKeeps ==
  ASSUME Types, Parsed, While
  PROVE  Types' /\ Parsed' /\ CrashesAreHollow'
<1>1. PICK ty \in ExprTypes :
        /\ Read(1)
        /\ Push(Frame("while", 0, size', 0, MakeBranch("Owhile", Expr(size', ty))))
        /\ Report(ty # "int") /\ status' = status
  BY DEF While
<1>2. PICK tree, op : tree = MakeBranch("Owhile", Expr(size', ty)) /\ op = "while"
  OBVIOUS
<1>3. size' # 0
  BY <1>1, ReadFacts
<1>4. ty = "int" => tree = Branch(IF op = "if" THEN "Obranch" ELSE "Owhile", IntExpr(size'))
  BY <1>2, <1>3, ConditionTree
<1>5. Push(Frame(op, 0, size', 0, tree)) /\ op \in {"if", "while"}
  BY <1>1, <1>2
<1> QED BY <1>1, <1>4, <1>5, ConditionKeeps

(* and a for, whose three parts are read before its body, *)
LEMMA ForKeeps ==
  ASSUME Types, Parsed, For
  PROVE  Types' /\ Parsed' /\ CrashesAreHollow'
<1>1. Read(3) /\ \E i \in {0, size + 1}, c \in {0, size + 2}, n \in {0, size + 3}, ty \in ExprTypes :
        /\ Push(Frame("for", i, c, n, MakeFor(Expr(i, "int"), Expr(c, ty), Expr(n, "int"))))
        /\ Report(c # 0 /\ ty # "int") /\ status' = status
  BY DEF For
<1>2. PICK i, c, n, ty :
        /\ Push(Frame("for", i, c, n, MakeFor(Expr(i, "int"), Expr(c, ty), Expr(n, "int"))))
        /\ Report(c # 0 /\ ty # "int") /\ status' = status
  BY <1>1
<1>3. /\ status = "parsing" /\ size' \in 0..MaxSize
      /\ void' = void /\ seen' = seen /\ label' = label /\ code' = code /\ pc' = pc /\ ax' = ax
  BY <1>1, ReadFacts
<1>4. PICK tree : tree = MakeFor(Expr(i, "int"), Expr(c, ty), Expr(n, "int"))
  OBVIOUS
<1>5. PICK fr : fr = Frame("for", i, c, n, tree)
  OBVIOUS
<1>6. /\ IsFrame(fr) /\ fr.op = "for" /\ fr.op # "block"
      /\ fr.i = i /\ fr.c = c /\ fr.n = n /\ fr.tree = tree
  BY <1>5 DEF IsFrame, Frame
<1>7. stack' = Append(stack, fr) /\ blocks' = blocks /\ done' = done
  BY <1>2, <1>4, <1>5 DEF Push
<1>8. err' \in BOOLEAN /\ (~err' => ~err) /\ (~err' => c = 0 \/ ty = "int")
  BY <1>2 DEF Report, Types
<1>9. ASSUME ~err'
      PROVE  ~err /\ \A P : LowersFrame(P, fr)
  <2>1. Expr(c, ty) = IntExpr(c)
    BY <1>8, <1>9 DEF IntExpr, Expr
  <2>2. fr.tree = MakeFor(IntExpr(fr.i), IntExpr(fr.c), IntExpr(fr.n))
    BY <1>4, <1>6, <2>1 DEF IntExpr
  <2> QED BY <1>6, <1>8, <1>9, <2>2 DEF LowersFrame
<1>10. Parsed' /\ Len(blocks') = Level(stack', Len(stack'))
  BY <1>3, <1>6, <1>7, <1>9, PushKeeps
<1> QED BY <1>2, <1>3, <1>8, <1>10, ParsingTypes DEF Types

(* and a do, whose condition is not read yet. *)
LEMMA DoKeeps ==
  ASSUME Types, Parsed, Do
  PROVE  Types' /\ Parsed' /\ CrashesAreHollow'
<1>1. Read(1) /\ Push(Frame("do", 0, size', 0, Null)) /\ err' = err /\ status' = status
  BY DEF Do
<1>2. /\ status = "parsing" /\ size' \in 0..MaxSize /\ size' # 0
      /\ void' = void /\ seen' = seen /\ label' = label /\ code' = code /\ pc' = pc /\ ax' = ax
  BY <1>1, ReadFacts
<1>3. PICK e : e = size'
  OBVIOUS
<1>4. PICK fr : fr = Frame("do", 0, e, 0, Null)
  OBVIOUS
<1>5. IsFrame(fr) /\ fr.op = "do" /\ fr.op # "block" /\ fr.c # 0
  BY <1>2, <1>3, <1>4 DEF IsFrame, Frame
<1>6. stack' = Append(stack, fr) /\ blocks' = blocks /\ done' = done
  BY <1>1, <1>3, <1>4 DEF Push
<1>7. \A P : LowersFrame(P, fr)
  BY <1>5 DEF LowersFrame
<1>8. Parsed' /\ Len(blocks') = Level(stack', Len(stack'))
  BY <1>1, <1>2, <1>5, <1>6, <1>7, PushKeeps
<1> QED BY <1>1, <1>2, <1>8, ParsingTypes DEF Types
-----------------------------------------------------------------------------
(* What is seen with a statement that has a body. *)
LEMMA SeeFacts ==
  ASSUME Types, NEW what, what \subseteq {"do", "for", "hollow"}, See(what)
  PROVE  /\ seen' \subseteq {"do", "for", "hollow"} /\ seen \subseteq seen' /\ what \subseteq seen'
         /\ done.kind = "empty" => "hollow" \in seen'
BY DEF Types, See

(* The top of the stack as an else, and with more statements. *)
LEMMA FrameChanged ==
  ASSUME NEW fr, IsFrame(fr), NEW s, NEW t
  PROVE  /\ [fr EXCEPT !.op = "else", !.src = s, !.tree = t] =
              [op |-> "else", i |-> fr.i, c |-> fr.c, n |-> fr.n, src |-> s, tree |-> t]
         /\ [fr EXCEPT !.src = s] =
              [op |-> fr.op, i |-> fr.i, c |-> fr.c, n |-> fr.n, src |-> s, tree |-> fr.tree]
<1>1. PICK o, i, c, n, u, v : o = fr.op /\ i = fr.i /\ c = fr.c /\ n = fr.n /\ u = fr.src /\ v = fr.tree
  OBVIOUS
<1>2. fr = [op |-> o, i |-> i, c |-> c, n |-> n, src |-> u, tree |-> v]
  BY <1>1 DEF IsFrame
<1>5. PICK g : g = [fr EXCEPT !.op = "else", !.src = s, !.tree = t]
  OBVIOUS
<1>6. /\ DOMAIN g = {"op", "i", "c", "n", "src", "tree"}
      /\ g.op = "else" /\ g.i = i /\ g.c = c /\ g.n = n /\ g.src = s /\ g.tree = t
  BY <1>2, <1>5
<1>3. g = [op |-> "else", i |-> i, c |-> c, n |-> n, src |-> s, tree |-> t]
  BY <1>5, <1>6
<1>4. [fr EXCEPT !.src = s] = [op |-> o, i |-> i, c |-> c, n |-> n, src |-> s, tree |-> v]
  BY <1>2
<1> QED BY <1>1, <1>3, <1>4, <1>5

(* The else of an if. *)
LEMMA ElseKeywordKeeps ==
  ASSUME Types, Parsed, ElseKeyword
  PROVE  Types' /\ Parsed' /\ CrashesAreHollow'
<1>1. /\ status = "parsing" /\ done # None /\ stack[Len(stack)].op = "if"
      /\ blocks' = blocks /\ done' = None /\ err' = err /\ status' = status /\ See({})
      /\ size' = size /\ void' = void /\ label' = label /\ code' = code /\ pc' = pc /\ ax' = ax
  BY DEF ElseKeyword, In, Top, emitter, program
<1>2. /\ seen' \subseteq {"do", "for", "hollow"} /\ seen \subseteq seen'
      /\ done.kind = "empty" => "hollow" \in seen'
  BY <1>1, SeeFacts
<1>3. Shaped(stack, blocks, done) /\ IsList(stack) /\ stack # <<>> /\ done.kind # "none"
  BY <1>1 DEF Parsed, Shaped
<1>4. Len(stack) \in Nat \ {0} /\ Len(stack) \in 1..Len(stack)
  BY <1>3, HeadAndTail
<1>5. PICK top : top = stack[Len(stack)]
  OBVIOUS
<1>6. IsFrame(top) /\ top.op = "if"
  BY <1>1, <1>3, <1>4, <1>5 DEF Shaped
<1>7. PICK tree : tree = Then(top.tree, done.tree)
  OBVIOUS
<1>8. PICK fr : fr = [op |-> "else", i |-> top.i, c |-> top.c, n |-> top.n, src |-> done.src,
                      tree |-> tree]
  OBVIOUS
<1>9. [top EXCEPT !.op = "else", !.src = done.src, !.tree = tree] = fr
  BY <1>6, <1>8, FrameChanged
<1>10. IsReplaced(stack, fr, stack')
  <2>1. stack' = [stack EXCEPT ![Len(stack)] =
                   [top EXCEPT !.op = "else", !.src = done.src, !.tree = tree]]
    BY <1>5, <1>7 DEF ElseKeyword, Top
  <2> QED BY <1>9, <2>1 DEF IsReplaced
<1>11. /\ IsFrame(fr) /\ fr.op = "else" /\ fr.c = top.c /\ fr.src = done.src /\ fr.tree = tree
  BY <1>8 DEF IsFrame
<1>12. /\ IsList(stack') /\ Len(stack') = Len(stack) /\ stack'[Len(stack)] = fr
       /\ \A i \in 1..Len(stack) - 1 : stack'[i] = stack[i]
  BY <1>3, <1>10, Replaced
<1>13. IsList(blocks) /\ (fr.op = "block" <=> stack[Len(stack)].op = "block")
  BY <1>1, <1>3, <1>11 DEF Shaped
<1>14. Shaped(stack', blocks, None)
  BY <1>3, <1>11, <1>12, <1>13, ReplaceShaped
<1>15. ASSUME ~err'
       PROVE  \E P : Lowering(P, seen') /\ LowersAll(P, stack', blocks, None)
  <2>1. PICK P : Lowering(P, seen) /\ LowersAll(P, stack, blocks, done)
    BY <1>1, <1>15 DEF Parsed
  <2>2. LowersDone(P, done) /\ LowersFrame(P, top)
    BY <1>4, <1>5, <2>1 DEF LowersAll
  <2>3. PICK Q : P \subseteq Q /\ Lowering(Q, seen') /\ <<done.src, done.tree>> \in Q
    BY <1>2, <1>3, <2>1, <2>2, BodyLowered
  <2>4. LowersAll(Q, stack, blocks, done)
    BY <2>1, <2>3, LowersAllMore
  <2>5. tree = [op |-> "Obranch", cond |-> IntExpr(top.c), t |-> done.tree, f |-> Null]
    <3>1. PICK t0, op0 : t0 = top.tree /\ op0 = "Obranch"
      OBVIOUS
    <3>2. t0 = [op |-> op0, cond |-> IntExpr(top.c), t |-> Null, f |-> Null] /\ op0 # "Oexpr"
      BY <1>6, <2>2, <3>1 DEF LowersFrame, Branch
    <3> QED BY <1>7, <3>1, <3>2, BodyOfBranch
  <2>6. LowersFrame(Q, fr)
    BY <1>6, <1>11, <2>2, <2>3, <2>5 DEF LowersFrame
  <2>7. LowersAll(Q, stack', blocks, None)
    BY <1>3, <1>11, <1>12, <1>13, <2>4, <2>6, ReplaceLowered
  <2> QED BY <2>3, <2>7
<1>16. Parsed' /\ Len(blocks') = Level(stack', Len(stack'))
  BY <1>1, <1>14, <1>15 DEF Parsed, Shaped
<1> QED BY <1>1, <1>2, <1>16, ParsingTypes DEF Types
(* A production that ends. *)
LEMMA EndsFacts ==
  ASSUME Types, Parsed, NEW op, op # "block", NEW s, Ends(op, s)
  PROVE  /\ status = "parsing" /\ done.kind # "none"
         /\ stack[Len(stack)].op = op
         /\ stack' = SubSeq(stack, 1, Len(stack) - 1) /\ blocks' = blocks /\ done' = s
         /\ size' = size /\ size \in 0..MaxSize /\ void' = void
         /\ label' = label /\ code' = code /\ pc' = pc /\ ax' = ax
<1>1. /\ status = "parsing" /\ done # None /\ stack[Len(stack)].op = op
      /\ stack' = SubSeq(stack, 1, Len(stack) - 1) /\ blocks' = blocks /\ done' = s
      /\ size' = size /\ void' = void /\ label' = label /\ code' = code /\ pc' = pc /\ ax' = ax
  BY DEF Ends, In, Top, emitter, program
<1> QED BY <1>1 DEF Types, Parsed, Shaped

(* An expression of type int is one that tree() evaluates. *)
LEMMA IntExprIsExpr == ASSUME NEW e, e # 0 PROVE IsExpr(IntExpr(e), e)
BY DEF IntExpr, Expr, IsExpr

(* What a statement around another is for the grammar. *)
LEMMA AroundKind == ASSUME NEW k PROVE Around(k) \in {"open", "closed"}
BY DEF Around

(* An if without else ends. *)
LEMMA EndIfKeeps ==
  ASSUME Types, Parsed, EndIf
  PROVE  Types' /\ Parsed' /\ CrashesAreHollow'
<1>1. PICK top, s, t : top = stack[Len(stack)] /\ s = IfOf(top.c, done.src, <<>>)
                       /\ t = Then(top.tree, done.tree)
  OBVIOUS
<1>2. PICK d : d = Reduced("open", s, t)
  OBVIOUS
<1>3. d.kind = "open" /\ d.src = s /\ d.tree = t
  BY <1>2 DEF Reduced
<1>4. PICK op : op = "if"
  OBVIOUS
<1>5. Ends(op, d) /\ See({}) /\ err' = err /\ status' = status /\ op # "block"
  BY <1>1, <1>2, <1>4 DEF EndIf, Top
<1>6. /\ status = "parsing" /\ done.kind # "none"
      /\ stack[Len(stack)].op = op
      /\ stack' = SubSeq(stack, 1, Len(stack) - 1) /\ blocks' = blocks /\ done' = d
      /\ size' = size /\ size \in 0..MaxSize /\ void' = void
      /\ label' = label /\ code' = code /\ pc' = pc /\ ax' = ax
  BY <1>5, EndsFacts
<1>7. /\ seen' \subseteq {"do", "for", "hollow"} /\ seen \subseteq seen'
      /\ done.kind = "empty" => "hollow" \in seen'
  BY <1>5, SeeFacts
<1>8. ASSUME NEW P, Lowering(P, seen), LowersFrame(P, top), LowersDone(P, done)
      PROVE  \E Q : P \subseteq Q /\ Lowering(Q, seen') /\ LowersDone(Q, d)
  <2>1. PICK A : P \subseteq A /\ Lowering(A, seen') /\ <<done.src, done.tree>> \in A
    BY <1>6, <1>7, <1>8, BodyLowered
  <2>2. top.c # 0 /\ t = [op |-> "Obranch", cond |-> IntExpr(top.c), t |-> done.tree, f |-> Null]
    <3>1. PICK t0, op0 : t0 = top.tree /\ op0 = "Obranch"
      OBVIOUS
    <3>2. t0 = [op |-> op0, cond |-> IntExpr(top.c), t |-> Null, f |-> Null] /\ op0 # "Oexpr"
          /\ top.c # 0
      BY <1>1, <1>4, <1>6, <1>8, <3>1 DEF LowersFrame, Branch
    <3>3. Then(t0, done.tree) = [op |-> op0, cond |-> IntExpr(top.c), t |-> done.tree, f |-> Null]
      BY <3>2, BodyOfBranch
    <3> QED BY <1>1, <3>1, <3>2, <3>3
  <2>3. t # Null /\ \E Q : A \subseteq Q /\ Lowering(Q, seen') /\ <<s, t>> \in Q
    <3>1. PICK f, b : f = Null /\ b = <<>>
      OBVIOUS
    <3>2. IF f = Null THEN b = <<>> ELSE <<b, f>> \in A
      BY <3>1
    <3>3. s = IfOf(top.c, done.src, b)
      BY <1>1, <3>1
    <3> QED BY <2>1, <2>2, <3>1, <3>2, <3>3, IfLowered
  <2>4. PICK Q : A \subseteq Q /\ Lowering(Q, seen') /\ <<s, t>> \in Q
    BY <2>3
  <2>5. P \subseteq Q /\ LowersDone(Q, d)
    BY <1>3, <2>1, <2>3, <2>4 DEF LowersDone
  <2> QED BY <2>4, <2>5
<1>9. Parsed' /\ Len(blocks') = Level(stack', Len(stack'))
  BY <1>1, <1>3, <1>4, <1>5, <1>6, <1>8, EndKeeps
<1> QED BY <1>5, <1>6, <1>7, <1>9, ParsingTypes DEF Types

(* An else ends; its body may be an empty statement, which is no tree. *)
LEMMA EndElseKeeps ==
  ASSUME Types, Parsed, EndElse
  PROVE  Types' /\ Parsed' /\ CrashesAreHollow'
<1>1. PICK top, s, t, k : top = stack[Len(stack)] /\ s = IfOf(top.c, top.src, done.src)
                          /\ t = Else(top.tree, done.tree) /\ k = Around(done.kind)
  OBVIOUS
<1>2. PICK d : d = Reduced(k, s, t)
  OBVIOUS
<1>3. d.kind \in {"open", "closed"} /\ d.src = s /\ d.tree = t
  BY <1>1, <1>2, AroundKind DEF Reduced
<1>4. PICK op : op = "else"
  OBVIOUS
<1>5. Ends(op, d) /\ seen' = seen /\ err' = err /\ status' = status /\ op # "block"
  BY <1>1, <1>2, <1>4 DEF EndElse, Top
<1>6. /\ status = "parsing" /\ done.kind # "none"
      /\ stack[Len(stack)].op = op
      /\ stack' = SubSeq(stack, 1, Len(stack) - 1) /\ blocks' = blocks /\ done' = d
      /\ size' = size /\ size \in 0..MaxSize /\ void' = void
      /\ label' = label /\ code' = code /\ pc' = pc /\ ax' = ax
  BY <1>5, EndsFacts
<1>7. ASSUME NEW P, Lowering(P, seen), LowersFrame(P, top), LowersDone(P, done)
      PROVE  \E Q : P \subseteq Q /\ Lowering(Q, seen') /\ LowersDone(Q, d)
  <2>1. PICK a : /\ top.c # 0
                 /\ top.tree = [op |-> "Obranch", cond |-> IntExpr(top.c), t |-> a, f |-> Null]
                 /\ <<top.src, a>> \in P
    BY <1>1, <1>4, <1>6, <1>7 DEF LowersFrame
  <2>2. t = [op |-> "Obranch", cond |-> IntExpr(top.c), t |-> a, f |-> done.tree]
    <3>1. PICK t0, op0 : t0 = top.tree /\ op0 = "Obranch"
      OBVIOUS
    <3>2. t0 = [op |-> op0, cond |-> IntExpr(top.c), t |-> a, f |-> Null] /\ op0 # "Oexpr"
      BY <2>1, <3>1
    <3>3. Else(t0, done.tree) = [op |-> op0, cond |-> IntExpr(top.c), t |-> a, f |-> done.tree]
      BY <3>2, BodyOfBranch
    <3> QED BY <1>1, <3>1, <3>3
  <2>3. IF done.tree = Null THEN done.src = <<>> ELSE <<done.src, done.tree>> \in P
    BY <1>6, <1>7 DEF LowersDone
  <2>4. t # Null /\ \E Q : P \subseteq Q /\ Lowering(Q, seen) /\ <<s, t>> \in Q
    <3>1. PICK f, b, u : f = done.tree /\ b = done.src /\ u = top.src
      OBVIOUS
    <3>2. (IF f = Null THEN b = <<>> ELSE <<b, f>> \in P) /\ <<u, a>> \in P /\ top.c # 0
      BY <2>1, <2>3, <3>1
    <3>3. s = IfOf(top.c, u, b) /\ t = [op |-> "Obranch", cond |-> IntExpr(top.c), t |-> a, f |-> f]
      BY <1>1, <2>2, <3>1
    <3> QED BY <1>7, <3>2, <3>3, IfLowered
  <2>5. PICK Q : P \subseteq Q /\ Lowering(Q, seen) /\ <<s, t>> \in Q
    BY <2>4
  <2>6. LowersDone(Q, d)
    BY <1>3, <2>4, <2>5 DEF LowersDone
  <2> QED BY <1>5, <2>5, <2>6
<1>8. Parsed' /\ Len(blocks') = Level(stack', Len(stack'))
  BY <1>1, <1>3, <1>4, <1>5, <1>6, <1>7, EndKeeps
<1> QED BY <1>5, <1>6, <1>8, ParsingTypes DEF Types

(* A while ends. *)
LEMMA EndWhileKeeps ==
  ASSUME Types, Parsed, EndWhile
  PROVE  Types' /\ Parsed' /\ CrashesAreHollow'
<1>1. PICK top, s, t, k : top = stack[Len(stack)] /\ s = WhileOf(top.c, done.src)
                          /\ t = Then(top.tree, done.tree) /\ k = Around(done.kind)
  OBVIOUS
<1>2. PICK d : d = Reduced(k, s, t)
  OBVIOUS
<1>3. d.kind \in {"open", "closed"} /\ d.src = s /\ d.tree = t
  BY <1>1, <1>2, AroundKind DEF Reduced
<1>4. PICK op : op = "while"
  OBVIOUS
<1>5. Ends(op, d) /\ See({}) /\ err' = err /\ status' = status /\ op # "block"
  BY <1>1, <1>2, <1>4 DEF EndWhile, Top
<1>6. /\ status = "parsing" /\ done.kind # "none"
      /\ stack[Len(stack)].op = op
      /\ stack' = SubSeq(stack, 1, Len(stack) - 1) /\ blocks' = blocks /\ done' = d
      /\ size' = size /\ size \in 0..MaxSize /\ void' = void
      /\ label' = label /\ code' = code /\ pc' = pc /\ ax' = ax
  BY <1>5, EndsFacts
<1>7. /\ seen' \subseteq {"do", "for", "hollow"} /\ seen \subseteq seen'
      /\ done.kind = "empty" => "hollow" \in seen'
  BY <1>5, SeeFacts
<1>8. ASSUME NEW P, Lowering(P, seen), LowersFrame(P, top), LowersDone(P, done)
      PROVE  \E Q : P \subseteq Q /\ Lowering(Q, seen') /\ LowersDone(Q, d)
  <2>1. PICK A : P \subseteq A /\ Lowering(A, seen') /\ <<done.src, done.tree>> \in A
    BY <1>6, <1>7, <1>8, BodyLowered
  <2>2. top.c # 0 /\ t = [op |-> "Owhile", cond |-> IntExpr(top.c), t |-> done.tree, f |-> Null]
    <3>1. PICK t0, op0 : t0 = top.tree /\ op0 = "Owhile"
      OBVIOUS
    <3>2. t0 = [op |-> op0, cond |-> IntExpr(top.c), t |-> Null, f |-> Null] /\ op0 # "Oexpr"
          /\ top.c # 0
      BY <1>1, <1>4, <1>6, <1>8, <3>1 DEF LowersFrame, Branch
    <3>3. Then(t0, done.tree) = [op |-> op0, cond |-> IntExpr(top.c), t |-> done.tree, f |-> Null]
      BY <3>2, BodyOfBranch
    <3> QED BY <1>1, <3>1, <3>2, <3>3
  <2>3. t # Null /\ \E Q : A \subseteq Q /\ Lowering(Q, seen') /\ <<s, t>> \in Q
    <3>1. IsExpr(IntExpr(top.c), top.c)
      BY <2>2, IntExprIsExpr
    <3> QED BY <1>1, <2>1, <2>2, <3>1, LoopLowered
  <2>4. PICK Q : A \subseteq Q /\ Lowering(Q, seen') /\ <<s, t>> \in Q
    BY <2>3
  <2>5. P \subseteq Q /\ LowersDone(Q, d)
    BY <1>3, <2>1, <2>3, <2>4 DEF LowersDone
  <2> QED BY <2>4, <2>5
<1>9. Parsed' /\ Len(blocks') = Level(stack', Len(stack'))
  BY <1>1, <1>3, <1>4, <1>5, <1>6, <1>8, EndKeeps
<1> QED BY <1>5, <1>6, <1>7, <1>9, ParsingTypes DEF Types
(* What there is on the stack and just reduced, when there is no error. *)
LEMMA TopLowered ==
  ASSUME Parsed, status = "parsing", ~err
  PROVE  \E P : /\ Lowering(P, seen) /\ LowersAll(P, stack, blocks, done)
                /\ LowersFrame(P, stack[Len(stack)]) /\ LowersDone(P, done)
<1>1. Shaped(stack, blocks, done)
  BY DEF Parsed
<1>2. PICK P : Lowering(P, seen) /\ LowersAll(P, stack, blocks, done)
  BY DEF Parsed
<1>3. Len(stack) \in 1..Len(stack)
  BY <1>1, HeadAndTail DEF Shaped
<1> QED BY <1>2, <1>3 DEF LowersAll

(* A for ends, or the compiler stops on it. *)
LEMMA EndForKeeps ==
  ASSUME Types, Parsed, EndFor
  PROVE  Types' /\ Parsed' /\ CrashesAreHollow'
<1>1. PICK top, s, t, k : /\ top = stack[Len(stack)]
                          /\ s = ForOf(top.i, top.c, top.n, done.src)
                          /\ t = AddForBody(top.tree, done.tree) /\ k = Around(done.kind)
  OBVIOUS
<1>2. PICK d : d = Reduced(k, s, t)
  OBVIOUS
<1>3. d.kind \in {"open", "closed"} /\ d.src = s /\ d.tree = t
  BY <1>1, <1>2, AroundKind DEF Reduced
<1>4. PICK what : what = (IF top.c = 0 THEN {"for"} ELSE {})
                         \cup (IF 0 \in {top.i, top.n} THEN {"hollow"} ELSE {})
  OBVIOUS
<1>5. See(what) /\ top.op = "for"
  BY <1>1, <1>4 DEF EndFor, Top, In
<1>6. /\ seen' \subseteq {"do", "for", "hollow"} /\ seen \subseteq seen' /\ what \subseteq seen'
      /\ done.kind = "empty" => "hollow" \in seen'
  BY <1>4, <1>5, SeeFacts
<1>7. /\ top.c = 0 => "for" \in seen'
      /\ top.i = 0 \/ top.n = 0 => "hollow" \in seen'
  BY <1>4, <1>6
<1>8. ASSUME NEW P, LowersFrame(P, top)
      PROVE  /\ top.tree = MakeFor(IntExpr(top.i), IntExpr(top.c), IntExpr(top.n))
             /\ IF top.i = 0 \/ top.n = 0 \/ done.tree = Null THEN t = Null ELSE t # Null
  <2>1. top.tree = MakeFor(IntExpr(top.i), IntExpr(top.c), IntExpr(top.n))
    BY <1>5, <1>8 DEF LowersFrame
  <2>2. PICK i, c, n, u : i = top.i /\ c = top.c /\ n = top.n /\ u = done.tree
    OBVIOUS
  <2>3. t = AddForBody(MakeFor(IntExpr(i), IntExpr(c), IntExpr(n)), u)
    BY <1>1, <2>1, <2>2
  <2>4. IF i = 0 \/ n = 0 \/ u = Null THEN t = Null ELSE t # Null
    BY <2>3, ForStops
  <2> QED BY <2>1, <2>2, <2>4
<1>9. CASE t # Null
  <2>1. PICK op : op = "for"
    OBVIOUS
  <2>2. Ends(op, d) /\ err' = err /\ status' = status /\ op # "block"
    BY <1>1, <1>2, <1>9, <2>1 DEF EndFor, Top
  <2>3. /\ status = "parsing" /\ done.kind # "none"
        /\ stack[Len(stack)].op = op
        /\ stack' = SubSeq(stack, 1, Len(stack) - 1) /\ blocks' = blocks /\ done' = d
        /\ size' = size /\ size \in 0..MaxSize /\ void' = void
        /\ label' = label /\ code' = code /\ pc' = pc /\ ax' = ax
    BY <2>2, EndsFacts
  <2>4. ASSUME NEW P, Lowering(P, seen), LowersFrame(P, top), LowersDone(P, done)
        PROVE  \E Q : P \subseteq Q /\ Lowering(Q, seen') /\ LowersDone(Q, d)
    <3>1. PICK A : P \subseteq A /\ Lowering(A, seen') /\ <<done.src, done.tree>> \in A
      BY <1>6, <2>3, <2>4, BodyLowered
    <3>2. PICK i, c, n, r, u : /\ i = top.i /\ c = top.c /\ n = top.n
                               /\ r = done.src /\ u = done.tree
      OBVIOUS
    <3>3. i # 0 /\ n # 0 /\ u # Null /\ (c = 0 => "for" \in seen')
      BY <1>7, <1>8, <1>9, <2>4, <3>2
    <3>4. t = AddForBody(MakeFor(IntExpr(i), IntExpr(c), IntExpr(n)), u) /\ s = ForOf(i, c, n, r)
          /\ <<r, u>> \in A
      BY <1>1, <1>8, <2>4, <3>1, <3>2
    <3>5. PICK Q : A \subseteq Q /\ Lowering(Q, seen') /\ <<s, t>> \in Q
      BY <3>1, <3>3, <3>4, ForLowered
    <3>6. P \subseteq Q /\ LowersDone(Q, d)
      BY <1>3, <1>9, <3>1, <3>5 DEF LowersDone
    <3> QED BY <3>5, <3>6
  <2>5. Parsed' /\ Len(blocks') = Level(stack', Len(stack'))
    BY <1>1, <1>3, <2>1, <2>2, <2>3, <2>4, EndKeeps
  <2> QED BY <1>6, <2>2, <2>3, <2>5, ParsingTypes DEF Types
<1>10. CASE t = Null
  <2>1. /\ status = "parsing" /\ done # None /\ status' = "crashed"
        /\ stack' = stack /\ blocks' = blocks /\ size' = size /\ void' = void /\ err' = err
        /\ label' = label /\ code' = code /\ pc' = pc /\ ax' = ax
    BY <1>1, <1>10 DEF EndFor, Top, emitter, program
  <2>2. ASSUME ~err
        PROVE  "hollow" \in seen'
    <3>1. PICK P : LowersFrame(P, top) /\ LowersDone(P, done)
      BY <1>1, <2>1, <2>2, TopLowered
    <3>2. top.i = 0 \/ top.n = 0 \/ done.tree = Null
      BY <1>8, <1>10, <3>1
    <3>3. done.kind # "none"
      BY <2>1 DEF Parsed, Shaped
    <3>4. done.tree = Null => done.kind = "empty"
      BY <3>1, <3>3 DEF LowersDone
    <3> QED BY <1>6, <1>7, <3>2, <3>4
  <2>3. Parsed' /\ CrashesAreHollow'
    BY <2>1, <2>2 DEF Parsed, CrashesAreHollow
  <2>4. Types'
    BY <1>6, <2>1 DEF Types, Statuses
  <2> QED BY <2>3, <2>4
<1> QED BY <1>9, <1>10

(* A do ends with its condition, and has been seen then. *)
LEMMA EndDoKeeps ==
  ASSUME Types, Parsed, EndDo
  PROVE  Types' /\ Parsed' /\ CrashesAreHollow'
<1>1. PICK ty \in ExprTypes :
        /\ Ends("do", Reduced("closed", DoOf(Top.c, done.src),
                              Then(MakeBranch("Odowhile", Expr(Top.c, ty)), done.tree)))
        /\ See({"do"})
        /\ Report(ty # "int")
        /\ status' = status
  BY DEF EndDo
<1>2. PICK top, s, t : top = stack[Len(stack)] /\ s = DoOf(top.c, done.src)
                       /\ t = Then(MakeBranch("Odowhile", Expr(top.c, ty)), done.tree)
  OBVIOUS
<1>3. PICK d : d = Reduced("closed", s, t)
  OBVIOUS
<1>4. d.kind = "closed" /\ d.src = s /\ d.tree = t
  BY <1>3 DEF Reduced
<1>5. PICK op : op = "do"
  OBVIOUS
<1>6. Ends(op, d) /\ op # "block"
  BY <1>1, <1>2, <1>3, <1>5 DEF Top
<1>7. /\ status = "parsing" /\ done.kind # "none"
      /\ stack[Len(stack)].op = op
      /\ stack' = SubSeq(stack, 1, Len(stack) - 1) /\ blocks' = blocks /\ done' = d
      /\ size' = size /\ size \in 0..MaxSize /\ void' = void
      /\ label' = label /\ code' = code /\ pc' = pc /\ ax' = ax
  BY <1>6, EndsFacts
<1>8. /\ seen' \subseteq {"do", "for", "hollow"} /\ seen \subseteq seen' /\ "do" \in seen'
      /\ done.kind = "empty" => "hollow" \in seen'
  BY <1>1, SeeFacts
<1>9. err' \in BOOLEAN /\ (~err' => ~err) /\ (~err' => ty = "int")
  BY <1>1 DEF Report, Types
<1>10. ASSUME ~err', NEW P, Lowering(P, seen), LowersFrame(P, top), LowersDone(P, done)
       PROVE  \E Q : P \subseteq Q /\ Lowering(Q, seen') /\ LowersDone(Q, d)
  <2>1. PICK A : P \subseteq A /\ Lowering(A, seen') /\ <<done.src, done.tree>> \in A
    BY <1>7, <1>8, <1>10, BodyLowered
  <2>2. top.c # 0
    BY <1>2, <1>5, <1>7, <1>10 DEF LowersFrame
  <2>3. t = [op |-> "Odowhile", cond |-> IntExpr(top.c), t |-> done.tree, f |-> Null]
    <3>1. PICK c, op0 : c = top.c /\ op0 = "Odowhile"
      OBVIOUS
    <3>2. MakeBranch(op0, Expr(c, "int")) = Branch(op0, IntExpr(c))
      BY <2>2, <3>1, ConditionTree
    <3>3. PICK t0 : t0 = Branch(op0, IntExpr(c))
      OBVIOUS
    <3>4. t0 = [op |-> op0, cond |-> IntExpr(c), t |-> Null, f |-> Null] /\ op0 # "Oexpr"
      BY <3>1, <3>3 DEF Branch
    <3>5. Then(t0, done.tree) = [op |-> op0, cond |-> IntExpr(c), t |-> done.tree, f |-> Null]
      BY <3>4, BodyOfBranch
    <3> QED BY <1>2, <1>9, <1>10, <3>1, <3>2, <3>3, <3>5
  <2>4. t # Null /\ \E Q : A \subseteq Q /\ Lowering(Q, seen') /\ <<s, t>> \in Q
    BY <1>2, <1>8, <2>1, <2>2, <2>3, DoLowered
  <2>5. PICK Q : A \subseteq Q /\ Lowering(Q, seen') /\ <<s, t>> \in Q
    BY <2>4
  <2>6. P \subseteq Q /\ LowersDone(Q, d)
    BY <1>4, <2>1, <2>4, <2>5 DEF LowersDone
  <2> QED BY <2>5, <2>6
<1>11. Parsed' /\ Len(blocks') = Level(stack', Len(stack'))
  BY <1>2, <1>4, <1>5, <1>6, <1>7, <1>9, <1>10, EndKeeps
<1> QED BY <1>1, <1>7, <1>8, <1>9, <1>11, ParsingTypes DEF Types
(* A statement ends in a block. *)
LEMMA EndOfStatementKeeps ==
  ASSUME Types, Parsed, EndOfStatement
  PROVE  Types' /\ Parsed' /\ CrashesAreHollow'
<1>1. /\ status = "parsing" /\ done # None /\ stack[Len(stack)].op = "block"
      /\ done' = None /\ err' = err /\ seen' = seen /\ status' = status
      /\ size' = size /\ void' = void /\ label' = label /\ code' = code /\ pc' = pc /\ ax' = ax
  BY DEF EndOfStatement, In, Top, emitter, program
<1>2. /\ Shaped(stack, blocks, done) /\ IsList(stack) /\ stack # <<>> /\ done.kind # "none"
      /\ IsList(blocks)
  BY <1>1 DEF Parsed, Shaped
<1>3. Len(stack) \in Nat \ {0} /\ Len(stack) \in 1..Len(stack)
  BY <1>2, HeadAndTail
<1>4. PICK top : top = stack[Len(stack)]
  OBVIOUS
<1>5. IsFrame(top) /\ top.op = "block"
  BY <1>1, <1>2, <1>3, <1>4 DEF Shaped
<1>6. PICK s : s = top.src \o done.src
  OBVIOUS
<1>7. PICK fr : fr = [op |-> top.op, i |-> top.i, c |-> top.c, n |-> top.n, src |-> s,
                      tree |-> top.tree]
  OBVIOUS
<1>8. IsReplaced(stack, fr, stack')
  <2>1. [top EXCEPT !.src = s] = fr
    BY <1>5, <1>7, FrameChanged
  <2>2. stack' = [stack EXCEPT ![Len(stack)] = [top EXCEPT !.src = s]]
    BY <1>4, <1>6 DEF EndOfStatement, Top
  <2> QED BY <2>1, <2>2 DEF IsReplaced
<1>9. IsFrame(fr) /\ fr.op = "block" /\ fr.src = s
  BY <1>5, <1>7 DEF IsFrame
<1>10. /\ IsList(stack') /\ Len(stack') = Len(stack) /\ stack'[Len(stack)] = fr
       /\ \A i \in 1..Len(stack) - 1 : stack'[i] = stack[i]
  BY <1>2, <1>8, Replaced
<1>11. Level(stack, Len(stack)) = Len(blocks) /\ Len(blocks) \in Nat \ {0} /\ blocks # <<>>
  <2>1. Level(stack, Len(stack)) \in 1..Level(stack, Len(stack))
    BY <1>1, <1>3, LevelOfBlock
  <2>2. Level(stack, Len(stack)) \in Nat /\ Level(stack, Len(stack)) = Len(blocks)
    BY <1>2, <1>3, LevelNumbers DEF Shaped
  <2>3. Len(blocks) \in Nat \ {0}
    BY <2>1, <2>2
  <2>4. blocks # <<>>
    BY <2>3
  <2> QED BY <2>2, <2>3, <2>4
<1>12. PICK ts : ts = IF done.tree = Null THEN blocks[Len(blocks)]
                      ELSE Append(blocks[Len(blocks)], done.tree)
  OBVIOUS
<1>13. /\ IsList(blocks') /\ Len(blocks') = Len(blocks) /\ blocks'[Len(blocks)] = ts
       /\ \A i \in 1..Len(blocks) - 1 : blocks'[i] = blocks[i]
  <2>1. CASE done.tree = Null
    BY <1>2, <1>12, <2>1 DEF EndOfStatement
  <2>2. CASE done.tree # Null
    <3>1. blocks' = [blocks EXCEPT ![Len(blocks)] = ts]
      BY <1>12, <2>2 DEF EndOfStatement
    <3>2. IsReplaced(blocks, ts, blocks')
      BY <3>1 DEF IsReplaced
    <3> QED BY <1>2, <1>11, <3>2, Replaced
  <2> QED BY <2>1, <2>2
<1>14. (fr.op = "block" <=> stack[Len(stack)].op = "block") /\ (fr.op # "block" => blocks' = blocks)
  BY <1>1, <1>9
<1>15. Shaped(stack', blocks', None)
  BY <1>2, <1>9, <1>10, <1>13, <1>14, ReplaceShaped
<1>16. ASSUME ~err'
       PROVE  \E P : Lowering(P, seen') /\ LowersAll(P, stack', blocks', None)
  <2>1. PICK P : Lowering(P, seen) /\ LowersAll(P, stack, blocks, done)
    BY <1>1, <1>16 DEF Parsed
  <2>2. LowersDone(P, done)
    BY <2>1 DEF LowersAll
  <2>3. PICK us : us = blocks[Len(blocks)]
    OBVIOUS
  <2>4. <<top.src, Seq_(us)>> \in P
    BY <1>3, <1>4, <1>5, <1>11, <2>1, <2>3 DEF LowersAll, LowersBlock
  <2>5. \E Q : P \subseteq Q /\ Lowering(Q, seen) /\ <<s, Seq_(ts)>> \in Q
    <3>1. CASE done.kind = "empty"
      <4>1. done.src = <<>> /\ done.tree = Null
        BY <2>2, <3>1 DEF LowersDone
      <4>2. ts = us /\ s = top.src
        <5>1. IsList(top.src)
          BY <2>1, <2>4 DEF Lowering, Lowers
        <5>2. top.src \o <<>> = top.src
          BY <5>1, ListOfOne, Concat
        <5> QED BY <1>6, <1>12, <2>3, <4>1, <5>2
      <4> QED BY <2>1, <2>4, <4>2
    <3>2. CASE done.kind # "empty"
      <4>1. <<done.src, done.tree>> \in P /\ done.tree # Null
        BY <1>2, <2>2, <3>2 DEF LowersDone
      <4>2. PICK r, u, p : r = done.src /\ u = done.tree /\ p = top.src
        OBVIOUS
      <4>3. <<p, Seq_(us)>> \in P /\ <<r, u>> \in P /\ s = p \o r /\ ts = Append(us, u)
        BY <1>6, <1>12, <2>3, <2>4, <4>1, <4>2
      <4>4. \E Q : P \subseteq Q /\ Lowering(Q, seen) /\ <<p \o r, Seq_(Append(us, u))>> \in Q
        BY <2>1, <4>3, AppendLowered
      <4> QED BY <4>3, <4>4
    <3> QED BY <3>1, <3>2
  <2>6. PICK Q : P \subseteq Q /\ Lowering(Q, seen) /\ <<s, Seq_(ts)>> \in Q
    BY <2>5
  <2>7. LowersAll(Q, stack, blocks, done)
    BY <2>1, <2>6, LowersAllMore
  <2>8. LowersFrame(Q, fr) /\ <<fr.src, Seq_(blocks'[Len(blocks)])>> \in Q
    BY <1>9, <1>13, <2>6 DEF LowersFrame
  <2>9. LowersAll(Q, stack', blocks', None)
    BY <1>2, <1>9, <1>10, <1>13, <1>14, <2>7, <2>8, ReplaceLowered
  <2> QED BY <1>1, <2>6, <2>9
<1>17. Parsed' /\ Len(blocks') = Level(stack', Len(stack'))
  BY <1>1, <1>15, <1>16 DEF Parsed, Shaped
<1> QED BY <1>1, <1>17, ParsingTypes DEF Types

(* A block closes, and what it holds becomes a statement. *)
LEMMA CloseBlockKeeps ==
  ASSUME Types, Parsed, CloseBlock
  PROVE  Types' /\ Parsed' /\ CrashesAreHollow'
<1>1. /\ status = "parsing" /\ done = None /\ stack[Len(stack)].op = "block" /\ Len(stack) > 1
      /\ err' = err /\ seen' = seen /\ status' = status
      /\ size' = size /\ void' = void /\ label' = label /\ code' = code /\ pc' = pc /\ ax' = ax
  BY DEF CloseBlock, In, Top, emitter, program
<1>2. Shaped(stack, blocks, done)
  BY <1>1 DEF Parsed
<1>3. PICK d : d = Reduced("closed", stack[Len(stack)].src, Seq_(blocks[Len(blocks)]))
  OBVIOUS
<1>4. d.kind = "closed" /\ d.src = stack[Len(stack)].src /\ d.tree = Seq_(blocks[Len(blocks)])
  BY <1>3 DEF Reduced
<1>5. done' = d /\ IsPopped(stack, stack') /\ IsPopped(blocks, blocks')
  BY <1>3 DEF CloseBlock, Top, LeaveBlock, IsPopped
<1>6. Shaped(stack', blocks', d)
  BY <1>1, <1>2, <1>4, <1>5, CloseShaped
<1>7. ASSUME ~err'
      PROVE  \E P : Lowering(P, seen') /\ LowersAll(P, stack', blocks', done')
  <2>1. PICK P : Lowering(P, seen) /\ LowersAll(P, stack, blocks, done)
    BY <1>1, <1>7 DEF Parsed
  <2>2. LowersAll(P, stack', blocks', d)
    BY <1>1, <1>2, <1>4, <1>5, <2>1, CloseShaped
  <2> QED BY <1>1, <1>5, <2>1, <2>2
<1>8. Parsed' /\ Len(blocks') = Level(stack', Len(stack'))
  BY <1>1, <1>5, <1>6, <1>7 DEF Parsed, Shaped
<1> QED BY <1>1, <1>8, ParsingTypes DEF Types
-----------------------------------------------------------------------------
(* The code: its labels are those of N, once each, and its jumps are to    *)
(* labels of J.                                                            *)
IsCode(x, N, J) ==
  /\ IsList(x)
  /\ \A i \in 1..Len(x) :
       /\ x[i] = Ins(x[i].op, x[i].arg)
       /\ x[i].op = "label" => x[i].arg \in N
       /\ x[i].op \in {"jmp", "je"} => x[i].arg \in J
  /\ \A l \in N : \E i \in 1..Len(x) :
       x[i] = Ins("label", l) /\ \A j \in 1..Len(x) : x[j] = Ins("label", l) => j = i

(* Code may have fewer jumps. *)
LEMMA MoreJumps ==
  ASSUME NEW x, NEW N, NEW J, NEW L, J \subseteq L, IsCode(x, N, J)
  PROVE  IsCode(x, N, L)
BY DEF IsCode

(* The code of a list that has no element. *)
LEMMA NoCode == IsCode(<<>>, {}, {})
BY ListOfOne DEF IsCode

(* The code of a single instruction. *)
LEMMA CodeOfOne ==
  ASSUME NEW op, NEW a
  PROVE  IsCode(<<Ins(op, a)>>, IF op = "label" THEN {a} ELSE {},
                IF op \in {"jmp", "je"} THEN {a} ELSE {})
<1>1. PICK x : x = Ins(op, a)
  OBVIOUS
<1>2. x.op = op /\ x.arg = a
  BY <1>1 DEF Ins
<1>3. PICK y : y = <<x>>
  OBVIOUS
<1>4. IsList(y) /\ Len(y) = 1 /\ y[1] = x /\ 1..1 = {1}
  BY <1>3, ListOfOne
<1>5. PICK N : N = IF op = "label" THEN {a} ELSE {}
  OBVIOUS
<1>6. PICK J : J = IF op \in {"jmp", "je"} THEN {a} ELSE {}
  OBVIOUS
<1>7. \A i \in 1..Len(y) : i = 1
  BY <1>4
<1>8. ASSUME NEW i \in 1..Len(y)
      PROVE  /\ y[i] = Ins(y[i].op, y[i].arg)
             /\ y[i].op = "label" => y[i].arg \in N
             /\ y[i].op \in {"jmp", "je"} => y[i].arg \in J
  BY <1>1, <1>2, <1>4, <1>5, <1>6, <1>7
<1>9. ASSUME NEW l \in N
      PROVE  \E i \in 1..Len(y) :
               y[i] = Ins("label", l) /\ \A j \in 1..Len(y) : y[j] = Ins("label", l) => j = i
  <2>1. op = "label" /\ l = a
    BY <1>5
  <2>2. 1 \in 1..Len(y) /\ y[1] = Ins("label", l)
    BY <1>1, <1>4, <2>1
  <2> QED BY <1>7, <2>2
<1>10. IsCode(y, N, J)
  BY <1>4, <1>8, <1>9 DEF IsCode
<1> QED BY <1>1, <1>3, <1>5, <1>6, <1>10

(* The code of a concatenation whose parts have no label in common. *)
LEMMA CodeOfConcat ==
  ASSUME NEW a, NEW b, NEW N, NEW M, NEW J, NEW L, IsCode(a, N, J), IsCode(b, M, L),
         \A l \in N : l \notin M
  PROVE  IsCode(a \o b, N \cup M, J \cup L)
<1>1. PICK x : x = a \o b
  OBVIOUS
<1>2. IsList(a) /\ IsList(b)
  BY DEF IsCode
<1>3. /\ IsList(x) /\ Len(a) \in Nat /\ Len(b) \in Nat
      /\ Len(x) = Len(a) + Len(b)
      /\ \A i \in 1..Len(a) : x[i] = a[i]
      /\ \A i \in 1..Len(b) : x[Len(a) + i] = b[i]
  BY <1>1, <1>2, Concat
<1>4. PICK n \in Nat : n = Len(a)
  BY <1>3
<1>5. PICK m \in Nat : m = Len(b)
  BY <1>3
<1>6. /\ Len(x) = n + m
      /\ \A i \in 1..n : x[i] = a[i]
      /\ \A i \in 1..m : x[n + i] = b[i]
  BY <1>3, <1>4, <1>5
<1>7. \A i \in 1..Len(x) : i \in 1..n \/ \E j \in 1..m : i = n + j
  <2>1. ASSUME NEW i \in 1..n + m, ~(i <= n)
        PROVE  \E j \in 1..m : i = n + j
    <3>1. i - n \in 1..m /\ i = n + (i - n)
      BY <2>1
    <3> QED BY <3>1
  <2> QED BY <1>6, <2>1
<1>8. /\ \A i \in 1..n : i \in 1..Len(x)
      /\ \A i \in 1..m : n + i \in 1..Len(x) /\ n + i \notin 1..n
  BY <1>6
<1>9. /\ \A i \in 1..n : /\ a[i] = Ins(a[i].op, a[i].arg)
                         /\ a[i].op = "label" => a[i].arg \in N
                         /\ a[i].op \in {"jmp", "je"} => a[i].arg \in J
      /\ \A i \in 1..m : /\ b[i] = Ins(b[i].op, b[i].arg)
                         /\ b[i].op = "label" => b[i].arg \in M
                         /\ b[i].op \in {"jmp", "je"} => b[i].arg \in L
  BY <1>4, <1>5 DEF IsCode
<1>10. ASSUME NEW i \in 1..Len(x)
       PROVE  /\ x[i] = Ins(x[i].op, x[i].arg)
              /\ x[i].op = "label" => x[i].arg \in N \cup M
              /\ x[i].op \in {"jmp", "je"} => x[i].arg \in J \cup L
  <2>1. CASE i \in 1..n
    BY <1>6, <1>9, <2>1
  <2>2. CASE \E j \in 1..m : i = n + j
    BY <1>6, <1>9, <2>2
  <2> QED BY <1>7, <2>1, <2>2
<1>11. \A l : /\ \A i \in 1..n : a[i] = Ins("label", l) => l \in N
              /\ \A i \in 1..m : b[i] = Ins("label", l) => l \in M
  <2>1. \A l : Ins("label", l).op = "label" /\ Ins("label", l).arg = l
    BY DEF Ins
  <2> QED BY <1>9, <2>1
<1>12. ASSUME NEW l \in N
       PROVE  \E i \in 1..Len(x) :
                x[i] = Ins("label", l) /\ \A j \in 1..Len(x) : x[j] = Ins("label", l) => j = i
  <2>1. PICK i \in 1..n : a[i] = Ins("label", l) /\ \A j \in 1..n : a[j] = Ins("label", l) => j = i
    BY <1>4 DEF IsCode
  <2>2. ASSUME NEW j \in 1..Len(x), x[j] = Ins("label", l)
        PROVE  j = i
    BY <1>6, <1>7, <1>11, <2>1, <2>2
  <2> QED BY <1>6, <1>8, <2>1, <2>2
<1>13. ASSUME NEW l \in M
       PROVE  \E i \in 1..Len(x) :
                x[i] = Ins("label", l) /\ \A j \in 1..Len(x) : x[j] = Ins("label", l) => j = i
  <2>1. PICK i \in 1..m : b[i] = Ins("label", l) /\ \A j \in 1..m : b[j] = Ins("label", l) => j = i
    BY <1>5 DEF IsCode
  <2>2. ASSUME NEW j \in 1..Len(x), x[j] = Ins("label", l)
        PROVE  j = n + i
    <3>1. ASSUME j \in 1..n
          PROVE  FALSE
      <4>1. a[j] = Ins("label", l)
        BY <1>6, <2>2, <3>1
      <4> QED BY <1>11, <3>1, <4>1
    <3>2. PICK k \in 1..m : j = n + k
      BY <1>7, <3>1
    <3>3. b[k] = Ins("label", l)
      BY <1>6, <2>2, <3>2
    <3> QED BY <2>1, <3>2, <3>3
  <2> QED BY <1>6, <1>8, <2>1, <2>2
<1>14. IsCode(x, N \cup M, J \cup L)
  BY <1>3, <1>10, <1>12, <1>13 DEF IsCode
<1> QED BY <1>1, <1>14

(* The code that is left without its first instruction. *)
LEMMA CodeOfTail ==
  ASSUME NEW h, NEW b, IsList(b), NEW N, NEW J, IsCode(<<h>> \o b, N, J)
  PROVE  /\ h = Ins(h.op, h.arg)
         /\ h.op = "label" => h.arg \in N
         /\ h.op \in {"jmp", "je"} => h.arg \in J
         /\ IsCode(b, IF h.op = "label" THEN N \ {h.arg} ELSE N, J)
<1>1. PICK x : x = <<h>> \o b
  OBVIOUS
<1>2. /\ Len(b) \in Nat /\ Len(x) = 1 + Len(b) /\ x[1] = h
      /\ \A i \in 1..Len(b) : x[1 + i] = b[i]
  <2>1. IsList(<<h>>) /\ Len(<<h>>) = 1 /\ <<h>>[1] = h /\ 1 \in 1..1
    BY ListOfOne
  <2> QED BY <1>1, <2>1, Concat
<1>3. PICK m \in Nat : m = Len(b)
  BY <1>2
<1>4. Len(x) = 1 + m /\ \A i \in 1..m : x[1 + i] = b[i] /\ 1 + i \in 1..Len(x) /\ 1 + i # 1
  BY <1>2, <1>3
<1>5. 1 \in 1..Len(x) /\ \A i \in 1..Len(x) : i = 1 \/ \E j \in 1..m : i = 1 + j
  <2>1. ASSUME NEW i \in 1..1 + m, i # 1
        PROVE  \E j \in 1..m : i = 1 + j
    <3>1. i - 1 \in 1..m /\ i = 1 + (i - 1)
      BY <2>1
    <3> QED BY <3>1
  <2> QED BY <1>4, <2>1
<1>6. /\ \A i \in 1..Len(x) :
           /\ x[i] = Ins(x[i].op, x[i].arg)
           /\ x[i].op = "label" => x[i].arg \in N
           /\ x[i].op \in {"jmp", "je"} => x[i].arg \in J
      /\ \A l \in N : \E i \in 1..Len(x) :
           x[i] = Ins("label", l) /\ \A j \in 1..Len(x) : x[j] = Ins("label", l) => j = i
  BY <1>1 DEF IsCode
<1>7. PICK M : M = IF h.op = "label" THEN N \ {h.arg} ELSE N
  OBVIOUS
<1>8. \A l : Ins("label", l).op = "label" /\ Ins("label", l).arg = l
  BY DEF Ins
<1>9. ASSUME NEW i \in 1..m
      PROVE  /\ b[i] = Ins(b[i].op, b[i].arg)
             /\ b[i].op = "label" => b[i].arg \in M
             /\ b[i].op \in {"jmp", "je"} => b[i].arg \in J
  <2>1. x[1 + i] = b[i] /\ 1 + i \in 1..Len(x) /\ 1 + i # 1
    BY <1>4
  <2>2. /\ b[i] = Ins(b[i].op, b[i].arg)
        /\ b[i].op = "label" => b[i].arg \in N
        /\ b[i].op \in {"jmp", "je"} => b[i].arg \in J
    BY <1>6, <2>1
  <2>3. ASSUME b[i].op = "label", h.op = "label", b[i].arg = h.arg
        PROVE  FALSE
    <3>1. x[1 + i] = Ins("label", h.arg) /\ x[1] = Ins("label", h.arg) /\ h.arg \in N
      BY <1>2, <1>5, <1>6, <2>1, <2>2, <2>3
    <3> QED BY <1>5, <1>6, <2>1, <3>1
  <2> QED BY <1>7, <2>2, <2>3
<1>10. ASSUME NEW l \in M
       PROVE  \E i \in 1..m :
                b[i] = Ins("label", l) /\ \A j \in 1..m : b[j] = Ins("label", l) => j = i
  <2>1. PICK k \in 1..Len(x) :
          x[k] = Ins("label", l) /\ \A j \in 1..Len(x) : x[j] = Ins("label", l) => j = k
    BY <1>6, <1>7
  <2>2. k # 1
    BY <1>2, <1>7, <1>8, <2>1
  <2>3. PICK i \in 1..m : k = 1 + i
    BY <1>5, <2>2
  <2>4. b[i] = Ins("label", l)
    BY <1>4, <2>1, <2>3
  <2>5. ASSUME NEW j \in 1..m, b[j] = Ins("label", l)
        PROVE  j = i
    <3>1. 1 + j = 1 + i
      BY <1>4, <2>1, <2>3, <2>5
    <3> QED BY <3>1
  <2> QED BY <2>4, <2>5
<1>11. IsCode(b, M, J)
  BY <1>3, <1>9, <1>10 DEF IsCode
<1> QED BY <1>2, <1>5, <1>6, <1>7, <1>11
-----------------------------------------------------------------------------
(* What is printed and walked: code, whose trees are expressions or what   *)
(* the source was lowered to.                                              *)
Grown(P, t) == t.op \in {"Oexpr", "Oconst"} \/ \E s : <<s, t>> \in P
Walkable(P, x) == \A i \in 1..Len(x) : x[i].op = "tree" => Grown(P, x[i].arg)
Emits(P, x, N, J) == IsCode(x, N, J) /\ Walkable(P, x)

(* Nothing is printed. *)
LEMMA EmitsNothing ==
  ASSUME NEW P, NEW J
  PROVE  Emits(P, <<>>, {}, J)
<1>1. IsCode(<<>>, {}, J)
  BY NoCode, MoreJumps
<1>2. Walkable(P, <<>>)
  BY DEF Walkable
<1> QED BY <1>1, <1>2 DEF Emits

(* A single instruction is printed, or a single tree is walked. *)
LEMMA EmitsOne ==
  ASSUME NEW P, NEW op, NEW a, NEW J,
         op = "tree" => Grown(P, a), op \in {"jmp", "je"} => a \in J,
         NEW N, N = IF op = "label" THEN {a} ELSE {}
  PROVE  Emits(P, <<Ins(op, a)>>, N, J)
<1>1. IsCode(<<Ins(op, a)>>, N, J)
  <2>1. PICK L : L = IF op \in {"jmp", "je"} THEN {a} ELSE {}
    OBVIOUS
  <2>2. IsCode(<<Ins(op, a)>>, N, L)
    BY <2>1, CodeOfOne
  <2>3. L \subseteq J
    BY <2>1
  <2> QED BY <2>2, <2>3, MoreJumps
<1>2. Walkable(P, <<Ins(op, a)>>)
  <2>1. PICK x : x = Ins(op, a)
    OBVIOUS
  <2>2. x.op = op /\ x.arg = a
    BY <2>1 DEF Ins
  <2>3. PICK y : y = <<x>>
    OBVIOUS
  <2>4. Len(y) = 1 /\ y[1] = x
    BY <2>3
  <2>5. \A i \in 1..Len(y) : y[i] = x
    BY <2>4
  <2>6. Walkable(P, y)
    BY <2>2, <2>5 DEF Walkable
  <2> QED BY <2>1, <2>3, <2>6
<1> QED BY <1>1, <1>2 DEF Emits

(* One after the other. *)
LEMMA EmitsBoth ==
  ASSUME NEW P, NEW a, NEW b, NEW N, NEW M, NEW J, Emits(P, a, N, J), Emits(P, b, M, J),
         \A l \in N : l \notin M, NEW K, K = N \cup M
  PROVE  Emits(P, a \o b, K, J)
<1>1. IsCode(a, N, J) /\ IsCode(b, M, J) /\ Walkable(P, a) /\ Walkable(P, b)
  BY DEF Emits
<1>2. IsCode(a \o b, K, J)
  <2>1. IsCode(a \o b, N \cup M, J \cup J)
    BY <1>1, CodeOfConcat
  <2> QED BY <2>1
<1>3. PICK x : x = a \o b
  OBVIOUS
<1>4. /\ Len(a) \in Nat /\ Len(b) \in Nat
      /\ Len(x) = Len(a) + Len(b)
      /\ \A i \in 1..Len(a) : x[i] = a[i]
      /\ \A i \in 1..Len(b) : x[Len(a) + i] = b[i]
  BY <1>1, <1>3, Concat DEF IsCode
<1>5. ASSUME NEW i \in 1..Len(x), x[i].op = "tree"
      PROVE  Grown(P, x[i].arg)
  <2>1. CASE i \in 1..Len(a)
    BY <1>1, <1>4, <1>5, <2>1 DEF Walkable
  <2>2. CASE i \notin 1..Len(a)
    <3>1. PICK j \in 1..Len(b) : i = Len(a) + j
      <4>1. i - Len(a) \in 1..Len(b) /\ i = Len(a) + (i - Len(a))
        BY <1>4, <2>2
      <4> QED BY <4>1
    <3>2. x[i] = b[j]
      BY <1>4, <3>1
    <3> QED BY <1>1, <1>5, <3>2 DEF Walkable
  <2> QED BY <2>1, <2>2
<1> QED BY <1>2, <1>3, <1>5 DEF Emits, Walkable

(* The first of it. *)
LEMMA EmitsFirst ==
  ASSUME NEW P, NEW h, NEW b, IsList(b), NEW N, NEW J, Emits(P, <<h>> \o b, N, J)
  PROVE  /\ h = Ins(h.op, h.arg)
         /\ h.op = "label" => h.arg \in N
         /\ h.op \in {"jmp", "je"} => h.arg \in J
         /\ h.op = "tree" => Grown(P, h.arg)
         /\ Emits(P, b, IF h.op = "label" THEN N \ {h.arg} ELSE N, J)
<1>1. /\ h = Ins(h.op, h.arg)
      /\ h.op = "label" => h.arg \in N
      /\ h.op \in {"jmp", "je"} => h.arg \in J
      /\ IsCode(b, IF h.op = "label" THEN N \ {h.arg} ELSE N, J)
  BY CodeOfTail DEF Emits
<1>2. PICK x : x = <<h>> \o b
  OBVIOUS
<1>3. /\ Len(b) \in Nat /\ Len(x) = 1 + Len(b) /\ x[1] = h
      /\ \A i \in 1..Len(b) : x[1 + i] = b[i]
  <2>1. IsList(<<h>>) /\ Len(<<h>>) = 1 /\ <<h>>[1] = h /\ 1 \in 1..1
    BY ListOfOne
  <2> QED BY <1>2, <2>1, Concat
<1>4. 1 \in 1..Len(x) /\ \A i \in 1..Len(b) : 1 + i \in 1..Len(x)
  BY <1>3
<1>5. Walkable(P, x)
  BY <1>2 DEF Emits
<1>6. h.op = "tree" => Grown(P, h.arg)
  BY <1>3, <1>4, <1>5 DEF Walkable
<1>7. Walkable(P, b)
  BY <1>3, <1>4, <1>5 DEF Walkable
<1> QED BY <1>1, <1>6, <1>7 DEF Emits

(* It may be given more jumps. *)
LEMMA EmitsJumps ==
  ASSUME NEW P, NEW x, NEW N, NEW J, NEW L, J \subseteq L, Emits(P, x, N, J)
  PROVE  Emits(P, x, N, L)
BY MoreJumps DEF Emits

(* What is printed and walked for an if. *)
LEMMA BranchEmits ==
  ASSUME NEW P, NEW k, NEW a, NEW b, NEW f, NEW h \in BOOLEAN, NEW J,
         <<"branch.else", k>> \in J, <<"branch.end", k>> \in J,
         Emits(P, a, {}, J), Emits(P, b, {}, J), Emits(P, f, {}, J)
  PROVE  Emits(P, BranchCode(k, a, b, f, h), {<<"branch.else", k>>, <<"branch.end", k>>}, J)
<1>1. PICK m : m = <<"branch.else", k>>
  OBVIOUS
<1>2. PICK e : e = <<"branch.end", k>>
  OBVIOUS
<1>3. m \in J /\ e \in J /\ m # e
  BY <1>1, <1>2
<1>4. /\ Emits(P, Je(m), {}, J) /\ Emits(P, Jmp(e), {}, J) /\ Emits(P, <<>>, {}, J)
      /\ Emits(P, Label(m), {m}, J) /\ Emits(P, Label(e), {e}, J)
  BY <1>3, EmitsOne, EmitsNothing DEF Je, Jmp, Label
<1>5. PICK g : g = IF h THEN Jmp(e) ELSE <<>>
  OBVIOUS
<1>6. Emits(P, g, {}, J)
  BY <1>4, <1>5
<1>7. Emits(P, a \o Je(m), {}, J)
  BY <1>4, EmitsBoth
<1>8. Emits(P, a \o Je(m) \o b, {}, J)
  BY <1>7, EmitsBoth
<1>9. Emits(P, a \o Je(m) \o b \o g, {}, J)
  BY <1>6, <1>8, EmitsBoth
<1>10. Emits(P, a \o Je(m) \o b \o g \o Label(m), {m}, J)
  BY <1>4, <1>9, EmitsBoth
<1>11. Emits(P, a \o Je(m) \o b \o g \o Label(m) \o f, {m}, J)
  BY <1>10, EmitsBoth
<1>12. Emits(P, a \o Je(m) \o b \o g \o Label(m) \o f \o Label(e), {m, e}, J)
  BY <1>3, <1>4, <1>11, EmitsBoth
<1>13. BranchCode(k, a, b, f, h) = a \o Je(m) \o b \o g \o Label(m) \o f \o Label(e)
  BY <1>1, <1>2, <1>5 DEF BranchCode
<1> QED BY <1>1, <1>2, <1>12, <1>13

(* What is printed and walked for a loop. *)
LEMMA LoopEmits ==
  ASSUME NEW P, NEW k, NEW a, NEW b, NEW op, NEW J, NEW N,
         <<"while.cond", k>> \in J, <<"while.after", k>> \in J,
         op = "Odowhile" => <<"while.body:", k>> \in J,
         N = {<<"while.cond", k>>, <<"while.after", k>>}
             \cup (IF op = "Odowhile" THEN {<<"while.body", k>>} ELSE {}),
         Emits(P, a, {}, J), Emits(P, b, {}, J)
  PROVE  Emits(P, LoopCode(op, k, a, b), N, J)
<1>1. PICK c : c = <<"while.cond", k>>
  OBVIOUS
<1>2. PICK d : d = <<"while.after", k>>
  OBVIOUS
<1>3. PICK y : y = <<"while.body", k>>
  OBVIOUS
<1>4. PICK z : z = <<"while.body:", k>>
  OBVIOUS
<1>5. c \in J /\ d \in J /\ c # d /\ c # y /\ d # y /\ (op = "Odowhile" => z \in J)
  BY <1>1, <1>2, <1>3, <1>4
<1>6. /\ Emits(P, Je(d), {}, J) /\ Emits(P, Jmp(c), {}, J) /\ Emits(P, <<>>, {}, J)
      /\ Emits(P, Label(c), {c}, J) /\ Emits(P, Label(d), {d}, J) /\ Emits(P, Label(y), {y}, J)
      /\ op = "Odowhile" => Emits(P, Jmp(z), {}, J)
  BY <1>5, EmitsOne, EmitsNothing DEF Je, Jmp, Label
<1>7. PICK g : g = IF op = "Odowhile" THEN Jmp(z) ELSE <<>>
  OBVIOUS
<1>8. PICK l : l = IF op = "Odowhile" THEN Label(y) ELSE <<>>
  OBVIOUS
<1>9. PICK Y : Y = IF op = "Odowhile" THEN {y} ELSE {}
  OBVIOUS
<1>10. Emits(P, g, {}, J) /\ Emits(P, l, Y, J)
  BY <1>6, <1>7, <1>8, <1>9
<1>11. Emits(P, g \o Label(c), {c}, J)
  BY <1>6, <1>10, EmitsBoth
<1>12. Emits(P, g \o Label(c) \o a, {c}, J)
  BY <1>11, EmitsBoth
<1>13. Emits(P, g \o Label(c) \o a \o Je(d), {c}, J)
  BY <1>6, <1>12, EmitsBoth
<1>14. PICK A : A = {c} \cup Y
  OBVIOUS
<1>15. Emits(P, g \o Label(c) \o a \o Je(d) \o l, A, J)
  <2>1. \A x \in {c} : x \notin Y
    BY <1>5, <1>9
  <2> QED BY <1>10, <1>13, <1>14, <2>1, EmitsBoth
<1>16. Emits(P, g \o Label(c) \o a \o Je(d) \o l \o b, A, J)
  BY <1>15, EmitsBoth
<1>17. Emits(P, g \o Label(c) \o a \o Je(d) \o l \o b \o Jmp(c), A, J)
  BY <1>6, <1>16, EmitsBoth
<1>18. Emits(P, g \o Label(c) \o a \o Je(d) \o l \o b \o Jmp(c) \o Label(d), N, J)
  <2>1. \A x \in A : x \notin {d}
    BY <1>5, <1>9, <1>14
  <2>2. N = A \cup {d}
    BY <1>1, <1>2, <1>3, <1>9, <1>14
  <2> QED BY <1>6, <1>17, <2>1, <2>2, EmitsBoth
<1>19. LoopCode(op, k, a, b) = g \o Label(c) \o a \o Je(d) \o l \o b \o Jmp(c) \o Label(d)
  BY <1>1, <1>2, <1>3, <1>4, <1>7, <1>8 DEF LoopCode
<1> QED BY <1>18, <1>19
-----------------------------------------------------------------------------
(* While the code is emitted, its labels are numbered and defined once     *)
(* each; only the jump into a do is to another.                            *)
Numbered(l, k) == l = RetLabel \/ \E name : \E n \in Nat : n < k /\ l = <<name, n>>
Labelled(P, N, M, J) ==
  /\ Lowering(P, seen)
  /\ Emits(P, code, N, J) /\ Emits(P, work, M, J)
  /\ \A l \in N : l \notin M
  /\ RetLabel \in N \cup M
  /\ \A l \in N \cup M : Numbered(l, label)
  /\ "do" \notin seen => J \subseteq N \cup M
Emitted == status = "emitting" => \E P, N, M, J : Labelled(P, N, M, J)

(* It ends with the label of the epilogue. *)
EndsInReturn(x) == \E w : IsList(w) /\ x = w \o Label(RetLabel)
Ended ==
  /\ status = "emitting" => EndsInReturn(IF work = <<>> THEN code ELSE work)
  /\ status = "running" => EndsInReturn(code) /\ Assembles(code) /\ pc \in 1..Len(code)

(* What is printed and walked for a tree. *)
Expansion(P, sn, k, k2, x) ==
  \E M, L :
    /\ Emits(P, x, M, L)
    /\ \A l \in M : k < k2 /\ \E name : name # "ret" /\ l = <<name, k>>
    /\ "do" \notin sn => L \subseteq M \cup {RetLabel}

(* What a tree of each operator was lowered from. *)
LEMMA ByOperator ==
  ASSUME NEW P, NEW sn, NEW s, NEW t, Lowers(P, sn, s, t)
  PROVE  /\ t.op = "NULL" => LowersNull(sn, s, t)
         /\ t.op = "Oexpr" => LowersExpr(s, t)
         /\ t.op = "Oret" => LowersRet(s, t)
         /\ t.op = "Obranch" => LowersBranch(P, s, t)
         /\ t.op = "Owhile" => LowersWhile(P, sn, s, t)
         /\ t.op = "Odowhile" => LowersDo(P, sn, s, t)
         /\ t.op = "Oseq" => LowersSeq(P, s, t)
         /\ t.op # "Oconst"
<1>1. /\ LowersNull(sn, s, t) => t.op = "NULL"
      /\ LowersExpr(s, t) => t.op = "Oexpr"
      /\ LowersRet(s, t) => t.op = "Oret"
  BY DEF LowersNull, LowersExpr, LowersRet, IsExpr
<1>2. /\ LowersBranch(P, s, t) => t.op = "Obranch"
      /\ LowersWhile(P, sn, s, t) => t.op = "Owhile"
      /\ LowersDo(P, sn, s, t) => t.op = "Odowhile"
  BY DEF LowersBranch, LowersWhile, LowersDo
<1>3. LowersSeq(P, s, t) => t.op = "Oseq"
  BY DEF LowersSeq, Seq_
<1> QED BY <1>1, <1>2, <1>3 DEF Lowers

(* A tree that is no expression was lowered from something. *)
LEMMA GrownLowers ==
  ASSUME NEW P, NEW sn, Lowering(P, sn), NEW t, Grown(P, t), t.op \notin {"Oexpr", "Oconst"}
  PROVE  \E s : <<s, t>> \in P /\ Lowers(P, sn, s, t)
BY DEF Grown, Lowering

(* The first of what is still to print and to walk. *)
LEMMA FirstOfWork ==
  ASSUME NEW P, NEW N, NEW M, NEW J, Labelled(P, N, M, J), work # <<>>
  PROVE  /\ IsList(work) /\ IsList(Tail(work)) /\ work = <<Head(work)>> \o Tail(work)
         /\ Head(work) = Ins(Head(work).op, Head(work).arg)
         /\ Head(work).op = "label" => Head(work).arg \in M
         /\ Head(work).op \in {"jmp", "je"} => Head(work).arg \in J
         /\ Head(work).op = "tree" => Grown(P, Head(work).arg)
         /\ Emits(P, Tail(work), IF Head(work).op = "label" THEN M \ {Head(work).arg} ELSE M, J)
<1>1. IsList(work) /\ Emits(P, work, M, J)
  BY DEF Labelled, Emits, IsCode
<1>2. IsList(Tail(work)) /\ work = <<Head(work)>> \o Tail(work)
  BY <1>1, HeadAndTail
<1>3. PICK h : h = Head(work)
  OBVIOUS
<1>4. PICK b : b = Tail(work)
  OBVIOUS
<1>5. IsList(b) /\ Emits(P, <<h>> \o b, M, J)
  BY <1>1, <1>2, <1>3, <1>4
<1>6. /\ h = Ins(h.op, h.arg)
      /\ h.op = "label" => h.arg \in M
      /\ h.op \in {"jmp", "je"} => h.arg \in J
      /\ h.op = "tree" => Grown(P, h.arg)
      /\ Emits(P, b, IF h.op = "label" THEN M \ {h.arg} ELSE M, J)
  BY <1>5, EmitsFirst
<1> QED BY <1>1, <1>2, <1>3, <1>4, <1>6

(* The label of the epilogue stays the last, as what is before changes. *)
LEMMA ReturnStaysLast ==
  ASSUME NEW w, EndsInReturn(w), IsList(w)
  PROVE  /\ w # <<>>
         /\ IF Tail(w) = <<>> THEN Head(w) = Ins("label", RetLabel) ELSE EndsInReturn(Tail(w))
         /\ \A x : IsList(x) /\ Tail(w) # <<>> => EndsInReturn(x \o Tail(w))
<1>1. PICK u : IsList(u) /\ w = u \o Label(RetLabel)
  BY DEF EndsInReturn
<1>2. PICK r : r = Ins("label", RetLabel)
  OBVIOUS
<1>3. Label(RetLabel) = <<r>> /\ IsList(<<r>>)
  BY <1>2, ListOfOne DEF Label
<1>4. CASE u = <<>>
  <2>1. w = <<r>>
    BY <1>1, <1>3, <1>4, Concat
  <2>2. Head(w) = r /\ Tail(w) = <<>> /\ w # <<>>
    BY <2>1
  <2> QED BY <1>2, <2>2
<1>5. CASE u # <<>>
  <2>1. w # <<>> /\ Tail(w) = Tail(u) \o <<r>> /\ IsList(Tail(u))
    BY <1>1, <1>3, <1>5, HeadOfConcat, HeadAndTail
  <2>2. EndsInReturn(Tail(w))
    BY <1>3, <2>1 DEF EndsInReturn
  <2>3. Tail(u) \o <<r>> # <<>>
    <3>1. Len(Tail(u) \o <<r>>) = Len(Tail(u)) + 1 /\ Len(Tail(u)) \in Nat
      BY <1>3, <2>1, Concat
    <3> QED BY <3>1
  <2>4. ASSUME NEW x, IsList(x)
        PROVE  EndsInReturn(x \o Tail(w))
    <3>1. x \o (Tail(u) \o <<r>>) = (x \o Tail(u)) \o <<r>> /\ IsList(x \o Tail(u))
      <4>1. PICK v : v = Tail(u)
        OBVIOUS
      <4>2. IsList(v) /\ IsList(<<r>>)
        BY <1>3, <2>1, <4>1
      <4>3. (x \o v) \o <<r>> = x \o (v \o <<r>>)
        BY <2>4, <4>2, Associative
      <4>4. IsList(x \o v)
        BY <2>4, <4>2, Concat
      <4> QED BY <4>1, <4>3, <4>4
    <3> QED BY <1>3, <2>1, <3>1 DEF EndsInReturn
  <2> QED BY <2>1, <2>2, <2>3, <2>4
<1> QED BY <1>4, <1>5

(* A tree becomes what is printed and walked for it. *)
LEMMA Expands ==
  ASSUME Emitted, Ended, status = "emitting", work # <<>>, Head(work).op = "tree",
         NEW x, work' = x \o Tail(work), code' = code, status' = status, seen' = seen,
         label \in Nat, label' \in Nat, label <= label',
         \A P : Lowering(P, seen) /\ Grown(P, Head(work).arg) =>
                  Expansion(P, seen, label, label', x)
  PROVE  Emitted' /\ Ended'
<1>1. PICK P, N, M, J : Labelled(P, N, M, J)
  BY DEF Emitted
<1>2. /\ Lowering(P, seen) /\ Emits(P, code, N, J)
      /\ \A l \in N : l \notin M
      /\ RetLabel \in N \cup M
      /\ \A l \in N \cup M : Numbered(l, label)
      /\ "do" \notin seen => J \subseteq N \cup M
  BY <1>1 DEF Labelled
<1>3. Grown(P, Head(work).arg) /\ Emits(P, Tail(work), M, J) /\ IsList(Tail(work)) /\ IsList(work)
  BY <1>1, FirstOfWork
<1>4. PICK A, L : /\ Emits(P, x, A, L)
                  /\ \A l \in A : label < label' /\ \E name : name # "ret" /\ l = <<name, label>>
                  /\ "do" \notin seen => L \subseteq A \cup {RetLabel}
  BY <1>2, <1>3 DEF Expansion
<1>5. PICK K : K = J \cup L
  OBVIOUS
<1>6. Emits(P, x, A, K) /\ Emits(P, Tail(work), M, K) /\ Emits(P, code, N, K)
  BY <1>2, <1>3, <1>4, <1>5, EmitsJumps
<1>7. ASSUME NEW l \in A, Numbered(l, label)
      PROVE  FALSE
  <2>1. PICK name : name # "ret" /\ l = <<name, label>>
    BY <1>4
  <2>2. l # RetLabel
    BY <2>1 DEF RetLabel
  <2> QED BY <1>7, <2>1, <2>2 DEF Numbered
<1>8. PICK B : B = A \cup M
  OBVIOUS
<1>9. Emits(P, work', B, K)
  BY <1>2, <1>6, <1>7, <1>8, EmitsBoth
<1>10. \A l \in N : l \notin B
  BY <1>2, <1>7, <1>8
<1>11. ASSUME NEW l \in N \cup B
       PROVE  Numbered(l, label')
  <2>1. CASE l \in A
    <3>1. label < label' /\ \E name : l = <<name, label>>
      BY <1>4, <2>1
    <3> QED BY <3>1 DEF Numbered
  <2>2. CASE l \in N \cup M
    <3>1. Numbered(l, label)
      BY <1>2, <2>2
    <3>2. CASE l = RetLabel
      BY <3>2 DEF Numbered
    <3>3. CASE \E name : \E n \in Nat : n < label /\ l = <<name, n>>
      <4>1. PICK name, n : n \in Nat /\ n < label /\ l = <<name, n>>
        BY <3>3
      <4>2. n < label'
        BY <4>1
      <4> QED BY <4>1, <4>2 DEF Numbered
    <3> QED BY <3>1, <3>2, <3>3 DEF Numbered
  <2> QED BY <1>8, <2>1, <2>2
<1>12. "do" \notin seen => K \subseteq N \cup B
  BY <1>2, <1>4, <1>5, <1>8
<1>13. Labelled(P, N, B, K)'
  BY <1>2, <1>6, <1>8, <1>9, <1>10, <1>11, <1>12 DEF Labelled
<1>14. EndsInReturn(work)
  BY DEF Ended
<1>15. Tail(work) # <<>>
  <2>1. IF Tail(work) = <<>> THEN Head(work) = Ins("label", RetLabel) ELSE TRUE
    BY <1>3, <1>14, ReturnStaysLast
  <2>2. Ins("label", RetLabel).op = "label"
    BY DEF Ins
  <2> QED BY <2>1, <2>2
<1>16. IsList(x)
  BY <1>4 DEF Emits, IsCode
<1>17. EndsInReturn(work')
  BY <1>3, <1>14, <1>15, <1>16, ReturnStaysLast
<1>18. work' # <<>>
  <2>1. PICK u : IsList(u) /\ work' = u \o Label(RetLabel)
    BY <1>17 DEF EndsInReturn
  <2>2. Len(u \o Label(RetLabel)) = Len(u) + 1 /\ Len(u) \in Nat
    BY <2>1, Concat, ListOfOne DEF Label
  <2> QED BY <2>1, <2>2
<1>19. Ended'
  BY <1>17, <1>18 DEF Ended
<1> QED BY <1>13, <1>19 DEF Emitted

(* The length of a list. *)
LEMMA ListLength == ASSUME NEW a, IsList(a) PROVE Len(a) \in Nat
BY DEF IsList

(* What stays in a step of tree(). *)
LEMMA EmittingTypes ==
  ASSUME Types, status = "emitting", status' = status, parser' = parser, program' = program,
         label' \in Nat, IsList(code')
  PROVE  Types' /\ Parsed' /\ CrashesAreHollow'
<1>1. /\ stack' = stack /\ blocks' = blocks /\ size' = size /\ void' = void /\ err' = err
      /\ seen' = seen /\ pc' = pc /\ ax' = ax
  BY DEF parser, program
<1>2. Len(code') \in Nat /\ pc = 1
  BY ListLength DEF Types
<1>3. pc' \in 1..(Len(code') + 1)
  BY <1>1, <1>2
<1>4. Types'
  BY <1>1, <1>2, <1>3 DEF Types
<1> QED BY <1>4 DEF Parsed, CrashesAreHollow

(* The body of the function is lowered to the tree that is walked. *)
LEMMA EndOfFunctionEmits ==
  ASSUME Types, Parsed, EndOfFunction
  PROVE  Types' /\ Parsed' /\ Emitted' /\ Ended' /\ CrashesAreHollow'
<1>1. /\ status = "parsing" /\ done = None /\ Len(stack) = 1
      /\ work' = Walk(Seq_(blocks[1])) \o Label(RetLabel)
      /\ stack' = <<>> /\ blocks' = <<>>
      /\ status' = IF err THEN "refused" ELSE "emitting"
      /\ done' = done /\ size' = size /\ void' = void /\ err' = err /\ seen' = seen
      /\ label' = label /\ code' = code /\ pc' = pc /\ ax' = ax
  BY DEF EndOfFunction
<1>2. Level(<<>>, 0) = 0
  <2>1. {i \in 1..0 : <<>>[i].op = "block"} = {}
    OBVIOUS
  <2> QED BY <2>1, FS_EmptySet DEF Level
<1>3. Len(blocks') = Level(stack', Len(stack'))
  BY <1>1, <1>2
<1>4. Types'
  BY <1>1, <1>3 DEF Types, Statuses
<1>5. Parsed' /\ CrashesAreHollow'
  BY <1>1 DEF Parsed, CrashesAreHollow
<1>6. Ended'
  <2>1. EndsInReturn(work') /\ work' # <<>>
    <3>1. PICK u : u = Walk(Seq_(blocks[1]))
      OBVIOUS
    <3>2. IsList(u) /\ u # <<>>
      BY <3>1, ListOfOne DEF Walk
    <3>3. IsList(Label(RetLabel))
      BY ListOfOne DEF Label
    <3> QED BY <1>1, <3>1, <3>2, <3>3, HeadOfConcat DEF EndsInReturn
  <2> QED BY <1>1, <2>1 DEF Ended
<1>7. ASSUME ~err
      PROVE  \E P, N, M, J : Labelled(P, N, M, J)'
  <2>1. PICK P : Lowering(P, seen) /\ LowersAll(P, stack, blocks, done)
    BY <1>1, <1>7 DEF Parsed
  <2>2. Shaped(stack, blocks, done)
    BY <1>1 DEF Parsed
  <2>3. <<stack[1].src, Seq_(blocks[1])>> \in P
    <3>1. stack[1].op = "block" /\ 1 \in 1..Len(stack)
      BY <1>1, <2>2 DEF Shaped
    <3>2. Level(stack, 1) = 1
      <4>1. Level(stack, 0) = 0
        <5>1. {i \in 1..0 : stack[i].op = "block"} = {}
          OBVIOUS
        <5> QED BY <5>1, FS_EmptySet DEF Level
      <4>2. Level(stack, 0 + 1) = Level(stack, 0) + 1
        BY <3>1, LevelStep
      <4> QED BY <4>1, <4>2
    <3>3. LowersBlock(P, stack, blocks, 1)
      BY <2>1, <3>1 DEF LowersAll
    <3> QED BY <3>1, <3>2, <3>3 DEF LowersBlock
  <2>4. PICK t : t = Seq_(blocks[1])
    OBVIOUS
  <2>5. Grown(P, t)
    BY <2>3, <2>4 DEF Grown
  <2>6. PICK M : M = {RetLabel}
    OBVIOUS
  <2>7. Emits(P, Walk(t), {}, {}) /\ Emits(P, Label(RetLabel), M, {}) /\ Emits(P, <<>>, {}, {})
    BY <2>5, <2>6, EmitsOne, EmitsNothing DEF Walk, Label
  <2>8. Emits(P, work', M, {})
    BY <1>1, <2>4, <2>7, EmitsBoth
  <2>9. code' = <<>>
    BY <1>1 DEF Types
  <2>10. \A l \in M : Numbered(l, label')
    BY <2>6 DEF Numbered
  <2>11. Labelled(P, {}, M, {})'
    BY <1>1, <2>1, <2>6, <2>7, <2>8, <2>9, <2>10 DEF Labelled
  <2> QED BY <2>11
<1>8. Emitted'
  BY <1>1, <1>7 DEF Emitted
<1> QED BY <1>4, <1>5, <1>6, <1>8

(* Printing an instruction moves it from what is left to the code: what    *)
(* labels the two define and use together stays.                           *)
LEMMA SayEmits ==
  ASSUME Types, Emitted, Ended, Say
  PROVE  Types' /\ Parsed' /\ Emitted' /\ Ended' /\ CrashesAreHollow'
<1>1. /\ status = "emitting" /\ work # <<>> /\ Head(work).op # "tree"
      /\ code' = Append(code, Head(work)) /\ work' = Tail(work)
      /\ parser' = parser /\ status' = status /\ label' = label /\ program' = program
  BY DEF Say
<1>2. PICK P, N, M, J : Labelled(P, N, M, J)
  BY <1>1 DEF Emitted
<1>3. PICK h : h = Head(work)
  OBVIOUS
<1>4. PICK L : L = IF h.op = "label" THEN {h.arg} ELSE {}
  OBVIOUS
<1>5. PICK B : B = M \ L
  OBVIOUS
<1>6. /\ IsList(work)
      /\ h = Ins(h.op, h.arg)
      /\ L \subseteq M
      /\ h.op \in {"jmp", "je"} => h.arg \in J
      /\ Emits(P, Tail(work), B, J)
  <2>1. Emits(P, Tail(work), IF h.op = "label" THEN M \ {h.arg} ELSE M, J)
    BY <1>1, <1>2, <1>3, FirstOfWork
  <2>2. B = IF h.op = "label" THEN M \ {h.arg} ELSE M
    BY <1>4, <1>5
  <2> QED BY <1>1, <1>2, <1>3, <1>4, <2>1, <2>2, FirstOfWork
<1>7. /\ Lowering(P, seen) /\ Emits(P, code, N, J)
      /\ \A l \in N : l \notin M
      /\ RetLabel \in N \cup M
      /\ \A l \in N \cup M : Numbered(l, label)
      /\ "do" \notin seen => J \subseteq N \cup M
  BY <1>2 DEF Labelled
<1>8. Emits(P, <<h>>, L, J)
  <2>1. Emits(P, <<Ins(h.op, h.arg)>>, L, J)
    BY <1>1, <1>3, <1>4, <1>6, EmitsOne
  <2> QED BY <1>6, <2>1
<1>9. IsList(code)
  BY DEF Types
<1>10. code' = code \o <<h>> /\ IsList(code')
  BY <1>1, <1>3, <1>9, AppendIsConcatenation
<1>11. PICK A : A = N \cup L
  OBVIOUS
<1>12. Emits(P, code \o <<h>>, A, J)
  <2>1. \A l \in N : l \notin L
    BY <1>6, <1>7
  <2> QED BY <1>7, <1>8, <1>11, <2>1, EmitsBoth
<1>13. A \cup B = N \cup M /\ \A l \in A : l \notin B
  BY <1>5, <1>6, <1>7, <1>11
<1>14. seen' = seen
  BY <1>1 DEF parser
<1>15. Labelled(P, A, B, J)'
  BY <1>1, <1>6, <1>7, <1>10, <1>12, <1>13, <1>14 DEF Labelled
<1>16. Types' /\ Parsed' /\ CrashesAreHollow'
  BY <1>1, <1>10, EmittingTypes DEF Types
<1>17. Ended'
  <2>1. EndsInReturn(work)
    BY <1>1 DEF Ended
  <2>2. IF Tail(work) = <<>> THEN h = Ins("label", RetLabel) ELSE EndsInReturn(Tail(work))
    BY <1>3, <1>6, <2>1, ReturnStaysLast
  <2>3. Tail(work) = <<>> => EndsInReturn(code')
    BY <1>9, <1>10, <2>2 DEF EndsInReturn, Label
  <2> QED BY <1>1, <2>2, <2>3 DEF Ended
<1> QED BY <1>15, <1>16, <1>17 DEF Emitted

(* Without an empty body there is no NULL to walk. *)
LEMMA EmitNullEmits ==
  ASSUME Types, Emitted, EmitNull
  PROVE  Types' /\ Parsed' /\ Emitted' /\ Ended' /\ CrashesAreHollow'
<1>1. /\ status = "emitting" /\ work # <<>> /\ Head(work).op = "tree"
      /\ Head(work).arg.op \in {"NULL"}
      /\ status' = "crashed"
      /\ parser' = parser /\ emitter' = emitter /\ program' = program
  BY DEF EmitNull, Walking
<1>2. PICK P, N, M, J : Labelled(P, N, M, J)
  BY <1>1 DEF Emitted
<1>3. PICK t : t = Head(work).arg
  OBVIOUS
<1>4. Grown(P, t) /\ Lowering(P, seen) /\ t.op = "NULL"
  BY <1>1, <1>2, <1>3, FirstOfWork DEF Labelled
<1>5. PICK s : Lowers(P, seen, s, t)
  BY <1>4, GrownLowers
<1>6. "hollow" \in seen
  BY <1>4, <1>5, ByOperator DEF LowersNull
<1>7. /\ stack' = stack /\ blocks' = blocks /\ size' = size /\ void' = void /\ err' = err
      /\ seen' = seen /\ label' = label /\ code' = code /\ pc' = pc /\ ax' = ax
  BY <1>1 DEF parser, emitter, program
<1>8. Types'
  BY <1>1, <1>7 DEF Types, Statuses
<1> QED BY <1>1, <1>6, <1>7, <1>8 DEF Parsed, Emitted, Ended, CrashesAreHollow

(* A tree becomes its expansion. *)
LEMMA BecomesEmits ==
  ASSUME Types, Emitted, Ended, NEW ops, Walking(ops), NEW x, Becomes(x),
         label' \in Nat, label <= label',
         \A P : Lowering(P, seen) /\ Grown(P, Tree) => Expansion(P, seen, label, label', x)
  PROVE  Types' /\ Parsed' /\ Emitted' /\ Ended' /\ CrashesAreHollow'
<1>1. /\ status = "emitting" /\ work # <<>> /\ Head(work).op = "tree" /\ Tree = Head(work).arg
      /\ work' = x \o Tail(work) /\ code' = code
      /\ parser' = parser /\ status' = status /\ program' = program
  BY DEF Walking, Becomes, Tree
<1>2. seen' = seen
  BY <1>1 DEF parser
<1>3. label \in Nat /\ IsList(code)
  BY DEF Types
<1>4. Emitted' /\ Ended'
  BY <1>1, <1>2, <1>3, Expands
<1> QED BY <1>1, <1>3, <1>4, EmittingTypes

(* What an expansion without labels is made of. *)
LEMMA NoLabels ==
  ASSUME NEW P, NEW sn, NEW k, NEW m, NEW x, Emits(P, x, {}, {RetLabel})
  PROVE  Expansion(P, sn, k, m, x)
BY DEF Expansion

(* An expression has no labels. *)
LEMMA EmitExpressionEmits ==
  ASSUME Types, Emitted, Ended, EmitExpression
  PROVE  Types' /\ Parsed' /\ Emitted' /\ Ended' /\ CrashesAreHollow'
<1>1. label \in Nat /\ label <= label
  BY DEF Types
<1>2. CASE Walking({"Oexpr"}) /\ Becomes(<<Ins("eval", Tree.e)>>) /\ UNCHANGED label
  <2>1. PICK x : x = <<Ins("eval", Tree.e)>>
    OBVIOUS
  <2>2. \A P : Emits(P, x, {}, {RetLabel})
    BY <2>1, EmitsOne
  <2>3. \A P : Expansion(P, seen, label, label', x)
    BY <2>2, NoLabels
  <2>4. Walking({"Oexpr"}) /\ Becomes(x) /\ label' = label
    BY <1>2, <2>1
  <2> QED BY <1>1, <2>3, <2>4, BecomesEmits
<1>3. CASE Walking({"Oconst"}) /\ Becomes(<<Ins("zero", 0)>>) /\ UNCHANGED label
  <2>1. PICK x : x = <<Ins("zero", 0)>>
    OBVIOUS
  <2>2. \A P : Emits(P, x, {}, {RetLabel})
    BY <2>1, EmitsOne
  <2>3. \A P : Expansion(P, seen, label, label', x)
    BY <2>2, NoLabels
  <2>4. Walking({"Oconst"}) /\ Becomes(x) /\ label' = label
    BY <1>3, <2>1
  <2> QED BY <1>1, <2>3, <2>4, BecomesEmits
<1> QED BY <1>2, <1>3 DEF EmitExpression

(* A sequence has none of its own either; what is dropped after a return   *)
(* was not walked, and its labels are not numbered.                        *)
LEMMA EmitSeqEmits ==
  ASSUME Types, Emitted, Ended, EmitSeq
  PROVE  Types' /\ Parsed' /\ Emitted' /\ Ended' /\ CrashesAreHollow'
<1>1. label \in Nat /\ label <= label /\ label' = label
  BY DEF Types, EmitSeq
<1>2. PICK ts : ts = Tree.stmts
  OBVIOUS
<1>3. PICK x : x = IF ts = <<>> THEN <<>>
                   ELSE IF Head(ts).op = "Oret" THEN Walk(Head(ts))
                   ELSE Walk(Head(ts)) \o Walk(Seq_(Tail(ts)))
  OBVIOUS
<1>4. Walking({"Oseq"}) /\ Becomes(x) /\ Tree.op = "Oseq"
  BY <1>2, <1>3 DEF EmitSeq, Walking, Tree
<1>5. ASSUME NEW P, Lowering(P, seen), Grown(P, Tree)
      PROVE  Expansion(P, seen, label, label', x)
  <2>1. PICK t : t = Tree
    OBVIOUS
  <2>2. PICK s : Lowers(P, seen, s, t)
    BY <1>4, <1>5, <2>1, GrownLowers
  <2>3. LowersSeq(P, s, t)
    BY <1>4, <2>1, <2>2, ByOperator
  <2>4. PICK us : /\ t = Seq_(us)
                  /\ us # <<>> => \E y, z : <<y, Head(us)>> \in P /\ <<z, Seq_(Tail(us))>> \in P
    BY <2>3 DEF LowersSeq
  <2>5. us = ts
    BY <1>2, <2>1, <2>4 DEF Seq_
  <2>6. ts # <<>> => Grown(P, Head(ts)) /\ Grown(P, Seq_(Tail(ts)))
    BY <2>4, <2>5 DEF Grown
  <2>7. Emits(P, <<>>, {}, {RetLabel})
    BY EmitsNothing
  <2>8. ASSUME ts # <<>>
        PROVE  /\ Emits(P, Walk(Head(ts)), {}, {RetLabel})
               /\ Emits(P, Walk(Head(ts)) \o Walk(Seq_(Tail(ts))), {}, {RetLabel})
    <3>1. PICK u, v : u = Head(ts) /\ v = Seq_(Tail(ts))
      OBVIOUS
    <3>2. Emits(P, Walk(u), {}, {RetLabel}) /\ Emits(P, Walk(v), {}, {RetLabel})
      BY <2>6, <2>8, <3>1, EmitsOne DEF Walk
    <3>3. Emits(P, Walk(u) \o Walk(v), {}, {RetLabel})
      BY <3>2, EmitsBoth
    <3> QED BY <3>1, <3>2, <3>3
  <2>9. Emits(P, x, {}, {RetLabel})
    BY <1>3, <2>7, <2>8
  <2> QED BY <2>9, NoLabels
<1> QED BY <1>1, <1>4, <1>5, BecomesEmits

(* A return jumps to the label of the epilogue, which the function always  *)
(* defines.                                                                *)
LEMMA EmitRetEmits ==
  ASSUME Types, Emitted, Ended, EmitRet
  PROVE  Types' /\ Parsed' /\ Emitted' /\ Ended' /\ CrashesAreHollow'
<1>1. label \in Nat /\ label <= label /\ label' = label
  BY DEF Types, EmitRet
<1>2. PICK b : b = Tree.base
  OBVIOUS
<1>3. PICK w : w = IF b = Null THEN <<>> ELSE Walk(b)
  OBVIOUS
<1>4. PICK x : x = w \o Jmp(RetLabel)
  OBVIOUS
<1>5. Walking({"Oret"}) /\ Becomes(x) /\ Tree.op = "Oret"
  BY <1>2, <1>3, <1>4 DEF EmitRet, Walking, Tree
<1>6. ASSUME NEW P, Lowering(P, seen), Grown(P, Tree)
      PROVE  Expansion(P, seen, label, label', x)
  <2>1. PICK t : t = Tree
    OBVIOUS
  <2>2. PICK s : Lowers(P, seen, s, t)
    BY <1>5, <1>6, <2>1, GrownLowers
  <2>3. b = Null \/ b.op = "Oexpr"
    <3>1. LowersRet(s, t)
      BY <1>5, <2>1, <2>2, ByOperator
    <3> QED BY <1>2, <2>1, <3>1 DEF LowersRet, IsExpr
  <2>4. Emits(P, w, {}, {RetLabel})
    <3>1. CASE b = Null
      BY <1>3, <3>1, EmitsNothing
    <3>2. CASE b # Null
      <4>1. Grown(P, b)
        BY <2>3, <3>2 DEF Grown
      <4>2. Emits(P, Walk(b), {}, {RetLabel})
        BY <4>1, EmitsOne DEF Walk
      <4> QED BY <1>3, <3>2, <4>2
    <3> QED BY <3>1, <3>2
  <2>5. Emits(P, Jmp(RetLabel), {}, {RetLabel})
    BY EmitsOne DEF Jmp
  <2>6. Emits(P, x, {}, {RetLabel})
    BY <1>4, <2>4, <2>5, EmitsBoth
  <2> QED BY <2>6, NoLabels
<1> QED BY <1>1, <1>5, <1>6, BecomesEmits

(* A branch takes the next number and defines each label that it uses      *)
(* under it.                                                               *)
LEMMA EmitBranchEmits ==
  ASSUME Types, Emitted, Ended, EmitBranch
  PROVE  Types' /\ Parsed' /\ Emitted' /\ Ended' /\ CrashesAreHollow'
<1>1. label \in Nat /\ label' \in Nat /\ label < label' /\ label <= label'
  BY DEF Types, EmitBranch
<1>2. PICK t : t = Tree
  OBVIOUS
<1>3. PICK f : f = IF t.f = Null THEN <<>> ELSE Walk(t.f)
  OBVIOUS
<1>4. PICK h \in BOOLEAN : h = (t.f # Null)
  OBVIOUS
<1>5. PICK x : x = BranchCode(label, Walk(t.cond), Walk(t.t), f, h)
  OBVIOUS
<1>6. Walking({"Obranch"}) /\ Becomes(x) /\ t.op = "Obranch"
  BY <1>2, <1>3, <1>4, <1>5 DEF EmitBranch, Walking, Tree
<1>7. ASSUME NEW P, Lowering(P, seen), Grown(P, t)
      PROVE  Expansion(P, seen, label, label', x)
  <2>1. PICK s : Lowers(P, seen, s, t)
    BY <1>6, <1>7, GrownLowers
  <2>2. LowersBranch(P, s, t)
    BY <1>6, <2>1, ByOperator
  <2>3. Grown(P, t.cond) /\ Grown(P, t.t) /\ (t.f # Null => Grown(P, t.f))
    BY <2>2 DEF LowersBranch, Grown, IsExpr
  <2>4. PICK L : L = {<<"branch.else", label>>, <<"branch.end", label>>}
    OBVIOUS
  <2>5. Emits(P, Walk(t.cond), {}, L) /\ Emits(P, Walk(t.t), {}, L)
    BY <2>3, EmitsOne DEF Walk
  <2>6. Emits(P, f, {}, L)
    <3>1. Emits(P, <<>>, {}, L) /\ (t.f # Null => Emits(P, Walk(t.f), {}, L))
      BY <2>3, EmitsOne, EmitsNothing DEF Walk
    <3> QED BY <1>3, <3>1
  <2>7. Emits(P, x, L, L)
    BY <1>5, <2>4, <2>5, <2>6, BranchEmits
  <2>8. \A l \in L : \E name : name # "ret" /\ l = <<name, label>>
    BY <2>4
  <2> QED BY <1>1, <2>7, <2>8 DEF Expansion
<1>8. \A P : Lowering(P, seen) /\ Grown(P, Tree) => Expansion(P, seen, label, label', x)
  BY <1>2, <1>7
<1> QED BY <1>1, <1>6, <1>8, BecomesEmits

(* So does a loop, except for the jump into a do. *)
LEMMA EmitLoopEmits ==
  ASSUME Types, Emitted, Ended, EmitLoop
  PROVE  Types' /\ Parsed' /\ Emitted' /\ Ended' /\ CrashesAreHollow'
<1>1. label \in Nat /\ label' \in Nat /\ label < label' /\ label <= label'
  BY DEF Types, EmitLoop
<1>2. PICK t : t = Tree
  OBVIOUS
<1>3. PICK op : op = t.op
  OBVIOUS
<1>4. PICK x : x = LoopCode(op, label, Walk(t.cond), Walk(t.t))
  OBVIOUS
<1>5. Walking({"Owhile", "Odowhile"}) /\ Becomes(x) /\ op \in {"Owhile", "Odowhile"}
  BY <1>2, <1>3, <1>4 DEF EmitLoop, Walking, Tree
<1>6. ASSUME NEW P, Lowering(P, seen), Grown(P, t)
      PROVE  Expansion(P, seen, label, label', x)
  <2>1. PICK s : Lowers(P, seen, s, t)
    BY <1>3, <1>5, <1>6, GrownLowers
  <2>2. Grown(P, t.cond) /\ Grown(P, t.t) /\ (op = "Odowhile" => "do" \in seen)
    <3>1. CASE op = "Owhile"
      <4>1. LowersWhile(P, seen, s, t)
        BY <1>3, <2>1, <3>1, ByOperator
      <4>2. PICK e, a : /\ IsExpr(t.cond, e) \/ t.cond = Zero
                        /\ <<a, t.t>> \in P
        BY <4>1 DEF LowersWhile
      <4>3. t.cond.op \in {"Oexpr", "Oconst"}
        BY <4>2 DEF IsExpr, Zero
      <4> QED BY <3>1, <4>2, <4>3 DEF Grown
    <3>2. CASE op = "Odowhile"
      <4>1. LowersDo(P, seen, s, t)
        BY <1>3, <2>1, <3>2, ByOperator
      <4> QED BY <3>2, <4>1 DEF LowersDo, Grown, IsExpr
    <3> QED BY <1>5, <3>1, <3>2
  <2>3. PICK M : M = {<<"while.cond", label>>, <<"while.after", label>>}
                     \cup (IF op = "Odowhile" THEN {<<"while.body", label>>} ELSE {})
    OBVIOUS
  <2>4. PICK L : L = M \cup (IF op = "Odowhile" THEN {<<"while.body:", label>>} ELSE {})
    OBVIOUS
  <2>5. Emits(P, Walk(t.cond), {}, L) /\ Emits(P, Walk(t.t), {}, L)
    BY <2>2, EmitsOne DEF Walk
  <2>6. Emits(P, x, M, L)
    <3>1. /\ <<"while.cond", label>> \in L /\ <<"while.after", label>> \in L
          /\ op = "Odowhile" => <<"while.body:", label>> \in L
      BY <2>3, <2>4
    <3> QED BY <1>4, <2>3, <2>5, <3>1, LoopEmits
  <2>7. \A l \in M : \E name : name # "ret" /\ l = <<name, label>>
    BY <2>3
  <2>8. "do" \notin seen => L \subseteq M \cup {RetLabel}
    BY <2>2, <2>4
  <2> QED BY <1>1, <2>6, <2>7, <2>8 DEF Expansion
<1>7. \A P : Lowering(P, seen) /\ Grown(P, Tree) => Expansion(P, seen, label, label', x)
  BY <1>2, <1>6
<1> QED BY <1>1, <1>5, <1>7, BecomesEmits

(* What the assembler accepts. *)
LEMMA CodeAssembles ==
  ASSUME NEW x, NEW N, NEW J, IsCode(x, N, J), J \subseteq N
  PROVE  Assembles(x)
<1>1. ASSUME NEW l \in N
      PROVE  Cardinality(Target(x, l)) = 1
  <2>1. PICK i \in 1..Len(x) : x[i] = Ins("label", l)
                               /\ \A j \in 1..Len(x) : x[j] = Ins("label", l) => j = i
    BY DEF IsCode
  <2>2. Target(x, l) = {i}
    BY <2>1 DEF Target
  <2> QED BY <2>2, FS_Singleton
<1> QED BY <1>1 DEF IsCode, Assembles

(* When all is printed, the code defines once each label that it uses,     *)
(* unless there is a do.                                                   *)
LEMMA AssembleKeeps ==
  ASSUME Types, Emitted, Ended, Assemble
  PROVE  Types' /\ Parsed' /\ Emitted' /\ Ended' /\ CrashesAreHollow' /\ OnlyDoUnassembled'
<1>1. /\ status = "emitting" /\ work = <<>>
      /\ status' = IF Assembles(code) THEN "running" ELSE "unassembled"
      /\ parser' = parser /\ emitter' = emitter /\ program' = program
  BY DEF Assemble
<1>2. /\ stack' = stack /\ blocks' = blocks /\ size' = size /\ void' = void /\ err' = err
      /\ seen' = seen /\ work' = work /\ label' = label /\ code' = code /\ pc' = pc /\ ax' = ax
  BY <1>1 DEF parser, emitter, program
<1>3. Types'
  BY <1>1, <1>2 DEF Types, Statuses
<1>4. EndsInReturn(code) /\ pc = 1
  BY <1>1 DEF Ended, Types
<1>5. 1 \in 1..Len(code)
  <2>1. PICK u : IsList(u) /\ code = u \o Label(RetLabel)
    BY <1>4 DEF EndsInReturn
  <2>2. Len(u \o Label(RetLabel)) = Len(u) + 1 /\ Len(u) \in Nat
    BY <2>1, Concat, ListOfOne DEF Label
  <2> QED BY <2>1, <2>2
<1>6. Ended'
  BY <1>1, <1>2, <1>4, <1>5 DEF Ended
<1>7. ASSUME "do" \notin seen
      PROVE  Assembles(code)
  <2>1. PICK P, N, M, J : Labelled(P, N, M, J)
    BY <1>1 DEF Emitted
  <2>2. IsCode(code, N, J) /\ IsCode(<<>>, M, J) /\ J \subseteq N \cup M
    BY <1>1, <1>7, <2>1 DEF Labelled, Emits
  <2>3. M = {}
    BY <2>2 DEF IsCode
  <2> QED BY <2>2, <2>3, CodeAssembles
<1> QED BY <1>1, <1>2, <1>3, <1>6, <1>7 DEF Parsed, Emitted, CrashesAreHollow, OnlyDoUnassembled

(* The processor stays in the code, where each jump has its label. *)
LEMMA JumpTarget ==
  ASSUME NEW i \in 1..Len(code), Assembles(code), code[i].op \in {"jmp", "je"},
         NEW j, j = CHOOSE l \in Target(code, code[i].arg) : TRUE
  PROVE  j \in 1..Len(code) /\ code[j] = Ins("label", code[i].arg)
<1>1. Cardinality(Target(code, code[i].arg)) = 1
  BY DEF Assembles
<1>2. Target(code, code[i].arg) # {}
  BY <1>1, FS_EmptySet
<1>3. j \in Target(code, code[i].arg)
  BY <1>2
<1> QED BY <1>3 DEF Target

(* The next instruction. *)
LEMMA StepFacts ==
  ASSUME Step
  PROVE  /\ status = "running"
         /\ parser' = parser /\ emitter' = emitter
         /\ status' = IF pc = Len(code) THEN "returned" ELSE status
         /\ pc' = IF code[pc].op = "jmp" \/ (code[pc].op = "je" /\ ~ax)
                  THEN CHOOSE l \in Target(code, code[pc].arg) : TRUE ELSE pc + 1
         /\ ax' \in IF code[pc].op = "eval" THEN BOOLEAN
                    ELSE IF code[pc].op = "zero" THEN {FALSE} ELSE {ax}
         /\ todo' = IF code[pc].op = "eval" /\ code[pc].arg = Asks(todo)
                    THEN After(todo, ax') ELSE todo
<1>1. /\ status = "running"
      /\ parser' = parser /\ emitter' = emitter
      /\ status' = IF pc = Len(code) THEN "returned" ELSE status
  BY DEF Step
<1>2. pc' = IF code[pc].op = "jmp" \/ (code[pc].op = "je" /\ ~ax)
            THEN CHOOSE l \in Target(code, code[pc].arg) : TRUE ELSE pc + 1
  BY DEF Step
<1>3. ax' \in IF code[pc].op = "eval" THEN BOOLEAN
              ELSE IF code[pc].op = "zero" THEN {FALSE} ELSE {ax}
  BY DEF Step
<1>4. todo' = IF code[pc].op = "eval" /\ code[pc].arg = Asks(todo)
              THEN After(todo, ax') ELSE todo
  BY DEF Step
<1> QED BY <1>1, <1>2, <1>3, <1>4

(* The processor stays within the code. *)
LEMMA StepKeeps ==
  ASSUME Types, Ended, Step
  PROVE  Types' /\ Parsed' /\ Emitted' /\ Ended' /\ CrashesAreHollow' /\ OnlyDoUnassembled'
<1>1. PICK j : j = CHOOSE l \in Target(code, code[pc].arg) : TRUE
  OBVIOUS
<1>2. /\ status = "running"
      /\ pc' = IF code[pc].op = "jmp" \/ (code[pc].op = "je" /\ ~ax) THEN j ELSE pc + 1
      /\ ax' \in IF code[pc].op = "eval" THEN BOOLEAN
                ELSE IF code[pc].op = "zero" THEN {FALSE} ELSE {ax}
      /\ status' = IF pc = Len(code) THEN "returned" ELSE status
      /\ parser' = parser /\ emitter' = emitter
  <2>1. pc' = IF code[pc].op = "jmp" \/ (code[pc].op = "je" /\ ~ax)
              THEN CHOOSE l \in Target(code, code[pc].arg) : TRUE ELSE pc + 1
    BY StepFacts
  <2>2. pc' = IF code[pc].op = "jmp" \/ (code[pc].op = "je" /\ ~ax) THEN j ELSE pc + 1
    BY <1>1, <2>1
  <2>3. /\ status = "running"
        /\ parser' = parser /\ emitter' = emitter
        /\ status' = IF pc = Len(code) THEN "returned" ELSE status
    BY StepFacts
  <2>4. ax' \in IF code[pc].op = "eval" THEN BOOLEAN
                ELSE IF code[pc].op = "zero" THEN {FALSE} ELSE {ax}
    BY StepFacts
  <2> QED BY <2>2, <2>3, <2>4
<1>3. /\ stack' = stack /\ blocks' = blocks /\ size' = size /\ void' = void /\ err' = err
      /\ seen' = seen /\ work' = work /\ label' = label /\ code' = code
  BY <1>2 DEF parser, emitter
<1>4. EndsInReturn(code) /\ Assembles(code) /\ pc \in 1..Len(code)
  BY <1>2 DEF Ended
<1>5. IsList(code)
  BY DEF Types
<1>6. Len(code) \in Nat
  BY <1>5, ListLength
<1>7. pc' \in 1..Len(code) \/ pc' = pc + 1
  <2>1. CASE code[pc].op \in {"jmp", "je"}
    <3>1. j \in 1..Len(code)
      BY <1>1, <1>4, <2>1, JumpTarget
    <3> QED BY <1>2, <3>1
  <2>2. CASE code[pc].op \notin {"jmp", "je"}
    BY <1>2, <2>2
  <2> QED BY <2>1, <2>2
<1>8. pc' \in 1..(Len(code) + 1) /\ (pc # Len(code) => pc' \in 1..Len(code))
  BY <1>4, <1>6, <1>7
<1>9. ax' \in BOOLEAN
  BY <1>2 DEF Types
<1>10. Types'
  BY <1>2, <1>3, <1>8, <1>9 DEF Types, Statuses
<1>11. Ended'
  BY <1>2, <1>3, <1>4, <1>8 DEF Ended
<1> QED BY <1>2, <1>10, <1>11 DEF Parsed, Emitted, CrashesAreHollow, OnlyDoUnassembled

(* The parser's steps but the last. *)
Reads ==
  \/ OpenBlock \/ Expression \/ Return \/ If \/ While \/ For \/ Do \/ ElseKeyword
  \/ EndIf \/ EndElse \/ EndWhile \/ EndFor \/ EndDo \/ EndOfStatement \/ CloseBlock

(* As the parser reads, the compiler goes on or stops. *)
LEMMA ReadsStatus ==
  ASSUME Reads
  PROVE  status = "parsing" /\ status' \in {"parsing", "segv", "crashed"}
<1>1. CASE OpenBlock \/ Expression \/ Return \/ If \/ While \/ For \/ Do
  BY <1>1 DEF OpenBlock, Expression, Return, If, While, For, Do, Read
<1>2. CASE ElseKeyword \/ EndIf \/ EndElse \/ EndWhile
  BY <1>2 DEF ElseKeyword, EndIf, EndElse, EndWhile, Ends
<1>3. CASE EndFor
  BY <1>3 DEF EndFor, Ends
<1>4. CASE EndDo \/ EndOfStatement \/ CloseBlock
  BY <1>4 DEF EndDo, EndOfStatement, CloseBlock, Ends
<1> QED BY <1>1, <1>2, <1>3, <1>4 DEF Reads

(* Whatever it reads, what is lowered is kept. *)
LEMMA ReadsKeep ==
  ASSUME Types, Parsed, Reads
  PROVE  Types' /\ Parsed' /\ Emitted' /\ Ended' /\ CrashesAreHollow' /\ OnlyDoUnassembled'
<1>1. Types' /\ Parsed' /\ CrashesAreHollow'
  BY OpenBlockKeeps, ExpressionKeeps, ReturnKeeps, IfKeeps, WhileKeeps, ForKeeps, DoKeeps,
    ElseKeywordKeeps, EndIfKeeps, EndElseKeeps, EndWhileKeeps, EndForKeeps, EndDoKeeps,
    EndOfStatementKeeps, CloseBlockKeeps DEF Reads
<1>2. status' \in {"parsing", "segv", "crashed"}
  BY ReadsStatus
<1> QED BY <1>1, <1>2 DEF Emitted, Ended, OnlyDoUnassembled

(* The steps of tree(). *)
LEMMA EmitKeeps ==
  ASSUME Types, Emitted, Ended, Emit
  PROVE  /\ Types' /\ Parsed' /\ Emitted' /\ Ended' /\ CrashesAreHollow' /\ OnlyDoUnassembled'
         /\ status = "emitting" /\ status' \in {"emitting", "crashed"}
<1>1. Types' /\ Parsed' /\ Emitted' /\ Ended' /\ CrashesAreHollow'
  BY SayEmits, EmitNullEmits, EmitExpressionEmits, EmitSeqEmits, EmitRetEmits, EmitBranchEmits,
    EmitLoopEmits DEF Emit
<1>2. status = "emitting" /\ status' \in {"emitting", "crashed"}
  BY DEF Emit, Say, EmitNull, EmitExpression, EmitSeq, EmitRet, EmitBranch, EmitLoop, Walking,
    Becomes
<1> QED BY <1>1, <1>2 DEF OnlyDoUnassembled
-----------------------------------------------------------------------------
(* What is left of the source between two instructions, when eax is zero   *)
(* and when it is not.                                                     *)
Both(s) == <<s, s>>

(* An expression is evaluated, between p and q. *)
Evaluates(e, p, q) ==
  \E s : /\ p = Both(s) /\ Asks(s) = e /\ e # 0
         /\ q = <<After(s, FALSE), After(s, TRUE)>>

(* What tree() makes of a tree does what the tree was lowered from. *)
Does(P, t, p, q) ==
  IF t.op = "Oexpr" THEN Evaluates(t.e, p, q)
  ELSE \E s, z, y : /\ <<s, t>> \in P /\ IsList(z)
                    /\ p = Both(s \o z) /\ q = Both(y)
                    /\ y = z \/ t.op = "Oret"

(* An instruction, when what is left at the labels is in K. *)
Follows(P, K, i, p, q) ==
  \/ i.op = "eval" /\ Evaluates(i.arg, p, q)
  \/ i.op = "tree" /\ Does(P, i.arg, p, q)
  \/ i.op = "label" /\ q = p /\ \E s : p = Both(s) /\ <<i.arg, s>> \in K
  \/ /\ i.op = "jmp"
     /\ \E s, y : /\ p = Both(s) /\ q = Both(y)
                  /\ <<i.arg, s>> \in K \/ (i.arg = RetLabel /\ Asks(s) = 0)
  \/ i.op = "je" /\ <<i.arg, p[1]>> \in K /\ q = Both(p[2])

Chained(P, K, x, c) == \A i \in 1..Len(x) : Follows(P, K, x[i], c[i - 1], c[i])
Runs(P, K, x, p, q) == \E c : c[0] = p /\ c[Len(x)] = q /\ Chained(P, K, x, c)

(* Nothing leaves everything to do. *)
LEMMA RunsNothing ==
  ASSUME NEW P, NEW K, NEW p
  PROVE  Runs(P, K, <<>>, p, p)
<1>1. PICK c : c = [i \in {0} |-> p]
  OBVIOUS
<1>2. c[0] = p /\ Len(<<>>) = 0
  BY <1>1
<1>3. Chained(P, K, <<>>, c)
  BY DEF Chained
<1> QED BY <1>2, <1>3 DEF Runs

(* A list of one instruction does what the instruction does. *)
LEMMA RunsOne ==
  ASSUME NEW P, NEW K, NEW i, NEW p, NEW q, Follows(P, K, i, p, q)
  PROVE  Runs(P, K, <<i>>, p, q)
<1>1. PICK c : c = [j \in {0, 1} |-> IF j = 0 THEN p ELSE q]
  OBVIOUS
<1>2. PICK x : x = <<i>>
  OBVIOUS
<1>3. c[0] = p /\ c[1] = q /\ Len(x) = 1 /\ x[1] = i
  BY <1>1, <1>2
<1>4. Chained(P, K, x, c)
  <2>1. \A j \in 1..Len(x) : j = 1 /\ j - 1 = 0
    BY <1>3
  <2> QED BY <1>3, <2>1 DEF Chained
<1> QED BY <1>2, <1>3, <1>4 DEF Runs

(* Of two lists, the second does what the first left. *)
LEMMA RunsBoth ==
  ASSUME NEW P, NEW K, NEW a, NEW b, IsList(a), IsList(b), NEW p, NEW q, NEW r,
         Runs(P, K, a, p, q), Runs(P, K, b, q, r)
  PROVE  Runs(P, K, a \o b, p, r) /\ IsList(a \o b)
<1>1. PICK c : c[0] = p /\ c[Len(a)] = q /\ Chained(P, K, a, c)
  BY DEF Runs
<1>2. PICK d : d[0] = q /\ d[Len(b)] = r /\ Chained(P, K, b, d)
  BY DEF Runs
<1>3. PICK x : x = a \o b
  OBVIOUS
<1>4. PICK n \in Nat : n = Len(a)
  BY Concat
<1>5. PICK m \in Nat : m = Len(b)
  BY Concat
<1>6. /\ IsList(x) /\ Len(x) = n + m
      /\ \A i \in 1..n : x[i] = a[i]
      /\ \A i \in 1..m : x[n + i] = b[i]
  BY <1>3, <1>4, <1>5, Concat
<1>7. PICK f : f = [i \in 0..(n + m) |-> IF i <= n THEN c[i] ELSE d[i - n]]
  OBVIOUS
<1>8. \A i \in 0..n : f[i] = c[i]
  BY <1>7
<1>9. \A i \in 0..m : f[n + i] = d[i]
  <2>1. ASSUME NEW i \in 0..m
        PROVE  f[n + i] = d[i]
    <3>1. CASE i = 0
      BY <1>1, <1>2, <1>4, <1>8, <3>1
    <3>2. CASE i # 0
      <4>1. n + i \in 0..(n + m) /\ ~(n + i <= n) /\ n + i - n = i
        BY <3>2
      <4> QED BY <1>7, <4>1
    <3> QED BY <3>1, <3>2
  <2> QED BY <2>1
<1>10. ASSUME NEW i \in 1..Len(x)
       PROVE  Follows(P, K, x[i], f[i - 1], f[i])
  <2>1. CASE i \in 1..n
    <3>1. i - 1 \in 0..n /\ i \in 0..n
      BY <2>1
    <3>2. Follows(P, K, a[i], c[i - 1], c[i])
      BY <1>1, <1>4, <2>1 DEF Chained
    <3> QED BY <1>6, <1>8, <2>1, <3>1, <3>2
  <2>2. CASE i \notin 1..n
    <3>1. PICK j \in 1..m : i = n + j
      <4>1. i - n \in 1..m /\ i = n + (i - n)
        BY <1>6, <2>2
      <4> QED BY <4>1
    <3>2. j - 1 \in 0..m /\ j \in 0..m /\ i - 1 = n + (j - 1)
      BY <3>1
    <3>3. Follows(P, K, b[j], d[j - 1], d[j])
      BY <1>2, <1>5, <3>1 DEF Chained
    <3> QED BY <1>6, <1>9, <3>1, <3>2, <3>3
  <2> QED BY <2>1, <2>2
<1>11. f[0] = p /\ f[Len(x)] = r
  <2>1. 0 \in 0..n /\ m \in 0..m
    OBVIOUS
  <2> QED BY <1>1, <1>2, <1>5, <1>6, <1>8, <1>9, <2>1
<1> QED BY <1>3, <1>6, <1>10, <1>11 DEF Runs, Chained

(* The first of a list leaves something for the others to do. *)
LEMMA RunsFirst ==
  ASSUME NEW P, NEW K, NEW h, NEW b, IsList(b), NEW p, NEW r, Runs(P, K, <<h>> \o b, p, r)
  PROVE  \E q : Follows(P, K, h, p, q) /\ Runs(P, K, b, q, r)
<1>1. PICK x : x = <<h>> \o b
  OBVIOUS
<1>2. PICK c : c[0] = p /\ c[Len(x)] = r /\ Chained(P, K, x, c)
  BY <1>1 DEF Runs
<1>3. PICK m \in Nat : m = Len(b)
  BY ListLength
<1>4. /\ Len(x) = 1 + m /\ x[1] = h
      /\ \A i \in 1..m : x[1 + i] = b[i]
  <2>1. IsList(<<h>>) /\ Len(<<h>>) = 1 /\ <<h>>[1] = h /\ 1 \in 1..1
    BY ListOfOne
  <2> QED BY <1>1, <1>3, <2>1, Concat
<1>5. PICK d : d = [i \in 0..m |-> c[1 + i]]
  OBVIOUS
<1>6. d[0] = c[1] /\ d[m] = r
  <2>1. 0 \in 0..m /\ m \in 0..m /\ 1 + 0 = 1
    OBVIOUS
  <2> QED BY <1>2, <1>4, <1>5, <2>1
<1>7. ASSUME NEW i \in 1..m
      PROVE  Follows(P, K, b[i], d[i - 1], d[i])
  <2>1. 1 + i \in 1..Len(x) /\ i - 1 \in 0..m /\ i \in 0..m /\ 1 + (i - 1) = (1 + i) - 1
    BY <1>4
  <2>2. Follows(P, K, x[1 + i], c[(1 + i) - 1], c[1 + i])
    BY <1>2, <2>1 DEF Chained
  <2>3. d[i - 1] = c[(1 + i) - 1] /\ d[i] = c[1 + i]
    BY <1>5, <2>1
  <2> QED BY <1>4, <2>2, <2>3
<1>8. Runs(P, K, b, c[1], r)
  BY <1>3, <1>6, <1>7 DEF Runs, Chained
<1>9. Follows(P, K, h, p, c[1])
  <2>1. 1 \in 1..Len(x) /\ 1 - 1 = 0
    BY <1>4
  <2> QED BY <1>2, <1>4, <2>1 DEF Chained
<1> QED BY <1>8, <1>9

(* It stays so as labels are added. *)
LEMMA RunsMore ==
  ASSUME NEW P, NEW K, NEW L, K \subseteq L, NEW x, NEW p, NEW q, Runs(P, K, x, p, q)
  PROVE  Runs(P, L, x, p, q)
<1>1. PICK c : c[0] = p /\ c[Len(x)] = q /\ Chained(P, K, x, c)
  BY DEF Runs
<1>2. ASSUME NEW i \in 1..Len(x)
      PROVE  Follows(P, L, x[i], c[i - 1], c[i])
  <2>1. Follows(P, K, x[i], c[i - 1], c[i])
    BY <1>1 DEF Chained
  <2> QED BY <2>1 DEF Follows
<1> QED BY <1>1, <1>2 DEF Runs, Chained

(* The jumps and the labels. *)
LEMMA JumpsRun ==
  ASSUME NEW P, NEW K, NEW l, NEW s, <<l, s>> \in K
  PROVE  /\ \A y : Runs(P, K, Jmp(l), Both(s), Both(y))
         /\ \A y : Runs(P, K, Je(l), <<s, y>>, Both(y))
         /\ Runs(P, K, Label(l), Both(s), Both(s))
         /\ IsList(Jmp(l)) /\ IsList(Je(l)) /\ IsList(Label(l))
<1>1. \A op : Ins(op, l).op = op /\ Ins(op, l).arg = l
  BY DEF Ins
<1>2. ASSUME NEW y
      PROVE  Runs(P, K, Jmp(l), Both(s), Both(y))
  <2>1. PICK p : p = Both(s)
    OBVIOUS
  <2>2. PICK q : q = Both(y)
    OBVIOUS
  <2>3. Follows(P, K, Ins("jmp", l), p, q)
    BY <1>1, <2>1, <2>2 DEF Follows
  <2> QED BY <2>1, <2>2, <2>3, RunsOne DEF Jmp
<1>3. ASSUME NEW y
      PROVE  Runs(P, K, Je(l), <<s, y>>, Both(y))
  <2>1. PICK p : p = <<s, y>>
    OBVIOUS
  <2>2. PICK q : q = Both(y)
    OBVIOUS
  <2>3. p[1] = s /\ p[2] = y
    BY <2>1
  <2>4. Follows(P, K, Ins("je", l), p, q)
    BY <1>1, <2>2, <2>3 DEF Follows
  <2> QED BY <2>1, <2>2, <2>4, RunsOne DEF Je
<1>4. Runs(P, K, Label(l), Both(s), Both(s))
  <2>1. PICK p : p = Both(s)
    OBVIOUS
  <2>2. Follows(P, K, Ins("label", l), p, p)
    BY <1>1, <2>1 DEF Follows
  <2> QED BY <2>1, <2>2, RunsOne DEF Label
<1>5. IsList(Jmp(l)) /\ IsList(Je(l)) /\ IsList(Label(l))
  BY ListOfOne DEF Jmp, Je, Label
<1> QED BY <1>2, <1>3, <1>4, <1>5

(* An if, between s and r: its parts begin with y and z. *)
LEMMA BranchRuns ==
  ASSUME NEW P, NEW K, NEW k, NEW a, NEW b, NEW f, NEW h \in BOOLEAN,
         NEW p, NEW y, NEW z, NEW r,
         IsList(a), IsList(b), IsList(f),
         <<<<"branch.else", k>>, z>> \in K, <<<<"branch.end", k>>, r>> \in K,
         Runs(P, K, a, p, <<z, y>>), Runs(P, K, b, Both(y), Both(r)),
         Runs(P, K, f, Both(z), Both(r)), ~h => z = r
  PROVE  Runs(P, K, BranchCode(k, a, b, f, h), p, Both(r))
<1>1. PICK m : m = <<"branch.else", k>>
  OBVIOUS
<1>2. PICK e : e = <<"branch.end", k>>
  OBVIOUS
<1>3. PICK zy : zy = <<z, y>>
  OBVIOUS
<1>4. PICK q1, q2, q3 : q1 = Both(y) /\ q2 = Both(z) /\ q3 = Both(r)
  OBVIOUS
<1>5. /\ Runs(P, K, Je(m), zy, q1) /\ IsList(Je(m))
      /\ Runs(P, K, Jmp(e), q3, q2) /\ IsList(Jmp(e))
      /\ Runs(P, K, Label(m), q2, q2) /\ IsList(Label(m))
      /\ Runs(P, K, Label(e), q3, q3) /\ IsList(Label(e))
  <2>1. <<m, z>> \in K /\ <<e, r>> \in K
    BY <1>1, <1>2
  <2> QED BY <1>3, <1>4, <2>1, JumpsRun
<1>6. PICK g : g = IF h THEN Jmp(e) ELSE <<>>
  OBVIOUS
<1>7. Runs(P, K, g, q3, q2) /\ IsList(g)
  <2>1. Runs(P, K, <<>>, q3, q3) /\ IsList(<<>>)
    BY RunsNothing, ListOfOne
  <2> QED BY <1>4, <1>5, <1>6, <2>1
<1>8. Runs(P, K, a, p, zy) /\ Runs(P, K, b, q1, q3) /\ Runs(P, K, f, q2, q3)
  BY <1>3, <1>4
<1>9. Runs(P, K, a \o Je(m), p, q1) /\ IsList(a \o Je(m))
  BY <1>5, <1>8, RunsBoth
<1>10. Runs(P, K, a \o Je(m) \o b, p, q3) /\ IsList(a \o Je(m) \o b)
  BY <1>8, <1>9, RunsBoth
<1>11. Runs(P, K, a \o Je(m) \o b \o g, p, q2) /\ IsList(a \o Je(m) \o b \o g)
  BY <1>7, <1>10, RunsBoth
<1>12. /\ Runs(P, K, a \o Je(m) \o b \o g \o Label(m), p, q2)
       /\ IsList(a \o Je(m) \o b \o g \o Label(m))
  BY <1>5, <1>11, RunsBoth
<1>13. /\ Runs(P, K, a \o Je(m) \o b \o g \o Label(m) \o f, p, q3)
       /\ IsList(a \o Je(m) \o b \o g \o Label(m) \o f)
  BY <1>8, <1>12, RunsBoth
<1>14. Runs(P, K, a \o Je(m) \o b \o g \o Label(m) \o f \o Label(e), p, q3)
  BY <1>5, <1>13, RunsBoth
<1>15. BranchCode(k, a, b, f, h) = a \o Je(m) \o b \o g \o Label(m) \o f \o Label(e)
  BY <1>1, <1>2, <1>6 DEF BranchCode
<1> QED BY <1>4, <1>14, <1>15

(* A loop, which is entered at its body or at its condition, and whose     *)
(* body goes from y back to w.                                             *)
LEMMA LoopRuns ==
  ASSUME NEW P, NEW K, NEW k, NEW a, NEW b, NEW op,
         NEW y, NEW w, NEW r,
         IsList(a), IsList(b),
         <<<<"while.cond", k>>, w>> \in K, <<<<"while.after", k>>, r>> \in K,
         <<<<"while.body", k>>, y>> \in K, <<<<"while.body:", k>>, y>> \in K,
         Runs(P, K, a, Both(w), <<r, y>>), Runs(P, K, b, Both(y), Both(w))
  PROVE  Runs(P, K, LoopCode(op, k, a, b), IF op = "Odowhile" THEN Both(y) ELSE Both(w), Both(r))
<1>1. PICK c : c = <<"while.cond", k>>
  OBVIOUS
<1>2. PICK d : d = <<"while.after", k>>
  OBVIOUS
<1>3. PICK n : n = <<"while.body", k>>
  OBVIOUS
<1>4. PICK z : z = <<"while.body:", k>>
  OBVIOUS
<1>5. PICK ry : ry = <<r, y>>
  OBVIOUS
<1>6. PICK q1, q2, q3 : q1 = Both(y) /\ q2 = Both(w) /\ q3 = Both(r)
  OBVIOUS
<1>7. /\ Runs(P, K, Label(c), q2, q2) /\ IsList(Label(c))
      /\ Runs(P, K, Je(d), ry, q1) /\ IsList(Je(d))
      /\ Runs(P, K, Label(n), q1, q1) /\ IsList(Label(n))
      /\ Runs(P, K, Jmp(z), q1, q2) /\ IsList(Jmp(z))
      /\ Runs(P, K, Jmp(c), q2, q3) /\ IsList(Jmp(c))
      /\ Runs(P, K, Label(d), q3, q3) /\ IsList(Label(d))
  <2>1. <<c, w>> \in K /\ <<d, r>> \in K /\ <<n, y>> \in K /\ <<z, y>> \in K
    BY <1>1, <1>2, <1>3, <1>4
  <2> QED BY <1>5, <1>6, <2>1, JumpsRun
<1>8. PICK p : p = IF op = "Odowhile" THEN q1 ELSE q2
  OBVIOUS
<1>9. PICK g : g = IF op = "Odowhile" THEN Jmp(z) ELSE <<>>
  OBVIOUS
<1>10. PICK l : l = IF op = "Odowhile" THEN Label(n) ELSE <<>>
  OBVIOUS
<1>11. Runs(P, K, g, p, q2) /\ IsList(g) /\ Runs(P, K, l, q1, q1) /\ IsList(l)
  <2>1. Runs(P, K, <<>>, q1, q1) /\ Runs(P, K, <<>>, q2, q2) /\ IsList(<<>>)
    BY RunsNothing, ListOfOne
  <2> QED BY <1>7, <1>8, <1>9, <1>10, <2>1
<1>12. Runs(P, K, a, q2, ry) /\ Runs(P, K, b, q1, q2)
  BY <1>5, <1>6
<1>13. Runs(P, K, g \o Label(c), p, q2) /\ IsList(g \o Label(c))
  BY <1>7, <1>11, RunsBoth
<1>14. Runs(P, K, g \o Label(c) \o a, p, ry) /\ IsList(g \o Label(c) \o a)
  BY <1>12, <1>13, RunsBoth
<1>15. Runs(P, K, g \o Label(c) \o a \o Je(d), p, q1) /\ IsList(g \o Label(c) \o a \o Je(d))
  BY <1>7, <1>14, RunsBoth
<1>16. /\ Runs(P, K, g \o Label(c) \o a \o Je(d) \o l, p, q1)
       /\ IsList(g \o Label(c) \o a \o Je(d) \o l)
  BY <1>11, <1>15, RunsBoth
<1>17. /\ Runs(P, K, g \o Label(c) \o a \o Je(d) \o l \o b, p, q2)
       /\ IsList(g \o Label(c) \o a \o Je(d) \o l \o b)
  BY <1>12, <1>16, RunsBoth
<1>18. /\ Runs(P, K, g \o Label(c) \o a \o Je(d) \o l \o b \o Jmp(c), p, q3)
       /\ IsList(g \o Label(c) \o a \o Je(d) \o l \o b \o Jmp(c))
  BY <1>7, <1>17, RunsBoth
<1>19. Runs(P, K, g \o Label(c) \o a \o Je(d) \o l \o b \o Jmp(c) \o Label(d), p, q3)
  BY <1>7, <1>18, RunsBoth
<1>20. LoopCode(op, k, a, b) = g \o Label(c) \o a \o Je(d) \o l \o b \o Jmp(c) \o Label(d)
  BY <1>1, <1>2, <1>3, <1>4, <1>9, <1>10 DEF LoopCode
<1> QED BY <1>6, <1>8, <1>19, <1>20
-----------------------------------------------------------------------------
(* What is left at a label is the same wherever one jumps there from.      *)
Places(K, k) ==
  /\ <<RetLabel, <<>>>> \in K
  /\ \A l, u, v : <<l, u>> \in K /\ <<l, v>> \in K => u = v
  /\ \A l, u : <<l, u>> \in K => Numbered(l, k)

(* The labels of a number that is new. *)
LEMMA NewPlaces ==
  ASSUME NEW K, NEW k \in Nat, Places(K, k), NEW m, "ret" \notin DOMAIN m,
         NEW L, L = K \cup {<<<<name, k>>, m[name]>> : name \in DOMAIN m}
  PROVE  Places(L, k + 1) /\ \A name \in DOMAIN m : <<<<name, k>>, m[name]>> \in L
<1>1. PICK N : N = {<<<<name, k>>, m[name]>> : name \in DOMAIN m}
  OBVIOUS
<1>2. L = K \cup N
  BY <1>1
<1>3. <<RetLabel, <<>>>> \in L
  BY <1>2 DEF Places
<1>4. ASSUME NEW l, NEW u, <<l, u>> \in N
      PROVE  \E name \in DOMAIN m : l = <<name, k>> /\ u = m[name]
  <2>1. PICK name \in DOMAIN m : <<l, u>> = <<<<name, k>>, m[name]>>
    BY <1>1, <1>4
  <2>2. l = <<name, k>> /\ u = m[name]
    BY <2>1
  <2> QED BY <2>2
<1>5. ASSUME NEW l, NEW u, NEW v, <<l, u>> \in N, <<l, v>> \in N
      PROVE  u = v
  <2>1. PICK a \in DOMAIN m : l = <<a, k>> /\ u = m[a]
    BY <1>4, <1>5
  <2>2. PICK b \in DOMAIN m : l = <<b, k>> /\ v = m[b]
    BY <1>4, <1>5
  <2>3. a = b
    BY <2>1, <2>2
  <2> QED BY <2>1, <2>2, <2>3
<1>6. ASSUME NEW l, NEW u, NEW v, <<l, u>> \in N, <<l, v>> \in K
      PROVE  FALSE
  <2>1. PICK a \in DOMAIN m : l = <<a, k>> /\ u = m[a]
    BY <1>4, <1>6
  <2>2. a # "ret"
    OBVIOUS
  <2>3. l # RetLabel
    BY <2>1, <2>2 DEF RetLabel
  <2>4. Numbered(l, k)
    BY <1>6 DEF Places
  <2>5. PICK name, n : n \in Nat /\ n < k /\ l = <<name, n>>
    BY <2>3, <2>4 DEF Numbered
  <2> QED BY <2>1, <2>5
<1>7. \A l, u, v : <<l, u>> \in L /\ <<l, v>> \in L => u = v
  BY <1>2, <1>5, <1>6 DEF Places
<1>8. ASSUME NEW l, NEW u, <<l, u>> \in L
      PROVE  Numbered(l, k + 1)
  <2>1. CASE <<l, u>> \in N
    <3>1. PICK a \in DOMAIN m : l = <<a, k>>
      BY <1>4, <2>1
    <3>2. k < k + 1
      OBVIOUS
    <3> QED BY <3>1, <3>2 DEF Numbered
  <2>2. CASE <<l, u>> \in K
    <3>1. Numbered(l, k)
      BY <2>2 DEF Places
    <3>2. ASSUME NEW name, NEW n \in Nat, n < k, l = <<name, n>>
          PROVE  Numbered(l, k + 1)
      <4>1. n < k + 1
        BY <3>2
      <4> QED BY <3>2, <4>1 DEF Numbered
    <3>3. l = RetLabel => Numbered(l, k + 1)
      BY DEF Numbered
    <3> QED BY <3>1, <3>2, <3>3 DEF Numbered
  <2> QED BY <1>2, <1>8, <2>1, <2>2
<1>9. \A name \in DOMAIN m : <<<<name, k>>, m[name]>> \in L
  BY <1>1, <1>2
<1> QED BY <1>3, <1>7, <1>8, <1>9 DEF Places

(* What is left after the first expression of each statement. *)
LEMMA AfterExpression ==
  ASSUME NEW e, e # 0, NEW z, IsList(z), NEW b \in BOOLEAN
  PROVE  Asks(Evaluate(e) \o z) = e /\ After(Evaluate(e) \o z, b) = z
<1>1. PICK st : st = [op |-> "expression", e |-> e]
  OBVIOUS
<1>2. PICK w : w = <<st>> \o z
  OBVIOUS
<1>3. Head(w) = st /\ Tail(w) = z /\ w # <<>>
  BY <1>2, BeginsWith
<1>4. Evaluate(e) \o z = w
  BY <1>1, <1>2 DEF Evaluate
<1>5. Asks(w) = e /\ After(w, b) = z
  BY <1>1, <1>3 DEF Asks, After
<1> QED BY <1>4, <1>5

(* A return evaluates its expression, and nothing is left, *)
LEMMA AfterReturn ==
  ASSUME NEW e, NEW z, IsList(z), NEW b \in BOOLEAN
  PROVE  Asks(ReturnOf(e) \o z) = e /\ After(ReturnOf(e) \o z, b) = <<>>
<1>1. PICK st : st = [op |-> "return", e |-> e]
  OBVIOUS
<1>2. PICK w : w = <<st>> \o z
  OBVIOUS
<1>3. Head(w) = st /\ Tail(w) = z /\ w # <<>>
  BY <1>2, BeginsWith
<1>4. ReturnOf(e) \o z = w
  BY <1>1, <1>2 DEF ReturnOf
<1>5. Asks(w) = e /\ After(w, b) = <<>>
  BY <1>1, <1>3 DEF Asks, After
<1> QED BY <1>4, <1>5

(* an if its condition, and then one of its branches is left before the    *)
(* rest,                                                                   *)
LEMMA AfterIf ==
  ASSUME NEW e, NEW t, NEW f, NEW z, IsList(z)
  PROVE  /\ Asks(IfOf(e, t, f) \o z) = e
         /\ \A b \in BOOLEAN : After(IfOf(e, t, f) \o z, b) = (IF b THEN t ELSE f) \o z
<1>1. PICK st : st = [op |-> "if", e |-> e, t |-> t, f |-> f]
  OBVIOUS
<1>2. PICK w : w = <<st>> \o z
  OBVIOUS
<1>3. Head(w) = st /\ Tail(w) = z /\ w # <<>>
  BY <1>2, BeginsWith
<1>4. IfOf(e, t, f) \o z = w
  BY <1>1, <1>2 DEF IfOf
<1>5. Asks(w) = e
  BY <1>1, <1>3 DEF Asks
<1>6. \A b \in BOOLEAN : After(w, b) = (IF b THEN t ELSE f) \o z
  <2>1. st.op = "if" /\ st.t = t /\ st.f = f
    BY <1>1
  <2> QED BY <1>3, <2>1 DEF After
<1> QED BY <1>4, <1>5, <1>6

(* and a while its condition, and then its body and itself before the      *)
(* rest, or the rest.                                                      *)
LEMMA AfterWhile ==
  ASSUME NEW e, NEW t, NEW z, IsList(z)
  PROVE  /\ Asks(WhileOf(e, t) \o z) = e
         /\ After(WhileOf(e, t) \o z, TRUE) = t \o (WhileOf(e, t) \o z)
         /\ After(WhileOf(e, t) \o z, FALSE) = z
         /\ IsList(WhileOf(e, t)) /\ IsList(WhileOf(e, t) \o z)
<1>1. PICK st : st = [op |-> "while", e |-> e, t |-> t]
  OBVIOUS
<1>2. PICK w : w = <<st>> \o z
  OBVIOUS
<1>3. Head(w) = st /\ Tail(w) = z /\ w # <<>> /\ IsList(w) /\ IsList(<<st>>)
  BY <1>2, BeginsWith, ListOfOne
<1>4. WhileOf(e, t) \o z = w /\ WhileOf(e, t) = <<st>>
  BY <1>1, <1>2 DEF WhileOf
<1>5. Asks(w) = e
  BY <1>1, <1>3 DEF Asks
<1>6. \A b \in BOOLEAN : After(w, b) = IF b THEN t \o w ELSE z
  <2>1. st.op = "while" /\ st.t = t
    BY <1>1
  <2> QED BY <1>3, <2>1 DEF After
<1>7. After(w, TRUE) = t \o w /\ After(w, FALSE) = z
  BY <1>6
<1> QED BY <1>3, <1>4, <1>5, <1>7

(* A tree that is walked. *)
LEMMA WalkRuns ==
  ASSUME NEW P, NEW K, NEW t, NEW p, NEW q, Does(P, t, p, q)
  PROVE  Runs(P, K, Walk(t), p, q) /\ IsList(Walk(t))
<1>1. PICK i : i = Ins("tree", t)
  OBVIOUS
<1>2. i.op = "tree" /\ i.arg = t
  BY <1>1 DEF Ins
<1>3. Follows(P, K, i, p, q)
  BY <1>2 DEF Follows
<1> QED BY <1>1, <1>3, RunsOne, ListOfOne DEF Walk

(* The tree of an expression, when it is the one that is asked for. *)
LEMMA ExpressionRuns ==
  ASSUME NEW P, NEW K, NEW t, NEW e, IsExpr(t, e), NEW s, Asks(s) = e,
         NEW u, u = After(s, FALSE), NEW v, v = After(s, TRUE)
  PROVE  Runs(P, K, Walk(t), Both(s), <<u, v>>) /\ IsList(Walk(t))
<1>1. PICK p : p = Both(s)
  OBVIOUS
<1>2. PICK q : q = <<u, v>>
  OBVIOUS
<1>3. Evaluates(e, p, q)
  BY <1>1, <1>2 DEF Evaluates, IsExpr
<1>4. Does(P, t, p, q)
  BY <1>3 DEF Does, IsExpr
<1> QED BY <1>1, <1>2, <1>4, WalkRuns

(* What the source was lowered to, before what is left. *)
LEMMA TreeRuns ==
  ASSUME NEW P, NEW sn, Lowering(P, sn), NEW K, NEW s, NEW t, <<s, t>> \in P, NEW z, IsList(z),
         NEW w, w = s \o z
  PROVE  Runs(P, K, Walk(t), Both(w), Both(z)) /\ IsList(Walk(t)) /\ IsList(w)
<1>1. Lowers(P, sn, s, t) /\ IsList(s)
  BY DEF Lowering, Lowers
<1>2. IsList(w)
  BY <1>1, Concat
<1>3. CASE t.op = "Oexpr"
  <2>1. LowersExpr(s, t)
    BY <1>1, <1>3, ByOperator
  <2>2. PICK e : IsExpr(t, e) /\ s = Evaluate(e)
    BY <2>1 DEF LowersExpr
  <2>3. e # 0
    BY <2>2 DEF IsExpr
  <2>4. \A b \in BOOLEAN : Asks(w) = e /\ After(w, b) = z
    BY <2>2, <2>3, AfterExpression
  <2>5. Runs(P, K, Walk(t), Both(w), <<z, z>>) /\ IsList(Walk(t))
    BY <2>2, <2>4, ExpressionRuns
  <2> QED BY <1>2, <2>5 DEF Both
<1>4. CASE t.op # "Oexpr"
  <2>1. PICK p : p = Both(w)
    OBVIOUS
  <2>2. PICK q : q = Both(z)
    OBVIOUS
  <2>3. Does(P, t, p, q)
    BY <1>4, <2>1, <2>2 DEF Does
  <2> QED BY <1>2, <2>1, <2>2, <2>3, WalkRuns
<1> QED BY <1>3, <1>4

(* It leaves nothing but what a return leaves. *)
LEMMA ReturnRuns ==
  ASSUME NEW P, NEW K, NEW s, NEW t, <<s, t>> \in P, t.op = "Oret", NEW z, IsList(z),
         NEW w, w = s \o z, NEW y
  PROVE  Runs(P, K, Walk(t), Both(w), Both(y)) /\ IsList(Walk(t))
<1>1. PICK p : p = Both(w)
  OBVIOUS
<1>2. PICK q : q = Both(y)
  OBVIOUS
<1>3. Does(P, t, p, q)
  BY <1>1, <1>2 DEF Does
<1> QED BY <1>1, <1>2, <1>3, WalkRuns

(* A tree that is no expression, and what is left before and after it. *)
DoneFrom(P, sn, t, p, q, s, z, y, w) ==
  /\ Lowers(P, sn, s, t) /\ IsList(s) /\ IsList(z)
  /\ w = s \o z /\ p = Both(w) /\ q = Both(y)
  /\ y = z \/ t.op = "Oret"
IsDone(P, sn, t, p, q) == \E s, z, y, w : DoneFrom(P, sn, t, p, q, s, z, y, w)

(* What a tree that is no expression does, operator by operator. *)
LEMMA WhatIsDone ==
  ASSUME NEW P, NEW sn, Lowering(P, sn), NEW t, t.op # "Oexpr", NEW p, NEW q, Does(P, t, p, q)
  PROVE  IsDone(P, sn, t, p, q)
<1>1. PICK s, z, y : /\ <<s, t>> \in P /\ IsList(z)
                     /\ p = Both(s \o z) /\ q = Both(y)
                     /\ y = z \/ t.op = "Oret"
  BY DEF Does
<1>2. Lowers(P, sn, s, t) /\ IsList(s)
  BY <1>1 DEF Lowering, Lowers
<1>3. PICK w : w = s \o z
  OBVIOUS
<1>4. DoneFrom(P, sn, t, p, q, s, z, y, w)
  BY <1>1, <1>2, <1>3 DEF DoneFrom
<1> QED BY <1>4 DEF IsDone

(* What is printed and walked for each tree does what the tree does. *)
LEMMA SeqRuns ==
  ASSUME NEW P, NEW sn, Lowering(P, sn), NEW K, NEW t, t.op = "Oseq", NEW p, NEW q, Does(P, t, p, q),
         NEW x, x = IF t.stmts = <<>> THEN <<>>
                    ELSE IF Head(t.stmts).op = "Oret" THEN Walk(Head(t.stmts))
                    ELSE Walk(Head(t.stmts)) \o Walk(Seq_(Tail(t.stmts)))
  PROVE  Runs(P, K, x, p, q) /\ IsList(x)
<1>1. PICK s, z, y, w : /\ Lowers(P, sn, s, t) /\ IsList(z)
                        /\ w = s \o z /\ p = Both(w) /\ q = Both(y)
                        /\ y = z \/ t.op = "Oret"
  <2>1. IsDone(P, sn, t, p, q)
    BY WhatIsDone
  <2> QED BY <2>1 DEF IsDone, DoneFrom
<1>2. LowersSeq(P, s, t) /\ y = z
  BY <1>1, ByOperator
<1>3. PICK ts : /\ t = Seq_(ts)
                /\ \/ ts = <<>> /\ s = <<>>
                   \/ /\ ts # <<>>
                      /\ \E u, v : /\ s = u \o v
                                   /\ IsList(u) /\ IsList(v)
                                   /\ <<u, Head(ts)>> \in P /\ <<v, Seq_(Tail(ts))>> \in P
  BY <1>2 DEF LowersSeq
<1>4. t.stmts = ts
  BY <1>3 DEF Seq_
<1>5. CASE ts = <<>>
  <2>1. s = <<>> /\ x = <<>> /\ w = z
    BY <1>1, <1>3, <1>4, <1>5, Concat
  <2> QED BY <1>1, <1>2, <2>1, RunsNothing, ListOfOne
<1>6. CASE ts # <<>>
  <2>1. PICK u, v : /\ s = u \o v
                    /\ IsList(u) /\ IsList(v)
                    /\ <<u, Head(ts)>> \in P /\ <<v, Seq_(Tail(ts))>> \in P
    BY <1>3, <1>6
  <2>2. PICK h, r : h = Head(ts) /\ r = Seq_(Tail(ts))
    OBVIOUS
  <2>3. PICK m : m = v \o z
    OBVIOUS
  <2>4. w = u \o m /\ IsList(m)
    <3>1. IsList(u) /\ IsList(v) /\ IsList(z)
      BY <1>1, <2>1
    <3>2. (u \o v) \o z = u \o (v \o z)
      BY <3>1, Associative
    <3>3. IsList(v \o z)
      BY <3>1, Concat
    <3> QED BY <1>1, <2>1, <2>3, <3>2, <3>3
  <2>5. CASE h.op = "Oret"
    <3>1. x = Walk(h)
      BY <1>4, <1>6, <2>2, <2>5
    <3>2. Runs(P, K, Walk(h), Both(w), Both(y)) /\ IsList(Walk(h))
      BY <2>1, <2>2, <2>4, <2>5, ReturnRuns
    <3> QED BY <1>1, <3>1, <3>2
  <2>6. CASE h.op # "Oret"
    <3>1. x = Walk(h) \o Walk(r)
      BY <1>4, <1>6, <2>2, <2>6
    <3>2. Runs(P, K, Walk(h), Both(w), Both(m)) /\ IsList(Walk(h))
      BY <2>1, <2>2, <2>4, TreeRuns
    <3>3. Runs(P, K, Walk(r), Both(m), Both(z)) /\ IsList(Walk(r))
      BY <1>1, <2>1, <2>2, <2>3, TreeRuns
    <3>4. Runs(P, K, Walk(h) \o Walk(r), Both(w), Both(z)) /\ IsList(Walk(h) \o Walk(r))
      BY <3>2, <3>3, RunsBoth
    <3> QED BY <1>1, <1>2, <3>1, <3>4
  <2> QED BY <2>5, <2>6
<1> QED BY <1>5, <1>6

(* The code of a return does what the return does: the epilogue is the     *)
(* place where nothing is left.                                            *)
LEMMA ReturnsRun ==
  ASSUME NEW P, NEW sn, Lowering(P, sn), NEW K, NEW t, t.op = "Oret", NEW p, NEW q, Does(P, t, p, q),
         NEW x, x = (IF t.base = Null THEN <<>> ELSE Walk(t.base)) \o Jmp(RetLabel)
  PROVE  Runs(P, K, x, p, q) /\ IsList(x)
<1>1. PICK s, z, y, w : /\ Lowers(P, sn, s, t) /\ IsList(z)
                        /\ w = s \o z /\ p = Both(w) /\ q = Both(y)
  <2>1. IsDone(P, sn, t, p, q)
    BY WhatIsDone
  <2> QED BY <2>1 DEF IsDone, DoneFrom
<1>2. LowersRet(s, t)
  BY <1>1, ByOperator
<1>3. ASSUME NEW a, Asks(a) = 0
      PROVE  Runs(P, K, Jmp(RetLabel), Both(a), Both(y))
  <2>1. PICK i : i = Ins("jmp", RetLabel)
    OBVIOUS
  <2>2. i.op = "jmp" /\ i.arg = RetLabel
    BY <2>1 DEF Ins
  <2>3. PICK m, n : m = Both(a) /\ n = Both(y)
    OBVIOUS
  <2>4. Follows(P, K, i, m, n)
    BY <1>3, <2>2, <2>3 DEF Follows
  <2> QED BY <2>1, <2>3, <2>4, RunsOne DEF Jmp
<1>4. IsList(Jmp(RetLabel)) /\ IsList(<<>>)
  BY ListOfOne DEF Jmp
<1>5. CASE t.base = Null /\ s = ReturnOf(0)
  <2>1. Asks(w) = 0
    BY <1>1, <1>5, AfterReturn
  <2>2. Runs(P, K, Jmp(RetLabel), p, q) /\ Runs(P, K, <<>>, p, p)
    BY <1>1, <1>3, <2>1, RunsNothing
  <2>3. Runs(P, K, <<>> \o Jmp(RetLabel), p, q) /\ IsList(<<>> \o Jmp(RetLabel))
    BY <1>4, <2>2, RunsBoth
  <2> QED BY <1>5, <2>3
<1>6. ASSUME NEW e, IsExpr(t.base, e), t.base # Null, s = ReturnOf(e)
      PROVE  Runs(P, K, x, p, q) /\ IsList(x)
  <2>1. PICK n : n = <<>>
    OBVIOUS
  <2>2. \A b \in BOOLEAN : Asks(w) = e /\ After(w, b) = n
    BY <1>1, <1>6, <2>1, AfterReturn
  <2>3. PICK b : b = t.base
    OBVIOUS
  <2>4. Runs(P, K, Walk(b), Both(w), <<n, n>>) /\ IsList(Walk(b))
    BY <1>6, <2>2, <2>3, ExpressionRuns
  <2>5. Runs(P, K, Walk(b), p, Both(n))
    BY <1>1, <2>4 DEF Both
  <2>6. Runs(P, K, Jmp(RetLabel), Both(n), q)
    <3>1. Asks(n) = 0
      BY <2>1 DEF Asks
    <3> QED BY <1>1, <1>3, <3>1
  <2>7. Runs(P, K, Walk(b) \o Jmp(RetLabel), p, q) /\ IsList(Walk(b) \o Jmp(RetLabel))
    BY <1>4, <2>4, <2>5, <2>6, RunsBoth
  <2> QED BY <1>6, <2>3, <2>7
<1> QED BY <1>2, <1>5, <1>6 DEF LowersRet

(* Its labels are new. *)
Extended(P, K, k, x, p, q) ==
  IsList(x) /\ \E L : K \subseteq L /\ Places(L, k) /\ Runs(P, L, x, p, q)

(* The code of a branch does what the branch does, from places of its two  *)
(* labels: at the else its other branch and the rest are left, at the end  *)
(* the rest.                                                               *)
LEMMA BranchesRun ==
  ASSUME NEW P, NEW sn, Lowering(P, sn), NEW k \in Nat, NEW K, Places(K, k),
         NEW t, t.op = "Obranch", NEW p, NEW q, Does(P, t, p, q),
         NEW h \in BOOLEAN, h = (t.f # Null), NEW g, g = IF t.f = Null THEN <<>> ELSE Walk(t.f),
         NEW x, x = BranchCode(k, Walk(t.cond), Walk(t.t), g, h), IsList(x)
  PROVE  Extended(P, K, k + 1, x, p, q)
<1>1. PICK s, z, y, w : /\ Lowers(P, sn, s, t) /\ IsList(z)
                        /\ w = s \o z /\ p = Both(w) /\ q = Both(y)
                        /\ y = z \/ t.op = "Oret"
  <2>1. IsDone(P, sn, t, p, q)
    BY WhatIsDone
  <2> QED BY <2>1 DEF IsDone, DoneFrom
<1>2. LowersBranch(P, s, t) /\ y = z
  BY <1>1, ByOperator
<1>3. PICK e, a, b : /\ IsExpr(t.cond, e)
                     /\ s = IfOf(e, a, b)
                     /\ IsList(a) /\ IsList(b)
                     /\ <<a, t.t>> \in P
                     /\ IF t.f = Null THEN b = <<>> ELSE <<b, t.f>> \in P
  BY <1>2 DEF LowersBranch
<1>4. PICK az : az = a \o z
  OBVIOUS
<1>5. PICK bz : bz = b \o z
  OBVIOUS
<1>6. PICK m : m = [n \in {"branch.else", "branch.end"} |-> IF n = "branch.else" THEN bz ELSE z]
  OBVIOUS
<1>7. /\ DOMAIN m = {"branch.else", "branch.end"} /\ "ret" \notin DOMAIN m
      /\ m["branch.else"] = bz /\ m["branch.end"] = z
  BY <1>6
<1>8. PICK L : L = K \cup {<<<<name, k>>, m[name]>> : name \in DOMAIN m}
  OBVIOUS
<1>9. /\ K \subseteq L /\ Places(L, k + 1)
      /\ <<<<"branch.else", k>>, bz>> \in L /\ <<<<"branch.end", k>>, z>> \in L
  <2>1. Places(L, k + 1) /\ \A name \in DOMAIN m : <<<<name, k>>, m[name]>> \in L
    BY <1>7, <1>8, NewPlaces
  <2>2. "branch.else" \in DOMAIN m /\ "branch.end" \in DOMAIN m
    BY <1>7
  <2> QED BY <1>7, <1>8, <2>1, <2>2
<1>10. Runs(P, L, Walk(t.cond), p, <<bz, az>>) /\ IsList(Walk(t.cond))
  <2>1. Asks(w) = e /\ After(w, TRUE) = az /\ After(w, FALSE) = bz
    <3>1. IsList(z)
      BY <1>1
    <3>2. /\ Asks(IfOf(e, a, b) \o z) = e
          /\ \A n \in BOOLEAN : After(IfOf(e, a, b) \o z, n) = (IF n THEN a ELSE b) \o z
      BY <3>1, AfterIf
    <3>3. w = IfOf(e, a, b) \o z
      BY <1>1, <1>3
    <3>4. Asks(w) = e /\ \A n \in BOOLEAN : After(w, n) = IF n THEN az ELSE bz
      BY <1>4, <1>5, <3>2, <3>3
    <3> QED BY <3>4
  <2>2. PICK c : c = t.cond
    OBVIOUS
  <2>3. Runs(P, L, Walk(c), Both(w), <<bz, az>>) /\ IsList(Walk(c))
    BY <1>3, <2>1, <2>2, ExpressionRuns
  <2> QED BY <1>1, <2>2, <2>3
<1>11. Runs(P, L, Walk(t.t), Both(az), Both(z)) /\ IsList(Walk(t.t))
  <2>1. PICK c : c = t.t
    OBVIOUS
  <2>2. Runs(P, L, Walk(c), Both(az), Both(z)) /\ IsList(Walk(c))
    BY <1>1, <1>3, <1>4, <2>1, TreeRuns
  <2> QED BY <2>1, <2>2
<1>12. Runs(P, L, g, Both(bz), Both(z)) /\ IsList(g) /\ (~h => bz = z)
  <2>1. CASE t.f = Null
    <3>1. g = <<>> /\ bz = z /\ IsList(<<>>)
      BY <1>1, <1>3, <1>5, <2>1, Concat, ListOfOne
    <3> QED BY <3>1, RunsNothing
  <2>2. CASE t.f # Null
    <3>1. PICK c : c = t.f
      OBVIOUS
    <3>2. Runs(P, L, Walk(c), Both(bz), Both(z)) /\ IsList(Walk(c))
      BY <1>1, <1>3, <1>5, <2>2, <3>1, TreeRuns
    <3> QED BY <2>2, <3>1, <3>2
  <2> QED BY <2>1, <2>2
<1>13. Runs(P, L, x, p, Both(z))
  BY <1>9, <1>10, <1>11, <1>12, BranchRuns
<1> QED BY <1>1, <1>2, <1>9, <1>13 DEF Extended

(* The code of a loop does what the loop does: at its condition the loop   *)
(* itself is left, and after it the rest.                                  *)
LEMMA LoopsRun ==
  ASSUME NEW P, NEW sn, Lowering(P, sn), "for" \notin sn, NEW k \in Nat, NEW K, Places(K, k),
         NEW t, t.op \in {"Owhile", "Odowhile"}, NEW p, NEW q, Does(P, t, p, q),
         NEW x, x = LoopCode(t.op, k, Walk(t.cond), Walk(t.t)), IsList(x)
  PROVE  Extended(P, K, k + 1, x, p, q)
<1>1. PICK s, z, y, w : /\ Lowers(P, sn, s, t) /\ IsList(z)
                        /\ w = s \o z /\ p = Both(w) /\ q = Both(y)
                        /\ y = z \/ t.op = "Oret"
  <2>1. IsDone(P, sn, t, p, q)
    BY WhatIsDone
  <2> QED BY <2>1 DEF IsDone, DoneFrom
<1>2. y = z
  BY <1>1
<1>3. PICK e, a : /\ IsExpr(t.cond, e)
                  /\ s = IF t.op = "Odowhile" THEN DoOf(e, a) ELSE WhileOf(e, a)
                  /\ IsList(a)
                  /\ <<a, t.t>> \in P
  <2>1. CASE t.op = "Owhile"
    <3>1. LowersWhile(P, sn, s, t)
      BY <1>1, <2>1, ByOperator
    <3> QED BY <2>1, <3>1 DEF LowersWhile
  <2>2. CASE t.op = "Odowhile"
    <3>1. LowersDo(P, sn, s, t)
      BY <1>1, <2>2, ByOperator
    <3> QED BY <2>2, <3>1 DEF LowersDo
  <2> QED BY <2>1, <2>2
<1>4. PICK wh : wh = WhileOf(e, a) \o z
  OBVIOUS
<1>5. PICK bd : bd = a \o wh
  OBVIOUS
<1>6. /\ Asks(wh) = e /\ After(wh, TRUE) = bd /\ After(wh, FALSE) = z
      /\ IsList(WhileOf(e, a)) /\ IsList(wh)
  <2>1. /\ Asks(WhileOf(e, a) \o z) = e
        /\ After(WhileOf(e, a) \o z, TRUE) = a \o (WhileOf(e, a) \o z)
        /\ After(WhileOf(e, a) \o z, FALSE) = z
        /\ IsList(WhileOf(e, a)) /\ IsList(WhileOf(e, a) \o z)
    BY <1>1, AfterWhile
  <2> QED BY <1>4, <1>5, <2>1
<1>7. w = IF t.op = "Odowhile" THEN bd ELSE wh
  <2>1. (a \o WhileOf(e, a)) \o z = a \o (WhileOf(e, a) \o z)
    <3>1. IsList(a) /\ IsList(z) /\ IsList(WhileOf(e, a))
      BY <1>1, <1>3, <1>6
    <3>2. PICK v : v = WhileOf(e, a)
      OBVIOUS
    <3>3. IsList(v)
      BY <3>1, <3>2
    <3>4. (a \o v) \o z = a \o (v \o z)
      BY <3>1, <3>3, Associative
    <3> QED BY <3>2, <3>4
  <2> QED BY <1>1, <1>3, <1>4, <1>5, <2>1 DEF DoOf
<1>8. PICK m : m = [n \in {"while.cond", "while.after", "while.body", "while.body:"} |->
                      IF n = "while.cond" THEN wh ELSE IF n = "while.after" THEN z ELSE bd]
  OBVIOUS
<1>9. /\ DOMAIN m = {"while.cond", "while.after", "while.body", "while.body:"}
      /\ "ret" \notin DOMAIN m
      /\ m["while.cond"] = wh /\ m["while.after"] = z
      /\ m["while.body"] = bd /\ m["while.body:"] = bd
  BY <1>8
<1>10. PICK L : L = K \cup {<<<<name, k>>, m[name]>> : name \in DOMAIN m}
  OBVIOUS
<1>11. /\ K \subseteq L /\ Places(L, k + 1)
       /\ <<<<"while.cond", k>>, wh>> \in L /\ <<<<"while.after", k>>, z>> \in L
       /\ <<<<"while.body", k>>, bd>> \in L /\ <<<<"while.body:", k>>, bd>> \in L
  <2>1. Places(L, k + 1) /\ \A name \in DOMAIN m : <<<<name, k>>, m[name]>> \in L
    BY <1>9, <1>10, NewPlaces
  <2>2. /\ "while.cond" \in DOMAIN m /\ "while.after" \in DOMAIN m
        /\ "while.body" \in DOMAIN m /\ "while.body:" \in DOMAIN m
    BY <1>9
  <2> QED BY <1>9, <1>10, <2>1, <2>2
<1>12. Runs(P, L, Walk(t.cond), Both(wh), <<z, bd>>) /\ IsList(Walk(t.cond))
  <2>1. PICK c : c = t.cond
    OBVIOUS
  <2>2. Runs(P, L, Walk(c), Both(wh), <<z, bd>>) /\ IsList(Walk(c))
    BY <1>3, <1>6, <2>1, ExpressionRuns
  <2> QED BY <2>1, <2>2
<1>13. Runs(P, L, Walk(t.t), Both(bd), Both(wh)) /\ IsList(Walk(t.t))
  <2>1. PICK c : c = t.t
    OBVIOUS
  <2>2. Runs(P, L, Walk(c), Both(bd), Both(wh)) /\ IsList(Walk(c))
    BY <1>3, <1>5, <1>6, <2>1, TreeRuns
  <2> QED BY <2>1, <2>2
<1>14. PICK op : op = t.op
  OBVIOUS
<1>15. Runs(P, L, x, IF op = "Odowhile" THEN Both(bd) ELSE Both(wh), Both(z))
  BY <1>11, <1>12, <1>13, <1>14, LoopRuns
<1>16. (IF op = "Odowhile" THEN Both(bd) ELSE Both(wh)) = p
  BY <1>1, <1>7, <1>14
<1> QED BY <1>1, <1>2, <1>11, <1>15, <1>16 DEF Extended
-----------------------------------------------------------------------------
(* The code does what is left of the source, and leaves nothing.  While it *)
(* runs, what is left is what the instruction before leaves; but nothing   *)
(* asked for is nothing left.                                              *)
NoTrees(x) == \A i \in 1..Len(x) : x[i].op # "tree"
Doing(P, K, q) ==
  /\ Lowering(P, seen) /\ Places(K, label)
  /\ Runs(P, K, code, Both(todo), q) /\ Runs(P, K, work, q, Both(<<>>))
Left(p, a, ss) ==
  \/ ss = IF a THEN p[2] ELSE p[1]
  \/ (IF a THEN p[2] ELSE p[1]) = <<>> /\ Asks(ss) = 0
Running(P, K, c) == Places(K, label) /\ Chained(P, K, code, c) /\ Left(c[pc - 1], ax, todo)

Followed ==
  "for" \notin seen =>
    /\ status = "emitting" => NoTrees(code) /\ \E P, K, q : Doing(P, K, q)
    /\ status = "running" => NoTrees(code) /\ \E P, K, c : Running(P, K, c)
    /\ status = "returned" => Asks(todo) = 0

(* The body of the function is what is left. *)
LEMMA EndOfFunctionFollows ==
  ASSUME Types, Parsed, EndOfFunction
  PROVE  Followed'
<1>1. /\ status = "parsing" /\ done = None /\ Len(stack) = 1
      /\ todo' = Top.src
      /\ work' = Walk(Seq_(blocks[1])) \o Label(RetLabel)
      /\ status' = IF err THEN "refused" ELSE "emitting"
      /\ seen' = seen /\ label' = label /\ code' = code
  BY DEF EndOfFunction
<1>2. code' = <<>> /\ label = 0
  BY <1>1 DEF Types
<1>3. NoTrees(code')
  BY <1>2 DEF NoTrees
<1>4. ASSUME ~err
      PROVE  \E P, K, q : Doing(P, K, q)'
  <2>1. PICK P : Lowering(P, seen) /\ LowersAll(P, stack, blocks, done)
    BY <1>1, <1>4 DEF Parsed
  <2>2. Shaped(stack, blocks, done)
    BY <1>1 DEF Parsed
  <2>3. <<stack[1].src, Seq_(blocks[1])>> \in P
    <3>1. stack[1].op = "block" /\ 1 \in 1..Len(stack)
      BY <1>1, <2>2 DEF Shaped
    <3>2. Level(stack, 1) = 1
      <4>1. Level(stack, 0) = 0
        <5>1. {i \in 1..0 : stack[i].op = "block"} = {}
          OBVIOUS
        <5> QED BY <5>1, FS_EmptySet DEF Level
      <4>2. Level(stack, 0 + 1) = Level(stack, 0) + 1
        BY <3>1, LevelStep
      <4> QED BY <4>1, <4>2
    <3>3. LowersBlock(P, stack, blocks, 1)
      BY <2>1, <3>1 DEF LowersAll
    <3> QED BY <3>1, <3>2, <3>3 DEF LowersBlock
  <2>4. PICK t : t = Seq_(blocks[1])
    OBVIOUS
  <2>5. PICK s : s = stack[1].src
    OBVIOUS
  <2>6. <<s, t>> \in P /\ todo' = s
    BY <1>1, <2>3, <2>4, <2>5 DEF Top
  <2>7. IsList(s)
    BY <2>1, <2>6 DEF Lowering, Lowers
  <2>8. PICK n : n = <<>>
    OBVIOUS
  <2>9. IsList(n) /\ s = s \o n
    BY <2>7, <2>8, Concat, ListOfOne
  <2>10. PICK K : K = {<<RetLabel, n>>}
    OBVIOUS
  <2>11. Places(K, 0)
    <3>1. <<RetLabel, <<>>>> \in K
      BY <2>8, <2>10
    <3>2. \A l, u : <<l, u>> \in K => l = RetLabel /\ u = n
      BY <2>10
    <3>3. \A l, u : <<l, u>> \in K => Numbered(l, 0)
      BY <3>2 DEF Numbered
    <3> QED BY <3>1, <3>2, <3>3 DEF Places
  <2>12. Runs(P, K, Walk(t), Both(s), Both(n)) /\ IsList(Walk(t))
    BY <2>1, <2>6, <2>9, TreeRuns
  <2>13. Runs(P, K, Label(RetLabel), Both(n), Both(n)) /\ IsList(Label(RetLabel))
    <3>1. PICK l : l = RetLabel
      OBVIOUS
    <3>2. <<l, n>> \in K
      BY <2>10, <3>1
    <3> QED BY <3>1, <3>2, JumpsRun
  <2>14. Runs(P, K, Walk(t) \o Label(RetLabel), Both(s), Both(n))
    BY <2>12, <2>13, RunsBoth
  <2>15. Runs(P, K, <<>>, Both(s), Both(s))
    BY RunsNothing
  <2>16. Doing(P, K, Both(s))'
    BY <1>1, <1>2, <2>1, <2>4, <2>6, <2>8, <2>11, <2>14, <2>15 DEF Doing
  <2> QED BY <2>16
<1> QED BY <1>1, <1>3, <1>4 DEF Followed

(* Printing an instruction keeps the code after the source. *)
LEMMA SayFollows ==
  ASSUME Types, Emitted, Followed, Say
  PROVE  Followed'
<1>1. /\ status = "emitting" /\ work # <<>> /\ Head(work).op # "tree"
      /\ code' = Append(code, Head(work)) /\ work' = Tail(work)
      /\ parser' = parser /\ status' = status /\ label' = label /\ program' = program
  BY DEF Say
<1>2. seen' = seen /\ todo' = todo
  BY <1>1 DEF parser, program
<1>3. IsList(work) /\ IsList(code)
  BY <1>1 DEF Emitted, Labelled, Emits, IsCode, Types
<1>4. PICK h : h = Head(work)
  OBVIOUS
<1>5. PICK b : b = Tail(work)
  OBVIOUS
<1>6. IsList(b) /\ work = <<h>> \o b /\ IsList(<<h>>)
  BY <1>1, <1>3, <1>4, <1>5, HeadAndTail, ListOfOne
<1>7. code' = code \o <<h>>
  BY <1>1, <1>3, <1>4, AppendIsConcatenation
<1>8. ASSUME "for" \notin seen
      PROVE  NoTrees(code') /\ \E P, K, q : Doing(P, K, q)'
  <2>1. NoTrees(code)
    BY <1>1, <1>8 DEF Followed
  <2>2. PICK P, K, q : Doing(P, K, q)
    BY <1>1, <1>8 DEF Followed
  <2>3. /\ Lowering(P, seen) /\ Places(K, label)
        /\ Runs(P, K, code, Both(todo), q) /\ Runs(P, K, <<h>> \o b, q, Both(<<>>))
    BY <1>6, <2>2 DEF Doing
  <2>4. PICK r : Follows(P, K, h, q, r) /\ Runs(P, K, b, r, Both(<<>>))
    BY <1>6, <2>3, RunsFirst
  <2>5. Runs(P, K, <<h>>, q, r)
    BY <2>4, RunsOne
  <2>6. Runs(P, K, code \o <<h>>, Both(todo), r)
    BY <1>3, <1>6, <2>3, <2>5, RunsBoth
  <2>7. Doing(P, K, r)'
    BY <1>1, <1>2, <1>5, <1>7, <2>3, <2>4, <2>6 DEF Doing
  <2>8. NoTrees(code')
    <3>1. PICK x : x = code'
      OBVIOUS
    <3>2. PICK n \in Nat : n = Len(code)
      BY <1>3, ListLength
    <3>3. /\ Len(x) = n + 1
          /\ \A i \in 1..n : x[i] = code[i]
          /\ x[n + 1] = h
      BY <1>1, <1>3, <1>4, <3>1, <3>2, Pushed
    <3>4. ASSUME NEW i \in 1..n + 1
          PROVE  x[i].op # "tree"
      <4>1. CASE i \in 1..n
        BY <2>1, <3>2, <3>3, <4>1 DEF NoTrees
      <4>2. CASE i = n + 1
        BY <1>1, <1>4, <3>3, <4>2
      <4> QED BY <4>1, <4>2
    <3> QED BY <3>1, <3>3, <3>4 DEF NoTrees
  <2> QED BY <2>7, <2>8
<1> QED BY <1>1, <1>2, <1>8 DEF Followed

(* A tree becomes what does the same. *)
LEMMA BecomesFollows ==
  ASSUME Types, Emitted, Followed, NEW ops, Walking(ops), NEW x, Becomes(x),
         \A P, K, p, q : /\ Lowering(P, seen) /\ Places(K, label) /\ "for" \notin seen
                         /\ Does(P, Tree, p, q)
                         => Extended(P, K, label', x, p, q)
  PROVE  Followed'
<1>1. /\ status = "emitting" /\ work # <<>> /\ Head(work).op = "tree" /\ Tree = Head(work).arg
      /\ work' = x \o Tail(work) /\ code' = code
      /\ parser' = parser /\ status' = status /\ program' = program
  BY DEF Walking, Becomes, Tree
<1>2. seen' = seen /\ todo' = todo
  BY <1>1 DEF parser, program
<1>3. IsList(work)
  BY <1>1 DEF Emitted, Labelled, Emits, IsCode
<1>4. PICK h : h = Head(work)
  OBVIOUS
<1>5. PICK b : b = Tail(work)
  OBVIOUS
<1>6. IsList(b) /\ work = <<h>> \o b
  BY <1>1, <1>3, <1>4, <1>5, HeadAndTail
<1>7. ASSUME "for" \notin seen
      PROVE  \E P, K, q : Doing(P, K, q)'
  <2>1. PICK P, K, q : Doing(P, K, q)
    BY <1>1, <1>7 DEF Followed
  <2>2. /\ Lowering(P, seen) /\ Places(K, label)
        /\ Runs(P, K, code, Both(todo), q) /\ Runs(P, K, <<h>> \o b, q, Both(<<>>))
    BY <1>6, <2>1 DEF Doing
  <2>3. PICK r : Follows(P, K, h, q, r) /\ Runs(P, K, b, r, Both(<<>>))
    BY <1>6, <2>2, RunsFirst
  <2>4. Does(P, Tree, q, r)
    BY <1>1, <1>4, <2>3 DEF Follows
  <2>5. Extended(P, K, label', x, q, r)
    BY <1>7, <2>2, <2>4
  <2>6. PICK L : K \subseteq L /\ Places(L, label') /\ Runs(P, L, x, q, r) /\ IsList(x)
    BY <2>5 DEF Extended
  <2>7. Runs(P, L, b, r, Both(<<>>)) /\ Runs(P, L, code, Both(todo), q)
    BY <2>2, <2>3, <2>6, RunsMore
  <2>8. Runs(P, L, x \o b, q, Both(<<>>))
    BY <1>6, <2>6, <2>7, RunsBoth
  <2>9. Doing(P, L, q)'
    BY <1>1, <1>2, <1>5, <2>2, <2>6, <2>7, <2>8 DEF Doing
  <2> QED BY <2>9
<1> QED BY <1>1, <1>2, <1>7 DEF Followed

(* Nothing is added to the labels. *)
LEMMA NotExtended ==
  ASSUME NEW P, NEW K, NEW k, Places(K, k), NEW x, NEW p, NEW q, Runs(P, K, x, p, q), IsList(x)
  PROVE  Extended(P, K, k, x, p, q)
BY DEF Extended

(* So does walking into an expression, *)
LEMMA EmitExpressionFollows ==
  ASSUME Types, Emitted, Followed, EmitExpression
  PROVE  Followed'
<1>1. CASE Walking({"Oexpr"}) /\ Becomes(<<Ins("eval", Tree.e)>>) /\ UNCHANGED label
  <2>1. PICK t : t = Tree
    OBVIOUS
  <2>2. PICK i : i = Ins("eval", t.e)
    OBVIOUS
  <2>3. PICK x : x = <<i>>
    OBVIOUS
  <2>4. Walking({"Oexpr"}) /\ Becomes(x) /\ label' = label /\ t.op = "Oexpr" /\ IsList(x)
    BY <1>1, <2>1, <2>2, <2>3, ListOfOne DEF Walking, Tree
  <2>5. ASSUME NEW P, NEW K, NEW p, NEW q, Places(K, label), Does(P, t, p, q)
        PROVE  Extended(P, K, label', x, p, q)
    <3>1. Evaluates(t.e, p, q)
      BY <2>4, <2>5 DEF Does
    <3>2. i.op = "eval" /\ i.arg = t.e
      BY <2>2 DEF Ins
    <3>3. Follows(P, K, i, p, q)
      BY <3>1, <3>2 DEF Follows
    <3>4. Runs(P, K, x, p, q)
      BY <2>3, <3>3, RunsOne
    <3> QED BY <2>4, <2>5, <3>4, NotExtended
  <2> QED BY <2>1, <2>4, <2>5, BecomesFollows
<1>2. CASE Walking({"Oconst"}) /\ Becomes(<<Ins("zero", 0)>>) /\ UNCHANGED label
  <2>1. PICK t : t = Tree
    OBVIOUS
  <2>2. PICK x : x = <<Ins("zero", 0)>>
    OBVIOUS
  <2>3. Walking({"Oconst"}) /\ Becomes(x) /\ t.op = "Oconst"
    BY <1>2, <2>1, <2>2 DEF Walking, Tree
  <2>4. ASSUME NEW P, NEW K, NEW p, NEW q, Lowering(P, seen), Does(P, t, p, q)
        PROVE  FALSE
    <3>1. IsDone(P, seen, t, p, q)
      BY <2>3, <2>4, WhatIsDone
    <3>2. PICK s : Lowers(P, seen, s, t)
      BY <3>1 DEF IsDone, DoneFrom
    <3> QED BY <2>3, <3>2, ByOperator
  <2> QED BY <2>1, <2>3, <2>4, BecomesFollows
<1> QED BY <1>1, <1>2 DEF EmitExpression

(* a sequence, *)
LEMMA EmitSeqFollows ==
  ASSUME Types, Emitted, Followed, EmitSeq
  PROVE  Followed'
<1>1. PICK t : t = Tree
  OBVIOUS
<1>2. PICK x : x = IF t.stmts = <<>> THEN <<>>
                   ELSE IF Head(t.stmts).op = "Oret" THEN Walk(Head(t.stmts))
                   ELSE Walk(Head(t.stmts)) \o Walk(Seq_(Tail(t.stmts)))
  OBVIOUS
<1>3. Walking({"Oseq"}) /\ Becomes(x) /\ label' = label /\ t.op = "Oseq"
  BY <1>1, <1>2 DEF EmitSeq, Walking, Tree
<1>4. ASSUME NEW P, NEW K, NEW p, NEW q, Lowering(P, seen), Places(K, label), Does(P, t, p, q)
      PROVE  Extended(P, K, label', x, p, q)
  <2>1. Runs(P, K, x, p, q) /\ IsList(x)
    BY <1>2, <1>3, <1>4, SeqRuns
  <2> QED BY <1>3, <1>4, <2>1, NotExtended
<1> QED BY <1>1, <1>3, <1>4, BecomesFollows

(* a return, *)
LEMMA EmitRetFollows ==
  ASSUME Types, Emitted, Followed, EmitRet
  PROVE  Followed'
<1>1. PICK t : t = Tree
  OBVIOUS
<1>2. PICK x : x = (IF t.base = Null THEN <<>> ELSE Walk(t.base)) \o Jmp(RetLabel)
  OBVIOUS
<1>3. Walking({"Oret"}) /\ Becomes(x) /\ label' = label /\ t.op = "Oret"
  BY <1>1, <1>2 DEF EmitRet, Walking, Tree
<1>4. ASSUME NEW P, NEW K, NEW p, NEW q, Lowering(P, seen), Places(K, label), Does(P, t, p, q)
      PROVE  Extended(P, K, label', x, p, q)
  <2>1. Runs(P, K, x, p, q) /\ IsList(x)
    BY <1>2, <1>3, <1>4, ReturnsRun
  <2> QED BY <1>3, <1>4, <2>1, NotExtended
<1> QED BY <1>1, <1>3, <1>4, BecomesFollows

(* a branch, which adds the places of its labels, *)
LEMMA EmitBranchFollows ==
  ASSUME Types, Emitted, Followed, EmitBranch
  PROVE  Followed'
<1>1. PICK t : t = Tree
  OBVIOUS
<1>2. PICK g : g = IF t.f = Null THEN <<>> ELSE Walk(t.f)
  OBVIOUS
<1>3. PICK h \in BOOLEAN : h = (t.f # Null)
  OBVIOUS
<1>4. PICK x : x = BranchCode(label, Walk(t.cond), Walk(t.t), g, h)
  OBVIOUS
<1>5. Walking({"Obranch"}) /\ Becomes(x) /\ label' = label + 1 /\ t.op = "Obranch"
  BY <1>1, <1>2, <1>3, <1>4 DEF EmitBranch, Walking, Tree
<1>6. label \in Nat
  BY DEF Types
<1>7. IsList(x)
  <2>1. PICK P, J : P = {<<<<>>, t.cond>>, <<<<>>, t.t>>, <<<<>>, t.f>>}
                    /\ J = {<<"branch.else", label>>, <<"branch.end", label>>}
    OBVIOUS
  <2>2. Grown(P, t.cond) /\ Grown(P, t.t) /\ Grown(P, t.f)
    BY <2>1 DEF Grown
  <2>3. Emits(P, Walk(t.cond), {}, J) /\ Emits(P, Walk(t.t), {}, J)
    BY <2>2, EmitsOne DEF Walk
  <2>4. Emits(P, g, {}, J)
    <3>1. Emits(P, <<>>, {}, J) /\ Emits(P, Walk(t.f), {}, J)
      BY <2>2, EmitsOne, EmitsNothing DEF Walk
    <3> QED BY <1>2, <3>1
  <2>5. Emits(P, x, J, J)
    BY <1>4, <2>1, <2>3, <2>4, BranchEmits
  <2> QED BY <2>5 DEF Emits, IsCode
<1>8. ASSUME NEW P, NEW K, NEW p, NEW q, Lowering(P, seen), Places(K, label), Does(P, t, p, q)
      PROVE  Extended(P, K, label', x, p, q)
  <2>1. Extended(P, K, label + 1, x, p, q)
    BY <1>2, <1>3, <1>4, <1>5, <1>6, <1>7, <1>8, BranchesRun
  <2> QED BY <1>5, <2>1
<1> QED BY <1>1, <1>5, <1>8, BecomesFollows

(* and a loop. *)
LEMMA EmitLoopFollows ==
  ASSUME Types, Emitted, Followed, EmitLoop
  PROVE  Followed'
<1>1. PICK t : t = Tree
  OBVIOUS
<1>2. PICK op : op = t.op
  OBVIOUS
<1>3. PICK x : x = LoopCode(op, label, Walk(t.cond), Walk(t.t))
  OBVIOUS
<1>4. /\ Walking({"Owhile", "Odowhile"}) /\ Becomes(x) /\ label' = label + 1
      /\ op \in {"Owhile", "Odowhile"}
  BY <1>1, <1>2, <1>3 DEF EmitLoop, Walking, Tree
<1>5. label \in Nat
  BY DEF Types
<1>6. IsList(x)
  <2>1. PICK P : P = {<<<<>>, t.cond>>, <<<<>>, t.t>>}
    OBVIOUS
  <2>2. Grown(P, t.cond) /\ Grown(P, t.t)
    BY <2>1 DEF Grown
  <2>3. PICK N : N = {<<"while.cond", label>>, <<"while.after", label>>}
                     \cup (IF op = "Odowhile" THEN {<<"while.body", label>>} ELSE {})
    OBVIOUS
  <2>4. PICK J : J = N \cup {<<"while.body:", label>>}
    OBVIOUS
  <2>5. Emits(P, Walk(t.cond), {}, J) /\ Emits(P, Walk(t.t), {}, J)
    BY <2>2, EmitsOne DEF Walk
  <2>6. Emits(P, x, N, J)
    <3>1. /\ <<"while.cond", label>> \in J /\ <<"while.after", label>> \in J
          /\ <<"while.body:", label>> \in J
      BY <2>3, <2>4
    <3> QED BY <1>3, <2>3, <2>5, <3>1, LoopEmits
  <2> QED BY <2>6 DEF Emits, IsCode
<1>7. ASSUME NEW P, NEW K, NEW p, NEW q, Lowering(P, seen), Places(K, label), "for" \notin seen,
             Does(P, t, p, q)
      PROVE  Extended(P, K, label', x, p, q)
  <2>1. x = LoopCode(t.op, label, Walk(t.cond), Walk(t.t)) /\ t.op \in {"Owhile", "Odowhile"}
    BY <1>2, <1>3, <1>4
  <2>2. Extended(P, K, label + 1, x, p, q)
    BY <1>5, <1>6, <1>7, <2>1, LoopsRun
  <2> QED BY <1>4, <2>2
<1> QED BY <1>1, <1>4, <1>7, BecomesFollows

(* The code follows the source as tree() walks and prints. *)
LEMMA EmitFollows ==
  ASSUME Types, Emitted, Followed, Emit
  PROVE  Followed'
<1>1. CASE EmitNull
  BY <1>1 DEF EmitNull, Followed
<1> QED BY <1>1, SayFollows, EmitExpressionFollows, EmitSeqFollows, EmitRetFollows,
  EmitBranchFollows, EmitLoopFollows DEF Emit

(* The program begins with the source. *)
LEMMA AssembleFollows ==
  ASSUME Types, Followed, Assemble
  PROVE  Followed'
<1>1. /\ status = "emitting"
      /\ status' = IF Assembles(code) THEN "running" ELSE "unassembled"
      /\ parser' = parser /\ emitter' = emitter /\ program' = program
  BY DEF Assemble
<1>2. seen' = seen /\ label' = label /\ code' = code /\ pc' = pc /\ ax' = ax /\ todo' = todo
  BY <1>1 DEF parser, emitter, program
<1>3. ASSUME "for" \notin seen
      PROVE  NoTrees(code) /\ \E P, K, c : Running(P, K, c)
  <2>1. NoTrees(code)
    BY <1>1, <1>3 DEF Followed
  <2>2. PICK P, K, q : Doing(P, K, q)
    BY <1>1, <1>3 DEF Followed
  <2>3. PICK c : c[0] = Both(todo) /\ Chained(P, K, code, c)
    BY <2>2 DEF Doing, Runs
  <2>4. PICK p : p = c[0]
    OBVIOUS
  <2>5. p[1] = todo /\ p[2] = todo
    BY <2>3, <2>4 DEF Both
  <2>6. pc = 1 /\ pc - 1 = 0
    BY <1>1 DEF Types
  <2>7. Left(p, ax, todo)
    BY <2>5 DEF Left
  <2>8. Running(P, K, c)
    BY <2>2, <2>3, <2>4, <2>6, <2>7 DEF Doing, Running
  <2> QED BY <2>1, <2>8
<1>4. \A P, K, c : Running(P, K, c) => Running(P, K, c)'
  BY <1>2 DEF Running
<1> QED BY <1>1, <1>2, <1>3, <1>4 DEF Followed

(* What is left at a label. *)
LEMMA PlaceOfLabel ==
  ASSUME NEW P, NEW K, NEW k, Places(K, k), NEW x, NEW c, Chained(P, K, x, c),
         NEW j \in 1..Len(x), NEW l, x[j] = Ins("label", l), NEW u, <<l, u>> \in K
  PROVE  c[j - 1] = Both(u) /\ c[j] = Both(u)
<1>1. PICK i : i = x[j]
  OBVIOUS
<1>2. i.op = "label" /\ i.arg = l
  BY <1>1 DEF Ins
<1>3. Follows(P, K, i, c[j - 1], c[j])
  BY <1>1 DEF Chained
<1>4. PICK s : c[j - 1] = Both(s) /\ <<l, s>> \in K /\ c[j] = c[j - 1]
  BY <1>2, <1>3 DEF Follows
<1>5. s = u
  BY <1>4 DEF Places
<1> QED BY <1>4, <1>5

(* Every label has its place. *)
LEMMA LabelHasPlace ==
  ASSUME NEW P, NEW K, NEW x, NEW c, Chained(P, K, x, c),
         NEW j \in 1..Len(x), NEW l, x[j] = Ins("label", l)
  PROVE  \E u : <<l, u>> \in K
<1>1. PICK i : i = x[j]
  OBVIOUS
<1>2. i.op = "label" /\ i.arg = l
  BY <1>1 DEF Ins
<1>3. Follows(P, K, i, c[j - 1], c[j])
  BY <1>1 DEF Chained
<1> QED BY <1>2, <1>3 DEF Follows

(* What is left between two instructions, when eax does not matter. *)
LEMMA LeftOfBoth ==
  ASSUME NEW s, NEW a, NEW ss
  PROVE  Left(Both(s), a, ss) <=> ss = s \/ (s = <<>> /\ Asks(ss) = 0)
<1>1. PICK p : p = Both(s)
  OBVIOUS
<1>2. p[1] = s /\ p[2] = s
  BY <1>1 DEF Both
<1> QED BY <1>1, <1>2 DEF Left

(* The processor goes by the next expression only when it is asked for. *)
LEMMA EvaluationLeaves ==
  ASSUME NEW e, NEW p, NEW q, Evaluates(e, p, q), NEW a, NEW ss, Left(p, a, ss)
  PROVE  Asks(ss) = e /\ \A b \in BOOLEAN : Left(q, b, After(ss, b))
<1>1. PICK s : p = Both(s) /\ Asks(s) = e /\ e # 0 /\ q = <<After(s, FALSE), After(s, TRUE)>>
  BY DEF Evaluates
<1>2. s # <<>>
  BY <1>1 DEF Asks
<1>3. ss = s
  BY <1>1, <1>2, LeftOfBoth
<1>4. Left(q, TRUE, After(s, TRUE)) /\ Left(q, FALSE, After(s, FALSE))
  <2>1. PICK u, v : u = After(s, FALSE) /\ v = After(s, TRUE)
    OBVIOUS
  <2>2. q[1] = u /\ q[2] = v
    BY <1>1, <2>1
  <2>3. Left(q, TRUE, v) /\ Left(q, FALSE, u)
    BY <2>2 DEF Left
  <2> QED BY <2>1, <2>3
<1>5. ASSUME NEW b \in BOOLEAN
      PROVE  Left(q, b, After(s, b))
  <2>1. CASE b = TRUE
    BY <1>4, <2>1
  <2>2. CASE b = FALSE
    BY <1>4, <2>2
  <2> QED BY <2>1, <2>2
<1> QED BY <1>1, <1>3, <1>5

(* As the processor goes on, what the source has left is what the chain    *)
(* says at the next instruction.                                           *)
LEMMA StepFollows ==
  ASSUME Types, Ended, Followed, Step
  PROVE  Followed'
<1>1. PICK j : j = CHOOSE l \in Target(code, code[pc].arg) : TRUE
  OBVIOUS
<1>2. PICK i : i = code[pc]
  OBVIOUS
<1>3. /\ status = "running"
      /\ parser' = parser /\ emitter' = emitter
      /\ status' = IF pc = Len(code) THEN "returned" ELSE status
  BY StepFacts
<1>4. pc' = IF i.op = "jmp" \/ (i.op = "je" /\ ~ax) THEN j ELSE pc + 1
  <2>1. pc' = IF code[pc].op = "jmp" \/ (code[pc].op = "je" /\ ~ax)
              THEN CHOOSE l \in Target(code, code[pc].arg) : TRUE ELSE pc + 1
    BY StepFacts
  <2>2. pc' = IF code[pc].op = "jmp" \/ (code[pc].op = "je" /\ ~ax) THEN j ELSE pc + 1
    BY <1>1, <2>1
  <2> QED BY <1>2, <2>2
<1>5. ax' \in IF i.op = "eval" THEN BOOLEAN ELSE IF i.op = "zero" THEN {FALSE} ELSE {ax}
  BY <1>2, StepFacts
<1>6. todo' = IF i.op = "eval" /\ i.arg = Asks(todo) THEN After(todo, ax') ELSE todo
  BY <1>2, StepFacts
<1>7. seen' = seen /\ label' = label /\ code' = code
  BY <1>3 DEF parser, emitter
<1>8. EndsInReturn(code) /\ Assembles(code) /\ pc \in 1..Len(code)
  BY <1>3 DEF Ended
<1>9. code[Len(code)] = Ins("label", RetLabel)
  <2>1. PICK w : IsList(w) /\ code = w \o Label(RetLabel)
    BY <1>8 DEF EndsInReturn
  <2>2. PICK r : r = Ins("label", RetLabel)
    OBVIOUS
  <2>3. PICK y : y = <<r>>
    OBVIOUS
  <2>4. IsList(y) /\ Len(y) = 1 /\ y[1] = r /\ 1 \in 1..Len(y) /\ code = w \o y
    BY <2>1, <2>2, <2>3, ListOfOne DEF Label
  <2>5. IsList(w) /\ IsList(y)
    BY <2>1, <2>4
  <2>6. Len(w \o y) = Len(w) + Len(y) /\ \A k \in 1..Len(y) : (w \o y)[Len(w) + k] = y[k]
    BY <2>5, Concat
  <2>7. Len(code) = Len(w) + 1 /\ code[Len(w) + 1] = r
    BY <2>4, <2>6
  <2> QED BY <2>2, <2>7
<1>10. CASE "for" \in seen
  BY <1>7, <1>10 DEF Followed
<1>11. CASE "for" \notin seen
  <2>1. PICK P, K, c : Running(P, K, c)
    BY <1>3, <1>11 DEF Followed
  <2>2. NoTrees(code)
    BY <1>3, <1>11 DEF Followed
  <2>3. PICK p : p = c[pc - 1]
    OBVIOUS
  <2>4. PICK q : q = c[pc]
    OBVIOUS
  <2>5. Places(K, label) /\ Chained(P, K, code, c) /\ Left(p, ax, todo)
    BY <2>1, <2>3 DEF Running
  <2>6. Follows(P, K, i, p, q) /\ i.op # "tree"
    BY <1>2, <1>8, <2>2, <2>3, <2>4, <2>5 DEF Chained, NoTrees
  <2>7. <<RetLabel, <<>>>> \in K
    BY <2>5 DEF Places
  <2>8. i.op \in {"jmp", "je"} => j \in 1..Len(code) /\ code[j] = Ins("label", i.arg)
    BY <1>1, <1>2, <1>8, JumpTarget
  <2>9. ASSUME i.op \in {"jmp", "je"}, NEW s, <<i.arg, s>> \in K
        PROVE  c[j - 1] = Both(s)
    <3>1. PICK l : l = i.arg
      OBVIOUS
    <3> QED BY <2>5, <2>8, <2>9, <3>1, PlaceOfLabel
  <2>10. PICK m : m = c[pc' - 1]
    OBVIOUS
  <2>11. PICK a : a = ax'
    OBVIOUS
  <2>12. PICK d : d = todo'
    OBVIOUS
  <2>13. pc' = pc + 1 => m = q
    <3>1. (pc + 1) - 1 = pc
      BY <1>8
    <3> QED BY <2>4, <2>10, <3>1
  <2>14. pc' = j => m = c[j - 1]
    BY <2>10
  <2>15. i.op # "eval" => a = ax /\ d = todo
    BY <1>5, <1>6, <2>6, <2>11, <2>12 DEF Follows
  <2>16. Left(m, a, d)
    <3>2. CASE i.op = "eval"
      <4>1. Evaluates(i.arg, p, q)
        BY <2>6, <3>2 DEF Follows
      <4>2. a \in BOOLEAN
        BY <1>5, <2>11, <3>2
      <4>3. Asks(todo) = i.arg /\ \A b \in BOOLEAN : Left(q, b, After(todo, b))
        BY <2>5, <4>1, EvaluationLeaves
      <4>4. m = q
        BY <1>4, <2>13, <3>2
      <4>5. d = After(todo, a)
        BY <1>6, <2>11, <2>12, <3>2, <4>3
      <4> QED BY <4>2, <4>3, <4>4, <4>5
    <3>3. CASE i.op = "label"
      <4>1. q = p
        BY <2>6, <3>3 DEF Follows
      <4>2. m = q
        BY <1>4, <2>13, <3>3
      <4> QED BY <2>5, <2>15, <3>3, <4>1, <4>2
    <3>4. CASE i.op = "jmp"
      <4>1. m = c[j - 1]
        BY <1>4, <2>14, <3>4
      <4>2. PICK s : p = Both(s) /\ (<<i.arg, s>> \in K \/ (i.arg = RetLabel /\ Asks(s) = 0))
        BY <2>6, <3>4 DEF Follows
      <4>3. todo = s \/ (s = <<>> /\ Asks(todo) = 0)
        BY <2>5, <4>2, LeftOfBoth
      <4>4. CASE <<i.arg, s>> \in K
        <5>1. m = p
          BY <2>9, <3>4, <4>1, <4>2, <4>4
        <5> QED BY <2>5, <2>15, <3>4, <5>1
      <4>5. CASE i.arg = RetLabel /\ Asks(s) = 0
        <5>1. PICK n : n = <<>>
          OBVIOUS
        <5>2. m = Both(n)
          BY <2>7, <2>9, <3>4, <4>1, <4>5, <5>1
        <5>3. Asks(todo) = 0
          BY <4>3, <4>5
        <5>4. Left(Both(n), ax, todo)
          BY <5>1, <5>3, LeftOfBoth
        <5> QED BY <2>15, <3>4, <5>2, <5>4
      <4> QED BY <4>2, <4>4, <4>5
    <3>5. CASE i.op = "je"
      <4>1. <<i.arg, p[1]>> \in K /\ q = Both(p[2])
        BY <2>6, <3>5 DEF Follows
      <4>2. PICK u : u = p[1]
        OBVIOUS
      <4>3. PICK v : v = p[2]
        OBVIOUS
      <4>4. CASE ax
        <5>1. todo = v \/ (v = <<>> /\ Asks(todo) = 0)
          BY <2>5, <4>3, <4>4 DEF Left
        <5>2. Left(Both(v), ax, todo)
          BY <5>1, LeftOfBoth
        <5>3. m = Both(v)
          BY <1>4, <2>13, <3>5, <4>1, <4>3, <4>4
        <5> QED BY <2>15, <3>5, <5>2, <5>3
      <4>5. CASE ~ax
        <5>1. todo = u \/ (u = <<>> /\ Asks(todo) = 0)
          BY <2>5, <4>2, <4>5 DEF Left
        <5>2. Left(Both(u), ax, todo)
          BY <5>1, LeftOfBoth
        <5>3. m = Both(u)
          BY <1>4, <2>9, <2>14, <3>5, <4>1, <4>2, <4>5
        <5> QED BY <2>15, <3>5, <5>2, <5>3
      <4> QED BY <4>4, <4>5
    <3> QED BY <2>6, <3>2, <3>3, <3>4, <3>5 DEF Follows
  <2>17. Running(P, K, c)'
    BY <1>7, <2>5, <2>10, <2>11, <2>12, <2>16 DEF Running
  <2>18. ASSUME pc = Len(code)
         PROVE  Asks(todo') = 0
    <3>1. code[pc] = Ins("label", RetLabel)
      BY <1>9, <2>18
    <3>2. PICK n : n = <<>>
      OBVIOUS
    <3>3. PICK l : l = RetLabel
      OBVIOUS
    <3>4. c[pc - 1] = Both(n)
      BY <1>8, <2>5, <2>7, <3>1, <3>2, <3>3, PlaceOfLabel
    <3>5. todo = n \/ (n = <<>> /\ Asks(todo) = 0)
      BY <2>3, <2>5, <3>4, LeftOfBoth
    <3>6. Asks(todo) = 0
      BY <3>2, <3>5 DEF Asks
    <3>7. i.op = "label"
      BY <1>2, <3>1 DEF Ins
    <3> QED BY <1>6, <3>6, <3>7
  <2> QED BY <1>3, <1>7, <2>2, <2>17, <2>18 DEF Followed
<1> QED BY <1>10, <1>11
-----------------------------------------------------------------------------
(* The invariant of the steps. *)
IInv ==
  /\ Types /\ Parsed /\ Emitted /\ Ended /\ Followed
  /\ CrashesAreHollow /\ OnlyDoUnassembled

(* It holds when the parser begins. *)
LEMMA InitInductive == Init => IInv
<1> SUFFICES ASSUME Init
             PROVE  IInv
  OBVIOUS
<1>1. /\ blocks = <<<<>>>> /\ done = None /\ size = 0 /\ void \in BOOLEAN /\ err = FALSE
      /\ seen = {} /\ status = "parsing" /\ label = 0 /\ code = <<>> /\ pc = 1 /\ ax = FALSE
  BY DEF Init
<1>2. PICK fr : fr = Frame("block", 0, 0, 0, Null)
  OBVIOUS
<1>3. IsFrame(fr) /\ fr.op = "block" /\ fr.src = <<>>
  BY <1>2 DEF Frame, IsFrame
<1>4. stack = <<fr>>
  BY <1>2 DEF Init
<1>5. /\ IsList(stack) /\ stack # <<>> /\ Len(stack) = 1 /\ stack[1] = fr
      /\ IsList(blocks) /\ Len(blocks) = 1 /\ blocks[1] = <<>>
  BY <1>1, <1>4, ListOfOne
<1>6. Level(stack, 1) = 1
  <2>1. Level(stack, 0) = 0
    <3>1. {i \in 1..0 : stack[i].op = "block"} = {}
      OBVIOUS
    <3> QED BY <3>1, FS_EmptySet DEF Level
  <2>2. stack[0 + 1].op = "block"
    BY <1>3, <1>5
  <2>3. Level(stack, 0 + 1) = Level(stack, 0) + 1
    BY <2>2, LevelStep
  <2> QED BY <2>1, <2>3
<1>7. Shaped(stack, blocks, done)
  BY <1>1, <1>3, <1>5, <1>6 DEF Shaped
<1>8. PICK n : n = <<>>
  OBVIOUS
<1>9. PICK t : t = Seq_(n)
  OBVIOUS
<1>10. PICK P : P = {<<n, t>>}
  OBVIOUS
<1>11. Lowering(P, seen)
  <2>1. LowersSeq(P, n, t) /\ IsList(n)
    BY <1>8, <1>9, ListOfOne DEF LowersSeq
  <2>2. Lowers(P, seen, n, t)
    BY <2>1 DEF Lowers
  <2>3. ASSUME NEW s, NEW u, <<s, u>> \in P
        PROVE  s = n /\ u = t
    BY <1>10, <2>3
  <2> QED BY <2>2, <2>3 DEF Lowering
<1>12. LowersAll(P, stack, blocks, done)
  <2>1. LowersFrame(P, stack[1])
    BY <1>3, <1>5 DEF LowersFrame
  <2>2. LowersBlock(P, stack, blocks, 1)
    BY <1>3, <1>5, <1>6, <1>8, <1>9, <1>10 DEF LowersBlock
  <2>3. LowersDone(P, done)
    BY <1>1 DEF LowersDone, None, Reduced
  <2>4. \A k \in 1..Len(stack) : k = 1
    BY <1>5
  <2> QED BY <2>1, <2>2, <2>3, <2>4 DEF LowersAll
<1>13. Parsed
  BY <1>7, <1>11, <1>12 DEF Parsed
<1>14. Types
  <2>1. size \in 0..MaxSize
    BY <1>1, StatementsAssumption
  <2>2. {void, err, ax} \subseteq BOOLEAN /\ seen \subseteq {"do", "for", "hollow"}
    BY <1>1
  <2>3. status \in Statuses
    BY <1>1 DEF Statuses
  <2>4. IsList(code)
    BY <1>1, ListOfOne
  <2>5. Len(code) = 0
    BY <1>1
  <2>6. pc \in 1..(Len(code) + 1) /\ label \in Nat
    BY <1>1, <2>5
  <2>7. Len(blocks) = Level(stack, Len(stack))
    BY <1>5, <1>6
  <2> QED BY <1>1, <2>1, <2>2, <2>3, <2>4, <2>6, <2>7 DEF Types
<1> QED BY <1>1, <1>13, <1>14 DEF IInv, Emitted, Ended, Followed, CrashesAreHollow, OnlyDoUnassembled

(* It is kept by every step. *)
LEMMA NextInductive == IInv /\ [Next]_vars => IInv'
<1> SUFFICES ASSUME IInv, [Next]_vars
             PROVE  IInv'
  OBVIOUS
<1>1. Types /\ Parsed /\ Emitted /\ Ended /\ Followed
  BY DEF IInv
<1>2. CASE Reads
  <2>1. Types' /\ Parsed' /\ Emitted' /\ Ended' /\ CrashesAreHollow' /\ OnlyDoUnassembled'
    BY <1>1, <1>2, ReadsKeep
  <2>2. status' \in {"parsing", "segv", "crashed"}
    BY <1>2, ReadsStatus
  <2>3. Followed'
    BY <2>2 DEF Followed
  <2> QED BY <2>1, <2>3 DEF IInv
<1>3. CASE EndOfFunction
  <2>1. Types' /\ Parsed' /\ Emitted' /\ Ended' /\ CrashesAreHollow'
    BY <1>1, <1>3, EndOfFunctionEmits
  <2>2. Followed'
    BY <1>1, <1>3, EndOfFunctionFollows
  <2>3. OnlyDoUnassembled'
    BY <1>3 DEF EndOfFunction, OnlyDoUnassembled
  <2> QED BY <2>1, <2>2, <2>3 DEF IInv
<1>4. CASE Emit
  <2>1. Types' /\ Parsed' /\ Emitted' /\ Ended' /\ CrashesAreHollow' /\ OnlyDoUnassembled'
    BY <1>1, <1>4, EmitKeeps
  <2>2. Followed'
    BY <1>1, <1>4, EmitFollows
  <2> QED BY <2>1, <2>2 DEF IInv
<1>5. CASE Assemble
  <2>1. Types' /\ Parsed' /\ Emitted' /\ Ended' /\ CrashesAreHollow' /\ OnlyDoUnassembled'
    BY <1>1, <1>5, AssembleKeeps
  <2>2. Followed'
    BY <1>1, <1>5, AssembleFollows
  <2> QED BY <2>1, <2>2 DEF IInv
<1>6. CASE Step
  <2>1. Types' /\ Parsed' /\ Emitted' /\ Ended' /\ CrashesAreHollow' /\ OnlyDoUnassembled'
    BY <1>1, <1>6, StepKeeps
  <2>2. Followed'
    BY <1>1, <1>6, StepFollows
  <2> QED BY <2>1, <2>2 DEF IInv
<1>7. CASE UNCHANGED vars
  <2>1. /\ parser' = parser /\ status' = status /\ emitter' = emitter /\ program' = program
    BY <1>7 DEF vars
  <2>2. /\ stack' = stack /\ blocks' = blocks /\ done' = done /\ size' = size /\ void' = void
        /\ err' = err /\ seen' = seen /\ work' = work /\ label' = label /\ code' = code
        /\ pc' = pc /\ ax' = ax /\ todo' = todo
    BY <2>1 DEF parser, emitter, program
  <2>3. Types' /\ Parsed' /\ Ended'
    BY <1>1, <2>1, <2>2 DEF Types, Parsed, Ended
  <2>4. Emitted'
    <3>1. \A P, N, M, J : Labelled(P, N, M, J) => Labelled(P, N, M, J)'
      BY <2>2 DEF Labelled
    <3> QED BY <1>1, <2>1, <3>1 DEF Emitted
  <2>5. Followed'
    <3>1. \A P, K, q : Doing(P, K, q) => Doing(P, K, q)'
      BY <2>2 DEF Doing
    <3>2. \A P, K, c : Running(P, K, c) => Running(P, K, c)'
      BY <2>2 DEF Running
    <3> QED BY <1>1, <2>1, <2>2, <3>1, <3>2 DEF Followed
  <2>6. CrashesAreHollow' /\ OnlyDoUnassembled'
    BY <2>1, <2>2 DEF IInv, CrashesAreHollow, OnlyDoUnassembled
  <2> QED BY <2>3, <2>4, <2>5, <2>6 DEF IInv
<1> QED BY <1>2, <1>3, <1>4, <1>5, <1>6, <1>7 DEF Next, Parse, Reads

(* What runs does what the source asks for. *)
LEMMA InvariantFollows == IInv => FollowsSource
<1> SUFFICES ASSUME IInv
             PROVE  FollowsSource
  OBVIOUS
<1>1. Types /\ Ended /\ Followed
  BY DEF IInv
<1>2. TypeOK
  BY <1>1 DEF TypeOK, Types, Statuses, Level
<1>3. ASSUME "for" \notin seen, AtExpression
      PROVE  code[pc].arg = Asks(todo)
  <2>1. status = "running" /\ code[pc].op = "eval"
    BY <1>3 DEF AtExpression
  <2>2. PICK P, K, c : Running(P, K, c)
    BY <1>1, <1>3, <2>1 DEF Followed
  <2>3. pc \in 1..Len(code)
    BY <1>1, <2>1 DEF Ended
  <2>4. Follows(P, K, code[pc], c[pc - 1], c[pc]) /\ Left(c[pc - 1], ax, todo)
    BY <2>2, <2>3 DEF Running, Chained
  <2>5. Evaluates(code[pc].arg, c[pc - 1], c[pc])
    BY <2>1, <2>4 DEF Follows
  <2>6. PICK e, p, q : e = code[pc].arg /\ p = c[pc - 1] /\ q = c[pc]
    OBVIOUS
  <2>7. Evaluates(e, p, q) /\ Left(p, ax, todo)
    BY <2>4, <2>5, <2>6
  <2>8. Asks(todo) = e
    BY <2>7, EvaluationLeaves
  <2> QED BY <2>6, <2>8
<1>4. "for" \notin seen /\ status = "returned" => Asks(todo) = 0
  BY <1>1 DEF Followed
<1> QED BY <1>2, <1>3, <1>4 DEF FollowsSource

(* The processor evaluates the expressions that the source asks for next,  *)
(* in its order, and returns when it asks for none, whatever was written:  *)
(* in trees of every size and every nesting.                               *)
THEOREM CodeFollowsSource == Spec => []FollowsSource
<1>1. Spec => []IInv
  BY InitInductive, NextInductive, PTL DEF Spec
<1> QED BY <1>1, InvariantFollows, PTL

(* Without an error, the compiler stops without a word only on source with *)
(* an empty body or a for of which a part is missing.                      *)
THEOREM OnlyHollowCrashes == Spec => []CrashesAreHollow
<1>1. Spec => []IInv
  BY InitInductive, NextInductive, PTL DEF Spec
<1>2. IInv => CrashesAreHollow
  BY DEF IInv
<1> QED BY <1>1, <1>2, PTL

(* The labels of the code are defined once each and what jumps uses them,  *)
(* unless there is a do.                                                   *)
THEOREM CodeIsAssembled == Spec => []OnlyDoUnassembled
<1>1. Spec => []IInv
  BY InitInductive, NextInductive, PTL DEF Spec
<1>2. IInv => OnlyDoUnassembled
  BY DEF IInv
<1> QED BY <1>1, <1>2, PTL
=============================================================================
