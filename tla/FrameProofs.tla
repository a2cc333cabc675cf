---------------------------- MODULE FrameProofs ----------------------------
(* Theorems on Frame: for any number of parameters, of variables and of    *)
(* trees, nested to any depth.                                             *)
EXTENDS Frame, SequenceTheorems, OperatorTheorems

(* The parameters: those in registers one below the other, those on the    *)
(* stack one above the other.                                              *)
ParametersOK ==
  /\ params \in Seq(Slots)
  /\ \A k \in 1..Len(params) :
       /\ params[k].loc % params[k].width = 0
       /\ InRegister(k) => params[k].loc - params[k].width >= STACKTOP
       /\ ~InRegister(k) => params[k].loc <= -16
  /\ \A j, k \in 1..Len(params) : j < k =>
       /\ InRegister(k) => params[j].loc <= params[k].loc - params[k].width
       /\ ~InRegister(j) => params[k].loc <= params[j].loc - params[j].width

(* A node: its variables vs[v] lie one below the other, between the size   *)
(* it was given and the size it gives its children.                        *)
NodeOK(n, vs, sz) ==
  /\ n \in Nodes
  /\ sz <= n.in /\ n.in <= n.size
  /\ n.op = "sequence" /\ n.children = 0 => n.max = n.size
  /\ n.decls \subseteq 1..Len(vs)
  /\ \A v \in n.decls : n.in <= vs[v].loc - vs[v].width /\ vs[v].loc <= n.size
  /\ \A v, u \in n.decls : v < u => vs[v].loc <= vs[u].loc - vs[u].width

(* A node begins where the ones around it end; these have a child. *)
PathOK(s, vs, sz) ==
  /\ s \in Seq(Nodes)
  /\ \A i \in 1..Len(s) : NodeOK(s[i], vs, sz)
  /\ \A i, j \in 1..Len(s) : i < j => s[i].size <= s[j].in /\ s[i].children >= 1

VariablesOK(vs) ==
  /\ vs \in Seq(Slots)
  /\ \A v \in 1..Len(vs) : vs[v].loc % vs[v].width = 0 /\ vs[v].loc >= 0

(* What the nodes will return holds the parameters and the variables.      *)
Holds(s, vs, sz) ==
  /\ Len(s) >= 1 /\ sz <= s[1].max
  /\ \A v \in 1..Len(vs) : \E i \in 1..Len(s) : vs[v].loc <= s[i].max

IInv ==
  /\ ParametersOK
  /\ VariablesOK(variables)
  /\ PathOK(path, variables, ParametersSize)
  /\ visits \in Nat /\ stacksz \in Nat
  /\ phase \in {"params", "body", "done", "crashed"}
  /\ phase = "params" => path = <<>> /\ variables = <<>>
  /\ phase = "body" => Holds(path, variables, ParametersSize)
  /\ phase = "done" =>
       /\ path = <<>> /\ ParametersSize <= stacksz /\ stacksz % STACKALIGN = 0
       /\ \A v \in 1..Len(variables) : variables[v].loc <= stacksz
-----------------------------------------------------------------------------
(* Alignment, for the widths there are. *)
LEMMA WidthFacts == \A w \in Widths : w \in {4, 8}
  BY FrameAssumption

(* The place of a variable is below what was used already, and aligned. *)
LEMMA PlaceFacts ==
  ASSUME NEW sz \in Nat, NEW w \in Widths
  PROVE  /\ Place(sz, w) \in Nat /\ sz + w <= Place(sz, w)
         /\ Place(sz, w) % w = 0
<1>1. w \in {4, 8}
  BY WidthFacts
<1>2. CASE w = 4
  BY <1>2 DEF Place, Align
<1>3. CASE w = 8
  BY <1>3 DEF Place, Align
<1> QED
  BY <1>1, <1>2, <1>3

(* So is that of a parameter on the stack, above the frame pointer. *)
LEMMA StackPlaceFacts ==
  ASSUME NEW top \in Nat, NEW w \in Widths
  PROVE  -Align(top, 8) \in Int /\ -Align(top, 8) <= -top /\ (-Align(top, 8)) % w = 0
<1>1. w \in {4, 8}
  BY WidthFacts
<1>2. CASE w = 4
  BY <1>2 DEF Align
<1>3. CASE w = 8
  BY <1>3 DEF Align
<1> QED
  BY <1>1, <1>2, <1>3

(* A frame's size is a multiple of 16 that holds what it was asked to. *)
LEMMA FrameSizeFacts ==
  ASSUME NEW max \in Nat
  PROVE  Align(max, STACKALIGN) \in Nat /\ max <= Align(max, STACKALIGN)
         /\ Align(max, STACKALIGN) % STACKALIGN = 0
  BY DEF Align, STACKALIGN

(* What a slot is. *)
LEMMA SlotFacts ==
  ASSUME NEW vs \in Seq(Slots), NEW v \in 1..Len(vs)
  PROVE  vs[v] \in Slots /\ vs[v].width \in {4, 8} /\ vs[v].loc \in Int
<1>1. vs[v] \in Slots
  BY ElementOfSeq
<1> QED
  BY <1>1, WidthFacts DEF Slots

(* The size after the parameters is that of the last one in a register.    *)
LEMMA ParametersSizeFacts ==
  ASSUME ParametersOK
  PROVE  /\ ParametersSize \in Nat /\ STACKTOP <= ParametersSize
         /\ \A k \in 1..Len(params) : params[k].loc <= ParametersSize
<1> DEFINE mine == {k \in 1..Len(params) : InRegister(k)}
<1>1. Len(params) \in Nat /\ params \in Seq(Slots)
  BY LenProperties DEF ParametersOK
<1>2. \A k \in 1..Len(params) : params[k].loc \in Int /\ params[k].width \in {4, 8}
  BY <1>1, SlotFacts
<1>3. \A k \in 1..Len(params) : ~InRegister(k) => params[k].loc <= STACKTOP
  BY <1>2 DEF ParametersOK, STACKTOP
<1>4. CASE mine = {}
  <2>1. ParametersSize = STACKTOP
    BY <1>4 DEF ParametersSize
  <2>2. \A k \in 1..Len(params) : ~InRegister(k)
    BY <1>4
  <2> QED
    BY <1>3, <2>1, <2>2 DEF STACKTOP
<1>5. CASE mine # {}
  <2>1. \E k \in mine : \A j \in mine : j <= k
    BY <1>1, <1>5, HasGreatest
  <2>2. PICK k : k = CHOOSE m \in mine : \A j \in mine : j <= m
    OBVIOUS
  <2>3. k \in mine /\ \A j \in mine : j <= k
    BY <2>1, <2>2
  <2>4. ParametersSize = params[k].loc
    BY <1>5, <2>2 DEF ParametersSize
  <2>5. k \in 1..Len(params) /\ InRegister(k) /\ params[k].loc - params[k].width >= STACKTOP
    BY <2>3 DEF ParametersOK
  <2>6. params[k].loc \in Nat /\ STACKTOP <= params[k].loc
    BY <1>2, <2>5 DEF STACKTOP
  <2>7. ASSUME NEW j \in 1..Len(params) PROVE params[j].loc <= params[k].loc
    <3>1. CASE ~InRegister(j)
      BY <1>2, <1>3, <2>5, <2>6, <3>1 DEF STACKTOP
    <3>2. CASE j = k
      BY <1>2, <3>2
    <3>3. CASE InRegister(j) /\ j # k
      <4>1. j < k
        BY <1>1, <2>3, <2>5, <3>3
      <4>2. params[j].loc <= params[k].loc - params[k].width
        BY <2>5, <4>1 DEF ParametersOK
      <4> QED
        BY <1>2, <2>5, <4>2
    <3> QED
      BY <3>1, <3>2, <3>3
  <2> QED
    BY <2>4, <2>6, <2>7
<1> QED
  BY <1>4, <1>5
-----------------------------------------------------------------------------
(* Parameters. *)
LEMMA AssignParameterKeeps ==
  ASSUME ParametersOK, NEW w \in Widths, AssignParameter(w)
  PROVE  ParametersOK'
<1> PICK n : n = Len(params)
  OBVIOUS
<1> PICK x : x = IF InRegister(n + 1) THEN Place(ParametersSize, w) ELSE -Align(ParametersTop, 8)
  OBVIOUS
<1>1. n \in Nat /\ params \in Seq(Slots) /\ w \in {4, 8} /\ NPARAM_REG \in Nat
  BY LenProperties, WidthFacts, FrameAssumption DEF ParametersOK
<1>2. \A k \in 1..n : params[k].loc \in Int /\ params[k].width \in {4, 8}
  BY <1>1, SlotFacts
<1>3. params' = Append(params, [width |-> w, loc |-> x])
  BY DEF AssignParameter
<1>4. /\ x \in Int /\ x % w = 0
      /\ InRegister(n + 1) => x - w >= STACKTOP /\ \A j \in 1..n : params[j].loc <= x - w
      /\ ~InRegister(n + 1) =>
           x <= -16 /\ \A j \in 1..n : ~InRegister(j) => x <= params[j].loc - params[j].width
  <2>1. CASE InRegister(n + 1)
    <3>1. x \in Nat /\ ParametersSize + w <= x /\ x % w = 0
      BY <2>1, ParametersSizeFacts, PlaceFacts
    <3> QED
      BY <1>1, <1>2, <2>1, <3>1, ParametersSizeFacts DEF STACKTOP
  <2>2. CASE ~InRegister(n + 1)
    <3> PICK top : top = ParametersTop
      OBVIOUS
    <3>1. top \in Nat /\ 16 <= top
          /\ \A j \in 1..n : ~InRegister(j) => params[j].width - params[j].loc <= top
      <4>1. CASE InRegister(n)
        <5>1. \A j \in 1..n : InRegister(j)
          BY <1>1, <4>1 DEF InRegister
        <5> QED
          BY <4>1, <5>1 DEF ParametersTop
      <4>2. CASE ~InRegister(n)
        <5>1. n \in 1..n
          BY <1>1, <4>2 DEF InRegister
        <5>2. top = params[n].width - params[n].loc
          BY <4>2 DEF ParametersTop, Top
        <5>3. params[n].loc <= -16
          BY <4>2, <5>1 DEF ParametersOK
        <5>4. ASSUME NEW j \in 1..n, ~InRegister(j)
              PROVE  params[j].width - params[j].loc <= top
          <6>1. CASE j = n
            BY <1>2, <5>1, <5>2, <6>1
          <6>2. CASE j < n
            <7>1. params[n].loc <= params[j].loc - params[j].width
              BY <5>1, <5>4, <6>2 DEF ParametersOK
            <7> QED
              BY <1>2, <5>1, <5>2, <7>1
          <6> QED
            BY <1>1, <6>1, <6>2
        <5> QED
          BY <1>2, <5>1, <5>2, <5>3, <5>4
      <4> QED
        BY <4>1, <4>2
    <3>2. x \in Int /\ x <= -top /\ x % w = 0
      BY <2>2, <3>1, StackPlaceFacts
    <3> QED
      BY <1>2, <2>2, <3>1, <3>2
  <2> QED
    BY <2>1, <2>2
<1> PICK slot : slot = [width |-> w, loc |-> x]
  OBVIOUS
<1>5. slot \in Slots /\ slot.width = w /\ slot.loc = x
  BY <1>4 DEF Slots
<1>6. /\ params' \in Seq(Slots) /\ Len(params') = n + 1 /\ params'[n + 1] = slot
      /\ \A k \in 1..n : params'[k] = params[k]
  BY <1>1, <1>3, <1>5, AppendProperties
<1>7. \A k \in 1..(n + 1) : k \in 1..n \/ k = n + 1
  BY <1>1
<1>8. ASSUME NEW k \in 1..(n + 1)
      PROVE  /\ params'[k].loc % params'[k].width = 0
             /\ InRegister(k) => params'[k].loc - params'[k].width >= STACKTOP
             /\ ~InRegister(k) => params'[k].loc <= -16
  <2>1. CASE k \in 1..n
    BY <1>6, <2>1 DEF ParametersOK
  <2>2. CASE k = n + 1
    BY <1>4, <1>5, <1>6, <2>2
  <2> QED
    BY <1>7, <2>1, <2>2
<1>9. ASSUME NEW j \in 1..(n + 1), NEW k \in 1..(n + 1), j < k
      PROVE  /\ InRegister(k) => params'[j].loc <= params'[k].loc - params'[k].width
             /\ ~InRegister(j) => params'[k].loc <= params'[j].loc - params'[j].width
  <2>1. CASE k \in 1..n
    <3>1. j \in 1..n
      BY <1>1, <1>9, <2>1
    <3> QED
      BY <1>6, <1>9, <2>1, <3>1 DEF ParametersOK
  <2>2. CASE k = n + 1
    <3>1. j \in 1..n /\ (~InRegister(j) => ~InRegister(n + 1))
      BY <1>1, <1>9, <2>2 DEF InRegister
    <3> QED
      BY <1>4, <1>5, <1>6, <2>2, <3>1
  <2> QED
    BY <1>7, <2>1, <2>2
<1> QED
  BY <1>6, <1>8, <1>9 DEF ParametersOK, InRegister
-----------------------------------------------------------------------------
(* The path. *)
Extends(us, vs) == Len(vs) <= Len(us) /\ \A v \in 1..Len(vs) : us[v] = vs[v]

(* A node of the path stays right when variables are added after those it  *)
(* knows.                                                                  *)
LEMMA NodeExtends ==
  ASSUME NEW n, NEW vs \in Seq(Slots), NEW us \in Seq(Slots), NEW sz,
         NodeOK(n, vs, sz), Extends(us, vs)
  PROVE  NodeOK(n, us, sz)
<1>1. Len(vs) \in Nat /\ Len(us) \in Nat
  BY LenProperties
<1>2. n.decls \subseteq 1..Len(us) /\ \A v \in n.decls : us[v] = vs[v]
  BY <1>1 DEF NodeOK, Extends
<1> QED
  BY <1>2 DEF NodeOK

(* What a node is. *)
LEMMA NodeNumbers ==
  ASSUME NEW n \in Nodes
  PROVE  /\ n.in \in Nat /\ n.size \in Nat /\ n.max \in Nat /\ n.children \in Nat
         /\ n.op \in Operators /\ n.decls \in SUBSET Nat
  BY DEF Nodes

App(s, e) == Append(s, e)

(* The last node of the path. *)
LEMMA TopInPath ==
  ASSUME NEW s, NEW vs, NEW sz, PathOK(s, vs, sz), s # <<>>
  PROVE  /\ Len(s) \in Nat /\ Len(s) >= 1 /\ Len(s) \in 1..Len(s)
         /\ Top(s) = s[Len(s)] /\ NodeOK(Top(s), vs, sz) /\ Top(s) \in Nodes
<1>1. s \in Seq(Nodes) /\ Len(s) \in Nat
  BY LenProperties DEF PathOK
<1>2. Len(s) >= 1
  BY <1>1, EmptySeq
<1> QED
  BY <1>1, <1>2 DEF Top, PathOK, NodeOK

(* The path stays right when its last node is replaced by a right one that *)
(* was called with the same size.                                          *)
LEMMA SetTopKeeps ==
  ASSUME NEW s, NEW vs \in Seq(Slots), NEW us \in Seq(Slots), NEW sz,
         PathOK(s, vs, sz), s # <<>>, Extends(us, vs),
         NEW n, NodeOK(n, us, sz), n.in = Top(s).in,
         NEW t, t = SetTop(s, n)
  PROVE  /\ PathOK(t, us, sz) /\ Len(t) = Len(s) /\ t # <<>> /\ Top(t) = n
         /\ t[Len(s)] = n /\ \A i \in 1..Len(s) : i # Len(s) => t[i] = s[i]
<1>1. Len(s) \in Nat /\ Len(s) >= 1 /\ Len(s) \in 1..Len(s) /\ Top(s) = s[Len(s)]
  BY TopInPath
<1>2. s \in Seq(Nodes) /\ n \in Nodes
  BY DEF PathOK, NodeOK
<1>3. /\ t \in Seq(Nodes) /\ Len(t) = Len(s)
      /\ \A i \in 1..Len(s) : t[i] = IF i = Len(s) THEN n ELSE s[i]
  BY <1>1, <1>2, ExceptSeq DEF SetTop
<1>4. \A i \in 1..Len(t) : NodeOK(t[i], us, sz)
  <2>1. \A i \in 1..Len(s) : NodeOK(s[i], us, sz)
    BY NodeExtends DEF PathOK
  <2> QED
    BY <1>3, <2>1
<1>5. ASSUME NEW i \in 1..Len(s), NEW j \in 1..Len(s), i < j
      PROVE  t[i].size <= t[j].in /\ t[i].children >= 1
  <2>1. t[i] = s[i]
    BY <1>1, <1>3, <1>5
  <2>2. t[j].in = s[j].in
    BY <1>1, <1>3
  <2> QED
    BY <1>5, <2>1, <2>2 DEF PathOK
<1>6. t # <<>>
  BY <1>1, <1>3
<1> QED
  BY <1>1, <1>3, <1>4, <1>5, <1>6 DEF PathOK, Top

(* It stays right when a node is called with the size that the last one    *)
(* gives its children,                                                     *)
LEMMA AppendKeeps ==
  ASSUME NEW s, NEW vs, NEW sz, PathOK(s, vs, sz), s # <<>>, Top(s).children >= 1,
         NEW n, NodeOK(n, vs, sz), n.in = Top(s).size,
         NEW t, t = App(s, n)
  PROVE  /\ PathOK(t, vs, sz) /\ Len(t) = Len(s) + 1
         /\ t[Len(s) + 1] = n /\ \A i \in 1..Len(s) : t[i] = s[i]
<1>1. Len(s) \in Nat /\ Len(s) >= 1 /\ Len(s) \in 1..Len(s) /\ Top(s) = s[Len(s)]
  BY TopInPath
<1>2. s \in Seq(Nodes) /\ n \in Nodes
  BY DEF PathOK, NodeOK
<1>3. /\ t \in Seq(Nodes) /\ Len(t) = Len(s) + 1
      /\ t[Len(s) + 1] = n /\ \A i \in 1..Len(s) : t[i] = s[i]
  BY <1>2, AppendProperties DEF App
<1>4. \A i \in 1..(Len(s) + 1) : i \in 1..Len(s) \/ i = Len(s) + 1
  BY <1>1
<1>5. \A i \in 1..Len(t) : NodeOK(t[i], vs, sz)
  BY <1>3, <1>4 DEF PathOK
<1>6. \A i \in 1..Len(s) : s[i].size \in Nat /\ s[i].in \in Nat
  BY <1>2, ElementOfSeq, NodeNumbers
<1>7. ASSUME NEW i \in 1..(Len(s) + 1), NEW j \in 1..(Len(s) + 1), i < j
      PROVE  t[i].size <= t[j].in /\ t[i].children >= 1
  <2>1. i \in 1..Len(s)
    BY <1>1, <1>7
  <2>2. CASE j \in 1..Len(s)
    BY <1>3, <1>7, <2>1, <2>2 DEF PathOK
  <2>3. CASE j = Len(s) + 1 /\ i = Len(s)
    BY <1>1, <1>3, <1>6, <2>1, <2>3
  <2>4. CASE j = Len(s) + 1 /\ i < Len(s)
    <3>1. s[i].size <= s[Len(s)].in /\ s[i].children >= 1
      BY <1>1, <2>1, <2>4 DEF PathOK
    <3>2. s[Len(s)].in <= s[Len(s)].size
      BY <1>1 DEF PathOK, NodeOK
    <3> QED
      BY <1>1, <1>3, <1>6, <2>1, <2>4, <3>1, <3>2
  <2> QED
    BY <1>1, <1>4, <2>1, <2>2, <2>3, <2>4
<1> QED
  BY <1>3, <1>5, <1>7 DEF PathOK

(* and when the last one returns. *)
LEMMA PopKeeps ==
  ASSUME NEW s, NEW vs, NEW sz, PathOK(s, vs, sz), s # <<>>,
         NEW t, t = Pop(s)
  PROVE  /\ PathOK(t, vs, sz) /\ Len(t) = Len(s) - 1
         /\ \A i \in 1..Len(t) : t[i] = s[i]
         /\ t # <<>> => Top(t) = s[Len(t)] /\ Top(t).children >= 1
<1>1. Len(s) \in Nat /\ Len(s) >= 1 /\ s \in Seq(Nodes)
  BY TopInPath DEF PathOK
<1>2. /\ t \in Seq(Nodes) /\ Len(t) = Len(s) - 1
      /\ \A i \in 1..(Len(s) - 1) : t[i] = s[i]
  <2> PICK k : k = Len(s) - 1
    OBVIOUS
  <2>1. k \in Nat /\ k < Len(s)
    BY <1>1
  <2>2. \A i \in 1..k : s[i] \in Nodes
    BY <1>1, <2>1, ElementOfSeq
  <2>3. t = SubSeq(s, 1, k)
    BY DEF Pop
  <2>4. /\ t \in Seq(Nodes) /\ Len(t) = (IF 1 <= k THEN k - 1 + 1 ELSE 0)
        /\ \A i \in 1..(k - 1 + 1) : t[i] = s[1 + i - 1]
    BY <2>1, <2>2, <2>3, SubSeqProperties
  <2>5. k - 1 + 1 = k /\ \A i \in 1..k : 1 + i - 1 = i
    BY <2>1
  <2>6. Len(t) = k /\ \A i \in 1..k : t[i] = s[i]
    BY <2>1, <2>4, <2>5
  <2> QED
    BY <2>4, <2>6
<1>3. 1..Len(t) \subseteq 1..Len(s) /\ Len(t) \in Nat
  BY <1>1, <1>2
<1>4. \A i \in 1..Len(t) : NodeOK(t[i], vs, sz)
  BY <1>2, <1>3 DEF PathOK
<1>5. \A i, j \in 1..Len(t) : i < j => t[i].size <= t[j].in /\ t[i].children >= 1
  BY <1>2, <1>3 DEF PathOK
<1>6. ASSUME t # <<>> PROVE Top(t) = s[Len(t)] /\ Top(t).children >= 1
  <2>1. Len(t) >= 1
    BY <1>2, <1>6, EmptySeq
  <2>2. Len(t) \in 1..Len(s) /\ Len(s) \in 1..Len(s) /\ Len(t) < Len(s)
    BY <1>1, <1>2, <2>1
  <2> QED
    BY <1>2, <2>1, <2>2 DEF Top, PathOK
<1> QED
  BY <1>2, <1>4, <1>5, <1>6 DEF PathOK
-----------------------------------------------------------------------------
(* The nodes the steps make. *)
NewNode(op, in) ==
  IF op = "sequence" THEN [Node(op, in) EXCEPT !.max = in] ELSE Node(op, in)

(* A node that was just called has no variables. *)
LEMMA NewNodeOK ==
  ASSUME NEW op \in Operators, NEW in \in Nat, NEW vs, NEW sz, sz <= in,
         NEW n, n = NewNode(op, in)
  PROVE  NodeOK(n, vs, sz) /\ n.in = in /\ (op = "sequence" => n.max = in)
<1>1. /\ n \in Nodes /\ n.op = op /\ n.in = in /\ n.size = in /\ n.decls = {}
      /\ op = "sequence" => n.max = in
  <2>1. CASE op = "sequence"
    BY <2>1 DEF Node, NewNode, Nodes
  <2>2. CASE op # "sequence"
    BY <2>2 DEF Node, NewNode, Nodes
  <2> QED
    BY <2>1, <2>2
<1> QED
  BY <1>1 DEF NodeOK

(* A node stays right as its children return. *)
LEMMA VisitedNodeOK ==
  ASSUME NEW n, NEW vs, NEW sz, NodeOK(n, vs, sz), NEW m \in Nodes,
         m.op = n.op, m.in = n.in, m.size = n.size, m.decls = n.decls, m.children >= 1
  PROVE  NodeOK(m, vs, sz)
<1>1. m.children # 0
  BY NodeNumbers
<1> QED
  BY <1>1 DEF NodeOK

(* What a child returns raises the largest size seen, and changes nothing  *)
(* else of its parent.                                                     *)
LEMMA ReturnedFacts ==
  ASSUME NEW n \in Nodes, NEW x \in Nat, NEW m, m = Returned(n, x)
  PROVE  /\ m \in Nodes /\ m.op = n.op /\ m.in = n.in /\ m.size = n.size
         /\ m.decls = n.decls /\ m.children = n.children
         /\ n.max <= m.max /\ x <= m.max
  BY DEF Returned, Larger, Nodes

(* A child that is counted changes only the number of children. *)
LEMMA CountedFacts ==
  ASSUME NEW n \in Nodes, NEW m, m = [n EXCEPT !.children = @ + 1]
  PROVE  /\ m \in Nodes /\ m.op = n.op /\ m.in = n.in /\ m.size = n.size
         /\ m.decls = n.decls /\ m.max = n.max /\ m.children = n.children + 1 /\ m.children >= 1
  BY DEF Nodes

Visited(n) == [Returned(n, n.size) EXCEPT !.children = @ + 1]

(* A child that returns what it was given changes no more. *)
LEMMA VisitedFacts ==
  ASSUME NEW n \in Nodes, NEW m, m = Visited(n)
  PROVE  /\ m \in Nodes /\ m.op = n.op /\ m.in = n.in /\ m.size = n.size
         /\ m.decls = n.decls /\ n.max <= m.max /\ m.children >= 1
<1> PICK r : r = Returned(n, n.size)
  OBVIOUS
<1>1. /\ r \in Nodes /\ r.op = n.op /\ r.in = n.in /\ r.size = n.size
      /\ r.decls = n.decls /\ n.max <= r.max
  <2>1. n.size \in Nat
    BY NodeNumbers
  <2> QED
    BY <2>1, ReturnedFacts
<1>2. m = [r EXCEPT !.children = @ + 1]
  BY DEF Visited
<1> QED
  BY <1>1, <1>2, CountedFacts

(* What the nodes hold when the path grows, or the sizes in it. *)
LEMMA HoldsMore ==
  ASSUME NEW s, NEW t, NEW vs \in Seq(Slots), NEW us \in Seq(Slots), NEW sz \in Nat,
         PathOK(s, vs, sz), PathOK(t, us, sz), Holds(s, vs, sz), Extends(us, vs),
         Len(t) >= Len(s), \A i \in 1..Len(s) : s[i].max <= t[i].max,
         \A v \in 1..Len(us) : v \in 1..Len(vs) \/ \E i \in 1..Len(t) : us[v].loc <= t[i].max
  PROVE  Holds(t, us, sz)
<1>1. Len(s) \in Nat /\ Len(t) \in Nat /\ Len(s) >= 1 /\ 1..Len(s) \subseteq 1..Len(t)
  BY LenProperties DEF PathOK, Holds
<1>2. /\ \A i \in 1..Len(s) : s[i].max \in Nat
      /\ \A i \in 1..Len(t) : t[i].max \in Nat
  BY ElementOfSeq, NodeNumbers DEF PathOK
<1>3. sz <= t[1].max
  BY <1>1, <1>2 DEF Holds
<1>4. ASSUME NEW v \in 1..Len(us) PROVE \E i \in 1..Len(t) : us[v].loc <= t[i].max
  <2>1. CASE v \in 1..Len(vs)
    <3>1. PICK i \in 1..Len(s) : vs[v].loc <= s[i].max
      BY <2>1 DEF Holds
    <3>2. us[v] = vs[v] /\ vs[v].loc \in Int
      BY <2>1, SlotFacts DEF Extends
    <3>3. i \in 1..Len(t) /\ us[v].loc <= t[i].max
      BY <1>1, <1>2, <3>1, <3>2
    <3> QED
      BY <3>3
  <2> QED
    BY <2>1
<1> QED
  BY <1>1, <1>3, <1>4 DEF Holds
-----------------------------------------------------------------------------
(* The steps. *)
LEMMA ParametersUnchanged ==
  ASSUME UNCHANGED params
  PROVE  ParametersSize' = ParametersSize /\ (ParametersOK => ParametersOK')
  BY DEF ParametersSize, ParametersOK, InRegister

(* The invariant holds before the parameters are placed. *)
LEMMA InitInductive == Init => IInv
<1> SUFFICES ASSUME Init PROVE IInv
  OBVIOUS
<1>1. params = <<>> /\ Len(params) = 0 /\ params \in Seq(Slots)
  BY DEF Init
<1>2. ParametersOK
  BY <1>1 DEF ParametersOK
<1>3. VariablesOK(variables) /\ PathOK(path, variables, ParametersSize)
  BY DEF Init, VariablesOK, PathOK
<1> QED
  BY <1>2, <1>3 DEF Init, IInv, STACKTOP

(* It is kept when a parameter gets its place, *)
LEMMA AssignParameterInductive ==
  ASSUME IInv, NEW w \in Widths, AssignParameter(w)
  PROVE  IInv'
<1>1. path = <<>> /\ variables = <<>> /\ phase = "params"
      /\ UNCHANGED <<variables, path, visits, stacksz, phase>>
  BY DEF IInv, AssignParameter
<1>2. ParametersOK'
  BY AssignParameterKeeps DEF IInv
<1>3. PathOK(<<>>, variables, ParametersSize')
  BY DEF PathOK
<1> QED
  BY <1>1, <1>2, <1>3 DEF IInv

(* when the walk begins with the body, *)
LEMMA EnterBodyInductive ==
  ASSUME IInv, EnterBody
  PROVE  IInv'
<1> PICK sz : sz = ParametersSize
  OBVIOUS
<1>n. PICK n : n = NewNode("sequence", sz)
  OBVIOUS
<1>1. /\ ParametersOK /\ sz \in Nat /\ variables = <<>> /\ visits \in Nat /\ stacksz \in Nat
  BY ParametersSizeFacts DEF IInv, EnterBody
<1>2. path' = <<n>> /\ phase' = "body" /\ UNCHANGED <<params, variables, visits, stacksz>>
  BY <1>n DEF EnterBody, NewNode
<1>3. ParametersOK' /\ ParametersSize' = sz
  BY <1>1, <1>2, ParametersUnchanged
<1>4. NodeOK(n, variables, sz) /\ n.max = sz
  <2>1. sz <= sz /\ "sequence" \in Operators
    BY <1>1 DEF Operators
  <2> QED
    BY <1>1, <1>n, <2>1, NewNodeOK
<1>5. PathOK(<<n>>, variables, sz)
  <2>s. PICK s : s = <<n>>
    OBVIOUS
  <2>1. n \in Nodes
    BY <1>4 DEF NodeOK
  <2>2. s \in Seq(Nodes) /\ Len(s) = 1 /\ s[1] = n
    BY <2>s, <2>1
  <2>3. \A i \in 1..1 : i = 1
    OBVIOUS
  <2>4. PathOK(s, variables, sz)
    BY <1>4, <2>2, <2>3 DEF PathOK
  <2> QED
    BY <2>s, <2>4
<1>6. Holds(<<n>>, variables, sz)
  BY <1>1, <1>4 DEF Holds
<1> QED
  BY <1>1, <1>2, <1>3, <1>5, <1>6 DEF IInv

(* What a step within the body may rely on. *)
LEMMA BodyFacts ==
  ASSUME IInv, phase = "body"
  PROVE  /\ ParametersSize \in Nat /\ path # <<>> /\ variables \in Seq(Slots)
         /\ PathOK(path, variables, ParametersSize) /\ Holds(path, variables, ParametersSize)
         /\ NodeOK(Top(path), variables, ParametersSize) /\ Top(path) \in Nodes
         /\ Extends(variables, variables)
<1>1. ParametersSize \in Nat /\ PathOK(path, variables, ParametersSize)
      /\ Holds(path, variables, ParametersSize) /\ variables \in Seq(Slots)
  BY ParametersSizeFacts DEF IInv, VariablesOK
<1>2. path # <<>>
  BY <1>1, EmptySeq DEF Holds
<1>3. Len(variables) \in Nat
  BY <1>1, LenProperties
<1> QED
  BY <1>1, <1>2, <1>3, TopInPath DEF Extends

(* A step within the body: what is left to show. *)
LEMMA BodyInductive ==
  ASSUME IInv, UNCHANGED <<params, stacksz>>, phase' = "body", visits' \in Nat,
         VariablesOK(variables)', PathOK(path', variables', ParametersSize),
         Holds(path', variables', ParametersSize)
  PROVE  IInv'
<1>1. ParametersOK' /\ ParametersSize' = ParametersSize
  BY ParametersUnchanged DEF IInv
<1> QED
  BY <1>1 DEF IInv

(* when a variable of a block gets its place, *)
LEMMA DeclareInductive ==
  ASSUME IInv, NEW w \in Widths, Declare(w)
  PROVE  IInv'
<1> PICK top, sz, k : top = Top(path) /\ sz = ParametersSize /\ k = Len(variables)
  OBVIOUS
<1> PICK loc : loc = Place(top.size, w)
  OBVIOUS
<1>s. PICK slot : slot = [width |-> w, loc |-> loc]
  OBVIOUS
<1>n. PICK n : n = [top EXCEPT !.size = loc, !.max = loc, !.decls = @ \cup {k + 1}]
  OBVIOUS
<1>1. /\ phase = "body" /\ top.op = "sequence" /\ top.children = 0
      /\ UNCHANGED <<params, visits, stacksz, phase>>
  BY DEF Declare
<1>v. variables' = App(variables, slot)
  BY <1>s DEF Declare, App
<1>p. path' = SetTop(path, n)
  BY <1>n DEF Declare
<1>2. /\ sz \in Nat /\ path # <<>> /\ variables \in Seq(Slots)
      /\ PathOK(path, variables, sz) /\ Holds(path, variables, sz)
      /\ NodeOK(top, variables, sz) /\ top \in Nodes /\ top = Top(path)
  BY <1>1, BodyFacts
<1>3. /\ top.in \in Nat /\ top.size \in Nat /\ top.max = top.size /\ top.children \in Nat
      /\ top.decls \in SUBSET Nat /\ sz <= top.in /\ top.in <= top.size
  BY <1>1, <1>2, NodeNumbers DEF NodeOK
<1>4. loc \in Nat /\ top.size + w <= loc /\ loc % w = 0 /\ w \in {4, 8}
  BY <1>3, PlaceFacts, WidthFacts
<1>5. /\ slot \in Slots /\ slot.width = w /\ slot.loc = loc
  BY <1>4, <1>s DEF Slots
<1>6. k \in Nat /\ \A v \in 1..(k + 1) : v \in 1..k \/ v = k + 1
  <2>1. variables \in Seq(Slots)
    BY <1>2
  <2>2. k \in Nat
    BY <2>1, LenProperties
  <2> QED
    BY <2>2
<1>7. /\ variables' \in Seq(Slots) /\ Len(variables') = k + 1 /\ variables'[k + 1] = slot
      /\ \A v \in 1..k : variables'[v] = variables[v]
  <2>1. variables \in Seq(Slots) /\ slot \in Slots
    BY <1>2, <1>5
  <2> QED
    BY <1>v, <2>1, AppendProperties DEF App
<1>8. /\ n \in Nodes /\ n.op = "sequence" /\ n.in = top.in /\ n.size = loc /\ n.max = loc
      /\ n.decls = top.decls \cup {k + 1}
  <2>1. loc \in Nat /\ top.decls \cup {k + 1} \in SUBSET Nat
    BY <1>3, <1>4, <1>6
  <2> QED
    BY <1>n, <1>1, <1>2, <2>1 DEF Nodes
<1>9. NodeOK(n, variables', sz)
  <2>1. \A v \in top.decls : /\ v \in 1..k /\ variables[v].loc \in Int /\ variables[v].width \in {4, 8}
                             /\ top.in <= variables[v].loc - variables[v].width
                             /\ variables[v].loc <= top.size
    BY <1>2, SlotFacts DEF NodeOK
  <2>2. n.decls \subseteq 1..(k + 1)
    BY <1>6, <1>8, <2>1
  <2>3. \A v \in n.decls : /\ n.in <= variables'[v].loc - variables'[v].width
                           /\ variables'[v].loc <= n.size
    BY <1>3, <1>4, <1>5, <1>7, <1>8, <2>1
  <2>4. ASSUME NEW v \in n.decls, NEW u \in n.decls, v < u
        PROVE  variables'[v].loc <= variables'[u].loc - variables'[u].width
    <3>1. v \in top.decls
      BY <1>6, <1>8, <2>1, <2>4
    <3>2. CASE u \in top.decls
      BY <1>2, <1>7, <2>1, <2>4, <3>1, <3>2 DEF NodeOK
    <3>3. CASE u = k + 1
      BY <1>3, <1>4, <1>5, <1>7, <2>1, <3>1, <3>3
    <3> QED
      BY <1>8, <3>2, <3>3
  <2>5. sz <= n.in /\ n.in <= n.size
    BY <1>3, <1>4, <1>8
  <2> QED
    BY <1>7, <1>8, <2>2, <2>3, <2>4, <2>5 DEF NodeOK
<1>10. Extends(variables', variables)
  BY <1>6, <1>7 DEF Extends
<1>11. /\ PathOK(path', variables', sz) /\ Len(path') = Len(path)
       /\ path'[Len(path)] = n /\ \A i \in 1..Len(path) : i # Len(path) => path'[i] = path[i]
  <2>1. variables' \in Seq(Slots) /\ n.in = Top(path).in
    BY <1>7, <1>8
  <2>2. variables \in Seq(Slots) /\ PathOK(path, variables, sz) /\ path # <<>>
    BY <1>2
  <2> QED
    BY <1>p, <1>9, <1>10, <2>1, <2>2, SetTopKeeps
<1>12. VariablesOK(variables)'
  <2>1. \A v \in 1..k : variables[v].loc % variables[v].width = 0 /\ variables[v].loc >= 0
    BY DEF IInv, VariablesOK
  <2>2. \A v \in 1..(k + 1) :
          variables'[v].loc % variables'[v].width = 0 /\ variables'[v].loc >= 0
    BY <1>4, <1>5, <1>6, <1>7, <2>1
  <2> QED
    BY <1>7, <2>2 DEF VariablesOK
<1>13. Holds(path', variables', sz)
  <2>1. /\ Len(path) \in Nat /\ Len(path) >= 1 /\ Len(path) \in 1..Len(path)
        /\ top = path[Len(path)]
    BY <1>2, TopInPath
  <2>2. \A i \in 1..Len(path) : path[i].max \in Nat
    BY <1>2, ElementOfSeq, NodeNumbers DEF PathOK
  <2>3. \A i \in 1..Len(path) : path[i].max <= path'[i].max
    BY <1>3, <1>4, <1>8, <1>11, <2>1, <2>2
  <2>4. variables'[k + 1].loc <= path'[Len(path)].max
    BY <1>4, <1>5, <1>7, <1>8, <1>11
  <2>5. \A v \in 1..Len(variables') :
          v \in 1..Len(variables) \/ \E i \in 1..Len(path') : variables'[v].loc <= path'[i].max
    BY <1>6, <1>7, <1>11, <2>1, <2>4
  <2>6. Len(path') >= Len(path)
    BY <1>11, <2>1
  <2> QED
    BY <1>2, <1>7, <1>10, <1>11, <2>3, <2>5, <2>6, HoldsMore
<1>14. phase' = "body" /\ visits' \in Nat
  BY <1>1 DEF IInv
<1> QED
  BY <1>1, <1>11, <1>12, <1>13, <1>14, BodyInductive

(* when a node is called, *)
LEMMA EnterInductive ==
  ASSUME IInv, NEW op \in Operators, Enter(op)
  PROVE  IInv'
<1> PICK top, sz : top = Top(path) /\ sz = ParametersSize
  OBVIOUS
<1>m. PICK m : m = [top EXCEPT !.children = @ + 1]
  OBVIOUS
<1>n. PICK n : n = NewNode(op, top.size)
  OBVIOUS
<1>s. PICK s : s = SetTop(path, m)
  OBVIOUS
<1>1. phase = "body" /\ UNCHANGED <<params, variables, stacksz, phase>> /\ visits' = visits + 1
  BY DEF Enter, CanVisit
<1>2. path' = App(s, n)
  <2>1. Node(op, top.size).in = top.size
    BY DEF Node
  <2> QED
    BY <1>m, <1>n, <1>s, <2>1 DEF Enter, NewNode, App
<1>3. /\ sz \in Nat /\ path # <<>> /\ variables \in Seq(Slots)
      /\ PathOK(path, variables, sz) /\ Holds(path, variables, sz)
      /\ NodeOK(top, variables, sz) /\ top \in Nodes /\ top = Top(path)
      /\ Extends(variables, variables)
  BY <1>1, BodyFacts
<1>4. /\ top.in \in Nat /\ top.size \in Nat /\ sz <= top.in /\ top.in <= top.size
  BY <1>3, NodeNumbers DEF NodeOK
<1>5. /\ m \in Nodes /\ m.op = top.op /\ m.in = top.in /\ m.size = top.size
      /\ m.decls = top.decls /\ m.max = top.max /\ m.children >= 1
  BY <1>m, <1>3, CountedFacts
<1>6. NodeOK(m, variables, sz)
  BY <1>3, <1>5, VisitedNodeOK
<1>7. NodeOK(n, variables, sz) /\ n.in = top.size
  <2>1. sz <= top.size
    BY <1>3, <1>4
  <2> QED
    BY <1>n, <1>4, <2>1, NewNodeOK
<1>8. /\ PathOK(s, variables, sz) /\ Len(s) = Len(path) /\ s # <<>> /\ Top(s) = m
      /\ s[Len(path)] = m /\ \A i \in 1..Len(path) : i # Len(path) => s[i] = path[i]
  BY <1>s, <1>3, <1>5, <1>6, SetTopKeeps
<1>9. /\ PathOK(path', variables, sz) /\ Len(path') = Len(path) + 1
      /\ \A i \in 1..Len(path) : path'[i] = s[i]
  <2>1. Top(s).children >= 1 /\ n.in = Top(s).size
    BY <1>5, <1>7, <1>8
  <2>2. PathOK(s, variables, sz) /\ s # <<>> /\ NodeOK(n, variables, sz) /\ Len(s) = Len(path)
    BY <1>7, <1>8
  <2> QED
    BY <1>2, <2>1, <2>2, AppendKeeps
<1>10. Holds(path', variables, sz)
  <2>1. /\ Len(path) \in Nat /\ top = path[Len(path)]
    BY <1>3, TopInPath
  <2>2. \A i \in 1..Len(path) : path[i].max \in Nat
    BY <1>3, ElementOfSeq, NodeNumbers DEF PathOK
  <2>3. \A i \in 1..Len(path) : path[i].max <= path'[i].max
    BY <1>5, <1>8, <1>9, <2>1, <2>2
  <2>4. Len(path') >= Len(path)
    BY <1>9, <2>1
  <2> QED
    BY <1>3, <1>9, <2>3, <2>4, HoldsMore
<1>11. phase' = "body" /\ visits' \in Nat /\ VariablesOK(variables)'
  BY <1>1 DEF IInv, VariablesOK
<1> QED
  BY <1>1, <1>9, <1>10, <1>11, BodyInductive

(* A tree without trees to visit: Leaf, and Call, whose temporaries are    *)
(* variables at the location 0.                                            *)
LEMMA VisitInductive ==
  ASSUME IInv, phase = "body", UNCHANGED <<params, stacksz, phase>>, visits' = visits + 1,
         NEW zs \in Seq(Slots), \A k \in 1..Len(zs) : zs[k].loc = 0,
         variables' = variables \o zs,
         path' = SetTop(path, Visited(Top(path)))
  PROVE  IInv'
<1>m. PICK m : m = Visited(Top(path))
  OBVIOUS
<1> PICK top, sz, k : top = Top(path) /\ sz = ParametersSize /\ k = Len(variables)
  OBVIOUS
<1>1. /\ sz \in Nat /\ path # <<>> /\ variables \in Seq(Slots)
      /\ PathOK(path, variables, sz) /\ Holds(path, variables, sz)
      /\ NodeOK(top, variables, sz) /\ top \in Nodes /\ top = Top(path)
  BY BodyFacts
<1>2. path' = SetTop(path, m)
  BY <1>m
<1>4. /\ m \in Nodes /\ m.op = top.op /\ m.in = top.in /\ m.size = top.size
      /\ m.decls = top.decls /\ top.max <= m.max /\ m.children >= 1
  BY <1>m, <1>1, VisitedFacts
<1>5. k \in Nat /\ Len(zs) \in Nat
  BY <1>1, LenProperties
<1>6. /\ variables' \in Seq(Slots) /\ Len(variables') = k + Len(zs)
      /\ \A v \in 1..(k + Len(zs)) : variables'[v] = IF v <= k THEN variables[v] ELSE zs[v - k]
  BY <1>1, ConcatProperties
<1>7. /\ \A v \in 1..k : variables'[v] = variables[v]
      /\ \A v \in 1..(k + Len(zs)) : v \in 1..k \/ variables'[v].loc = 0
  BY <1>5, <1>6
<1>8. Extends(variables', variables)
  BY <1>5, <1>6, <1>7 DEF Extends
<1>9. NodeOK(m, variables', sz)
  <2>1. NodeOK(m, variables, sz)
    BY <1>1, <1>4, VisitedNodeOK
  <2> QED
    BY <1>1, <1>6, <1>8, <2>1, NodeExtends
<1>10. /\ PathOK(path', variables', sz) /\ Len(path') = Len(path)
       /\ path'[Len(path)] = m /\ \A i \in 1..Len(path) : i # Len(path) => path'[i] = path[i]
  <2>1. variables' \in Seq(Slots) /\ m.in = Top(path).in
    BY <1>4, <1>6
  <2>2. variables \in Seq(Slots) /\ PathOK(path, variables, sz) /\ path # <<>>
    BY <1>1
  <2> QED
    BY ONLY <1>2, <1>8, <1>9, <2>1, <2>2, SetTopKeeps
<1>11. VariablesOK(variables)'
  <2>1. \A v \in 1..k : variables[v].loc % variables[v].width = 0 /\ variables[v].loc >= 0
    BY DEF IInv, VariablesOK
  <2>2. ASSUME NEW v \in 1..(k + Len(zs))
        PROVE  variables'[v].loc % variables'[v].width = 0 /\ variables'[v].loc >= 0
    <3>1. CASE v \in 1..k
      BY <1>7, <2>1, <3>1
    <3>2. CASE variables'[v].loc = 0
      <4>1. variables'[v].width \in {4, 8}
        BY <1>6, SlotFacts
      <4>2. 0 % 4 = 0 /\ 0 % 8 = 0
        OBVIOUS
      <4> QED
        BY <3>2, <4>1, <4>2
    <3> QED
      BY <1>7, <3>1, <3>2
  <2> QED
    BY <1>6, <2>2 DEF VariablesOK
<1>12. Holds(path', variables', sz)
  <2>1. /\ Len(path) \in Nat /\ Len(path) >= 1 /\ Len(path) \in 1..Len(path)
        /\ top = path[Len(path)]
    BY <1>1, TopInPath
  <2>2. \A i \in 1..Len(path) : path[i].max \in Nat
    BY <1>1, ElementOfSeq, NodeNumbers DEF PathOK
  <2>3. \A i \in 1..Len(path) : path[i].max <= path'[i].max
    BY <1>4, <1>10, <2>1, <2>2
  <2>4. path'[Len(path)].max \in Nat
    BY <1>4, <1>10, NodeNumbers
  <2>5. \A v \in 1..Len(variables') :
          v \in 1..Len(variables) \/ \E i \in 1..Len(path') : variables'[v].loc <= path'[i].max
    BY <1>6, <1>7, <1>10, <2>1, <2>4
  <2>6. Len(path') >= Len(path)
    BY <1>10, <2>1
  <2> QED
    BY <1>1, <1>6, <1>8, <1>10, <2>3, <2>5, <2>6, HoldsMore
<1>13. phase' = "body" /\ visits' \in Nat
  BY DEF IInv
<1> QED
  BY <1>10, <1>11, <1>12, <1>13, BodyInductive

(* when a leaf returns, *)
LEMMA LeafInductive ==
  ASSUME IInv, Leaf
  PROVE  IInv'
<1>1. phase = "body" /\ UNCHANGED <<params, variables, stacksz, phase>> /\ visits' = visits + 1
  BY DEF Leaf, CanVisit
<1>2. path' = SetTop(path, Visited(Top(path)))
  BY DEF Leaf, Visited
<1>3. variables' = variables \o <<>>
  <2>1. variables \in Seq(Slots)
    BY DEF IInv, VariablesOK
  <2> QED
    BY <1>1, <2>1
<1>4. <<>> \in Seq(Slots) /\ \A k \in 1..Len(<<>>) : <<>>[k].loc = 0
  OBVIOUS
<1> QED
  BY <1>1, <1>2, <1>3, <1>4, VisitInductive

(* when a call does, whose temporaries may have no place, *)
LEMMA CallInductive ==
  ASSUME IInv, NEW ws \in Seq(Widths), Call(ws)
  PROVE  IInv'
<1>1. phase = "body" /\ UNCHANGED <<params, stacksz, phase>> /\ visits' = visits + 1
  BY DEF Call, CanVisit
<1>2. path' = SetTop(path, Visited(Top(path)))
  BY DEF Call, Visited
<1> PICK zs : zs = [k \in 1..Len(ws) |-> [width |-> ws[k], loc |-> 0]]
  OBVIOUS
<1>3. variables' = variables \o zs
  BY DEF Call
<1>4. Len(ws) \in Nat /\ \A k \in 1..Len(ws) : ws[k] \in Widths
  BY LenProperties, ElementOfSeq
<1>5. zs \in Seq(Slots) /\ \A k \in 1..Len(zs) : zs[k].loc = 0
  <2>1. \A k \in 1..Len(ws) : [width |-> ws[k], loc |-> 0] \in Slots
    BY <1>4 DEF Slots
  <2>2. zs \in Seq(Slots) /\ Len(zs) = Len(ws)
    BY <1>4, <2>1, IsASeq
  <2> QED
    BY <1>4, <2>2
<1> QED
  BY <1>1, <1>2, <1>3, <1>5, VisitInductive

(* and when there is no tree where one is expected, at which the compiler  *)
(* stops.                                                                  *)
LEMMA MissingBodyInductive ==
  ASSUME IInv, MissingBody
  PROVE  IInv'
<1>1. phase' = "crashed" /\ UNCHANGED <<params, variables, path, visits, stacksz>>
  BY DEF MissingBody
<1>2. ParametersOK' /\ ParametersSize' = ParametersSize
  BY <1>1, ParametersUnchanged DEF IInv
<1> QED
  BY <1>1, <1>2 DEF IInv

(* assign_memloc returns the largest size to the node around it. *)
LEMMA LeaveNodeInductive ==
  ASSUME IInv, Leave, Pop(path) # <<>>
  PROVE  IInv'
<1> PICK top, sz : top = Top(path) /\ sz = ParametersSize
  OBVIOUS
<1>s. PICK s : s = Pop(path)
  OBVIOUS
<1>m. PICK m : m = Returned(Top(s), top.max)
  OBVIOUS
<1>1. phase = "body" /\ UNCHANGED <<params, variables, visits, stacksz, phase>>
  BY DEF Leave
<1>2. path' = SetTop(s, m) /\ s # <<>>
  BY <1>s, <1>m DEF Leave
<1>3. /\ sz \in Nat /\ path # <<>> /\ variables \in Seq(Slots)
      /\ PathOK(path, variables, sz) /\ Holds(path, variables, sz)
      /\ top \in Nodes /\ top = Top(path) /\ Extends(variables, variables)
  BY <1>1, BodyFacts
<1>4. /\ PathOK(s, variables, sz) /\ Len(s) = Len(path) - 1
      /\ \A i \in 1..Len(s) : s[i] = path[i]
      /\ Top(s) = path[Len(s)] /\ Top(s).children >= 1
  <2>1. PathOK(path, variables, sz) /\ path # <<>>
    BY <1>3
  <2> QED
    BY <1>s, <1>2, <2>1, PopKeeps
<1>5. /\ Len(s) \in Nat /\ Len(s) >= 1 /\ Top(s) = s[Len(s)]
      /\ NodeOK(Top(s), variables, sz) /\ Top(s) \in Nodes
  BY <1>2, <1>4, TopInPath
<1>6. Len(path) \in Nat /\ top = path[Len(path)] /\ top.max \in Nat
  BY <1>3, TopInPath, NodeNumbers
<1>7. /\ m \in Nodes /\ m.op = Top(s).op /\ m.in = Top(s).in /\ m.size = Top(s).size
      /\ m.decls = Top(s).decls /\ m.children = Top(s).children
      /\ Top(s).max <= m.max /\ top.max <= m.max
  BY <1>m, <1>5, <1>6, ReturnedFacts
<1>8. NodeOK(m, variables, sz)
  BY <1>4, <1>5, <1>7, VisitedNodeOK
<1>9. /\ PathOK(path', variables, sz) /\ Len(path') = Len(s)
      /\ path'[Len(s)] = m /\ \A i \in 1..Len(s) : i # Len(s) => path'[i] = s[i]
  <2>1. m.in = Top(s).in /\ variables \in Seq(Slots) /\ Extends(variables, variables)
    BY <1>3, <1>7
  <2>2. PathOK(s, variables, sz)
    BY <1>4
  <2> QED
    BY <1>2, <1>8, <2>1, <2>2, SetTopKeeps
<1>10. Holds(path', variables, sz)
  <2>1. \A i \in 1..Len(path) : path[i].max \in Nat
    BY <1>3, ElementOfSeq, NodeNumbers DEF PathOK
  <2>2. \A i \in 1..Len(s) : path[i].max <= path'[i].max
    BY <1>4, <1>5, <1>6, <1>7, <1>9, <2>1
  <2>3. path[Len(path)].max <= path'[Len(s)].max
    BY <1>6, <1>7, <1>9
  <2>4. \A i \in 1..Len(path) : \E j \in 1..Len(s) : path[i].max <= path'[j].max
    <3>1. \A i \in 1..Len(path) : i \in 1..Len(s) \/ i = Len(path)
      BY <1>4, <1>5, <1>6
    <3>2. Len(s) \in 1..Len(s)
      BY <1>5
    <3> QED
      BY <2>2, <2>3, <3>1, <3>2
  <2>5. \A i \in 1..Len(s) : path'[i].max \in Nat
    BY <1>9, ElementOfSeq, NodeNumbers DEF PathOK
  <2>6. ASSUME NEW v \in 1..Len(variables)
        PROVE  \E j \in 1..Len(path') : variables[v].loc <= path'[j].max
    <3>1. PICK i \in 1..Len(path) : variables[v].loc <= path[i].max
      BY <1>3 DEF Holds
    <3>2. PICK j \in 1..Len(s) : path[i].max <= path'[j].max
      BY <2>4
    <3>3. variables[v].loc \in Int
      BY <1>3, SlotFacts
    <3>4. variables[v].loc <= path'[j].max
      BY <2>1, <2>5, <3>1, <3>2, <3>3
    <3> QED
      BY <1>9, <3>4
  <2>7. sz <= path'[1].max
    <3>1. 1 \in 1..Len(s) /\ 1 \in 1..Len(path) /\ sz <= path[1].max
      BY <1>3, <1>4, <1>5, <1>6 DEF Holds
    <3> QED
      BY <1>3, <2>1, <2>2, <2>5, <3>1
  <2>8. Len(path') >= 1
    BY <1>5, <1>9
  <2> QED
    BY <2>6, <2>7, <2>8 DEF Holds
<1>11. phase' = "body" /\ visits' \in Nat /\ VariablesOK(variables)'
  BY <1>1 DEF IInv, VariablesOK
<1> QED
  BY <1>1, <1>9, <1>10, <1>11, BodyInductive

(* The body's size is that of the frame. *)
LEMMA LeaveBodyInductive ==
  ASSUME IInv, Leave, Pop(path) = <<>>
  PROVE  IInv'
<1> PICK top, sz : top = Top(path) /\ sz = ParametersSize
  OBVIOUS
<1>1. /\ phase = "body" /\ phase' = "done" /\ path' = <<>> /\ UNCHANGED <<params, variables, visits>>
      /\ stacksz' = Align(top.max, STACKALIGN)
  BY DEF Leave
<1>2. /\ sz \in Nat /\ path # <<>> /\ variables \in Seq(Slots)
      /\ PathOK(path, variables, sz) /\ Holds(path, variables, sz)
      /\ top \in Nodes /\ top = Top(path)
  BY <1>1, BodyFacts
<1>3. /\ Len(path) \in Nat /\ top = path[Len(path)] /\ top.max \in Nat
  BY <1>2, TopInPath, NodeNumbers
<1>4. Len(path) = 1
  <2>1. Len(<<>>) = Len(path) - 1
    BY <1>2, PopKeeps
  <2> QED
    BY <1>3, <2>1
<1>5. /\ stacksz' \in Nat /\ top.max <= stacksz' /\ stacksz' % STACKALIGN = 0
  BY <1>1, <1>3, FrameSizeFacts
<1>6. sz <= stacksz'
  BY <1>2, <1>3, <1>4, <1>5 DEF Holds
<1>7. ASSUME NEW v \in 1..Len(variables) PROVE variables[v].loc <= stacksz'
  <2>1. variables[v].loc <= top.max
    BY <1>2, <1>3, <1>4 DEF Holds
  <2>2. variables[v].loc \in Int
    BY <1>2, SlotFacts
  <2> QED
    BY <1>3, <1>5, <2>1, <2>2
<1>8. ParametersOK' /\ ParametersSize' = sz
  BY <1>1, ParametersUnchanged DEF IInv
<1>9. PathOK(<<>>, variables, sz)
  BY DEF PathOK
<1>10. VariablesOK(variables)' /\ visits' \in Nat
  BY <1>1 DEF IInv, VariablesOK
<1> QED
  BY <1>1, <1>5, <1>6, <1>7, <1>8, <1>9, <1>10 DEF IInv

(* It is kept by every step. *)
LEMMA NextInductive ==
  ASSUME IInv, [Next]_vars
  PROVE  IInv'
<1>1. ASSUME NEW w \in Widths, Call(<<w>>) PROVE IInv'
  <2>1. <<w>> \in Seq(Widths)
    OBVIOUS
  <2> QED
    BY <1>1, <2>1, CallInductive
<1>2. ASSUME Call(<<>>) PROVE IInv'
  <2>1. <<>> \in Seq(Widths)
    OBVIOUS
  <2> QED
    BY <1>2, <2>1, CallInductive
<1>3. ASSUME Leave PROVE IInv'
  BY <1>3, LeaveNodeInductive, LeaveBodyInductive
<1>4. ASSUME UNCHANGED vars PROVE IInv'
  <2>1. ParametersOK' /\ ParametersSize' = ParametersSize
    BY <1>4, ParametersUnchanged DEF IInv, vars
  <2> QED
    BY <1>4, <2>1 DEF IInv, vars
<1>5. ASSUME NEW w \in Widths, AssignParameter(w) \/ Declare(w) PROVE IInv'
  BY <1>5, AssignParameterInductive, DeclareInductive
<1>6. ASSUME NEW op \in Operators, Enter(op) PROVE IInv'
  BY <1>6, EnterInductive
<1>7. ASSUME EnterBody \/ Leaf \/ MissingBody PROVE IInv'
  BY <1>7, EnterBodyInductive, LeafInductive, MissingBodyInductive
<1> QED
  BY <1>1, <1>2, <1>3, <1>4, <1>5, <1>6, <1>7 DEF Next

(* It holds in every reachable state. *)
LEMMA Invariance == Spec => []IInv
  BY InitInductive, NextInductive, PTL DEF Spec
-----------------------------------------------------------------------------
(* The invariant implies the properties. *)
LEMMA HoldsType == IInv => TypeOK
<1> SUFFICES ASSUME IInv PROVE TypeOK
  OBVIOUS
<1>1. /\ params \in Seq(Slots) /\ variables \in Seq(Slots) /\ path \in Seq(Nodes)
      /\ visits \in Nat /\ stacksz \in Nat /\ phase \in {"params", "body", "done", "crashed"}
  BY DEF IInv, ParametersOK, VariablesOK, PathOK
<1>2. phase = "body" => path # <<>>
  BY BodyFacts
<1>3. \A i \in 1..Len(path) : path[i].decls \subseteq 1..Len(variables)
  BY DEF IInv, PathOK, NodeOK
<1> QED
  BY <1>1, <1>2, <1>3 DEF TypeOK

(* What the invariant says of sizes gives that the frame holds its slots, *)
LEMMA HoldsSlots == IInv => FrameHoldsSlots
<1> SUFFICES ASSUME IInv PROVE FrameHoldsSlots
  OBVIOUS
<1>1. ASSUME phase = "done"
      PROVE  /\ \A v \in 1..Len(variables) : variables[v].loc <= stacksz
             /\ stacksz % STACKALIGN = 0 /\ ParametersSize <= stacksz /\ stacksz \in Nat
  BY <1>1 DEF IInv
<1>2. /\ ParametersSize \in Nat
      /\ \A k \in 1..Len(params) : params[k].loc <= ParametersSize /\ params[k].loc \in Int
  BY ParametersSizeFacts, SlotFacts DEF IInv, ParametersOK
<1>3. phase = "done" => \A k \in 1..Len(params) : params[k].loc <= stacksz
  BY <1>1, <1>2
<1> QED
  BY <1>1, <1>3, HoldsType DEF FrameHoldsSlots

(* and what it says of places that they are aligned. *)
LEMMA HoldsAligned == IInv => SlotsAligned
  BY DEF IInv, VariablesOK, ParametersOK, SlotsAligned

(* The variables that are alive, and what is between them.                 *)
LEMMA AliveFacts ==
  ASSUME IInv, NEW v \in Alive
  PROVE  /\ v \in 1..Len(variables) /\ variables[v].width \in {4, 8} /\ variables[v].loc \in Int
         /\ ParametersSize <= variables[v].loc - variables[v].width
<1> PICK sz : sz = ParametersSize
  OBVIOUS
<1>1. PICK i \in 1..Len(path) : v \in path[i].decls
  BY DEF Alive
<1>2. NodeOK(path[i], variables, sz) /\ path[i] \in Nodes
  BY DEF IInv, PathOK, NodeOK
<1>3. v \in 1..Len(variables) /\ path[i].in <= variables[v].loc - variables[v].width
      /\ sz <= path[i].in /\ path[i].in \in Nat
  BY <1>1, <1>2, NodeNumbers DEF NodeOK
<1>4. variables[v].width \in {4, 8} /\ variables[v].loc \in Int
  BY <1>3, SlotFacts DEF IInv, VariablesOK
<1>5. sz \in Nat
  BY ParametersSizeFacts DEF IInv
<1> QED
  BY <1>3, <1>4, <1>5

(* The variables of an inner node lie below those of the nodes around it. *)
LEMMA AliveInOrder ==
  ASSUME IInv, NEW i \in 1..Len(path), NEW j \in 1..Len(path), i < j,
         NEW v \in path[i].decls, NEW u \in path[j].decls
  PROVE  variables[v].loc <= variables[u].loc - variables[u].width
<1>1. /\ NodeOK(path[i], variables, ParametersSize) /\ NodeOK(path[j], variables, ParametersSize)
      /\ path[i].size <= path[j].in
  BY DEF IInv, PathOK
<1>2. path[i].size \in Nat /\ path[j].in \in Nat
  BY <1>1, NodeNumbers DEF NodeOK
<1>3. /\ v \in 1..Len(variables) /\ u \in 1..Len(variables)
      /\ variables[v].loc <= path[i].size
      /\ path[j].in <= variables[u].loc - variables[u].width
  BY <1>1 DEF NodeOK
<1>4. /\ variables[v].loc \in Int /\ variables[u].loc \in Int /\ variables[u].width \in {4, 8}
  BY <1>3, SlotFacts DEF IInv, VariablesOK
<1>5. variables[v].loc <= path[j].in
  <2>1. path[i].size <= path[j].in /\ variables[v].loc <= path[i].size /\ variables[v].loc \in Int
    BY <1>1, <1>3, <1>4
  <2> QED
    BY <1>2, <2>1
<1>6. /\ path[j].in <= variables[u].loc - variables[u].width
      /\ variables[v].loc \in Int /\ variables[u].loc - variables[u].width \in Int
  BY <1>3, <1>4
<1> QED
  BY <1>2, <1>5, <1>6

(* So no two variables that are alive share a byte. *)
LEMMA HoldsDisjoint == IInv => AliveSlotsDisjoint
<1> SUFFICES ASSUME IInv PROVE AliveSlotsDisjoint
  OBVIOUS
<1>1. \A v \in Alive : /\ v \in 1..Len(variables) /\ variables[v].width \in {4, 8}
                       /\ variables[v].loc \in Int
                       /\ ParametersSize <= variables[v].loc - variables[v].width
  BY AliveFacts
<1>2. /\ ParametersSize \in Nat /\ STACKTOP <= ParametersSize
      /\ \A k \in 1..Len(params) : params[k].loc <= ParametersSize
  BY ParametersSizeFacts DEF IInv
<1>3. \A k \in 1..Len(params) : params[k].loc \in Int /\ params[k].width \in {4, 8}
  BY SlotFacts DEF IInv, ParametersOK
<1>4. ASSUME NEW v \in Alive, NEW u \in Alive, v # u
      PROVE  Disjoint(variables[v], variables[u])
  <2>1. PICK i \in 1..Len(path) : v \in path[i].decls
    BY DEF Alive
  <2>2. PICK j \in 1..Len(path) : u \in path[j].decls
    BY DEF Alive
  <2>3. CASE i < j
    BY <2>1, <2>2, <2>3, AliveInOrder DEF Disjoint
  <2>4. CASE j < i
    BY <2>1, <2>2, <2>4, AliveInOrder DEF Disjoint
  <2>5. CASE i = j
    <3>1. NodeOK(path[i], variables, ParametersSize)
      BY DEF IInv, PathOK
    <3>2. v < u \/ u < v
      <4>1. Len(variables) \in Nat
        BY LenProperties DEF IInv, VariablesOK
      <4> QED
        BY <1>1, <1>4, <4>1
    <3> QED
      BY <2>1, <2>2, <2>5, <3>1, <3>2 DEF NodeOK, Disjoint
  <2>6. Len(path) \in Nat
    BY LenProperties DEF IInv, PathOK
  <2> QED
    BY <2>3, <2>4, <2>5, <2>6
<1>5. ASSUME NEW v \in Alive, NEW k \in 1..Len(params)
      PROVE  Disjoint(variables[v], params[k])
  BY <1>1, <1>2, <1>3 DEF Disjoint
<1>6. ASSUME NEW j \in 1..Len(params), NEW k \in 1..Len(params), j < k
      PROVE  Disjoint(params[j], params[k]) /\ Disjoint(params[k], params[j])
  <2>1. Len(params) \in Nat /\ NPARAM_REG \in Nat
    BY LenProperties, FrameAssumption DEF IInv, ParametersOK
  <2>2. CASE InRegister(k)
    BY <1>6, <2>2 DEF IInv, ParametersOK, Disjoint
  <2>3. CASE ~InRegister(j)
    BY <1>6, <2>3 DEF IInv, ParametersOK, Disjoint
  <2>4. CASE InRegister(j) /\ ~InRegister(k)
    <3>1. params[j].loc - params[j].width >= STACKTOP /\ params[k].loc <= -16
      BY <2>4 DEF IInv, ParametersOK
    <3> QED
      BY <1>3, <3>1 DEF Disjoint, STACKTOP
  <2> QED
    BY <2>2, <2>3, <2>4
<1>7. ASSUME NEW k \in 1..Len(params)
      PROVE  Disjoint(params[k], SavedRbx) /\ Disjoint(params[k], Linkage)
  <2>1. params[k].loc - params[k].width >= STACKTOP \/ params[k].loc <= -16
    BY DEF IInv, ParametersOK
  <2> QED
    BY <1>3, <2>1 DEF Disjoint, SavedRbx, Linkage, STACKTOP
<1>8. ASSUME NEW v \in Alive
      PROVE  Disjoint(variables[v], SavedRbx) /\ variables[v].loc > 0
  BY <1>1, <1>2 DEF Disjoint, SavedRbx, STACKTOP
<1>9. \A j, k \in 1..Len(params) : j # k => Disjoint(params[j], params[k])
  <2>1. Len(params) \in Nat
    BY LenProperties DEF IInv, ParametersOK
  <2> QED
    BY <1>6, <2>1
<1> QED
  BY <1>4, <1>5, <1>7, <1>8, <1>9 DEF AliveSlotsDisjoint

(* For any function, however its blocks nest and whatever the widths of    *)
(* its parameters and variables: assign_paramloc and assign_memloc never   *)
(* give two variables that are alive together a byte in common, nor one    *)
(* that the prologue or the call uses.                                     *)
THEOREM SlotsNeverOverlap == Spec => []AliveSlotsDisjoint
  BY Invariance, HoldsDisjoint, PTL

(* The size that func reserves is large enough for every variable of the   *)
(* body and every parameter kept in the frame, and a multiple of 16.       *)
THEOREM FrameIsLargeEnough == Spec => []FrameHoldsSlots
  BY Invariance, HoldsSlots, PTL

(* assign_paramloc and assign_memloc align every slot for its type.        *)
THEOREM SlotsAreAligned == Spec => []SlotsAligned
  BY Invariance, HoldsAligned, PTL
=============================================================================
