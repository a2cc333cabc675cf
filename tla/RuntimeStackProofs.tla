------------------------- MODULE RuntimeStackProofs -------------------------
(***************************************************************************)
(* Theorems on RuntimeStack: for any functions, however deep they call     *)
(* each other, with any number of arguments, variables and pushes.         *)
(***************************************************************************)
EXTENDS RuntimeStack, SequenceTheorems, OperatorTheorems

Arg == [width : {4, 8}, value : Int]
Frames == [rbp : Int, rbx : Int, caller : Int, adjust : Nat, args : Seq(Arg),
           locals : Seq(Int), size : Nat, pushed : Seq(Int)]

(* The bytes of a frame: down to the last operand pushed, and up to the    *)
(* arguments the caller has put on the stack.                              *)
Bottom(f) == f.rbp - f.size - 8 * Len(f.pushed)
Upper(f)  == f.rbp + 16 + f.adjust

FrameOK(f) ==
  /\ f \in Frames
  /\ f.rbp % 8 = 0
  /\ f.size = FrameSize(Len(f.locals))
  /\ f.adjust = StackAdjust(f.args)

(* The frame of a function begins exactly where its caller's ends. *)
StackOK(s) ==
  /\ s \in Seq(Frames) /\ s # <<>>
  /\ \A i \in 1..Len(s) : FrameOK(s[i])
  /\ s[1].rbp = 0 /\ s[1].adjust = 0
  /\ \A i, j \in 1..Len(s) : j = i + 1 => s[j].caller = s[i].rbp /\ Upper(s[j]) = Bottom(s[i])
  /\ \A i, j \in 1..Len(s) : i < j => Upper(s[j]) <= Bottom(s[i])

-----------------------------------------------------------------------------
(* What the constants are. *)
LEMMA Constants ==
  /\ Values \subseteq Int /\ ReturnAddress \in Int
  /\ NPARAM_REG \in Nat
  BY StackAssumption

(* What an argument is. *)
LEMMA ArgFacts ==
  ASSUME NEW st \in Seq(Arg), NEW i \in 1..Len(st)
  PROVE  st[i] \in Arg /\ st[i].width \in {4, 8} /\ st[i].value \in Int
<1>1. st[i] \in Arg
  BY ElementOfSeq
<1> QED
  BY <1>1 DEF Arg

(* Multiples of 8 stay so when multiples of 8 are added or taken away. *)
LEMMA ModFacts ==
  ASSUME NEW b \in Int, NEW s \in Int, NEW n \in Int, b % 8 = 0, s % 8 = 0
  PROVE  /\ (b - s - 8 * n) % 8 = 0 /\ (b + 16 + s) % 8 = 0
         /\ (b - 8 - 8 * n) % 8 = 0 /\ (b + 8 + 8 * n) % 8 = 0
  OBVIOUS

(* The cells of the stack have eight bytes, whatever the argument has. *)
LEMMA CellFacts ==
  ASSUME NEW a \in Int, NEW w \in {4, 8}, a % 8 = 0
  PROVE  Align(a + w, Larger(w, 8)) = a + 8 /\ Align(a + w, 8) = a + 8
<1>1. Larger(w, 8) = 8
  BY DEF Larger
<1>2. CASE w = 4
  BY <1>1, <1>2 DEF Align
<1>3. CASE w = 8
  BY <1>1, <1>3 DEF Align
<1> QED
  BY <1>2, <1>3

(* Align rounds up to a multiple of 16. *)
LEMMA AlignFacts ==
  ASSUME NEW n \in Nat
  PROVE  /\ Align(n, 16) \in Nat /\ n <= Align(n, 16) /\ Align(n, 16) % 16 = 0
         /\ Align(n, 16) % 8 = 0
  BY DEF Align

(* The frame of a function holds its local variables below the saved rbx. *)
LEMMA FrameSizeFacts ==
  ASSUME NEW n \in Nat
  PROVE  /\ FrameSize(n) \in Nat /\ 8 + 8 * n <= FrameSize(n)
         /\ FrameSize(n) % 16 = 0 /\ FrameSize(n) % 8 = 0
<1>1. 8 + 8 * n \in Nat
  OBVIOUS
<1> QED
  BY <1>1, AlignFacts DEF FrameSize, STACKTOP, STACKALIGN

(* call() and assign_paramloc agree: the k-th argument on the stack is     *)
(* k - 1 cells above the first one, which is above the return address.     *)
LEMMA ParameterPlace ==
  ASSUME NEW st \in Seq(Arg), NEW k \in 1..Len(st)
  PROVE  ParameterOffset(st, k) = 16 + 8 * (k - 1)
<1> DEFINE Def(g) == g = [i \in 1..k |-> IF i = 1 THEN Align(16, 8)
                                         ELSE Align(g[i - 1] + st[i - 1].width, 8)]
           f == [i \in 1..k |-> 16 + 8 * (i - 1)]
           top == CHOOSE g : Def(g)
<1>1. k \in Nat /\ k >= 1 /\ Len(st) \in Nat /\ \A i \in 1..k : i \in 1..Len(st)
  OBVIOUS
<1>2. \A i \in 1..k : st[i].width \in {4, 8}
  BY <1>1, ArgFacts
<1>3. Def(f)
  <2>1. Align(16, 8) = 16
    BY DEF Align
  <2>2. ASSUME NEW i \in 1..k, i # 1
        PROVE  f[i] = Align(f[i - 1] + st[i - 1].width, 8)
    <3>1. i - 1 \in 1..k /\ i \in Int
      BY <1>1, <2>2
    <3>2. f[i - 1] = 16 + 8 * ((i - 1) - 1)
      BY <3>1
    <3>3. (16 + 8 * ((i - 1) - 1)) % 8 = 0 /\ 16 + 8 * ((i - 1) - 1) \in Int
      BY <3>1
    <3>4. Align(f[i - 1] + st[i - 1].width, 8) = 16 + 8 * ((i - 1) - 1) + 8
      BY <1>2, <3>1, <3>2, <3>3, CellFacts
    <3> QED
      BY <3>1, <3>4
  <2>3. f[1] = 16
    BY <1>1
  <2> HIDE DEF f
  <2>4. f = [i \in 1..k |-> f[i]]
    BY DEF f
  <2> QED
    BY <2>1, <2>2, <2>3, <2>4
<1>4. PICK g : g = top /\ Def(g)
  BY <1>3
<1>5. ASSUME NEW i \in 1..k
      PROVE  g[i] = IF i = 1 THEN Align(16, 8) ELSE Align(g[i - 1] + st[i - 1].width, 8)
  BY <1>4
<1>6. \A i \in 1..k : g[i] = 16 + 8 * (i - 1)
  <2> DEFINE good == {i \in 1..k : g[i] = 16 + 8 * (i - 1)}
  <2>1. ASSUME NEW i \in 1..k, i = 1 \/ i - 1 \in good PROVE g[i] = 16 + 8 * (i - 1)
    <3>1. CASE i = 1
      <4>1. Align(16, 8) = 16 /\ 1 \in 1..k
        BY <1>1 DEF Align
      <4>2. g[1] = 16
        BY <1>5, <4>1
      <4> QED
        BY <3>1, <4>2
    <3>2. CASE i - 1 \in good
      <4>1. i # 1 /\ i - 1 \in 1..k /\ g[i - 1] = 16 + 8 * ((i - 1) - 1)
        BY <1>1, <3>2
      <4>2. (16 + 8 * ((i - 1) - 1)) % 8 = 0 /\ 16 + 8 * ((i - 1) - 1) \in Int
        BY <4>1
      <4>3. g[i] = Align(g[i - 1] + st[i - 1].width, 8)
        BY <1>5, <4>1
      <4>4. g[i] = 16 + 8 * ((i - 1) - 1) + 8
        BY <1>2, <4>1, <4>2, <4>3, CellFacts
      <4>5. i \in Int
        OBVIOUS
      <4>6. 16 + 8 * ((i - 1) - 1) + 8 = 16 + 8 * (i - 1)
        BY <4>5
      <4> QED
        BY <4>4, <4>6
    <3> QED
      BY <2>1, <3>1, <3>2
  <2>2. \A i \in 1..k : (i = 1 \/ i - 1 \in good) => i \in good
    BY <2>1
  <2>3. \A i \in 1..k : i \in good
    <3> HIDE DEF good
    <3> QED
      BY <1>1, <2>2, UpTo
  <2> QED
    BY <2>3
<1>7. ParameterOffset(st, k) = g[k]
  BY <1>4 DEF ParameterOffset
<1> QED
  BY <1>1, <1>6, <1>7

(* The caller stores the arguments one above the other, in cells of 8      *)
(* bytes.                                                                  *)
LEMMA ArgumentPlace ==
  ASSUME NEW st \in Seq(Arg), NEW k \in 1..Len(st)
  PROVE  ArgumentOffset(st, k) = 8 * (k - 1)
<1> DEFINE Def(g) == g = [i \in 1..k |-> IF i = 1 THEN 0
                                         ELSE Align(g[i - 1] + st[i - 1].width, Larger(st[i - 1].width, 8))]
           f == [i \in 1..k |-> 8 * (i - 1)]
           offset == CHOOSE g : Def(g)
<1>1. k \in Nat /\ k >= 1 /\ Len(st) \in Nat /\ \A i \in 1..k : i \in 1..Len(st)
  OBVIOUS
<1>2. \A i \in 1..k : st[i].width \in {4, 8}
  BY <1>1, ArgFacts
<1>3. Def(f)
  <2>2. ASSUME NEW i \in 1..k, i # 1
        PROVE  f[i] = Align(f[i - 1] + st[i - 1].width, Larger(st[i - 1].width, 8))
    <3>1. i - 1 \in 1..k /\ i \in Int
      BY <1>1, <2>2
    <3>2. f[i - 1] = 8 * ((i - 1) - 1)
      BY <3>1
    <3>3. (8 * ((i - 1) - 1)) % 8 = 0 /\ 8 * ((i - 1) - 1) \in Int
      BY <3>1
    <3>4. Align(f[i - 1] + st[i - 1].width, Larger(st[i - 1].width, 8)) = 8 * ((i - 1) - 1) + 8
      BY <1>2, <3>1, <3>2, <3>3, CellFacts
    <3> QED
      BY <3>1, <3>4
  <2>3. f[1] = 0
    BY <1>1
  <2> HIDE DEF f
  <2>4. f = [i \in 1..k |-> f[i]]
    BY DEF f
  <2> QED
    BY <2>2, <2>3, <2>4
<1>4. PICK g : g = offset /\ Def(g)
  BY <1>3
<1>5. ASSUME NEW i \in 1..k
      PROVE  g[i] = IF i = 1 THEN 0 ELSE Align(g[i - 1] + st[i - 1].width, Larger(st[i - 1].width, 8))
  BY <1>4
<1>6. \A i \in 1..k : g[i] = 8 * (i - 1)
  <2> DEFINE good == {i \in 1..k : g[i] = 8 * (i - 1)}
  <2>1. ASSUME NEW i \in 1..k, i = 1 \/ i - 1 \in good PROVE g[i] = 8 * (i - 1)
    <3>1. CASE i = 1
      BY <1>5, <3>1
    <3>2. CASE i - 1 \in good
      <4>1. i # 1 /\ i - 1 \in 1..k /\ g[i - 1] = 8 * ((i - 1) - 1)
        BY <1>1, <3>2
      <4>2. (8 * ((i - 1) - 1)) % 8 = 0 /\ 8 * ((i - 1) - 1) \in Int
        BY <4>1
      <4>3. g[i] = Align(g[i - 1] + st[i - 1].width, Larger(st[i - 1].width, 8))
        BY <1>5, <4>1
      <4>4. g[i] = 8 * ((i - 1) - 1) + 8
        BY <1>2, <4>1, <4>2, <4>3, CellFacts
      <4>5. i \in Int
        OBVIOUS
      <4>6. 8 * ((i - 1) - 1) + 8 = 8 * (i - 1)
        BY <4>5
      <4> QED
        BY <4>4, <4>6
    <3> QED
      BY <2>1, <3>1, <3>2
  <2>2. \A i \in 1..k : (i = 1 \/ i - 1 \in good) => i \in good
    BY <2>1
  <2>3. \A i \in 1..k : i \in good
    <3> HIDE DEF good
    <3> QED
      BY <1>1, <2>2, UpTo
  <2> QED
    BY <2>3
<1>7. ArgumentOffset(st, k) = g[k]
  BY <1>4 DEF ArgumentOffset
<1> QED
  BY <1>1, <1>6, <1>7

(* stackadjust reserves a cell for each of them, and aligns. *)
LEMMA AdjustFacts ==
  ASSUME NEW args, Stacked(args) \in Seq(Arg)
  PROVE  StackAdjust(args) = Align(8 * Len(Stacked(args)), 16)
<1> DEFINE st == Stacked(args)
           n  == Len(st)
<1> DEFINE Def(g) == g = [k \in 0..n |->
                            IF k = 0 THEN 0
                            ELSE Align(g[k - 1] + st[n + 1 - k].width, Larger(st[n + 1 - k].width, 8))]
           f == [k \in 0..n |-> 8 * k]
           sum == CHOOSE g : Def(g)
<1>1. n \in Nat
  OBVIOUS
<1>2. \A i \in 1..n : st[i].width \in {4, 8}
  BY ArgFacts
<1>3. ASSUME NEW k \in 0..n, k # 0, NEW a, a = 8 * (k - 1)
      PROVE  Align(a + st[n + 1 - k].width, Larger(st[n + 1 - k].width, 8)) = 8 * k
  <2>1. n + 1 - k \in 1..n /\ a \in Int /\ a % 8 = 0 /\ k \in Int
    BY <1>1, <1>3
  <2>2. Align(a + st[n + 1 - k].width, Larger(st[n + 1 - k].width, 8)) = a + 8
    BY <1>2, <2>1, CellFacts
  <2> QED
    BY <1>3, <2>1, <2>2
<1>4. Def(f)
  <2>1. ASSUME NEW k \in 0..n, k # 0
        PROVE  f[k] = Align(f[k - 1] + st[n + 1 - k].width, Larger(st[n + 1 - k].width, 8))
    <3>1. k - 1 \in 0..n
      BY <1>1, <2>1
    <3>2. f[k - 1] = 8 * (k - 1) /\ f[k] = 8 * k
      BY <3>1
    <3> QED
      BY <1>3, <2>1, <3>2
  <2>2. f[0] = 0
    BY <1>1
  <2> HIDE DEF f
  <2>3. f = [k \in 0..n |-> f[k]]
    BY DEF f
  <2> QED
    BY <2>1, <2>2, <2>3
<1>5. PICK g : g = sum /\ Def(g)
  BY <1>4
<1>6. ASSUME NEW k \in 0..n
      PROVE  g[k] = IF k = 0 THEN 0
                    ELSE Align(g[k - 1] + st[n + 1 - k].width, Larger(st[n + 1 - k].width, 8))
  BY <1>5
<1>7. \A k \in 0..n : g[k] = 8 * k
  <2> DEFINE good == {k \in 0..n : g[k] = 8 * k}
  <2>1. ASSUME NEW k \in 0..n, k = 0 \/ k - 1 \in good PROVE g[k] = 8 * k
    <3>1. CASE k = 0
      BY <1>6, <3>1
    <3>2. CASE k - 1 \in good
      <4>1. k # 0 /\ g[k - 1] = 8 * (k - 1)
        BY <1>1, <3>2
      <4>2. g[k] = Align(g[k - 1] + st[n + 1 - k].width, Larger(st[n + 1 - k].width, 8))
        BY <1>6, <4>1
      <4> QED
        BY <1>3, <4>1, <4>2
    <3> QED
      BY <2>1, <3>1, <3>2
  <2>2. \A k \in 0..n : (k = 0 \/ k - 1 \in good) => k \in good
    BY <2>1
  <2>3. \A k \in 0..n : k \in good
    <3> HIDE DEF good
    <3> QED
      BY <1>1, <2>2, UpTo
  <2> QED
    BY <2>3
<1>8. StackAdjust(args) = Align(g[n], 16)
  BY <1>5 DEF StackAdjust
<1>9. n \in 0..n
  BY <1>1
<1> QED
  BY <1>7, <1>8, <1>9
-----------------------------------------------------------------------------
(* The arguments of a call: those passed in registers come first. *)
LEMMA StackedFacts ==
  ASSUME NEW args \in Seq(Arg)
  PROVE  /\ Stacked(args) \in Seq(Arg)
         /\ Len(Stacked(args)) = IF Len(args) > NPARAM_REG THEN Len(args) - NPARAM_REG ELSE 0
         /\ \A k \in 1..Len(Stacked(args)) :
              NPARAM_REG + k \in 1..Len(args) /\ Stacked(args)[k] = args[NPARAM_REG + k]
<1>1. Len(args) \in Nat /\ NPARAM_REG \in Nat
  BY Constants
<1>2. CASE Len(args) > NPARAM_REG
  <2>1. PICK m, n : m = NPARAM_REG + 1 /\ n = Len(args)
    OBVIOUS
  <2>2. m \in Int /\ n \in Int /\ m <= n /\ m >= 1
    BY <1>1, <1>2, <2>1
  <2>3. \A i \in m..n : args[i] \in Arg
    BY <2>1, <2>2, ElementOfSeq
  <2>4. Stacked(args) = SubSeq(args, m, n)
    BY <1>2, <2>1 DEF Stacked
  <2>5. /\ Stacked(args) \in Seq(Arg) /\ Len(Stacked(args)) = n - m + 1
        /\ \A i \in 1..(n - m + 1) : Stacked(args)[i] = args[m + i - 1]
    BY <2>2, <2>3, <2>4, SubSeqProperties
  <2>6. \A i \in 1..(n - m + 1) : m + i - 1 = NPARAM_REG + i /\ NPARAM_REG + i \in 1..Len(args)
    BY <1>1, <2>1, <2>2
  <2> QED
    BY <1>1, <1>2, <2>1, <2>5, <2>6
<1>3. CASE ~(Len(args) > NPARAM_REG)
  <2>1. Stacked(args) = <<>>
    BY <1>3 DEF Stacked
  <2> QED
    BY <1>3, <2>1, EmptySeq
<1> QED
  BY <1>2, <1>3

(* The arguments passed in registers are the first ones. *)
LEMMA RegisteredFacts ==
  ASSUME NEW args \in Seq(Arg)
  PROVE  /\ Len(Registered(args)) \in Nat
         /\ \A k \in 1..Len(Registered(args)) : k \in 1..Len(args)
<1>1. Len(args) \in Nat /\ NPARAM_REG \in Nat
  BY Constants
<1>2. CASE Len(args) > NPARAM_REG
  <2>1. \A i \in 1..NPARAM_REG : args[i] \in Arg
    BY <1>1, <1>2, ElementOfSeq
  <2>2. Registered(args) = SubSeq(args, 1, NPARAM_REG)
    BY <1>2 DEF Registered
  <2>3. Len(Registered(args)) = IF 1 <= NPARAM_REG THEN NPARAM_REG - 1 + 1 ELSE 0
    BY <1>1, <2>1, <2>2, SubSeqProperties
  <2> QED
    BY <1>1, <1>2, <2>3
<1>3. CASE ~(Len(args) > NPARAM_REG)
  BY <1>1, <1>3 DEF Registered
<1> QED
  BY <1>2, <1>3

(* The numbers of a frame, and its two ends. *)
LEMMA FrameFacts ==
  ASSUME NEW f, FrameOK(f)
  PROVE  /\ f.rbp \in Int /\ f.rbx \in Int /\ f.caller \in Int
         /\ f.adjust \in Nat /\ f.adjust % 16 = 0 /\ f.size \in Nat /\ f.size % 16 = 0
         /\ f.locals \in Seq(Int) /\ f.pushed \in Seq(Int) /\ f.args \in Seq(Arg)
         /\ Stacked(f.args) \in Seq(Arg)
         /\ Len(f.locals) \in Nat /\ Len(f.pushed) \in Nat /\ Len(Stacked(f.args)) \in Nat
         /\ 8 + 8 * Len(f.locals) <= f.size
         /\ 8 * Len(Stacked(f.args)) <= f.adjust
         /\ Bottom(f) \in Int /\ Bottom(f) % 8 = 0 /\ Bottom(f) <= f.rbp - 8
         /\ Upper(f) \in Int /\ Upper(f) % 8 = 0 /\ f.rbp + 16 <= Upper(f)
<1>1. /\ f.rbp \in Int /\ f.rbx \in Int /\ f.caller \in Int /\ f.adjust \in Nat /\ f.size \in Nat
      /\ f.locals \in Seq(Int) /\ f.pushed \in Seq(Int) /\ f.args \in Seq(Arg)
  BY DEF FrameOK, Frames
<1>2. Len(f.locals) \in Nat /\ Len(f.pushed) \in Nat
  BY <1>1, LenProperties
<1>3. Stacked(f.args) \in Seq(Arg) /\ Len(Stacked(f.args)) \in Nat
  BY <1>1, StackedFacts, LenProperties
<1>4. 8 + 8 * Len(f.locals) <= f.size /\ f.size % 16 = 0 /\ f.size % 8 = 0
  BY <1>2, FrameSizeFacts DEF FrameOK
<1>5. 8 * Len(Stacked(f.args)) <= f.adjust /\ f.adjust % 16 = 0 /\ f.adjust % 8 = 0
  <2>1. f.adjust = Align(8 * Len(Stacked(f.args)), 16)
    BY <1>3, AdjustFacts DEF FrameOK
  <2>2. 8 * Len(Stacked(f.args)) \in Nat
    BY <1>3
  <2> QED
    BY <2>1, <2>2, AlignFacts
<1>6. f.rbp % 8 = 0
  BY DEF FrameOK
<1>7. Bottom(f) \in Int /\ Bottom(f) % 8 = 0 /\ Bottom(f) <= f.rbp - 8
  <2>1. (f.rbp - f.size - 8 * Len(f.pushed)) % 8 = 0
    <3>1. PICK b, s, n : b = f.rbp /\ s = f.size /\ n = Len(f.pushed)
      OBVIOUS
    <3>2. b \in Int /\ s \in Int /\ n \in Int /\ b % 8 = 0 /\ s % 8 = 0
      BY <1>1, <1>2, <1>4, <1>6, <3>1
    <3>3. (b - s - 8 * n) % 8 = 0
      BY <3>2, ModFacts
    <3> QED
      BY <3>1, <3>3
  <2>2. f.rbp - f.size - 8 * Len(f.pushed) <= f.rbp - 8
    <3>1. f.rbp \in Int /\ f.size \in Nat /\ Len(f.pushed) \in Nat /\ 8 <= f.size
      BY <1>1, <1>2, <1>4
    <3> QED
      BY <3>1
  <2>3. f.rbp - f.size - 8 * Len(f.pushed) \in Int
    BY <1>1, <1>2
  <2> QED
    BY <2>1, <2>2, <2>3 DEF Bottom
<1>8. Upper(f) \in Int /\ Upper(f) % 8 = 0 /\ f.rbp + 16 <= Upper(f)
  <2>1. (f.rbp + 16 + f.adjust) % 8 = 0
    <3>1. PICK b, s : b = f.rbp /\ s = f.adjust
      OBVIOUS
    <3>2. b \in Int /\ s \in Int /\ b % 8 = 0 /\ s % 8 = 0
      BY <1>1, <1>5, <1>6, <3>1
    <3>3. (b + 16 + s) % 8 = 0
      BY <3>2, ModFacts
    <3> QED
      BY <3>1, <3>3
  <2> QED
    BY <1>1, <2>1 DEF Upper
<1> QED
  BY <1>1, <1>2, <1>3, <1>4, <1>5, <1>7, <1>8

(* Where the cells of a frame are. *)
LEMMA LocalPlace ==
  ASSUME NEW f, FrameOK(f), NEW k \in 1..Len(f.locals)
  PROVE  /\ LocalCell(f.rbp, k) = f.rbp - 8 - 8 * k
         /\ LocalCell(f.rbp, k) \in Int /\ LocalCell(f.rbp, k) % 8 = 0
         /\ f.rbp - f.size <= LocalCell(f.rbp, k) /\ LocalCell(f.rbp, k) <= f.rbp - 16
         /\ Bottom(f) <= LocalCell(f.rbp, k) /\ LocalCell(f.rbp, k) < Upper(f)
<1>1. k \in Nat /\ k >= 1 /\ k <= Len(f.locals) /\ f.rbp \in Int /\ f.rbp % 8 = 0
  BY FrameFacts DEF FrameOK
<1>2. LocalCell(f.rbp, k) = f.rbp - 8 - 8 * k
  BY <1>1 DEF LocalCell, STACKTOP
<1>3. (f.rbp - 8 - 8 * k) % 8 = 0
  BY <1>1, ModFacts
<1>4. /\ f.size \in Nat /\ 8 + 8 * Len(f.locals) <= f.size /\ Len(f.locals) \in Nat
      /\ Len(f.pushed) \in Nat /\ Upper(f) \in Int /\ f.rbp + 16 <= Upper(f)
  BY FrameFacts
<1>5. Bottom(f) <= f.rbp - f.size
  <2>1. f.rbp \in Int /\ f.size \in Nat /\ Len(f.pushed) \in Nat
    BY <1>1, <1>4
  <2> QED
    BY <2>1 DEF Bottom
<1>6. Bottom(f) \in Int
  BY FrameFacts
<1>7. f.rbp - f.size <= f.rbp - 8 - 8 * k /\ f.rbp - 8 - 8 * k <= f.rbp - 16
  <2>1. PICK l : l = Len(f.locals)
    OBVIOUS
  <2>2. k \in Nat /\ k >= 1 /\ k <= l /\ l \in Nat /\ f.rbp \in Int /\ f.size \in Nat /\ 8 + 8 * l <= f.size
    BY <1>1, <1>4, <2>1
  <2> QED
    BY <2>2
<1>8. f.rbp - 8 - 8 * k \in Int /\ f.rbp - f.size \in Int
  BY <1>1, <1>4
<1>9. f.rbp \in Int /\ Upper(f) \in Int /\ f.rbp + 16 <= Upper(f)
  BY <1>1, <1>4
<1>10. Bottom(f) <= f.rbp - 8 - 8 * k /\ f.rbp - 8 - 8 * k < Upper(f)
  BY <1>5, <1>6, <1>7, <1>8, <1>9
<1> QED
  BY <1>2, <1>3, <1>7, <1>8, <1>10

(* The callee finds its parameters above the return address, one above the *)
(* other: where the caller stored them.                                    *)
LEMMA ParameterCell ==
  ASSUME NEW f, FrameOK(f), NEW k \in 1..Len(Stacked(f.args)),
         NEW a, a = f.rbp + ParameterOffset(Stacked(f.args), k)
  PROVE  /\ a = f.rbp + 8 + 8 * k
         /\ a \in Int /\ a % 8 = 0 /\ f.rbp + 16 <= a /\ Bottom(f) <= a /\ a < Upper(f)
<1>1. k \in Nat /\ k >= 1 /\ k <= Len(Stacked(f.args)) /\ f.rbp \in Int /\ f.rbp % 8 = 0
  BY FrameFacts DEF FrameOK
<1>2. a = f.rbp + 8 + 8 * k
  BY <1>1, FrameFacts, ParameterPlace
<1>3. (f.rbp + 8 + 8 * k) % 8 = 0
  BY <1>1, ModFacts
<1>4. /\ 8 * Len(Stacked(f.args)) <= f.adjust /\ f.adjust \in Nat /\ Len(Stacked(f.args)) \in Nat
      /\ Bottom(f) \in Int /\ Bottom(f) <= f.rbp - 8
  BY FrameFacts
<1>5. f.rbp + 8 + 8 * k < f.rbp + 16 + f.adjust
  BY <1>1, <1>4
<1>6. f.rbp + 16 <= f.rbp + 8 + 8 * k /\ Bottom(f) <= f.rbp + 8 + 8 * k
  BY <1>1, <1>4
<1> QED
  BY <1>1, <1>2, <1>3, <1>5, <1>6 DEF Upper

(* The operands lie below the local variables, within the frame. *)
LEMMA PushedPlace ==
  ASSUME NEW f, FrameOK(f), NEW k \in 1..Len(f.pushed), NEW a, a = f.rbp - f.size - 8 * k
  PROVE  a \in Int /\ a <= f.rbp - f.size - 8 /\ Bottom(f) <= a /\ a < Upper(f)
<1>1. /\ k \in Nat /\ k >= 1 /\ k <= Len(f.pushed) /\ Len(f.pushed) \in Nat
      /\ f.rbp \in Int /\ f.size \in Nat /\ Upper(f) \in Int /\ f.rbp + 16 <= Upper(f)
  BY FrameFacts
<1>2. a \in Int /\ a <= f.rbp - f.size - 8 /\ f.rbp - f.size - 8 * Len(f.pushed) <= a
  BY <1>1
<1>3. a < Upper(f)
  BY <1>1, <1>2
<1> QED
  BY <1>2, <1>3 DEF Bottom
-----------------------------------------------------------------------------
(* FrameIntact, in the memory m. *)
HoldsIn(m, a, v) == a \in DOMAIN m /\ m[a] = v
IntactIn(m, f) ==
  /\ HoldsIn(m, f.rbp, f.caller)
  /\ HoldsIn(m, f.rbp + 8, ReturnAddress)
  /\ HoldsIn(m, f.rbp - 8, f.rbx)
  /\ \A k \in 1..Len(f.locals) : HoldsIn(m, LocalCell(f.rbp, k), f.locals[k])
  /\ \A k \in 1..Len(Stacked(f.args)) :
       HoldsIn(m, f.rbp + ParameterOffset(Stacked(f.args), k), Stacked(f.args)[k].value)
  /\ \A k \in 1..Len(f.pushed) : HoldsIn(m, f.rbp - f.size - 8 * k, f.pushed[k])

MemoryOK(m, sp) ==
  /\ DOMAIN m \subseteq {a \in sp..8 : a % 8 = 0}
  /\ \A a \in DOMAIN m : m[a] \in Int

(* What happens outside a frame leaves it intact. *)
LEMMA IntactKept ==
  ASSUME NEW m, NEW n, NEW f, FrameOK(f), IntactIn(m, f),
         \A a \in DOMAIN m : Bottom(f) <= a /\ a < Upper(f) => a \in DOMAIN n /\ n[a] = m[a]
  PROVE  IntactIn(n, f)
<1>1. \A a, v : HoldsIn(m, a, v) /\ Bottom(f) <= a /\ a < Upper(f) => HoldsIn(n, a, v)
  BY DEF HoldsIn
<1>2. /\ Bottom(f) <= f.rbp /\ f.rbp < Upper(f)
      /\ Bottom(f) <= f.rbp + 8 /\ f.rbp + 8 < Upper(f)
      /\ Bottom(f) <= f.rbp - 8 /\ f.rbp - 8 < Upper(f)
  BY FrameFacts
<1>3. \A k \in 1..Len(f.locals) : Bottom(f) <= LocalCell(f.rbp, k) /\ LocalCell(f.rbp, k) < Upper(f)
  BY LocalPlace
<1>4. ASSUME NEW k \in 1..Len(Stacked(f.args)), NEW a, a = f.rbp + ParameterOffset(Stacked(f.args), k)
      PROVE  Bottom(f) <= a /\ a < Upper(f)
  BY <1>4, ParameterCell
<1>5. ASSUME NEW k \in 1..Len(f.pushed), NEW a, a = f.rbp - f.size - 8 * k
      PROVE  Bottom(f) <= a /\ a < Upper(f)
  BY <1>5, PushedPlace
<1>6. \A k \in 1..Len(f.locals) : HoldsIn(n, LocalCell(f.rbp, k), f.locals[k])
  BY <1>1, <1>3 DEF IntactIn
<1>7. \A k \in 1..Len(Stacked(f.args)) :
        HoldsIn(n, f.rbp + ParameterOffset(Stacked(f.args), k), Stacked(f.args)[k].value)
  BY <1>1, <1>4 DEF IntactIn
<1>8. \A k \in 1..Len(f.pushed) : HoldsIn(n, f.rbp - f.size - 8 * k, f.pushed[k])
  BY <1>1, <1>5 DEF IntactIn
<1>9. HoldsIn(n, f.rbp, f.caller) /\ HoldsIn(n, f.rbp + 8, ReturnAddress) /\ HoldsIn(n, f.rbp - 8, f.rbx)
  BY <1>1, <1>2 DEF IntactIn
<1> QED
  BY <1>6, <1>7, <1>8, <1>9 DEF IntactIn

(* FramesIntact, frame by frame. *)
LEMMA IntactFacts == FramesIntact <=> \A i \in 1..Len(active) : IntactIn(memory, active[i])
  BY DEF FramesIntact, FrameIntact, Holds, IntactIn, HoldsIn

(* Memory stays memory when cells at and above a new rsp are written, *)
LEMMA WriteKeepsMemory ==
  ASSUME NEW m, NEW sp \in Int, NEW tp \in Int, MemoryOK(m, sp), tp <= sp, NEW c,
         \A a \in DOMAIN c : a \in tp..8 /\ a % 8 = 0 /\ c[a] \in Int
  PROVE  MemoryOK(Write(m, c), tp)
<1>1. PICK n : n = Write(m, c)
  OBVIOUS
<1>2. /\ \A a \in DOMAIN n : a \in DOMAIN c \/ (a \in DOMAIN m /\ a \notin DOMAIN c)
      /\ \A a \in DOMAIN c : n[a] = c[a]
      /\ \A a \in DOMAIN m : a \notin DOMAIN c => n[a] = m[a]
  <2>1. /\ DOMAIN n = DOMAIN m \cup DOMAIN c
        /\ \A a \in DOMAIN c : n[a] = c[a]
        /\ \A a \in DOMAIN m : a \notin DOMAIN c => n[a] = m[a]
    BY <1>1 DEF Write
  <2> QED
    BY <2>1
<1>3. \A a \in DOMAIN m : a \in tp..8 /\ a % 8 = 0 /\ m[a] \in Int
  BY DEF MemoryOK
<1>4. \A a \in DOMAIN n : a \in tp..8 /\ a % 8 = 0 /\ n[a] \in Int
  BY <1>2, <1>3
<1> QED
  BY <1>1, <1>4 DEF MemoryOK

(* and when what lies below a new rsp is forgotten. *)
LEMMA AboveKeepsMemory ==
  ASSUME NEW m, NEW sp \in Int, NEW tp \in Int, MemoryOK(m, sp), sp <= tp
  PROVE  MemoryOK(Above(m, tp), tp)
<1>1. PICK n : n = Above(m, tp)
  OBVIOUS
<1>2. \A a \in DOMAIN n : a \in DOMAIN m /\ a >= tp /\ n[a] = m[a]
  <2>1. DOMAIN n = {a \in DOMAIN m : a >= tp} /\ \A a \in DOMAIN n : n[a] = m[a]
    BY <1>1 DEF Above
  <2> QED
    BY <2>1
<1> QED
  BY <1>1, <1>2 DEF MemoryOK
(* The registers, the memory and the record of the active functions. *)
Consistent(sp, bp, bx, m, s) ==
  /\ sp \in Int /\ bp \in Int /\ bx \in Int
  /\ MemoryOK(m, sp)
  /\ StackOK(s)
  /\ bp = Top(s).rbp
  /\ sp = Bottom(Top(s))
  /\ \A i \in 1..Len(s) : IntactIn(m, s[i])

IInv == Consistent(rsp, rbp, rbx, memory, active)
-----------------------------------------------------------------------------
(* Steps on the stack of active functions. *)
LEMMA TopFacts ==
  ASSUME NEW s, StackOK(s)
  PROVE  /\ Len(s) \in Nat /\ Len(s) >= 1 /\ Len(s) \in 1..Len(s) /\ 1 \in 1..Len(s)
         /\ Top(s) = s[Len(s)] /\ FrameOK(Top(s)) /\ s \in Seq(Frames)
         /\ \A i \in 1..Len(s) : i = Len(s) \/ Upper(Top(s)) <= Bottom(s[i])
         /\ Upper(Top(s)) <= 16 /\ Top(s).rbp <= 0
<1>1. s \in Seq(Frames) /\ s # <<>>
  BY DEF StackOK
<1>2. Len(s) \in Nat /\ Len(s) >= 1
  BY <1>1, EmptySeq, LenProperties
<1>3. Len(s) \in 1..Len(s) /\ 1 \in 1..Len(s) /\ Top(s) = s[Len(s)]
  BY <1>2 DEF Top
<1>4. FrameOK(Top(s)) /\ FrameOK(s[1])
  BY <1>3 DEF StackOK
<1>5. \A i \in 1..Len(s) : i = Len(s) \/ Upper(Top(s)) <= Bottom(s[i])
  BY <1>2, <1>3 DEF StackOK
<1>6. Upper(Top(s)) <= 16
  <2>1. s[1].rbp = 0 /\ Upper(s[1]) = 16
    BY DEF StackOK, Upper
  <2>2. CASE Len(s) = 1
    BY <1>3, <2>1, <2>2
  <2>3. CASE Len(s) # 1
    <3>1. Upper(Top(s)) <= Bottom(s[1])
      BY <1>3, <1>5, <2>3
    <3>2. Bottom(s[1]) \in Int /\ Bottom(s[1]) <= s[1].rbp - 8 /\ Upper(Top(s)) \in Int
      BY <1>4, FrameFacts
    <3> QED
      BY <2>1, <3>1, <3>2
  <2> QED
    BY <2>2, <2>3
<1>7. Top(s).rbp <= 0
  BY <1>4, <1>6, FrameFacts
<1> QED
  BY <1>1, <1>2, <1>3, <1>4, <1>5, <1>6, <1>7

(* The running function changes its own frame. *)
LEMMA TopReplaced ==
  ASSUME NEW s, StackOK(s), NEW f, FrameOK(f),
         f.rbp = Top(s).rbp, f.caller = Top(s).caller, f.adjust = Top(s).adjust,
         NEW t, t = SetTop(s, f)
  PROVE  /\ StackOK(t) /\ Len(t) = Len(s) /\ Top(t) = f
         /\ \A i \in 1..Len(s) : t[i] = IF i = Len(s) THEN f ELSE s[i]
<1>1. /\ Len(s) \in Nat /\ Len(s) >= 1 /\ Len(s) \in 1..Len(s)
      /\ Top(s) = s[Len(s)] /\ s \in Seq(Frames) /\ f \in Frames
  BY TopFacts DEF FrameOK
<1>2. /\ t \in Seq(Frames) /\ Len(t) = Len(s)
      /\ \A i \in 1..Len(s) : t[i] = IF i = Len(s) THEN f ELSE s[i]
  BY <1>1, ExceptSeq DEF SetTop
<1>3. Upper(f) = Upper(Top(s))
  BY DEF Upper
<1>4. \A i \in 1..Len(s) : /\ FrameOK(t[i]) /\ Upper(t[i]) = Upper(s[i])
                           /\ t[i].caller = s[i].caller /\ t[i].rbp = s[i].rbp
                           /\ t[i].adjust = s[i].adjust
                           /\ i # Len(s) => Bottom(t[i]) = Bottom(s[i])
  BY <1>1, <1>2, <1>3 DEF StackOK
<1>5. \A i, j \in 1..Len(s) : i < j => i # Len(s)
  BY <1>1
<1>6. \A i, j \in 1..Len(s) : j = i + 1 => i # Len(s)
  BY <1>1
<1>7. t # <<>> /\ Top(t) = f
  BY <1>1, <1>2 DEF Top
<1>8. \A i, j \in 1..Len(t) : j = i + 1 => t[j].caller = t[i].rbp /\ Upper(t[j]) = Bottom(t[i])
  BY <1>2, <1>4, <1>6 DEF StackOK
<1>9. \A i, j \in 1..Len(t) : i < j => Upper(t[j]) <= Bottom(t[i])
  BY <1>2, <1>4, <1>5 DEF StackOK
<1>10. t[1].rbp = 0 /\ t[1].adjust = 0
  BY <1>1, <1>4 DEF StackOK
<1> QED
  BY <1>2, <1>4, <1>7, <1>8, <1>9, <1>10 DEF StackOK

(* A function is called. *)
App(s, f) == Append(s, f)

(* The frames abut when one is added that begins where the last one ends. *)
LEMMA FrameAppended ==
  ASSUME NEW s, StackOK(s), NEW f, FrameOK(f),
         f.caller = Top(s).rbp, Upper(f) = Bottom(Top(s)),
         NEW t, t = App(s, f)
  PROVE  /\ StackOK(t) /\ Len(t) = Len(s) + 1 /\ Top(t) = f
         /\ \A i \in 1..Len(s) : t[i] = s[i] /\ Upper(f) <= Bottom(s[i])
         /\ t[Len(s) + 1] = f
<1>1. /\ Len(s) \in Nat /\ Len(s) >= 1 /\ Len(s) \in 1..Len(s) /\ 1 \in 1..Len(s)
      /\ Top(s) = s[Len(s)] /\ s \in Seq(Frames) /\ f \in Frames /\ FrameOK(Top(s))
  BY TopFacts DEF FrameOK
<1>2. /\ t \in Seq(Frames) /\ Len(t) = Len(s) + 1 /\ t # <<>>
      /\ t[Len(s) + 1] = f /\ \A i \in 1..Len(s) : t[i] = s[i]
  BY <1>1, AppendProperties DEF App
<1>3. Top(t) = f
  BY <1>2 DEF Top
<1>4. \A i \in 1..(Len(s) + 1) : i \in 1..Len(s) \/ i = Len(s) + 1
  BY <1>1
<1>5. \A i \in 1..Len(s) : Upper(f) <= Bottom(s[i])
  <2>1. Bottom(Top(s)) <= Upper(Top(s))
    BY <1>1, FrameFacts
  <2>2. \A i \in 1..Len(s) : Bottom(s[i]) \in Int
    BY FrameFacts DEF StackOK
  <2>3. \A i \in 1..Len(s) : i = Len(s) \/ Upper(Top(s)) <= Bottom(s[i])
    BY TopFacts
  <2>4. Upper(Top(s)) \in Int /\ Bottom(Top(s)) \in Int
    BY <1>1, FrameFacts
  <2>5. ASSUME NEW i \in 1..Len(s), i # Len(s) PROVE Upper(f) <= Bottom(s[i])
    BY <2>1, <2>2, <2>3, <2>4, <2>5
  <2> QED
    BY <1>1, <2>4, <2>5
<1>6. \A i \in 1..Len(t) : FrameOK(t[i])
  BY <1>2, <1>4 DEF StackOK
<1>7. t[1].rbp = 0 /\ t[1].adjust = 0
  BY <1>1, <1>2 DEF StackOK
<1>8. ASSUME NEW i \in 1..(Len(s) + 1), NEW j \in 1..(Len(s) + 1), j = i + 1
      PROVE  t[j].caller = t[i].rbp /\ Upper(t[j]) = Bottom(t[i])
  <2>1. i \in 1..Len(s)
    BY <1>1, <1>8
  <2>2. CASE j \in 1..Len(s)
    BY <1>2, <1>8, <2>1, <2>2 DEF StackOK
  <2>3. CASE j = Len(s) + 1
    <3>1. i = Len(s)
      BY <1>1, <1>8, <2>3
    <3> QED
      BY <1>1, <1>2, <2>3, <3>1
  <2> QED
    BY <1>4, <2>2, <2>3
<1>9. ASSUME NEW i \in 1..(Len(s) + 1), NEW j \in 1..(Len(s) + 1), i < j
      PROVE  Upper(t[j]) <= Bottom(t[i])
  <2>1. i \in 1..Len(s)
    BY <1>1, <1>9
  <2>2. CASE j \in 1..Len(s)
    BY <1>2, <1>9, <2>1, <2>2 DEF StackOK
  <2>3. CASE j = Len(s) + 1
    BY <1>2, <1>5, <2>1, <2>3
  <2> QED
    BY <1>4, <2>2, <2>3
<1> QED
  BY <1>2, <1>3, <1>5, <1>6, <1>7, <1>8, <1>9 DEF StackOK

(* A function returns. *)
LEMMA FramePopped ==
  ASSUME NEW s, StackOK(s), Len(s) > 1, NEW t, t = Pop(s)
  PROVE  /\ StackOK(t) /\ Len(t) = Len(s) - 1
         /\ Len(t) \in 1..Len(s) /\ Top(t) = s[Len(t)]
         /\ \A i \in 1..Len(t) : i \in 1..Len(s) /\ t[i] = s[i]
         /\ Top(s).caller = Top(t).rbp /\ Upper(Top(s)) = Bottom(Top(t))
<1>1. /\ Len(s) \in Nat /\ Len(s) >= 1 /\ Len(s) \in 1..Len(s)
      /\ Top(s) = s[Len(s)] /\ s \in Seq(Frames)
  BY TopFacts
<1>2. PICK k : k = Len(s) - 1
  OBVIOUS
<1>3. k \in Nat /\ k >= 1 /\ k + 1 = Len(s) /\ k \in 1..Len(s) /\ 1 \in 1..k
  BY <1>1, <1>2
<1>4. \A i \in 1..k : s[i] \in Frames
  BY <1>1, <1>3, ElementOfSeq
<1>5. t = SubSeq(s, 1, k)
  BY <1>2 DEF Pop
<1>6. /\ t \in Seq(Frames) /\ Len(t) = k - 1 + 1
      /\ \A i \in 1..(k - 1 + 1) : t[i] = s[1 + i - 1]
  BY <1>3, <1>4, <1>5, SubSeqProperties
<1>7. k - 1 + 1 = k /\ \A i \in 1..k : 1 + i - 1 = i /\ i \in 1..Len(s)
  BY <1>3
<1>8. t \in Seq(Frames) /\ Len(t) = k /\ \A i \in 1..k : t[i] = s[i] /\ i \in 1..Len(s)
  BY <1>6, <1>7
<1>9. t # <<>> /\ Top(t) = s[k]
  BY <1>3, <1>8 DEF Top
<1>10. s[k + 1].caller = s[k].rbp /\ Upper(s[k + 1]) = Bottom(s[k])
  BY <1>1, <1>3 DEF StackOK
<1>11. StackOK(t)
  <2>1. \A i \in 1..Len(t) : FrameOK(t[i])
    BY <1>8 DEF StackOK
  <2>2. t[1].rbp = 0 /\ t[1].adjust = 0
    BY <1>3, <1>8 DEF StackOK
  <2>3. \A i, j \in 1..Len(t) : j = i + 1 => t[j].caller = t[i].rbp /\ Upper(t[j]) = Bottom(t[i])
    BY <1>8 DEF StackOK
  <2>4. \A i, j \in 1..Len(t) : i < j => Upper(t[j]) <= Bottom(t[i])
    BY <1>8 DEF StackOK
  <2> QED
    BY <1>8, <1>9, <2>1, <2>2, <2>3, <2>4 DEF StackOK
<1> QED
  BY <1>1, <1>2, <1>3, <1>8, <1>9, <1>10, <1>11
-----------------------------------------------------------------------------
(* Operands are a cell apart. *)
LEMMA NextCell ==
  ASSUME NEW b \in Int, NEW z \in Int, NEW l \in Int
  PROVE  b - z - 8 * l = (b - z - 8 * (l + 1)) + 8
  OBVIOUS

(* What is at and above b is still there in n. *)
KeptFrom(b, m, n) == \A a \in DOMAIN m : b <= a => a \in DOMAIN n /\ n[a] = m[a]

(* A step of the running function on its own frame and above it. *)
LEMMA TopStep ==
  ASSUME NEW sp, NEW bp, NEW bx, NEW m, NEW s, Consistent(sp, bp, bx, m, s),
         NEW f, FrameOK(f), f.rbp = Top(s).rbp, f.caller = Top(s).caller, f.adjust = Top(s).adjust,
         NEW tp, tp = Bottom(f), NEW n, MemoryOK(n, tp), IntactIn(n, f),
         KeptFrom(Upper(Top(s)), m, n),
         NEW cx \in Int
  PROVE  Consistent(tp, bp, cx, n, SetTop(s, f))
<1>1. PICK t : t = SetTop(s, f)
  OBVIOUS
<1>2. StackOK(s) /\ \A i \in 1..Len(s) : IntactIn(m, s[i])
  BY DEF Consistent
<1>3. /\ StackOK(t) /\ Len(t) = Len(s) /\ Top(t) = f
      /\ \A i \in 1..Len(s) : t[i] = IF i = Len(s) THEN f ELSE s[i]
  BY <1>1, <1>2, TopReplaced
<1>4. ASSUME NEW i \in 1..Len(s), i # Len(s) PROVE IntactIn(n, s[i])
  <2>1. Upper(Top(s)) <= Bottom(s[i]) /\ FrameOK(Top(s))
    BY <1>2, <1>4, TopFacts
  <2>2. FrameOK(s[i]) /\ IntactIn(m, s[i])
    BY <1>2 DEF StackOK
  <2>3. Bottom(s[i]) \in Int /\ Upper(Top(s)) \in Int
    BY <2>1, <2>2, FrameFacts
  <2>4. \A a \in DOMAIN m : a \in Int
    BY DEF Consistent, MemoryOK
  <2>5. \A a \in DOMAIN m : Bottom(s[i]) <= a /\ a < Upper(s[i]) => a \in DOMAIN n /\ n[a] = m[a]
    BY <2>1, <2>3, <2>4 DEF KeptFrom
  <2> QED
    BY <2>2, <2>5, IntactKept
<1>5. \A i \in 1..Len(t) : IntactIn(n, t[i])
  BY <1>3, <1>4
<1>6. Bottom(f) \in Int
  BY FrameFacts
<1>7. bp = f.rbp /\ bp \in Int
  BY FrameFacts DEF Consistent
<1> QED
  BY <1>1, <1>3, <1>5, <1>6, <1>7 DEF Consistent

(* What the running function may rely on. *)
LEMMA RunningFacts ==
  ASSUME NEW sp, NEW bp, NEW bx, NEW m, NEW s, Consistent(sp, bp, bx, m, s)
  PROVE  /\ sp \in Int /\ bp \in Int /\ bx \in Int /\ sp % 8 = 0 /\ sp <= bp - 8 /\ bp <= 0
         /\ StackOK(s) /\ FrameOK(Top(s)) /\ IntactIn(m, Top(s)) /\ MemoryOK(m, sp)
         /\ bp = Top(s).rbp /\ sp = Bottom(Top(s)) /\ Upper(Top(s)) <= 16
         /\ \A a \in DOMAIN m : a \in Int /\ sp <= a /\ m[a] \in Int
<1>1. /\ sp \in Int /\ bp \in Int /\ bx \in Int /\ StackOK(s) /\ MemoryOK(m, sp)
      /\ bp = Top(s).rbp /\ sp = Bottom(Top(s))
      /\ \A i \in 1..Len(s) : IntactIn(m, s[i])
  BY DEF Consistent
<1>2. /\ Len(s) \in 1..Len(s) /\ Top(s) = s[Len(s)] /\ FrameOK(Top(s))
      /\ Upper(Top(s)) <= 16 /\ Top(s).rbp <= 0
  BY <1>1, TopFacts
<1>3. IntactIn(m, Top(s))
  BY <1>1, <1>2
<1>4. sp % 8 = 0 /\ sp <= bp - 8
  BY <1>1, <1>2, FrameFacts
<1>5. \A a \in DOMAIN m : a \in Int /\ sp <= a /\ m[a] \in Int
  BY <1>1 DEF MemoryOK
<1> QED
  BY <1>1, <1>2, <1>3, <1>4, <1>5

(* A push keeps stack, registers and frames consistent, *)
LEMMA PushKeeps ==
  ASSUME NEW sp, NEW bp, NEW bx, NEW m, NEW s, Consistent(sp, bp, bx, m, s),
         NEW v \in Int, NEW f, f = [Top(s) EXCEPT !.pushed = Append(Top(s).pushed, v)],
         NEW n, n = Write(m, [a \in {sp - 8} |-> v])
  PROVE  Consistent(sp - 8, bp, bx, n, SetTop(s, f))
<1> PICK top : top = Top(s)
  OBVIOUS
<1>1. /\ sp \in Int /\ bp \in Int /\ bx \in Int /\ sp % 8 = 0 /\ sp <= bp - 8 /\ bp <= 0
      /\ StackOK(s) /\ FrameOK(top) /\ IntactIn(m, top) /\ MemoryOK(m, sp)
      /\ bp = top.rbp /\ sp = Bottom(top) /\ Upper(top) <= 16
      /\ \A a \in DOMAIN m : a \in Int /\ sp <= a /\ m[a] \in Int
  BY RunningFacts
<1>2. top \in Frames /\ top.pushed \in Seq(Int) /\ Len(top.pushed) \in Nat /\ top.size \in Nat
  BY <1>1, FrameFacts DEF FrameOK
<1>3. PICK p : p = Append(top.pushed, v)
  OBVIOUS
<1>4. /\ p \in Seq(Int) /\ Len(p) = Len(top.pushed) + 1 /\ p[Len(top.pushed) + 1] = v
      /\ \A i \in 1..Len(top.pushed) : p[i] = top.pushed[i]
  BY <1>2, <1>3, AppendProperties
<1>5. /\ f \in Frames /\ f.rbp = top.rbp /\ f.rbx = top.rbx /\ f.caller = top.caller
      /\ f.adjust = top.adjust /\ f.args = top.args /\ f.locals = top.locals
      /\ f.size = top.size /\ f.pushed = p
  BY <1>2, <1>3, <1>4 DEF Frames
<1>6. FrameOK(f)
  BY <1>1, <1>5 DEF FrameOK
<1>7. Bottom(f) = sp - 8
  <2>1. Bottom(f) = top.rbp - top.size - 8 * (Len(top.pushed) + 1)
    BY <1>4, <1>5 DEF Bottom
  <2>2. sp = top.rbp - top.size - 8 * Len(top.pushed)
    BY <1>1 DEF Bottom
  <2>3. top.rbp \in Int /\ top.size \in Int /\ Len(top.pushed) \in Int
    BY <1>1, <1>2
  <2> QED
    BY <2>1, <2>2, <2>3
<1>8. \A a \in DOMAIN m : a \in DOMAIN n /\ n[a] = m[a]
  BY <1>1 DEF Write
<1>9. sp - 8 \in DOMAIN n /\ n[sp - 8] = v
  BY DEF Write
<1>10. IntactIn(n, top)
  BY <1>1, <1>8, IntactKept
<1>11. IntactIn(n, f)
  <2>1. ASSUME NEW k \in 1..Len(f.pushed) PROVE HoldsIn(n, f.rbp - f.size - 8 * k, f.pushed[k])
    <3>1. CASE k = Len(top.pushed) + 1
      <4>1. f.rbp - f.size - 8 * k = sp - 8
        BY <1>5, <1>7, <3>1, <1>4 DEF Bottom
      <4> QED
        BY <1>4, <1>5, <1>9, <3>1, <4>1 DEF HoldsIn
    <3>2. CASE k # Len(top.pushed) + 1
      <4>1. k \in 1..Len(top.pushed)
        BY <1>2, <1>4, <1>5, <3>2
      <4> QED
        BY <1>4, <1>5, <1>10, <4>1 DEF IntactIn
    <3> QED
      BY <3>1, <3>2
  <2> QED
    BY <1>5, <1>10, <2>1 DEF IntactIn
<1>12. MemoryOK(n, sp - 8)
  <2>1. (sp - 8) % 8 = 0 /\ sp - 8 \in (sp - 8)..8
    BY <1>1
  <2> QED
    BY <1>1, <2>1, WriteKeepsMemory
<1>13. bx \in Int /\ f.rbp = Top(s).rbp /\ f.caller = Top(s).caller /\ f.adjust = Top(s).adjust
  BY <1>1, <1>5
<1>14. PICK tp : tp = sp - 8
  OBVIOUS
<1>15. tp = Bottom(f) /\ MemoryOK(n, tp)
  BY <1>7, <1>12, <1>14
<1>16. KeptFrom(Upper(Top(s)), m, n)
  BY <1>8 DEF KeptFrom
<1>17. Consistent(tp, bp, bx, n, SetTop(s, f))
  BY <1>6, <1>11, <1>13, <1>15, <1>16, TopStep
<1> QED
  BY <1>14, <1>17

(* and so does a pop, into rax or into rbx, *)
LEMMA PopKeeps ==
  ASSUME NEW sp, NEW bp, NEW bx, NEW m, NEW s, Consistent(sp, bp, bx, m, s), Top(s).pushed # <<>>,
         NEW f, f = [Top(s) EXCEPT !.pushed = Pop(Top(s).pushed)],
         NEW n, n = Above(m, sp + 8), NEW cx, cx = bx \/ cx = m[sp]
  PROVE  Consistent(sp + 8, bp, cx, n, SetTop(s, f))
<1> PICK top : top = Top(s)
  OBVIOUS
<1>1. /\ sp \in Int /\ bp \in Int /\ bx \in Int /\ sp % 8 = 0 /\ sp <= bp - 8 /\ bp <= 0
      /\ StackOK(s) /\ FrameOK(top) /\ IntactIn(m, top) /\ MemoryOK(m, sp)
      /\ bp = top.rbp /\ sp = Bottom(top) /\ Upper(top) <= 16
      /\ \A a \in DOMAIN m : a \in Int /\ sp <= a /\ m[a] \in Int
  BY RunningFacts
<1>2. top \in Frames /\ top.pushed \in Seq(Int) /\ Len(top.pushed) \in Nat /\ top.size \in Nat
  BY <1>1, FrameFacts DEF FrameOK
<1>3. PICK p, len : p = Pop(top.pushed) /\ len = Len(top.pushed) - 1
  OBVIOUS
<1>4. len \in Nat /\ len + 1 = Len(top.pushed) /\ len + 1 \in 1..Len(top.pushed)
  BY <1>2, <1>3, EmptySeq
<1>5. /\ p \in Seq(Int) /\ Len(p) = len
      /\ \A i \in 1..len : p[i] = top.pushed[i] /\ i \in 1..Len(top.pushed)
  <2>1. \A i \in 1..len : top.pushed[i] \in Int
    BY <1>2, <1>4, ElementOfSeq
  <2>2. p = SubSeq(top.pushed, 1, len)
    BY <1>3 DEF Pop
  <2>3. /\ p \in Seq(Int) /\ Len(p) = (IF 1 <= len THEN len - 1 + 1 ELSE 0)
        /\ \A i \in 1..(len - 1 + 1) : p[i] = top.pushed[1 + i - 1]
    BY <1>4, <2>1, <2>2, SubSeqProperties
  <2>4. len - 1 + 1 = len /\ \A i \in 1..len : 1 + i - 1 = i /\ i \in 1..Len(top.pushed)
    BY <1>4
  <2>5. Len(p) = len
    BY <1>4, <2>3
  <2>6. \A i \in 1..len : p[i] = top.pushed[i]
    BY <2>3, <2>4
  <2> QED
    BY <2>3, <2>4, <2>5, <2>6
<1>6. /\ f \in Frames /\ f.rbp = top.rbp /\ f.rbx = top.rbx /\ f.caller = top.caller
      /\ f.adjust = top.adjust /\ f.args = top.args /\ f.locals = top.locals
      /\ f.size = top.size /\ f.pushed = p
  BY <1>2, <1>3, <1>5 DEF Frames
<1>7. FrameOK(f)
  BY <1>1, <1>6 DEF FrameOK
<1>8. Bottom(f) = sp + 8
  <2>1. Bottom(f) = top.rbp - top.size - 8 * len
    BY <1>5, <1>6 DEF Bottom
  <2>2. sp = top.rbp - top.size - 8 * (len + 1)
    BY <1>1, <1>4 DEF Bottom
  <2>3. bp - top.size - 8 * len = (bp - top.size - 8 * (len + 1)) + 8
    <3>1. bp \in Int /\ top.size \in Int /\ len \in Int
      BY <1>1, <1>2, <1>4
    <3> QED
      BY <3>1, NextCell
  <2> QED
    BY <1>1, <2>1, <2>2, <2>3
<1>9. IntactIn(m, f)
  BY <1>1, <1>5, <1>6 DEF IntactIn
<1>10. \A a \in DOMAIN m : sp + 8 <= a => a \in DOMAIN n /\ n[a] = m[a]
  BY <1>1 DEF Above
<1>11. IntactIn(n, f)
  BY <1>7, <1>8, <1>9, <1>10, IntactKept
<1>12. MemoryOK(n, sp + 8)
  BY <1>1, AboveKeepsMemory
<1>13. \A a \in DOMAIN m : Upper(top) <= a => a \in DOMAIN n /\ n[a] = m[a]
  <2>1. Upper(top) \in Int /\ sp + 8 <= Upper(top)
    BY <1>1, FrameFacts
  <2> QED
    BY <1>1, <1>10, <2>1
<1>14. cx \in Int
  <2>1. HoldsIn(m, top.rbp - top.size - 8 * (len + 1), top.pushed[len + 1])
    BY <1>1, <1>4 DEF IntactIn
  <2>2. sp = top.rbp - top.size - 8 * (len + 1)
    BY <1>1, <1>4 DEF Bottom
  <2>3. m[sp] \in Int
    BY <1>1, <2>1, <2>2 DEF HoldsIn
  <2> QED
    BY <1>1, <2>3
<1>15. f.rbp = Top(s).rbp /\ f.caller = Top(s).caller /\ f.adjust = Top(s).adjust
  BY <1>6
<1>19. KeptFrom(Upper(Top(s)), m, n)
  BY <1>13 DEF KeptFrom
<1>16. PICK tp : tp = sp + 8
  OBVIOUS
<1>17. tp = Bottom(f) /\ MemoryOK(n, tp)
  BY <1>8, <1>12, <1>16
<1>18. Consistent(tp, bp, cx, n, SetTop(s, f))
  BY <1>7, <1>11, <1>19, <1>14, <1>15, <1>17, TopStep
<1> QED
  BY <1>16, <1>18

(* A cell of the running function's own is written. *)
LEMMA CellWritten ==
  ASSUME NEW sp, NEW bp, NEW bx, NEW m, NEW s, Consistent(sp, bp, bx, m, s),
         NEW c, c \in Int, c % 8 = 0, sp <= c, c < Upper(Top(s)), NEW v \in Int,
         NEW n, n = Write(m, [a \in {c} |-> v]),
         NEW f, FrameOK(f), f.rbp = Top(s).rbp, f.caller = Top(s).caller, f.adjust = Top(s).adjust,
         Bottom(f) = sp, IntactIn(n, f)
  PROVE  Consistent(sp, bp, c, n, SetTop(s, f))
<1>1. /\ sp \in Int /\ MemoryOK(m, sp) /\ Upper(Top(s)) \in Int /\ Upper(Top(s)) <= 16
      /\ \A a \in DOMAIN m : a \in Int
  BY RunningFacts, FrameFacts
<1>2. c \in sp..8
  BY <1>1
<1>3. MemoryOK(n, sp)
  BY <1>1, <1>2, WriteKeepsMemory
<1>4. KeptFrom(Upper(Top(s)), m, n)
  <2>1. ASSUME NEW a \in DOMAIN m, Upper(Top(s)) <= a PROVE a \in DOMAIN n /\ n[a] = m[a]
    <3>1. a # c
      BY <1>1, <2>1
    <3> QED
      BY <3>1 DEF Write
  <2> QED
    BY <2>1 DEF KeptFrom
<1> QED
  BY <1>3, <1>4, TopStep

(* an assignment to a local variable, *)
LEMMA AssignKeeps ==
  ASSUME NEW sp, NEW bp, NEW bx, NEW m, NEW s, Consistent(sp, bp, bx, m, s),
         NEW k \in 1..Len(Top(s).locals), NEW v \in Int,
         NEW f, f = [Top(s) EXCEPT !.locals[k] = v],
         NEW n, n = Write(m, [a \in {LocalCell(bp, k)} |-> v])
  PROVE  Consistent(sp, bp, LocalCell(bp, k), n, SetTop(s, f))
<1> PICK top : top = Top(s)
  OBVIOUS
<1>1. /\ sp \in Int /\ bp \in Int /\ sp % 8 = 0
      /\ StackOK(s) /\ FrameOK(top) /\ IntactIn(m, top)
      /\ bp = top.rbp /\ sp = Bottom(top)
  BY RunningFacts
<1>2. /\ top \in Frames /\ top.locals \in Seq(Int) /\ top.size \in Nat
      /\ 8 + 8 * Len(top.locals) <= top.size
  BY <1>1, FrameFacts DEF FrameOK
<1>3. PICK p, c : p = [top.locals EXCEPT ![k] = v] /\ c = LocalCell(bp, k)
  OBVIOUS
<1>4. /\ p \in Seq(Int) /\ Len(p) = Len(top.locals)
      /\ \A i \in 1..Len(top.locals) : p[i] = IF i = k THEN v ELSE top.locals[i]
  BY <1>2, <1>3, ExceptSeq
<1>5. /\ f \in Frames /\ f.rbp = top.rbp /\ f.rbx = top.rbx /\ f.caller = top.caller
      /\ f.adjust = top.adjust /\ f.args = top.args /\ f.locals = p
      /\ f.size = top.size /\ f.pushed = top.pushed
  BY <1>2, <1>3, <1>4 DEF Frames
<1>6. FrameOK(f) /\ Bottom(f) = sp
  BY <1>1, <1>4, <1>5 DEF FrameOK, Bottom
<1>7. /\ c = bp - 8 - 8 * k /\ c \in Int /\ c % 8 = 0 /\ k \in Int
      /\ bp - top.size <= c /\ c <= bp - 16 /\ sp <= c /\ c < Upper(top)
  BY <1>1, <1>3, LocalPlace
<1>8. n = Write(m, [a \in {c} |-> v])
  BY <1>3
<1>9. \A a, w : HoldsIn(m, a, w) /\ a # c => HoldsIn(n, a, w)
  BY <1>8 DEF HoldsIn, Write
<1>10. HoldsIn(n, c, v)
  BY <1>8 DEF HoldsIn, Write
<1>11. IntactIn(n, f)
  <2>1. HoldsIn(n, f.rbp, f.caller) /\ HoldsIn(n, f.rbp + 8, ReturnAddress) /\ HoldsIn(n, f.rbp - 8, f.rbx)
    <3>1. bp # c /\ bp + 8 # c /\ bp - 8 # c
      BY <1>1, <1>7
    <3> QED
      BY <1>1, <1>5, <1>9, <3>1 DEF IntactIn
  <2>2. ASSUME NEW i \in 1..Len(f.locals) PROVE HoldsIn(n, LocalCell(f.rbp, i), f.locals[i])
    <3>1. i \in 1..Len(top.locals)
      BY <1>4, <1>5
    <3>2. CASE i = k
      BY <1>1, <1>3, <1>4, <1>5, <1>10, <3>1, <3>2
    <3>3. CASE i # k
      <4>1. LocalCell(top.rbp, i) = bp - 8 - 8 * i /\ i \in Int
        BY <1>1, <3>1, LocalPlace
      <4>2. LocalCell(top.rbp, i) # c
        BY <1>1, <1>7, <3>3, <4>1
      <4>3. HoldsIn(m, LocalCell(top.rbp, i), top.locals[i])
        BY <1>1, <3>1 DEF IntactIn
      <4> QED
        BY <1>4, <1>5, <1>9, <3>1, <3>3, <4>2, <4>3
    <3> QED
      BY <3>2, <3>3
  <2>3. ASSUME NEW i \in 1..Len(Stacked(f.args))
        PROVE  HoldsIn(n, f.rbp + ParameterOffset(Stacked(f.args), i), Stacked(f.args)[i].value)
    <3>1. PICK a : a = top.rbp + ParameterOffset(Stacked(top.args), i)
      OBVIOUS
    <3>2. i \in 1..Len(Stacked(top.args))
      BY <1>5
    <3>3. a \in Int /\ top.rbp + 16 <= a
      BY <1>1, <3>1, <3>2, ParameterCell
    <3>4. a # c
      BY <1>1, <1>7, <3>3
    <3>5. HoldsIn(m, a, Stacked(top.args)[i].value)
      BY <1>1, <3>1, <3>2 DEF IntactIn
    <3> QED
      BY <1>5, <1>9, <3>1, <3>4, <3>5
  <2>4. ASSUME NEW i \in 1..Len(f.pushed) PROVE HoldsIn(n, f.rbp - f.size - 8 * i, f.pushed[i])
    <3>1. PICK a : a = top.rbp - top.size - 8 * i
      OBVIOUS
    <3>2. i \in 1..Len(top.pushed)
      BY <1>5
    <3>3. a \in Int /\ a <= top.rbp - top.size - 8
      BY <1>1, <3>1, <3>2, PushedPlace
    <3>4. a # c
      <4>1. /\ a \in Int /\ c \in Int /\ bp \in Int /\ top.size \in Nat
            /\ a <= bp - top.size - 8 /\ bp - top.size <= c
        BY <1>1, <1>2, <1>7, <3>3
      <4> QED
        BY <4>1
    <3>5. HoldsIn(m, a, top.pushed[i])
      BY <1>1, <3>1, <3>2 DEF IntactIn
    <3> QED
      BY <1>5, <1>9, <3>1, <3>4, <3>5
  <2> QED
    BY <2>1, <2>2, <2>3, <2>4 DEF IntactIn
<1>12. f.rbp = Top(s).rbp /\ f.caller = Top(s).caller /\ f.adjust = Top(s).adjust /\ c < Upper(Top(s))
  BY <1>5, <1>7
<1>13. Consistent(sp, bp, c, n, SetTop(s, f))
  BY <1>6, <1>7, <1>8, <1>11, <1>12, CellWritten
<1> QED
  BY <1>3, <1>13

(* and one to a parameter on the stack. *)
LEMMA AssignParameterKeeps ==
  ASSUME NEW sp, NEW bp, NEW bx, NEW m, NEW s, Consistent(sp, bp, bx, m, s),
         NEW k \in 1..Len(Stacked(Top(s).args)), NEW v \in Int,
         NEW f, f = [Top(s) EXCEPT !.args[NPARAM_REG + k].value = v],
         NEW c, c = bp + ParameterOffset(Stacked(Top(s).args), k),
         NEW n, n = Write(m, [a \in {c} |-> v])
  PROVE  Consistent(sp, bp, c, n, SetTop(s, f))
<1> PICK top : top = Top(s)
  OBVIOUS
<1>1. /\ sp \in Int /\ bp \in Int /\ sp % 8 = 0
      /\ StackOK(s) /\ FrameOK(top) /\ IntactIn(m, top)
      /\ bp = top.rbp /\ sp = Bottom(top)
  BY RunningFacts
<1>2. /\ top \in Frames /\ top.args \in Seq(Arg) /\ Stacked(top.args) \in Seq(Arg)
      /\ Len(Stacked(top.args)) \in Nat /\ top.size \in Nat
  BY <1>1, FrameFacts DEF FrameOK
<1>3. PICK at : at = NPARAM_REG + k
  OBVIOUS
<1>4. at \in 1..Len(top.args) /\ Stacked(top.args)[k] = top.args[at]
  BY <1>2, <1>3, StackedFacts
<1>5. PICK e : e = [top.args[at] EXCEPT !.value = v]
  OBVIOUS
<1>6. e \in Arg /\ e.value = v /\ e.width = top.args[at].width
  <2>1. top.args[at] \in Arg
    BY <1>2, <1>4, ElementOfSeq
  <2> QED
    BY <1>5, <2>1 DEF Arg
<1>7. PICK p : p = [top.args EXCEPT ![at] = e]
  OBVIOUS
<1>8. /\ p \in Seq(Arg) /\ Len(p) = Len(top.args)
      /\ \A i \in 1..Len(top.args) : p[i] = IF i = at THEN e ELSE top.args[i]
  BY <1>2, <1>4, <1>6, <1>7, ExceptSeq
<1>9. /\ f \in Frames /\ f.rbp = top.rbp /\ f.rbx = top.rbx /\ f.caller = top.caller
      /\ f.adjust = top.adjust /\ f.args = p /\ f.locals = top.locals
      /\ f.size = top.size /\ f.pushed = top.pushed
  <2>1. f = [top EXCEPT !.args = p]
    BY <1>3, <1>5, <1>7
  <2> QED
    BY <1>2, <1>8, <2>1 DEF Frames
<1>10. PICK st, tt : st = Stacked(top.args) /\ tt = Stacked(p)
  OBVIOUS
<1>11. /\ tt \in Seq(Arg) /\ Len(tt) = Len(st) /\ st \in Seq(Arg)
       /\ \A i \in 1..Len(st) : tt[i].value = IF i = k THEN v ELSE st[i].value
  <2>0. /\ st \in Seq(Arg)
        /\ Len(st) = IF Len(top.args) > NPARAM_REG THEN Len(top.args) - NPARAM_REG ELSE 0
        /\ \A i \in 1..Len(st) : NPARAM_REG + i \in 1..Len(top.args) /\ st[i] = top.args[NPARAM_REG + i]
    BY <1>2, <1>10, StackedFacts
  <2>3. /\ tt \in Seq(Arg)
        /\ Len(tt) = IF Len(p) > NPARAM_REG THEN Len(p) - NPARAM_REG ELSE 0
        /\ \A i \in 1..Len(tt) : tt[i] = p[NPARAM_REG + i]
    BY <1>8, <1>10, StackedFacts
  <2>1. tt \in Seq(Arg) /\ Len(tt) = Len(st) /\ st \in Seq(Arg)
    BY <1>8, <2>0, <2>3
  <2>2. ASSUME NEW i \in 1..Len(st) PROVE tt[i].value = IF i = k THEN v ELSE st[i].value
    <3>1. /\ NPARAM_REG + i \in 1..Len(top.args)
          /\ st[i] = top.args[NPARAM_REG + i] /\ tt[i] = p[NPARAM_REG + i]
      BY <2>0, <2>1, <2>3
    <3>2. NPARAM_REG + i = at <=> i = k
      <4>1. NPARAM_REG \in Int /\ i \in Int /\ k \in Int
        BY <1>2, <1>10, Constants
      <4> QED
        BY <1>3, <4>1
    <3> QED
      BY <1>6, <1>8, <3>1, <3>2
  <2> QED
    BY <2>1, <2>2
<1>12. FrameOK(f) /\ Bottom(f) = sp
  <2>1. StackAdjust(p) = StackAdjust(top.args)
    BY <1>10, <1>11, AdjustFacts
  <2> QED
    BY <1>1, <1>9, <2>1 DEF FrameOK, Bottom
<1>13. c = bp + ParameterOffset(st, k) /\ k \in 1..Len(st)
  BY <1>10
<1>14. /\ c = bp + 8 + 8 * k /\ c \in Int /\ c % 8 = 0 /\ k \in Int
       /\ bp + 16 <= c /\ sp <= c /\ c < Upper(top)
  BY <1>1, <1>10, <1>13, ParameterCell
<1>15. \A a, w : HoldsIn(m, a, w) /\ a # c => HoldsIn(n, a, w)
  BY DEF HoldsIn, Write
<1>16. HoldsIn(n, c, v)
  BY DEF HoldsIn, Write
<1>17. IntactIn(n, f)
  <2>1. HoldsIn(n, f.rbp, f.caller) /\ HoldsIn(n, f.rbp + 8, ReturnAddress) /\ HoldsIn(n, f.rbp - 8, f.rbx)
    <3>1. bp # c /\ bp + 8 # c /\ bp - 8 # c
      BY <1>1, <1>14
    <3> QED
      BY <1>1, <1>9, <1>15, <3>1 DEF IntactIn
  <2>2. ASSUME NEW i \in 1..Len(f.locals) PROVE HoldsIn(n, LocalCell(f.rbp, i), f.locals[i])
    <3>1. i \in 1..Len(top.locals)
      BY <1>9
    <3>2. LocalCell(top.rbp, i) \in Int /\ LocalCell(top.rbp, i) <= top.rbp - 16
      BY <1>1, <3>1, LocalPlace
    <3>3. LocalCell(top.rbp, i) # c
      BY <1>1, <1>14, <3>2
    <3>4. HoldsIn(m, LocalCell(top.rbp, i), top.locals[i])
      BY <1>1, <3>1 DEF IntactIn
    <3> QED
      BY <1>9, <1>15, <3>3, <3>4
  <2>3. ASSUME NEW i \in 1..Len(Stacked(f.args))
        PROVE  HoldsIn(n, f.rbp + ParameterOffset(Stacked(f.args), i), Stacked(f.args)[i].value)
    <3>1. PICK a : a = top.rbp + ParameterOffset(st, i)
      OBVIOUS
    <3>2. i \in 1..Len(st) /\ Stacked(f.args) = tt
      BY <1>9, <1>10, <1>11
    <3>3. a = bp + 8 + 8 * i /\ i \in Int
      BY <1>1, <1>10, <3>1, <3>2, ParameterCell
    <3>4. f.rbp + ParameterOffset(tt, i) = a
      <4>1. i \in 1..Len(tt)
        BY <1>11, <3>2
      <4>2. ParameterOffset(tt, i) = 16 + 8 * (i - 1) /\ ParameterOffset(st, i) = 16 + 8 * (i - 1)
        BY <1>11, <3>2, <4>1, ParameterPlace
      <4> QED
        BY <1>9, <3>1, <4>2
    <3>5. HoldsIn(m, a, st[i].value)
      BY <1>1, <1>10, <3>1, <3>2 DEF IntactIn
    <3>6. CASE i = k
      <4>1. a = c /\ tt[i].value = v
        BY <1>11, <1>14, <3>2, <3>3, <3>6
      <4> QED
        BY <1>16, <3>2, <3>4, <4>1
    <3>7. CASE i # k
      <4>1. a # c
        <5>1. bp \in Int /\ i \in Int /\ k \in Int /\ a = bp + 8 + 8 * i /\ c = bp + 8 + 8 * k
          BY <1>1, <1>14, <3>3
        <5> QED
          BY <3>7, <5>1
      <4>2. tt[i].value = st[i].value
        BY <1>11, <3>2, <3>7
      <4> QED
        BY <1>15, <3>2, <3>4, <3>5, <4>1, <4>2
    <3> QED
      BY <3>6, <3>7
  <2>4. ASSUME NEW i \in 1..Len(f.pushed) PROVE HoldsIn(n, f.rbp - f.size - 8 * i, f.pushed[i])
    <3>1. PICK a : a = top.rbp - top.size - 8 * i
      OBVIOUS
    <3>2. i \in 1..Len(top.pushed)
      BY <1>9
    <3>3. a \in Int /\ a <= top.rbp - top.size - 8
      BY <1>1, <3>1, <3>2, PushedPlace
    <3>4. a # c
      <4>1. /\ a \in Int /\ c \in Int /\ bp \in Int /\ top.size \in Nat
            /\ a <= bp - top.size - 8 /\ bp + 16 <= c
        BY <1>1, <1>2, <1>14, <3>3
      <4> QED
        BY <4>1
    <3>5. HoldsIn(m, a, top.pushed[i])
      BY <1>1, <3>1, <3>2 DEF IntactIn
    <3> QED
      BY <1>9, <1>15, <3>1, <3>4, <3>5
  <2> QED
    BY <2>1, <2>2, <2>3, <2>4 DEF IntactIn
<1>18. f.rbp = Top(s).rbp /\ f.caller = Top(s).caller /\ f.adjust = Top(s).adjust /\ c < Upper(Top(s))
  BY <1>9, <1>14
<1> QED
  BY <1>12, <1>14, <1>17, <1>18, CellWritten

(* The cells call() writes the arguments to, and those the prologue saves  *)
(* the parameters and the other variables to.                              *)
StoredCells(tp, st) == [a \in {tp + ArgumentOffset(st, k) : k \in 1..Len(st)} |->
                          st[CHOOSE k \in 1..Len(st) : tp + ArgumentOffset(st, k) = a].value]
SavedCells(bp, locals) == [a \in {LocalCell(bp, k) : k \in 1..Len(locals)} |->
                             locals[CHOOSE k \in 1..Len(locals) : LocalCell(bp, k) = a]]
EntryCells(np, bp, scratch) == [a \in {np + 8, np, np - 8} |->
  IF a = np + 8 THEN ReturnAddress ELSE IF a = np THEN bp ELSE scratch]

(* Cells between two addresses. *)
CellsBetween(c, lo, hi) ==
  \A a \in DOMAIN c : a \in Int /\ a % 8 = 0 /\ lo <= a /\ a < hi /\ c[a] \in Int

(* The cells that the caller stores the arguments in. *)
LEMMA StoredFacts ==
  ASSUME NEW st \in Seq(Arg), NEW tp \in Int, tp % 8 = 0, NEW c, c = StoredCells(tp, st)
  PROVE  /\ \A k \in 1..Len(st) : HoldsIn(c, tp + 8 * (k - 1), st[k].value)
         /\ CellsBetween(c, tp, tp + 8 * Len(st))
<1>1. Len(st) \in Nat
  OBVIOUS
<1>2. \A k \in 1..Len(st) : ArgumentOffset(st, k) = 8 * (k - 1) /\ k \in Int
  BY ArgumentPlace
<1>3. \A i, j \in 1..Len(st) : tp + ArgumentOffset(st, i) = tp + ArgumentOffset(st, j) => i = j
  BY <1>2
<1>4. /\ DOMAIN c = {tp + ArgumentOffset(st, k) : k \in 1..Len(st)}
      /\ \A k \in 1..Len(st) : c[tp + ArgumentOffset(st, k)] = st[k].value
  <2>1. DOMAIN c = {tp + ArgumentOffset(st, k) : k \in 1..Len(st)}
    BY DEF StoredCells
  <2>2. ASSUME NEW k \in 1..Len(st) PROVE c[tp + ArgumentOffset(st, k)] = st[k].value
    <3>1. PICK a : a = tp + ArgumentOffset(st, k)
      OBVIOUS
    <3>2. PICK i : i = CHOOSE j \in 1..Len(st) : tp + ArgumentOffset(st, j) = a
      OBVIOUS
    <3>3. i \in 1..Len(st) /\ tp + ArgumentOffset(st, i) = a
      BY <3>1, <3>2
    <3>4. i = k
      BY <1>3, <3>1, <3>3
    <3>5. a \in DOMAIN c
      BY <2>1, <3>1
    <3>6. c[a] = st[i].value
      BY <2>1, <3>2, <3>5 DEF StoredCells
    <3> QED
      BY <3>1, <3>4, <3>6
  <2> QED
    BY <2>1, <2>2
<1>5. ASSUME NEW a \in DOMAIN c
      PROVE  /\ a \in Int /\ a % 8 = 0 /\ tp <= a /\ a < tp + 8 * Len(st) /\ c[a] \in Int
  <2>1. PICK k \in 1..Len(st) : a = tp + ArgumentOffset(st, k)
    BY <1>4
  <2>2. a = tp + 8 * (k - 1) /\ k \in 1..Len(st)
    BY <1>2, <2>1
  <2>3. c[a] \in Int
    BY <1>4, <2>1, ArgFacts
  <2> QED
    BY <1>1, <2>2, <2>3
<1>6. ASSUME NEW k \in 1..Len(st) PROVE HoldsIn(c, tp + 8 * (k - 1), st[k].value)
  BY <1>2, <1>4 DEF HoldsIn
<1> QED
  BY <1>5, <1>6 DEF CellsBetween

(* The cells that the prologue saves the registers of arguments in, with   *)
(* the other local variables.                                              *)
LEMMA SavedFacts ==
  ASSUME NEW locals \in Seq(Int), NEW bp \in Int, bp % 8 = 0, NEW c, c = SavedCells(bp, locals)
  PROVE  /\ \A k \in 1..Len(locals) : HoldsIn(c, LocalCell(bp, k), locals[k])
         /\ CellsBetween(c, bp - 8 - 8 * Len(locals), bp - 8)
<1>1. Len(locals) \in Nat
  OBVIOUS
<1>2. \A k \in 1..Len(locals) : LocalCell(bp, k) = bp - 8 - 8 * k /\ k \in Int
  BY DEF LocalCell, STACKTOP
<1>3. \A i, j \in 1..Len(locals) : LocalCell(bp, i) = LocalCell(bp, j) => i = j
  BY <1>2
<1>4. /\ DOMAIN c = {LocalCell(bp, k) : k \in 1..Len(locals)}
      /\ \A k \in 1..Len(locals) : c[LocalCell(bp, k)] = locals[k]
  <2>1. DOMAIN c = {LocalCell(bp, k) : k \in 1..Len(locals)}
    BY DEF SavedCells
  <2>2. ASSUME NEW k \in 1..Len(locals) PROVE c[LocalCell(bp, k)] = locals[k]
    <3>1. PICK a : a = LocalCell(bp, k)
      OBVIOUS
    <3>2. PICK i : i = CHOOSE j \in 1..Len(locals) : LocalCell(bp, j) = a
      OBVIOUS
    <3>3. i \in 1..Len(locals) /\ LocalCell(bp, i) = a
      BY <3>1, <3>2
    <3>4. i = k
      BY <1>3, <3>1, <3>3
    <3>5. a \in DOMAIN c
      BY <2>1, <3>1
    <3>6. c[a] = locals[i]
      BY <2>1, <3>2, <3>5 DEF SavedCells
    <3> QED
      BY <3>1, <3>4, <3>6
  <2> QED
    BY <2>1, <2>2
<1>5. ASSUME NEW a \in DOMAIN c
      PROVE  /\ a \in Int /\ a % 8 = 0 /\ bp - 8 - 8 * Len(locals) <= a
             /\ a < bp - 8 /\ c[a] \in Int
  <2>1. PICK k \in 1..Len(locals) : a = LocalCell(bp, k)
    BY <1>4
  <2>2. a = bp - 8 - 8 * k /\ k \in 1..Len(locals)
    BY <1>2, <2>1
  <2>3. c[a] \in Int
    BY <1>4, <2>1, ElementOfSeq
  <2>4. (bp - 8 - 8 * k) % 8 = 0
    BY <2>2, ModFacts
  <2> QED
    BY <1>1, <2>2, <2>3, <2>4
<1>6. ASSUME NEW k \in 1..Len(locals) PROVE HoldsIn(c, LocalCell(bp, k), locals[k])
  BY <1>4 DEF HoldsIn
<1> QED
  BY <1>5, <1>6 DEF CellsBetween

EntryOK(c, np, bp, scratch) ==
  /\ HoldsIn(c, np + 8, ReturnAddress) /\ HoldsIn(c, np, bp) /\ HoldsIn(c, np - 8, scratch)
  /\ CellsBetween(c, np - 8, np + 16)

(* The cells of the return address, the caller's rbp and its rbx. *)
LEMMA EntryFacts ==
  ASSUME NEW np \in Int, np % 8 = 0, NEW bp \in Int, NEW scratch \in Int,
         NEW c, c = EntryCells(np, bp, scratch)
  PROVE  EntryOK(c, np, bp, scratch)
<1>1. np + 8 # np /\ np - 8 # np /\ np - 8 # np + 8
  OBVIOUS
<1>2. /\ HoldsIn(c, np + 8, ReturnAddress) /\ HoldsIn(c, np, bp) /\ HoldsIn(c, np - 8, scratch)
      /\ DOMAIN c = {np + 8, np, np - 8}
  BY <1>1 DEF EntryCells, HoldsIn
<1>3. (np + 8) % 8 = 0 /\ (np - 8) % 8 = 0
  OBVIOUS
<1>4. ASSUME NEW a \in DOMAIN c
      PROVE  a \in Int /\ a % 8 = 0 /\ np - 8 <= a /\ a < np + 16 /\ c[a] \in Int
  <2>1. a = np + 8 \/ a = np \/ a = np - 8
    BY <1>2
  <2>2. a \in Int /\ a % 8 = 0 /\ np - 8 <= a /\ a < np + 16
    BY <1>3, <2>1
  <2>3. c[a] \in Int
    BY <1>2, <2>1, Constants DEF HoldsIn
  <2> QED
    BY <2>2, <2>3
<1> QED
  BY <1>2, <1>4 DEF EntryOK, CellsBetween

(* The local variables of a callee: its arguments in registers, then its   *)
(* own.                                                                    *)
LEMMA LocalsFacts ==
  ASSUME NEW args \in Seq(Arg), NEW values \in Seq(Int),
         NEW locals, locals = [k \in 1..Len(Registered(args)) |-> args[k].value] \o values
  PROVE  locals \in Seq(Int)
<1>1. PICK n, r : n = Len(Registered(args)) /\ r = [k \in 1..n |-> args[k].value]
  OBVIOUS
<1>2. n \in Nat /\ \A k \in 1..n : k \in 1..Len(args)
  BY <1>1, RegisteredFacts
<1>3. \A k \in 1..n : args[k].value \in Int
  BY <1>2, ArgFacts
<1>4. r \in [1..n -> Int]
  BY <1>1, <1>3
<1>5. r \in Seq(Int)
  BY <1>2, <1>4
<1> QED
  BY <1>1, <1>5, ConcatProperties

NumbersOK(sp, adjust, l, len, tp, np, qp) ==
  /\ tp \in Int /\ np \in Int /\ qp \in Int /\ tp % 8 = 0 /\ np % 8 = 0
  /\ tp + 8 * l <= sp /\ np + 16 = tp /\ qp <= np - 8 - 8 * len
  /\ np + 16 + adjust = sp

(* What a call subtracts from rsp leaves room for the arguments, for what  *)
(* is saved and for the local variables.                                   *)
LEMMA CallNumbers ==
  ASSUME NEW sp \in Int, sp % 8 = 0, sp <= 8, NEW adjust \in Nat, adjust % 8 = 0,
         NEW l \in Nat, 8 * l <= adjust, NEW len \in Nat, NEW z \in Nat, 8 + 8 * len <= z,
         NEW tp, tp = sp - adjust, NEW np, np = tp - 16, NEW qp, qp = np - z
  PROVE  NumbersOK(sp, adjust, l, len, tp, np, qp)
<1>1. (sp - adjust - 8 * 0) % 8 = 0 /\ (sp - adjust - 8 * 2) % 8 = 0
  BY ModFacts
<1> QED
  BY <1>1 DEF NumbersOK

WritesOK(n, m, qp, stored, entry, saved) ==
  /\ MemoryOK(n, qp)
  /\ \A a \in DOMAIN m : a \in DOMAIN n /\ n[a] = m[a]
  /\ \A a, v : HoldsIn(stored, a, v) \/ HoldsIn(entry, a, v) \/ HoldsIn(saved, a, v)
               => HoldsIn(n, a, v)

(* The cells lie apart: the memory above sp, the arguments, the entry and  *)
(* the variables, from the top down.                                       *)
LEMMA CallWrites ==
  ASSUME NEW sp, NEW adjust, NEW l \in Nat, NEW len \in Nat, NEW tp, NEW np, NEW qp,
         NumbersOK(sp, adjust, l, len, tp, np, qp), sp \in Int, sp <= 8,
         NEW m, MemoryOK(m, sp),
         NEW stored, CellsBetween(stored, tp, tp + 8 * l),
         NEW entry, CellsBetween(entry, np - 8, np + 16),
         NEW saved, CellsBetween(saved, np - 8 - 8 * len, np - 8),
         NEW n, n = Write(Write(Write(m, stored), entry), saved)
  PROVE  WritesOK(n, m, qp, stored, entry, saved)
<1> PICK m1, m2 : m1 = Write(m, stored) /\ m2 = Write(m1, entry)
  OBVIOUS
<1> USE DEF NumbersOK, CellsBetween
<1>1. n = Write(m2, saved)
  OBVIOUS
<1>2. /\ \A a, v : HoldsIn(m, a, v) /\ a \notin DOMAIN stored => HoldsIn(m1, a, v)
      /\ \A a, v : HoldsIn(stored, a, v) => HoldsIn(m1, a, v)
      /\ \A a, v : HoldsIn(m1, a, v) /\ a \notin DOMAIN entry => HoldsIn(m2, a, v)
      /\ \A a, v : HoldsIn(entry, a, v) => HoldsIn(m2, a, v)
      /\ \A a, v : HoldsIn(m2, a, v) /\ a \notin DOMAIN saved => HoldsIn(n, a, v)
      /\ \A a, v : HoldsIn(saved, a, v) => HoldsIn(n, a, v)
  BY <1>1 DEF HoldsIn, Write
<1>3. \A a \in DOMAIN m : a \in Int /\ sp <= a
  BY DEF MemoryOK
<1>4. \A a \in DOMAIN m : a \notin DOMAIN stored /\ a \notin DOMAIN entry /\ a \notin DOMAIN saved
  BY <1>3
<1>5. \A a \in DOMAIN stored : a \notin DOMAIN entry /\ a \notin DOMAIN saved
  OBVIOUS
<1>6. \A a \in DOMAIN entry : a \notin DOMAIN saved
  OBVIOUS
<1>7. \A a \in DOMAIN m : a \in DOMAIN n /\ n[a] = m[a]
  <2>1. ASSUME NEW a \in DOMAIN m PROVE HoldsIn(n, a, m[a])
    <3>1. HoldsIn(m, a, m[a])
      BY DEF HoldsIn
    <3> QED
      BY <1>2, <1>4, <3>1
  <2> QED
    BY <2>1 DEF HoldsIn
<1>8. ASSUME NEW a, NEW v, HoldsIn(stored, a, v) \/ HoldsIn(entry, a, v) \/ HoldsIn(saved, a, v)
      PROVE  HoldsIn(n, a, v)
  <2>1. CASE HoldsIn(stored, a, v)
    <3>1. a \in DOMAIN stored
      BY <2>1 DEF HoldsIn
    <3> QED
      BY <1>2, <1>5, <2>1, <3>1
  <2>2. CASE HoldsIn(entry, a, v)
    <3>1. a \in DOMAIN entry
      BY <2>2 DEF HoldsIn
    <3> QED
      BY <1>2, <1>6, <2>2, <3>1
  <2>3. CASE HoldsIn(saved, a, v)
    BY <1>2, <2>3
  <2> QED
    BY <1>8, <2>1, <2>2, <2>3
<1>9. MemoryOK(n, qp)
  <2>1. qp <= sp /\ qp <= qp
    OBVIOUS
  <2>2. \A a \in DOMAIN stored : a \in qp..8 /\ a % 8 = 0 /\ stored[a] \in Int
    OBVIOUS
  <2>3. \A a \in DOMAIN entry : a \in qp..8 /\ a % 8 = 0 /\ entry[a] \in Int
    OBVIOUS
  <2>4. \A a \in DOMAIN saved : a \in qp..8 /\ a % 8 = 0 /\ saved[a] \in Int
    OBVIOUS
  <2>5. MemoryOK(m1, qp)
    BY <2>1, <2>2, WriteKeepsMemory
  <2>6. MemoryOK(m2, qp)
    BY <2>1, <2>3, <2>5, WriteKeepsMemory
  <2> QED
    BY <1>1, <2>1, <2>4, <2>6, WriteKeepsMemory
<1> QED
  BY <1>7, <1>8, <1>9 DEF WritesOK

(* The frame of a new function f. *)
NewFrame(f, np, scratch, bp, args, locals) ==
  f = [rbp |-> np, rbx |-> scratch, caller |-> bp, adjust |-> StackAdjust(args), args |-> args,
       locals |-> locals, size |-> FrameSize(Len(locals)), pushed |-> <<>>]

(* The numbers of the callee's frame: it begins where the caller's ends. *)
LEMMA NewFrameFacts ==
  ASSUME NEW args \in Seq(Arg), NEW locals \in Seq(Int), NEW scratch \in Int,
         NEW np \in Int, np % 8 = 0, NEW bp \in Int, NEW f, NewFrame(f, np, scratch, bp, args, locals)
  PROVE  /\ FrameOK(f) /\ f.rbp = np /\ f.rbx = scratch /\ f.caller = bp
         /\ f.adjust = StackAdjust(args) /\ f.args = args /\ f.locals = locals
         /\ f.size = FrameSize(Len(locals)) /\ f.pushed = <<>>
         /\ Bottom(f) = np - FrameSize(Len(locals)) /\ Upper(f) = np + 16 + StackAdjust(args)
<1>1. StackAdjust(args) \in Nat /\ FrameSize(Len(locals)) \in Nat /\ <<>> \in Seq(Int)
  <2>1. Stacked(args) \in Seq(Arg)
    BY StackedFacts
  <2>2. StackAdjust(args) = Align(8 * Len(Stacked(args)), 16) /\ 8 * Len(Stacked(args)) \in Nat
    BY <2>1, AdjustFacts
  <2> QED
    BY <2>2, AlignFacts, FrameSizeFacts
<1>2. /\ f \in Frames /\ f.rbp = np /\ f.rbx = scratch /\ f.caller = bp
      /\ f.adjust = StackAdjust(args) /\ f.args = args /\ f.locals = locals
      /\ f.size = FrameSize(Len(locals)) /\ f.pushed = <<>>
  BY <1>1 DEF NewFrame, Frames
<1>3. FrameOK(f)
  BY <1>2 DEF FrameOK
<1>4. Bottom(f) = np - FrameSize(Len(locals))
  <2>1. Bottom(f) = np - FrameSize(Len(locals)) - 8 * Len(<<>>)
    BY <1>2 DEF Bottom
  <2>2. Len(<<>>) = 0 /\ 8 * 0 = 0
    OBVIOUS
  <2>3. np - FrameSize(Len(locals)) - 0 = np - FrameSize(Len(locals))
    BY <1>1
  <2> QED
    BY <2>1, <2>2, <2>3
<1>5. Upper(f) = np + 16 + StackAdjust(args)
  BY <1>2 DEF Upper
<1> QED
  BY <1>2, <1>3, <1>4, <1>5

CallIs(n, tp, np, qp, sp, bp, m, args, st, locals, scratch) ==
  /\ st = Stacked(args) /\ tp = sp - StackAdjust(args) /\ np = tp - 16
  /\ qp = np - FrameSize(Len(locals))
  /\ n = Write(Write(Write(m, StoredCells(tp, st)), EntryCells(np, bp, scratch)),
               SavedCells(np, locals))

(* A call keeps stack, registers and frames consistent. *)
LEMMA CallKeeps ==
  ASSUME NEW sp, NEW bp, NEW bx, NEW m, NEW s, Consistent(sp, bp, bx, m, s),
         NEW args \in Seq(Arg), NEW locals \in Seq(Int), NEW scratch \in Int,
         NEW st, NEW tp, NEW np, NEW qp, NEW n, NEW f,
         CallIs(n, tp, np, qp, sp, bp, m, args, st, locals, scratch),
         NewFrame(f, np, scratch, bp, args, locals)
  PROVE  Consistent(qp, np, scratch, n, App(s, f))
<1> PICK top, adjust, len, z, l :
       /\ top = Top(s) /\ adjust = StackAdjust(args) /\ len = Len(locals) /\ z = FrameSize(len)
       /\ l = Len(Stacked(args))
  OBVIOUS
<1>1. /\ sp \in Int /\ bp \in Int /\ sp % 8 = 0 /\ sp <= 8
      /\ StackOK(s) /\ MemoryOK(m, sp)
      /\ bp = top.rbp /\ sp = Bottom(top)
  BY RunningFacts
<1>2. st \in Seq(Arg) /\ l \in Nat /\ len \in Nat /\ l = Len(st) /\ st = Stacked(args)
  BY StackedFacts, LenProperties DEF CallIs
<1>3. adjust \in Nat /\ 8 * l <= adjust /\ adjust % 8 = 0
  <2>1. adjust = Align(8 * l, 16)
    BY <1>2, AdjustFacts
  <2>2. 8 * l \in Nat
    BY <1>2
  <2> QED
    BY <2>1, <2>2, AlignFacts
<1>4. z \in Nat /\ 8 + 8 * len <= z
  BY <1>2, FrameSizeFacts
<1>5. tp = sp - adjust /\ np = tp - 16 /\ qp = np - z
  BY DEF CallIs
<1>6. /\ NumbersOK(sp, adjust, l, len, tp, np, qp)
      /\ tp \in Int /\ np \in Int /\ qp \in Int /\ tp % 8 = 0 /\ np % 8 = 0
      /\ np + 16 = tp /\ np + 16 + adjust = sp
  <2>1. NumbersOK(sp, adjust, l, len, tp, np, qp)
    BY <1>1, <1>2, <1>3, <1>4, <1>5, CallNumbers, ZenonT(40)
  <2> QED
    BY <2>1 DEF NumbersOK
<1>7. /\ FrameOK(f) /\ f.rbp = np /\ f.rbx = scratch /\ f.caller = bp
      /\ f.args = args /\ f.locals = locals /\ f.pushed = <<>>
      /\ Bottom(f) = qp /\ Upper(f) = sp
  <2>1. /\ FrameOK(f) /\ f.rbp = np /\ f.rbx = scratch /\ f.caller = bp
        /\ f.args = args /\ f.locals = locals /\ f.pushed = <<>>
        /\ Bottom(f) = np - FrameSize(Len(locals)) /\ Upper(f) = np + 16 + StackAdjust(args)
    BY <1>1, <1>6, NewFrameFacts
  <2> QED
    BY <1>5, <1>6, <2>1
<1> PICK stored, entry, saved :
       /\ stored = StoredCells(tp, st) /\ entry = EntryCells(np, bp, scratch)
       /\ saved = SavedCells(np, locals)
  OBVIOUS
<1>8. n = Write(Write(Write(m, stored), entry), saved)
  BY DEF CallIs
<1>9. /\ \A k \in 1..l : HoldsIn(stored, tp + 8 * (k - 1), st[k].value)
      /\ CellsBetween(stored, tp, tp + 8 * l)
  BY <1>2, <1>6, StoredFacts
<1>10. EntryOK(entry, np, bp, scratch)
  BY <1>1, <1>6, EntryFacts
<1>11. /\ \A k \in 1..len : HoldsIn(saved, LocalCell(np, k), locals[k])
       /\ CellsBetween(saved, np - 8 - 8 * len, np - 8)
  BY <1>6, SavedFacts
<1>12. /\ MemoryOK(n, qp)
       /\ \A a \in DOMAIN m : a \in DOMAIN n /\ n[a] = m[a]
       /\ \A a, v : HoldsIn(stored, a, v) \/ HoldsIn(entry, a, v) \/ HoldsIn(saved, a, v)
                    => HoldsIn(n, a, v)
  <2>1. CellsBetween(entry, np - 8, np + 16)
    BY <1>10 DEF EntryOK
  <2>2. WritesOK(n, m, qp, stored, entry, saved)
    BY <1>1, <1>2, <1>6, <1>8, <1>9, <1>11, <2>1, CallWrites, ZenonT(40)
  <2> QED
    BY <2>2 DEF WritesOK
<1>13. IntactIn(n, f)
  <2>1. HoldsIn(n, np, bp) /\ HoldsIn(n, np + 8, ReturnAddress) /\ HoldsIn(n, np - 8, scratch)
    BY <1>10, <1>12 DEF EntryOK
  <2>2. \A k \in 1..len : HoldsIn(n, LocalCell(np, k), locals[k])
    BY <1>11, <1>12
  <2>3. ASSUME NEW k \in 1..l PROVE HoldsIn(n, np + ParameterOffset(st, k), st[k].value)
    <3>1. ParameterOffset(st, k) = 16 + 8 * (k - 1) /\ k \in Int
      BY <1>2, ParameterPlace
    <3>2. HoldsIn(n, tp + 8 * (k - 1), st[k].value)
      BY <1>9, <1>12
    <3>3. tp + 8 * (k - 1) = np + ParameterOffset(st, k)
      BY <1>6, <3>1
    <3> QED
      BY <3>2, <3>3
  <2>4. \A k \in 1..Len(f.pushed) : FALSE
    BY <1>7
  <2> QED
    BY <1>2, <1>7, <2>1, <2>2, <2>3, <2>4 DEF IntactIn
<1>14. PICK t : t = App(s, f)
  OBVIOUS
<1>15. /\ StackOK(t) /\ Len(t) = Len(s) + 1 /\ Top(t) = f /\ t[Len(s) + 1] = f
       /\ \A i \in 1..Len(s) : t[i] = s[i]
  <2>1. f.caller = Top(s).rbp /\ Upper(f) = Bottom(Top(s))
    BY <1>1, <1>7
  <2> QED
    BY <1>1, <1>7, <1>14, <2>1, FrameAppended
<1>16. \A i \in 1..Len(s) : IntactIn(n, s[i])
  <2>1. \A i \in 1..Len(s) : FrameOK(s[i]) /\ IntactIn(m, s[i])
    BY DEF Consistent, StackOK
  <2> QED
    BY <1>12, <2>1, IntactKept
<1>17. \A i \in 1..Len(t) : i \in 1..Len(s) \/ i = Len(s) + 1
  BY <1>1, <1>15, TopFacts
<1>18. \A i \in 1..Len(t) : IntactIn(n, t[i])
  BY <1>13, <1>15, <1>16, <1>17
<1> QED
  BY <1>6, <1>7, <1>12, <1>14, <1>15, <1>18 DEF Consistent

(* rbx is what it was when the function was called, and rbp is what the    *)
(* caller had.                                                             *)
LEMMA ReturnKeeps ==
  ASSUME NEW sp, NEW bp, NEW bx, NEW m, NEW s, Consistent(sp, bp, bx, m, s), Len(s) > 1,
         NEW tp, tp = bp + 16 + Top(s).adjust, NEW n, n = Above(m, tp)
  PROVE  Consistent(tp, m[bp], m[bp - 8], n, Pop(s)) /\ m[bp - 8] = Top(s).rbx
<1> PICK top, t : top = Top(s) /\ t = Pop(s)
  OBVIOUS
<1>1. /\ sp \in Int /\ StackOK(s) /\ FrameOK(top) /\ MemoryOK(m, sp)
      /\ bp = top.rbp /\ sp = Bottom(top) /\ IntactIn(m, top)
      /\ \A a \in DOMAIN m : a \in Int /\ sp <= a /\ m[a] \in Int
  BY RunningFacts
<1>2. /\ StackOK(t) /\ \A i \in 1..Len(t) : i \in 1..Len(s) /\ t[i] = s[i]
      /\ top.caller = Top(t).rbp /\ Upper(top) = Bottom(Top(t))
  BY <1>1, FramePopped
<1>3. m[bp] = top.caller /\ m[bp - 8] = top.rbx
  <2>1. HoldsIn(m, top.rbp, top.caller) /\ HoldsIn(m, top.rbp - 8, top.rbx)
    BY <1>1 DEF IntactIn
  <2> QED
    BY <1>1, <2>1 DEF HoldsIn
<1>4. tp = Upper(top) /\ tp \in Int /\ sp <= tp /\ top.caller \in Int /\ top.rbx \in Int
  BY <1>1, FrameFacts DEF Upper
<1>5. MemoryOK(n, tp)
  BY <1>1, <1>4, AboveKeepsMemory
<1>6. ASSUME NEW i \in 1..Len(t) PROVE IntactIn(n, t[i])
  <2>1. FrameOK(t[i]) /\ IntactIn(m, t[i])
    BY <1>2 DEF Consistent, StackOK
  <2>2. Upper(top) <= Bottom(t[i]) /\ Bottom(t[i]) \in Int
    <3>1. Len(s) \in Nat /\ i # Len(s) /\ i \in 1..Len(s)
      BY <1>1, <1>2, FramePopped, TopFacts
    <3> QED
      BY <1>1, <1>2, <2>1, <3>1, TopFacts, FrameFacts
  <2>3. \A a \in DOMAIN m : Bottom(t[i]) <= a /\ a < Upper(t[i]) => a \in DOMAIN n /\ n[a] = m[a]
    BY <1>1, <1>4, <2>2 DEF Above
  <2> QED
    BY <2>1, <2>3, IntactKept
<1>7. Consistent(tp, top.caller, top.rbx, n, t)
  BY <1>2, <1>4, <1>5, <1>6 DEF Consistent
<1> QED
  BY <1>3, <1>7
-----------------------------------------------------------------------------
(* The invariant holds when main is called. *)
LEMMA InitInductive == Init => IInv
<1> SUFFICES ASSUME Init PROVE IInv
  OBVIOUS
<1>1. PICK saved \in Values :
        /\ rbp = 0 /\ rsp = -FrameSize(0) /\ rbx = saved
        /\ memory = [a \in {0, 8, -8} |-> IF a = 8 THEN ReturnAddress ELSE saved]
        /\ active = << [rbp |-> 0, rbx |-> saved, caller |-> saved, adjust |-> 0, args |-> <<>>,
                        locals |-> <<>>, size |-> FrameSize(0), pushed |-> <<>>] >>
  BY DEF Init
<1>2. PICK f : f = [rbp |-> 0, rbx |-> saved, caller |-> saved, adjust |-> 0, args |-> <<>>,
                    locals |-> <<>>, size |-> FrameSize(0), pushed |-> <<>>]
  OBVIOUS
<1>3. saved \in Int /\ ReturnAddress \in Int
  BY Constants
<1>4. FrameSize(0) = 16
  BY DEF FrameSize, Align, STACKTOP, STACKALIGN
<1>5. /\ f \in Frames /\ f.rbp = 0 /\ f.rbx = saved /\ f.caller = saved /\ f.adjust = 0
      /\ f.args = <<>> /\ f.locals = <<>> /\ f.size = 16 /\ f.pushed = <<>>
  <2>1. <<>> \in Seq(Int) /\ <<>> \in Seq(Arg)
    OBVIOUS
  <2> QED
    BY <1>2, <1>3, <1>4, <2>1 DEF Frames
<1>6. Stacked(<<>>) = <<>> /\ StackAdjust(<<>>) = 0
  <2>1. Stacked(<<>>) = <<>> /\ Stacked(<<>>) \in Seq(Arg) /\ Len(Stacked(<<>>)) = 0
    BY Constants DEF Stacked
  <2>2. StackAdjust(<<>>) = Align(8 * 0, 16)
    BY <2>1, AdjustFacts
  <2> QED
    BY <2>1, <2>2 DEF Align
<1>7. FrameOK(f)
  BY <1>4, <1>5, <1>6 DEF FrameOK
<1>8. Len(active) = 1 /\ active[1] = f /\ active \in Seq(Frames) /\ active # <<>> /\ Top(active) = f
  BY <1>1, <1>2, <1>5 DEF Top
<1>9. StackOK(active)
  BY <1>5, <1>7, <1>8 DEF StackOK
<1>10. Bottom(f) = -16 /\ rsp = -16 /\ rbp = 0 /\ rbx = saved
  BY <1>1, <1>4, <1>5 DEF Bottom
<1>11. MemoryOK(memory, rsp)
  <2>1. \A a \in DOMAIN memory : a = 0 \/ a = 8 \/ a = -8
    BY <1>1
  <2>2. \A a \in DOMAIN memory : memory[a] = ReturnAddress \/ memory[a] = saved
    BY <1>1
  <2> QED
    BY <1>3, <1>10, <2>1, <2>2 DEF MemoryOK
<1>12. IntactIn(memory, f)
  <2>1. HoldsIn(memory, 0, saved) /\ HoldsIn(memory, 8, ReturnAddress) /\ HoldsIn(memory, -8, saved)
    BY <1>1 DEF HoldsIn
  <2>2. 0 + 8 = 8 /\ 0 - 8 = -8
    OBVIOUS
  <2> QED
    BY <1>5, <1>6, <2>1, <2>2 DEF IntactIn
<1> QED
  BY <1>3, <1>5, <1>8, <1>9, <1>10, <1>11, <1>12 DEF IInv, Consistent

(* What a call is given, *)
LEMMA ArgumentsFacts == \A args \in Arguments : args \in Seq(Arg)
<1>1. \A v \in Values : Argument(v) \in Arg
  BY Constants DEF Argument, Arg
<1>2. SUFFICES ASSUME NEW n \in 0..MaxArgs, NEW args \in [1..n -> {Argument(v) : v \in Values}]
               PROVE  args \in Seq(Arg)
  BY DEF Arguments
<1>3. n \in Nat /\ args \in [1..n -> Arg]
  BY <1>1
<1> QED
  BY <1>3

(* and what its local variables hold at first. *)
LEMMA InitialFacts == \A values \in Initial : values \in Seq(Int)
<1>1. SUFFICES ASSUME NEW n \in 0..MaxLocals, NEW values \in [1..n -> Values]
               PROVE  values \in Seq(Int)
  BY DEF Initial
<1>2. n \in Nat /\ values \in [1..n -> Int]
  <2>1. Values \subseteq Int
    BY Constants
  <2>2. \A i \in 1..n : values[i] \in Int
    BY <2>1
  <2> QED
    BY <2>2
<1> QED
  BY <1>2

(* The invariant is kept by a push, *)
LEMMA PushOperandInductive ==
  ASSUME IInv, NEW v \in Values, PushOperand(v)
  PROVE  IInv'
<1>1. /\ rsp' = rsp - 8 /\ rbp' = rbp /\ rbx' = rbx
      /\ memory' = Write(memory, [a \in {rsp - 8} |-> v])
      /\ active' = SetTop(active, [Top(active) EXCEPT !.pushed = Append(Top(active).pushed, v)])
  BY DEF PushOperand
<1>2. v \in Int
  BY Constants
<1>3. Consistent(rsp, rbp, rbx, memory, active)
  BY DEF IInv
<1>4. Consistent(rsp - 8, rbp, rbx, memory', active')
  BY <1>1, <1>2, <1>3, PushKeeps
<1> QED
  BY <1>1, <1>4 DEF IInv

(* by a pop, *)
LEMMA PopOperandInductive ==
  ASSUME IInv, NEW torbx \in BOOLEAN, PopOperand(torbx)
  PROVE  IInv'
<1>1. /\ rsp' = rsp + 8 /\ rbp' = rbp /\ (rbx' = rbx \/ rbx' = memory[rsp])
      /\ Top(active).pushed # <<>>
      /\ memory' = Above(memory, rsp + 8)
      /\ active' = SetTop(active, [Top(active) EXCEPT !.pushed = Pop(Top(active).pushed)])
  BY DEF PopOperand
<1>2. Consistent(rsp, rbp, rbx, memory, active)
  BY DEF IInv
<1>3. Consistent(rsp + 8, rbp, rbx', memory', active')
  BY <1>1, <1>2, PopKeeps
<1> QED
  BY <1>1, <1>3 DEF IInv

(* by an assignment to a local variable, *)
LEMMA AssignInductive ==
  ASSUME IInv, NEW k, NEW v \in Values, Assign(k, v)
  PROVE  IInv'
<1>1. /\ rsp' = rsp /\ rbp' = rbp /\ rbx' = LocalCell(rbp, k)
      /\ k \in 1..Len(Top(active).locals)
      /\ memory' = Write(memory, [a \in {LocalCell(rbp, k)} |-> v])
      /\ active' = SetTop(active, [Top(active) EXCEPT !.locals[k] = v])
  BY DEF Assign
<1>2. v \in Int
  BY Constants
<1>3. Consistent(rsp, rbp, rbx, memory, active)
  BY DEF IInv
<1>4. Consistent(rsp, rbp, LocalCell(rbp, k), memory', active')
  BY <1>1, <1>2, <1>3, AssignKeeps
<1> QED
  BY <1>1, <1>4 DEF IInv

(* by one to a parameter on the stack, *)
LEMMA AssignParameterInductive ==
  ASSUME IInv, NEW k, NEW v \in Values, AssignParameter(k, v)
  PROVE  IInv'
<1>1. PICK c : c = rbp + ParameterOffset(Stacked(Top(active).args), k)
  OBVIOUS
<1>2. /\ rsp' = rsp /\ rbp' = rbp /\ rbx' = c
      /\ k \in 1..Len(Stacked(Top(active).args))
      /\ memory' = Write(memory, [a \in {c} |-> v])
      /\ active' = SetTop(active, [Top(active) EXCEPT !.args[NPARAM_REG + k].value = v])
  BY <1>1 DEF AssignParameter
<1>3. v \in Int
  BY Constants
<1>4. Consistent(rsp, rbp, rbx, memory, active)
  BY DEF IInv
<1>5. Consistent(rsp, rbp, c, memory', active')
  BY <1>1, <1>2, <1>3, <1>4, AssignParameterKeeps
<1> QED
  BY <1>2, <1>5 DEF IInv

(* by a call, *)
LEMMA CallInductive ==
  ASSUME IInv, NEW args \in Arguments, NEW values \in Initial, Call(args, values)
  PROVE  IInv'
<1>0. PICK m, st, tp, np, locals, scratch, f, qp :
      /\ m = memory'
      /\ st = Stacked(args) /\ tp = rsp - StackAdjust(args) /\ np = tp - 16
      /\ locals = [k \in 1..Len(Registered(args)) |-> args[k].value] \o values
      /\ scratch = (IF st = <<>> THEN rbx ELSE Top(st).value)
      /\ f = [rbp |-> np, rbx |-> scratch, caller |-> rbp, adjust |-> StackAdjust(args),
              args |-> args, locals |-> locals, size |-> FrameSize(Len(locals)), pushed |-> <<>>]
      /\ qp = np - FrameSize(Len(locals))
  OBVIOUS
<1>1. /\ rbp' = np /\ rsp' = qp /\ rbx' = scratch /\ active' = Append(active, f)
      /\ memory' = Write(Write(Write(memory, StoredCells(tp, st)), EntryCells(np, rbp, scratch)),
                         SavedCells(np, locals))
  BY <1>0 DEF Call, StoredCells, EntryCells, SavedCells
<1>2. /\ CallIs(m, tp, np, qp, rsp, rbp, memory, args, st, locals, scratch)
      /\ NewFrame(f, np, scratch, rbp, args, locals)
  BY <1>0, <1>1 DEF CallIs, NewFrame
<1>3. args \in Seq(Arg) /\ values \in Seq(Int)
  BY ArgumentsFacts, InitialFacts
<1>4. locals \in Seq(Int)
  BY <1>0, <1>3, LocalsFacts
<1>5. Consistent(rsp, rbp, rbx, memory, active)
  BY DEF IInv
<1>6. scratch \in Int
  <2>1. CASE st = <<>>
    BY <1>0, <1>5, <2>1 DEF Consistent
  <2>2. CASE st # <<>>
    <3>1. st \in Seq(Arg) /\ Len(st) \in 1..Len(st)
      BY <1>0, <1>3, <2>2, StackedFacts, EmptySeq
    <3> QED
      BY <1>0, <2>2, <3>1, ArgFacts DEF Top
  <2> QED
    BY <2>1, <2>2
<1>7. Consistent(qp, np, scratch, m, App(active, f))
  BY <1>2, <1>3, <1>4, <1>5, <1>6, CallKeeps
<1> QED
  BY <1>0, <1>1, <1>7 DEF IInv, App

(* and by a return, which restores the rbx of the caller. *)
LEMMA ReturnInductive ==
  ASSUME IInv, Return
  PROVE  IInv' /\ rbx' = Top(active).rbx
<1>1. PICK tp : tp = rbp + 16 + Top(active).adjust
  OBVIOUS
<1>2. /\ Len(active) > 1 /\ rsp' = tp /\ rbp' = memory[rbp] /\ rbx' = memory[rbp - 8]
      /\ memory' = Above(memory, tp) /\ active' = Pop(active)
  BY <1>1 DEF Return
<1>3. Consistent(rsp, rbp, rbx, memory, active)
  BY DEF IInv
<1>4. /\ Consistent(tp, memory[rbp], memory[rbp - 8], memory', Pop(active))
      /\ memory[rbp - 8] = Top(active).rbx
  BY <1>1, <1>2, <1>3, ReturnKeeps
<1> QED
  BY <1>2, <1>4 DEF IInv

(* It is kept by every step. *)
LEMMA NextInductive == IInv /\ [Next]_vars => IInv'
<1> SUFFICES ASSUME IInv, [Next]_vars PROVE IInv'
  OBVIOUS
<1>1. ASSUME NEW v \in Values, PushOperand(v) PROVE IInv'
  BY <1>1, PushOperandInductive
<1>2. ASSUME NEW torbx \in BOOLEAN, PopOperand(torbx) PROVE IInv'
  BY <1>2, PopOperandInductive
<1>3. ASSUME NEW k, NEW v \in Values, Assign(k, v) PROVE IInv'
  BY <1>3, AssignInductive
<1>4. ASSUME NEW k, NEW v \in Values, AssignParameter(k, v) PROVE IInv'
  BY <1>4, AssignParameterInductive
<1>5. ASSUME NEW args \in Arguments, NEW values \in Initial, Call(args, values) PROVE IInv'
  BY <1>5, CallInductive
<1>6. CASE Return
  BY <1>6, ReturnInductive
<1>7. CASE UNCHANGED vars
  BY <1>7 DEF IInv, vars
<1> QED
  BY <1>1, <1>2, <1>3, <1>4, <1>5, <1>6, <1>7 DEF Next

(* It holds in every reachable state. *)
LEMMA Invariance == Spec => []IInv
  BY InitInductive, NextInductive, PTL DEF Spec
-----------------------------------------------------------------------------
(* What it says of the registers gives that the stack is balanced, *)
LEMMA HoldsBalance == IInv => StackBalanced
<1> SUFFICES ASSUME IInv PROVE StackBalanced
  OBVIOUS
<1>1. Consistent(rsp, rbp, rbx, memory, active)
  BY DEF IInv
<1>2. /\ rsp \in Int /\ rbp \in Int /\ rsp <= rbp - 8
      /\ StackOK(active) /\ MemoryOK(memory, rsp)
      /\ rbp = Top(active).rbp /\ rsp = Bottom(Top(active))
  BY <1>1, RunningFacts
<1>3. TypeOK
  <2>1. rsp <= rbp
    BY <1>2
  <2> QED
    BY <1>2, <2>1 DEF TypeOK, StackOK, MemoryOK
<1> QED
  BY <1>2, <1>3 DEF StackBalanced, Bottom

(* and what it says of memory that the frames are intact. *)
LEMMA HoldsFrames == IInv => FramesIntact
  BY IntactFacts DEF IInv, Consistent

(* below of AlignedUnlessPushed: the operands pushed by the first          *)
(* functions.                                                              *)
IsBelow(g, s, n) ==
  g = [i \in 1..n |-> IF i = 1 THEN 0 ELSE g[i - 1] + Len(s[i - 1].pushed)]

(* The numbers of operands pushed below each frame exist, as a function. *)
LEMMA BelowExists ==
  ASSUME NEW n \in Nat, NEW s
  PROVE  \E g : IsBelow(g, s, n)
<1> DEFINE good == {k \in 0..n : \E g : IsBelow(g, s, k)}
<1>1. 0 \in good
  <2>1. IsBelow(<<>>, s, 0)
    BY DEF IsBelow
  <2> QED
    BY <2>1
<1>2. ASSUME NEW k \in 0..n, k - 1 \in good PROVE k \in good
  <2>1. k - 1 \in 0..n /\ k \in Nat /\ k >= 1
    BY <1>2
  <2>2. PICK g : IsBelow(g, s, k - 1)
    BY <1>2
  <2>3. PICK h : h = [i \in 1..k |-> IF i = 1 THEN 0 ELSE g[i - 1] + Len(s[i - 1].pushed)]
    OBVIOUS
  <2>4. \A i \in 1..k : i # 1 => i - 1 \in 1..(k - 1) /\ i - 1 \in 1..k
    BY <2>1
  <2>5. \A i \in 1..(k - 1) : h[i] = g[i]
    <3>1. ASSUME NEW i \in 1..(k - 1) PROVE h[i] = g[i]
      <4>1. i \in 1..k
        BY <2>1
      <4>2. g[i] = IF i = 1 THEN 0 ELSE g[i - 1] + Len(s[i - 1].pushed)
        BY <2>2 DEF IsBelow
      <4> QED
        BY <2>3, <4>1, <4>2
    <3> QED
      BY <3>1
  <2>6. \A i \in 1..k : h[i] = IF i = 1 THEN 0 ELSE h[i - 1] + Len(s[i - 1].pushed)
    BY <2>3, <2>4, <2>5
  <2>7. h = [i \in 1..k |-> h[i]]
    BY <2>3
  <2>8. IsBelow(h, s, k)
    BY <2>6, <2>7 DEF IsBelow
  <2> QED
    BY <2>8
<1>3. \A k \in 0..n : (k = 0 \/ k - 1 \in good) => k \in good
  BY <1>1, <1>2
<1>4. \A k \in 0..n : k \in good
  BY <1>3, UpTo
<1> QED
  BY <1>4

Apart(b, z, l, c, e) == \E d \in Int : c = b - 16 * d - 8 * l

(* Between two frames lie the operands, and otherwise multiples of 16. *)
LEMMA Distance ==
  ASSUME NEW b \in Int, NEW z \in Nat, NEW l \in Nat, NEW c \in Int, NEW e \in Nat,
         z % 16 = 0, e % 16 = 0, c + 16 + e = b - z - 8 * l
  PROVE  Apart(b, z, l, c, e)
<1>1. z = 16 * (z \div 16) /\ e = 16 * (e \div 16) /\ z \div 16 \in Int /\ e \div 16 \in Int
  OBVIOUS
<1>2. PICK u \in Int, w \in Int : z = 16 * u /\ e = 16 * w
  BY <1>1
<1>3. c = b - 16 * (u + w + 1) - 8 * l /\ u + w + 1 \in Int
  BY <1>2
<1> QED
  BY <1>3 DEF Apart

(* A frame is a multiple of STACKALIGN below its caller's, and the         *)
(* operands its caller has pushed.                                         *)
LEMMA FrameDistance ==
  ASSUME NEW s, StackOK(s), NEW i \in 1..Len(s), NEW j \in 1..Len(s), j = i + 1
  PROVE  /\ s[i].rbp \in Int /\ Len(s[i].pushed) \in Nat
         /\ \E d \in Int : s[j].rbp = s[i].rbp - 16 * d - 8 * Len(s[i].pushed)
<1>1. FrameOK(s[i]) /\ FrameOK(s[j]) /\ Upper(s[j]) = Bottom(s[i])
  BY DEF StackOK
<1>2. /\ s[i].rbp \in Int /\ s[i].size \in Nat /\ s[i].size % 16 = 0 /\ Len(s[i].pushed) \in Nat
      /\ s[j].rbp \in Int /\ s[j].adjust \in Nat /\ s[j].adjust % 16 = 0
  BY <1>1, FrameFacts
<1> PICK b, z, l, c, e : b = s[i].rbp /\ z = s[i].size /\ l = Len(s[i].pushed)
                         /\ c = s[j].rbp /\ e = s[j].adjust
  OBVIOUS
<1>3. c + 16 + e = b - z - 8 * l
  BY <1>1 DEF Upper, Bottom
<1>4. \E d \in Int : c = b - 16 * d - 8 * l
  <2>1. b \in Int /\ z \in Nat /\ l \in Nat /\ c \in Int /\ e \in Nat /\ z % 16 = 0 /\ e % 16 = 0
    BY <1>2
  <2>2. Apart(b, z, l, c, e)
    BY <1>3, <2>1, Distance
  <2> QED
    BY <2>2 DEF Apart
<1> QED
  BY <1>2, <1>4

(* So the alignment of a frame is that of the one above it, changed by the *)
(* number of operands between them.                                        *)
LEMMA ParityStep ==
  ASSUME NEW b \in Int, NEW n \in Nat, b % 16 = 8 * (n % 2), NEW d \in Int, NEW l \in Nat
  PROVE  (b - 16 * d - 8 * l) % 16 = 8 * ((n + l) % 2)
  OBVIOUS

(* A frame is aligned exactly when the functions below it pushed an even   *)
(* number of operands.                                                     *)
LEMMA HoldsAlignment == IInv => AlignedUnlessPushed
<1> SUFFICES ASSUME IInv PROVE AlignedUnlessPushed
  OBVIOUS
<1> DEFINE below == CHOOSE g : IsBelow(g, active, Len(active))
<1>1. StackOK(active) /\ Len(active) \in Nat /\ 1 \in 1..Len(active) /\ active[1].rbp = 0
  <2>1. StackOK(active)
    BY DEF IInv, Consistent
  <2> QED
    BY <2>1, TopFacts DEF StackOK
<1>2. PICK g : g = below /\ IsBelow(g, active, Len(active))
  BY <1>1, BelowExists
<1>3. \A i \in 1..Len(active) :
        g[i] = IF i = 1 THEN 0 ELSE g[i - 1] + Len(active[i - 1].pushed)
  BY <1>2 DEF IsBelow
<1> DEFINE good == {i \in 1..Len(active) : g[i] \in Nat /\ active[i].rbp % 16 = 8 * (g[i] % 2)}
<1>4. ASSUME NEW i \in 1..Len(active), i = 1 \/ i - 1 \in good
      PROVE  i \in good
  <2>1. CASE i = 1
    <3>1. g[1] = 0 /\ active[1].rbp = 0
      BY <1>1, <1>3
    <3> QED
      BY <2>1, <3>1
  <2>2. CASE i - 1 \in good
    <3>1. PICK j : j = i - 1
      OBVIOUS
    <3>2. j \in 1..Len(active) /\ i = j + 1 /\ i # 1
      BY <1>1, <2>2, <3>1
    <3>3. g[j] \in Nat /\ active[j].rbp % 16 = 8 * (g[j] % 2)
      BY <2>2, <3>1
    <3>4. active[j].rbp \in Int /\ Len(active[j].pushed) \in Nat
      BY <1>1, <3>2, FrameDistance
    <3>5. PICK d \in Int : active[i].rbp = active[j].rbp - 16 * d - 8 * Len(active[j].pushed)
      BY <1>1, <3>2, FrameDistance
    <3>6. active[i].rbp % 16 = 8 * ((g[j] + Len(active[j].pushed)) % 2)
      <4>1. PICK b, n, l : b = active[j].rbp /\ n = g[j] /\ l = Len(active[j].pushed)
        OBVIOUS
      <4>2. b \in Int /\ n \in Nat /\ l \in Nat /\ b % 16 = 8 * (n % 2)
        BY <3>3, <3>4, <4>1
      <4>3. (b - 16 * d - 8 * l) % 16 = 8 * ((n + l) % 2)
        BY <4>2, ParityStep
      <4> QED
        BY <3>5, <4>1, <4>3
    <3>7. g[i] = g[j] + Len(active[j].pushed)
      BY <1>3, <3>1, <3>2
    <3>8. g[i] \in Nat
      BY <3>3, <3>4, <3>7
    <3> QED
      BY <3>6, <3>7, <3>8
  <2> QED
    BY <1>4, <2>1, <2>2
<1>5. \A i \in 1..Len(active) : i \in good
  BY <1>1, <1>4, UpTo
<1> QED
  BY <1>2, <1>5 DEF AlignedUnlessPushed, STACKALIGN, IsBelow

(* Pushes and pops, calls and returns balance: the stack pointer is just   *)
(* below the last operand the running function has pushed.                 *)
THEOREM StackIsBalanced == Spec => []StackBalanced
  BY Invariance, HoldsBalance, PTL

(* However deep the functions called by a function call others, its frame  *)
(* keeps the link to its caller, its variables, its parameters and its     *)
(* operands.                                                               *)
THEOREM FramesStayIntact == Spec => []FramesIntact
  BY Invariance, HoldsFrames, PTL

(* The comment of the prologue, and when it does not hold: the frame of a  *)
(* function is aligned exactly when an even number of operands is on the   *)
(* stack where it is called.                                               *)
THEOREM FramesAreAligned == Spec => []AlignedUnlessPushed
  BY Invariance, HoldsAlignment, PTL

(* A function gives its caller's rbx back. *)
THEOREM RbxIsPreserved == Spec => RbxPreserved
<1>1. IInv /\ [Next]_vars => [Len(active') < Len(active) => rbx' = Top(active).rbx]_vars
  <2> SUFFICES ASSUME IInv, Next, Len(active') < Len(active) PROVE rbx' = Top(active).rbx
    BY DEF vars
  <2>1. CASE Return
    BY <2>1, ReturnInductive
  <2>2. CASE ~Return
    <3>1. active \in Seq(Frames) /\ Len(active) \in Nat /\ Len(active) \in 1..Len(active)
      BY TopFacts DEF IInv, Consistent
    <3>2. ASSUME NEW f, active' = [active EXCEPT ![Len(active)] = f] PROVE FALSE
      <4>1. Len(active') = Len(active)
        BY <3>1, <3>2
      <4> QED
        BY <3>1, <4>1
    <3>3. ASSUME NEW f, active' = Append(active, f) PROVE FALSE
      <4>1. Len(active') = Len(active) + 1
        BY <3>1, <3>3
      <4> QED
        BY <3>1, <4>1
    <3>4. ASSUME NEW v, PushOperand(v) PROVE FALSE
      BY <3>2, <3>4 DEF PushOperand, SetTop
    <3>5. ASSUME NEW torbx, PopOperand(torbx) PROVE FALSE
      BY <3>2, <3>5 DEF PopOperand, SetTop
    <3>6. ASSUME NEW k, NEW v, Assign(k, v) PROVE FALSE
      BY <3>2, <3>6 DEF Assign, SetTop
    <3>7. ASSUME NEW k, NEW v, AssignParameter(k, v) PROVE FALSE
      BY <3>2, <3>7 DEF AssignParameter, SetTop
    <3>8. ASSUME NEW args, NEW values, Call(args, values) PROVE FALSE
      BY <3>3, <3>8 DEF Call
    <3> QED
      BY <2>2, <3>4, <3>5, <3>6, <3>7, <3>8 DEF Next
  <2> QED
    BY <2>1, <2>2
<1> QED
  BY <1>1, Invariance, PTL DEF Spec, RbxPreserved
=============================================================================
