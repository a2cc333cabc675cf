----------------------------- MODULE TextProofs -----------------------------
(***************************************************************************)
(* Theorems on the text of a program: on Source and Lexer, for every file  *)
(* and every set of characters, and on Strings, which keeps the spellings  *)
(* that the lexer reads.                                                   *)
(***************************************************************************)
EXTENDS Lexer, Strings, FiniteSetTheorems, SequenceTheorems, OperatorTheorems

(* The invariant.  The first n lines cover the offsets below "end", each   *)
(* once, and have no newline but at their end.                             *)
Line(i) == line_map.cells[i]
Before(off) == {k \in Newlines : k < off}
Plain(i) == \A k \in Line(i).lo..(Line(i).hi - 2) : k \notin Newlines
Tiled(n, end) ==
  /\ \A i \in 0..(n - 1) : Line(i).lo < Line(i).hi /\ Line(i).hi <= end /\ Plain(i)
  /\ \A i \in 0..(n - 1) : \A j \in (i + 1)..(n - 1) : Line(i).hi <= Line(j).lo
  /\ \A off \in 0..(end - 1) : \E i \in 0..(n - 1) : OnLine(off, Line(i))

Sized(v) == v.len \in Nat /\ v.cap \in Nat /\ v.block \in Nat /\ v.len <= v.cap
BufOK ==
  /\ Sized(buf)
  /\ \A i \in 0..(buf.len - 1) : buf.cells[i] \in Characters
  /\ pc = "isource" => buf.len > 0 /\ buf.cells[buf.len - 1] = Zero
LinesOK ==
  /\ line_map.len > 0 /\ line_map.block > 0
  /\ \A i \in 0..(line_map.len - 1) :
       Line(i) \in Lines /\ Line(i).number = i + 1 /\ Cardinality(Before(Line(i).lo)) = i
  /\ pc = "scan" => /\ prev = LastOf(line_map)
                    /\ Line(line_map.len - 1).lo = p
                    /\ Tiled(line_map.len - 1, p)
  /\ pc = "done" => Tiled(line_map.len, Len(source) + 1)
IInv ==
  /\ file \in Seq(Characters) /\ source \in Seq(Characters)
  /\ p \in 0..Len(source)
  /\ pc \in {"slurp", "isource", "scan", "done"}
  /\ Sized(line_map)
  /\ BufOK
  /\ pc \in {"slurp", "isource"} => p = 0 /\ line_map = EmptyVec
  /\ pc \in {"scan", "done"} => LinesOK
-----------------------------------------------------------------------------
(* What a push and a store through the last pointer do.                    *)
LEMMA PushFacts ==
  ASSUME NEW v, Sized(v), NEW x, NEW w, w = Push(v, x)
  PROVE  /\ Sized(w) /\ w.len = v.len + 1 /\ w.block = v.block + 1
         /\ w.cells[v.len] = x
         /\ \A i \in 0..(v.len - 1) : w.cells[i] = v.cells[i]
<1>1. v.len < Capacity(v) /\ v.cap <= Capacity(v) /\ Capacity(v) \in Nat
  BY DEF Sized, Capacity
<1>2. PICK u : u = PushUninit(v)
  OBVIOUS
<1>3. /\ u.len = v.len + 1 /\ u.cap = Capacity(v) /\ u.block = v.block + 1
      /\ u.cells = [i \in Cells(Capacity(v)) |-> IF i < v.cap THEN v.cells[i] ELSE Uninitialised]
  BY <1>2 DEF PushUninit, Reserve
<1>4. w = Store(u, LastOf(u), x)
  BY <1>2 DEF Push
<1>5. /\ w.len = u.len /\ w.cap = u.cap /\ w.block = u.block
      /\ w.cells = [i \in Cells(u.cap) |->
            IF [block |-> u.block, index |-> u.len - 1] = [block |-> u.block, index |-> i]
            THEN x ELSE u.cells[i]]
  BY <1>4 DEF Store, LastOf
<1>6. \A i \in Cells(Capacity(v)) :
        w.cells[i] = IF i = v.len THEN x ELSE IF i < v.cap THEN v.cells[i] ELSE Uninitialised
  BY <1>1, <1>3, <1>5 DEF Sized, Cells
<1> QED
  BY <1>1, <1>3, <1>5, <1>6 DEF Sized, Cells

(* Storing through the pointer of the last push replaces the last element. *)
LEMMA StoreFacts ==
  ASSUME NEW v, Sized(v), v.len > 0, NEW x, NEW w, w = Store(v, LastOf(v), x)
  PROVE  /\ Sized(w) /\ w.len = v.len /\ w.block = v.block
         /\ w.cells[v.len - 1] = x
         /\ \A i \in 0..(v.len - 2) : w.cells[i] = v.cells[i]
<1>1. /\ w.len = v.len /\ w.cap = v.cap /\ w.block = v.block
      /\ w.cells = [i \in Cells(v.cap) |->
            IF [block |-> v.block, index |-> v.len - 1] = [block |-> v.block, index |-> i]
            THEN x ELSE v.cells[i]]
  BY DEF Store, LastOf
<1>2. \A i \in Cells(v.cap) : w.cells[i] = IF i = v.len - 1 THEN x ELSE v.cells[i]
  BY <1>1 DEF Sized, Cells
<1> QED
  BY <1>1, <1>2 DEF Sized, Cells

(* An empty vector has no block. *)
LEMMA EmptyIsSized == Sized(EmptyVec) /\ EmptyVec.len = 0 /\ EmptyVec.block = 0
  BY DEF Sized, EmptyVec

(* The newlines below an offset are finitely many. *)
LEMMA NewlinesFinite ==
  ASSUME source \in Seq(Characters)
  PROVE  /\ Newlines \in SUBSET Nat /\ IsFiniteSet(Newlines)
         /\ \A off : IsFiniteSet(Before(off)) /\ Cardinality(Before(off)) \in Nat
<1>1. Len(source) \in Nat
  BY LenProperties
<1>2. IsFiniteSet(0..(Len(source) - 1))
  BY <1>1, FS_Interval
<1>3. Newlines \in SUBSET (0..(Len(source) - 1))
  BY DEF Newlines
<1>4. IsFiniteSet(Newlines) /\ Newlines \in SUBSET Nat
  <2>1. IsFiniteSet(Newlines)
    BY <1>2, <1>3, FS_Subset
  <2>2. 0..(Len(source) - 1) \subseteq Nat
    OBVIOUS
  <2> QED
    BY <1>3, <2>1, <2>2
<1>5. ASSUME NEW off PROVE IsFiniteSet(Before(off)) /\ Cardinality(Before(off)) \in Nat
  <2>1. Before(off) \in SUBSET Newlines
    BY DEF Before
  <2> QED
    BY <1>4, <2>1, FS_Subset, FS_CardinalityType
<1> QED
  BY <1>4, <1>5

(* strchr finds the first newline at or after p. *)
LEMMA NextNewlineFacts ==
  ASSUME source \in Seq(Characters), p \in 0..Len(source), NewlinesAhead # {}
  PROVE  /\ NextNewline \in Newlines /\ NextNewline \in p..(Len(source) - 1)
         /\ \A k \in Newlines : k >= p => NextNewline <= k
<1>1. Len(source) \in Nat
  BY LenProperties
<1>2. NewlinesAhead \in SUBSET Nat
  BY <1>1 DEF NewlinesAhead, Newlines
<1>3. \E k \in NewlinesAhead : \A j \in NewlinesAhead : k <= j
  BY <1>2, HasLeast
<1>4. NextNewline \in NewlinesAhead /\ \A j \in NewlinesAhead : NextNewline <= j
  BY <1>3 DEF NextNewline
<1> QED
  BY <1>1, <1>4 DEF NewlinesAhead, Newlines
-----------------------------------------------------------------------------
(* The invariant of Source holds before the file is read. *)
LEMMA InitInductive == Init => IInv
<1> SUFFICES ASSUME Init PROVE IInv
  OBVIOUS
<1>1. file \in Seq(Characters) /\ source \in Seq(Characters) /\ p \in 0..Len(source)
  <2>1. file \in Seq(Characters)
    BY SourceAssumption DEF Init
  <2>2. source = <<>> /\ p = 0
    BY DEF Init
  <2> QED
    BY <2>1, <2>2
<1>2. Sized(line_map) /\ Sized(buf) /\ buf.len = 0 /\ pc = "slurp" /\ p = 0 /\ line_map = EmptyVec
  BY EmptyIsSized DEF Init
<1>3. BufOK
  BY <1>2 DEF BufOK
<1> QED
  BY <1>1, <1>2, <1>3 DEF IInv

(* slurp only changes its buffer. *)
LEMMA SlurpInductive ==
  ASSUME IInv, Slurp
  PROVE  IInv'
<1>1. /\ pc = "slurp" /\ pc' \in {"slurp", "isource"}
      /\ UNCHANGED <<file, source, p, line_map, prev>>
  BY DEF Slurp
<1>2. PICK x \in Characters : buf' = Push(buf, x) /\ (pc' = "isource" => x = Zero)
  <2>1. CASE buf.len < Len(file) /\ file[buf.len + 1] \notin EndingBytes \ {Zero}
    <3>1. Len(file) \in Nat /\ buf.len \in Nat /\ file \in Seq(Characters)
      BY LenProperties DEF IInv, BufOK, Sized
    <3>2. file[buf.len + 1] \in Characters
      BY <2>1, <3>1, ElementOfSeq
    <3> QED
      BY <1>1, <2>1, <3>2 DEF Slurp
  <2>2. CASE ~(buf.len < Len(file) /\ file[buf.len + 1] \notin EndingBytes \ {Zero})
    BY <1>1, <2>2, SourceAssumption DEF Slurp
  <2> QED
    BY <2>1, <2>2
<1>3. Sized(buf) /\ \A i \in 0..(buf.len - 1) : buf.cells[i] \in Characters
  BY DEF IInv, BufOK
<1>4. /\ Sized(buf') /\ buf'.len = buf.len + 1 /\ buf'.cells[buf.len] = x
      /\ \A i \in 0..(buf.len - 1) : buf'.cells[i] = buf.cells[i]
  BY <1>2, <1>3, PushFacts
<1>5. BufOK'
  BY <1>2, <1>3, <1>4 DEF BufOK, Sized
<1> QED
  BY <1>1, <1>5 DEF IInv, Sized

(* isource cuts the buffer at its first '\0', which slurp put at its end.  *)
NewSource(n) ==
  /\ source' \in Seq(Characters) /\ Len(source') = n
  /\ buf.cells[n] = Zero
  /\ \A k \in 0..(n - 1) : buf.cells[k] # Zero /\ source'[k + 1] = Normalised(buf.cells[k])

(* isource takes the bytes up to the first terminator. *)
LEMMA SourceRead ==
  ASSUME IInv, Isource
  PROVE  \E n \in 0..(buf.len - 1) : NewSource(n)
<1> DEFINE bytes == Contents(buf)
           S == {n \in 0..(buf.len - 1) : bytes[n + 1] = Zero}
           len == CHOOSE n \in 0..(buf.len - 1) :
                    bytes[n + 1] = Zero /\ \A i \in 1..n : bytes[i] # Zero
<1>2. /\ Sized(buf) /\ buf.len > 0 /\ buf.cells[buf.len - 1] = Zero
      /\ \A i \in 0..(buf.len - 1) : buf.cells[i] \in Characters
  BY DEF IInv, BufOK, Isource
<1>3. \A i \in 1..buf.len : bytes[i] = buf.cells[i - 1] /\ bytes[i] \in Characters
  BY <1>2 DEF Contents, Sized
<1>4. PICK n \in S : \A m \in S : n <= m
  <2>1. S \in SUBSET Nat /\ S # {}
    <3>1. buf.len - 1 \in 0..(buf.len - 1) /\ bytes[buf.len - 1 + 1] = Zero
      BY <1>2, <1>3 DEF Sized
    <3> QED
      BY <1>2, <3>1 DEF Sized
  <2> HIDE DEF S
  <2> QED
    BY <2>1, HasLeast
<1>5. \A i \in 1..n : bytes[i] # Zero
  <2> SUFFICES ASSUME NEW i \in 1..n, bytes[i] = Zero PROVE FALSE
    OBVIOUS
  <2>1. n \in 0..(buf.len - 1) /\ buf.len \in Nat
    BY <1>2 DEF Sized
  <2>2. i - 1 \in 0..(buf.len - 1) /\ bytes[(i - 1) + 1] = Zero
    BY <2>1
  <2>3. i - 1 \in S
    BY <2>2
  <2> QED
    BY <1>4, <2>1, <2>3
<1>6. /\ len \in 0..(buf.len - 1) /\ len \in Nat
      /\ bytes[len + 1] = Zero /\ \A i \in 1..len : bytes[i] # Zero
  <2>1. n \in 0..(buf.len - 1) /\ bytes[n + 1] = Zero
    OBVIOUS
  <2> HIDE DEF bytes
  <2> QED
    BY <1>5, <2>1
<1>7. source' = [i \in 1..len |-> Normalised(bytes[i])]
  BY DEF Isource
<1>8. \A i \in 1..len : Normalised(bytes[i]) \in Characters
  <2> SUFFICES ASSUME NEW i \in 1..len PROVE Normalised(bytes[i]) \in Characters
    OBVIOUS
  <2>1. bytes[i] \in Characters
    BY <1>2, <1>3, <1>6 DEF Sized
  <2> HIDE DEF bytes
  <2> QED
    BY <2>1, SourceAssumption DEF Normalised
<1> HIDE DEF bytes, len
<1>9. source' \in Seq(Characters)
  BY <1>6, <1>7, <1>8, IsASeq
<1>10. Len(source') = len
  BY <1>6, <1>7, <1>9, LenProperties
<1>11. ASSUME NEW k \in 0..(len - 1)
       PROVE  buf.cells[k] # Zero /\ source'[k + 1] = Normalised(buf.cells[k])
  <2>1. k + 1 \in 1..len /\ k + 1 \in 1..buf.len /\ (k + 1) - 1 = k
    BY <1>2, <1>6 DEF Sized
  <2>2. bytes[k + 1] = buf.cells[k]
    BY <1>3, <2>1
  <2> QED
    BY <1>6, <1>7, <2>1, <2>2
<1>12. buf.cells[len] = Zero
  <2>1. len + 1 \in 1..buf.len /\ (len + 1) - 1 = len
    BY <1>2, <1>6 DEF Sized
  <2> QED
    BY <1>3, <1>6, <2>1
<1> QED
  BY <1>6, <1>9, <1>10, <1>11, <1>12 DEF NewSource

(* It also starts the map. *)
LEMMA IsourceInductive ==
  ASSUME IInv, Isource
  PROVE  IInv'
<1>1. /\ pc = "isource" /\ pc' = "scan" /\ UNCHANGED <<file, buf, p>> /\ p = 0
      /\ line_map' = Push(EmptyVec, [lo |-> 0, hi |-> 0, number |-> 1])
      /\ prev' = LastOf(line_map')
  BY DEF Isource, IInv
<1>8. source' \in Seq(Characters)
  BY SourceRead DEF NewSource
<1>9. /\ Sized(line_map') /\ line_map'.len = 1 /\ line_map'.block > 0
      /\ Line(0)' = [lo |-> 0, hi |-> 0, number |-> 1]
  BY <1>1, EmptyIsSized, PushFacts DEF Line
<1>10. BufOK'
  BY <1>1 DEF IInv, BufOK
<1>11. Len(source)' \in Nat /\ p' \in 0..Len(source)'
  BY <1>1, <1>8, LenProperties
<1>12. LinesOK'
  <2>1. Cardinality(Before(0))' = 0
    <3>1. Before(0)' = {}
      BY <1>8, <1>11 DEF Before, Newlines
    <3> QED
      BY <3>1, FS_EmptySet
  <2>2. \A i \in 0..(line_map'.len - 1) : i = 0
    BY <1>9
  <2>3. \A i \in 0..(line_map'.len - 1) :
          /\ Line(i)' \in Lines /\ Line(i)'.number = i + 1
          /\ Cardinality({k \in Newlines' : k < Line(i)'.lo}) = i
    <3>1. Line(0)'.lo = 0 /\ Line(0)'.number = 1 /\ Line(0)' \in Lines
      BY <1>9 DEF Lines
    <3>2. Cardinality({k \in Newlines' : k < 0}) = 0
      BY <2>1 DEF Before
    <3>3. ASSUME NEW i \in 0..(line_map'.len - 1)
          PROVE  /\ Line(i)' \in Lines /\ Line(i)'.number = i + 1
                 /\ Cardinality({k \in Newlines' : k < Line(i)'.lo}) = i
      <4>1. i = 0
        BY <2>2
      <4> QED
        BY <3>1, <3>2, <4>1
    <3> QED
      BY <3>3
  <2>4. Tiled(line_map.len - 1, p)'
    BY <1>1, <1>9 DEF Tiled
  <2> QED
    BY <1>1, <1>9, <2>3, <2>4 DEF LinesOK, Before
<1> QED
  BY <1>1, <1>8, <1>9, <1>10, <1>11, <1>12 DEF IInv

(* What make_line_map writes through prev: the end of the last line. *)
LEMMA LineEnded ==
  ASSUME IInv, pc = "scan", NEW hi \in Nat, NEW w,
         w = Store(line_map, prev, [Element(line_map, prev) EXCEPT !.hi = hi])
  PROVE  /\ Sized(w) /\ w.len = line_map.len /\ w.block = line_map.block
         /\ w.cells[line_map.len - 1] =
              [lo |-> p, hi |-> hi, number |-> line_map.len]
         /\ \A i \in 0..(line_map.len - 2) : w.cells[i] = Line(i)
<1>1. /\ Sized(line_map) /\ line_map.len > 0 /\ prev = LastOf(line_map)
      /\ Line(line_map.len - 1).lo = p
      /\ \A i \in 0..(line_map.len - 1) : Line(i) \in Lines /\ Line(i).number = i + 1
  BY DEF IInv, LinesOK
<1>2. line_map.len \in Nat /\ line_map.len - 1 \in 0..(line_map.len - 1)
  BY <1>1 DEF Sized
<1>3. Element(line_map, prev) = Line(line_map.len - 1)
  BY <1>1 DEF Element, LastOf, Line
<1>4. [Element(line_map, prev) EXCEPT !.hi = hi] = [lo |-> p, hi |-> hi, number |-> line_map.len]
  BY <1>1, <1>2, <1>3 DEF Lines
<1> QED
  BY <1>1, <1>4, StoreFacts DEF Line

(* The lines so far and one more, closed at "hi", are tiled to "hi".       *)
LEMMA TiledFurther ==
  ASSUME IInv, pc = "scan", NEW n, n = line_map.len, NEW hi \in Nat, p < hi,
         \A k \in p..(hi - 2) : k \notin Newlines,
         UNCHANGED source,
         \A i \in 0..(n - 2) : Line(i)' = Line(i),
         Line(n - 1)' = [lo |-> p, hi |-> hi, number |-> n]
  PROVE  Tiled(n, hi)'
<1> DEFINE last == [lo |-> p, hi |-> hi, number |-> n]
<1>1. /\ n \in Nat /\ n > 0 /\ p \in Nat
      /\ \A i \in 0..(n - 1) : Line(i).lo \in Nat /\ Line(i).hi \in Nat
  BY LenProperties DEF IInv, LinesOK, Sized, Lines
<1>2. /\ \A i \in 0..(n - 2) : Line(i).lo < Line(i).hi /\ Line(i).hi <= p /\ Plain(i)
      /\ \A i \in 0..(n - 2) : \A j \in (i + 1)..(n - 2) : Line(i).hi <= Line(j).lo
      /\ \A off \in 0..(p - 1) : \E i \in 0..(n - 2) : OnLine(off, Line(i))
  BY <1>1 DEF IInv, LinesOK, Tiled
<1>3. Newlines' = Newlines
  BY DEF Newlines
<1>4. \A i \in 0..(n - 1) : i \in 0..(n - 2) \/ i = n - 1
  BY <1>1
<1>5. Line(n - 1)' = last /\ \A i \in 0..(n - 2) : Line(i)' = Line(i)
  OBVIOUS
<1>6. ASSUME NEW i \in 0..(n - 1)
      PROVE  Line(i)'.lo < Line(i)'.hi /\ Line(i)'.hi <= hi /\ Plain(i)'
  <2>1. CASE i = n - 1
    BY <1>1, <1>3, <1>5, <2>1 DEF Plain
  <2>2. CASE i \in 0..(n - 2)
    BY <1>1, <1>2, <1>3, <1>5, <2>2 DEF Plain
  <2> QED
    BY <1>4, <2>1, <2>2
<1>7. ASSUME NEW i \in 0..(n - 1), NEW j \in (i + 1)..(n - 1)
      PROVE  Line(i)'.hi <= Line(j)'.lo
  <2>1. i \in 0..(n - 2)
    BY <1>1
  <2>2. CASE j = n - 1
    BY <1>2, <1>5, <2>1, <2>2
  <2>3. CASE j \in (i + 1)..(n - 2)
    <3>1. j \in 0..(n - 2)
      BY <1>1, <2>3
    <3> QED
      BY <1>2, <1>5, <2>1, <2>3, <3>1
  <2> QED
    BY <1>1, <2>2, <2>3
<1>8. ASSUME NEW off \in 0..(hi - 1)
      PROVE  \E i \in 0..(n - 1) : OnLine(off, Line(i)')
  <2>1. CASE off < p
    <3>1. PICK i \in 0..(n - 2) : OnLine(off, Line(i))
      BY <1>1, <1>2, <2>1
    <3>2. i \in 0..(n - 1) /\ OnLine(off, Line(i)')
      BY <1>1, <1>5, <3>1
    <3> QED
      BY <3>2
  <2>2. CASE p <= off
    <3>1. n - 1 \in 0..(n - 1) /\ OnLine(off, Line(n - 1)')
      BY <1>1, <1>5, <2>2 DEF OnLine
    <3> QED
      BY <3>1
  <2> QED
    BY <1>1, <2>1, <2>2
<1> QED
  BY <1>6, <1>7, <1>8 DEF Tiled

(* What the step leaves alone. *)
LEMMA RestInductive ==
  ASSUME IInv, UNCHANGED <<file, buf, source>>, pc = "scan", pc' \in {"scan", "done"}
  PROVE  file' \in Seq(Characters) /\ source' \in Seq(Characters) /\ BufOK'
  BY DEF IInv, BufOK

(* The invariant is kept when make_line_map finds a newline, *)
LEMMA NextLineInductive ==
  ASSUME IInv, NextLine
  PROVE  IInv'
<1> PICK n, q : n = line_map.len /\ q = NextNewline + 1
  OBVIOUS
<1> PICK v : v = Store(line_map, prev, [Element(line_map, prev) EXCEPT !.hi = q])
  OBVIOUS
<1> DEFINE next == [lo |-> q, hi |-> 0, number |-> n + 1]
<1>1. /\ pc = "scan" /\ pc' = "scan" /\ UNCHANGED <<file, buf, source>>
      /\ NewlinesAhead # {} /\ p' = q
      /\ line_map' = Push(v, next) /\ prev' = LastOf(line_map')
  BY DEF NextLine
<1>2. /\ source \in Seq(Characters) /\ p \in 0..Len(source) /\ Len(source) \in Nat
      /\ n \in Nat /\ n > 0
  BY <1>1, LenProperties DEF IInv, LinesOK, Sized
<1>3. /\ NextNewline \in Newlines /\ NextNewline \in p..(Len(source) - 1)
      /\ \A k \in Newlines : k >= p => NextNewline <= k
  BY <1>1, <1>2, NextNewlineFacts
<1>4. /\ q \in Nat /\ p < q /\ q <= Len(source)
      /\ \A k \in p..(q - 2) : k \notin Newlines
  BY <1>2, <1>3
<1>5. /\ Sized(v) /\ v.len = n /\ v.block = line_map.block
      /\ v.cells[n - 1] = [lo |-> p, hi |-> q, number |-> n]
      /\ \A i \in 0..(n - 2) : v.cells[i] = Line(i)
  BY <1>1, <1>4, LineEnded
<1> HIDE DEF next
<1>6. /\ Sized(line_map') /\ line_map'.len = n + 1 /\ line_map'.block = v.block + 1
      /\ Line(n)' = next
      /\ \A i \in 0..(n - 1) : Line(i)' = v.cells[i]
  <2>1. PICK w : w = line_map'
    OBVIOUS
  <2>2. w = Push(v, next)
    BY <1>1, <2>1
  <2>3. /\ Sized(w) /\ w.len = v.len + 1 /\ w.block = v.block + 1
        /\ w.cells[v.len] = next
        /\ \A i \in 0..(v.len - 1) : w.cells[i] = v.cells[i]
    BY <1>5, <2>2, PushFacts
  <2> QED
    BY <1>5, <2>1, <2>3 DEF Line
<1>7. /\ Line(n - 1)' = [lo |-> p, hi |-> q, number |-> n]
      /\ \A i \in 0..(n - 2) : Line(i)' = Line(i)
  <2>1. n - 1 \in 0..(n - 1) /\ \A i \in 0..(n - 2) : i \in 0..(n - 1)
    BY <1>2
  <2>2. Line(n - 1)' = v.cells[n - 1]
    BY <1>6, <2>1
  <2>3. \A i \in 0..(n - 2) : Line(i)' = v.cells[i]
    BY <1>6, <2>1
  <2> QED
    BY <1>5, <2>2, <2>3
<1>8. Tiled(n, q)'
  BY <1>1, <1>2, <1>4, <1>6, <1>7, TiledFurther DEF Sized
<1>9. \A off : Before(off)' = Before(off)
  BY <1>1 DEF Before, Newlines
<1>10. /\ \A i \in 0..(n - 1) : /\ Line(i) \in Lines /\ Line(i).number = i + 1
                                /\ Cardinality(Before(Line(i).lo)) = i
       /\ Line(n - 1).lo = p
  BY <1>1 DEF IInv, LinesOK
<1>11. Cardinality(Before(q)) = n
  <2>1. IsFiniteSet(Before(p)) /\ Newlines \in SUBSET Nat
    BY <1>2, NewlinesFinite
  <2>2. Cardinality(Before(p)) = n - 1
    BY <1>2, <1>10
  <2>3. Before(q) = Before(p) \cup {NextNewline} /\ NextNewline \notin Before(p)
    <3>1. \A k \in Newlines : k < q <=> (k < p \/ k = NextNewline)
      BY <1>2, <1>3, <2>1
    <3>2. ~(NextNewline < p)
      BY <1>2, <1>3
    <3> QED
      BY <1>3, <3>1, <3>2 DEF Before
  <2>4. Cardinality(Before(p) \cup {NextNewline}) = Cardinality(Before(p)) + 1
    BY <2>1, <2>3, FS_AddElement
  <2>5. Cardinality(Before(q)) = Cardinality(Before(p)) + 1
    BY <2>3, <2>4
  <2> QED
    BY <1>2, <2>2, <2>5
<1>12. ASSUME NEW i \in 0..n
       PROVE  /\ Line(i)' \in Lines /\ Line(i)'.number = i + 1
              /\ Cardinality(Before(Line(i)'.lo)) = i
  <2>1. CASE i = n
    BY <1>2, <1>4, <1>6, <1>11, <2>1 DEF Lines, next
  <2>2. CASE i = n - 1
    <3>1. PICK l : l = [lo |-> p, hi |-> q, number |-> n]
      OBVIOUS
    <3>2. l \in Lines /\ l.number = n /\ l.lo = p
      BY <1>2, <1>4, <3>1 DEF Lines
    <3>3. Line(n - 1)' = l
      BY <1>7, <3>1
    <3>4. Line(n - 1).lo = p /\ Cardinality(Before(Line(n - 1).lo)) = n - 1
      BY <1>2, <1>10
    <3>5. Cardinality(Before(l.lo)) = n - 1
      BY <3>2, <3>4
    <3>6. (n - 1) + 1 = n
      BY <1>2
    <3>7. Line(i)' = l /\ l.number = i + 1 /\ Cardinality(Before(l.lo)) = i
      BY <2>2, <3>2, <3>3, <3>5, <3>6
    <3> QED
      BY <3>2, <3>7
  <2>3. CASE i \in 0..(n - 2)
    BY <1>2, <1>7, <1>10, <2>3
  <2> QED
    BY <1>2, <2>1, <2>2, <2>3
<1>13. LinesOK'
  <2>1. line_map'.len > 0 /\ line_map'.len - 1 = n /\ prev' = LastOf(line_map') /\ line_map'.block > 0
    BY <1>1, <1>2, <1>5, <1>6 DEF IInv, Sized
  <2>2. Line(n)'.lo = p'
    BY <1>1, <1>6 DEF next
  <2>3. Tiled(line_map.len - 1, p)'
    BY <1>1, <1>8, <2>1
  <2>4. \A i \in 0..(line_map'.len - 1) :
          /\ Line(i)' \in Lines /\ Line(i)'.number = i + 1
          /\ Cardinality(Before(Line(i).lo)') = i
    BY <1>9, <1>12, <2>1
  <2> QED
    BY <1>1, <2>1, <2>2, <2>3, <2>4 DEF LinesOK
<1> QED
  BY <1>1, <1>2, <1>4, <1>6, <1>13, RestInductive DEF IInv

(* and when it comes to the end. *)
LEMMA LastLineInductive ==
  ASSUME IInv, LastLine
  PROVE  IInv'
<1> PICK n, q : n = line_map.len /\ q = Len(source) + 1
  OBVIOUS
<1>1. /\ pc = "scan" /\ pc' = "done" /\ UNCHANGED <<file, buf, source, p, prev>>
      /\ NewlinesAhead = {}
      /\ line_map' = Store(line_map, prev, [Element(line_map, prev) EXCEPT !.hi = q])
  BY DEF LastLine, EndLine
<1>2. /\ source \in Seq(Characters) /\ p \in 0..Len(source) /\ Len(source) \in Nat
      /\ n \in Nat /\ n > 0
  BY <1>1, LenProperties DEF IInv, LinesOK, Sized
<1>3. /\ q \in Nat /\ p < q
      /\ \A k \in p..(q - 2) : k \notin Newlines
  BY <1>1, <1>2 DEF NewlinesAhead
<1>4. /\ Sized(line_map') /\ line_map'.len = n /\ line_map'.block = line_map.block
      /\ Line(n - 1)' = [lo |-> p, hi |-> q, number |-> n]
      /\ \A i \in 0..(n - 2) : Line(i)' = Line(i)
  BY <1>1, <1>3, LineEnded DEF Line
<1>5. Tiled(n, q)'
  BY <1>1, <1>2, <1>3, <1>4, TiledFurther
<1>6. \A off : Before(off)' = Before(off)
  BY <1>1 DEF Before, Newlines
<1>7. /\ \A i \in 0..(n - 1) : /\ Line(i) \in Lines /\ Line(i).number = i + 1
                               /\ Cardinality(Before(Line(i).lo)) = i
      /\ Line(n - 1).lo = p
  BY <1>1 DEF IInv, LinesOK
<1>8. ASSUME NEW i \in 0..(n - 1)
      PROVE  /\ Line(i)' \in Lines /\ Line(i)'.number = i + 1
             /\ Cardinality(Before(Line(i)'.lo)) = i
  <2>1. CASE i = n - 1
    BY <1>2, <1>3, <1>4, <1>7, <2>1 DEF Lines
  <2>2. CASE i \in 0..(n - 2)
    BY <1>2, <1>4, <1>7, <2>2
  <2> QED
    BY <1>2, <2>1, <2>2
<1>9. LinesOK'
  <2>1. Tiled(line_map.len, Len(source) + 1)'
    BY <1>1, <1>4, <1>5
  <2>2. \A i \in 0..(line_map'.len - 1) :
          /\ Line(i)' \in Lines /\ Line(i)'.number = i + 1
          /\ Cardinality(Before(Line(i).lo)') = i
    BY <1>4, <1>6, <1>8
  <2>3. line_map'.block > 0
    BY <1>1, <1>4 DEF IInv, LinesOK
  <2> QED
    BY <1>1, <1>2, <1>4, <2>1, <2>2, <2>3 DEF LinesOK
<1> QED
  BY <1>1, <1>2, <1>4, <1>9, RestInductive DEF IInv
-----------------------------------------------------------------------------
(* No two lines share an offset. *)
LEMMA OneLine ==
  ASSUME NEW n \in Nat, NEW end, Tiled(n, end), NEW off \in Int,
         \A i \in 0..(n - 1) : Line(i) \in Lines,
         NEW i \in 0..(n - 1), OnLine(off, Line(i)),
         NEW j \in 0..(n - 1), OnLine(off, Line(j))
  PROVE  j = i
<1>1. /\ Line(i).lo \in Nat /\ Line(i).hi \in Nat /\ Line(j).lo \in Nat /\ Line(j).hi \in Nat
  BY DEF Lines
<1>2. ~(i < j)
  <2> SUFFICES ASSUME i < j PROVE FALSE
    OBVIOUS
  <2>1. j \in (i + 1)..(n - 1)
    OBVIOUS
  <2> QED
    BY <1>1, <2>1 DEF Tiled, OnLine
<1>3. ~(j < i)
  <2> SUFFICES ASSUME j < i PROVE FALSE
    OBVIOUS
  <2>1. i \in (j + 1)..(n - 1)
    OBVIOUS
  <2> QED
    BY <1>1, <2>1 DEF Tiled, OnLine
<1> QED
  BY <1>2, <1>3

(* The invariant implies that every offset is on its line.                 *)
LEMMA LinesOfOffsets ==
  ASSUME IInv
  PROVE  EveryOffsetOnItsLine
<1>1. TypeOK
  <2>1. pc \in {"scan", "done"} => \A i \in 0..(line_map.len - 1) : Line(i) \in Lines
    BY DEF IInv, LinesOK
  <2>2. \A it \in Pointers(line_map) : Element(line_map, it) \in Lines
    <3>1. CASE pc \in {"scan", "done"}
      BY <2>1, <3>1 DEF Pointers, Element, Line
    <3>2. CASE pc \in {"slurp", "isource"}
      BY <3>2, EmptyIsSized DEF Pointers, IInv
    <3> QED
      BY <3>1, <3>2 DEF IInv
  <2>3. pc = "scan" => prev \in Pointers(line_map)
    <3> SUFFICES ASSUME pc = "scan" PROVE prev \in Pointers(line_map)
      OBVIOUS
    <3>1. prev = LastOf(line_map) /\ line_map.len \in Nat /\ line_map.len > 0
      BY DEF IInv, LinesOK, Sized
    <3> QED
      BY <3>1 DEF LastOf, Pointers
  <2> QED
    BY <2>2, <2>3 DEF TypeOK, IInv, Sized, BufOK
<1>2. ASSUME pc = "done", NEW off \in 0..Len(source)
      PROVE  \E it \in Pointers(line_map) :
               /\ {jt \in Pointers(line_map) : OnLine(off, Element(line_map, jt))} = {it}
               /\ Element(line_map, it).number = Cardinality({k \in Newlines : k < off}) + 1
  <2> DEFINE n == line_map.len
  <2>1. /\ n \in Nat /\ Len(source) \in Nat /\ source \in Seq(Characters)
        /\ \A i \in 0..(n - 1) : /\ Line(i) \in Lines /\ Line(i).number = i + 1
                                 /\ Cardinality(Before(Line(i).lo)) = i
        /\ Tiled(n, Len(source) + 1)
    BY <1>2, LenProperties DEF IInv, LinesOK, Sized
  <2>2. PICK i \in 0..(n - 1) : OnLine(off, Line(i))
    BY <2>1 DEF Tiled
  <2> DEFINE it == [block |-> line_map.block, index |-> i]
  <2>3. it \in Pointers(line_map) /\ Element(line_map, it) = Line(i)
    BY DEF Pointers, Element, Line
  <2>4. \A j \in 0..(n - 1) : Line(j).lo \in Nat /\ Line(j).hi \in Nat
    BY <2>1 DEF Lines
  <2>5. ASSUME NEW jt \in Pointers(line_map), OnLine(off, Element(line_map, jt))
        PROVE  jt = it
    <3>1. PICK j \in 0..(n - 1) : jt = [block |-> line_map.block, index |-> j]
      BY DEF Pointers
    <3>2. OnLine(off, Line(j))
      BY <2>5, <3>1 DEF Element, Line
    <3>3. j = i
      BY <2>1, <2>2, <3>2, OneLine
    <3> QED
      BY <3>1, <3>3
  <2>6. Before(off) = Before(Line(i).lo)
    <3>1. Newlines \in SUBSET Nat
      BY <2>1, NewlinesFinite
    <3>2. Plain(i)
      BY <2>1 DEF Tiled
    <3>3. ASSUME NEW k \in Newlines PROVE k < off <=> k < Line(i).lo
      <4>1. k \in Nat /\ off \in Nat /\ Line(i).lo <= off /\ off < Line(i).hi
        BY <2>1, <2>2, <3>1 DEF OnLine
      <4>2. k \notin Line(i).lo..(Line(i).hi - 2)
        BY <3>2 DEF Plain
      <4> QED
        BY <2>4, <4>1, <4>2
    <3> QED
      BY <3>3 DEF Before
  <2>7. Element(line_map, it).number = Cardinality(Before(off)) + 1
    BY <2>1, <2>3, <2>6
  <2>8. {jt \in Pointers(line_map) : OnLine(off, Element(line_map, jt))} = {it}
    BY <2>2, <2>3, <2>5
  <2> QED
    BY <2>3, <2>7, <2>8 DEF Before
<1> QED
  BY <1>1, <1>2 DEF EveryOffsetOnItsLine

(* It is kept by every step. *)
LEMMA NextInductive ==
  ASSUME IInv, [Next]_vars
  PROVE  IInv'
<1>1. CASE UNCHANGED vars
  <2>1. UNCHANGED <<file, buf, source, p, line_map, prev, pc>>
    BY <1>1 DEF vars
  <2> QED
    BY <2>1 DEF IInv, BufOK, LinesOK, Tiled, Plain, Before, Line, Newlines, Sized
<1>2. QED
  BY <1>1, SlurpInductive, IsourceInductive, NextLineInductive, LastLineInductive DEF Next

(* In every reachable state of Source. *)
LEMMA SourceInductive == Spec => []IInv
  BY InitInductive, NextInductive, PTL DEF Spec

(* For every file, once the line map is made, each offset of the source    *)
(* and that of its '\0' is on exactly one line, with the right number:     *)
(* get_line_number and emitdiag find the line of any location.             *)
THEOREM OffsetsOnLines == Spec => []EveryOffsetOnItsLine
  BY SourceInductive, LinesOfOffsets, PTL
-----------------------------------------------------------------------------
(* get_source_line is recursive along the vector.  At(i) is a pointer to   *)
(* the line i, and it returns the one on which "off" is.                   *)
At(i) == [block |-> line_map.block, index |-> i]
Walks(f, off) ==
  f = [it \in Pointers(line_map) \cup {Null} |->
         LET n == VecNext(line_map, it)
         IN  IF n = Null THEN Null
             ELSE IF OnLine(off, Element(line_map, n)) THEN n ELSE f[n]]

(* The pointers into the line map, as vec_next gives them: one for each    *)
(* line, in their order.                                                   *)
LEMMA PointerFacts ==
  ASSUME IInv, pc = "done"
  PROVE  /\ line_map.len \in Nat /\ line_map.len > 0
         /\ \A i \in 0..(line_map.len - 1) :
              At(i) \in Pointers(line_map) /\ At(i) # Null /\ Element(line_map, At(i)) = Line(i)
         /\ Pointers(line_map) = {At(i) : i \in 0..(line_map.len - 1)}
         /\ VecNext(line_map, Null) = At(0)
         /\ \A i \in 0..(line_map.len - 1) :
              VecNext(line_map, At(i)) = IF i + 1 < line_map.len THEN At(i + 1) ELSE Null
<1>1. line_map.len \in Nat /\ line_map.len > 0 /\ line_map.block \in Nat /\ line_map.block > 0
  BY DEF IInv, LinesOK, Sized
<1>2. \A i : At(i) # Null /\ Element(line_map, At(i)) = Line(i)
  BY <1>1 DEF At, Null, Element, Line
<1>3. Pointers(line_map) = {At(i) : i \in 0..(line_map.len - 1)}
  <2>1. ASSUME NEW it \in Pointers(line_map) PROVE it = At(it.index) /\ it.index \in 0..(line_map.len - 1)
    BY DEF Pointers, At
  <2>2. \A i \in 0..(line_map.len - 1) : At(i) \in Pointers(line_map)
    BY DEF Pointers, At
  <2> QED
    BY <2>1, <2>2
<1>4. VecNext(line_map, Null) = At(0)
  BY <1>1 DEF VecNext, Get, At
<1>5. ASSUME NEW i \in 0..(line_map.len - 1)
      PROVE  VecNext(line_map, At(i)) = IF i + 1 < line_map.len THEN At(i + 1) ELSE Null
  <2>1. IndexOf(line_map, At(i)) = i
    BY DEF IndexOf, At
  <2> QED
    BY <1>1, <1>2, <2>1 DEF VecNext, Get, At
<1> QED
  BY <1>1, <1>2, <1>3, <1>4, <1>5

(* get_source_line finds the line that an offset is on, if there is        *)
(* exactly one.                                                            *)
LEMMA LineFound ==
  ASSUME IInv, pc = "done", NEW off, NEW i \in 0..(line_map.len - 1),
         OnLine(off, Line(i)),
         \A j \in 0..(line_map.len - 1) : OnLine(off, Line(j)) => j = i
  PROVE  GetSourceLine(off) = At(i)
<1> PICK n : n = line_map.len
  OBVIOUS
<1>1. /\ n \in Nat /\ n > 0
      /\ \A j \in 0..(n - 1) :
           At(j) \in Pointers(line_map) /\ At(j) # Null /\ Element(line_map, At(j)) = Line(j)
      /\ Pointers(line_map) = {At(j) : j \in 0..(n - 1)}
      /\ VecNext(line_map, Null) = At(0)
      /\ \A j \in 0..(n - 1) :
           VecNext(line_map, At(j)) = IF j + 1 < n THEN At(j + 1) ELSE Null
  BY PointerFacts
<1>2. \E f : Walks(f, off)
  <2> DEFINE Sees(it) == IF it = Null THEN TRUE ELSE it.index < i
             f == [it \in Pointers(line_map) \cup {Null} |-> IF Sees(it) THEN At(i) ELSE Null]
             step(it) == LET m == VecNext(line_map, it)
                         IN  IF m = Null THEN Null
                             ELSE IF OnLine(off, Element(line_map, m)) THEN m ELSE f[m]
  <2>1. \A j \in 0..(n - 1) : f[At(j)] = IF j < i THEN At(i) ELSE Null
    BY <1>1 DEF At
  <2>2. f[Null] = At(i)
    OBVIOUS
  <2> HIDE DEF f
  <2>3. f[Null] = step(Null)
    BY <1>1, <2>1, <2>2
  <2>4. ASSUME NEW j \in 0..(n - 1) PROVE f[At(j)] = step(At(j))
    <3>1. CASE j + 1 < n
      <4>1. j + 1 \in 0..(n - 1) /\ VecNext(line_map, At(j)) = At(j + 1)
        BY <1>1, <3>1
      <4>2. At(j + 1) # Null /\ Element(line_map, At(j + 1)) = Line(j + 1)
        BY <1>1, <4>1
      <4>3. OnLine(off, Line(j + 1)) <=> j + 1 = i
        BY <4>1
      <4>4. step(At(j)) = IF j + 1 = i THEN At(j + 1) ELSE f[At(j + 1)]
        BY <4>1, <4>2, <4>3
      <4>5. f[At(j + 1)] = IF j + 1 < i THEN At(i) ELSE Null
        BY <2>1, <4>1
      <4>6. f[At(j)] = IF j < i THEN At(i) ELSE Null
        BY <2>1
      <4> QED
        BY <1>1, <4>4, <4>5, <4>6
    <3>2. CASE ~(j + 1 < n)
      <4>1. ~(j < i) /\ VecNext(line_map, At(j)) = Null
        BY <1>1, <3>2
      <4> QED
        BY <2>1, <4>1
    <3> QED
      BY <3>1, <3>2
  <2>5. \A it \in Pointers(line_map) \cup {Null} : f[it] = step(it)
    BY <1>1, <2>3, <2>4
  <2>6. f = [it \in Pointers(line_map) \cup {Null} |-> f[it]]
    BY DEF f
  <2>7. Walks(f, off)
    BY <2>5, <2>6 DEF Walks
  <2> QED
    BY <2>7
<1>3. PICK f : f = (CHOOSE g : Walks(g, off)) /\ Walks(f, off)
  BY <1>2
<1>4. GetSourceLine(off) = f[Null]
  BY <1>3 DEF GetSourceLine, Walks
<1> DEFINE step(it) == LET m == VecNext(line_map, it)
                       IN  IF m = Null THEN Null
                           ELSE IF OnLine(off, Element(line_map, m)) THEN m ELSE f[m]
<1>9. \A it \in Pointers(line_map) \cup {Null} : f[it] = step(it)
  BY <1>3 DEF Walks
<1>5. f[Null] = IF OnLine(off, Line(0)) THEN At(0) ELSE f[At(0)]
  <2>1. 0 \in 0..(n - 1)
    BY <1>1
  <2>2. At(0) # Null /\ Element(line_map, At(0)) = Line(0) /\ VecNext(line_map, Null) = At(0)
    BY <1>1, <2>1
  <2>3. f[Null] = step(Null)
    BY <1>9
  <2> QED
    BY <2>2, <2>3
<1>6. ASSUME NEW j \in 0..(n - 1), j + 1 < n
      PROVE  f[At(j)] = IF OnLine(off, Line(j + 1)) THEN At(j + 1) ELSE f[At(j + 1)]
  <2>1. j + 1 \in 0..(n - 1) /\ VecNext(line_map, At(j)) = At(j + 1)
    BY <1>1, <1>6
  <2>2. At(j + 1) # Null /\ Element(line_map, At(j + 1)) = Line(j + 1)
    BY <1>1, <2>1
  <2>3. f[At(j)] = step(At(j))
    BY <1>1, <1>9
  <2> QED
    BY <2>1, <2>2, <2>3
<1> DEFINE good == {j \in 0..i : f[Null] = IF j = i THEN At(i) ELSE f[At(j)]}
<1>7. ASSUME NEW j \in 0..i, j = 0 \/ j - 1 \in good PROVE j \in good
  <2>1. CASE j = 0
    BY <1>1, <1>5, <2>1
  <2>2. CASE j # 0
    <3>1. PICK k : k = j - 1
      OBVIOUS
    <3>2. k \in 0..(n - 1) /\ k + 1 < n /\ j = k + 1 /\ k # i /\ j \in 0..(n - 1)
      BY <1>1, <2>2, <3>1
    <3>3. f[Null] = f[At(k)]
      BY <1>7, <2>2, <3>1, <3>2
    <3>4. f[At(k)] = IF OnLine(off, Line(j)) THEN At(j) ELSE f[At(j)]
      BY <1>6, <3>2
    <3>5. OnLine(off, Line(j)) <=> j = i
      BY <3>2
    <3> QED
      BY <3>3, <3>4, <3>5
  <2> QED
    BY <2>1, <2>2
<1>8. \A j \in 0..i : j \in good
  <2>1. i \in Nat
    BY <1>1
  <2>2. \A j \in 0..i : (j = 0 \/ j - 1 \in good) => j \in good
    BY <1>7
  <2> HIDE DEF good
  <2> QED
    BY <2>1, <2>2, UpTo
<1> QED
  BY <1>1, <1>4, <1>8

(* So the cursor of emitdiag is on its character, in a line. *)
LEMMA CursorsOfOffsets ==
  ASSUME IInv
  PROVE  CursorOnLine
<1> SUFFICES ASSUME pc = "done", NEW off \in 0..Len(source)
             PROVE  LET line == LineAt(off) IN
                    /\ GetSourceLine(off) # Null /\ OnLine(off, line)
                    /\ \A k \in line.lo..(line.hi - 2) : k \notin Newlines
                    /\ Column(off) >= 0 /\ line.lo + Column(off) = off
                    /\ \A hi \in off..(Len(source) + 1) :
                         Span(off, hi) >= 0 /\ Column(off) + Span(off, hi) <= line.hi - line.lo
  BY DEF CursorOnLine
<1> DEFINE n == line_map.len
<1>1. /\ n \in Nat /\ Len(source) \in Nat
      /\ \A i \in 0..(n - 1) : Line(i) \in Lines
      /\ Tiled(n, Len(source) + 1)
  BY LenProperties DEF IInv, LinesOK, Sized
<1>2. PICK i \in 0..(n - 1) : OnLine(off, Line(i))
  BY <1>1 DEF Tiled
<1>3. \A j \in 0..(n - 1) : OnLine(off, Line(j)) => j = i
  BY <1>1, <1>2, OneLine
<1>4. GetSourceLine(off) = At(i)
  BY <1>2, <1>3, LineFound
<1>5. PICK line : line = Line(i)
  OBVIOUS
<1>6. LineAt(off) = line /\ GetSourceLine(off) # Null
  BY <1>4, <1>5, PointerFacts DEF LineAt
<1>7. /\ line.lo \in Nat /\ line.hi \in Nat /\ line.lo <= off /\ off < line.hi
      /\ \A k \in line.lo..(line.hi - 2) : k \notin Newlines
  BY <1>1, <1>2, <1>5 DEF Lines, OnLine, Tiled, Plain
<1>8. Column(off) = off - line.lo
  BY <1>6 DEF Column
<1>9. ASSUME NEW hi \in off..(Len(source) + 1)
      PROVE  Span(off, hi) >= 0 /\ Column(off) + Span(off, hi) <= line.hi - line.lo
  <2>1. Span(off, hi) = (IF line.hi <= hi THEN line.hi ELSE hi) - off
    BY <1>6 DEF Span, Smaller
  <2> QED
    BY <1>1, <1>7, <1>8, <2>1
<1>10. Column(off) >= 0 /\ line.lo + Column(off) = off
  BY <1>1, <1>7, <1>8
<1> QED
  BY <1>6, <1>7, <1>9, <1>10 DEF OnLine

(* For every file and location, emitdiag finds a line; what it underlines  *)
(* starts at the location's first character and ends within that line.     *)
THEOREM CursorsOnLines == Spec => []CursorOnLine
  BY SourceInductive, CursorsOfOffsets, PTL
-----------------------------------------------------------------------------
(* What slurp and isource make of the file: a beginning of it, up to its   *)
(* end or a byte that ends it, with its blanks replaced.                   *)
Copied(n) == \A i \in 0..(n - 1) : buf.cells[i] = file[i + 1] /\ file[i + 1] \notin EndingBytes \ {Zero}
EndsAt(n) == n = Len(file) \/ (n < Len(file) /\ file[n + 1] \in EndingBytes)
SourceOfFile ==
  /\ Len(source) <= Len(file) /\ EndsAt(Len(source))
  /\ \A k \in 0..(Len(source) - 1) :
       source[k + 1] = Normalised(file[k + 1]) /\ file[k + 1] \notin EndingBytes
Reads ==
  /\ pc = "slurp" => buf.len <= Len(file) /\ Copied(buf.len)
  /\ pc = "isource" => EndsAt(buf.len - 1) /\ Copied(buf.len - 1)
  /\ pc \in {"scan", "done"} => SourceOfFile

(* What the source says of the file holds before it is read, *)
LEMMA ReadsInit == Init => Reads
<1> SUFFICES ASSUME Init PROVE Reads
  OBVIOUS
<1>1. file \in Seq(Characters)
  BY SourceAssumption DEF Init
<1>2. pc = "slurp" /\ buf.len = 0 /\ Len(file) \in Nat
  BY <1>1, EmptyIsSized, LenProperties DEF Init
<1> QED
  BY <1>2 DEF Reads, Copied

(* after slurp, *)
LEMMA ReadsSlurp ==
  ASSUME IInv, Reads, Slurp
  PROVE  Reads'
<1>1. pc = "slurp" /\ pc' \in {"slurp", "isource"} /\ file' = file
  BY DEF Slurp
<1> PICK n, len : n = buf.len /\ len = Len(file)
  OBVIOUS
<1>2. /\ n \in Nat /\ len \in Nat /\ n <= len /\ Sized(buf)
      /\ \A i \in 0..(n - 1) : buf.cells[i] = file[i + 1] /\ file[i + 1] \notin EndingBytes \ {Zero}
  BY <1>1, LenProperties DEF IInv, BufOK, Sized, Reads, Copied
<1>3. CASE n < len /\ file[n + 1] \notin EndingBytes \ {Zero}
  <2>1. PICK w : w = buf'
    OBVIOUS
  <2>2. w = Push(buf, file[n + 1]) /\ pc' = pc
    BY <1>3, <2>1 DEF Slurp
  <2>3. /\ w.len = n + 1 /\ w.cells[n] = file[n + 1]
        /\ \A i \in 0..(n - 1) : w.cells[i] = buf.cells[i]
    BY <1>2, <2>2, PushFacts
  <2>4. \A i \in 0..n : w.cells[i] = file[i + 1] /\ file[i + 1] \notin EndingBytes \ {Zero}
    <3>1. ASSUME NEW i \in 0..n
          PROVE  w.cells[i] = file[i + 1] /\ file[i + 1] \notin EndingBytes \ {Zero}
      <4>1. CASE i = n
        BY <1>3, <2>3, <4>1
      <4>2. CASE i \in 0..(n - 1)
        BY <1>2, <2>3, <4>2
      <4> QED
        BY <1>2, <4>1, <4>2
    <3> QED
      BY <3>1
  <2>5. n + 1 <= len /\ (n + 1) - 1 = n
    BY <1>2, <1>3
  <2> QED
    BY <1>1, <2>1, <2>2, <2>3, <2>4, <2>5 DEF Reads, Copied
<1>4. CASE ~(n < len /\ file[n + 1] \notin EndingBytes \ {Zero})
  <2>1. PICK w : w = buf'
    OBVIOUS
  <2>2. w = Push(buf, Zero) /\ pc' = "isource"
    BY <1>4, <2>1 DEF Slurp
  <2>3. /\ w.len = n + 1
        /\ \A i \in 0..(n - 1) : w.cells[i] = buf.cells[i]
    BY <1>2, <2>2, PushFacts
  <2>4. w.len - 1 = n
    BY <1>2, <2>3
  <2>5. EndsAt(n)
    BY <1>2, <1>4 DEF EndsAt
  <2> QED
    BY <1>1, <1>2, <2>1, <2>2, <2>3, <2>4, <2>5 DEF Reads, Copied, EndsAt
<1> QED
  BY <1>3, <1>4

(* after isource, which replaces some blanks, *)
LEMMA ReadsIsource ==
  ASSUME IInv, Reads, Isource
  PROVE  Reads'
<1>1. pc = "isource" /\ pc' = "scan" /\ file' = file
  BY DEF Isource
<1> PICK n : n = buf.len
  OBVIOUS
<1>2. /\ n \in Nat /\ n > 0 /\ Len(file) \in Nat
      /\ EndsAt(n - 1)
      /\ \A i \in 0..(n - 2) : buf.cells[i] = file[i + 1] /\ file[i + 1] \notin EndingBytes \ {Zero}
  <2>0. n \in Nat
    BY DEF IInv, BufOK, Sized
  <2>1. \A i \in 0..(n - 2) : i \in 0..((n - 1) - 1)
    BY <2>0
  <2> QED
    BY <1>1, <2>1, LenProperties DEF IInv, BufOK, Sized, Reads, Copied
<1>3. PICK len \in 0..(n - 1) : NewSource(len)
  BY SourceRead
<1>4. /\ Len(source') = len
      /\ buf.cells[len] = Zero
      /\ \A k \in 0..(len - 1) : buf.cells[k] # Zero /\ source'[k + 1] = Normalised(buf.cells[k])
  BY <1>3 DEF NewSource
<1>5. ASSUME NEW k \in 0..(len - 1)
      PROVE  source'[k + 1] = Normalised(file[k + 1]) /\ file[k + 1] \notin EndingBytes
  <2>1. k \in 0..(n - 2)
    BY <1>2
  <2>2. buf.cells[k] # Zero /\ source'[k + 1] = Normalised(buf.cells[k])
    BY <1>4
  <2> QED
    BY <1>2, <2>1, <2>2
<1>6. EndsAt(len) /\ len <= Len(file)
  <2>1. CASE len = n - 1
    BY <1>2, <2>1 DEF EndsAt
  <2>2. CASE len # n - 1
    <3>1. len \in 0..(n - 2) /\ len < Len(file)
      BY <1>2, <2>2 DEF EndsAt
    <3>2. file[len + 1] = Zero
      BY <1>2, <1>4, <3>1
    <3> QED
      BY <1>2, <3>1, <3>2, SourceAssumption DEF EndsAt
  <2> QED
    BY <2>1, <2>2
<1>7. SourceOfFile'
  <2>1. PICK s : s = source'
    OBVIOUS
  <2> QED
    BY <1>1, <1>4, <1>5, <1>6 DEF SourceOfFile, EndsAt
<1> QED
  BY <1>1, <1>7 DEF Reads

(* and is kept by every step. *)
LEMMA ReadsInductive ==
  ASSUME IInv, Reads, [Next]_vars
  PROVE  Reads'
<1>1. CASE UNCHANGED vars
  BY <1>1 DEF vars, Reads, Copied, EndsAt, SourceOfFile
<1>2. CASE NextLine \/ LastLine
  BY <1>2 DEF NextLine, LastLine, EndLine, Reads, EndsAt, SourceOfFile
<1>3. CASE Slurp
  BY <1>3, ReadsSlurp
<1>4. CASE Isource
  BY <1>4, ReadsIsource
<1> QED
  BY <1>1, <1>2, <1>3, <1>4 DEF Next
-----------------------------------------------------------------------------
(* A character of the source, and the text of a piece, which is in the     *)
(* file: they agree on all characters that the lexer tells apart.          *)
Reading == file \in Seq(Characters) /\ source \in Seq(Characters) /\ SourceOfFile
Ordinary == Letters \cup Digits \cup Punctuation
Same(c, d) == \A x \in Ordinary \cup {Newline} : c = x <=> d = x

(* A character of the source is that of the file, or both are blanks. *)
LEMMA CharFacts ==
  ASSUME Reading, NEW k \in 0..(Len(source) - 1)
  PROVE  /\ Char(k) \in Characters /\ Char(k) # Nul
         /\ file[k + 1] \in Characters /\ Same(Char(k), file[k + 1])
         /\ Char(k) \in Blanks => file[k + 1] \in Blanks \cup OtherBlanks
<1>1. Len(source) \in Nat /\ Len(file) \in Nat /\ Len(source) <= Len(file)
  BY LenProperties DEF Reading, SourceOfFile
<1>2. k + 1 \in 1..Len(source) /\ k + 1 \in 1..Len(file)
  BY <1>1
<1>3. source[k + 1] \in Characters /\ file[k + 1] \in Characters
  BY <1>2, ElementOfSeq DEF Reading
<1>4. Char(k) = source[k + 1] /\ Char(k) = Normalised(file[k + 1])
  BY <1>1 DEF Char, Reading, SourceOfFile
<1>5. \A x \in Ordinary \cup {Newline} : x \notin OtherBlanks /\ x # Space
  BY LexerAssumption, SourceAssumption DEF Ordinary
<1> QED
  BY <1>3, <1>4, <1>5, LexerAssumption DEF Normalised, Same, Blanks

(* The terminator is no character of any set the lexer looks for. *)
LEMMA NulFacts ==
  /\ Nul \notin Ordinary /\ Nul \notin Blanks /\ Nul # Newline
  /\ \A k \in Int : k >= Len(source) /\ Reading => Char(k) = Nul
<1>1. Nul \notin Blanks /\ Nul # Newline
  BY LexerAssumption, SourceAssumption DEF Blanks
<1>2. Nul \notin Ordinary
  BY DEF Nul, Ordinary, Letters, Digits, Punctuation
<1>3. ASSUME NEW k \in Int, k >= Len(source), Reading PROVE Char(k) = Nul
  BY <1>3, LenProperties DEF Char, Reading
<1> QED
  BY <1>1, <1>2, <1>3

(* The ordinary characters are of three different sorts, and none is blank. *)
LEMMA Sorts ==
  /\ Letters \cap Digits = {} /\ Letters \cap Punctuation = {} /\ Digits \cap Punctuation = {}
  /\ HexDigits \subseteq Ordinary /\ Digits \subseteq HexDigits
  /\ Ordinary \cap Blanks = {}
<1>1. Ordinary \cap Blanks = {}
  BY LexerAssumption DEF Ordinary, Blanks
<1> QED
  BY <1>1 DEF Letters, Digits, Punctuation, HexDigits, Ordinary

(* So is each character of a text. *)
LEMMA TextFacts ==
  ASSUME Reading, NEW l \in Nat, NEW h \in l..Len(source), NEW t, t = Text(l, h)
  PROVE  /\ t \in Seq(Characters) /\ Len(t) = h - l
         /\ \A i \in 1..(h - l) : t[i] = file[l + i] /\ Same(Char(l + i - 1), t[i])
<1>1. Len(source) \in Nat /\ h \in Nat /\ l <= h /\ h <= Len(source)
  BY LenProperties DEF Reading
<1>2. \A i \in (l + 1)..h : file[i] \in Characters /\ Same(Char(i - 1), file[i])
  <2>1. ASSUME NEW i \in (l + 1)..h PROVE file[i] \in Characters /\ Same(Char(i - 1), file[i])
    <3>1. i - 1 \in 0..(Len(source) - 1) /\ (i - 1) + 1 = i
      BY <1>1
    <3> QED
      BY <3>1, CharFacts
  <2> QED
    BY <2>1
<1>3. /\ t \in Seq(Characters) /\ Len(t) = (IF l + 1 <= h THEN h - (l + 1) + 1 ELSE 0)
      /\ \A i \in 1..(h - (l + 1) + 1) : t[i] = file[(l + 1) + i - 1]
  BY <1>1, <1>2, SubSeqProperties DEF Text
<1>4. Len(t) = h - l
  BY <1>1, <1>3
<1>5. ASSUME NEW i \in 1..(h - l) PROVE t[i] = file[l + i] /\ Same(Char(l + i - 1), t[i])
  <2>1. i \in 1..(h - (l + 1) + 1) /\ (l + 1) + i - 1 = l + i /\ l + i \in (l + 1)..h
    BY <1>1
  <2>2. t[i] = file[l + i]
    BY <1>3, <2>1
  <2> QED
    BY <1>2, <2>1, <2>2
<1> QED
  BY <1>3, <1>4, <1>5

(* That the rest of a text is in a set says the same of the source. *)
LEMMA AllInText ==
  ASSUME Reading, NEW l \in Nat, NEW h \in l..Len(source), NEW k \in Nat, k >= 1,
         NEW S, S \subseteq Ordinary
  PROVE  AllIn(Text(l, h), k, S) <=> \A j \in (l + k - 1)..(h - 1) : Char(j) \in S
<1> PICK t : t = Text(l, h)
  OBVIOUS
<1>0. Len(source) \in Nat
  BY LenProperties DEF Reading
<1>1. h \in Nat /\ Len(t) = h - l /\ \A i \in 1..(h - l) : Same(Char(l + i - 1), t[i])
  <2>1. h \in Nat
    BY <1>0
  <2> QED
    BY <2>1, TextFacts
<1>2. \A i \in 1..(h - l) : t[i] \in S <=> Char(l + i - 1) \in S
  BY <1>1 DEF Same
<1>3. ASSUME AllIn(t, k, S), NEW j \in (l + k - 1)..(h - 1) PROVE Char(j) \in S
  <2>1. PICK i : i = j - l + 1
    OBVIOUS
  <2>2. i \in k..Len(t) /\ i \in 1..(h - l) /\ l + i - 1 = j
    BY <1>1, <2>1
  <2> QED
    BY <1>2, <1>3, <2>2 DEF AllIn
<1>4. ASSUME \A j \in (l + k - 1)..(h - 1) : Char(j) \in S, NEW i \in k..Len(t) PROVE t[i] \in S
  <2>1. i \in 1..(h - l) /\ l + i - 1 \in (l + k - 1)..(h - 1)
    BY <1>1
  <2> QED
    BY <1>2, <1>4, <2>1
<1> QED
  BY <1>3, <1>4 DEF AllIn

(* A loop over the characters of a set stops at the first other one. *)
LEMMA SkipFacts ==
  ASSUME Reading, NEW k \in 0..Len(source), NEW S, Nul \notin S, NEW e, e = SkipFrom(k, S)
  PROVE  /\ e \in k..Len(source) /\ Char(e) \notin S
         /\ \A i \in k..(e - 1) : Char(i) \in S
<1>1. Len(source) \in Nat
  BY LenProperties DEF Reading
<1> DEFINE stops == {j \in k..Len(source) : Char(j) \notin S}
<1>2. stops \in SUBSET Nat /\ Len(source) \in stops
  BY <1>1, NulFacts
<1>3. PICK j \in stops : \A i \in stops : j <= i
  BY <1>2, HasLeast
<1>4. \A i \in k..(j - 1) : Char(i) \in S
  <2>1. ASSUME NEW i \in k..(j - 1), Char(i) \notin S PROVE FALSE
    <3>1. i \in k..Len(source) /\ ~(j <= i)
      BY <1>1
    <3> QED
      BY <1>3, <2>1, <3>1
  <2> QED
    BY <2>1
<1>5. j \in k..Len(source) /\ Char(j) \notin S
  OBVIOUS
<1> HIDE DEF stops
<1> QED
  BY <1>4, <1>5 DEF SkipFrom

(* It stops where it starts, if it starts there. *)
LEMMA SkipNothing ==
  ASSUME Reading, NEW k \in 0..Len(source), NEW S, Nul \notin S, Char(k) \notin S
  PROVE  SkipFrom(k, S) = k
<1>1. PICK e : e = SkipFrom(k, S)
  OBVIOUS
<1>2. e \in k..Len(source) /\ \A i \in k..(e - 1) : Char(i) \in S
  BY <1>1, SkipFacts
<1>3. e \in Int /\ k \in Int /\ (k < e => k \in k..(e - 1))
  BY <1>2
<1> QED
  BY <1>1, <1>2, <1>3
-----------------------------------------------------------------------------
(* The tokens, by the characters of the source from l to h.                *)
NameSet   == Letters \cup Digits
NumberSet == Letters \cup Digits \cup {"."}
WordAt(l, h)   == Char(l) \in Letters /\ \A j \in (l + 1)..(h - 1) : Char(j) \in NameSet
NumberAt(l, h) == Char(l) \in Digits /\ \A j \in (l + 1)..(h - 1) : Char(j) \in NumberSet
IntegerAt(l, h) ==
  /\ Char(l) \in Digits
  /\ \/ \A j \in (l + 1)..(h - 1) : Char(j) \in Digits
     \/ /\ h >= l + 2 /\ Char(l) = "0"
        /\ \/ Char(l + 1) = "x" /\ \A j \in (l + 2)..(h - 1) : Char(j) \in HexDigits
           \/ Char(l + 1) = "b" /\ \A j \in (l + 2)..(h - 1) : Char(j) \in Digits
Spelled(c, d, e, n) ==
  \/ n = 1 /\ c \in Punctuation
  \/ n = 2 /\ \/ c \in WithAssign /\ d = "="
              \/ c \in Doubled /\ d = c
              \/ c = "-" /\ d = ">"
  \/ n = 3 /\ ((c \in Shifting /\ d = c /\ e = "=") \/ (c = "." /\ d = "." /\ e = "."))
PunctuatorAt(l, h) == Spelled(Char(l), Char(l + 1), Char(l + 2), h - l)
TokenAt(l, h) == WordAt(l, h) \/ NumberAt(l, h) \/ PunctuatorAt(l, h)

(* The digits are what they are. *)
LEMMA DigitSets ==
  /\ {"0", "1"} \subseteq Digits /\ Digits \subseteq HexDigits /\ HexDigits \subseteq Ordinary
  /\ Nul \notin {"0", "1"} /\ Nul \notin Digits /\ Nul \notin HexDigits
  BY DEF Digits, HexDigits, Ordinary, Letters, Nul

(* A short sequence is the tuple of its elements. *)
LEMMA ShortSequences ==
  ASSUME NEW S, NEW t \in Seq(S)
  PROVE  /\ Len(t) = 1 => t = <<t[1]>>
         /\ Len(t) = 2 => t = <<t[1], t[2]>>
         /\ Len(t) = 3 => t = <<t[1], t[2], t[3]>>
<1>1. t \in [1..Len(t) -> S] /\ Len(t) \in Nat
  BY LenProperties
<1>2. CASE Len(t) = 1
  BY <1>1, <1>2
<1>3. CASE Len(t) = 2
  BY <1>1, <1>3
<1>4. CASE Len(t) = 3
  BY <1>1, <1>4
<1> QED
  BY <1>2, <1>3, <1>4

(* A punctuator of the table, character by character: what the macros of   *)
(* yylex compare, and the arrow.                                           *)
Pairs   == {<<"!", "=">>, <<"%", "=">>, <<"&", "&">>, <<"&", "=">>, <<"*", "=">>, <<"+", "+">>,
            <<"+", "=">>, <<"-", "-">>, <<"-", "=">>, <<"-", ">">>, <<"/", "=">>, <<":", ":">>,
            <<"<", "<">>, <<"<", "=">>, <<"=", "=">>, <<">", "=">>, <<">", ">">>, <<"^", "=">>,
            <<"|", "=">>, <<"|", "|">>}
Triples == {<<".", ".", ".">>, <<"<", "<", "=">>, <<">", ">", "=">>}

(* The pairs of the table are the comparisons of the lexer, and the arrow. *)
LEMMA PairsSpelled ==
  ASSUME NEW c, NEW d
  PROVE  <<c, d>> \in Pairs <=> Spelled(c, d, d, 2)
<1>1. <<c, d>> \in Pairs =>
        \/ c \in WithAssign /\ d = "="
        \/ c \in Doubled /\ d = c
        \/ c = "-" /\ d = ">"
  BY SMTT(60) DEF Pairs, WithAssign, Doubled
<1>2. c \in WithAssign /\ d = "=" => <<c, d>> \in Pairs
  BY SMTT(60) DEF Pairs, WithAssign
<1>3. c \in Doubled /\ d = c => <<c, d>> \in Pairs
  BY SMTT(60) DEF Pairs, Doubled
<1>4. c = "-" /\ d = ">" => <<c, d>> \in Pairs
  BY DEF Pairs
<1> QED
  BY <1>1, <1>2, <1>3, <1>4 DEF Spelled

(* So are the triples, with the three dots. *)
LEMMA TriplesSpelled ==
  ASSUME NEW c, NEW d, NEW e
  PROVE  <<c, d, e>> \in Triples <=> Spelled(c, d, e, 3)
<1>1. <<c, d, e>> \in Triples =>
        (c \in Shifting /\ d = c /\ e = "=") \/ (c = "." /\ d = "." /\ e = ".")
  BY DEF Triples, Shifting
<1>2. c \in Shifting /\ d = c /\ e = "=" => <<c, d, e>> \in Triples
  BY DEF Triples, Shifting
<1>3. c = "." /\ d = "." /\ e = "." => <<c, d, e>> \in Triples
  BY DEF Triples
<1> QED
  BY <1>1, <1>2, <1>3 DEF Spelled

(* A text is a punctuator of the table if it is spelled as one. *)
LEMMA PunctuatorSpelled ==
  ASSUME NEW S, NEW t \in Seq(S)
  PROVE  t \in Punctuators <=> Spelled(t[1], t[2], t[3], Len(t))
<1>1. t \in Punctuators <=> t \in {<<c>> : c \in Punctuation} \/ t \in Pairs \/ t \in Triples
  BY DEF Punctuators, Pairs, Triples
<1>2. /\ t \in {<<c>> : c \in Punctuation} => Len(t) = 1
      /\ t \in Pairs => Len(t) = 2
      /\ t \in Triples => Len(t) = 3
  BY DEF Pairs, Triples
<1>3. CASE Len(t) = 1
  <2>1. t = <<t[1]>>
    BY <1>3, ShortSequences
  <2>2. t \in {<<c>> : c \in Punctuation} <=> t[1] \in Punctuation
    BY <2>1
  <2> QED
    BY <1>1, <1>2, <1>3, <2>2 DEF Spelled
<1>4. CASE Len(t) = 2
  <2>1. t = <<t[1], t[2]>>
    BY <1>4, ShortSequences
  <2>2. t \in Pairs <=> Spelled(t[1], t[2], t[2], 2)
    BY <2>1, PairsSpelled
  <2>3. Spelled(t[1], t[2], t[2], 2) <=> Spelled(t[1], t[2], t[3], 2)
    BY DEF Spelled
  <2> QED
    BY <1>1, <1>2, <1>4, <2>2, <2>3
<1>5. CASE Len(t) = 3
  <2>1. t = <<t[1], t[2], t[3]>>
    BY <1>5, ShortSequences
  <2>2. t \in Triples <=> Spelled(t[1], t[2], t[3], 3)
    BY <2>1, TriplesSpelled
  <2> QED
    BY <1>1, <1>2, <1>5, <2>2
<1>6. CASE Len(t) \notin {1, 2, 3}
  BY <1>1, <1>2, <1>6 DEF Spelled
<1> QED
  BY <1>3, <1>4, <1>5, <1>6

(* Whether a text is a token or an integer can be told from the characters *)
(* of the source.                                                          *)
LEMMA TokensByCharacter ==
  ASSUME Reading, NEW l \in Nat, NEW h \in (l + 1)..Len(source)
  PROVE  /\ IsToken(Text(l, h)) <=> TokenAt(l, h)
         /\ IsInteger(Text(l, h)) <=> IntegerAt(l, h)
<1> PICK t : t = Text(l, h)
  OBVIOUS
<1>0. Len(source) \in Nat
  BY LenProperties DEF Reading
<1>1. h \in l..Len(source) /\ h \in Nat
  BY <1>0
<1>2. /\ t \in Seq(Characters) /\ Len(t) = h - l /\ Len(t) >= 1
      /\ \A i \in 1..(h - l) : Same(Char(l + i - 1), t[i])
  <2>1. /\ t \in Seq(Characters) /\ Len(t) = h - l
        /\ \A i \in 1..(h - l) : Same(Char(l + i - 1), t[i])
    BY <1>1, TextFacts
  <2>2. h - l >= 1
    BY <1>0
  <2> QED
    BY <2>1, <2>2
<1>3. Same(Char(l), t[1])
  <2>1. 1 \in 1..(h - l) /\ l + 1 - 1 = l
    BY <1>1
  <2> QED
    BY <1>2, <2>1
<1>4. h >= l + 2 => Same(Char(l + 1), t[2])
  <2>1. h >= l + 2 => 2 \in 1..(h - l) /\ l + 2 - 1 = l + 1
    BY <1>1
  <2> QED
    BY <1>2, <2>1
<1>5. h >= l + 3 => Same(Char(l + 2), t[3])
  <2>1. h >= l + 3 => 3 \in 1..(h - l) /\ l + 3 - 1 = l + 2
    BY <1>1
  <2> QED
    BY <1>2, <2>1
<1>6. t # <<>>
  BY <1>2
<1>7. ASSUME NEW S, S \subseteq Ordinary
      PROVE  /\ AllIn(t, 1, S) <=> \A j \in l..(h - 1) : Char(j) \in S
             /\ AllIn(t, 2, S) <=> \A j \in (l + 1)..(h - 1) : Char(j) \in S
             /\ AllIn(t, 3, S) <=> \A j \in (l + 2)..(h - 1) : Char(j) \in S
  <2>1. l + 1 - 1 = l /\ l + 2 - 1 = l + 1 /\ l + 3 - 1 = l + 2
    OBVIOUS
  <2>2. AllIn(t, 1, S) <=> \A j \in (l + 1 - 1)..(h - 1) : Char(j) \in S
    BY <1>1, <1>7, AllInText
  <2>3. AllIn(t, 2, S) <=> \A j \in (l + 2 - 1)..(h - 1) : Char(j) \in S
    BY <1>1, <1>7, AllInText
  <2>4. AllIn(t, 3, S) <=> \A j \in (l + 3 - 1)..(h - 1) : Char(j) \in S
    BY <1>1, <1>7, AllInText
  <2> QED
    BY <2>1, <2>2, <2>3, <2>4
<1>8. /\ Letters \subseteq Ordinary /\ Digits \subseteq Ordinary /\ HexDigits \subseteq Ordinary
      /\ NameSet \subseteq Ordinary /\ NumberSet \subseteq Ordinary
  BY Sorts DEF Ordinary, Punctuation, NameSet, NumberSet
<1>9. (IsWord(t) <=> WordAt(l, h)) /\ (IsNumber(t) <=> NumberAt(l, h))
  <2>1. /\ t[1] \in Letters <=> Char(l) \in Letters
        /\ t[1] \in Digits <=> Char(l) \in Digits
    BY <1>3, <1>8 DEF Same
  <2>2. AllIn(t, 2, NameSet) <=> \A j \in (l + 1)..(h - 1) : Char(j) \in NameSet
    BY <1>7, <1>8
  <2>3. AllIn(t, 2, NumberSet) <=> \A j \in (l + 1)..(h - 1) : Char(j) \in NumberSet
    BY <1>7, <1>8
  <2>4. IsWord(t) <=> t[1] \in Letters /\ AllIn(t, 2, NameSet)
    BY <1>6 DEF IsWord, NameSet
  <2>5. IsNumber(t) <=> t[1] \in Digits /\ AllIn(t, 2, NumberSet)
    BY <1>6 DEF IsNumber, NumberSet
  <2> QED
    BY <2>1, <2>2, <2>3, <2>4, <2>5 DEF WordAt, NumberAt
<1>10. IsInteger(t) <=> IntegerAt(l, h)
  <2>1. t[1] \in Digits <=> Char(l) \in Digits
    BY <1>3, <1>8 DEF Same
  <2>2. t[1] = "0" <=> Char(l) = "0"
    BY <1>3 DEF Same, Ordinary, Digits
  <2>3. h >= l + 2 => (t[2] = "x" <=> Char(l + 1) = "x") /\ (t[2] = "b" <=> Char(l + 1) = "b")
    BY <1>4 DEF Same, Ordinary, Letters
  <2>4. Len(t) >= 2 <=> h >= l + 2
    BY <1>1, <1>2
  <2> QED
    BY <1>6, <1>7, <1>8, <2>1, <2>2, <2>3, <2>4 DEF IsInteger, IntegerAt
<1>11. t \in Punctuators <=> PunctuatorAt(l, h)
  <2>1. t \in Punctuators <=> Spelled(t[1], t[2], t[3], h - l)
    BY <1>2, PunctuatorSpelled
  <2>2. Punctuation \subseteq Ordinary /\ WithAssign \subseteq Punctuation
        /\ Doubled \subseteq Punctuation /\ Shifting \subseteq Punctuation
        /\ {"=", ".", "-", ">"} \subseteq Punctuation
    BY DEF Ordinary, Punctuation, WithAssign, Doubled, Shifting
  <2>3. \A x \in Punctuation : t[1] = x <=> Char(l) = x
    BY <1>3, <2>2 DEF Same
  <2>4. h >= l + 2 => \A x \in Punctuation : t[2] = x <=> Char(l + 1) = x
    BY <1>4, <2>2 DEF Same
  <2>5. h >= l + 3 => \A x \in Punctuation : t[3] = x <=> Char(l + 2) = x
    BY <1>5, <2>2 DEF Same
  <2>6. CASE h - l = 1
    BY <2>1, <2>3, <2>6 DEF Spelled, PunctuatorAt
  <2>7. CASE h - l = 2
    <3>1. h >= l + 2
      BY <1>1, <2>7
    <3>2. t[1] \in WithAssign /\ t[2] = "=" <=> Char(l) \in WithAssign /\ Char(l + 1) = "="
      BY <2>2, <2>3, <2>4, <3>1
    <3>3. t[1] \in Doubled /\ t[2] = t[1] <=> Char(l) \in Doubled /\ Char(l + 1) = Char(l)
      BY <2>2, <2>3, <2>4, <3>1
    <3>4. t[1] = "-" /\ t[2] = ">" <=> Char(l) = "-" /\ Char(l + 1) = ">"
      BY <2>2, <2>3, <2>4, <3>1
    <3> QED
      BY <2>1, <2>7, <3>2, <3>3, <3>4 DEF Spelled, PunctuatorAt
  <2>8. CASE h - l = 3
    <3>1. h >= l + 2 /\ h >= l + 3
      BY <1>1, <2>8
    <3>2. t[1] \in Shifting /\ t[2] = t[1] /\ t[3] = "="
            <=> Char(l) \in Shifting /\ Char(l + 1) = Char(l) /\ Char(l + 2) = "="
      BY <2>2, <2>3, <2>4, <2>5, <3>1
    <3>3. t[1] = "." /\ t[2] = "." /\ t[3] = "."
            <=> Char(l) = "." /\ Char(l + 1) = "." /\ Char(l + 2) = "."
      BY <2>2, <2>3, <2>4, <2>5, <3>1
    <3> QED
      BY <2>1, <2>8, <3>2, <3>3 DEF Spelled, PunctuatorAt
  <2> QED
    BY <2>1, <2>6, <2>7, <2>8 DEF Spelled, PunctuatorAt
<1> QED
  BY <1>9, <1>10, <1>11 DEF IsToken, TokenAt

(* What the property says of a word, an integer or a punctuator: a token,  *)
(* with a longer one at its place just when it is cut short.               *)
LongestInteger(q) ==
  IsInteger(Text(q.lo, q.hi)) /\ \A h \in Longer(q) : ~IsInteger(Text(q.lo, h))
Longest(q) ==
  /\ q.lo < q.hi /\ q.hi <= Len(source)
  /\ IsToken(Text(q.lo, q.hi))
  /\ LongerToken(q) <=> CutShort(q)
  /\ q.kind = "integer" => LongestInteger(q)

(* The same of the characters of the source. *)
LongerAt(k, h) == \E g \in (h + 1)..Len(source) : TokenAt(k, g)
LongestIntegerAt(k, h) ==
  IntegerAt(k, h) /\ \A g \in (h + 1)..Len(source) : ~IntegerAt(k, g)

(* They say the same. *)
LEMMA LongestByCharacter ==
  ASSUME Reading, NEW k \in Nat, NEW h \in (k + 1)..Len(source), NEW kind,
         NEW q, q = [kind |-> kind, lo |-> k, hi |-> h],
         TokenAt(k, h), LongerAt(k, h) <=> CutShort(q),
         kind = "integer" => LongestIntegerAt(k, h)
  PROVE  Longest(q)
<1>0. Len(source) \in Nat
  BY LenProperties DEF Reading
<1>1. q.kind = kind /\ q.lo = k /\ q.hi = h
  OBVIOUS
<1>2. \A g \in (h + 1)..Len(source) : g \in (k + 1)..Len(source)
  BY <1>0
<1>3. k < h /\ h <= Len(source)
  BY <1>0
<1>4. LongerToken(q) <=> LongerAt(k, h)
  BY <1>1, <1>2, TokensByCharacter DEF LongerToken, Longer, LongerAt
<1>5. LongestInteger(q) <=> LongestIntegerAt(k, h)
  BY <1>1, <1>2, TokensByCharacter DEF LongestInteger, Longer, LongestIntegerAt
<1>6. IsToken(Text(k, h))
  BY TokensByCharacter
<1> QED
  BY <1>1, <1>3, <1>4, <1>5, <1>6 DEF Longest

(* A token that goes on ends after the character it goes on with. *)
LEMMA OneFurther ==
  ASSUME Reading, NEW k \in Nat, NEW h \in (k + 1)..Len(source), Char(h) # Nul
  PROVE  /\ h + 1 \in (h + 1)..Len(source)
         /\ \A j \in (k + 1)..(h + 1 - 1) : j = h \/ j \in (k + 1)..(h - 1)
<1>0. Len(source) \in Nat /\ h \in Int
  BY LenProperties DEF Reading
<1>1. h < Len(source)
  <2>1. h >= Len(source) => Char(h) = Nul
    BY <1>0, NulFacts
  <2> QED
    BY <1>0, <2>1
<1> QED
  BY <1>0, <1>1

(* The loop of identifiers and keywords stops at the end of the longest    *)
(* word, or at a digit in it,                                              *)
LEMMA WordIsLongest ==
  ASSUME Reading, NEW k \in 0..(Len(source) - 1), Char(k) \in Letters,
         NEW h, h = SkipFrom(k + 1, Letters)
  PROVE  Longest([kind |-> "word", lo |-> k, hi |-> h])
<1>0. Len(source) \in Nat
  BY LenProperties DEF Reading
<1> PICK q, kind : kind = "word" /\ q = [kind |-> kind, lo |-> k, hi |-> h]
  OBVIOUS
<1>1. k + 1 \in 0..Len(source) /\ k \in Nat
  BY <1>0
<1>2. Nul \notin Letters /\ Nul \notin Digits
  BY NulFacts, DigitSets DEF Ordinary
<1>3. /\ h \in (k + 1)..Len(source) /\ Char(h) \notin Letters
      /\ \A i \in (k + 1)..(h - 1) : Char(i) \in Letters
  BY <1>1, <1>2, SkipFacts
<1>4. TokenAt(k, h)
  BY <1>3 DEF TokenAt, WordAt, NameSet
<1>5. CutShort(q) <=> Char(h) \in Digits
  BY DEF CutShort
<1>6. ASSUME NEW g \in (h + 1)..Len(source), TokenAt(k, g) PROVE Char(h) \in Digits
  <2>1. h \in (k + 1)..(g - 1)
    BY <1>1, <1>3
  <2>2. ~NumberAt(k, g)
    BY Sorts DEF NumberAt
  <2>3. ~PunctuatorAt(k, g)
    BY DEF PunctuatorAt, Spelled, Letters, Punctuation, WithAssign, Doubled, Shifting
  <2>4. WordAt(k, g)
    BY <1>6, <2>2, <2>3 DEF TokenAt
  <2> QED
    BY <1>3, <2>1, <2>4 DEF WordAt, NameSet
<1>7. ASSUME Char(h) \in Digits PROVE LongerAt(k, h)
  <2>1. /\ h + 1 \in (h + 1)..Len(source)
        /\ \A j \in (k + 1)..(h + 1 - 1) : j = h \/ j \in (k + 1)..(h - 1)
    BY <1>1, <1>2, <1>3, <1>7, OneFurther
  <2>2. WordAt(k, h + 1)
    BY <1>3, <1>7, <2>1 DEF WordAt, NameSet
  <2> QED
    BY <2>1, <2>2 DEF LongerAt, TokenAt
<1>8. LongerAt(k, h) <=> CutShort(q)
  BY <1>5, <1>6, <1>7 DEF LongerAt
<1>9. kind # "integer"
  OBVIOUS
<1> QED
  BY <1>1, <1>3, <1>4, <1>8, <1>9, LongestByCharacter

(* Where an integer ends: the digits after its prefix, if it has one, and  *)
(* after them those of base 10.                                            *)
IntegerShape(k, h) ==
  /\ h \in (k + 1)..Len(source) /\ Char(h) \notin Digits
  /\ \/ /\ Char(k) # "0" \/ Char(k + 1) \notin {"x", "b"}
        /\ \A j \in (k + 1)..(h - 1) : Char(j) \in Digits
     \/ /\ Char(k) = "0" /\ Char(k + 1) = "x" /\ h >= k + 2 /\ Char(h) \notin HexDigits
        /\ \A j \in (k + 2)..(h - 1) : Char(j) \in HexDigits
     \/ /\ Char(k) = "0" /\ Char(k + 1) = "b" /\ h >= k + 2
        /\ \A j \in (k + 2)..(h - 1) : Char(j) \in Digits

(* What the loops of integers read, with or without a prefix, is an        *)
(* integer,                                                                *)
LEMMA IntegerRead ==
  ASSUME Reading, NEW k \in 0..(Len(source) - 1), Char(k) \in Digits
  PROVE  IntegerShape(k, IntegerEnd(k))
<1>0. Len(source) \in Nat /\ k \in Nat /\ k + 1 \in 0..Len(source)
  BY LenProperties DEF Reading
<1> PICK h : h = IntegerEnd(k)
  OBVIOUS
<1>1. Char(k + 1) # Nul => k + 2 \in 0..Len(source)
  <2>1. ASSUME ~(k + 2 \in 0..Len(source)) PROVE Char(k + 1) = Nul
    <3>1. k + 1 \in Int /\ k + 1 >= Len(source)
      BY <1>0, <2>1
    <3> QED
      BY <3>1, NulFacts
  <2> QED
    BY <2>1
<1>2. CASE Char(k) # "0" \/ Char(k + 1) \notin {"x", "b"}
  <2>1. h = SkipFrom(k + 1, Digits)
    BY <1>2 DEF IntegerEnd
  <2>2. /\ h \in (k + 1)..Len(source) /\ Char(h) \notin Digits
        /\ \A i \in (k + 1)..(h - 1) : Char(i) \in Digits
    BY <1>0, <2>1, SkipFacts, DigitSets
  <2> QED
    BY <1>2, <2>2 DEF IntegerShape
<1>3. CASE Char(k) = "0" /\ Char(k + 1) = "x"
  <2>1. k + 2 \in 0..Len(source)
    BY <1>1, <1>3 DEF Nul
  <2>2. PICK e : e = SkipFrom(k + 2, HexDigits)
    OBVIOUS
  <2>3. /\ e \in (k + 2)..Len(source) /\ Char(e) \notin HexDigits
        /\ \A i \in (k + 2)..(e - 1) : Char(i) \in HexDigits
    BY <2>1, <2>2, SkipFacts, DigitSets
  <2>4. h = SkipFrom(e, Digits)
    BY <1>3, <2>2 DEF IntegerEnd
  <2>5. e \in 0..Len(source) /\ Char(e) \notin Digits
    BY <1>0, <2>3, DigitSets
  <2>6. h = e
    BY <2>4, <2>5, SkipNothing, DigitSets
  <2>7. h \in (k + 1)..Len(source) /\ h >= k + 2
    BY <1>0, <2>3, <2>6
  <2> QED
    BY <1>3, <2>3, <2>5, <2>6, <2>7 DEF IntegerShape
<1>4. CASE Char(k) = "0" /\ Char(k + 1) = "b"
  <2>1. k + 2 \in 0..Len(source)
    BY <1>1, <1>4 DEF Nul
  <2>2. PICK S, e : S = {"0", "1"} /\ e = SkipFrom(k + 2, S)
    OBVIOUS
  <2>3. /\ e \in (k + 2)..Len(source)
        /\ \A i \in (k + 2)..(e - 1) : Char(i) \in S
    <3>1. Nul \notin S
      BY <2>2, DigitSets
    <3> QED
      BY <2>1, <2>2, <3>1, SkipFacts
  <2>4. h = SkipFrom(e, Digits)
    BY <1>4, <2>2 DEF IntegerEnd
  <2>5. e \in 0..Len(source)
    BY <1>0, <2>3
  <2>6. /\ h \in e..Len(source) /\ Char(h) \notin Digits
        /\ \A i \in e..(h - 1) : Char(i) \in Digits
    BY <2>4, <2>5, SkipFacts, DigitSets
  <2>7. h \in (k + 1)..Len(source) /\ h >= k + 2
    BY <1>0, <2>3, <2>6
  <2>8. \A j \in (k + 2)..(h - 1) : j \in (k + 2)..(e - 1) \/ j \in e..(h - 1)
    BY <1>0, <2>3, <2>6
  <2>9. \A j \in (k + 2)..(h - 1) : Char(j) \in Digits
    BY <2>2, <2>3, <2>6, <2>8, DigitSets
  <2> QED
    BY <1>4, <2>6, <2>7, <2>9 DEF IntegerShape
<1> QED
  BY <1>2, <1>3, <1>4

(* which is a number of C, *)
LEMMA IntegerIsNumber ==
  ASSUME NEW k \in Nat, NEW h \in Int, IntegerAt(k, h)
  PROVE  NumberAt(k, h)
<1>1. Digits \subseteq NumberSet /\ HexDigits \subseteq NumberSet /\ {"x", "b"} \subseteq NumberSet
  BY DEF Digits, HexDigits, Letters, NumberSet
<1>2. Char(k) \in Digits
  BY DEF IntegerAt
<1>3. CASE \A j \in (k + 1)..(h - 1) : Char(j) \in Digits
  BY <1>1, <1>2, <1>3 DEF NumberAt
<1>4. CASE /\ Char(k + 1) \in {"x", "b"}
           /\ \A j \in (k + 2)..(h - 1) : Char(j) \in HexDigits \cup Digits
  <2>1. \A j \in (k + 1)..(h - 1) : j = k + 1 \/ j \in (k + 2)..(h - 1)
    OBVIOUS
  <2> QED
    BY <1>1, <1>2, <1>4, <2>1 DEF NumberAt
<1> QED
  BY <1>3, <1>4 DEF IntegerAt

(* the longest integer, and the longest number if neither a suffix nor a   *)
(* dot follows,                                                            *)
LEMMA IntegerIsLongest ==
  ASSUME Reading, NEW k \in 0..(Len(source) - 1), Char(k) \in Digits,
         NEW h, h = IntegerEnd(k)
  PROVE  Longest([kind |-> "integer", lo |-> k, hi |-> h])
<1>0. Len(source) \in Nat /\ k \in Nat
  BY LenProperties DEF Reading
<1> PICK q, kind : kind = "integer" /\ q = [kind |-> kind, lo |-> k, hi |-> h]
  OBVIOUS
<1>1. IntegerShape(k, h)
  BY IntegerRead
<1>2. h \in (k + 1)..Len(source) /\ Char(h) \notin Digits /\ h \in Int
  BY <1>0, <1>1 DEF IntegerShape
<1>3. IntegerAt(k, h)
  BY <1>1 DEF IntegerShape, IntegerAt
<1>4. NumberAt(k, h) /\ TokenAt(k, h)
  BY <1>0, <1>2, <1>3, IntegerIsNumber DEF TokenAt
<1>5. CutShort(q) <=> Char(h) \in Letters \cup {"."}
  BY DEF CutShort
<1>6. ASSUME NEW g \in (h + 1)..Len(source)
      PROVE  /\ ~IntegerAt(k, g)
             /\ TokenAt(k, g) => Char(h) \in Letters \cup {"."}
  <2>1. h \in (k + 1)..(g - 1) /\ h \in Int
    BY <1>0, <1>2
  <2>2. ~WordAt(k, g)
    BY Sorts DEF WordAt
  <2>3. ~PunctuatorAt(k, g)
    BY DEF PunctuatorAt, Spelled, Digits, Punctuation, WithAssign, Doubled, Shifting
  <2>4. ~(\A j \in (k + 1)..(g - 1) : Char(j) \in Digits)
    BY <1>2, <2>1
  <2>5. h >= k + 2 => h \in (k + 2)..(g - 1)
    BY <1>0, <2>1
  <2>6. ~IntegerAt(k, g)
    <3>1. CASE Char(k) # "0" \/ Char(k + 1) \notin {"x", "b"}
      BY <2>4, <3>1 DEF IntegerAt
    <3>2. CASE Char(k) = "0" /\ Char(k + 1) = "x"
      <4>1. h >= k + 2 /\ Char(h) \notin HexDigits
        BY <1>1, <3>2 DEF IntegerShape
      <4> QED
        BY <2>4, <2>5, <3>2, <4>1 DEF IntegerAt
    <3>3. CASE Char(k) = "0" /\ Char(k + 1) = "b"
      <4>1. h >= k + 2
        BY <1>1, <3>3 DEF IntegerShape
      <4> QED
        BY <1>2, <2>4, <2>5, <3>3, <4>1 DEF IntegerAt
    <3> QED
      BY <3>1, <3>2, <3>3
  <2>7. NumberAt(k, g) => Char(h) \in Letters \cup {"."}
    BY <1>2, <2>1 DEF NumberAt, NumberSet
  <2> QED
    BY <2>2, <2>3, <2>6, <2>7 DEF TokenAt
<1>7. ASSUME Char(h) \in Letters \cup {"."} PROVE LongerAt(k, h)
  <2>1. Char(h) # Nul
    BY <1>7, NulFacts DEF Ordinary, Nul
  <2>2. /\ h + 1 \in (h + 1)..Len(source)
        /\ \A j \in (k + 1)..(h + 1 - 1) : j = h \/ j \in (k + 1)..(h - 1)
    BY <1>0, <1>2, <2>1, OneFurther
  <2>3. NumberAt(k, h + 1)
    <3>1. Char(h) \in NumberSet
      BY <1>7 DEF NumberSet
    <3>2. Char(k) \in Digits /\ \A j \in (k + 1)..(h - 1) : Char(j) \in NumberSet
      BY <1>4 DEF NumberAt
    <3> QED
      BY <1>0, <1>2, <2>2, <3>1, <3>2 DEF NumberAt
  <2> QED
    BY <2>2, <2>3 DEF LongerAt, TokenAt
<1>8. LongerAt(k, h) <=> CutShort(q)
  BY <1>5, <1>6, <1>7 DEF LongerAt
<1>9. LongestIntegerAt(k, h)
  BY <1>3, <1>6 DEF LongestIntegerAt
<1> QED
  BY <1>0, <1>2, <1>4, <1>8, <1>9, LongestByCharacter

(* and the comparisons for punctuators take the longest of them, but for   *)
(* the arrow.                                                              *)
LEMMA PunctuatorIsLongest ==
  ASSUME Reading, NEW k \in 0..(Len(source) - 1), Char(k) \in Punctuation \ {"."},
         NEW h, h = PunctuatorEnd(k)
  PROVE  Longest([kind |-> "punctuator", lo |-> k, hi |-> h])
<1>0. Len(source) \in Nat /\ k \in Nat
  BY LenProperties DEF Reading
<1> PICK q, kind : kind = "punctuator" /\ q = [kind |-> kind, lo |-> k, hi |-> h]
  OBVIOUS
<1>1. \A j \in Int : Char(j) # Nul => j < Len(source)
  BY <1>0, NulFacts
<1>2. Nul \notin Doubled /\ Nul # "=" /\ Nul # ">"
  BY DEF Nul, Doubled
<1>3. /\ h \in Int
      /\ \/ h = k + 3 /\ Char(k) \in Shifting /\ Char(k + 1) = Char(k) /\ Char(k + 2) = "="
         \/ /\ h = k + 2
            /\ \/ Char(k) \in Doubled /\ Char(k + 1) = Char(k)
               \/ Char(k) \in WithAssign /\ Char(k + 1) = "="
            /\ ~(Char(k) \in Shifting /\ Char(k + 1) = Char(k) /\ Char(k + 2) = "=")
         \/ /\ h = k + 1
            /\ ~(Char(k) \in Doubled /\ Char(k + 1) = Char(k))
            /\ ~(Char(k) \in WithAssign /\ Char(k + 1) = "=")
            /\ ~(Char(k) \in Shifting /\ Char(k + 1) = Char(k) /\ Char(k + 2) = "=")
  BY <1>0 DEF PunctuatorEnd
<1>4. h \in (k + 1)..Len(source)
  <2>1. CASE h = k + 3
    <3>1. k + 2 \in Int /\ Char(k + 2) # Nul
      BY <1>0, <1>2, <1>3, <2>1
    <3>2. k + 2 < Len(source)
      BY <1>1, <3>1
    <3> QED
      BY <1>0, <2>1, <3>2
  <2>2. CASE h = k + 2
    <3>1. k + 1 \in Int /\ Char(k + 1) # Nul
      BY <1>0, <1>2, <1>3, <2>2
    <3>2. k + 1 < Len(source)
      BY <1>1, <3>1
    <3> QED
      BY <1>0, <2>2, <3>2
  <2>3. CASE h = k + 1
    BY <1>0, <2>3
  <2> QED
    BY <1>3, <2>1, <2>2, <2>3
<1>5. TokenAt(k, h)
  BY <1>0, <1>3 DEF TokenAt, PunctuatorAt, Spelled
<1>6. CutShort(q) <=> h = k + 1 /\ Char(k) = "-" /\ Char(h) = ">"
  BY DEF CutShort
<1>7. ASSUME NEW g \in (h + 1)..Len(source), TokenAt(k, g)
      PROVE  h = k + 1 /\ Char(k) = "-" /\ Char(h) = ">"
  <2>1. g \in Int /\ h \in Int
    BY <1>0, <1>4
  <2>2. ~WordAt(k, g) /\ ~NumberAt(k, g)
    BY Sorts DEF WordAt, NumberAt
  <2>3. PunctuatorAt(k, g)
    BY <1>7, <2>2 DEF TokenAt
  <2>4. g - k # 1
    BY <1>0, <1>4
  <2>5. g - k = 2 => h = k + 1
    BY <1>0, <1>4
  <2>6. g - k = 3 => h = k + 1 \/ h = k + 2
    BY <1>0, <1>4
  <2>7. Char(k) # "." /\ Shifting \subseteq Doubled
    BY DEF Shifting, Doubled
  <2> QED
    BY <1>0, <1>3, <2>1, <2>3, <2>4, <2>5, <2>6, <2>7 DEF PunctuatorAt, Spelled
<1>8. ASSUME h = k + 1, Char(k) = "-", Char(h) = ">" PROVE LongerAt(k, h)
  <2>1. h < Len(source)
    BY <1>1, <1>2, <1>3, <1>8
  <2>2. k + 2 \in (h + 1)..Len(source) /\ (k + 2) - k = 2
    BY <1>0, <1>8, <2>1
  <2>3. PunctuatorAt(k, k + 2)
    BY <1>8, <2>2 DEF PunctuatorAt, Spelled
  <2> QED
    BY <2>2, <2>3 DEF LongerAt, TokenAt
<1>9. LongerAt(k, h) <=> CutShort(q)
  BY <1>6, <1>7, <1>8 DEF LongerAt
<1>10. kind # "integer"
  OBVIOUS
<1> QED
  BY <1>0, <1>4, <1>5, <1>9, <1>10, LongestByCharacter
-----------------------------------------------------------------------------
(* The invariant of the lexer.  The pieces so far, the place where the     *)
(* next one begins, and what was read of a comment that has not ended.     *)
Kinds  == {"blank", "word", "integer", "punctuator", "dot", "unexpected", "comment", "end"}
Pieces == [kind : Kinds, lo : Nat, hi : Nat]

PieceFits(q) ==
  /\ q.lo < q.hi /\ q.hi <= Len(source) + 1
  /\ q.kind = "blank" => Text(q.lo, q.hi)[1] \in Blanks \cup OtherBlanks
  /\ q.kind = "end" => q.lo = Len(file) \/ file[q.lo + 1] \in EndingBytes
  /\ q.kind = "comment" =>
       IsBlock(Text(q.lo, q.hi))
       \/ (/\ IsLine(Text(q.lo, q.hi))
           /\ Text(q.lo, q.hi)[Len(Text(q.lo, q.hi))] = Newline \/ q.hi = Len(source))
  /\ q.kind \in {"word", "integer", "punctuator"} => Longest(q)
PiecesOK ==
  /\ pieces \in Seq(Pieces)
  /\ \A n \in 1..Len(pieces) :
       pieces[n].lo = (IF n = 1 THEN 0 ELSE pieces[n - 1].hi) /\ PieceFits(pieces[n])

Cursor == IF pieces = <<>> THEN 0 ELSE Last.hi
InComment(star) ==
  /\ lo = Cursor /\ lo + 2 <= sp /\ sp <= Len(source)
  /\ Char(lo) = "/" /\ Char(lo + 1) = IF star THEN "*" ELSE "/"
  /\ \A i \in (lo + 2)..(sp - 1) :
       IF star THEN ~(Char(i) = "*" /\ Char(i + 1) = "/") ELSE Char(i) # Newline
TokenOK(q) ==
  /\ q.kind \in {"word", "integer", "punctuator", "dot", "unexpected"}
  /\ q.kind # "dot" => q.hi <= Len(source)
  /\ q.kind = "integer" =>
       q.lo < Len(source) /\ Char(q.lo) \in Digits /\ q.hi = IntegerEnd(q.lo)
CursorOK ==
  /\ sp \in Nat /\ lo \in Nat
  /\ at = "yylex" => sp = Cursor /\ sp <= Len(source)
  /\ at = "comment" => InComment(TRUE)
  /\ at = "commentl" => InComment(FALSE)
  /\ at \in {"parser", "make_iconst"} => pieces # <<>> /\ sp = Last.hi /\ TokenOK(Last)
  /\ at = "make_iconst" => Last.kind = "integer"

LInv ==
  /\ IInv /\ Reads
  /\ at \in {"isource", "yylex", "comment", "commentl", "parser", "make_iconst",
             "end of file", "refused", "aborted"}
  /\ at = "isource" => sp = 0 /\ lo = 0 /\ pieces = <<>> /\ iconst.outcome = "none"
  /\ at # "isource" => pc = "done" /\ PiecesOK /\ CursorOK /\ ConstantsAreTokens

(* The invariant implies the property, which says the same of each piece. *)
LEMMA PiecesTile ==
  ASSUME LInv
  PROVE  SourceIsTiled
<1>1. CASE at = "isource"
  BY <1>1 DEF LInv, SourceIsTiled
<1>2. CASE at # "isource"
  BY <1>2 DEF LInv, PiecesOK, PieceFits, Longest, LongestInteger, SourceIsTiled
<1> QED
  BY <1>1, <1>2

(* After isource the lexer reads. *)
LEMMA ReadingFacts ==
  ASSUME LInv, at # "isource"
  PROVE  Reading /\ Len(source) \in Nat /\ pc = "done"
  BY LenProperties DEF LInv, IInv, Reads, Reading

(* What yylex, the parser and make_iconst leave alone. *)
LEMMA SourceKept ==
  ASSUME LInv, at # "isource", UNCHANGED vars
  PROVE  IInv' /\ Reads' /\ pc' = "done"
  BY NextInductive, ReadsInductive DEF LInv, vars

(* A piece of the source stays one as the lexer goes on, *)
LEMMA PieceKept ==
  ASSUME UNCHANGED vars, NEW q, PieceFits(q)
  PROVE  PieceFits(q)'
<1>1. file' = file /\ source' = source
  BY DEF vars
<1>2. \A k : Char(k)' = Char(k)
  BY <1>1 DEF Char
<1>3. \A l, h : Text(l, h)' = Text(l, h)
  BY <1>1 DEF Text
<1>4. Longer(q)' = Longer(q)
  BY <1>1 DEF Longer
<1>5. (LongerToken(q)' <=> LongerToken(q)) /\ (LongestInteger(q)' <=> LongestInteger(q))
  BY <1>3, <1>4 DEF LongerToken, LongestInteger
<1>6. CutShort(q)' <=> CutShort(q)
  BY <1>2 DEF CutShort
<1>7. Longest(q)' <=> Longest(q)
  BY <1>1, <1>3, <1>5, <1>6 DEF Longest
<1> QED
  BY <1>1, <1>3, <1>7 DEF PieceFits

(* and so do all of them, *)
LEMMA PiecesKept ==
  ASSUME PiecesOK, UNCHANGED vars, UNCHANGED pieces
  PROVE  PiecesOK' /\ Cursor' = Cursor /\ Last' = Last
<1>1. ASSUME NEW n \in 1..Len(pieces) PROVE PieceFits(pieces[n])'
  <2>1. PICK q : q = pieces[n]
    OBVIOUS
  <2>2. PieceFits(q)'
    BY <2>1, PieceKept DEF PiecesOK
  <2> QED
    BY <2>1, <2>2
<1> QED
  BY <1>1 DEF PiecesOK, Cursor, Last

(* A piece that begins where the last one ended. *)
App(s, q) == Append(s, q)
(* with another that begins where the last one ends. *)
LEMMA PieceAppended ==
  ASSUME PiecesOK, UNCHANGED vars, NEW q \in Pieces, q.lo = Cursor, PieceFits(q),
         pieces' = App(pieces, q)
  PROVE  PiecesOK' /\ pieces' # <<>> /\ Last' = q /\ Cursor' = q.hi
<1> PICK s, n : s = pieces' /\ n = Len(pieces)
  OBVIOUS
<1>1. pieces \in Seq(Pieces) /\ n \in Nat
  BY LenProperties DEF PiecesOK
<1>2. /\ s \in Seq(Pieces) /\ s # <<>> /\ Len(s) = n + 1 /\ s[n + 1] = q
      /\ \A i \in 1..n : s[i] = pieces[i]
  BY <1>1, AppendProperties DEF App
<1>3. Last' = q /\ Cursor' = q.hi
  BY <1>2 DEF Last, Cursor
<1>4. ASSUME NEW i \in 1..(n + 1)
      PROVE  s[i].lo = (IF i = 1 THEN 0 ELSE s[i - 1].hi) /\ PieceFits(s[i])'
  <2>1. CASE i = n + 1
    <3>1. PieceFits(q)'
      BY PieceKept
    <3>2. n = 0 <=> pieces = <<>>
      BY <1>1, EmptySeq
    <3>3. n # 0 => n \in 1..n /\ Cursor = pieces[n].hi
      BY <1>1, <3>2 DEF Cursor, Last
    <3>4. (n + 1) - 1 = n
      BY <1>1
    <3>5. n = 0 => Cursor = 0
      BY <3>2 DEF Cursor
    <3> QED
      BY <1>1, <1>2, <2>1, <3>1, <3>3, <3>4, <3>5
  <2>2. CASE i \in 1..n
    <3>1. s[i] = pieces[i] /\ (i # 1 => i - 1 \in 1..n /\ s[i - 1] = pieces[i - 1])
      BY <1>1, <1>2, <2>2
    <3>2. pieces[i].lo = (IF i = 1 THEN 0 ELSE pieces[i - 1].hi) /\ PieceFits(pieces[i])
      BY <2>2 DEF PiecesOK
    <3>3. PICK r : r = pieces[i]
      OBVIOUS
    <3>4. PieceFits(r)'
      BY <3>2, <3>3, PieceKept
    <3> QED
      BY <3>1, <3>2, <3>3, <3>4
  <2> QED
    BY <1>1, <2>1, <2>2
<1>5. PiecesOK'
  BY <1>2, <1>4 DEF PiecesOK
<1> QED
  BY <1>2, <1>3, <1>5

(* What was read of an integer does not change while the source does not.  *)
NumeralIn(s, k, end, base) ==
  LET value[j \in k..end] ==
        IF j = k THEN 0
        ELSE value[j - 1] * base + ValueOf[IF j - 1 < Len(s) THEN s[(j - 1) + 1] ELSE Nul]
  IN  value[end]

(* A numeral depends on the source only. *)
LEMMA NumeralIsIn == \A k, end, base : Numeral(k, end, base) = NumeralIn(source, k, end, base)
  BY DEF Numeral, NumeralIn, Char

(* What is read of the source depends on the source only. *)
LEMMA ReadingsKept ==
  ASSUME UNCHANGED vars
  PROVE  /\ \A k, end, base : Numeral(k, end, base)' = Numeral(k, end, base)
         /\ \A k : Base(k)' = Base(k)
         /\ \A l, h : Text(l, h)' = Text(l, h)
<1>1. file' = file /\ source' = source
  BY DEF vars
<1>2. (\A k, end, base : Numeral(k, end, base) = NumeralIn(source, k, end, base))'
  BY NumeralIsIn, PTL
<1>3. \A k, end, base : Numeral(k, end, base)' = Numeral(k, end, base)
  BY <1>1, <1>2, NumeralIsIn
<1>4. \A k : Base(k)' = Base(k)
  BY <1>1 DEF Char, Base
<1>5. \A l, h : Text(l, h)' = Text(l, h)
  BY <1>1 DEF Text
<1> QED
  BY <1>3, <1>4, <1>5

(* ConstantsAreTokens is kept when make_iconst did not run. *)
LEMMA ConstantsKept ==
  ASSUME ConstantsAreTokens, UNCHANGED vars, UNCHANGED iconst
  PROVE  ConstantsAreTokens'
  BY ReadingsKept DEF ConstantsAreTokens

(* A token stays one. *)
LEMMA TokenKept ==
  ASSUME UNCHANGED vars, NEW q, TokenOK(q)
  PROVE  TokenOK(q)'
<1>1. source' = source
  BY DEF vars
<1>2. \A k : Char(k)' = Char(k)
  BY <1>1 DEF Char
<1>3. \A k, S : SkipFrom(k, S)' = SkipFrom(k, S)
  BY <1>1, <1>2 DEF SkipFrom
<1>4. \A k : IntegerEnd(k)' = IntegerEnd(k)
  BY <1>2, <1>3 DEF IntegerEnd
<1> QED
  BY <1>1, <1>2, <1>4 DEF TokenOK
-----------------------------------------------------------------------------
(* The invariant of the lexer holds at the beginning. *)
LEMMA LexInitInductive == LexInit => LInv
  BY InitInductive, ReadsInit DEF LexInit, LInv

(* isource; and the start of the parser, which calls yylex first.          *)
LEMMA PrepareInductive ==
  ASSUME LInv, Prepare
  PROVE  LInv'
<1>1. at = "isource"
  BY DEF Prepare
<1>2. CASE Next /\ UNCHANGED lexvars
  <2>1. IInv' /\ Reads'
    BY <1>2, NextInductive, ReadsInductive DEF LInv
  <2>2. UNCHANGED <<sp, lo, at, pieces, iconst>>
    BY <1>2 DEF lexvars
  <2> QED
    BY <1>1, <2>1, <2>2 DEF LInv
<1>3. CASE pc = "done" /\ at' = "yylex" /\ UNCHANGED <<vars, sp, lo, pieces, iconst>>
  <2>1. IInv' /\ Reads'
    BY <1>3, NextInductive, ReadsInductive DEF LInv
  <2>2. /\ UNCHANGED <<sp, lo, pieces, iconst, source, pc>> /\ pieces' = <<>> /\ sp' = 0 /\ lo' = 0
        /\ iconst'.outcome = "none"
    BY <1>1, <1>3 DEF LInv, vars
  <2>3. Len(source) \in Nat
    BY LenProperties DEF LInv, IInv
  <2>4. PiecesOK'
    <3>1. PICK s : s = pieces'
      OBVIOUS
    <3>2. s = <<>> /\ s \in Seq(Pieces) /\ Len(s) = 0
      BY <2>2, <3>1, EmptySeq
    <3> QED
      BY <3>1, <3>2 DEF PiecesOK
  <2>5. CursorOK'
    BY <1>3, <2>2, <2>3 DEF CursorOK, Cursor
  <2>6. ConstantsAreTokens'
    BY <2>2 DEF ConstantsAreTokens
  <2> QED
    BY <1>3, <2>1, <2>2, <2>4, <2>5, <2>6 DEF LInv
<1> QED
  BY <1>1, <1>2, <1>3 DEF Prepare

(* A step that adds a piece.                                               *)
LEMMA PieceStep ==
  ASSUME LInv, at # "isource", UNCHANGED vars, UNCHANGED iconst,
         NEW q \in Pieces, q.lo = Cursor, PieceFits(q),
         pieces' = App(pieces, q), sp' = q.hi, lo' \in Nat,
         at' \in {"yylex", "parser", "end of file"},
         at' = "yylex" => q.hi <= Len(source),
         at' = "parser" => TokenOK(q)
  PROVE  LInv'
<1>1. IInv' /\ Reads' /\ pc' = "done"
  BY SourceKept
<1>2. PiecesOK' /\ pieces' # <<>> /\ Last' = q /\ Cursor' = q.hi
  BY PieceAppended DEF LInv
<1>3. ConstantsAreTokens'
  BY ConstantsKept DEF LInv
<1>4. q.hi \in Nat /\ source' = source
  BY DEF Pieces, vars
<1>5. at' = "parser" => TokenOK(Last)'
  <2>1. at' = "parser" => TokenOK(q)'
    BY TokenKept
  <2> QED
    BY <1>2, <2>1
<1>6. CursorOK'
  BY <1>2, <1>4, <1>5 DEF CursorOK
<1> QED
  BY <1>1, <1>2, <1>3, <1>6 DEF LInv

(* A step of yylex that adds a piece.                                      *)
LEMMA ReadStep ==
  ASSUME LInv, NEW kind \in Kinds, NEW end \in Nat, NEW then, Read(kind, end, then),
         NEW q, q = [kind |-> kind, lo |-> sp, hi |-> end], PieceFits(q),
         then \in {"yylex", "parser", "end of file"},
         then = "yylex" => end <= Len(source),
         then = "parser" => TokenOK(q)
  PROVE  LInv'
<1>1. /\ at = "yylex" /\ at # "isource" /\ at' = then
      /\ lo' = sp /\ sp' = end /\ UNCHANGED vars /\ UNCHANGED iconst
  BY DEF Read
<1>2. sp \in Nat /\ sp = Cursor
  BY <1>1 DEF LInv, CursorOK
<1>3. q \in Pieces /\ q.lo = Cursor /\ q.hi = end
  BY <1>2 DEF Pieces
<1>4. pieces' = App(pieces, q)
  BY <1>1 DEF Read, Piece, App
<1>5. lo' \in Nat /\ sp' = q.hi
  BY <1>1, <1>2, <1>3
<1> QED
  BY <1>1, <1>3, <1>4, <1>5, PieceStep

(* What holds when yylex is called.                                        *)
LEMMA AtYylex ==
  ASSUME LInv, at = "yylex"
  PROVE  /\ Reading /\ Len(source) \in Nat /\ sp \in Nat /\ sp <= Len(source) /\ sp = Cursor
         /\ Char(sp) # Nul => sp \in 0..(Len(source) - 1)
<1>1. Reading /\ Len(source) \in Nat
  BY ReadingFacts
<1>2. sp \in Nat /\ sp <= Len(source) /\ sp = Cursor
  BY DEF LInv, CursorOK
<1>3. Char(sp) # Nul => sp \in 0..(Len(source) - 1)
  <2>1. sp \in Int /\ (sp >= Len(source) => Char(sp) = Nul)
    BY <1>1, <1>2, NulFacts
  <2> QED
    BY <1>1, <1>2, <2>1
<1> QED
  BY <1>1, <1>2, <1>3

(* It is kept over a blank, *)
LEMMA RedoInductive ==
  ASSUME LInv, Redo
  PROVE  LInv'
<1>1. at = "yylex" /\ Char(sp) \in Blanks /\ Read("blank", sp + 1, "yylex")
  BY DEF Redo, Read
<1>2. Reading /\ Len(source) \in Nat /\ sp \in 0..(Len(source) - 1)
  BY <1>1, AtYylex, NulFacts
<1>3. PICK q : q = [kind |-> "blank", lo |-> sp, hi |-> sp + 1]
  OBVIOUS
<1>4. sp \in Nat /\ sp + 1 \in sp..Len(source) /\ sp + 1 \in Nat /\ sp + 1 <= Len(source)
  BY <1>2
<1>5. PICK t, h : h = sp + 1 /\ t = Text(sp, h)
  OBVIOUS
<1>6. t[1] \in Blanks \cup OtherBlanks
  <2>1. 1 \in 1..(h - sp) /\ h \in sp..Len(source)
    BY <1>4, <1>5
  <2>2. t[1] = file[sp + 1]
    BY <1>2, <1>4, <1>5, <2>1, TextFacts
  <2> QED
    BY <1>1, <1>2, <2>2, CharFacts
<1>7. PieceFits(q)
  BY <1>3, <1>4, <1>5, <1>6 DEF PieceFits
<1>8. "blank" \in Kinds
  BY DEF Kinds
<1> QED
  BY <1>1, <1>3, <1>4, <1>7, <1>8, ReadStep

(* A word, an integer or a punctuator.                                     *)
LEMMA LongestStep ==
  ASSUME LInv, at = "yylex", NEW kind \in {"word", "integer", "punctuator"}, NEW end,
         NEW q, q = [kind |-> kind, lo |-> sp, hi |-> end],
         Read(kind, end, "parser"), Longest(q), end \in Int,
         kind = "integer" => Char(sp) \in Digits /\ end = IntegerEnd(sp)
  PROVE  LInv'
<1>1. Len(source) \in Nat /\ sp \in Nat
  BY AtYylex
<1>2. q.kind = kind /\ q.lo = sp /\ q.hi = end
  OBVIOUS
<1>3. sp < end /\ end <= Len(source) /\ end \in Nat /\ end <= Len(source) + 1
  BY <1>1, <1>2 DEF Longest
<1>4. PieceFits(q)
  BY <1>2, <1>3 DEF PieceFits
<1>5. TokenOK(q)
  BY <1>1, <1>2, <1>3 DEF TokenOK
<1>6. kind \in Kinds
  BY DEF Kinds
<1> QED
  BY <1>2, <1>3, <1>4, <1>5, <1>6, ReadStep

(* by an identifier or a keyword, *)
LEMMA WordInductive ==
  ASSUME LInv, Word
  PROVE  LInv'
<1>1. PICK end : end = SkipFrom(sp + 1, Letters)
  OBVIOUS
<1>2. at = "yylex" /\ Char(sp) \in Letters /\ Read("word", end, "parser")
  BY <1>1 DEF Word, Read
<1>3. Reading /\ Len(source) \in Nat /\ sp \in 0..(Len(source) - 1) /\ Nul \notin Letters
  BY <1>2, AtYylex, NulFacts DEF Ordinary
<1>4. end \in Int
  <2>1. sp + 1 \in 0..Len(source)
    BY <1>3
  <2>2. end \in (sp + 1)..Len(source)
    BY <1>1, <1>3, <2>1, SkipFacts
  <2> QED
    BY <1>3, <2>2
<1>5. Longest([kind |-> "word", lo |-> sp, hi |-> end])
  BY <1>1, <1>2, <1>3, WordIsLongest
<1> QED
  BY <1>2, <1>4, <1>5, LongestStep

(* an integer, *)
LEMMA IntegerInductive ==
  ASSUME LInv, Integer
  PROVE  LInv'
<1>1. PICK end : end = IntegerEnd(sp)
  OBVIOUS
<1>2. at = "yylex" /\ Char(sp) \in Digits /\ Read("integer", end, "parser")
  BY <1>1 DEF Integer, Read
<1>3. Reading /\ Len(source) \in Nat /\ sp \in 0..(Len(source) - 1)
  BY <1>2, AtYylex, DigitSets
<1>4. end \in (sp + 1)..Len(source)
  BY <1>1, <1>2, <1>3, IntegerRead DEF IntegerShape
<1>5. end \in Int
  BY <1>3, <1>4
<1>6. Longest([kind |-> "integer", lo |-> sp, hi |-> end])
  BY <1>1, <1>2, <1>3, IntegerIsLongest
<1> QED
  BY <1>1, <1>2, <1>5, <1>6, LongestStep

(* a punctuator, *)
LEMMA PunctuatorInductive ==
  ASSUME LInv, Punctuator
  PROVE  LInv'
<1>1. PICK end : end = PunctuatorEnd(sp)
  OBVIOUS
<1>2. at = "yylex" /\ Char(sp) \in Punctuation \ {"."} /\ Read("punctuator", end, "parser")
  BY <1>1 DEF Punctuator, Read
<1>3. Reading /\ Len(source) \in Nat /\ sp \in 0..(Len(source) - 1)
  BY <1>2, AtYylex, NulFacts DEF Ordinary
<1>4. end \in Int
  BY <1>1, <1>3 DEF PunctuatorEnd
<1>5. Longest([kind |-> "punctuator", lo |-> sp, hi |-> end])
  BY <1>1, <1>2, <1>3, PunctuatorIsLongest
<1> QED
  BY <1>2, <1>4, <1>5, LongestStep

(* a dot, with the character behind it, *)
LEMMA DotInductive ==
  ASSUME LInv, Dot
  PROVE  LInv'
<1>1. PICK end : end = DotEnd(sp)
  OBVIOUS
<1>2. at = "yylex" /\ Char(sp) = "." /\ Read("dot", end, "parser")
  BY <1>1 DEF Dot, Read
<1>3. Reading /\ Len(source) \in Nat /\ sp \in 0..(Len(source) - 1)
  BY <1>2, AtYylex DEF Nul
<1>4. end = sp + 2 \/ (end = sp + 3 /\ Char(sp + 2) = ".") \/ end = sp + 1
  BY <1>1 DEF DotEnd
<1>5. Char(sp + 2) = "." => sp + 2 < Len(source)
  <2>1. sp + 2 \in Int /\ "." # Nul
    BY <1>3 DEF Nul
  <2> QED
    BY <1>3, <2>1, NulFacts
<1>6. sp < end /\ end <= Len(source) + 1 /\ end \in Nat
  BY <1>3, <1>4, <1>5
<1>7. PICK q : q = [kind |-> "dot", lo |-> sp, hi |-> end]
  OBVIOUS
<1>8. PieceFits(q) /\ TokenOK(q) /\ "dot" \in Kinds
  BY <1>6, <1>7 DEF PieceFits, TokenOK, Kinds
<1>9. PICK kind, then : kind = "dot" /\ then = "parser"
  OBVIOUS
<1>10. /\ kind \in Kinds /\ Read(kind, end, then) /\ q = [kind |-> kind, lo |-> sp, hi |-> end]
       /\ then \in {"yylex", "parser", "end of file"} /\ then # "yylex"
  BY <1>2, <1>7, <1>8, <1>9
<1> QED
  BY <1>6, <1>8, <1>10, ReadStep

(* a character that begins no token, *)
LEMMA UnexpectedInductive ==
  ASSUME LInv, Unexpected
  PROVE  LInv'
<1>1. at = "yylex" /\ sp < Len(source) /\ Read("unexpected", sp + 1, "parser")
  BY DEF Unexpected, Read
<1>2. Len(source) \in Nat /\ sp \in Nat
  BY <1>1, AtYylex
<1>3. sp + 1 \in Nat /\ sp < sp + 1 /\ sp + 1 <= Len(source) /\ sp + 1 <= Len(source) + 1
  BY <1>1, <1>2
<1>4. PICK q : q = [kind |-> "unexpected", lo |-> sp, hi |-> sp + 1]
  OBVIOUS
<1>5. PieceFits(q) /\ TokenOK(q) /\ "unexpected" \in Kinds
  BY <1>3, <1>4 DEF PieceFits, TokenOK, Kinds
<1> QED
  BY <1>1, <1>3, <1>4, <1>5, ReadStep

(* and the end. *)
LEMMA EndOfFileInductive ==
  ASSUME LInv, EndOfFile
  PROVE  LInv'
<1>0. sp = Len(source) /\ Read("end", sp + 1, "end of file")
  BY DEF EndOfFile
<1>1. at = "yylex" /\ sp = Len(source)
  BY <1>0 DEF Read
<1>2. Reading /\ Len(source) \in Nat /\ sp \in Nat
  BY <1>1, AtYylex
<1>3. sp + 1 \in Nat /\ sp < sp + 1 /\ sp + 1 <= Len(source) + 1
  BY <1>1, <1>2
<1>4. PICK q : q = [kind |-> "end", lo |-> sp, hi |-> sp + 1]
  OBVIOUS
<1>5. sp = Len(file) \/ file[sp + 1] \in EndingBytes
  BY <1>1, <1>2 DEF Reading, SourceOfFile, EndsAt
<1>6. PieceFits(q) /\ "end" \in Kinds
  BY <1>3, <1>4, <1>5 DEF PieceFits, Kinds
<1>7. PICK then : then = "end of file"
  OBVIOUS
<1>8. Read("end", sp + 1, then) /\ then # "yylex" /\ then # "parser"
  BY <1>0, <1>7
<1> QED
  BY <1>3, <1>4, <1>6, <1>7, <1>8, ReadStep
-----------------------------------------------------------------------------
(* A step that only moves on.                                              *)
LEMMA MoveFacts ==
  ASSUME LInv, at # "isource", UNCHANGED vars, UNCHANGED <<pieces, iconst>>
  PROVE  /\ IInv' /\ Reads' /\ pc' = "done" /\ PiecesOK' /\ ConstantsAreTokens'
         /\ Cursor' = Cursor /\ Last' = Last /\ source' = source
         /\ \A k : Char(k)' = Char(k)
<1>1. source' = source
  BY DEF vars
<1> QED
  BY <1>1, SourceKept, PiecesKept, ConstantsKept DEF LInv, Char

(* It is kept where a comment begins, *)
LEMMA StartCommentInductive ==
  ASSUME LInv, StartComment
  PROVE  LInv'
<1>1. /\ at = "yylex" /\ at # "isource" /\ Char(sp) = "/" /\ Char(sp + 1) \in {"/", "*"}
      /\ lo' = sp /\ sp' = sp + 2 /\ UNCHANGED vars /\ UNCHANGED <<pieces, iconst>>
      /\ at' = IF Char(sp + 1) = "*" THEN "comment" ELSE "commentl"
  BY DEF StartComment
<1>2. Reading /\ Len(source) \in Nat /\ sp \in Nat /\ sp = Cursor
  BY <1>1, AtYylex
<1>3. sp + 2 <= Len(source)
  <2>1. sp + 1 \in Int /\ Char(sp + 1) # Nul
    BY <1>1, <1>2 DEF Nul
  <2>2. ~(sp + 1 >= Len(source))
    BY <1>2, <2>1, NulFacts
  <2> QED
    BY <1>2, <2>2
<1>4. /\ IInv' /\ Reads' /\ pc' = "done" /\ PiecesOK' /\ ConstantsAreTokens'
      /\ Cursor' = Cursor /\ source' = source
      /\ \A k : Char(k)' = Char(k)
  BY <1>1, MoveFacts
<1>5. /\ lo' = Cursor' /\ lo' + 2 <= sp' /\ sp' <= Len(source') /\ lo' = sp
      /\ (lo' + 2)..(sp' - 1) = {} /\ sp' \in Nat /\ lo' \in Nat
  BY <1>1, <1>2, <1>3, <1>4
<1>6. Char(lo)' = "/" /\ Char(lo + 1)' = Char(sp + 1)
  BY <1>1, <1>4
<1>7. CASE Char(sp + 1) = "*"
  <2>1. at' = "comment" /\ InComment(TRUE)'
    BY <1>1, <1>5, <1>6, <1>7 DEF InComment
  <2>2. CursorOK'
    BY <1>5, <2>1 DEF CursorOK
  <2> QED
    BY <1>4, <2>1, <2>2 DEF LInv
<1>8. CASE Char(sp + 1) = "/"
  <2>1. at' = "commentl" /\ InComment(FALSE)'
    BY <1>1, <1>5, <1>6, <1>8 DEF InComment
  <2>2. CursorOK'
    BY <1>5, <2>1 DEF CursorOK
  <2> QED
    BY <1>4, <2>1, <2>2 DEF LInv
<1> QED
  BY <1>1, <1>7, <1>8

(* The text of a piece, character by character.                            *)
LEMMA TextAt ==
  ASSUME Reading, NEW l \in Nat, NEW h \in l..Len(source), NEW t, t = Text(l, h),
         NEW j \in l..(h - 1), NEW x \in Ordinary \cup {Newline}
  PROVE  t[j - l + 1] = x <=> Char(j) = x
<1>1. Len(source) \in Nat
  BY LenProperties DEF Reading
<1>2. j - l + 1 \in 1..(h - l) /\ l + (j - l + 1) - 1 = j
  BY <1>1
<1>3. Same(Char(l + (j - l + 1) - 1), t[j - l + 1])
  BY <1>2, TextFacts
<1> QED
  BY <1>2, <1>3 DEF Same

(* What was read up to the first end of a comment is a comment. *)
LEMMA BlockRead ==
  ASSUME Reading, NEW l \in Nat, NEW s \in Nat, l + 2 <= s,
         Char(l) = "/", Char(l + 1) = "*", Char(s) = "*", Char(s + 1) = "/",
         \A i \in (l + 2)..(s - 1) : ~(Char(i) = "*" /\ Char(i + 1) = "/")
  PROVE  s + 2 <= Len(source) /\ IsBlock(Text(l, s + 2))
<1>1. Len(source) \in Nat
  BY LenProperties DEF Reading
<1>2. s + 2 <= Len(source)
  <2>1. s + 1 \in Int /\ Char(s + 1) # Nul
    BY DEF Nul
  <2>2. ~(s + 1 >= Len(source))
    BY <2>1, NulFacts
  <2> QED
    BY <1>1, <2>2
<1> PICK h, t : h = s + 2 /\ t = Text(l, h)
  OBVIOUS
<1>3. h \in l..Len(source)
  BY <1>1, <1>2
<1>4. Len(t) = h - l
  BY <1>3, TextFacts
<1>5. "/" \in Ordinary /\ "*" \in Ordinary
  BY DEF Ordinary, Punctuation
<1>6. \A j \in l..(h - 1) :
        (t[j - l + 1] = "*" <=> Char(j) = "*") /\ (t[j - l + 1] = "/" <=> Char(j) = "/")
  BY <1>3, <1>5, TextAt
<1>7. /\ l \in l..(h - 1) /\ l - l + 1 = 1
      /\ l + 1 \in l..(h - 1) /\ (l + 1) - l + 1 = 2
      /\ s \in l..(h - 1) /\ s - l + 1 = Len(t) - 1
      /\ s + 1 \in l..(h - 1) /\ (s + 1) - l + 1 = Len(t)
      /\ Len(t) >= 4
  BY <1>3, <1>4
<1>8. t[1] = "/" /\ t[2] = "*" /\ t[Len(t) - 1] = "*" /\ t[Len(t)] = "/"
  <2>1. t[1] = "/"
    BY <1>6, <1>7
  <2>2. t[2] = "*"
    BY <1>6, <1>7
  <2>3. t[Len(t) - 1] = "*"
    BY <1>6, <1>7
  <2>4. t[Len(t)] = "/"
    BY <1>6, <1>7
  <2> QED
    BY <2>1, <2>2, <2>3, <2>4
<1>9. ASSUME NEW i \in 3..(Len(t) - 2), t[i] = "*", t[i + 1] = "/"
      PROVE  FALSE
  <2>1. PICK j : j = l + i - 1
    OBVIOUS
  <2>2. /\ j \in l..(h - 1) /\ j - l + 1 = i /\ j + 1 \in l..(h - 1) /\ (j + 1) - l + 1 = i + 1
        /\ j \in (l + 2)..(s - 1)
    BY <1>4, <2>1
  <2>3. Char(j) = "*"
    BY <1>6, <1>9, <2>2
  <2>4. Char(j + 1) = "/"
    BY <1>6, <1>9, <2>2
  <2> QED
    BY <2>2, <2>3, <2>4
<1> QED
  BY <1>2, <1>7, <1>8, <1>9 DEF IsBlock

(* The invariant is kept within a comment, to its end. *)
LEMMA CommentInductive ==
  ASSUME LInv, Comment
  PROVE  LInv'
<1>1. /\ at = "comment" /\ at # "isource" /\ UNCHANGED vars /\ UNCHANGED iconst /\ lo' = lo
  BY DEF Comment
<1>2. /\ Reading /\ Len(source) \in Nat /\ sp \in Nat /\ lo \in Nat
      /\ lo = Cursor /\ lo + 2 <= sp /\ sp <= Len(source)
      /\ Char(lo) = "/" /\ Char(lo + 1) = "*"
      /\ \A i \in (lo + 2)..(sp - 1) : ~(Char(i) = "*" /\ Char(i + 1) = "/")
  BY <1>1, ReadingFacts DEF LInv, CursorOK, InComment
<1>3. CASE sp = Len(source)
  <2>1. at' = "refused" /\ UNCHANGED <<sp, pieces>>
    BY <1>3 DEF Comment
  <2>2. CursorOK'
    BY <1>1, <1>2, <2>1 DEF CursorOK
  <2>3. /\ IInv' /\ Reads' /\ pc' = "done" /\ PiecesOK' /\ ConstantsAreTokens'
    BY <1>1, <2>1, MoveFacts
  <2> QED
    BY <2>1, <2>2, <2>3 DEF LInv
<1>4. CASE sp # Len(source) /\ Char(sp) = "*" /\ Char(sp + 1) = "/"
  <2>1. sp' = sp + 2 /\ Piece("comment", sp + 2) /\ at' = "yylex"
    BY <1>4 DEF Comment
  <2>2. sp + 2 <= Len(source) /\ IsBlock(Text(lo, sp + 2))
    BY <1>2, <1>4, BlockRead
  <2>3. PICK q : q = [kind |-> "comment", lo |-> lo, hi |-> sp + 2]
    OBVIOUS
  <2>4. lo < sp + 2 /\ sp + 2 <= Len(source) + 1 /\ sp + 2 \in Nat
    BY <1>2, <2>2
  <2>5. PieceFits(q) /\ q \in Pieces /\ q.lo = Cursor /\ q.hi = sp + 2
    BY <1>2, <2>2, <2>3, <2>4 DEF PieceFits, Pieces, Kinds
  <2>6. pieces' = App(pieces, q)
    BY <1>1, <2>1, <2>3 DEF Piece, App
  <2>7. /\ sp' = q.hi /\ lo' \in Nat /\ at' \in {"yylex", "parser", "end of file"}
        /\ q.hi <= Len(source) /\ at' # "parser"
    BY <1>1, <1>2, <2>1, <2>2, <2>5
  <2> QED
    BY <1>1, <2>5, <2>6, <2>7, PieceStep
<1>5. CASE sp # Len(source) /\ ~(Char(sp) = "*" /\ Char(sp + 1) = "/")
  <2>1. sp' = sp + 1 /\ UNCHANGED <<pieces, at>>
    BY <1>5 DEF Comment
  <2>2. /\ IInv' /\ Reads' /\ pc' = "done" /\ PiecesOK' /\ ConstantsAreTokens'
        /\ Cursor' = Cursor /\ source' = source /\ \A k : Char(k)' = Char(k)
    BY <1>1, <2>1, MoveFacts
  <2>3. sp' \in Nat /\ lo' \in Nat /\ lo' = Cursor' /\ lo' + 2 <= sp' /\ sp' <= Len(source')
    BY <1>1, <1>2, <1>5, <2>1, <2>2
  <2>4. \A i \in (lo' + 2)..(sp' - 1) : i \in (lo + 2)..(sp - 1) \/ i = sp
    BY <1>1, <1>2, <2>1
  <2>5. InComment(TRUE)'
    <3>1. Char(lo)' = "/" /\ Char(lo + 1)' = "*"
      BY <1>1, <1>2, <2>2
    <3>2. \A i \in (lo' + 2)..(sp' - 1) : ~(Char(i)' = "*" /\ Char(i + 1)' = "/")
      BY <1>2, <1>5, <2>2, <2>4
    <3> QED
      BY <2>3, <3>1, <3>2 DEF InComment
  <2>6. CursorOK' /\ at' = "comment"
    BY <1>1, <2>1, <2>3, <2>5 DEF CursorOK
  <2> QED
    BY <2>2, <2>6 DEF LInv
<1> QED
  BY <1>3, <1>4, <1>5

(* What was read up to the first newline is a comment of a line. *)
LEMMA LineRead ==
  ASSUME Reading, NEW l \in Nat, NEW h \in Nat, l + 2 <= h, h <= Len(source),
         Char(l) = "/", Char(l + 1) = "/",
         \A i \in (l + 2)..(h - 2) : Char(i) # Newline
  PROVE  /\ IsLine(Text(l, h))
         /\ Char(h - 1) = Newline => Text(l, h)[Len(Text(l, h))] = Newline
<1>1. Len(source) \in Nat
  BY LenProperties DEF Reading
<1> PICK t, nl : t = Text(l, h) /\ nl = Newline
  OBVIOUS
<1>2. h \in l..Len(source)
  BY <1>1
<1>3. Len(t) = h - l
  BY <1>2, TextFacts
<1>4. "/" \in Ordinary
  BY DEF Ordinary, Punctuation
<1>5. /\ \A j \in l..(h - 1) : t[j - l + 1] = nl <=> Char(j) = nl
      /\ \A j \in l..(h - 1) : t[j - l + 1] = "/" <=> Char(j) = "/"
  <2>1. PICK slash : slash = "/"
    OBVIOUS
  <2>2. nl \in Ordinary \cup {Newline} /\ slash \in Ordinary \cup {Newline}
    BY <1>4, <2>1
  <2>3. \A x \in Ordinary \cup {Newline} : \A j \in l..(h - 1) : t[j - l + 1] = x <=> Char(j) = x
    BY <1>2, TextAt
  <2> QED
    BY <2>1, <2>2, <2>3
<1>6. /\ l \in l..(h - 1) /\ l - l + 1 = 1
      /\ l + 1 \in l..(h - 1) /\ (l + 1) - l + 1 = 2
      /\ h - 1 \in l..(h - 1) /\ (h - 1) - l + 1 = Len(t)
      /\ Len(t) >= 2
  BY <1>2, <1>3
<1>7. t[1] = "/"
  BY <1>5, <1>6
<1>8. t[2] = "/"
  BY <1>5, <1>6
<1>9. Char(h - 1) = nl => t[Len(t)] = nl
  BY <1>5, <1>6
<1>10. ASSUME NEW i \in 3..(Len(t) - 1), t[i] = nl
       PROVE  FALSE
  <2>1. PICK j : j = l + i - 1
    OBVIOUS
  <2>2. j \in l..(h - 1) /\ j - l + 1 = i /\ j \in (l + 2)..(h - 2)
    BY <1>3, <2>1
  <2>3. Char(j) = nl
    BY <1>5, <1>10, <2>2
  <2> QED
    BY <2>2, <2>3
<1> QED
  BY <1>6, <1>7, <1>8, <1>9, <1>10 DEF IsLine

(* The invariant is kept within one, to its end. *)
LEMMA CommentLineInductive ==
  ASSUME LInv, CommentLine
  PROVE  LInv'
<1>1. /\ at = "commentl" /\ at # "isource" /\ UNCHANGED vars /\ UNCHANGED iconst /\ lo' = lo
  BY DEF CommentLine
<1>2. /\ Reading /\ Len(source) \in Nat /\ sp \in Nat /\ lo \in Nat
      /\ lo = Cursor /\ lo + 2 <= sp /\ sp <= Len(source)
      /\ Char(lo) = "/" /\ Char(lo + 1) = "/"
      /\ \A i \in (lo + 2)..(sp - 1) : Char(i) # Newline
  BY <1>1, ReadingFacts DEF LInv, CursorOK, InComment
<1>3. CASE sp = Len(source)
  <2>1. at' = "end of file" /\ Piece("comment", sp) /\ UNCHANGED sp
    BY <1>3 DEF CommentLine
  <2>2. \A i \in (lo + 2)..(sp - 2) : i \in (lo + 2)..(sp - 1)
    BY <1>2
  <2>3. \A i \in (lo + 2)..(sp - 2) : Char(i) # Newline
    BY <1>2, <2>2
  <2>4. IsLine(Text(lo, sp))
    BY <1>2, <2>3, LineRead
  <2>5. PICK q : q = [kind |-> "comment", lo |-> lo, hi |-> sp]
    OBVIOUS
  <2>6. lo < sp /\ sp <= Len(source) + 1
    BY <1>2
  <2>7. PieceFits(q) /\ q \in Pieces /\ q.lo = Cursor /\ q.hi = sp
    BY <1>2, <1>3, <2>4, <2>5, <2>6 DEF PieceFits, Pieces, Kinds
  <2>8. pieces' = App(pieces, q)
    BY <1>1, <2>1, <2>5 DEF Piece, App
  <2>9. sp' = q.hi /\ lo' \in Nat /\ at' = "end of file"
    BY <1>1, <1>2, <2>1, <2>7
  <2> QED
    BY <1>1, <2>7, <2>8, <2>9, PieceStep
<1>4. CASE sp # Len(source) /\ Char(sp) = Newline
  <2>1. sp' = sp + 1 /\ Piece("comment", sp + 1) /\ at' = "yylex"
    BY <1>4 DEF CommentLine
  <2>2. PICK h : h = sp + 1
    OBVIOUS
  <2>3. /\ h \in Nat /\ lo + 2 <= h /\ h <= Len(source) /\ h - 1 = sp
        /\ lo < h /\ h <= Len(source) + 1 /\ h - 2 = sp - 1
    BY <1>2, <1>4, <2>2
  <2>4. \A i \in (lo + 2)..(h - 2) : Char(i) # Newline
    BY <1>2, <2>3
  <2>5. IsLine(Text(lo, h)) /\ Text(lo, h)[Len(Text(lo, h))] = Newline
    BY <1>2, <1>4, <2>3, <2>4, LineRead
  <2>6. PICK q : q = [kind |-> "comment", lo |-> lo, hi |-> h]
    OBVIOUS
  <2>7. PieceFits(q) /\ q \in Pieces /\ q.lo = Cursor /\ q.hi = h
    BY <1>2, <2>3, <2>5, <2>6 DEF PieceFits, Pieces, Kinds
  <2>8. pieces' = App(pieces, q)
    BY <1>1, <2>1, <2>2, <2>6 DEF Piece, App
  <2>9. sp' = q.hi /\ lo' \in Nat /\ at' = "yylex" /\ q.hi <= Len(source)
    BY <1>1, <1>2, <2>1, <2>2, <2>3, <2>7
  <2> QED
    BY <1>1, <2>7, <2>8, <2>9, PieceStep
<1>5. CASE sp # Len(source) /\ Char(sp) # Newline
  <2>1. sp' = sp + 1 /\ UNCHANGED <<pieces, at>>
    BY <1>5 DEF CommentLine
  <2>2. /\ IInv' /\ Reads' /\ pc' = "done" /\ PiecesOK' /\ ConstantsAreTokens'
        /\ Cursor' = Cursor /\ source' = source /\ \A k : Char(k)' = Char(k)
    BY <1>1, <2>1, MoveFacts
  <2>3. sp' \in Nat /\ lo' \in Nat /\ lo' = Cursor' /\ lo' + 2 <= sp' /\ sp' <= Len(source')
    BY <1>1, <1>2, <1>5, <2>1, <2>2
  <2>4. \A i \in (lo' + 2)..(sp' - 1) : i \in (lo + 2)..(sp - 1) \/ i = sp
    BY <1>1, <1>2, <2>1
  <2>5. InComment(FALSE)'
    <3>1. Char(lo)' = "/" /\ Char(lo + 1)' = "/"
      BY <1>1, <1>2, <2>2
    <3>2. \A i \in (lo' + 2)..(sp' - 1) : Char(i)' # Newline
      BY <1>2, <1>5, <2>2, <2>4
    <3> QED
      BY <2>3, <3>1, <3>2 DEF InComment
  <2>6. CursorOK' /\ at' = "commentl"
    BY <1>1, <2>1, <2>3, <2>5 DEF CursorOK
  <2> QED
    BY <2>2, <2>6 DEF LInv
<1> QED
  BY <1>3, <1>4, <1>5

(* It is kept by what the parser does with a token. *)
LEMMA ParseInductive ==
  ASSUME LInv, Parse
  PROVE  LInv'
<1>1. /\ at = "parser" /\ at # "isource" /\ UNCHANGED vars /\ UNCHANGED <<sp, lo, pieces, iconst>>
      /\ \/ at' = "refused"
         \/ at' = "make_iconst" /\ Last.kind = "integer"
         \/ at' = "yylex" /\ Last.kind # "dot"
  BY DEF Parse
<1>2. /\ Len(source) \in Nat /\ sp \in Nat /\ lo \in Nat
      /\ pieces # <<>> /\ sp = Last.hi /\ TokenOK(Last)
  BY <1>1, ReadingFacts DEF LInv, CursorOK
<1>3. /\ IInv' /\ Reads' /\ pc' = "done" /\ PiecesOK' /\ ConstantsAreTokens'
      /\ Cursor' = Cursor /\ Last' = Last /\ source' = source
  BY <1>1, MoveFacts
<1>4. TokenOK(Last)'
  <2>1. PICK q : q = Last
    OBVIOUS
  <2>2. TokenOK(q)'
    BY <1>1, <1>2, <2>1, TokenKept
  <2> QED
    BY <1>3, <2>1, <2>2
<1>5. Last.kind # "dot" => sp = Cursor /\ sp <= Len(source)
  BY <1>2 DEF TokenOK, Cursor
<1>6. CursorOK'
  BY <1>1, <1>2, <1>3, <1>4, <1>5 DEF CursorOK
<1> QED
  BY <1>1, <1>3, <1>6 DEF LInv
-----------------------------------------------------------------------------
(* strtoul in the text of an integer.                                      *)
LEMMA SkipIs ==
  ASSUME Reading, NEW k \in 0..Len(source), NEW S, Nul \notin S,
         NEW e \in k..Len(source), Char(e) \notin S, \A i \in k..(e - 1) : Char(i) \in S
  PROVE  SkipFrom(k, S) = e
<1>0. Len(source) \in Nat
  BY LenProperties DEF Reading
<1>1. PICK d : d = SkipFrom(k, S)
  OBVIOUS
<1>2. d \in k..Len(source) /\ Char(d) \notin S /\ \A i \in k..(d - 1) : Char(i) \in S
  BY <1>1, SkipFacts
<1>3. /\ e < d => e \in k..(d - 1)
      /\ d < e => d \in k..(e - 1)
      /\ d = e \/ d < e \/ e < d
  BY <1>0, <1>2
<1> QED
  BY <1>1, <1>2, <1>3

Bases == {2, 8, 10, 16}
Prefixed(s, base, c23) ==
  /\ Char(s) = "0" /\ Char(s + 2) \in DigitsOf(base)
  /\ \/ base = 16 /\ Char(s + 1) = "x"
     \/ base = 2 /\ c23 /\ Char(s + 1) = "b"

(* The digits of a base are hexadecimal digits. *)
LEMMA DigitsOfBase ==
  ASSUME NEW base \in Bases
  PROVE  DigitsOf(base) \subseteq HexDigits /\ Nul \notin DigitsOf(base)
  BY DEF DigitsOf, Bases, Digits, HexDigits, Nul

(* Where it starts to read digits.                                         *)
LEMMA StrtoulEnds ==
  ASSUME Reading, NEW s \in 0..Len(source), NEW base \in Bases, NEW c23 \in BOOLEAN
  PROVE  LET k == Strtoul(s, base, c23) IN k.end \in Int /\ k.end >= s
<1>0. Len(source) \in Nat /\ s \in Nat
  BY LenProperties DEF Reading
<1>1. PICK b : b = SkipFrom(s, Blanks)
  OBVIOUS
<1>2. b \in s..Len(source)
  BY <1>1, SkipFacts, NulFacts
<1>3. PICK sign : sign = IF Char(b) \in {"-", "+"} THEN b + 1 ELSE b
  OBVIOUS
<1>4. sign \in s..Len(source)
  <2>1. b \in Int /\ (b >= Len(source) => Char(b) \notin {"-", "+"})
    BY <1>0, <1>2, NulFacts DEF Nul
  <2> QED
    BY <1>0, <1>2, <1>3, <2>1
<1>5. PICK first : first = IF Prefixed(sign, base, c23) THEN sign + 2 ELSE sign
  OBVIOUS
<1>6. first \in s..Len(source)
  <2>1. sign + 2 \in Int /\ (Prefixed(sign, base, c23) => Char(sign + 2) # Nul)
    BY <1>0, <1>4, DigitsOfBase DEF Prefixed
  <2>2. Prefixed(sign, base, c23) => sign + 2 < Len(source)
    BY <1>0, <2>1, NulFacts
  <2> QED
    BY <1>0, <1>4, <1>5, <2>2
<1>7. PICK end : end = SkipFrom(first, DigitsOf(base))
  OBVIOUS
<1>8. end \in s..Len(source)
  <2>1. first \in 0..Len(source)
    BY <1>0, <1>6
  <2>2. end \in first..Len(source)
    BY <1>7, <2>1, SkipFacts, DigitsOfBase
  <2> QED
    BY <1>0, <1>6, <2>2
<1>9. Strtoul(s, base, c23).end = IF end = first THEN s ELSE end
  BY <1>1, <1>3, <1>5, <1>7 DEF Strtoul, Prefixed
<1> QED
  BY <1>0, <1>8, <1>9

(* At a digit, it reads digits from there, unless there is a prefix.       *)
LEMMA StrtoulAtDigit ==
  ASSUME Reading, NEW s \in 0..Len(source), NEW base \in Bases, NEW c23 \in BOOLEAN,
         Char(s) \in HexDigits, NEW k, k = Strtoul(s, base, c23),
         NEW first, first = IF Prefixed(s, base, c23) THEN s + 2 ELSE s,
         NEW end, end = SkipFrom(first, DigitsOf(base))
  PROVE  k.end = (IF end = first THEN s ELSE end)
         /\ (end # first => k.value = Numeral(first, end, base))
<1>1. Char(s) \notin Blanks /\ Char(s) \notin {"-", "+"} /\ Char(s) # "-"
  <2>1. Char(s) \notin Blanks
    BY Sorts
  <2> QED
    BY <2>1 DEF HexDigits, Digits
<1>2. SkipFrom(s, Blanks) = s
  BY <1>1, SkipNothing, NulFacts
<1>3. Prefixed(s, base, c23) <=>
        /\ Char(s) = "0" /\ Char(s + 2) \in DigitsOf(base)
        /\ \/ base = 16 /\ Char(s + 1) = "x"
           \/ base = 2 /\ c23 /\ Char(s + 1) = "b"
  BY DEF Prefixed
<1>4. k = IF end = first THEN [end |-> s, value |-> 0]
          ELSE [end |-> end, value |-> Numeral(first, end, base)]
  BY <1>1, <1>2, <1>3 DEF Strtoul
<1> QED
  BY <1>4

(* The digits that make_iconst reads are of the base, or of a larger set,  *)
(* and end where the integer does.                                         *)
Ends(s, E, T) == Char(E) \notin T /\ \A j \in s..(E - 1) : Char(j) \in T
(* What stands between the prefix and the end of an integer: digits that   *)
(* the lexer accepts, among which are those of its base.                   *)
LEMMA DigitsRead ==
  ASSUME Reading, NEW L \in 0..(Len(source) - 1), NEW E, IntegerShape(L, E), Char(L) \in Digits,
         NEW s, s = FirstDigit(L), NEW base, base = Base(L)
  PROVE  /\ base \in Bases /\ s \in 0..Len(source) /\ E \in s..Len(source)
         /\ base \notin {2, 16} => s < E
         /\ s = IF base \in {2, 16} THEN L + 2 ELSE L
         /\ \E T \in {Digits, HexDigits} :
              /\ DigitsOf(base) \subseteq T /\ Ends(s, E, T)
              /\ base = 16 => "x" \notin T
              /\ base = 2 => "b" \notin T
<1>0. Len(source) \in Nat /\ E \in (L + 1)..Len(source)
  BY LenProperties DEF Reading, IntegerShape
<1>1. CASE Char(L) # "0"
  <2>1. base = 10 /\ s = L
    BY <1>1 DEF Base, FirstDigit
  <2>2. \A j \in L..(E - 1) : j = L \/ j \in (L + 1)..(E - 1)
    BY <1>0
  <2>3. Ends(s, E, Digits)
    BY <1>1, <2>1, <2>2 DEF IntegerShape, Ends
  <2>4. DigitsOf(base) \subseteq Digits /\ base \in Bases
    BY <2>1 DEF DigitsOf, Bases
  <2>5. s \in 0..Len(source) /\ E \in s..Len(source) /\ s < E
    BY <1>0, <2>1
  <2> QED
    BY <2>1, <2>3, <2>4, <2>5
<1>2. CASE Char(L) = "0" /\ Char(L + 1) \notin {"x", "b"}
  <2>1. base = 8 /\ s = L
    BY <1>2 DEF Base, FirstDigit
  <2>2. \A j \in L..(E - 1) : j = L \/ j \in (L + 1)..(E - 1)
    BY <1>0
  <2>3. Ends(s, E, Digits)
    BY <1>2, <2>1, <2>2 DEF IntegerShape, Ends
  <2>4. DigitsOf(base) \subseteq Digits /\ base \in Bases
    BY <2>1 DEF DigitsOf, Bases, Digits
  <2>5. s \in 0..Len(source) /\ E \in s..Len(source) /\ s < E
    BY <1>0, <2>1
  <2> QED
    BY <2>1, <2>3, <2>4, <2>5
<1>3. CASE Char(L) = "0" /\ Char(L + 1) = "x"
  <2>1. base = 16 /\ s = L + 2
    BY <1>3 DEF Base, FirstDigit
  <2>2. E >= L + 2 /\ Ends(s, E, HexDigits)
    BY <1>3, <2>1 DEF IntegerShape, Ends
  <2>3. DigitsOf(base) \subseteq HexDigits /\ base \in Bases /\ "x" \notin HexDigits
    BY <2>1 DEF DigitsOf, Bases, Digits, HexDigits
  <2>4. s \in 0..Len(source) /\ E \in s..Len(source)
    BY <1>0, <2>1, <2>2
  <2> QED
    BY <2>1, <2>2, <2>3, <2>4
<1>4. CASE Char(L) = "0" /\ Char(L + 1) = "b"
  <2>1. base = 2 /\ s = L + 2
    BY <1>4 DEF Base, FirstDigit
  <2>2. E >= L + 2 /\ Ends(s, E, Digits)
    BY <1>4, <2>1 DEF IntegerShape, Ends
  <2>3. DigitsOf(base) \subseteq Digits /\ base \in Bases /\ "b" \notin Digits
    BY <2>1 DEF DigitsOf, Bases, Digits
  <2>4. s \in 0..Len(source) /\ E \in s..Len(source)
    BY <1>0, <2>1, <2>2
  <2> QED
    BY <2>1, <2>2, <2>3, <2>4
<1> QED
  BY <1>1, <1>2, <1>3, <1>4

Valid(s, E, base) == Text(s, E) # <<>> /\ AllIn(Text(s, E), 1, DigitsOf(base))
Accepts(k, s, E, base) == k.end = E /\ s # E /\ Valid(s, E, base) /\ k.value = Numeral(s, E, base)
Errs(k, s, E, base)    == k.end <= E /\ (k.end # E \/ s = E) /\ ~Valid(s, E, base)
Aborts(k, s, E, base)  == k.end > E /\ base \in {2, 16} /\ Text(s, E) \in {<<>>, <<"0">>}

(* Whether they are valid in that base, character by character. *)
LEMMA ValidByCharacter ==
  ASSUME Reading, NEW s \in 0..Len(source), NEW E \in s..Len(source), NEW base \in Bases
  PROVE  /\ s = E => Text(s, E) = <<>>
         /\ Valid(s, E, base) <=> s # E /\ \A j \in s..(E - 1) : Char(j) \in DigitsOf(base)
<1>0. Len(source) \in Nat /\ s \in Nat /\ E \in Nat
  BY LenProperties DEF Reading
<1>1. PICK t : t = Text(s, E)
  OBVIOUS
<1>2. t \in Seq(Characters) /\ Len(t) = E - s
  BY <1>0, <1>1, TextFacts
<1>3. t = <<>> <=> s = E
  <2>1. t = <<>> <=> Len(t) = 0
    BY <1>2, EmptySeq
  <2> QED
    BY <1>0, <1>2, <2>1
<1>4. DigitsOf(base) \subseteq Ordinary
  BY DigitsOfBase, DigitSets
<1>5. AllIn(Text(s, E), 1, DigitsOf(base)) <=> \A j \in (s + 1 - 1)..(E - 1) : Char(j) \in DigitsOf(base)
  BY <1>0, <1>4, AllInText
<1>6. s + 1 - 1 = s
  BY <1>0
<1> QED
  BY <1>1, <1>3, <1>5, <1>6 DEF Valid

(* A text of one character. *)
LEMMA OneCharacter ==
  ASSUME Reading, NEW l \in Nat, l + 1 <= Len(source), NEW x \in Ordinary, Char(l) = x
  PROVE  Text(l, l + 1) = <<x>>
<1>0. Len(source) \in Nat
  BY LenProperties DEF Reading
<1>1. PICK h, t : h = l + 1 /\ t = Text(l, h)
  OBVIOUS
<1>2. h \in l..Len(source) /\ h - l = 1 /\ l \in l..(h - 1) /\ l - l + 1 = 1
  BY <1>0, <1>1
<1>3. t \in Seq(Characters) /\ Len(t) = 1
  BY <1>1, <1>2, TextFacts
<1>4. \A j \in l..(h - 1) : t[j - l + 1] = x <=> Char(j) = x
  BY <1>1, <1>2, TextAt
<1>5. t[1] = x
  BY <1>2, <1>4
<1> QED
  BY <1>1, <1>3, <1>5, ShortSequences

(* What strtoul leaves of an integer: all of it was read, or it is invalid *)
(* in its base, or the assertion fails.                                    *)
LEMMA IconstOutcome ==
  ASSUME Reading, NEW L \in 0..(Len(source) - 1), NEW E, IntegerShape(L, E), Char(L) \in Digits,
         NEW s, s = FirstDigit(L), NEW base, base = Base(L), NEW c23 \in BOOLEAN,
         NEW k, k = Strtoul(s, base, c23)
  PROVE  /\ k.end \in Int /\ E \in Int
         /\ Accepts(k, s, E, base) \/ Errs(k, s, E, base) \/ Aborts(k, s, E, base)
<1>0. Len(source) \in Nat
  BY LenProperties DEF Reading
<1>1. PICK T \in {Digits, HexDigits} :
        /\ DigitsOf(base) \subseteq T /\ Ends(s, E, T)
        /\ base = 16 => "x" \notin T
        /\ base = 2 => "b" \notin T
  BY DigitsRead
<1>2. /\ base \in Bases /\ s \in 0..Len(source) /\ E \in s..Len(source)
      /\ base \notin {2, 16} => s < E
  BY DigitsRead
<1>3. s \in Nat /\ E \in Nat /\ s <= E /\ E <= Len(source)
  BY <1>0, <1>2
<1>4. k.end \in Int /\ k.end >= s
  BY <1>2, StrtoulEnds
<1>5. CASE s = E
  <2>1. base \in {2, 16} /\ Text(s, E) = <<>> /\ ~Valid(s, E, base)
    BY <1>2, <1>3, <1>5, ValidByCharacter
  <2>2. k.end = E \/ k.end > E
    BY <1>3, <1>4, <1>5
  <2> QED
    BY <1>3, <1>4, <1>5, <2>1, <2>2 DEF Errs, Aborts
<1>6. CASE s # E
  <2>1. s \in s..(E - 1)
    BY <1>3, <1>6
  <2>2. Char(s) \in T /\ Char(s) \in HexDigits
    BY <1>1, <2>1, DigitSets DEF Ends
  <2>3. PICK first : first = IF Prefixed(s, base, c23) THEN s + 2 ELSE s
    OBVIOUS
  <2>4. PICK end : end = SkipFrom(first, DigitsOf(base))
    OBVIOUS
  <2>5. /\ k.end = (IF end = first THEN s ELSE end)
        /\ end # first => k.value = Numeral(first, end, base)
    BY <1>2, <2>2, <2>3, <2>4, StrtoulAtDigit
  <2>6. CASE Prefixed(s, base, c23)
    <3>1. /\ base \in {2, 16} /\ Char(s) = "0" /\ Char(s + 1) \notin T
          /\ Char(s + 2) \in DigitsOf(base) /\ first = s + 2
      BY <1>1, <2>3, <2>6 DEF Prefixed
    <3>2. s + 2 \in Int /\ Char(s + 2) # Nul
      BY <1>2, <1>3, <3>1, DigitsOfBase
    <3>3. s + 2 < Len(source)
      BY <1>0, <3>2, NulFacts
    <3>4. first \in 0..Len(source)
      BY <1>0, <1>3, <3>1, <3>3
    <3>5. end \in first..Len(source) /\ Char(end) \notin DigitsOf(base)
      BY <1>2, <2>4, <3>4, SkipFacts, DigitsOfBase
    <3>6. end # first
      BY <3>1, <3>5
    <3>7. ~(s + 1 \in s..(E - 1))
      BY <1>1, <3>1 DEF Ends
    <3>8. E = s + 1
      BY <1>3, <1>6, <3>7
    <3>9. k.end = end /\ end > E
      <4>1. end >= s + 2
        BY <1>0, <1>3, <3>1, <3>5
      <4>2. end \in Int
        BY <1>0, <1>3, <3>1, <3>5
      <4> QED
        BY <1>3, <2>5, <3>6, <3>8, <4>1, <4>2
    <3>10. Text(s, E) = <<"0">>
      <4>1. PICK zero : zero = "0"
        OBVIOUS
      <4>2. zero \in Ordinary /\ Char(s) = zero /\ s + 1 <= Len(source)
        BY <1>3, <3>1, <3>8, <4>1, DigitSets
      <4>3. Text(s, s + 1) = <<zero>>
        BY <1>3, <4>2, OneCharacter
      <4> QED
        BY <3>8, <4>1, <4>3
    <3> QED
      BY <1>3, <1>4, <3>1, <3>9, <3>10 DEF Aborts
  <2>7. CASE ~Prefixed(s, base, c23)
    <3>1. first = s
      BY <2>3, <2>7
    <3>2. /\ end \in s..Len(source) /\ Char(end) \notin DigitsOf(base)
          /\ \A i \in s..(end - 1) : Char(i) \in DigitsOf(base)
      BY <1>2, <2>4, <3>1, SkipFacts, DigitsOfBase
    <3>3. end \in Nat
      BY <1>0, <1>3, <3>2
    <3>4. end <= E
      <4>1. ~(E \in s..(end - 1))
        BY <1>1, <3>2 DEF Ends
      <4> QED
        BY <1>3, <3>3, <4>1
    <3>5. CASE end = E
      <4>1. Valid(s, E, base)
        BY <1>2, <1>6, <3>2, <3>5, ValidByCharacter
      <4>2. k.end = E /\ k.value = Numeral(s, E, base)
        BY <1>6, <2>5, <3>1, <3>5
      <4> QED
        BY <1>3, <1>4, <1>6, <4>1, <4>2 DEF Accepts
    <3>6. CASE end # E
      <4>1. end \in s..(E - 1)
        BY <1>3, <3>2, <3>3, <3>4, <3>6
      <4>2. ~Valid(s, E, base)
        BY <1>2, <3>2, <4>1, ValidByCharacter
      <4>3. k.end = end
        BY <2>5, <3>1
      <4> QED
        BY <1>3, <1>4, <3>4, <3>6, <4>2, <4>3 DEF Errs
    <3> QED
      BY <3>5, <3>6
  <2> QED
    BY <2>6, <2>7
<1> QED
  BY <1>5, <1>6

(* The invariant is kept by make_iconst. *)
LEMMA MakeIconstInductive ==
  ASSUME LInv, MakeIconst
  PROVE  LInv'
<1>1. /\ at = "make_iconst" /\ at # "isource" /\ UNCHANGED vars /\ UNCHANGED <<sp, lo, pieces>>
  BY DEF MakeIconst
<1> PICK L, E : L = Last.lo /\ E = Last.hi
  OBVIOUS
<1>2. Reading /\ Len(source) \in Nat /\ sp \in Nat /\ lo \in Nat
  BY <1>1, ReadingFacts DEF LInv, CursorOK
<1>3. /\ pieces # <<>> /\ sp = E /\ TokenOK(Last) /\ Last.kind = "integer"
      /\ PiecesOK
  BY <1>1 DEF LInv, CursorOK
<1>4. L < Len(source) /\ Char(L) \in Digits /\ E = IntegerEnd(L) /\ E <= Len(source)
  BY <1>3 DEF TokenOK
<1>5. L \in 0..(Len(source) - 1)
  <2>1. pieces \in Seq(Pieces) /\ Len(pieces) \in Nat
    BY <1>3, LenProperties DEF PiecesOK
  <2>2. Len(pieces) \in 1..Len(pieces)
    BY <1>3, <2>1, EmptySeq
  <2>3. Last \in Pieces
    BY <2>1, <2>2, ElementOfSeq DEF Last
  <2>4. L \in Nat
    BY <2>3 DEF Pieces
  <2> QED
    BY <1>2, <1>4, <2>4
<1>6. IntegerShape(L, E)
  BY <1>2, <1>4, <1>5, IntegerRead
<1> PICK s, base : s = FirstDigit(L) /\ base = Base(L)
  OBVIOUS
<1>7. s = IF base \in {2, 16} THEN L + 2 ELSE L
  BY <1>2, <1>4, <1>5, <1>6, DigitsRead
<1>8. PICK c23 \in BOOLEAN :
        LET k == Strtoul(s, base, c23)
            outcome == IF k.end > E THEN "aborted"
                       ELSE IF k.end # E \/ s = k.end THEN "error" ELSE "accepted"
        IN  /\ iconst' = [outcome |-> outcome, lo |-> L, hi |-> E, value |-> k.value]
            /\ at' = IF outcome = "aborted" THEN "aborted" ELSE "yylex"
  BY DEF MakeIconst
<1>9. PICK k : k = Strtoul(s, base, c23)
  OBVIOUS
<1>10. PICK outcome : outcome = IF k.end > E THEN "aborted"
                                ELSE IF k.end # E \/ s = k.end THEN "error" ELSE "accepted"
  OBVIOUS
<1>11. /\ iconst' = [outcome |-> outcome, lo |-> L, hi |-> E, value |-> k.value]
       /\ at' = IF outcome = "aborted" THEN "aborted" ELSE "yylex"
  BY <1>8, <1>9, <1>10
<1>12. /\ k.end \in Int /\ E \in Int
       /\ Accepts(k, s, E, base) \/ Errs(k, s, E, base) \/ Aborts(k, s, E, base)
  BY <1>2, <1>4, <1>5, <1>6, <1>9, IconstOutcome
<1>13. \/ outcome = "accepted" /\ Valid(s, E, base) /\ k.value = Numeral(s, E, base)
       \/ outcome = "error" /\ ~Valid(s, E, base)
       \/ outcome = "aborted" /\ base \in {2, 16} /\ Text(s, E) \in {<<>>, <<"0">>}
  <2>1. CASE Accepts(k, s, E, base)
    <3>1. outcome = "accepted"
      BY <1>10, <1>12, <2>1 DEF Accepts
    <3> QED
      BY <2>1, <3>1 DEF Accepts
  <2>2. CASE Errs(k, s, E, base)
    <3>1. outcome = "error"
      BY <1>10, <1>12, <2>2 DEF Errs
    <3> QED
      BY <2>2, <3>1 DEF Errs
  <2>3. CASE Aborts(k, s, E, base)
    <3>1. outcome = "aborted"
      BY <1>10, <1>12, <2>3 DEF Aborts
    <3> QED
      BY <2>3, <3>1 DEF Aborts
  <2> QED
    BY <1>12, <2>1, <2>2, <2>3
<1>14. /\ \A i, end, b : Numeral(i, end, b)' = Numeral(i, end, b)
       /\ \A i : Base(i)' = Base(i)
       /\ \A i, j : Text(i, j)' = Text(i, j)
  BY <1>1, ReadingsKept
<1>15. ConstantsAreTokens'
  <2>1. PICK r : r = iconst'
    OBVIOUS
  <2>2. r.outcome = outcome /\ r.lo = L /\ r.hi = E /\ r.value = k.value
    BY <1>11, <2>1
  <2>3. /\ Base(r.lo)' = base
        /\ Text(s, r.hi)' = Text(s, E)
        /\ Numeral(s, r.hi, base)' = Numeral(s, E, base)
    BY <1>14, <2>2
  <2> QED
    BY <1>7, <1>13, <2>1, <2>2, <2>3 DEF ConstantsAreTokens, Valid
<1>16. /\ IInv' /\ Reads' /\ pc' = "done" /\ PiecesOK' /\ Cursor' = Cursor /\ source' = source
  <2>1. source' = source
    BY <1>1 DEF vars
  <2> QED
    BY <1>1, <1>3, <2>1, SourceKept, PiecesKept
<1>17. at' = "yylex" \/ at' = "aborted"
  BY <1>11
<1>18. CursorOK'
  <2>1. sp' = Cursor' /\ sp' <= Len(source') /\ sp' \in Nat /\ lo' \in Nat
    BY <1>1, <1>2, <1>3, <1>4, <1>16 DEF Cursor
  <2> QED
    BY <1>17, <2>1 DEF CursorOK
<1> QED
  BY <1>15, <1>16, <1>17, <1>18 DEF LInv
-----------------------------------------------------------------------------
(* It is kept by every step of the lexer. *)
LEMMA LexNextInductive ==
  ASSUME LInv, [LexNext]_<<vars, lexvars>>
  PROVE  LInv'
<1>1. CASE UNCHANGED <<vars, lexvars>>
  <2>1. UNCHANGED vars /\ UNCHANGED <<sp, lo, at, pieces, iconst>>
    BY <1>1 DEF lexvars
  <2>2. CASE at = "isource"
    <3>1. IInv' /\ Reads'
      BY <2>1, NextInductive, ReadsInductive DEF LInv
    <3> QED
      BY <2>1, <2>2, <3>1 DEF LInv
  <2>3. CASE at # "isource"
    <3>1. /\ IInv' /\ Reads' /\ pc' = "done" /\ PiecesOK' /\ ConstantsAreTokens'
          /\ Cursor' = Cursor /\ Last' = Last /\ source' = source
          /\ \A k : Char(k)' = Char(k)
      BY <2>1, <2>3, MoveFacts
    <3>2. pieces # <<>> /\ TokenOK(Last) => TokenOK(Last)'
      <4>1. PICK q : q = Last
        OBVIOUS
      <4>2. TokenOK(q) => TokenOK(q)'
        BY <2>1, TokenKept
      <4> QED
        BY <3>1, <4>1, <4>2
    <3>3. /\ InComment(TRUE) => InComment(TRUE)'
          /\ InComment(FALSE) => InComment(FALSE)'
      BY <2>1, <3>1 DEF InComment
    <3>4. CursorOK'
      BY <2>1, <2>3, <3>1, <3>2, <3>3 DEF LInv, CursorOK
    <3> QED
      BY <2>1, <2>3, <3>1, <3>4 DEF LInv
  <2> QED
    BY <2>2, <2>3
<1>2. CASE Prepare
  BY <1>2, PrepareInductive
<1>3. CASE Yylex
  BY <1>3, RedoInductive, WordInductive, IntegerInductive, DotInductive, UnexpectedInductive,
     PunctuatorInductive, EndOfFileInductive DEF Yylex
<1>4. CASE StartComment \/ Comment \/ CommentLine
  BY <1>4, StartCommentInductive, CommentInductive, CommentLineInductive
<1>5. CASE Parse
  BY <1>5, ParseInductive
<1>6. CASE MakeIconst
  BY <1>6, MakeIconstInductive
<1> QED
  BY <1>1, <1>2, <1>3, <1>4, <1>5, <1>6 DEF LexNext

(* In every reachable state of the lexer. *)
LEMMA LexInductive == LexSpec => []LInv
  BY LexInitInductive, LexNextInductive, PTL DEF LexSpec

(* For every file: the file is cut into blanks, comments and tokens        *)
(* without a gap or an overlap, each comment ends where it should, and the *)
(* end that yylex reports is that of the file or a byte that ends it.      *)
(* Each word, number and punctuator is a token of C; there is a longer one *)
(* at its place exactly if a word is followed by a digit, a number by its  *)
(* suffix or a dot, or - by >.                                             *)
THEOREM TilesSource == LexSpec => []SourceIsTiled
  BY LexInductive, PiecesTile, PTL

(* For every file and either strtoul: an integer that make_iconst accepts  *)
(* has digits, all of its base, and the value they denote; one that it     *)
(* reports has none or one of another base; and its assertion fails only   *)
(* where a prefix has no digit, or a single 0, after it.                   *)
THEOREM IntegersAreTheirTexts == LexSpec => []ConstantsAreTokens
<1>1. LInv => ConstantsAreTokens
  BY DEF LInv, ConstantsAreTokens
<1> QED
  BY <1>1, LexInductive, PTL

(* The lexer makes the lines of Source first, and never changes them.      *)
THEOREM LexerKeepsLines == LexSpec => Spec
<1>1. LexInit => Init
  BY DEF LexInit
<1>2. [LexNext]_<<vars, lexvars>> => [Next]_vars
  BY DEF LexNext, Prepare, Yylex, Redo, Word, Integer, Dot, Unexpected, Punctuator, EndOfFile,
         Read, StartComment, Comment, CommentLine, Parse, MakeIconst
<1> QED
  BY <1>1, <1>2, PTL DEF LexSpec, Spec
-----------------------------------------------------------------------------
(* The tables of src/strings.c, for every set of texts and hash function. *)
Entry == [key : Nat, val : Vals]

(* The invariant: every key that was allocated is in the chain of its      *)
(* hash, which getkey searches before it allocates another.                *)
StringsOK ==
  /\ strings \in Seq([text : Texts, hash : Nat])
  /\ \A k \in 1..Len(strings) : strings[k].hash = Hash[strings[k].text]
KeysOK ==
  /\ allkeys \in [Buckets -> Seq(Nat)]
  /\ \A b \in Buckets : \A i \in 1..Len(allkeys[b]) : allkeys[b][i] \in 1..Len(strings)
  /\ \A k \in 1..Len(strings) :
       \E i \in 1..Len(allkeys[Bucket(strings[k].hash)]) : allkeys[Bucket(strings[k].hash)][i] = k
Unique == \A k, m \in 1..Len(strings) : strings[k].text = strings[m].text => k = m
TableOK ==
  /\ table \in [Buckets -> Seq(Entry)]
  /\ \A b \in Buckets : \A i \in 1..Len(table[b]) : table[b][i].key \in 1..Len(strings)
StringsIInv == StringsOK /\ KeysOK /\ Unique /\ TableOK
-----------------------------------------------------------------------------
(* What First, and through it a search in a chain, finds.                  *)
LEMMA FirstFacts ==
  ASSUME NEW S \in SUBSET Nat, S # {}
  PROVE  First(S) \in S /\ \A j \in S : First(S) <= j
<1>1. \E i \in S : \A j \in S : i <= j
  BY HasLeast
<1> QED
  BY <1>1 DEF First

(* The least is the only one. *)
LEMMA FirstIsLeast ==
  ASSUME NEW S \in SUBSET Nat, NEW i \in S, \A j \in S : i <= j
  PROVE  First(S) = i
<1>1. First(S) \in S /\ First(S) <= i /\ i <= First(S)
  BY FirstFacts
<1>2. i \in Nat /\ First(S) \in Nat
  BY <1>1
<1> QED
  BY <1>1, <1>2

(* A hash has a bucket. *)
LEMMA BucketType == ASSUME NEW h \in Nat PROVE Bucket(h) \in Buckets
  BY StringsAssumption DEF Bucket, Buckets

(* A value put where the key already is: only that key changes.            *)
LEMMA ValueAfterReplace ==
  ASSUME NEW chain \in Seq(Entry), NEW key \in Nat, NEW v \in Vals,
         EntryAt(chain, key) # {},
         NEW after, after = ChainPut(chain, key, v)
  PROVE  /\ after \in Seq(Entry) /\ Len(after) = Len(chain)
         /\ \A i \in 1..Len(chain) : after[i].key = chain[i].key
         /\ \A m \in Nat : ValueIn(after, m) = IF m = key THEN v ELSE ValueIn(chain, m)
<1>1. Len(chain) \in Nat /\ \A i \in 1..Len(chain) : chain[i] \in Entry
  BY LenProperties, ElementOfSeq
<1>2. \A m : EntryAt(chain, m) \in SUBSET Nat
  BY <1>1 DEF EntryAt
<1> PICK f : f = First(EntryAt(chain, key))
  OBVIOUS
<1>3. f \in 1..Len(chain) /\ chain[f].key = key
  <2>1. f \in EntryAt(chain, key)
    BY <1>2, FirstFacts
  <2> QED
    BY <2>1 DEF EntryAt
<1>4. after = [chain EXCEPT ![f] = [chain[f] EXCEPT !.val = v]]
  BY DEF ChainPut
<1>5. [chain[f] EXCEPT !.val = v] \in Entry /\ [chain[f] EXCEPT !.val = v].val = v
      /\ [chain[f] EXCEPT !.val = v].key = key
  BY <1>1, <1>3 DEF Entry
<1>6. /\ after \in Seq(Entry) /\ Len(after) = Len(chain)
      /\ \A j \in 1..Len(chain) : after[j] = IF j = f THEN [chain[f] EXCEPT !.val = v] ELSE chain[j]
  BY <1>3, <1>4, <1>5, ExceptSeq
<1>7. \A i \in 1..Len(chain) : after[i].key = chain[i].key
  BY <1>3, <1>5, <1>6
<1>8. \A m : EntryAt(after, m) = EntryAt(chain, m)
  BY <1>6, <1>7 DEF EntryAt
<1>9. ASSUME NEW m \in Nat
      PROVE  ValueIn(after, m) = IF m = key THEN v ELSE ValueIn(chain, m)
  <2>1. CASE m = key
    BY <1>3, <1>5, <1>6, <1>8, <2>1 DEF ValueIn
  <2>2. CASE m # key /\ EntryAt(chain, m) = {}
    BY <1>8, <2>2 DEF ValueIn
  <2>3. CASE m # key /\ EntryAt(chain, m) # {}
    <3>1. First(EntryAt(chain, m)) \in 1..Len(chain) /\ chain[First(EntryAt(chain, m))].key = m
      <4>1. First(EntryAt(chain, m)) \in EntryAt(chain, m)
        BY <1>2, <2>3, FirstFacts
      <4> QED
        BY <4>1 DEF EntryAt
    <3>2. First(EntryAt(chain, m)) # f
      BY <1>3, <2>3, <3>1
    <3>3. after[First(EntryAt(chain, m))] = chain[First(EntryAt(chain, m))]
      BY <1>6, <3>1, <3>2
    <3>4. EntryAt(after, m) = EntryAt(chain, m)
      BY <1>8
    <3>5. ValueIn(after, m) = after[First(EntryAt(chain, m))].val
      BY <2>3, <3>4 DEF ValueIn
    <3>6. ValueIn(chain, m) = chain[First(EntryAt(chain, m))].val
      BY <2>3 DEF ValueIn
    <3> QED
      BY <2>3, <3>3, <3>5, <3>6
  <2> QED
    BY <2>1, <2>2, <2>3
<1> QED
  BY <1>6, <1>7, <1>9

(* A new entry at the head of its chain: the others move by one.           *)
LEMMA ValueAfterPrepend ==
  ASSUME NEW chain \in Seq(Entry), NEW key \in Nat, NEW v \in Vals,
         EntryAt(chain, key) = {},
         NEW after, after = ChainPut(chain, key, v)
  PROVE  /\ after \in Seq(Entry) /\ Len(after) = Len(chain) + 1
         /\ after[1].key = key
         /\ \A i \in 1..Len(chain) : after[i + 1].key = chain[i].key
         /\ \A m \in Nat : ValueIn(after, m) = IF m = key THEN v ELSE ValueIn(chain, m)
<1> DEFINE e == [key |-> key, val |-> v]
<1>1. e \in Entry /\ <<e>> \in Seq(Entry) /\ Len(<<e>>) = 1 /\ <<e>>[1] = e
  BY DEF Entry
<1>2. Len(chain) \in Nat /\ after = <<e>> \o chain
  BY LenProperties DEF ChainPut
<1>3. /\ after \in Seq(Entry) /\ Len(after) = 1 + Len(chain)
      /\ \A i \in 1..(1 + Len(chain)) : after[i] = IF i <= 1 THEN <<e>>[i] ELSE chain[i - 1]
  BY <1>1, <1>2, ConcatProperties
<1>4. after[1] = e /\ \A i \in 1..Len(chain) : after[i + 1] = chain[i]
  BY <1>1, <1>2, <1>3
<1>5. e.key = key /\ e.val = v
  OBVIOUS
<1> HIDE DEF e
<1>6. ASSUME NEW m \in Nat
      PROVE  ValueIn(after, m) = IF m = key THEN v ELSE ValueIn(chain, m)
  <2>1. EntryAt(chain, m) \in SUBSET Nat /\ EntryAt(after, m) \in SUBSET Nat
    BY <1>2, <1>3 DEF EntryAt
  <2>2. CASE m = key
    <3>1. 1 \in EntryAt(after, m) /\ \A j \in EntryAt(after, m) : 1 <= j
      BY <1>2, <1>3, <1>4, <1>5, <2>2 DEF EntryAt
    <3>2. First(EntryAt(after, m)) = 1
      BY <2>1, <3>1, FirstIsLeast
    <3> QED
      BY <1>4, <1>5, <2>2, <3>1, <3>2 DEF ValueIn
  <2>3. CASE m # key
    <3>1. \A j \in EntryAt(chain, m) : j + 1 \in EntryAt(after, m)
      BY <1>2, <1>3, <1>4 DEF EntryAt
    <3>2. \A j \in EntryAt(after, m) : j - 1 \in EntryAt(chain, m)
      <4> SUFFICES ASSUME NEW j \in EntryAt(after, m) PROVE j - 1 \in EntryAt(chain, m)
        OBVIOUS
      <4>1. j \in 1..(Len(chain) + 1) /\ after[j].key = m
        BY <1>2, <1>3 DEF EntryAt
      <4>2. j # 1
        BY <1>4, <1>5, <2>3, <4>1
      <4>3. j - 1 \in 1..Len(chain) /\ after[(j - 1) + 1] = chain[j - 1] /\ (j - 1) + 1 = j
        BY <1>2, <1>4, <4>1, <4>2
      <4> QED
        BY <4>1, <4>3 DEF EntryAt
    <3>3. CASE EntryAt(chain, m) = {}
      <4>1. EntryAt(after, m) = {}
        BY <3>2, <3>3
      <4> QED
        BY <2>3, <3>3, <4>1 DEF ValueIn
    <3>4. CASE EntryAt(chain, m) # {}
      <4> PICK f : f = First(EntryAt(chain, m))
        OBVIOUS
      <4>1. f \in EntryAt(chain, m) /\ \A j \in EntryAt(chain, m) : f <= j
        BY <2>1, <3>4, FirstFacts
      <4>2. f + 1 \in EntryAt(after, m)
        BY <3>1, <4>1
      <4>3. ASSUME NEW j \in EntryAt(after, m) PROVE f + 1 <= j
        <5>1. f <= j - 1
          BY <3>2, <4>1
        <5> QED
          BY <2>1, <4>1, <5>1
      <4>4. First(EntryAt(after, m)) = f + 1
        BY <2>1, <4>2, <4>3, FirstIsLeast
      <4>5. after[f + 1] = chain[f]
        BY <1>4, <4>1 DEF EntryAt
      <4> QED
        BY <2>3, <3>4, <4>2, <4>4, <4>5 DEF ValueIn
    <3> QED
      BY <3>3, <3>4
  <2> QED
    BY <2>2, <2>3
<1> QED
  BY <1>2, <1>3, <1>4, <1>5, <1>6
-----------------------------------------------------------------------------
(* The keys and their texts. *)
LEMMA StringTypes ==
  ASSUME StringsIInv
  PROVE  /\ Len(strings) \in Nat
         /\ \A k \in 1..Len(strings) :
              /\ strings[k] \in [text : Texts, hash : Nat]
              /\ strings[k].text \in Texts /\ strings[k].hash \in Nat
              /\ strings[k].hash = Hash[strings[k].text]
              /\ Bucket(strings[k].hash) \in Buckets
         /\ \A t \in Texts : Hash[t] \in Nat /\ Bucket(Hash[t]) \in Buckets
<1>1. Len(strings) \in Nat /\ \A k \in 1..Len(strings) : strings[k] \in [text : Texts, hash : Nat]
  BY LenProperties, ElementOfSeq DEF StringsIInv, StringsOK
<1>2. \A k \in 1..Len(strings) : strings[k].text \in Texts /\ strings[k].hash \in Nat
  BY <1>1
<1>3. \A t \in Texts : Hash[t] \in Nat
  BY StringsAssumption
<1> QED
  BY <1>1, <1>2, <1>3, BucketType DEF StringsIInv, StringsOK

(* A search for a text fails only if no key has it. *)
LEMMA SearchFacts ==
  ASSUME StringsIInv, NEW t \in Texts
  PROVE  /\ KeyAt(t) = {} => \A k \in 1..Len(strings) : strings[k].text # t
         /\ KeyAt(t) # {} => /\ KeyChain(t)[First(KeyAt(t))] \in 1..Len(strings)
                             /\ strings[KeyChain(t)[First(KeyAt(t))]].text = t
<1>1. Bucket(Hash[t]) \in Buckets
  BY StringTypes
<1>2. KeyChain(t) \in Seq(Nat) /\ Len(KeyChain(t)) \in Nat
  BY <1>1, LenProperties DEF StringsIInv, KeysOK, KeyChain
<1>3. ASSUME NEW k \in 1..Len(strings), strings[k].text = t PROVE KeyAt(t) # {}
  <2>1. strings[k].hash = Hash[t]
    BY <1>3, StringTypes
  <2>2. PICK i \in 1..Len(KeyChain(t)) : KeyChain(t)[i] = k
    BY <2>1 DEF StringsIInv, KeysOK, KeyChain
  <2>3. SameText(KeyChain(t)[i], t)
    BY <1>3, <2>1, <2>2 DEF SameText
  <2> QED
    BY <2>2, <2>3 DEF KeyAt
<1>4. ASSUME KeyAt(t) # {}
      PROVE  /\ KeyChain(t)[First(KeyAt(t))] \in 1..Len(strings)
             /\ strings[KeyChain(t)[First(KeyAt(t))]].text = t
  <2>1. KeyAt(t) \in SUBSET Nat
    BY <1>2 DEF KeyAt
  <2>2. First(KeyAt(t)) \in KeyAt(t)
    BY <1>4, <2>1, FirstFacts
  <2>3. /\ First(KeyAt(t)) \in 1..Len(KeyChain(t))
        /\ SameText(KeyChain(t)[First(KeyAt(t))], t)
    BY <2>2 DEF KeyAt
  <2> QED
    BY <1>1, <2>3 DEF StringsIInv, KeysOK, KeyChain, SameText
<1> QED
  BY <1>3, <1>4

(* The invariant of Strings holds for empty tables. *)
LEMMA StringsInitInductive == StringsInit => StringsIInv
<1> SUFFICES ASSUME StringsInit PROVE StringsIInv
  OBVIOUS
<1>1. strings = <<>> /\ Len(strings) = 0
  BY DEF StringsInit
<1>2. /\ allkeys \in [Buckets -> Seq(Nat)] /\ table \in [Buckets -> Seq(Entry)]
      /\ \A b \in Buckets : Len(allkeys[b]) = 0 /\ Len(table[b]) = 0
  BY DEF StringsInit, EmptyChains
<1>3. strings \in Seq([text : Texts, hash : Nat])
  BY <1>1
<1> QED
  BY <1>1, <1>2, <1>3 DEF StringsIInv, StringsOK, KeysOK, Unique, TableOK

(* What a new key is. *)
LEMMA NewKeyFacts ==
  ASSUME StringsIInv, NEW t \in Texts, GetKey(t), KeyAt(t) = {}
  PROVE  /\ Len(strings') = Len(strings) + 1
         /\ strings' \in Seq([text : Texts, hash : Nat])
         /\ \A k \in 1..Len(strings) : strings'[k] = strings[k]
         /\ strings'[Len(strings) + 1] = [text |-> t, hash |-> Hash[t]]
         /\ allkeys' = [allkeys EXCEPT ![Bucket(Hash[t])] = <<Len(strings) + 1>> \o @]
         /\ answer' = [kind |-> "key", key |-> Len(strings) + 1]
         /\ UNCHANGED table
<1>1. /\ strings' = Append(strings, [text |-> t, hash |-> Hash[t]])
      /\ allkeys' = [allkeys EXCEPT ![Bucket(Hash[t])] = <<Len(strings) + 1>> \o @]
      /\ answer' = [kind |-> "key", key |-> Len(strings) + 1]
      /\ UNCHANGED table
  BY DEF GetKey
<1>2. Hash[t] \in Nat /\ Len(strings) \in Nat
  BY StringTypes
<1>3. [text |-> t, hash |-> Hash[t]] \in [text : Texts, hash : Nat]
  BY <1>2
<1>4. strings \in Seq([text : Texts, hash : Nat])
  BY DEF StringsIInv, StringsOK
<1> QED
  BY <1>1, <1>2, <1>3, <1>4

(* It is kept by getkey, whether it finds the text or not. *)
LEMMA GetKeyInductive ==
  ASSUME StringsIInv, NEW t \in Texts, GetKey(t)
  PROVE  StringsIInv'
<1>1. CASE KeyAt(t) # {}
  <2>1. UNCHANGED <<strings, allkeys, table>>
    BY <1>1 DEF GetKey
  <2> QED
    BY <2>1 DEF StringsIInv, StringsOK, KeysOK, Unique, TableOK
<1>2. CASE KeyAt(t) = {}
  <2> PICK n, b : n = Len(strings) /\ b = Bucket(Hash[t])
    OBVIOUS
  <2>1. /\ n \in Nat /\ b \in Buckets
        /\ \A k \in 1..n : /\ strings[k].hash \in Nat /\ Bucket(strings[k].hash) \in Buckets
                             /\ strings[k].hash = Hash[strings[k].text]
    BY StringTypes
  <2>2. /\ Len(strings') = n + 1
        /\ strings' \in Seq([text : Texts, hash : Nat])
        /\ \A k \in 1..n : strings'[k] = strings[k]
        /\ strings'[n + 1] = [text |-> t, hash |-> Hash[t]]
        /\ allkeys' = [allkeys EXCEPT ![b] = <<n + 1>> \o @]
        /\ UNCHANGED table
    BY <1>2, NewKeyFacts
  <2>3. \A k \in 1..(n + 1) : k \in 1..n \/ k = n + 1
    BY <2>1
  <2>4. StringsOK'
    BY <2>1, <2>2, <2>3 DEF StringsOK
  <2>5. Unique'
    <3>1. \A k \in 1..n : strings[k].text # t
      BY <1>2, SearchFacts
    <3>2. strings'[n + 1].text = t
      BY <2>2
    <3> SUFFICES ASSUME NEW k \in 1..(n + 1), NEW m \in 1..(n + 1),
                        strings'[k].text = strings'[m].text
                 PROVE  k = m
      BY <2>2 DEF Unique
    <3>3. CASE k \in 1..n /\ m \in 1..n
      BY <2>2, <3>3 DEF StringsIInv, Unique
    <3>4. CASE k = n + 1 /\ m \in 1..n
      BY <2>2, <3>1, <3>2, <3>4
    <3>5. CASE k \in 1..n /\ m = n + 1
      BY <2>2, <3>1, <3>2, <3>5
    <3> QED
      BY <2>3, <3>3, <3>4, <3>5
  <2>6. TableOK'
    <3>1. 1..n \subseteq 1..(n + 1)
      BY <2>1
    <3> QED
      BY <2>2, <3>1 DEF StringsIInv, TableOK
  <2>7. KeysOK'
    <3> PICK c : c = allkeys[b]
      OBVIOUS
    <3>1. /\ allkeys \in [Buckets -> Seq(Nat)] /\ c \in Seq(Nat) /\ Len(c) \in Nat
          /\ \A i \in 1..Len(c) : c[i] \in 1..n
      BY <2>1, LenProperties DEF StringsIInv, KeysOK
    <3>2. <<n + 1>> \in Seq(Nat) /\ Len(<<n + 1>>) = 1 /\ <<n + 1>>[1] = n + 1
      BY <2>1
    <3> PICK d : d = <<n + 1>> \o c
      OBVIOUS
    <3>3. /\ d \in Seq(Nat) /\ Len(d) = 1 + Len(c)
          /\ \A i \in 1..(1 + Len(c)) : d[i] = IF i <= 1 THEN <<n + 1>>[i] ELSE c[i - 1]
      BY <3>1, <3>2, ConcatProperties
    <3>4. d[1] = n + 1 /\ \A i \in 1..Len(c) : d[i + 1] = c[i]
      BY <3>1, <3>2, <3>3
    <3>5. /\ allkeys' \in [Buckets -> Seq(Nat)] /\ allkeys'[b] = d
          /\ \A x \in Buckets : x # b => allkeys'[x] = allkeys[x]
      BY <2>1, <2>2, <3>1, <3>3
    <3>6. ASSUME NEW x \in Buckets, NEW i \in 1..Len(allkeys'[x])
          PROVE  allkeys'[x][i] \in 1..(n + 1)
      <4>1. CASE x # b
        BY <2>1, <3>5, <4>1 DEF StringsIInv, KeysOK
      <4>2. CASE x = b /\ i = 1
        BY <2>1, <3>4, <3>5, <4>2
      <4>3. CASE x = b /\ i # 1
        <5>0. i \in 1..(1 + Len(c)) /\ i # 1 /\ Len(c) \in Nat
          BY <3>1, <3>3, <3>5, <4>3
        <5>1. i - 1 \in 1..Len(c) /\ d[i] = c[i - 1]
          BY <3>3, <5>0
        <5>2. c[i - 1] \in 1..n /\ allkeys'[x] = d
          BY <3>1, <3>5, <4>3, <5>1
        <5> QED
          BY <2>1, <5>1, <5>2
      <4> QED
        BY <4>1, <4>2, <4>3
    <3>7. ASSUME NEW k \in 1..(n + 1)
          PROVE  \E i \in 1..Len(allkeys'[Bucket(strings'[k].hash)]) :
                   allkeys'[Bucket(strings'[k].hash)][i] = k
      <4>1. CASE k = n + 1
        <5>1. Bucket(strings'[k].hash) = b
          BY <2>2, <4>1
        <5>2. 1 \in 1..Len(d)
          BY <3>1, <3>3
        <5> QED
          BY <3>4, <3>5, <4>1, <5>1, <5>2
      <4>2. CASE k \in 1..n
        <5> PICK x : x = Bucket(strings[k].hash)
          OBVIOUS
        <5>1. x \in Buckets /\ Bucket(strings'[k].hash) = x
          BY <2>1, <2>2, <4>2
        <5>2. PICK i \in 1..Len(allkeys[x]) : allkeys[x][i] = k
          BY <4>2 DEF StringsIInv, KeysOK
        <5>3. CASE x # b
          BY <3>5, <5>1, <5>2, <5>3
        <5>4. CASE x = b
          <6>1. i + 1 \in 1..Len(d) /\ d[i + 1] = k
            BY <3>1, <3>3, <3>4, <5>2, <5>4
          <6> QED
            BY <3>5, <5>1, <5>4, <6>1
        <5> QED
          BY <5>3, <5>4
      <4> QED
        BY <2>3, <4>1, <4>2
    <3> QED
      BY <2>2, <3>5, <3>6, <3>7 DEF KeysOK
  <2> QED
    BY <2>4, <2>5, <2>6, <2>7 DEF StringsIInv
<1> QED
  BY <1>1, <1>2

(* What table_put does to every key, and to the chains. *)
LEMMA TablePutFacts ==
  ASSUME StringsIInv, NEW key \in 1..Len(strings), NEW v \in Vals, TablePut(key, v)
  PROVE  /\ TableOK'
         /\ \A m \in 1..Len(strings) : Found(m)' = IF m = key THEN v ELSE Found(m)
<1> PICK b, c : b = Bucket(strings[key].hash) /\ c = table[b]
  OBVIOUS
<1>1. /\ Len(strings) \in Nat /\ key \in Nat /\ b \in Buckets
      /\ \A m \in 1..Len(strings) : Bucket(strings[m].hash) \in Buckets
  BY StringTypes
<1>2. /\ table \in [Buckets -> Seq(Entry)] /\ c \in Seq(Entry) /\ Len(c) \in Nat
      /\ \A i \in 1..Len(c) : c[i].key \in 1..Len(strings)
  BY <1>1, LenProperties DEF StringsIInv, TableOK
<1> PICK d : d = ChainPut(c, key, v)
  OBVIOUS
<1>3. UNCHANGED strings /\ table' = [table EXCEPT ![b] = d]
  BY DEF TablePut
<1>4. /\ d \in Seq(Entry)
      /\ \A i \in 1..Len(d) : d[i].key \in 1..Len(strings)
      /\ \A m \in Nat : ValueIn(d, m) = IF m = key THEN v ELSE ValueIn(c, m)
  <2>1. CASE EntryAt(c, key) # {}
    <3>2. /\ d \in Seq(Entry) /\ Len(d) = Len(c)
          /\ \A i \in 1..Len(c) : d[i].key = c[i].key
          /\ \A m \in Nat : ValueIn(d, m) = IF m = key THEN v ELSE ValueIn(c, m)
      BY <1>1, <1>2, <2>1, ValueAfterReplace
    <3>3. \A i \in 1..Len(d) : d[i].key \in 1..Len(strings)
      BY <1>2, <3>2
    <3> QED
      BY <3>2, <3>3
  <2>2. CASE EntryAt(c, key) = {}
    <3>1. /\ d \in Seq(Entry) /\ Len(d) = Len(c) + 1 /\ d[1].key = key
          /\ \A i \in 1..Len(c) : d[i + 1].key = c[i].key
          /\ \A m \in Nat : ValueIn(d, m) = IF m = key THEN v ELSE ValueIn(c, m)
      BY <1>1, <1>2, <2>2, ValueAfterPrepend
    <3>2. ASSUME NEW i \in 1..Len(d) PROVE d[i].key \in 1..Len(strings)
      <4>1. CASE i = 1
        BY <3>1, <4>1
      <4>2. CASE i # 1
        <5>0. Len(d) = Len(c) + 1 /\ Len(c) \in Nat
          BY <1>2, <3>1
        <5>1. i - 1 \in 1..Len(c) /\ (i - 1) + 1 = i
          BY <4>2, <5>0
        <5>2. d[(i - 1) + 1].key = c[i - 1].key
          BY <3>1, <5>1
        <5> QED
          BY <1>2, <5>1, <5>2
      <4> QED
        BY <4>1, <4>2
    <3> QED
      BY <3>1, <3>2
  <2> QED
    BY <2>1, <2>2
<1>5. /\ table' \in [Buckets -> Seq(Entry)] /\ table'[b] = d
      /\ \A x \in Buckets : x # b => table'[x] = table[x]
  BY <1>1, <1>2, <1>3, <1>4
<1>6. TableOK'
  BY <1>2, <1>3, <1>4, <1>5 DEF TableOK, StringsIInv
<1>7. ASSUME NEW m \in 1..Len(strings)
      PROVE  Found(m)' = IF m = key THEN v ELSE Found(m)
  <2>1. Found(m)' = ValueIn(table'[Bucket(strings[m].hash)], m)
    BY <1>3 DEF Found
  <2>2. CASE Bucket(strings[m].hash) = b
    <3>1. m \in Nat /\ Found(m) = ValueIn(c, m)
      BY <1>1, <2>2 DEF Found
    <3> QED
      BY <1>4, <1>5, <2>1, <2>2, <3>1
  <2>3. CASE Bucket(strings[m].hash) # b
    <3>1. m # key
      BY <2>3
    <3>2. table'[Bucket(strings[m].hash)] = table[Bucket(strings[m].hash)]
      BY <1>1, <1>5, <2>3
    <3> QED
      BY <2>1, <3>1, <3>2 DEF Found
  <2> QED
    BY <2>2, <2>3
<1> QED
  BY <1>6, <1>7

(* After table_free, nothing is found in the table. *)
LEMMA FreedFacts ==
  ASSUME StringsIInv, TableFree
  PROVE  TableOK' /\ \A m \in 1..Len(strings) : Found(m)' = Nothing
<1>1. UNCHANGED strings /\ table' = [b \in Buckets |-> <<>>]
  BY DEF TableFree, EmptyChains
<1>2. /\ table' \in [Buckets -> Seq(Entry)]
      /\ \A b \in Buckets : table'[b] = <<>> /\ Len(table'[b]) = 0
  BY <1>1
<1>3. TableOK'
  BY <1>2 DEF TableOK
<1>4. ASSUME NEW m \in 1..Len(strings) PROVE Found(m)' = Nothing
  <2>1. table'[Bucket(strings[m].hash)] = <<>>
    BY <1>2, StringTypes
  <2>2. EntryAt(<<>>, m) = {}
    BY DEF EntryAt
  <2>3. Found(m)' = ValueIn(<<>>, m)
    BY <1>1, <2>1 DEF Found, ValueIn, EntryAt
  <2> QED
    BY <2>2, <2>3 DEF ValueIn
<1> QED
  BY <1>3, <1>4

(* The invariant is kept by every step. *)
LEMMA StringsNextInductive ==
  ASSUME StringsIInv, [StringsNext]_stringsVars
  PROVE  StringsIInv'
<1>1. ASSUME NEW t \in Texts, GetKey(t) PROVE StringsIInv'
  BY <1>1, GetKeyInductive
<1>2. ASSUME UNCHANGED <<strings, allkeys>>, TableOK' PROVE StringsIInv'
  BY <1>2 DEF StringsIInv, StringsOK, KeysOK, Unique
<1>3. ASSUME NEW key \in 1..Len(strings), NEW v \in Vals, TablePut(key, v) PROVE StringsIInv'
  BY <1>2, <1>3, TablePutFacts DEF TablePut
<1>4. ASSUME TableFree PROVE StringsIInv'
  BY <1>2, <1>4, FreedFacts DEF TableFree
<1>5. ASSUME UNCHANGED <<strings, allkeys, table>> PROVE StringsIInv'
  BY <1>5 DEF StringsIInv, StringsOK, KeysOK, Unique, TableOK
<1>6. ASSUME NEW key \in 1..Len(strings), TableFind(key) PROVE StringsIInv'
  BY <1>5, <1>6 DEF TableFind
<1>7. CASE UNCHANGED stringsVars
  BY <1>5, <1>7 DEF stringsVars
<1> QED
  BY <1>1, <1>3, <1>4, <1>6, <1>7 DEF StringsNext
-----------------------------------------------------------------------------
(* A sequence is one of any set its elements are in. *)
LEMMA SeqOfElements ==
  ASSUME NEW S, NEW T, NEW s \in Seq(S), \A i \in 1..Len(s) : s[i] \in T
  PROVE  s \in Seq(T)
<1>1. Len(s) \in Nat /\ s = [i \in 1..Len(s) |-> s[i]]
  BY LenProperties
<1> QED
  BY <1>1, IsASeq

(* The invariant gives one key per spelling, and the types. *)
LEMMA InvariantsHold == StringsIInv => KeysUnique
<1> SUFFICES ASSUME StringsIInv PROVE StringsTypeOK
  BY DEF KeysUnique, StringsIInv, Unique
<1>1. strings \in Seq([text : Texts, hash : Nat])
  BY DEF StringsIInv, StringsOK
<1>2. allkeys \in [Buckets -> Seq(1..Len(strings))]
  <2>1. \A b \in Buckets : allkeys[b] \in Seq(1..Len(strings))
    BY SeqOfElements DEF StringsIInv, KeysOK
  <2> QED
    BY <2>1 DEF StringsIInv, KeysOK
<1>3. table \in [Buckets -> Seq([key : 1..Len(strings), val : Vals])]
  <2>1. ASSUME NEW b \in Buckets
        PROVE  table[b] \in Seq([key : 1..Len(strings), val : Vals])
    <3>1. table[b] \in Seq(Entry) /\ \A i \in 1..Len(table[b]) : table[b][i].key \in 1..Len(strings)
      BY DEF StringsIInv, TableOK
    <3>2. \A i \in 1..Len(table[b]) : table[b][i] \in Entry
      BY <3>1, ElementOfSeq
    <3>3. \A i \in 1..Len(table[b]) : table[b][i] \in [key : 1..Len(strings), val : Vals]
      BY <3>1, <3>2 DEF Entry
    <3> QED
      BY <3>1, <3>3, SeqOfElements
  <2> QED
    BY <2>1 DEF StringsIInv, TableOK
<1> QED
  BY <1>1, <1>2, <1>3 DEF StringsTypeOK

(* It holds in every reachable state. *)
LEMMA Invariance == StringsSpec => []StringsIInv
  BY StringsInitInductive, StringsNextInductive, PTL DEF StringsSpec

(* getkey never gives two keys to one text, whatever the hash function:    *)
(* a key it has allocated stays in the chain that it searches.             *)
THEOREM OneKeyPerText == StringsSpec => []KeysUnique
  BY Invariance, InvariantsHold, PTL
-----------------------------------------------------------------------------
(* What the dictionary holds for a text. *)
BoundTo(t) == IF t \in Known THEN Found(KeyOf(t)) ELSE Nothing

(* Each known text stands for its key, and for no other. *)
KeysStandForTexts ==
  /\ Known \subseteq Texts
  /\ \A k \in 1..Len(strings) :
       /\ strings[k].text \in Known
       /\ KeyOf(strings[k].text) = k
       /\ BoundTo(strings[k].text) = Found(k)
  /\ \A t \in Known : \E k \in 1..Len(strings) : strings[k].text = t
  /\ \A t \in Texts \ Known : BoundTo(t) = Nothing

(* Every key stands for its text, and no other does. *)
LEMMA StandForTexts == StringsIInv => KeysStandForTexts
<1> SUFFICES ASSUME StringsIInv PROVE KeysStandForTexts
  OBVIOUS
<1>1. Known \subseteq Texts
  BY StringTypes DEF Known
<1>2. ASSUME NEW k \in 1..Len(strings)
      PROVE  /\ strings[k].text \in Known
             /\ KeyOf(strings[k].text) = k
             /\ BoundTo(strings[k].text) = Found(k)
  <2>1. strings[k].text \in Known
    BY DEF Known
  <2>2. KeyOf(strings[k].text) = k
    BY DEF KeyOf, StringsIInv, Unique
  <2> QED
    BY <2>1, <2>2 DEF BoundTo
<1>3. \A t \in Known : \E k \in 1..Len(strings) : strings[k].text = t
  BY DEF Known
<1>4. \A t \in Texts \ Known : BoundTo(t) = Nothing
  BY DEF BoundTo
<1> QED
  BY <1>1, <1>2, <1>3, <1>4 DEF KeysStandForTexts

(* The texts known are those of the keys. *)
LEMMA KnownUnchanged == ASSUME UNCHANGED strings PROVE Known' = Known
  BY DEF Known

(* Empty tables are an empty dictionary. *)
LEMMA InitImplements == StringsInit => Promised!Init
<1> SUFFICES ASSUME StringsInit PROVE Promised!Init
  OBVIOUS
<1>1. strings = <<>> /\ Len(strings) = 0 /\ answer.kind = "none"
  BY DEF StringsInit
<1>2. Known = {}
  BY <1>1 DEF Known
<1> QED
  BY <1>1, <1>2 DEF Promised!Init

(* getkey answers with its text, which is known then. *)
LEMMA GetKeyImplements ==
  ASSUME StringsIInv, StringsIInv', NEW t \in Texts, GetKey(t)
  PROVE  Promised!GetKey(t)
<1>1. KeysStandForTexts /\ KeysStandForTexts'
  <2>1. (StringsIInv => KeysStandForTexts)'
    BY StandForTexts, PTL
  <2> QED
    BY <2>1, StandForTexts
<1>2. CASE KeyAt(t) # {}
  <2> PICK k : k = KeyChain(t)[First(KeyAt(t))]
    OBVIOUS
  <2>1. k \in 1..Len(strings) /\ strings[k].text = t
    BY <1>2, SearchFacts
  <2>2. UNCHANGED <<strings, table>> /\ answer' = [kind |-> "key", key |-> k]
    BY <1>2 DEF GetKey
  <2>3. t \in Known /\ Known' = Known
    BY <1>1, <2>1, <2>2, KnownUnchanged DEF KeysStandForTexts
  <2>4. \A u : BoundTo(u)' = BoundTo(u)
    BY <2>2, <2>3 DEF BoundTo, KeyOf, Found
  <2>5. strings'[answer'.key].text = t /\ answer'.kind = "key"
    BY <2>1, <2>2
  <2> QED
    BY <2>3, <2>4, <2>5 DEF Promised!GetKey, BoundTo
<1>3. CASE KeyAt(t) = {}
  <2> PICK n : n = Len(strings)
    OBVIOUS
  <2>1. n \in Nat
    BY StringTypes
  <2>2. /\ Len(strings') = n + 1
        /\ \A k \in 1..n : strings'[k] = strings[k]
        /\ strings'[n + 1] = [text |-> t, hash |-> Hash[t]]
        /\ answer' = [kind |-> "key", key |-> n + 1]
        /\ UNCHANGED table
    BY <1>3, NewKeyFacts
  <2>3. Known' = Known \cup {t}
    <3>1. \A u : u \in Known' <=> \E k \in 1..(n + 1) : u = strings'[k].text
      BY <2>2 DEF Known
    <3>2. \A u : u \in Known <=> \E k \in 1..n : u = strings[k].text
      BY DEF Known
    <3>3. \A k \in 1..(n + 1) : k \in 1..n \/ k = n + 1
      BY <2>1
    <3>4. 1..n \subseteq 1..(n + 1) /\ n + 1 \in 1..(n + 1)
      BY <2>1
    <3>5. ASSUME NEW u PROVE u \in Known' <=> u \in Known \cup {t}
      BY <2>2, <3>1, <3>2, <3>3, <3>4
    <3> QED
      BY <3>5
  <2>4. t \notin Known
    BY <1>3, SearchFacts DEF Known
  <2>5. \A k \in 1..n : Found(k)' = Found(k)
    BY <2>2 DEF Found
  <2>6. Found(n + 1)' = Nothing
    <3> PICK b : b = Bucket(Hash[t])
      OBVIOUS
    <3>1. b \in Buckets
      BY StringTypes
    <3>2. \A i \in 1..Len(table[b]) : table[b][i].key # n + 1
      BY <2>1, <3>1 DEF StringsIInv, TableOK
    <3>3. EntryAt(table[b], n + 1) = {}
      BY <3>2 DEF EntryAt
    <3>4. Found(n + 1)' = ValueIn(table[b], n + 1)
      BY <2>2 DEF Found
    <3> QED
      BY <3>3, <3>4 DEF ValueIn
  <2>7. ASSUME NEW u \in Texts PROVE BoundTo(u)' = BoundTo(u)
    <3>1. CASE u \in Known
      <4>1. PICK k \in 1..n : strings[k].text = u
        BY <1>1, <3>1 DEF KeysStandForTexts
      <4>2. BoundTo(u) = Found(k)
        BY <1>1, <4>1 DEF KeysStandForTexts
      <4>3. k \in 1..(n + 1) /\ strings'[k].text = u
        BY <2>1, <2>2, <4>1
      <4>4. BoundTo(u)' = Found(k)'
        BY <1>1, <2>2, <4>3 DEF KeysStandForTexts
      <4> QED
        BY <2>5, <4>1, <4>2, <4>4
    <3>2. CASE u = t
      <4>1. n + 1 \in 1..(n + 1) /\ strings'[n + 1].text = t
        BY <2>1, <2>2
      <4>2. BoundTo(u)' = Found(n + 1)'
        BY <1>1, <2>2, <3>2, <4>1 DEF KeysStandForTexts
      <4> QED
        BY <2>4, <2>6, <3>2, <4>2 DEF BoundTo
    <3>3. CASE u \notin Known /\ u # t
      <4>1. u \notin Known'
        BY <2>3, <3>3
      <4> QED
        BY <3>3, <4>1 DEF BoundTo
    <3> QED
      BY <3>1, <3>2, <3>3
  <2>8. strings'[answer'.key].text = t /\ answer'.kind = "key"
    BY <2>2
  <2> QED
    BY <2>3, <2>7, <2>8 DEF Promised!GetKey, BoundTo
<1> QED
  BY <1>2, <1>3

(* table_put binds the text of its key, and no other. *)
LEMMA TablePutImplements ==
  ASSUME StringsIInv, StringsIInv', NEW key \in 1..Len(strings), NEW v \in Vals, TablePut(key, v)
  PROVE  Promised!Put(strings[key].text, v)
<1>1. KeysStandForTexts /\ KeysStandForTexts'
  <2>1. (StringsIInv => KeysStandForTexts)'
    BY StandForTexts, PTL
  <2> QED
    BY <2>1, StandForTexts
<1> PICK t : t = strings[key].text
  OBVIOUS
<1>2. UNCHANGED strings /\ answer' = [kind |-> "val", val |-> v] /\ Known' = Known
  BY KnownUnchanged DEF TablePut
<1>3. t \in Known /\ t \in Texts
  BY <1>1 DEF KeysStandForTexts
<1>4. \A m \in 1..Len(strings) : Found(m)' = IF m = key THEN v ELSE Found(m)
  BY TablePutFacts
<1>5. ASSUME NEW u \in Texts PROVE BoundTo(u)' = IF u = t THEN v ELSE BoundTo(u)
  <2>1. CASE u \in Known
    <3>1. PICK k \in 1..Len(strings) : strings[k].text = u
      BY <1>1, <2>1 DEF KeysStandForTexts
    <3>2. BoundTo(u) = Found(k)
      BY <1>1, <3>1 DEF KeysStandForTexts
    <3>3. BoundTo(u)' = Found(k)'
      BY <1>1, <1>2, <3>1 DEF KeysStandForTexts
    <3>4. u = t <=> k = key
      BY <3>1 DEF StringsIInv, Unique
    <3> QED
      BY <1>4, <3>2, <3>3, <3>4
  <2>2. CASE u \notin Known
    BY <1>2, <1>3, <2>2 DEF BoundTo
  <2> QED
    BY <2>1, <2>2
<1>6. answer'.kind = "val" /\ answer'.val = v
  BY <1>2
<1> QED
  BY <1>2, <1>3, <1>5, <1>6 DEF Promised!Put, BoundTo

(* table_find answers what the text is bound to. *)
LEMMA TableFindImplements ==
  ASSUME StringsIInv, NEW key \in 1..Len(strings), TableFind(key)
  PROVE  Promised!Find(strings[key].text)
<1>1. KeysStandForTexts
  BY StandForTexts
<1>2. /\ UNCHANGED <<strings, table>> /\ answer' = [kind |-> "val", val |-> Found(key)]
      /\ Known' = Known
  BY KnownUnchanged DEF TableFind
<1>3. strings[key].text \in Known /\ strings[key].text \in Texts
      /\ BoundTo(strings[key].text) = Found(key)
  BY <1>1 DEF KeysStandForTexts
<1>4. \A u : BoundTo(u)' = BoundTo(u)
  BY <1>2 DEF BoundTo, KeyOf, Found
<1>5. answer'.kind = "val" /\ answer'.val = Found(key)
  BY <1>2
<1> QED
  BY <1>2, <1>3, <1>4, <1>5 DEF Promised!Find, BoundTo

(* After table_free nothing is bound. *)
LEMMA TableFreeImplements ==
  ASSUME StringsIInv, StringsIInv', TableFree
  PROVE  Promised!Free
<1>1. KeysStandForTexts'
  <2>1. (StringsIInv => KeysStandForTexts)'
    BY StandForTexts, PTL
  <2> QED
    BY <2>1
<1>2. UNCHANGED strings /\ answer' = [kind |-> "none"] /\ Known' = Known
  BY KnownUnchanged DEF TableFree
<1>3. ASSUME NEW u \in Texts PROVE BoundTo(u)' = Nothing
  <2>1. CASE u \in Known
    <3>1. PICK k \in 1..Len(strings') : strings'[k].text = u
      BY <1>1, <1>2, <2>1 DEF KeysStandForTexts
    <3>2. BoundTo(u)' = Found(k)'
      BY <1>1, <3>1 DEF KeysStandForTexts
    <3> QED
      BY <1>2, <3>1, <3>2, FreedFacts
  <2>2. CASE u \notin Known
    BY <1>2, <2>2 DEF BoundTo
  <2> QED
    BY <2>1, <2>2
<1>4. answer'.kind = "none"
  BY <1>2
<1> QED
  BY <1>2, <1>3, <1>4 DEF Promised!Free, BoundTo

(* A step that changes nothing is a stutter. *)
LEMMA StutterImplements == ASSUME UNCHANGED stringsVars PROVE UNCHANGED Promised!vars
  BY DEF stringsVars, Promised!vars, Known, KeyOf, Found

(* Every step of the chains is one of the dictionary, or a stutter. *)
LEMMA NextImplements ==
  ASSUME StringsIInv, StringsIInv', [StringsNext]_stringsVars
  PROVE  [Promised!Next]_Promised!vars
<1>0. \A k \in 1..Len(strings) : strings[k].text \in Texts
  BY StringTypes
<1>1. ASSUME NEW t \in Texts, GetKey(t) PROVE Promised!Next
  BY <1>1, GetKeyImplements DEF Promised!Next
<1>2. ASSUME NEW key \in 1..Len(strings), NEW v \in Vals, TablePut(key, v) PROVE Promised!Next
  BY <1>0, <1>2, TablePutImplements DEF Promised!Next
<1>3. ASSUME NEW key \in 1..Len(strings), TableFind(key) PROVE Promised!Next
  BY <1>0, <1>3, TableFindImplements DEF Promised!Next
<1>4. ASSUME TableFree PROVE Promised!Next
  BY <1>4, TableFreeImplements DEF Promised!Next
<1>5. CASE UNCHANGED stringsVars
  BY <1>5, StutterImplements
<1> QED
  BY <1>1, <1>2, <1>3, <1>4, <1>5 DEF StringsNext

(* The hashed chains implement the dictionary: for every hash function and *)
(* number of buckets, getkey, table_put and table_find answer what a map   *)
(* from texts to values would.                                             *)
THEOREM ChainsImplementDictionary == StringsSpec => TablesAreDictionaries
<1>1. StringsIInv /\ StringsIInv' /\ [StringsNext]_stringsVars => [Promised!Next]_Promised!vars
  BY NextImplements
<1> QED
  BY <1>1, InitImplements, Invariance, PTL DEF StringsSpec, TablesAreDictionaries, Promised!Spec
=============================================================================
