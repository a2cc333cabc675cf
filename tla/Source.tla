------------------------------- MODULE Source -------------------------------
(***************************************************************************)
(* What becomes of the file before it is compiled: slurp of src/main.c     *)
(* reads it, isource of src/source.c replaces its blanks and maps offsets  *)
(* to lines, and emitdiag looks them up to print a diagnostic.             *)
(* Offsets count from 0; source[k + 1] is the character at offset k, and   *)
(* the terminating '\0' is at offset Len(source).                          *)
(***************************************************************************)
EXTENDS Sequences, FiniteSets, Vectors

CONSTANTS
  Characters, Newline, \* make_line_map distinguishes the newline only
  Space, OtherBlanks,  \* normalize_source makes a space of \t, \v and \f
  EndingBytes,         \* '\0', and the byte 0xFF, which as a char is EOF
  Zero,                \* '\0'
  Files                \* what the file may be

ASSUME SourceAssumption ==
  /\ Zero \in EndingBytes
  /\ Newline \notin OtherBlanks \cup EndingBytes /\ OtherBlanks \cap EndingBytes = {}
  /\ {Space, Newline} \cup OtherBlanks \cup EndingBytes \subseteq Characters
  /\ Files \subseteq Seq(Characters)

VARIABLES
  file,     \* the bytes of the file
  buf,      \* what slurp has read of it, a vector
  source,   \* the text that is compiled
  p,        \* the offset from which the next newline is searched
  line_map, \* the lines found so far, a vector of [lo, hi, number]
  prev,     \* the pointer to the last of them
  pc        \* "slurp", "isource", "scan" or "done"

vars == <<file, buf, source, p, line_map, prev, pc>>

Newlines == {k \in 0..(Len(source) - 1) : source[k + 1] = Newline}
NewlinesAhead == {k \in Newlines : k >= p}

(* strchr(p, '\n'), when there is one. *)
NextNewline == CHOOSE k \in NewlinesAhead : \A j \in NewlinesAhead : k <= j

Init ==
  /\ file \in Files
  /\ buf = EmptyVec
  /\ source = <<>>
  /\ p = 0
  /\ line_map = EmptyVec /\ prev = Null
  /\ pc = "slurp"

(* The loop of slurp; the byte 0xFF and the end of the file are EOF. *)
Slurp ==
  /\ pc = "slurp"
  /\ IF buf.len < Len(file) /\ file[buf.len + 1] \notin EndingBytes \ {Zero}
     THEN buf' = Push(buf, file[buf.len + 1]) /\ UNCHANGED pc
     ELSE buf' = Push(buf, Zero) /\ pc' = "isource"
  /\ UNCHANGED <<file, source, p, line_map, prev>>

(* isource and the first line of make_line_map; strlen stops at a '\0' of  *)
(* the file.                                                               *)
Normalised(c) == IF c \in OtherBlanks THEN Space ELSE c
Isource ==
  /\ pc = "isource"
  /\ LET bytes == Contents(buf)
         len   == CHOOSE n \in 0..(buf.len - 1) :
                    bytes[n + 1] = Zero /\ \A i \in 1..n : bytes[i] # Zero
     IN  source' = [i \in 1..len |-> Normalised(bytes[i])]
  /\ line_map' = Push(EmptyVec, [lo |-> 0, hi |-> 0, number |-> 1])
  /\ prev' = LastOf(line_map')
  /\ pc' = "scan"
  /\ UNCHANGED <<file, buf, p>>

(* Mutant of NextLine: the line is ended after the next one was pushed,    *)
(* through the pointer from before.                                        *)
NextLineAfterPush ==
  /\ pc = "scan"
  /\ NewlinesAhead # {}
  /\ p' = NextNewline + 1
  /\ LET w == Push(line_map, [lo |-> p', hi |-> 0, number |-> line_map.len + 1])
     IN  /\ line_map' = Store(w, prev, [Element(line_map, prev) EXCEPT !.hi = p'])
         /\ prev' = LastOf(w)
  /\ UNCHANGED <<file, buf, source, pc>>

(* The loop of make_line_map: the newline ends its line. *)
NextLine ==
  /\ pc = "scan"
  /\ NewlinesAhead # {}
  /\ p' = NextNewline + 1
  /\ line_map' = Push(Store(line_map, prev, [Element(line_map, prev) EXCEPT !.hi = p']),
                      [lo |-> p', hi |-> 0, number |-> line_map.len + 1])
  /\ prev' = LastOf(line_map')
  /\ UNCHANGED <<file, buf, source, pc>>

EndLine(hi) ==
  /\ pc = "scan"
  /\ NewlinesAhead = {}
  /\ line_map' = Store(line_map, prev, [Element(line_map, prev) EXCEPT !.hi = hi])
  /\ pc' = "done"
  /\ UNCHANGED <<file, buf, source, p, prev>>

(* The last line also has the terminating '\0'. *)
LastLine == EndLine(Len(source) + 1)

Next == Slurp \/ Isource \/ NextLine \/ LastLine

Spec == Init /\ [][Next]_vars
-----------------------------------------------------------------------------
(* get_source_line, which walks over the lines with vec_next.              *)
OnLine(off, line) == line.lo <= off /\ off < line.hi
GetSourceLine(off) ==
  LET from[it \in Pointers(line_map) \cup {Null}] ==
        LET n == VecNext(line_map, it)
        IN  IF n = Null THEN Null
            ELSE IF OnLine(off, Element(line_map, n)) THEN n ELSE from[n]
  IN  from[Null]
LineAt(off) == Element(line_map, GetSourceLine(off))

(* emitdiag, at the location [lo, hi]: the column of the cursor and the    *)
(* length of the underlined text.                                          *)
Smaller(a, b) == IF a <= b THEN a ELSE b
Column(lo) == lo - LineAt(lo).lo
(* Mutant of Span: it runs to the end of the location. *)
SpanOfLocation(lo, hi) == hi - lo
Span(lo, hi) == Smaller(LineAt(lo).hi, hi) - lo

Lines == [lo : Nat, hi : Nat, number : Nat]

(* The variables have their types; the search never starts after the '\0'. *)
TypeOK ==
  /\ file \in Seq(Characters) /\ source \in Seq(Characters)
  /\ p \in 0..Len(source)
  /\ \A it \in Pointers(line_map) : Element(line_map, it) \in Lines
  /\ pc = "scan" => prev \in Pointers(line_map)
  /\ buf.len <= buf.cap /\ line_map.len <= line_map.cap
  /\ pc \in {"slurp", "isource", "scan", "done"}

(* Every offset, that of the '\0' included, is on one line and on one only, *)
(* whose number is the number of newlines before it, plus one.             *)
EveryOffsetOnItsLine ==
  /\ TypeOK
  /\ pc = "done" =>
    \A off \in 0..Len(source) :
      \E it \in Pointers(line_map) :
        /\ {jt \in Pointers(line_map) : OnLine(off, Element(line_map, jt))} = {it}
        /\ Element(line_map, it).number = Cardinality({k \in Newlines : k < off}) + 1

(* emitdiag asserts that the line of a location is found (source.c:61, and *)
(* get_line_number at 44).  The text it prints is that line, without its   *)
(* newline; the cursor is on the character at which the location starts,   *)
(* and what is underlined ends with the line (its newline or '\0'          *)
(* included).  A location is a token or starts and ends with one, so that  *)
(* lo <= hi.                                                               *)
CursorOnLine ==
  pc = "done" =>
    \A lo \in 0..Len(source) :
      LET line == LineAt(lo) IN
      /\ GetSourceLine(lo) # Null /\ OnLine(lo, line)
      /\ \A k \in line.lo..(line.hi - 2) : k \notin Newlines
      /\ Column(lo) >= 0 /\ line.lo + Column(lo) = lo
      /\ \A hi \in lo..(Len(source) + 1) :
           Span(lo, hi) >= 0 /\ Column(lo) + Span(lo, hi) <= line.hi - line.lo
=============================================================================
