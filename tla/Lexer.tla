------------------------------- MODULE Lexer -------------------------------
(***************************************************************************)
(* src/lex.c: yylex, from the start of the source to its end or to the     *)
(* first token the parser refuses; and make_iconst of src/semant.c, which  *)
(* reads the text of an integer again.  Both walk over the source with     *)
(* pointers that only the terminating '\0' stops.  isource has made the    *)
(* line map before (Source).                                              *)
(***************************************************************************)
EXTENDS Source

VARIABLES
  sp,     \* the offset of the next character
  lo,     \* yylloc.lo
  at,     \* where the compiler is: in yylex, comment, commentl, the parser
          \* or make_iconst; or how it stopped
  pieces, \* the blanks, comments and tokens so far: [kind, lo, hi]
  iconst  \* what make_iconst made of the last integer

lexvars == <<sp, lo, at, pieces, iconst>>

Letters   == {"a", "b", "x", "_"}
Digits    == {"0", "1", "8"}
HexDigits == Digits \cup {"a", "b"}
Blanks    == {Space, Newline}
Punctuation == {"!", "%", "&", "*", "+", "-", "/", "=", "^", "|", "<", ">", ".", ":",
                "(", ")", ",", ";", "?", "[", "]", "{", "}", "~"}

(* The characters that may be followed by =, by themselves, or by both. *)
WithAssign == {"!", "%", "&", "*", "+", "-", "/", "^", "|", "<", ">"}
Doubled    == {"&", "+", "-", "=", "|", ":", "<", ">"}
Shifting   == {"<", ">"}

Nul == "nul"

(* The lexer's characters are none of those that isource replaces or at    *)
(* which slurp and strlen stop, and the terminator is no character.        *)
ASSUME LexerAssumption ==
  /\ (Letters \cup Digits \cup Punctuation)
       \cap ({Space, Newline} \cup OtherBlanks \cup EndingBytes) = {}
  /\ Space # Newline
  /\ Nul \notin Characters

Char(k) == IF k < Len(source) THEN source[k + 1] ELSE Nul

(* Where a loop over the characters of a set stops, from offset k. *)
SkipFrom(k, set) ==
  CHOOSE j \in k..Len(source) : Char(j) \notin set /\ \A i \in k..(j - 1) : Char(i) \in set

(* An integer: digits a base does not have are left to make_iconst. *)
IntegerEnd(k) ==
  SkipFrom(IF Char(k) # "0" THEN k + 1
           ELSE IF Char(k + 1) = "x" THEN SkipFrom(k + 2, HexDigits)
           ELSE IF Char(k + 1) = "b" THEN SkipFrom(k + 2, {"0", "1"})
           ELSE k + 1, Digits)

(* Mutant of PunctuatorEnd: a shift is never an assignment. *)
PunctuatorEndOfTwo(k) ==
  LET c == Char(k)
      n == Char(k + 1)
  IN  IF (c \in Doubled /\ n = c) \/ (c \in WithAssign /\ n = "=") THEN k + 2 ELSE k + 1

(* The macros E and D, and the cases of < and >. *)
PunctuatorEnd(k) ==
  LET c == Char(k)
      n == Char(k + 1)
  IN  IF c \in Shifting /\ n = c /\ Char(k + 2) = "=" THEN k + 3
      ELSE IF (c \in Doubled /\ n = c) \/ (c \in WithAssign /\ n = "=") THEN k + 2
      ELSE k + 1

(* A dot takes what follows it along, unless that is a dot. *)
DotEnd(k) ==
  IF Char(k + 1) # "." THEN k + 2
  ELSE IF Char(k + 2) = "." THEN k + 3
  ELSE k + 1
-----------------------------------------------------------------------------
LexInit ==
  /\ Init
  /\ sp = 0 /\ lo = 0
  /\ at = "isource"
  /\ pieces = <<>>
  /\ iconst = [outcome |-> "none"]

Piece(kind, hi) == pieces' = Append(pieces, [kind |-> kind, lo |-> IF at = "yylex" THEN sp ELSE lo, hi |-> hi])

(* slurp, isource; then ilex and yyparse *)
Prepare ==
  \/ /\ at = "isource"
     /\ Next
     /\ UNCHANGED lexvars
  \/ /\ at = "isource" /\ pc = "done"
     /\ at' = "yylex"
     /\ UNCHANGED <<vars, sp, lo, pieces, iconst>>

(* A piece that yylex finishes at once; "then" is where it goes. *)
Read(kind, end, then) ==
  /\ at = "yylex"
  /\ lo' = sp /\ sp' = end
  /\ Piece(kind, end)
  /\ at' = then
  /\ UNCHANGED <<vars, iconst>>

Redo       == Char(sp) \in Blanks /\ Read("blank", sp + 1, "yylex")
Word       == Char(sp) \in Letters /\ Read("word", SkipFrom(sp + 1, Letters), "parser")
Integer    == Char(sp) \in Digits /\ Read("integer", IntegerEnd(sp), "parser")
Dot        == Char(sp) = "." /\ Read("dot", DotEnd(sp), "parser")
Unexpected == /\ sp < Len(source)
              /\ Char(sp) \notin Blanks \cup Letters \cup Digits \cup Punctuation
              /\ Read("unexpected", sp + 1, "parser")
Punctuator == /\ Char(sp) \in Punctuation \ {"."}
              /\ ~(Char(sp) = "/" /\ Char(sp + 1) \in {"/", "*"})
              /\ Read("punctuator", PunctuatorEnd(sp), "parser")
EndOfFile  == sp = Len(source) /\ Read("end", sp + 1, "end of file")

StartComment ==
  /\ at = "yylex"
  /\ Char(sp) = "/" /\ Char(sp + 1) \in {"/", "*"}
  /\ lo' = sp /\ sp' = sp + 2
  /\ at' = IF Char(sp + 1) = "*" THEN "comment" ELSE "commentl"
  /\ UNCHANGED <<vars, pieces, iconst>>

(* Mutant of Comment: it looks for the slash without looking for the end.  *)
CommentPastEnd ==
  /\ at = "comment"
  /\ lo' = lo
  /\ IF Char(sp) = "*" /\ Char(sp + 1) = "/"
     THEN sp' = sp + 2 /\ Piece("comment", sp + 2) /\ at' = "yylex"
     ELSE /\ sp' = sp + 1 /\ UNCHANGED pieces
          /\ at' = IF sp > Len(source) THEN "overrun" ELSE at
  /\ UNCHANGED <<vars, iconst>>

(* comment *)
Comment ==
  /\ at = "comment"
  /\ IF sp = Len(source)
     THEN at' = "refused" /\ UNCHANGED <<sp, pieces>>
     ELSE IF Char(sp) = "*" /\ Char(sp + 1) = "/"
     THEN sp' = sp + 2 /\ Piece("comment", sp + 2) /\ at' = "yylex"
     ELSE sp' = sp + 1 /\ UNCHANGED <<pieces, at>>
  /\ UNCHANGED <<vars, lo, iconst>>

(* commentl *)
CommentLine ==
  /\ at = "commentl"
  /\ IF sp = Len(source)
     THEN at' = "end of file" /\ Piece("comment", sp) /\ UNCHANGED sp
     ELSE /\ sp' = sp + 1
          /\ IF Char(sp) = Newline THEN Piece("comment", sp + 1) /\ at' = "yylex"
             ELSE UNCHANGED <<pieces, at>>
  /\ UNCHANGED <<vars, lo, iconst>>

(* The parser takes a token or refuses it.  No production has a dot or     *)
(* three, and there is no recovery from an error.                          *)
Last == pieces[Len(pieces)]
Parse ==
  /\ at = "parser"
  /\ \/ at' = "refused"
     \/ /\ Last.kind \notin {"dot", "unexpected"}
        /\ at' = IF Last.kind = "integer" THEN "make_iconst" ELSE "yylex"
  /\ UNCHANGED <<vars, sp, lo, pieces, iconst>>
-----------------------------------------------------------------------------
(* strtoul, in the text from offset k: where it stops and what it returns. *)
(* It skips blanks, a sign, and a prefix if a digit follows it; that of    *)
(* base 2 since C23 only.                                                  *)
DigitsOf(base) == IF base = 2 THEN {"0", "1"} ELSE IF base = 16 THEN HexDigits
                  ELSE IF base = 8 THEN {"0", "1"} ELSE Digits
ValueOf == [c \in HexDigits |->
  CASE c = "0" -> 0 [] c = "1" -> 1 [] c = "8" -> 8 [] c = "a" -> 10 [] c = "b" -> 11]

Numeral(k, end, base) ==
  LET value[j \in k..end] == IF j = k THEN 0 ELSE value[j - 1] * base + ValueOf[Char(j - 1)]
  IN  value[end]

Strtoul(k, base, c23) ==
  LET blanks == SkipFrom(k, Blanks)
      sign   == IF Char(blanks) \in {"-", "+"} THEN blanks + 1 ELSE blanks
      prefix == /\ Char(sign) = "0" /\ Char(sign + 2) \in DigitsOf(base)
                /\ \/ base = 16 /\ Char(sign + 1) = "x"
                   \/ base = 2 /\ c23 /\ Char(sign + 1) = "b"
      first  == IF prefix THEN sign + 2 ELSE sign
      end    == SkipFrom(first, DigitsOf(base))
  IN  IF end = first THEN [end |-> k, value |-> 0]
      ELSE [end |-> end,
            value |-> IF Char(blanks) = "-" THEN -Numeral(first, end, base) ELSE Numeral(first, end, base)]

Base(k) == IF Char(k) # "0" THEN 10
           ELSE IF Char(k + 1) = "x" THEN 16 ELSE IF Char(k + 1) = "b" THEN 2 ELSE 8

(* Mutant of FirstDigit: a prefix of base 2 is not skipped. *)
FirstDigitOfHex(k) == IF Base(k) = 16 THEN k + 2 ELSE k
FirstDigit(k) == IF Base(k) \in {2, 16} THEN k + 2 ELSE k

(* make_iconst; it is given the location of the token. *)
MakeIconst ==
  /\ at = "make_iconst"
  /\ \E c23 \in BOOLEAN :
       LET s == FirstDigit(Last.lo)
           e == Last.hi
           k == Strtoul(s, Base(Last.lo), c23)
           outcome == IF k.end > e THEN "aborted"
                      ELSE IF k.end # e \/ s = k.end THEN "error" ELSE "accepted"
       IN  /\ iconst' = [outcome |-> outcome, lo |-> Last.lo, hi |-> e, value |-> k.value]
           /\ at' = IF outcome = "aborted" THEN "aborted" ELSE "yylex"
  /\ UNCHANGED <<vars, sp, lo, pieces>>

(* The parser got the end of the file or an error, or make_iconst failed.  *)
Stopped == at \in {"end of file", "refused", "aborted"}

Yylex == Redo \/ Word \/ Integer \/ Dot \/ Unexpected \/ Punctuator \/ EndOfFile
LexNext == Prepare \/ Yylex \/ StartComment \/ Comment \/ CommentLine \/ Parse \/ MakeIconst

(* The compiler goes on until it stops: nothing else runs. *)
LexSpec == LexInit /\ [][LexNext]_<<vars, lexvars>> /\ WF_<<vars, lexvars>>(LexNext)
-----------------------------------------------------------------------------
(* The text of a piece, in the file, and what it may be. *)
Text(l, h) == SubSeq(file, l + 1, h)

(* FOREACH_PUNCTUATOR, the tokens that are no words and no integers. *)
Punctuators ==
  {<<".", ".", ".">>, <<"<", "<", "=">>, <<">", ">", "=">>,
   <<"!", "=">>, <<"%", "=">>, <<"&", "&">>, <<"&", "=">>, <<"*", "=">>, <<"+", "+">>,
   <<"+", "=">>, <<"-", "-">>, <<"-", "=">>, <<"-", ">">>, <<"/", "=">>, <<":", ":">>,
   <<"<", "<">>, <<"<", "=">>, <<"=", "=">>, <<">", "=">>, <<">", ">">>, <<"^", "=">>,
   <<"|", "=">>, <<"|", "|">>}
  \cup {<<c>> : c \in Punctuation}

AllIn(t, k, set) == \A i \in k..Len(t) : t[i] \in set

IsWord(t)   == t # <<>> /\ t[1] \in Letters /\ AllIn(t, 2, Letters \cup Digits)
IsNumber(t) == t # <<>> /\ t[1] \in Digits /\ AllIn(t, 2, Letters \cup Digits \cup {"."})
IsInteger(t) ==
  /\ t # <<>> /\ t[1] \in Digits
  /\ \/ AllIn(t, 2, Digits)
     \/ /\ Len(t) >= 2 /\ t[1] = "0"
        /\ \/ t[2] = "x" /\ AllIn(t, 3, HexDigits)
           \/ t[2] = "b" /\ AllIn(t, 3, Digits)
IsBlock(t) ==
  /\ Len(t) >= 4 /\ t[1] = "/" /\ t[2] = "*" /\ t[Len(t) - 1] = "*" /\ t[Len(t)] = "/"
  /\ \A i \in 3..(Len(t) - 2) : ~(t[i] = "*" /\ t[i + 1] = "/")
IsLine(t) ==
  /\ Len(t) >= 2 /\ t[1] = "/" /\ t[2] = "/"
  /\ \A i \in 3..(Len(t) - 1) : t[i] # Newline

(* A token of C: an identifier or a keyword, a number, with its suffix, or *)
(* a punctuator of the table.                                              *)
IsToken(t) == IsWord(t) \/ IsNumber(t) \/ t \in Punctuators

Longer(piece) == (piece.hi + 1)..Len(source)
LongerToken(piece) == \E h \in Longer(piece) : IsToken(Text(piece.lo, h))

(* The tokens of C that yylex ends too early: a word at its first digit    *)
(* (lex.c:68), so no _Decimal128; a number at its suffix or its dot        *)
(* (lex.c:94); and ->, which is a token of tokens.def:19 that the case of  *)
(* '-' (lex.c:113) does not know.                                          *)
CutShort(piece) ==
  \/ piece.kind = "word" /\ Char(piece.hi) \in Digits
  \/ piece.kind = "integer" /\ Char(piece.hi) \in Letters \cup {"."}
  \/ /\ piece.kind = "punctuator" /\ piece.hi = piece.lo + 1
     /\ Char(piece.lo) = "-" /\ Char(piece.hi) = ">"

(* The file is cut into blanks, comments and tokens, without a gap and     *)
(* without an overlap; the end that is read is that of the file, or a '\0' *)
(* or 0xFF in it.  An integer is the longest one at its place, and every   *)
(* word, integer and punctuator is a token of C and the longest there is   *)
(* at its place, as C asks, but for those that CutShort names: for just    *)
(* these there is a longer one.  A dot is left out, which may have one     *)
(* character too many.                                                     *)
SourceIsTiled ==
  \A n \in 1..Len(pieces) :
    LET piece == pieces[n]
        t     == Text(piece.lo, piece.hi)
    IN
    /\ piece.lo = IF n = 1 THEN 0 ELSE pieces[n - 1].hi
    /\ piece.lo < piece.hi /\ piece.hi <= Len(source) + 1
    /\ piece.kind = "blank" => t[1] \in Blanks \cup OtherBlanks
    /\ piece.kind = "end" => piece.lo = Len(file) \/ file[piece.lo + 1] \in EndingBytes
    /\ piece.kind = "comment" =>
         IsBlock(t) \/ (IsLine(t) /\ (t[Len(t)] = Newline \/ piece.hi = Len(source)))
    /\ piece.kind \in {"word", "integer", "punctuator"} =>
         IsToken(t) /\ (LongerToken(piece) <=> CutShort(piece))
    /\ piece.kind = "integer" =>
         IsInteger(t) /\ \A h \in Longer(piece) : ~IsInteger(Text(piece.lo, h))

(* An integer is what its text says: make_iconst accepts exactly those     *)
(* whose digits are all of their base, with that value.  It is lost on     *)
(* those without a digit after the prefix, or only a 0, since strtoul goes *)
(* on after the token, and the assertion of make_iconst (803) fails.       *)
ConstantsAreTokens ==
  iconst.outcome # "none" =>
    LET base   == Base(iconst.lo)
        first  == IF base \in {2, 16} THEN iconst.lo + 2 ELSE iconst.lo
        digits == Text(first, iconst.hi)
        valid  == digits # <<>> /\ AllIn(digits, 1, DigitsOf(base))
    IN
    /\ iconst.outcome = "accepted" => valid /\ iconst.value = Numeral(first, iconst.hi, base)
    /\ iconst.outcome = "error" => ~valid
    /\ iconst.outcome = "aborted" => base \in {2, 16} /\ digits \in {<<>>, <<"0">>}

(* Whatever the source is, the lexer reaches its end or something that is  *)
(* refused, and stops there: it does not run past the '\0', at which the   *)
(* loops of the comments, of the words and of the integers stop; a dot     *)
(* takes it one character further, but is never followed by another call.  *)
ScanEnds == <>[]Stopped
=============================================================================
