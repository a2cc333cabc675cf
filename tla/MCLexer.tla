------------------------------ MODULE MCLexer ------------------------------
(* Lexer for TLC: all short files, and longer ones for integers, comments  *)
(* and lines.                                                              *)
EXTENDS Lexer

NL == "newline"
Tab == {"tab"}
SomeCharacters == {NL, " ", "a", "x", "b", "0", "1", "8", ".", "=", "/", "*", "-", "<", ">", "@"}
AllCharacters == SomeCharacters \cup Tab \cup {"0x00", "0xFF"}
Of(n, set) == [1..n -> set]
SomeFiles ==
  UNION {Of(n, AllCharacters) : n \in 0..2} \cup Of(3, SomeCharacters)
  \cup Of(3, {"a", "tab", NL, "0x00", "0xFF"})
  \cup UNION {Of(n, {"0", "x", "b", "1", " ", "-"}) : n \in 4..5}
  \cup UNION {Of(n, {"/", "*", NL, "a"}) : n \in 4..6}
  \cup UNION {Of(n, {".", NL, "<", "="}) : n \in 4..5}
  \cup Of(4, {"-", ">", "=", "a"})
  \cup Of(7, {NL, "a"})
=============================================================================
