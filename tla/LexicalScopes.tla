--------------------------- MODULE LexicalScopes ---------------------------
(***************************************************************************)
(* What lexical scoping promises, without symbol tables: an environment    *)
(* says what each name means now, and a stack keeps the environments of    *)
(* the enclosing blocks.  Leaving a block restores exactly the environment *)
(* in which it was entered, and a name can be given a new meaning only     *)
(* once per block.                                                         *)
(***************************************************************************)
EXTENDS Naturals, Sequences

CONSTANTS Names, Symbols, NoSymbol

VARIABLES
  meaning,   \* the symbol each name denotes, or NoSymbol
  saved      \* the environments at the entries of the open blocks

vars == <<meaning, saved>>

Environments == [Names -> Symbols \cup {NoSymbol}]

Init ==
  /\ meaning = [n \in Names |-> NoSymbol]
  /\ saved = <<>>

(* The name's meaning when the innermost open block was entered. *)
OuterMeaning(n) == IF saved = <<>> THEN NoSymbol ELSE saved[Len(saved)][n]

Declare(n, s) ==
  /\ meaning[n] = OuterMeaning(n)
  /\ meaning' = [meaning EXCEPT ![n] = s]
  /\ UNCHANGED saved

OpenBlock ==
  /\ saved' = Append(saved, meaning)
  /\ UNCHANGED meaning

CloseBlock ==
  /\ saved # <<>>
  /\ meaning' = saved[Len(saved)]
  /\ saved' = SubSeq(saved, 1, Len(saved) - 1)

(* A function's name is declared at file scope, and stays declared after   *)
(* the function; its parameters are declared in a block of their own.      *)
OpenFunction(f, s, params) ==
  /\ saved = <<>>
  /\ meaning[f] \in {NoSymbol, s}
  /\ saved' = << [meaning EXCEPT ![f] = s] >>
  /\ meaning' = [n \in Names |-> IF params[n] # NoSymbol THEN params[n]
                                 ELSE IF n = f THEN s ELSE meaning[n]]

Next ==
  \/ \E n \in Names, s \in Symbols : Declare(n, s)
  \/ \E f \in Names, s \in Symbols, params \in Environments : OpenFunction(f, s, params)
  \/ OpenBlock
  \/ CloseBlock

Spec == Init /\ [][Next]_vars
=============================================================================
