------------------------- MODULE DeclarationsProofs -------------------------
(***************************************************************************)
(* The invariant of DeclarationsInvariant is inductive, for all values of  *)
(* the constants, and implies the safety properties of Declarations.       *)
(***************************************************************************)
EXTENDS DeclarationsInvariant, OperatorTheorems, SequenceTheorems,
        FiniteSetTheorems

(* The stack operations. *)
LEMMA SetTopSeq ==
  ASSUME NEW T, NEW s \in Seq(T), s # <<>>, NEW e \in T
  PROVE  /\ SetTop(s, e) \in Seq(T)
         /\ Len(SetTop(s, e)) = Len(s)
         /\ \A i \in 1..Len(s) : SetTop(s, e)[i] = IF i = Len(s) THEN e ELSE s[i]
  BY DEF SetTop

(* What Pop leaves of a sequence. *)
LEMMA PopSeq ==
  ASSUME NEW T, NEW s \in Seq(T), s # <<>>
  PROVE  /\ Pop(s) \in Seq(T)
         /\ Len(Pop(s)) = Len(s) - 1
         /\ \A i \in 1..(Len(s) - 1) : Pop(s)[i] = s[i]
  <1>1. Len(s) \in Nat \ {0}
    BY EmptySeq
  <1>2. \A i \in 1..(Len(s) - 1) : s[i] \in T
    BY <1>1, ElementOfSeq
  <1> DEFINE n == Len(s) - 1
  <1>3. n \in Nat /\ Len(s) - 1 = n
    BY <1>1
  <1>4. \A i \in 1..n : s[i] \in T
    BY <1>2
  <1> HIDE DEF n
  <1>5. /\ SubSeq(s, 1, n) \in Seq(T)
        /\ Len(SubSeq(s, 1, n)) = IF 1 <= n THEN n - 1 + 1 ELSE 0
        /\ \A i \in 1..(n - 1 + 1) : SubSeq(s, 1, n)[i] = s[1 + i - 1]
    <2>1. 1 \in Int /\ n \in Int
      BY <1>3
    <2> QED
      BY <1>4, <2>1, SMTT(20)
  <1>6. n - 1 + 1 = n /\ \A i \in 1..n : 1 + i - 1 = i
    BY <1>3
  <1> QED
    BY <1>3, <1>5, <1>6 DEF Pop

(* What Append makes of a sequence. *)
LEMMA AppendSeq ==
  ASSUME NEW T, NEW s \in Seq(T), NEW e \in T
  PROVE  /\ Append(s, e) \in Seq(T)
         /\ Len(Append(s, e)) = Len(s) + 1
         /\ \A i \in 1..(Len(s) + 1) : Append(s, e)[i] = IF i = Len(s) + 1 THEN e ELSE s[i]
  OBVIOUS

(* The top of a stack is its last element. *)
LEMMA TopSeq ==
  ASSUME NEW T, NEW s \in Seq(T), s # <<>>
  PROVE  Top(s) \in T /\ Top(s) = s[Len(s)] /\ Len(s) \in Nat \ {0}
  BY DEF Top
-----------------------------------------------------------------------------
(* What the shapes say of the top of the parser's stack. *)
LEMMA TopFacts ==
  ASSUME IInv, parser # <<>>
  PROVE  /\ Top(parser) \in Frames
         /\ Top(parser) = parser[Len(parser)]
         /\ Len(parser) \in Nat \ {0}
  BY TopSeq DEF IInv, TypeOK

(* The current scope is the last one, and its level is its position less   *)
(* one.                                                                    *)
LEMMA ScopeFacts ==
  ASSUME IInv
  PROVE  /\ Len(scopes) \in Nat \ {0}
         /\ Top(scopes) = scopes[Len(scopes)]
         /\ CurLevel = Len(scopes) - 1
         /\ Len(bstack) \in Nat
         /\ FunctionFrames \in Nat
         /\ Len(parser) \in Nat
  <1>1. Len(bstack) \in Nat /\ FunctionFrames \in Nat /\ Len(parser) \in Nat /\ Len(scopes) \in Nat \ {0}
    BY DEF IInv, TypeOK, ScopeShape, FunctionFrames
  <1> QED
    BY <1>1 DEF IInv, ScopeShape, CurLevel, Top

(* The parts of the invariant that do not look at the declarations being   *)
(* read, when the symbols and the scopes do not change.                    *)
LEMMA SameSymbols ==
  ASSUME IInv, UNCHANGED <<syms, scopes, bstack, curfn, extdefs>>,
         curfn # NoSym => (parser'[1].at = "built" <=> parser[1].at = "built")
  PROVE  FunctionsOK' /\ ParametersOK' /\ InScopeOK' /\ ExternalsOK'
  BY ScopeFacts DEF IInv, FunctionsOK, ParametersOK, InScopeOK, ExternalsOK, Symbols, Ty

(* Symbols that are being declared stay fresh while nothing but the parse  *)
(* stack and the declspecs changes and no symbol starts to be declared.    *)
LEMMA SameFresh ==
  ASSUME IInv, UNCHANGED <<syms, scopes, bstack>>,
         \A s \in Symbols : Declaring(s)' => Declaring(s)
  PROVE  DeclaringFresh'
  BY DEF IInv, DeclaringFresh, InScope, Parameter, Local, Symbols, Ty, CurLevel, Top

(* What could be emitted still can be, as long as symbols, blocks and      *)
(* external definitions stay the same.                                     *)
LEMMA SameEmission ==
  ASSUME IInv, status = "running", UNCHANGED <<syms, bstack, extdefs, status>>, err => err'
  PROVE  EmissionOK'
  BY DEF IInv, EmissionOK, Emittable, Symbols, Ty, TypeOK

(* The types of what a symbol is made of. *)
LEMMA SymbolFacts ==
  ASSUME IInv
  PROVE  /\ Len(syms) \in Nat
         /\ \A s \in Symbols :
              /\ syms[s] \in SymbolRecords
              /\ syms[s].name \in Names
              /\ Ty(s) \in TypeRecords
              /\ \A k \in 1..Len(Ty(s).params) : Ty(s).params[k] \in Symbols
              /\ syms[s].locals \subseteq Symbols
  <1>1. syms \in Seq(SymbolRecords)
    BY DEF IInv, TypeOK
  <1>2. \A s \in Symbols : syms[s] \in SymbolRecords
    BY <1>1, ElementOfSeq DEF Symbols
  <1>3. \A s \in Symbols : syms[s].name \in Names /\ syms[s].ty \in TypeRecords
    BY <1>2 DEF SymbolRecords
  <1> QED
    BY <1>1, <1>2, <1>3 DEF IInv, TypeOK, NoDangling, Ty

(* A table maps every name to an allocated symbol or to none. *)
LEMMA ScopeNames ==
  ASSUME IInv, NEW i \in 1..Len(scopes), NEW n \in Names
  PROVE  /\ scopes[i].names \in [Names -> Nat]
         /\ scopes[i].names[n] \in Nat
         /\ scopes[i].names[n] <= Len(syms)
         /\ scopes[i].names[n] # NoSym => scopes[i].names[n] \in Symbols
  <1>1. scopes[i] \in [level : Nat, names : [Names -> Nat]]
    BY ElementOfSeq DEF IInv, TypeOK
  <1>2. scopes[i].names \in [Names -> Nat]
    BY <1>1
  <1>3. scopes[i].names[n] \in Nat /\ scopes[i].names[n] <= Len(syms)
    BY <1>2 DEF IInv, TypeOK, NoDangling
  <1> QED
    BY <1>2, <1>3, SymbolFacts DEF Symbols, NoSym

(* External definitions and the function being defined are in scope. *)
LEMMA ExternalFacts ==
  ASSUME IInv
  PROVE  /\ \A i \in 1..Len(extdefs) : extdefs[i] \in Symbols /\ InScope(extdefs[i])
         /\ curfn # NoSym => curfn \in Symbols /\ InScope(curfn)
  <1>1. 1 \in 1..Len(scopes)
    BY ScopeFacts
  <1>2. ASSUME NEW i \in 1..Len(extdefs) PROVE extdefs[i] \in Symbols /\ InScope(extdefs[i])
    <2>1. extdefs[i] \in Symbols
      BY DEF IInv, TypeOK, NoDangling
    <2>2. scopes[1].names[syms[extdefs[i]].name] = extdefs[i]
      BY DEF IInv, ExternalsOK
    <2> QED
      BY <1>1, <2>1, <2>2, SymbolFacts DEF InScope
  <1>3. ASSUME curfn # NoSym PROVE curfn \in Symbols /\ InScope(curfn)
    <2>1. curfn \in Nat /\ curfn <= Len(syms)
      BY DEF IInv, TypeOK, NoDangling
    <2>2. curfn \in Symbols
      BY <1>3, <2>1, SymbolFacts DEF Symbols, NoSym
    <2>3. scopes[1].names[syms[curfn].name] = curfn
      BY <1>3 DEF IInv, ExternalsOK
    <2> QED
      BY <1>1, <2>2, <2>3, SymbolFacts DEF InScope
  <1> QED
    BY <1>2, <1>3

(* declspecs: typespec keeps the invariant: a frame and a declspec are     *)
(* pushed together.                                                        *)
LEMMA BeginDeclspecsInv ==
  ASSUME IInv, status = "running", NEW atom \in SpecAtoms, BeginDeclspecs(atom)
  PROVE  IInv'
  <1> DEFINE new == Frame("specs", Context)
             entry == [ts |-> AddSpecifier(SpecNone, atom), empty |-> TRUE]
  <1>0. /\ parser' = Append(parser, new)
        /\ dsstack' = Append(dsstack, entry)
        /\ UNCHANGED <<syms, scopes, bstack, curfn, extdefs, err, status>>
        /\ Context # "none"
    BY DEF BeginDeclspecs
  <1>1. new \in Frames /\ new.at = "specs" /\ new.ctx = Context /\ new.sym = 0 /\ new.params = <<>>
    BY <1>0 DEF Frame, Frames, Context, NoSym, DeclarationStates
  <1>2. entry \in [ts : SpecifierSets, empty : BOOLEAN] /\ entry.ts # SpecNone
    <2>1. SpecNone \in SpecifierSets /\ atom \in Atoms
      BY ConstantsAssumption DEF SpecifierSets, SpecNone, Signedness
    <2> QED
      BY <2>1, AddSpecifierType
  <1>2a. entry.ts # SpecInvalid
    BY ConstantsAssumption DEF AddSpecifier, Combines, Combine, SpecNone, SpecInvalid, Signedness, Atoms
  <1> HIDE DEF new, entry
  <1>3. /\ parser' \in Seq(Frames)
        /\ Len(parser') = Len(parser) + 1
        /\ \A i \in 1..(Len(parser) + 1) : parser'[i] = IF i = Len(parser) + 1 THEN new ELSE parser[i]
    BY <1>0, <1>1, AppendSeq DEF IInv, TypeOK
  <1>4. /\ dsstack' \in Seq([ts : SpecifierSets, empty : BOOLEAN])
        /\ Len(dsstack') = Len(dsstack) + 1
        /\ \A i \in 1..(Len(dsstack) + 1) : dsstack'[i] = IF i = Len(dsstack) + 1 THEN entry ELSE dsstack[i]
    BY <1>0, <1>2, AppendSeq DEF IInv, TypeOK
  <1>5. TypeOK'
    BY <1>0, <1>1, <1>3, <1>4 DEF IInv, TypeOK, NoDangling, Symbols, Ty
  <1>6. ParserShape'
    <2>1. CASE parser = <<>>
      BY <1>0, <1>1, <1>3, <2>1, ScopeFacts
         DEF IInv, ParserShape, FunctionFrames, Context, DeclarationStates, NoSym
    <2>2. CASE parser # <<>>
      <3> DEFINE n == Len(parser)
      <3>1. /\ n \in Nat \ {0} /\ Top(parser) = parser[n] /\ FunctionFrames \in Nat
            /\ FunctionFrames' = FunctionFrames
        BY <1>0, <2>2, ScopeFacts, TopFacts DEF FunctionFrames
      <3>2. \/ parser[n].at = "block" /\ new.ctx = "block"
            \/ parser[n].at = "params" /\ new.ctx = "param"
        BY <1>0, <1>1, <2>2, <3>1 DEF Context
      <3>3. CASE parser[n].at = "block"
        <4>1. n = FunctionFrames /\ n > 1 /\ curfn # NoSym /\ parser[1].at = "body"
          BY <3>1, <3>3 DEF IInv, ParserShape, FunctionFrames, DeclarationStates, FunctionStates
        <4> QED
          BY <1>0, <1>1, <1>3, <3>1, <3>2, <3>3, <4>1 DEF IInv, ParserShape, DeclarationStates
      <3>4. CASE parser[n].at = "params"
        <4>1. n > FunctionFrames /\ (curfn # NoSym => n > 1 /\ parser[1].at = "body")
          BY <3>1, <3>4 DEF IInv, ParserShape, FunctionFrames, DeclarationStates, FunctionStates
        <4> QED
          BY <1>0, <1>1, <1>3, <3>1, <3>2, <3>4, <4>1 DEF IInv, ParserShape, DeclarationStates
      <3> QED
        BY <3>2, <3>3, <3>4
    <2> QED
      BY <2>1, <2>2
  <1>7. ScopeShape' /\ DsstackShape'
    <2>1. Len(dsstack) \in Nat
      BY DEF IInv, TypeOK
    <2>2. FunctionFrames' = FunctionFrames /\ FunctionFrames \in Nat /\ Len(parser) \in Nat
      BY <1>0, ScopeFacts DEF FunctionFrames
    <2>3. ScopeShape'
      BY <1>0, <2>2 DEF IInv, ScopeShape
    <2>4. DsstackShape'
      BY <1>3, <1>4, <2>1, <2>2 DEF IInv, DsstackShape
    <2> QED
      BY <2>3, <2>4
  <1>8. \A i \in 1..Len(parser') : \A s : Declares(i, s)' <=> i <= Len(parser) /\ Declares(i, s)
    BY <1>1, <1>3, ScopeFacts DEF Declares, DeclaringStates
  <1>9. DeclaringFresh'
    BY <1>0, <1>3, <1>8, ScopeFacts, SameFresh DEF Declaring
  <1>10. DeclaringOnce' /\ DeclaringFrames'
    BY <1>0, <1>1, <1>3, <1>8, ScopeFacts
       DEF IInv, DeclaringOnce, DeclaringFrames, DeclaringStates, Symbols
  <1>11. FunctionsOK' /\ ParametersOK' /\ InScopeOK' /\ ExternalsOK'
    BY <1>0, <1>3, ScopeFacts, SameSymbols DEF IInv, ParserShape, FunctionFrames
  <1>12. ErrorsReported' /\ EmissionOK'
    BY <1>0, <1>2, <1>2a, <1>4, ScopeFacts, SameEmission DEF IInv, ErrorsReported, Symbols, Ty, TypeOK
  <1> QED
    BY <1>5, <1>6, <1>7, <1>9, <1>10, <1>11, <1>12 DEF IInv

(* A step that replaces the top frame of a declaration by another frame of *)
(* the same declaration.                                                   *)
LEMMA TopReplaced ==
  ASSUME IInv, parser # <<>>, Top(parser).at \in DeclarationStates,
         NEW f \in Frames, f.at \in DeclarationStates, f.ctx = Top(parser).ctx,
         parser' = SetTop(parser, f), UNCHANGED curfn,
         Len(bstack') = Len(bstack), bstack' = <<>> <=> bstack = <<>>
  PROVE  /\ parser' \in Seq(Frames)
         /\ Len(parser') = Len(parser)
         /\ \A i \in 1..Len(parser) : parser'[i] = IF i = Len(parser) THEN f ELSE parser[i]
         /\ FunctionFrames' = FunctionFrames
         /\ FunctionFrames < Len(parser)
         /\ ParserShape'
         /\ curfn # NoSym => parser'[1] = parser[1]
  <1>1. /\ parser' \in Seq(Frames)
        /\ Len(parser') = Len(parser)
        /\ \A i \in 1..Len(parser) : parser'[i] = IF i = Len(parser) THEN f ELSE parser[i]
    BY SetTopSeq DEF IInv, TypeOK
  <1>2. FunctionFrames' = FunctionFrames /\ FunctionFrames \in Nat
    BY ScopeFacts DEF FunctionFrames
  <1>3. FunctionFrames < Len(parser) /\ Len(parser) \in Nat \ {0}
    <2>1. Len(parser) \in Nat \ {0} /\ parser[Len(parser)].at \in DeclarationStates
      BY TopFacts
    <2> QED
      BY <2>1, <1>2, ScopeFacts
         DEF IInv, ParserShape, FunctionFrames, DeclarationStates, FunctionStates
  <1>4. curfn # NoSym => Len(parser) > 1
    BY <1>3, ScopeFacts DEF FunctionFrames
  <1>5. f.ctx = parser[Len(parser)].ctx
    BY TopFacts
  <1>6. ParserShape'
    BY <1>1, <1>2, <1>3, <1>4, <1>5 DEF IInv, ParserShape
  <1> QED
    BY <1>1, <1>2, <1>3, <1>4, <1>6

(* A declaration that is being read has its entry on dsstack. *)
LEMMA DsstackFacts ==
  ASSUME IInv, parser # <<>>, Top(parser).at \in DeclarationStates
  PROVE  /\ dsstack # <<>>
         /\ Len(dsstack) \in Nat \ {0}
         /\ Top(dsstack) = dsstack[Len(dsstack)]
         /\ Top(dsstack) \in [ts : SpecifierSets, empty : BOOLEAN]
         /\ FunctionFrames < Len(parser)
  <1>1. Len(parser) \in Nat \ {0} /\ parser[Len(parser)].at \in DeclarationStates
    BY TopFacts
  <1>2. FunctionFrames < Len(parser)
    BY <1>1, ScopeFacts
       DEF IInv, ParserShape, FunctionFrames, DeclarationStates, FunctionStates
  <1>3. dsstack \in Seq([ts : SpecifierSets, empty : BOOLEAN]) /\ Len(dsstack) \in Nat
    BY DEF IInv, TypeOK
  <1>4. Len(dsstack) > 0
    BY <1>1, <1>2, <1>3, ScopeFacts DEF IInv, DsstackShape
  <1>5. dsstack # <<>>
    BY <1>3, <1>4
  <1> QED
    BY <1>2, <1>3, <1>4, <1>5, TopSeq

(* The shapes of the scopes and declspecs survive a step that keeps the    *)
(* lengths of the stacks.                                                  *)
LEMMA SameShape ==
  ASSUME IInv, FunctionFrames' = FunctionFrames, Len(scopes') = Len(scopes),
         \A i \in 1..Len(scopes) : scopes'[i].level = scopes[i].level,
         Len(parser') = Len(parser), Len(dsstack') = Len(dsstack)
  PROVE  ScopeShape' /\ DsstackShape'
  BY DEF IInv, ScopeShape, DsstackShape

(* declspecs: declspecs typespec keeps the invariant: an invalid set of    *)
(* specifiers is always reported.                                          *)
LEMMA MoreDeclspecsInv ==
  ASSUME IInv, status = "running", NEW atom \in SpecAtoms, MoreDeclspecs(atom)
  PROVE  IInv'
  <1> DEFINE top == Top(dsstack)
             n   == Len(dsstack)
  <1>0. /\ dsstack' = [dsstack EXCEPT ![n].ts = AddSpecifier(@, atom)]
        /\ err' = (err \/ SpecifierError(top.ts, atom))
        /\ UNCHANGED <<parser, syms, scopes, bstack, curfn, extdefs, status>>
        /\ parser # <<>> /\ Top(parser).at \in DeclarationStates
    BY DEF MoreDeclspecs, In, DeclarationStates
  <1>1. /\ dsstack \in Seq([ts : SpecifierSets, empty : BOOLEAN])
        /\ n \in Nat \ {0} /\ top = dsstack[n] /\ top \in [ts : SpecifierSets, empty : BOOLEAN]
        /\ atom \in Atoms /\ err \in BOOLEAN
    BY <1>0, DsstackFacts, ConstantsAssumption DEF IInv, TypeOK
  <1>2. AddSpecifier(top.ts, atom) \in SpecifierSets \ {SpecNone}
    BY <1>1, AddSpecifierType
  <1>3. /\ dsstack' \in Seq([ts : SpecifierSets, empty : BOOLEAN])
        /\ Len(dsstack') = n
        /\ dsstack'[n].ts = AddSpecifier(top.ts, atom)
        /\ \A i \in 1..n : i # n => dsstack'[i] = dsstack[i]
    <2> DEFINE e == [top EXCEPT !.ts = AddSpecifier(@, atom)]
    <2>1. e \in [ts : SpecifierSets, empty : BOOLEAN] /\ e.ts = AddSpecifier(top.ts, atom)
      BY <1>1, <1>2
    <2>2. dsstack' = [dsstack EXCEPT ![n] = e]
      BY <1>0, <1>1
    <2> HIDE DEF e
    <2> QED
      BY <1>1, <2>1, <2>2, ExceptSeq
  <1>4. TypeOK'
    <2>1. err' \in BOOLEAN
      BY <1>0, <1>1
    <2> QED
      BY <1>0, <1>3, <2>1 DEF IInv, TypeOK, NoDangling, Symbols, Ty
  <1>5. ParserShape' /\ FunctionFrames' = FunctionFrames
    BY <1>0 DEF IInv, ParserShape, FunctionFrames
  <1>6. ScopeShape' /\ DsstackShape'
    BY <1>0, <1>3, <1>5, SameShape
  <1>7. DeclaringFresh'
    BY <1>0, SameFresh DEF Declaring, Declares
  <1>8. DeclaringOnce' /\ DeclaringFrames'
    BY <1>0 DEF IInv, DeclaringOnce, DeclaringFrames, Declares, Symbols
  <1>9. FunctionsOK' /\ ParametersOK' /\ InScopeOK' /\ ExternalsOK'
    BY <1>0, SameSymbols
  <1>10. ErrorsReported'
    <2>1. ASSUME NEW i \in 1..n PROVE dsstack'[i].ts # SpecNone /\ (dsstack'[i].ts = SpecInvalid => err')
      <3>1. CASE i = n
        <4>1. AddSpecifier(top.ts, atom) = SpecInvalid => top.ts = SpecInvalid \/ SpecifierError(top.ts, atom)
          BY <1>1, AddSpecifierReports
        <4>2. top.ts = SpecInvalid => err
          BY <1>1 DEF IInv, ErrorsReported
        <4> QED
          BY <1>0, <1>2, <1>3, <3>1, <4>1, <4>2
      <3>2. CASE i # n
        BY <1>0, <1>3, <3>2 DEF IInv, ErrorsReported
      <3> QED
        BY <3>1, <3>2
    <2> QED
      BY <1>0, <1>3, <2>1 DEF IInv, ErrorsReported, Symbols, Ty
  <1>11. EmissionOK'
    BY <1>0, SameEmission
  <1> QED
    BY <1>4, <1>5, <1>6, <1>7, <1>8, <1>9, <1>10, <1>11 DEF IInv

(* The parenthesis after a declarator keeps the invariant: the list of     *)
(* parameters is empty.                                                    *)
LEMMA BeginParametersInv ==
  ASSUME IInv, status = "running", BeginParameters
  PROVE  IInv'
  <1> DEFINE f == [Top(parser) EXCEPT !.at = "params", !.params = <<>>]
             n == Len(parser)
  <1>0. /\ parser' = SetTop(parser, f)
        /\ UNCHANGED <<dsstack, syms, scopes, bstack, curfn, extdefs, err, status>>
        /\ parser # <<>> /\ Top(parser).at = "declarator"
    BY DEF BeginParameters, In
  <1>1. /\ f \in Frames /\ f.at = "params" /\ f.ctx = Top(parser).ctx /\ f.params = <<>>
        /\ f.sym = Top(parser).sym /\ Top(parser) = parser[n] /\ n \in Nat \ {0}
    <2>1. Top(parser) \in Frames /\ Top(parser) = parser[n] /\ n \in Nat \ {0}
      BY <1>0, TopFacts
    <2>2. <<>> \in Seq(Nat) /\ "params" \in DeclarationStates
      BY EmptySeq DEF DeclarationStates
    <2> QED
      BY <2>1, <2>2 DEF Frames
  <1> HIDE DEF f
  <1>2. /\ parser' \in Seq(Frames)
        /\ Len(parser') = n
        /\ \A i \in 1..n : parser'[i] = IF i = n THEN f ELSE parser[i]
        /\ FunctionFrames' = FunctionFrames
        /\ ParserShape'
        /\ curfn # NoSym => parser'[1] = parser[1]
    BY <1>0, <1>1, TopReplaced DEF DeclarationStates
  <1>3. TypeOK'
    BY <1>0, <1>1, <1>2 DEF IInv, TypeOK, NoDangling, Symbols, Ty
  <1>4. ScopeShape' /\ DsstackShape'
    BY <1>0, <1>2, SameShape
  <1>5. \A i \in 1..n : \A s : Declares(i, s)' <=> Declares(i, s)
    BY <1>0, <1>1, <1>2 DEF Declares, DeclaringStates
  <1>6. DeclaringFresh'
    BY <1>0, <1>2, <1>5, SameFresh DEF Declaring
  <1>7. DeclaringOnce' /\ DeclaringFrames'
    BY <1>0, <1>1, <1>2, <1>5 DEF IInv, DeclaringOnce, DeclaringFrames, DeclaringStates, Symbols
  <1>8. FunctionsOK' /\ ParametersOK' /\ InScopeOK' /\ ExternalsOK'
    BY <1>0, <1>2, SameSymbols
  <1>9. ErrorsReported'
    BY <1>0 DEF IInv, ErrorsReported, Symbols, Ty
  <1>10. EmissionOK'
    BY <1>0, SameEmission
  <1> QED
    BY <1>2, <1>3, <1>4, <1>6, <1>7, <1>8, <1>9, <1>10 DEF IInv

(* A step that changes the types of symbols that are being declared, and   *)
(* of no others, leaves what is in scope alone.                            *)
LEMMA DeclaringRetyped ==
  ASSUME IInv, status = "running", UNCHANGED <<scopes, bstack, curfn, extdefs, status>>,
         Len(syms') = Len(syms), err => err',
         curfn # NoSym => parser'[1] = parser[1],
         \A s \in Symbols : ~Declaring(s) => syms'[s] = syms[s],
         \A s \in Symbols : /\ syms'[s].name = syms[s].name
                            /\ syms'[s].level = syms[s].level
                            /\ syms'[s].body = syms[s].body
                            /\ syms'[s].locals = syms[s].locals
  PROVE  /\ InScopeOK' /\ ExternalsOK' /\ EmissionOK'
         /\ CurLevel' = CurLevel
         /\ \A s \in Symbols : (InScope(s)' <=> InScope(s)) /\ (Local(s)' <=> Local(s))
  <1>1. \A s \in Symbols : InScope(s) \/ Local(s) \/ Parameter(s) => syms'[s] = syms[s]
    BY DEF IInv, DeclaringFresh
  <1>2. \A i \in 1..Len(scopes), n \in Names :
          scopes[i].names[n] # NoSym =>
            scopes[i].names[n] \in Symbols /\ syms'[scopes[i].names[n]] = syms[scopes[i].names[n]]
    <2> SUFFICES ASSUME NEW i \in 1..Len(scopes), NEW n \in Names, scopes[i].names[n] # NoSym
                 PROVE  scopes[i].names[n] \in Symbols /\ InScope(scopes[i].names[n])
      BY <1>1
    <2> QED
      BY ScopeNames DEF InScope
  <1>3. InScopeOK'
    BY <1>2 DEF IInv, InScopeOK, Ty
  <1>4. \A i \in 1..Len(extdefs) : extdefs[i] \in Symbols /\ syms'[extdefs[i]] = syms[extdefs[i]]
    BY <1>1, ExternalFacts
  <1>5. curfn # NoSym => curfn \in Symbols /\ syms'[curfn] = syms[curfn]
    BY <1>1, ExternalFacts
  <1>6. ExternalsOK'
    BY <1>4, <1>5 DEF IInv, ExternalsOK, Ty
  <1>7. EmissionOK'
    <2>1. \A i \in 1..Len(bstack) : \A s \in bstack[i] : s \in Symbols /\ syms'[s] = syms[s]
      BY <1>1 DEF IInv, TypeOK, NoDangling, Local
    <2>2. \A f \in Symbols : \A s \in syms[f].locals : s \in Symbols /\ syms'[s] = syms[s]
      BY <1>1 DEF IInv, TypeOK, NoDangling, Local
    <2>3. \A i \in 1..Len(extdefs) : \A k \in 1..Len(Ty(extdefs[i]).params) :
            syms'[Ty(extdefs[i]).params[k]] = syms[Ty(extdefs[i]).params[k]]
      BY <1>1, <1>4, SymbolFacts DEF Parameter
    <2>4. err \in BOOLEAN /\ Symbols' = Symbols
      BY DEF IInv, TypeOK, Symbols
    <2>5. ~err' => ~err
      BY <2>4
    <2>6. ASSUME NEW i \in 1..Len(extdefs), Emittable(extdefs[i]) PROVE Emittable(extdefs[i])'
      <3>1. extdefs'[i] = extdefs[i] /\ syms'[extdefs[i]] = syms[extdefs[i]]
        BY <1>4
      <3>2. \A k \in 1..Len(syms[extdefs[i]].ty.params) :
              syms'[syms[extdefs[i]].ty.params[k]] = syms[syms[extdefs[i]].ty.params[k]]
        BY <2>3 DEF Ty
      <3> QED
        BY <2>6, <3>1, <3>2 DEF Emittable, Ty
    <2> QED
      BY <1>4, <2>1, <2>2, <2>4, <2>5, <2>6 DEF IInv, EmissionOK, Ty
  <1>8. \A s \in Symbols : (InScope(s)' <=> InScope(s)) /\ (Local(s)' <=> Local(s))
    BY DEF InScope, Local, Symbols
  <1> QED
    BY <1>3, <1>6, <1>7, <1>8 DEF CurLevel, Top

(* make_pdecl keeps the parameters of a type, and leaves functions         *)
(* functions.                                                              *)
LEMMA PointerDeclaratorType ==
  ASSUME NEW t \in TypeRecords
  PROVE  /\ PointerDeclarator(t) \in TypeRecords
         /\ PointerDeclarator(t).params = t.params
         /\ PointerDeclarator(t) = NoType => t = NoType
         /\ Op(PointerDeclarator(t)) = "Kfun" => Op(t) = "Kfun"
         /\ Op(t) = "Kfun" => Op(PointerDeclarator(t)) = "Kfun"
  <1>1. CASE t = NoType
    BY <1>1 DEF PointerDeclarator
  <1>2. CASE t # NoType /\ t.core = "fun"
    <2>1. PointerDeclarator(t) = [t EXCEPT !.ret.depth = @ + 1]
      BY <1>2 DEF PointerDeclarator
    <2>2. [t EXCEPT !.ret.depth = @ + 1] \in TypeRecords
      BY DEF TypeRecords
    <2>3. /\ [t EXCEPT !.ret.depth = @ + 1].core = t.core
          /\ [t EXCEPT !.ret.depth = @ + 1].depth = t.depth
          /\ [t EXCEPT !.ret.depth = @ + 1].params = t.params
      BY DEF TypeRecords
    <2> QED
      BY <1>2, <2>1, <2>2, <2>3 DEF NoType, TypeOf, Op
  <1>3. CASE t # NoType /\ t.core # "fun"
    <2>1. PointerDeclarator(t) = [t EXCEPT !.depth = @ + 1]
      BY <1>3 DEF PointerDeclarator
    <2>2. [t EXCEPT !.depth = @ + 1] \in TypeRecords
      BY DEF TypeRecords
    <2>3. /\ [t EXCEPT !.depth = @ + 1].core = t.core
          /\ [t EXCEPT !.depth = @ + 1].depth = t.depth + 1
          /\ [t EXCEPT !.depth = @ + 1].params = t.params
          /\ t.depth \in Nat
      BY DEF TypeRecords
    <2>4. t.depth + 1 > 0 /\ t.depth + 1 # 0
      BY <2>3
    <2>5. Op(PointerDeclarator(t)) = "Kptr" /\ Op(t) # "Kfun"
      BY <1>3, <2>1, <2>3, <2>4 DEF Op
    <2>6. PointerDeclarator(t) # NoType
      BY <2>1, <2>3, <2>4 DEF NoType, TypeOf
    <2> QED
      BY <1>3, <2>1, <2>2, <2>3, <2>5, <2>6
  <1> QED
    BY <1>1, <1>2, <1>3

(* The symbol of the declaration at the top. *)
LEMMA TopSym ==
  ASSUME IInv, parser # <<>>, Top(parser).at \in DeclaringStates
  PROVE  /\ Top(parser).sym \in Symbols
         /\ Declares(Len(parser), Top(parser).sym)
         /\ Declaring(Top(parser).sym)
  <1> DEFINE n == Len(parser)
  <1>1. n \in Nat \ {0} /\ Top(parser) = parser[n] /\ Top(parser) \in Frames
    BY TopFacts
  <1>2. parser[n].sym \in Nat /\ parser[n].sym <= Len(syms) /\ parser[n].sym # 0
    BY <1>1 DEF IInv, TypeOK, NoDangling, Frames, DeclaringFrames, NoSym
  <1>3. parser[n].sym \in Symbols
    BY <1>2, SymbolFacts DEF Symbols
  <1>4. Declares(n, parser[n].sym)
    BY <1>1 DEF Declares
  <1> QED
    BY <1>1, <1>3, <1>4 DEF Declaring

(* Where what is declared does not change, and the symbols only their type *)
(* and kind.                                                               *)
LEMMA SameDeclares ==
  ASSUME IInv, Len(parser') = Len(parser), Len(syms') = Len(syms),
         \A i \in 1..Len(parser), s \in Symbols : Declares(i, s)' => Declares(i, s)
  PROVE  /\ \A i, j \in 1..Len(parser') : \A s \in Symbols' : Declares(i, s)' /\ Declares(j, s)' => i = j
         /\ \A s \in Symbols : Declaring(s)' => Declaring(s)
  BY DEF IInv, DeclaringOnce, Declaring, Symbols

(* make_pdecl keeps the invariant: the symbol whose type changes is known  *)
(* to its own frame only.                                                  *)
LEMMA MakePdeclInv ==
  ASSUME IInv, status = "running", MakePdecl
  PROVE  IInv'
  <1> DEFINE f == [Top(parser) EXCEPT !.at = "pointer", !.stars = @ - 1]
             n == Len(parser)
             x == Top(parser).sym
             t == PointerDeclarator(Ty(x))
  <1>0. /\ parser' = SetTop(parser, f)
        /\ syms' = [syms EXCEPT ![x].ty = PointerDeclarator(@)]
        /\ UNCHANGED <<dsstack, scopes, bstack, curfn, extdefs, err, status>>
        /\ parser # <<>> /\ Top(parser).at \in {"declarator", "pointer"}
        /\ Top(parser).stars > 0
    BY DEF MakePdecl, In
  <1>1. /\ f \in Frames /\ f.at = "pointer" /\ f.ctx = Top(parser).ctx /\ f.params = Top(parser).params
        /\ f.sym = x /\ Top(parser) = parser[n] /\ n \in Nat \ {0}
        /\ Top(parser).at \in DeclaringStates \cap DeclarationStates /\ f.at \in DeclarationStates
    <2>1. Top(parser) \in Frames /\ Top(parser) = parser[n] /\ n \in Nat \ {0}
      BY <1>0, TopFacts
    <2>2. Top(parser).stars - 1 \in Nat
      BY <1>0, <2>1 DEF Frames
    <2>3. "pointer" \in DeclarationStates /\ "declarator" \in DeclarationStates
      BY DEF DeclarationStates
    <2>4. f \in Frames
      BY <2>1, <2>2, <2>3 DEF Frames
    <2> QED
      BY <1>0, <2>1, <2>3, <2>4 DEF Frames, DeclaringStates
  <1> HIDE DEF f
  <1>2. x \in Symbols /\ Declares(n, x) /\ Declaring(x) /\ Ty(x) \in TypeRecords
    BY <1>0, <1>1, TopSym, SymbolFacts
  <1>3. /\ t \in TypeRecords /\ t.params = Ty(x).params /\ (t = NoType => Ty(x) = NoType)
        /\ Op(t) = "Kfun" <=> Op(Ty(x)) = "Kfun"
    BY <1>2, PointerDeclaratorType
  <1> HIDE DEF t
  <1>4. /\ syms' \in Seq(SymbolRecords)
        /\ Len(syms') = Len(syms)
        /\ Symbols' = Symbols
        /\ \A s \in Symbols : s # x => syms'[s] = syms[s]
        /\ \A s \in Symbols : /\ syms'[s].ty = IF s = x THEN t ELSE syms[s].ty
                              /\ syms'[s].name = syms[s].name
                              /\ syms'[s].op = syms[s].op
                              /\ syms'[s].level = syms[s].level
                              /\ syms'[s].body = syms[s].body
                              /\ syms'[s].locals = syms[s].locals
    <2> DEFINE e == [syms[x] EXCEPT !.ty = t]
    <2>1. /\ e \in SymbolRecords /\ e.ty = t
          /\ e.name = syms[x].name /\ e.op = syms[x].op /\ e.level = syms[x].level
          /\ e.body = syms[x].body /\ e.locals = syms[x].locals
      BY <1>2, <1>3, SymbolFacts DEF SymbolRecords
    <2>2. syms' = [syms EXCEPT ![x] = e]
      BY <1>0 DEF t, Ty
    <2> HIDE DEF e
    <2>3. syms \in Seq(SymbolRecords) /\ x \in 1..Len(syms)
      BY <1>2 DEF IInv, TypeOK, Symbols
    <2>4. /\ syms' \in Seq(SymbolRecords)
          /\ Len(syms') = Len(syms)
          /\ \A s \in 1..Len(syms) : syms'[s] = IF s = x THEN e ELSE syms[s]
      BY <2>1, <2>2, <2>3, ExceptSeq
    <2> QED
      BY <2>1, <2>4 DEF Symbols
  <1>5. /\ parser' \in Seq(Frames)
        /\ Len(parser') = n
        /\ \A i \in 1..n : parser'[i] = IF i = n THEN f ELSE parser[i]
        /\ FunctionFrames' = FunctionFrames
        /\ ParserShape'
        /\ curfn # NoSym => parser'[1] = parser[1]
    BY <1>0, <1>1, TopReplaced
  <1>6. TypeOK'
    <2>1. NoDangling'
      BY <1>0, <1>1, <1>3, <1>4, <1>5 DEF IInv, TypeOK, NoDangling, Ty
    <2> QED
      BY <1>0, <1>4, <1>5, <2>1 DEF IInv, TypeOK
  <1>7. ScopeShape' /\ DsstackShape'
    BY <1>0, <1>5, SameShape
  <1>8. \A i \in 1..n, s \in Symbols : Declares(i, s)' => Declares(i, s)
    BY <1>0, <1>1, <1>5 DEF Declares, DeclaringStates
  <1>9. /\ \A i, j \in 1..Len(parser') : \A s \in Symbols' : Declares(i, s)' /\ Declares(j, s)' => i = j
        /\ \A s \in Symbols : Declaring(s)' => Declaring(s)
    BY <1>4, <1>5, <1>8, SameDeclares
  <1>10. DeclaringOnce' /\ DeclaringFrames'
    BY <1>1, <1>5, <1>9 DEF IInv, DeclaringOnce, DeclaringFrames, DeclaringStates
  <1>11. /\ InScopeOK' /\ ExternalsOK' /\ EmissionOK'
         /\ CurLevel' = CurLevel
         /\ \A s \in Symbols : (InScope(s)' <=> InScope(s)) /\ (Local(s)' <=> Local(s))
    BY <1>0, <1>2, <1>4, <1>5, DeclaringRetyped
  <1>12. \A s \in Symbols : Parameter(s)' => Parameter(s)
    BY <1>2, <1>3, <1>4 DEF Parameter, Ty
  <1>13. DeclaringFresh'
    <2> SUFFICES ASSUME NEW s \in Symbols, Declaring(s)'
                 PROVE  /\ syms'[s].level = CurLevel'
                        /\ syms'[s].body = FALSE
                        /\ ~InScope(s)' /\ ~Parameter(s)' /\ ~Local(s)'
                        /\ syms'[s].op = "Sfunc" /\ Ty(s)' # NoType => Op(Ty(s))' = "Kfun"
      BY <1>4 DEF DeclaringFresh
    <2>1. /\ syms[s].level = CurLevel
          /\ syms[s].body = FALSE
          /\ ~InScope(s) /\ ~Parameter(s) /\ ~Local(s)
          /\ syms[s].op = "Sfunc" /\ Ty(s) # NoType => Op(Ty(s)) = "Kfun"
      BY <1>9 DEF IInv, DeclaringFresh
    <2>2. syms[s].op = "Sfunc" /\ Ty(s)' # NoType => Op(Ty(s)') = "Kfun"
      <3>1. CASE s = x
        BY <1>3, <1>4, <2>1, <3>1 DEF Ty, NoType, PointerDeclarator, t
      <3>2. CASE s # x
        BY <1>4, <2>1, <3>2 DEF Ty
      <3> QED
        BY <3>1, <3>2
    <2> QED
      BY <1>4, <1>11, <1>12, <2>1, <2>2 DEF Op
  <1>14. FunctionsOK'
    BY <1>2, <1>3, <1>4 DEF IInv, FunctionsOK, Ty
  <1>15. ParametersOK'
    <2>1. \A s \in Symbols : Parameter(s) => s # x
      BY <1>2 DEF IInv, DeclaringFresh
    <2>2. ASSUME NEW g \in Symbols, NEW k \in 1..Len(syms[g].ty.params)
          PROVE  /\ syms[g].ty.params[k] \in Symbols
                 /\ syms'[syms[g].ty.params[k]] = syms[syms[g].ty.params[k]]
      BY <1>4, <2>1, SymbolFacts DEF Parameter, Ty
    <2>3. \A g \in Symbols : syms'[g].ty.params = syms[g].ty.params
      BY <1>3, <1>4 DEF Ty
    <2> SUFFICES ASSUME NEW g \in Symbols, NEW k \in 1..Len(syms[g].ty.params)
                 PROVE  /\ syms'[syms[g].ty.params[k]].ty # NoType
                        /\ syms'[syms[g].ty.params[k]].level = syms'[g].level
      BY <1>4, <2>3 DEF ParametersOK, Ty
    <2> QED
      BY <1>4, <2>2 DEF IInv, ParametersOK, Ty
  <1>16. ErrorsReported'
    BY <1>0, <1>2, <1>3, <1>4 DEF IInv, ErrorsReported, Ty
  <1> QED
    BY <1>5, <1>6, <1>7, <1>10, <1>11, <1>13, <1>14, <1>15, <1>16 DEF IInv

(* A declaration on top that has read its specifiers. *)
LEMMA IdentifierInv ==
  ASSUME IInv, status = "running", NEW n \in Names, NEW stars \in 0..MaxStars, Identifier(n, stars)
  PROVE  IInv'
  <1> DEFINE p == Len(parser)
             d == Len(dsstack)
             x == Len(syms) + 1
             ts == Top(dsstack).ts
             ty == TypeOf(DeclspecType(ts), 0)
             e == [name |-> n, op |-> "Sdata", level |-> CurLevel, ty |-> ty,
                   body |-> FALSE, locals |-> {}]
             f == [Top(parser) EXCEPT !.at = "declarator", !.stars = stars, !.sym = x]
  <1>0. /\ syms' = Append(syms, e)
        /\ dsstack' = [dsstack EXCEPT ![d].empty = FALSE]
        /\ parser' = SetTop(parser, f)
        /\ UNCHANGED <<scopes, bstack, curfn, extdefs, err, status>>
        /\ parser # <<>> /\ Top(parser).at \in {"specs", "list"}
    BY DEF Identifier, In
  <1>1. /\ f \in Frames /\ f.at = "declarator" /\ f.ctx = Top(parser).ctx
        /\ f.params = Top(parser).params
        /\ f.sym = x /\ Top(parser) = parser[p] /\ p \in Nat \ {0}
        /\ Top(parser).at \in DeclarationStates \ DeclaringStates /\ f.at \in DeclarationStates
        /\ x \in Nat \ {0}
    <2>1. Top(parser) \in Frames /\ Top(parser) = parser[p] /\ p \in Nat \ {0} /\ x \in Nat \ {0}
      BY <1>0, TopFacts, SymbolFacts
    <2>2. "declarator" \in DeclarationStates /\ {"specs", "list"} \subseteq DeclarationStates \ DeclaringStates
      BY DEF DeclarationStates, DeclaringStates
    <2>3. stars \in Nat
      BY ConstantsAssumption
    <2>4. f \in Frames
      BY <2>1, <2>2, <2>3 DEF Frames
    <2> QED
      BY <1>0, <2>1, <2>2, <2>4 DEF Frames
  <1>2. /\ dsstack \in Seq([ts : SpecifierSets, empty : BOOLEAN])
        /\ d \in Nat \ {0} /\ Top(dsstack) = dsstack[d]
        /\ ts \in SpecifierSets /\ ts # SpecNone /\ (ts = SpecInvalid => err)
    <2>1. /\ dsstack \in Seq([ts : SpecifierSets, empty : BOOLEAN])
          /\ d \in Nat \ {0} /\ Top(dsstack) = dsstack[d]
          /\ Top(dsstack) \in [ts : SpecifierSets, empty : BOOLEAN]
      BY <1>0, <1>1, DsstackFacts DEF IInv, TypeOK
    <2>2. d \in 1..d
      BY <2>1
    <2>3. dsstack[d].ts # SpecNone /\ (dsstack[d].ts = SpecInvalid => err)
      BY <2>2 DEF IInv, ErrorsReported
    <2> QED
      BY <2>1, <2>3
  <1>3. /\ ty \in TypeRecords /\ ty.params = <<>> /\ (ty = NoType => err) /\ Op(ty) # "Kfun"
    <2>1. DeclspecType(ts) \in {"none", "void"} \cup IntegerTypes /\ (DeclspecType(ts) = "none" => err)
      BY <1>2, DeclspecTypeType
    <2>2. DeclspecType(ts) \in Cores /\ "none" \in Cores /\ <<>> \in Seq(Nat) /\ DeclspecType(ts) # "fun"
      BY <2>1, EmptySeq DEF Cores, IntegerTypes
    <2> QED
      BY <2>1, <2>2 DEF TypeOf, NoType, NoReturn, ObjectType, TypeRecords, Op
  <1> HIDE DEF ty
  <1>4. e \in SymbolRecords
    BY <1>3, ScopeFacts DEF SymbolRecords
  <1> HIDE DEF e, f
  <1>5. /\ syms' \in Seq(SymbolRecords)
        /\ Len(syms') = x
        /\ \A s \in Symbols : syms'[s] = syms[s]
        /\ syms'[x] = e
        /\ Symbols' = Symbols \cup {x}
        /\ x \notin Symbols
    BY <1>0, <1>4, AppendSeq, SymbolFacts DEF IInv, TypeOK, Symbols
  <1>6. /\ dsstack' \in Seq([ts : SpecifierSets, empty : BOOLEAN])
        /\ Len(dsstack') = d
        /\ \A i \in 1..d : dsstack'[i].ts = dsstack[i].ts
    <2> DEFINE g == [dsstack[d] EXCEPT !.empty = FALSE]
    <2>0. dsstack[d] \in [ts : SpecifierSets, empty : BOOLEAN]
      BY <1>0, <1>1, DsstackFacts
    <2>1. g \in [ts : SpecifierSets, empty : BOOLEAN] /\ g.ts = dsstack[d].ts
      BY <2>0
    <2>2. dsstack' = [dsstack EXCEPT ![d] = g]
      BY <1>0
    <2> HIDE DEF g
    <2> QED
      BY <1>2, <2>1, <2>2, ExceptSeq
  <1>7. /\ parser' \in Seq(Frames)
        /\ Len(parser') = p
        /\ \A i \in 1..p : parser'[i] = IF i = p THEN f ELSE parser[i]
        /\ FunctionFrames' = FunctionFrames
        /\ ParserShape'
        /\ curfn # NoSym => parser'[1] = parser[1]
    BY <1>0, <1>1, TopReplaced
  <1>8. /\ e.ty = ty /\ e.level = CurLevel /\ e.body = FALSE /\ e.locals = {}
        /\ e.op = "Sdata" /\ e.name = n
    BY DEF e
  <1>9. TypeOK'
    <2>1. \A i \in 1..p : parser'[i].sym <= x /\ \A k \in 1..Len(parser'[i].params) : parser'[i].params[k] \in Symbols'
      <3> SUFFICES ASSUME NEW i \in 1..p
                   PROVE  /\ parser'[i].sym <= x
                          /\ \A k \in 1..Len(parser'[i].params) : parser'[i].params[k] \in Symbols'
        OBVIOUS
      <3>1. /\ parser[i].sym <= Len(syms) /\ parser[i] \in Frames
            /\ \A k \in 1..Len(parser[i].params) : parser[i].params[k] \in Symbols
        BY ElementOfSeq DEF IInv, TypeOK, NoDangling
      <3>2. parser[i].sym \in Nat /\ Len(syms) \in Nat
        BY <3>1, SymbolFacts DEF Frames
      <3>3. parser[i].sym <= x
        BY <3>1, <3>2
      <3>4. parser'[i].params = parser[i].params /\ (parser'[i].sym = x \/ parser'[i].sym = parser[i].sym)
        BY <1>1, <1>7
      <3> QED
        BY <1>5, <3>1, <3>3, <3>4, SymbolFacts
    <2>2. \A s \in Symbols' : /\ \A k \in 1..Len(syms'[s].ty.params) : syms'[s].ty.params[k] \in Symbols'
                              /\ syms'[s].locals \subseteq Symbols'
      BY <1>3, <1>5, <1>8, SymbolFacts DEF Ty
    <2>3. \A i \in 1..Len(scopes), m \in Names : scopes[i].names[m] <= x
      BY ScopeNames, SymbolFacts
    <2>4. NoDangling'
      <3>1. Len(syms') = x /\ Len(parser') = p /\ Symbols \subseteq Symbols'
        BY <1>5, <1>7
      <3>2. /\ \A i \in 1..Len(bstack) : bstack[i] \subseteq Symbols
            /\ \A i \in 1..Len(extdefs) : extdefs[i] \in Symbols
            /\ curfn <= x
        BY SymbolFacts DEF IInv, TypeOK, NoDangling
      <3>3. \A s \in Symbols' : /\ \A k \in 1..Len(Ty(s)'.params) : Ty(s)'.params[k] \in Symbols'
                                /\ syms'[s].locals \subseteq Symbols'
        BY <2>2 DEF Ty
      <3> QED
        BY <1>0, <2>1, <2>3, <3>1, <3>2, <3>3 DEF NoDangling
    <2> QED
      BY <1>0, <1>5, <1>6, <1>7, <2>4 DEF IInv, TypeOK
  <1>10. ScopeShape' /\ DsstackShape'
    BY <1>0, <1>6, <1>7, SameShape
  <1>11. \A i \in 1..p, s \in Symbols' : Declares(i, s)' <=> IF i = p THEN s = x ELSE s \in Symbols /\ Declares(i, s)
    <2>1. \A i \in 1..p, s \in Symbols' : i # p /\ Declares(i, s) => s \in Symbols
      BY <1>1, <1>5, SymbolFacts DEF Declares, IInv, TypeOK, NoDangling
    <2> QED
      BY <1>1, <1>7, <2>1 DEF Declares, DeclaringStates
  <1>12. DeclaringOnce'
    <2>1. \A i, j \in 1..p : \A s \in Symbols' : Declares(i, s)' /\ Declares(j, s)' => i = j
      BY <1>5, <1>11 DEF IInv, DeclaringOnce
    <2>2. \A i \in 1..p : parser'[i].at = "params" =>
            \A k \in 1..Len(parser'[i].params) : parser'[i].params[k] # parser'[i].sym
      BY <1>1, <1>7 DEF IInv, DeclaringOnce
    <2> QED
      BY <1>7, <2>1, <2>2 DEF DeclaringOnce
  <1>13. DeclaringFrames'
    BY <1>1, <1>7 DEF IInv, DeclaringFrames, DeclaringStates, NoSym
  <1>14. /\ \A s \in Symbols' : InScope(s)' <=> s \in Symbols /\ InScope(s)
         /\ \A s \in Symbols' : Local(s)' <=> s \in Symbols /\ Local(s)
         /\ \A s \in Symbols' : Parameter(s)' <=> s \in Symbols /\ Parameter(s)
    <2>1. ~InScope(x)
      BY <1>1, <1>5, ScopeNames DEF InScope, NoSym
    <2>2. ~Local(x)
      BY <1>5, SymbolFacts DEF Local, IInv, TypeOK, NoDangling
    <2>3. \A s \in Symbols : ~(\E k \in 1..Len(syms[s].ty.params) : syms[s].ty.params[k] = x)
      BY <1>5, SymbolFacts DEF Ty
    <2>4. \A s \in Symbols' : InScope(s)' <=> InScope(s)
      BY <1>0 DEF InScope
    <2>5. \A s \in Symbols' : Local(s)' <=> Local(s)
      BY <1>0, <1>5, <1>8 DEF Local
    <2>6. \A s \in Symbols' : Parameter(s)' <=> \E g \in Symbols : \E k \in 1..Len(syms[g].ty.params) : syms[g].ty.params[k] = s
      BY <1>3, <1>5, <1>8 DEF Parameter, Ty
    <2> QED
      BY <1>5, <2>1, <2>2, <2>3, <2>4, <2>5, <2>6 DEF Parameter, Ty
  <1>15. DeclaringFresh'
    <2> SUFFICES ASSUME NEW s \in Symbols', Declaring(s)'
                 PROVE  /\ syms'[s].level = CurLevel'
                        /\ syms'[s].body = FALSE
                        /\ ~InScope(s)' /\ ~Parameter(s)' /\ ~Local(s)'
                        /\ syms'[s].op = "Sfunc" /\ syms'[s].ty # NoType => Op(syms'[s].ty) = "Kfun"
      BY DEF DeclaringFresh, Ty
    <2>1. CurLevel' = CurLevel
      BY <1>0 DEF CurLevel, Top
    <2>2. CASE s = x
      BY <1>5, <1>8, <1>14, <2>1, <2>2
    <2>3. CASE s # x
      <3>1. s \in Symbols /\ Declaring(s)
        BY <1>5, <1>7, <1>11, <2>3 DEF Declaring
      <3> QED
        BY <1>5, <1>14, <2>1, <3>1 DEF IInv, DeclaringFresh, Ty
    <2> QED
      BY <2>2, <2>3
  <1>16. FunctionsOK' /\ ParametersOK'
    <2>1. FunctionsOK'
      BY <1>3, <1>5, <1>8 DEF IInv, FunctionsOK, Ty
    <2>2. ASSUME NEW g \in Symbols', NEW k \in 1..Len(syms'[g].ty.params)
          PROVE  /\ syms'[syms'[g].ty.params[k]].ty # NoType
                 /\ syms'[syms'[g].ty.params[k]].level = syms'[g].level
      <3>1. g \in Symbols /\ syms'[g] = syms[g]
        BY <1>3, <1>5, <1>8, <2>2
      <3>2. syms[g].ty.params[k] \in Symbols
        BY <2>2, <3>1, SymbolFacts DEF Ty
      <3>3. /\ syms[syms[g].ty.params[k]].ty # NoType
            /\ syms[syms[g].ty.params[k]].level = syms[g].level
        BY <2>2, <3>1 DEF IInv, ParametersOK, Ty
      <3> QED
        BY <1>5, <3>1, <3>2, <3>3
    <2> QED
      BY <2>1, <2>2 DEF ParametersOK, Ty
  <1>17. InScopeOK'
    <2> SUFFICES ASSUME NEW i \in 1..Len(scopes), NEW m \in Names, scopes[i].names[m] # NoSym
                 PROVE  /\ syms'[scopes[i].names[m]].name = m
                        /\ syms'[scopes[i].names[m]].ty # NoType
                        /\ syms'[scopes[i].names[m]].level = IF i = 2 THEN 0 ELSE i - 1
      BY <1>0 DEF InScopeOK, Ty
    <2>1. syms'[scopes[i].names[m]] = syms[scopes[i].names[m]]
      BY <1>5, ScopeNames
    <2> QED
      BY <2>1 DEF IInv, InScopeOK, Ty
  <1>18. ExternalsOK'
    <2>1. \A i \in 1..Len(extdefs) : syms'[extdefs[i]] = syms[extdefs[i]]
      BY <1>5, ExternalFacts
    <2>2. curfn # NoSym => syms'[curfn] = syms[curfn] /\ parser'[1] = parser[1]
      BY <1>5, <1>7, ExternalFacts
    <2> QED
      BY <1>0, <2>1, <2>2 DEF IInv, ExternalsOK, Ty
  <1>19. ErrorsReported'
    BY <1>0, <1>3, <1>5, <1>6, <1>8 DEF IInv, ErrorsReported, Ty
  <1>20. EmissionOK'
    <2>1. \A i \in 1..Len(bstack) : \A s \in bstack[i] : s \in Symbols
      BY DEF IInv, TypeOK, NoDangling
    <2>2. ASSUME NEW i \in 1..Len(extdefs), Emittable(extdefs[i]) PROVE Emittable(extdefs[i])'
      <3>1. extdefs'[i] = extdefs[i] /\ extdefs[i] \in Symbols /\ syms'[extdefs[i]] = syms[extdefs[i]]
        BY <1>0, <1>5, ExternalFacts
      <3>2. \A k \in 1..Len(syms[extdefs[i]].ty.params) :
              syms'[syms[extdefs[i]].ty.params[k]] = syms[syms[extdefs[i]].ty.params[k]]
        BY <1>5, <3>1, SymbolFacts DEF Ty
      <3> QED
        BY <2>2, <3>1, <3>2 DEF Emittable, Ty
    <2>3. \A g \in Symbols' : \A s \in syms'[g].locals : s \in Symbols /\ g \in Symbols
      BY <1>5, <1>8, SymbolFacts
    <2> QED
      BY <1>0, <1>5, <2>1, <2>2, <2>3 DEF IInv, EmissionOK, Ty
  <1> QED
    BY <1>7, <1>9, <1>10, <1>12, <1>13, <1>15, <1>16, <1>17, <1>18, <1>19, <1>20 DEF IInv

(* What resolve returns. *)
LEMMA HoldersTop ==
  ASSUME IInv, NEW n \in Names, Holders(n) # {}
  PROVE  /\ (CHOOSE i \in Holders(n) : \A j \in Holders(n) : j <= i) \in Holders(n)
         /\ \A j \in Holders(n) : j <= CHOOSE i \in Holders(n) : \A k \in Holders(n) : k <= i
  <1>1. Holders(n) \subseteq 1..Len(scopes) /\ Len(scopes) \in Nat
    BY ScopeFacts DEF Holders
  <1>2. \E i \in Holders(n) : \A j \in Holders(n) : j <= i
    BY <1>1, HasGreatest
  <1> QED
    BY <1>2

(* A step that only reports an error or ends the compiler. *)
LEMMA QuietStep ==
  ASSUME IInv, status = "running",
         UNCHANGED <<parser, dsstack, syms, scopes, bstack, curfn, extdefs>>,
         err' \in BOOLEAN, err => err',
         status' \in {"running", "crashed", "rejected", "emitting"},
         status' = "crashed" => err',
         status' = "emitting" => ~err' /\ parser = <<>>
  PROVE  IInv'
  <1>1. TypeOK'
    BY DEF IInv, TypeOK, NoDangling, Symbols, Ty
  <1>2. ParserShape' /\ FunctionFrames' = FunctionFrames
    BY DEF IInv, ParserShape, FunctionFrames
  <1>3. ScopeShape' /\ DsstackShape'
    BY <1>2, SameShape
  <1>4. DeclaringFresh'
    BY SameFresh DEF Declaring, Declares
  <1>5. DeclaringOnce' /\ DeclaringFrames'
    BY DEF IInv, DeclaringOnce, DeclaringFrames, Declares, Symbols
  <1>6. FunctionsOK' /\ ParametersOK' /\ InScopeOK' /\ ExternalsOK'
    BY SameSymbols
  <1>7. ErrorsReported'
    BY DEF IInv, ErrorsReported, Symbols, Ty
  <1>8. EmissionOK'
    <2>1. \A i \in 1..Len(extdefs) : Emittable(extdefs[i])' <=> Emittable(extdefs[i])
      BY DEF Emittable, Ty
    <2> QED
      BY <2>1 DEF IInv, EmissionOK, Symbols, Ty
  <1> QED
    BY <1>1, <1>2, <1>3, <1>4, <1>5, <1>6, <1>7, <1>8 DEF IInv

(* semant_error is a boolean. *)
LEMMA ErrType == ASSUME IInv PROVE err \in BOOLEAN
  BY DEF IInv, TypeOK

(* make_ident keeps the invariant: it only reads the scopes. *)
LEMMA UseIdentifierInv ==
  ASSUME IInv, status = "running", NEW n \in Names, UseIdentifier(n)
  PROVE  IInv'
  <1> DEFINE s == Resolve(n)
  <1>1. /\ err' = (err \/ s = NoSym)
        /\ UNCHANGED <<parser, dsstack, syms, scopes, bstack, curfn, extdefs>>
        /\ \/ s # NoSym /\ Ty(s) = NoType /\ status' = "crashed"
           \/ status' = status
    BY DEF UseIdentifier, Crash
  <1>2. s # NoSym => Ty(s) # NoType
    <2>1. CASE Holders(n) = {}
      BY <2>1 DEF Resolve
    <2>2. CASE Holders(n) # {}
      <3>1. PICK i \in 1..Len(scopes) : s = scopes[i].names[n] \/ s = NoSym
        <4> DEFINE inner == CHOOSE h \in Holders(n) : \A j \in Holders(n) : j <= h
        <4>1. s = scopes[inner].names[n]
          BY <2>2 DEF Resolve
        <4>2. inner \in Holders(n)
          BY <2>2, HoldersTop
        <4> QED
          BY <4>1, <4>2 DEF Holders
      <3> QED
        BY <3>1 DEF IInv, InScopeOK
    <2> QED
      BY <2>1, <2>2
  <1> HIDE DEF s
  <1> QED
    BY <1>1, <1>2, QuietStep, ErrType

(* make_return keeps the invariant: all it changes is semant_error. *)
LEMMA ReturnInv ==
  ASSUME IInv, status = "running", NEW withvalue \in BOOLEAN, Return(withvalue)
  PROVE  IInv'
  <1>1. /\ UNCHANGED <<parser, dsstack, syms, scopes, bstack, curfn, extdefs, status>>
        /\ err' \in BOOLEAN /\ (err => err')
    BY ErrType DEF Return
  <1> QED
    BY <1>1, QuietStep

(* The end of the file keeps the invariant: emission starts only without   *)
(* errors.                                                                 *)
LEMMA EndOfFileInv ==
  ASSUME IInv, status = "running", EndOfFile
  PROVE  IInv'
  <1>1. /\ UNCHANGED <<parser, dsstack, syms, scopes, bstack, curfn, extdefs, err>>
        /\ parser = <<>>
        /\ status' = IF err THEN "rejected" ELSE "emitting"
    BY DEF EndOfFile
  <1> QED
    BY <1>1, QuietStep, ErrType

(* What make_fdecl does to the parser. *)
LEMMA MakeFdeclFrames ==
  ASSUME IInv, parser # <<>>, Top(parser).at = "params",
         parser' = SetTop(parser, [Top(parser) EXCEPT !.at = "declarator"]),
         UNCHANGED <<bstack, curfn>>
  PROVE  /\ parser' \in Seq(Frames)
         /\ Len(parser') = Len(parser)
         /\ \A i \in 1..Len(parser) : parser'[i].sym = parser[i].sym /\ parser'[i].params = parser[i].params
         /\ FunctionFrames' = FunctionFrames
         /\ ParserShape'
         /\ DeclaringFrames'
         /\ curfn # NoSym => parser'[1] = parser[1]
         /\ \A i \in 1..Len(parser) :
              /\ parser'[i].sym <= Len(syms)
              /\ \A k \in 1..Len(parser'[i].params) : parser'[i].params[k] \in Symbols
              /\ parser'[i].at = "params" =>
                   \A k \in 1..Len(parser'[i].params) : parser'[i].params[k] # parser'[i].sym
         /\ \A i \in 1..Len(parser) : \A x : Declares(i, x)' <=> IF i = Len(parser) THEN x = Top(parser).sym
                                                           ELSE Declares(i, x)
  <1> DEFINE n  == Len(parser)
             f  == [Top(parser) EXCEPT !.at = "declarator"]
  <1>1. /\ f \in Frames /\ f.at = "declarator" /\ f.ctx = Top(parser).ctx /\ f.params = Top(parser).params
        /\ f.sym = Top(parser).sym /\ Top(parser) = parser[n] /\ n \in Nat \ {0} /\ f.at \in DeclarationStates
        /\ Top(parser).at \in DeclarationStates /\ Top(parser).at \in DeclaringStates
    <2>1. Top(parser) \in Frames /\ Top(parser) = parser[n] /\ n \in Nat \ {0}
      BY TopFacts
    <2>2. {"declarator", "params"} \subseteq DeclarationStates /\ "params" \in DeclaringStates
      BY DEF DeclarationStates, DeclaringStates
    <2> QED
      BY <2>1, <2>2 DEF Frames
  <1>2. /\ parser' \in Seq(Frames)
        /\ Len(parser') = n
        /\ \A i \in 1..n : parser'[i] = IF i = n THEN f ELSE parser[i]
        /\ FunctionFrames' = FunctionFrames
        /\ ParserShape'
        /\ curfn # NoSym => parser'[1] = parser[1]
    BY <1>1, TopReplaced
  <1> HIDE DEF f
  <1>3. \A i \in 1..n : \A x : Declares(i, x)' <=> IF i = n THEN x = Top(parser).sym ELSE Declares(i, x)
    BY <1>1, <1>2 DEF Declares, DeclaringStates
  <1>4. DeclaringFrames'
    BY <1>1, <1>2 DEF IInv, DeclaringFrames, DeclaringStates
  <1>5. \A i \in 1..n : parser'[i].sym = parser[i].sym /\ parser'[i].params = parser[i].params
    BY <1>1, <1>2
  <1>6. \A i \in 1..n :
              /\ parser'[i].sym <= Len(syms)
              /\ \A k \in 1..Len(parser'[i].params) : parser'[i].params[k] \in Symbols
    BY <1>5 DEF IInv, TypeOK, NoDangling
  <1>7. \A i \in 1..n : parser'[i].at = "params" => parser[i].at = "params"
    BY <1>1, <1>2
  <1>8. \A i \in 1..n : parser'[i].at = "params" =>
            \A k \in 1..Len(parser'[i].params) : parser'[i].params[k] # parser'[i].sym
    BY <1>5, <1>7 DEF IInv, DeclaringOnce
  <1> QED
    BY <1>2, <1>3, <1>4, <1>5, <1>6, <1>8

(* What make_fdecl does to the symbols, whether it reports an error or     *)
(* not: only the declarator and its parameters change, and the type of the *)
(* declarator has the parameters q.                                        *)
LEMMA MakeFdeclRetypes ==
  ASSUME IInv, status = "running", parser # <<>>, Top(parser).at = "params",
         parser' = SetTop(parser, [Top(parser) EXCEPT !.at = "declarator"]),
         UNCHANGED <<dsstack, scopes, bstack, curfn, extdefs, status>>,
         err' \in BOOLEAN, err => err',
         syms' \in Seq(SymbolRecords), Len(syms') = Len(syms),
         NEW q \in {<<>>, Top(parser).params},
         \A x \in Symbols : x # Top(parser).sym
                            /\ (\A k \in 1..Len(Top(parser).params) : Top(parser).params[k] # x)
                            => syms'[x] = syms[x],
         \A x \in Symbols : /\ syms'[x].name = syms[x].name
                            /\ syms'[x].level = syms[x].level
                            /\ syms'[x].body = syms[x].body
                            /\ syms'[x].locals = syms[x].locals
                            /\ Op(syms'[x].ty) = "Kfun" => syms'[x].op = "Sfunc"
                            /\ syms'[x].ty.params = IF x = Top(parser).sym THEN q
                                                    ELSE syms[x].ty.params
                            /\ syms'[x].ty = NoType => err',
         \A k \in 1..Len(q) : syms'[q[k]].ty # NoType,
         syms'[Top(parser).sym].ty # NoType => Op(syms'[Top(parser).sym].ty) = "Kfun"
  PROVE  IInv'
  <1> DEFINE n  == Len(parser)
             s  == Top(parser).sym
             ps == Top(parser).params
  <1>1. Top(parser) = parser[n] /\ n \in Nat \ {0} /\ Top(parser).at \in DeclaringStates
    BY TopFacts DEF DeclaringStates
  <1>2. /\ s \in Symbols /\ Declaring(s) /\ Declares(n, s) /\ Symbols' = Symbols
        /\ \A k \in 1..Len(ps) : /\ ps[k] \in Symbols /\ ps[k] # s
                                 /\ Declares(n, ps[k]) /\ Declaring(ps[k])
    <2>1. s \in Symbols /\ Declares(n, s) /\ Declaring(s)
      BY <1>1, TopSym
    <2>2. ASSUME NEW k \in 1..Len(ps)
          PROVE  ps[k] \in Symbols /\ ps[k] # s /\ Declares(n, ps[k]) /\ Declaring(ps[k])
      <3>1. parser[n].params[k] \in Symbols /\ parser[n].params[k] # parser[n].sym
        BY <1>1 DEF IInv, TypeOK, NoDangling, DeclaringOnce
      <3>2. Declares(n, ps[k])
        BY <1>1 DEF Declares
      <3> QED
        BY <1>1, <3>1, <3>2 DEF Declaring
    <2> QED
      BY <2>1, <2>2 DEF Symbols
  <1>3. \A x \in Symbols : ~Declaring(x) => syms'[x] = syms[x]
    BY <1>2
  <1>4. /\ parser' \in Seq(Frames)
        /\ Len(parser') = n
        /\ \A i \in 1..n : parser'[i].sym = parser[i].sym /\ parser'[i].params = parser[i].params
        /\ FunctionFrames' = FunctionFrames
        /\ ParserShape'
        /\ DeclaringFrames'
        /\ curfn # NoSym => parser'[1] = parser[1]
        /\ \A i \in 1..n :
             /\ parser'[i].sym <= Len(syms)
             /\ \A k \in 1..Len(parser'[i].params) : parser'[i].params[k] \in Symbols
             /\ parser'[i].at = "params" =>
                  \A k \in 1..Len(parser'[i].params) : parser'[i].params[k] # parser'[i].sym
    BY MakeFdeclFrames
  <1>5. \A k \in 1..Len(q) : k \in 1..Len(ps) /\ q[k] = ps[k]
    BY EmptySeq
  <1>6. TypeOK'
    <2>1. \A x \in Symbols : /\ \A k \in 1..Len(syms'[x].ty.params) : syms'[x].ty.params[k] \in Symbols
                             /\ syms'[x].locals \subseteq Symbols
      BY <1>2, <1>5, SymbolFacts DEF Ty
    <2>3. NoDangling'
      BY <1>2, <1>4, <2>1 DEF IInv, TypeOK, NoDangling, Ty
    <2> QED
      BY <1>4, <2>3 DEF IInv, TypeOK
  <1>7. ScopeShape' /\ DsstackShape'
    BY <1>4, SameShape
  <1>8. \A i \in 1..n, x \in Symbols : Declares(i, x)' <=> IF i = n THEN x = s ELSE Declares(i, x)
    BY MakeFdeclFrames
  <1>9. /\ \A i, j \in 1..Len(parser') : \A x \in Symbols' : Declares(i, x)' /\ Declares(j, x)' => i = j
        /\ \A x \in Symbols : Declaring(x)' => Declaring(x)
    <2>1. \A i \in 1..n, x \in Symbols : Declares(i, x)' => Declares(i, x)
      BY <1>2, <1>8
    <2> QED
      BY <1>4, <2>1, SameDeclares
  <1>10. DeclaringOnce'
    BY <1>4, <1>9 DEF DeclaringOnce
  <1>11. /\ InScopeOK' /\ ExternalsOK' /\ EmissionOK'
         /\ CurLevel' = CurLevel
         /\ \A x \in Symbols : (InScope(x)' <=> InScope(x)) /\ (Local(x)' <=> Local(x))
    BY <1>3, <1>4, DeclaringRetyped
  <1>12. \A x \in Symbols : Parameter(x)' => Parameter(x) \/ \E k \in 1..Len(ps) : ps[k] = x
    BY <1>2, <1>5 DEF Parameter, Ty
  <1>13. \A x \in Symbols : Declaring(x)' => x = s \/ (syms'[x] = syms[x] /\ \A k \in 1..Len(ps) : ps[k] # x)
    <2> SUFFICES ASSUME NEW x \in Symbols, Declaring(x)', x # s
                 PROVE  \A k \in 1..Len(ps) : ps[k] # x
      OBVIOUS
    <2>1. PICK i \in 1..n : i # n /\ Declares(i, x)
      BY <1>4, <1>8 DEF Declaring
    <2>2. ~Declares(n, x)
      BY <1>1, <2>1 DEF IInv, DeclaringOnce
    <2> QED
      BY <1>2, <2>2
  <1>14. DeclaringFresh'
    <2> SUFFICES ASSUME NEW x \in Symbols, Declaring(x)'
                 PROVE  /\ syms'[x].level = CurLevel'
                        /\ syms'[x].body = FALSE
                        /\ ~InScope(x)' /\ ~Parameter(x)' /\ ~Local(x)'
                        /\ syms'[x].op = "Sfunc" /\ syms'[x].ty # NoType => Op(syms'[x].ty) = "Kfun"
      BY <1>2 DEF DeclaringFresh, Ty
    <2>1. /\ syms[x].level = CurLevel
          /\ syms[x].body = FALSE
          /\ ~InScope(x) /\ ~Parameter(x) /\ ~Local(x)
          /\ syms[x].op = "Sfunc" /\ syms[x].ty # NoType => Op(syms[x].ty) = "Kfun"
      BY <1>9 DEF IInv, DeclaringFresh, Ty
    <2>2. \A k \in 1..Len(ps) : ps[k] # x
      BY <1>2, <1>13
    <2>3. syms'[x].op = "Sfunc" /\ syms'[x].ty # NoType => Op(syms'[x].ty) = "Kfun"
      BY <1>13, <2>1
    <2> QED
      BY <1>11, <1>12, <2>1, <2>2, <2>3
  <1>15. FunctionsOK'
    BY <1>2 DEF FunctionsOK, Ty
  <1>16. ParametersOK'
    <2> SUFFICES ASSUME NEW g \in Symbols, NEW k \in 1..Len(syms'[g].ty.params)
                 PROVE  /\ syms'[syms'[g].ty.params[k]].ty # NoType
                        /\ syms'[syms'[g].ty.params[k]].level = syms'[g].level
      BY <1>2 DEF ParametersOK, Ty
    <2>1. CASE g = s
      <3>1. syms'[g].ty.params = q /\ k \in 1..Len(ps) /\ q[k] = ps[k]
        BY <1>2, <1>5, <2>1
      <3>2. ps[k] \in Symbols /\ Declaring(ps[k])
        BY <1>2, <3>1
      <3>3. syms[ps[k]].level = CurLevel /\ syms[s].level = CurLevel
        BY <1>2, <3>2 DEF IInv, DeclaringFresh
      <3> QED
        BY <1>2, <2>1, <3>1, <3>2, <3>3
    <2>2. CASE g # s
      <3>1. syms'[g].ty.params = syms[g].ty.params
        BY <2>2
      <3> DEFINE y == syms[g].ty.params[k]
      <3>2. y \in Symbols /\ Parameter(y) /\ syms[y].ty # NoType /\ syms[y].level = syms[g].level
        BY <3>1, SymbolFacts DEF IInv, ParametersOK, Parameter, Ty
      <3>3. syms'[y] = syms[y]
        BY <1>3, <3>2 DEF IInv, DeclaringFresh
      <3> QED
        BY <3>1, <3>2, <3>3
    <2> QED
      BY <2>1, <2>2
  <1>17. ErrorsReported'
    BY <1>2 DEF IInv, ErrorsReported, Ty
  <1> QED
    BY <1>4, <1>6, <1>7, <1>10, <1>11, <1>14, <1>15, <1>16, <1>17 DEF IInv

(* functy returns a function type with the parameters it was given. *)
LEMMA FunctionTypeType ==
  ASSUME NEW t \in TypeRecords, NEW ps \in Seq(Nat)
  PROVE  /\ FunctionType(t, ps) \in TypeRecords
         /\ FunctionType(t, ps).params = ps
         /\ FunctionType(t, ps) # NoType
         /\ Op(FunctionType(t, ps)) = "Kfun"
  BY DEF FunctionType, ObjectType, TypeRecords, Cores, NoType, TypeOf, Op

(* adjust keeps the parameters of a type, and returns no function. *)
LEMMA AdjustType ==
  ASSUME NEW t \in TypeRecords
  PROVE  /\ Adjust(t) \in TypeRecords
         /\ Adjust(t).params = t.params
         /\ Adjust(t) = NoType => t = NoType
         /\ Op(Adjust(t)) # "Kfun"
  <1>1. CASE Op(t) = "Kfun"
    <2>1. Adjust(t) = [t EXCEPT !.depth = 1]
      BY <1>1 DEF Adjust
    <2>2. [t EXCEPT !.depth = 1] \in TypeRecords
      BY DEF TypeRecords
    <2>3. [t EXCEPT !.depth = 1].depth = 1 /\ [t EXCEPT !.depth = 1].params = t.params
      BY DEF TypeRecords
    <2> QED
      BY <2>1, <2>2, <2>3 DEF Op, NoType, TypeOf
  <1>2. CASE Op(t) # "Kfun"
    BY <1>2 DEF Adjust
  <1> QED
    BY <1>1, <1>2

(* make_fdecl keeps the invariant: the symbols it changes, the function    *)
(* and its parameters, are all still being declared in the same frame.     *)
LEMMA MakeFdeclInv ==
  ASSUME IInv, status = "running", MakeFdecl
  PROVE  IInv'
  <1> DEFINE s  == Top(parser).sym
             ps == Top(parser).params
             n  == Len(parser)
             unknown == \/ Ty(s) = NoType
                        \/ Op(Ty(s)) # "Kfun" /\ \E i \in 1..Len(ps) : Ty(ps[i]) = NoType
             parsed  == /\ parser' = SetTop(parser, [Top(parser) EXCEPT !.at = "declarator"])
                        /\ UNCHANGED <<dsstack, scopes, bstack, curfn, extdefs, status>>
             new(x)  == IF x = s
                        THEN [syms[s] EXCEPT !.op = "Sfunc", !.ty = FunctionType(Ty(s), ps)]
                        ELSE IF \E i \in 1..Len(ps) : ps[i] = x
                        THEN [syms[x] EXCEPT !.ty = Adjust(@)]
                        ELSE syms[x]
  <1>0. /\ parser # <<>> /\ Top(parser).at = "params"
        /\ \/ unknown /\ Crash /\ UNCHANGED err
           \/ /\ Op(Ty(s)) = "Kfun" /\ parsed
              /\ syms' = [syms EXCEPT ![s].ty = NoType]
              /\ err' = TRUE
           \/ /\ Ty(s) # NoType /\ Op(Ty(s)) # "Kfun" /\ parsed
              /\ \A i \in 1..Len(ps) : Ty(ps[i]) # NoType
              /\ syms' = [x \in 1..Len(syms) |-> new(x)]
              /\ UNCHANGED err
    BY DEF MakeFdecl, In
  <1>1. /\ s \in Symbols
        /\ Top(parser) = parser[n] /\ n \in 1..Len(parser)
        /\ ps \in Seq(Nat)
        /\ \A k \in 1..Len(ps) : ps[k] \in Symbols /\ ps[k] # s
    <2>1. s \in Symbols /\ Top(parser) = parser[n] /\ n \in Nat \ {0} /\ Top(parser) \in Frames
      BY <1>0, TopSym, TopFacts DEF DeclaringStates
    <2>2. n \in 1..n
      BY <2>1
    <2>3. \A k \in 1..Len(ps) : ps[k] \in Symbols /\ ps[k] # s
      BY <1>0, <2>1, <2>2 DEF IInv, TypeOK, NoDangling, DeclaringOnce
    <2> QED
      BY <2>1, <2>2, <2>3 DEF Frames
  <1>2. CASE unknown /\ Crash /\ UNCHANGED err
    <2>1. err
      BY <1>1, <1>2 DEF IInv, ErrorsReported
    <2> QED
      BY <1>2, <2>1, QuietStep, ErrType DEF Crash
  <1>3. CASE /\ Op(Ty(s)) = "Kfun" /\ parsed
             /\ syms' = [syms EXCEPT ![s].ty = NoType]
             /\ err' = TRUE
    <2> DEFINE e == [syms[s] EXCEPT !.ty = NoType]
    <2>1. NoType \in TypeRecords /\ NoType.params = <<>> /\ Op(NoType) # "Kfun"
      BY EmptySeq DEF NoType, TypeOf, NoReturn, ObjectType, TypeRecords, Cores, Op
    <2>2. syms[s] \in SymbolRecords
      BY <1>1, SymbolFacts
    <2>3. /\ e \in SymbolRecords /\ e.ty = NoType /\ e.op = syms[s].op /\ e.name = syms[s].name
          /\ e.level = syms[s].level /\ e.body = syms[s].body /\ e.locals = syms[s].locals
      BY <2>1, <2>2 DEF SymbolRecords
    <2>4. syms' = [syms EXCEPT ![s] = e]
      BY <1>3
    <2> HIDE DEF e
    <2>5. /\ syms' \in Seq(SymbolRecords)
          /\ Len(syms') = Len(syms)
          /\ \A x \in Symbols : syms'[x] = IF x = s THEN e ELSE syms[x]
      BY <1>1, <2>3, <2>4, ExceptSeq DEF IInv, TypeOK, Symbols
    <2>6. \A x \in Symbols : /\ syms'[x].name = syms[x].name
                             /\ syms'[x].level = syms[x].level
                             /\ syms'[x].body = syms[x].body
                             /\ syms'[x].locals = syms[x].locals
                             /\ Op(syms'[x].ty) = "Kfun" => syms'[x].op = "Sfunc"
                             /\ syms'[x].ty.params = IF x = s THEN <<>> ELSE syms[x].ty.params
                             /\ syms'[x].ty = NoType => err'
      BY <1>3, <2>1, <2>3, <2>5 DEF IInv, FunctionsOK, Ty
    <2>7. syms'[s].ty = NoType
      BY <1>1, <2>3, <2>5
    <2> DEFINE q == <<>>
    <2>8. /\ q \in {<<>>, ps}
          /\ \A k \in 1..Len(q) : syms'[q[k]].ty # NoType
          /\ \A x \in Symbols : syms'[x].ty.params = IF x = s THEN q ELSE syms[x].ty.params
      BY <2>6
    <2> HIDE DEF q
    <2> QED
      BY <1>0, <1>3, <2>5, <2>6, <2>7, <2>8, MakeFdeclRetypes
  <1>4. CASE /\ Ty(s) # NoType /\ Op(Ty(s)) # "Kfun" /\ parsed
             /\ \A i \in 1..Len(ps) : Ty(ps[i]) # NoType
             /\ syms' = [x \in 1..Len(syms) |-> new(x)]
             /\ UNCHANGED err
    <2> DEFINE ft == FunctionType(Ty(s), ps)
               e  == [syms[s] EXCEPT !.op = "Sfunc", !.ty = ft]
    <2>1. ft \in TypeRecords /\ ft.params = ps /\ ft # NoType /\ Op(ft) = "Kfun"
      BY <1>1, SymbolFacts, FunctionTypeType
    <2> HIDE DEF ft
    <2>2. /\ e \in SymbolRecords /\ e.ty = ft /\ e.op = "Sfunc" /\ e.name = syms[s].name
          /\ e.level = syms[s].level /\ e.body = syms[s].body /\ e.locals = syms[s].locals
      <3>1. syms[s] \in SymbolRecords
        BY <1>1, SymbolFacts
      <3> QED
        BY <2>1, <3>1 DEF SymbolRecords
    <2>3. new(s) = e
      BY DEF ft
    <2> HIDE DEF e
    <2>4. ASSUME NEW x \in Symbols, x # s, \E i \in 1..Len(ps) : ps[i] = x
          PROVE  /\ new(x) \in SymbolRecords /\ new(x).name = syms[x].name
                 /\ new(x).level = syms[x].level /\ new(x).body = syms[x].body
                 /\ new(x).locals = syms[x].locals
                 /\ new(x).ty.params = syms[x].ty.params
                 /\ Op(new(x).ty) # "Kfun" /\ new(x).ty # NoType
      <3>1. new(x) = [syms[x] EXCEPT !.ty = Adjust(@)]
        BY <2>4
      <3>2. syms[x] \in SymbolRecords /\ syms[x].ty \in TypeRecords /\ syms[x].ty # NoType
        BY <1>4, <2>4, SymbolFacts DEF Ty
      <3> HIDE DEF new
      <3> DEFINE a == Adjust(syms[x].ty)
      <3>3. /\ a \in TypeRecords /\ a.params = syms[x].ty.params /\ a # NoType /\ Op(a) # "Kfun"
        BY <3>2, AdjustType
      <3>4. new(x) = [syms[x] EXCEPT !.ty = a]
        BY <3>1
      <3> HIDE DEF a
      <3> QED
        BY <3>2, <3>3, <3>4 DEF SymbolRecords
    <2>5. ASSUME NEW x \in Symbols, x # s, ~\E i \in 1..Len(ps) : ps[i] = x
          PROVE  new(x) = syms[x]
      BY <2>5
    <2>6. syms' = [x \in Symbols |-> new(x)]
      BY <1>4 DEF Symbols
    <2>7. \A x \in Symbols : new(x) \in SymbolRecords
      BY <2>2, <2>3, <2>4, <2>5, SymbolFacts
    <2> HIDE DEF new
    <2>8. /\ syms' \in Seq(SymbolRecords)
          /\ Len(syms') = Len(syms)
          /\ \A x \in Symbols : syms'[x] = new(x)
      BY <2>6, <2>7, SymbolFacts DEF Symbols
    <2>9. \A x \in Symbols : x # s /\ (\A k \in 1..Len(ps) : ps[k] # x) => syms'[x] = syms[x]
      BY <2>5, <2>8
    <2>10. ASSUME NEW x \in Symbols
           PROVE  /\ syms'[x].name = syms[x].name
                  /\ syms'[x].level = syms[x].level
                  /\ syms'[x].body = syms[x].body
                  /\ syms'[x].locals = syms[x].locals
                  /\ Op(syms'[x].ty) = "Kfun" => syms'[x].op = "Sfunc"
                  /\ syms'[x].ty.params = IF x = s THEN ps ELSE syms[x].ty.params
                  /\ syms'[x].ty = NoType => err'
      <3>1. CASE x = s
        BY <2>1, <2>2, <2>3, <2>8, <3>1
      <3>2. CASE x # s /\ \E i \in 1..Len(ps) : ps[i] = x
        BY <2>4, <2>8, <3>2
      <3>3. CASE x # s /\ ~\E i \in 1..Len(ps) : ps[i] = x
        BY <1>4, <2>5, <2>8, <3>3 DEF IInv, FunctionsOK, ErrorsReported, Ty
      <3> QED
        BY <3>1, <3>2, <3>3
    <2>11. \A k \in 1..Len(ps) : syms'[ps[k]].ty # NoType
      BY <1>1, <2>4, <2>8
    <2>12. Op(syms'[s].ty) = "Kfun"
      BY <1>1, <2>1, <2>2, <2>3, <2>8
    <2> DEFINE q == ps
    <2>13. /\ q \in {<<>>, ps}
           /\ \A k \in 1..Len(q) : syms'[q[k]].ty # NoType
           /\ \A x \in Symbols : syms'[x].ty.params = IF x = s THEN q ELSE syms[x].ty.params
      BY <2>10, <2>11
    <2> HIDE DEF q
    <2> QED
      BY <1>0, <1>4, <2>8, <2>9, <2>10, <2>12, <2>13, MakeFdeclRetypes, ErrType
  <1> QED
    BY <1>0, <1>2, <1>3, <1>4

(* The semicolon of a declaration keeps the invariant: its frame and its   *)
(* declspec go together.                                                   *)
LEMMA EndDeclarationInv ==
  ASSUME IInv, status = "running", EndDeclaration
  PROVE  IInv'
  <1> DEFINE n == Len(parser)
             d == Len(dsstack)
  <1>0. /\ parser' = Pop(parser)
        /\ dsstack' = Pop(dsstack)
        /\ UNCHANGED <<syms, scopes, bstack, curfn, extdefs, status>>
        /\ err' \in BOOLEAN /\ (err => err')
        /\ parser # <<>> /\ Top(parser).at \in DeclarationStates \ DeclaringStates
    BY ErrType DEF EndDeclaration, In, DeclarationStates, DeclaringStates
  <1>1. /\ Top(parser) = parser[n] /\ n \in Nat \ {0} /\ FunctionFrames < n /\ FunctionFrames \in Nat
        /\ d \in Nat \ {0} /\ dsstack # <<>>
    BY <1>0, TopFacts, DsstackFacts, ScopeFacts
  <1>2. /\ parser' \in Seq(Frames)
        /\ Len(parser') = n - 1
        /\ \A i \in 1..(n - 1) : parser'[i] = parser[i]
    BY <1>0, PopSeq DEF IInv, TypeOK
  <1>3. /\ dsstack' \in Seq([ts : SpecifierSets, empty : BOOLEAN])
        /\ Len(dsstack') = d - 1
        /\ \A i \in 1..(d - 1) : dsstack'[i] = dsstack[i]
    BY <1>0, <1>1, PopSeq DEF IInv, TypeOK
  <1>4. FunctionFrames' = FunctionFrames
    BY <1>0 DEF FunctionFrames
  <1>5. TypeOK'
    <2>1. Len(parser') \in Nat /\ \A i \in 1..Len(parser') : i \in 1..n /\ parser'[i] = parser[i]
      BY <1>1, <1>2
    <2>2. NoDangling'
      BY <1>0, <2>1 DEF IInv, TypeOK, NoDangling, Symbols, Ty
    <2> QED
      BY <1>0, <1>2, <1>3, <2>2 DEF IInv, TypeOK
  <1>6. curfn # NoSym => n > 1 /\ parser'[1] = parser[1]
    BY <1>1, <1>2, ScopeFacts DEF FunctionFrames
  <1>7. ParserShape'
    BY <1>0, <1>1, <1>2, <1>4, <1>6 DEF IInv, ParserShape
  <1>8. ScopeShape'
    BY <1>0, <1>4 DEF IInv, ScopeShape
  <1>9. DsstackShape'
    BY <1>1, <1>2, <1>3, <1>4 DEF IInv, DsstackShape
  <1>10. \A i \in 1..(n - 1) : \A s : Declares(i, s)' <=> Declares(i, s)
    BY <1>2 DEF Declares
  <1>11. DeclaringFresh'
    BY <1>0, <1>1, <1>2, <1>10, SameFresh DEF Declaring
  <1>12. DeclaringOnce' /\ DeclaringFrames'
    BY <1>0, <1>1, <1>2, <1>10 DEF IInv, DeclaringOnce, DeclaringFrames, Symbols
  <1>13. FunctionsOK' /\ ParametersOK' /\ InScopeOK' /\ ExternalsOK'
    BY <1>0, <1>6, SameSymbols
  <1>14. ErrorsReported'
    BY <1>0, <1>1, <1>3 DEF IInv, ErrorsReported, Symbols, Ty
  <1>15. EmissionOK'
    BY <1>0, SameEmission
  <1> QED
    BY <1>5, <1>7, <1>8, <1>9, <1>11, <1>12, <1>13, <1>14, <1>15 DEF IInv

(* The end of a parameter keeps the invariant: its symbol moves from its   *)
(* own frame to the list of the frame below.                               *)
LEMMA EndParameterInv ==
  ASSUME IInv, status = "running", EndParameter
  PROVE  IInv'
  <1> DEFINE n == Len(parser)
             d == Len(dsstack)
             s == Top(parser).sym
  <1>m. PICK m : m = n - 1
    OBVIOUS
  <1> DEFINE list == parser[m]
             g == [list EXCEPT !.params = Append(@, s)]
  <1>0. /\ parser' = SetTop(Pop(parser), g)
        /\ dsstack' = Pop(dsstack)
        /\ UNCHANGED <<syms, scopes, bstack, curfn, extdefs, err, status>>
        /\ parser # <<>> /\ Top(parser).at \in {"declarator", "pointer"}
        /\ Top(parser).ctx = "param"
    BY <1>m DEF EndParameter, In
  <1>1. /\ Top(parser) = parser[n] /\ n \in Nat \ {0} /\ FunctionFrames < n /\ FunctionFrames \in Nat
        /\ d \in Nat \ {0} /\ dsstack # <<>>
        /\ s \in Symbols /\ Declares(n, s) /\ Declaring(s)
    <2>1. Top(parser).at \in DeclarationStates /\ Top(parser).at \in DeclaringStates
      BY <1>0 DEF DeclarationStates, DeclaringStates
    <2> QED
      BY <1>0, <2>1, TopFacts, DsstackFacts, ScopeFacts, TopSym
  <1>2. /\ FunctionFrames < m /\ m \in 1..n /\ m \in Nat \ {0} /\ list.at = "params"
        /\ n = m + 1 /\ m # n /\ m < n /\ \A i \in 1..m : i \in 1..n /\ i # n
    <2>1. FunctionFrames + 1 < n
      BY <1>0, <1>1 DEF IInv, ParserShape
    <2>2. /\ FunctionFrames < m /\ m \in 1..n /\ m \in Nat \ {0} /\ m < n
          /\ n = m + 1 /\ m # n /\ \A i \in 1..m : i \in 1..n /\ i # n
      BY <1>m, <1>1, <2>1
    <2>3. list.at = "params"
      BY <1>1, <2>2 DEF IInv, ParserShape
    <2> QED
      BY <2>2, <2>3
  <1>3. /\ g \in Frames /\ g.at = "params" /\ g.ctx = list.ctx /\ g.sym = list.sym
        /\ Len(g.params) = Len(list.params) + 1
        /\ \A k \in 1..(Len(list.params) + 1) : g.params[k] = IF k = Len(list.params) + 1 THEN s ELSE list.params[k]
        /\ Len(list.params) \in Nat
    <2>1. list \in Frames
      BY <1>2, ElementOfSeq DEF IInv, TypeOK
    <2>2. list.params \in Seq(Nat) /\ s \in Nat
      BY <1>1, <2>1, SymbolFacts DEF Frames, Symbols
    <2> DEFINE ps == Append(list.params, s)
    <2>3. /\ ps \in Seq(Nat) /\ Len(ps) = Len(list.params) + 1
          /\ \A k \in 1..(Len(list.params) + 1) : ps[k] = IF k = Len(list.params) + 1 THEN s ELSE list.params[k]
      BY <2>2, AppendSeq
    <2>4. g = [list EXCEPT !.params = ps]
      OBVIOUS
    <2> HIDE DEF ps, g
    <2>5. g \in Frames /\ g.at = list.at /\ g.ctx = list.ctx /\ g.sym = list.sym /\ g.params = ps
      BY <2>1, <2>3, <2>4 DEF Frames
    <2>6. Len(list.params) \in Nat
      BY <2>2
    <2> QED
      BY <1>2, <2>3, <2>5, <2>6
  <1> HIDE DEF g
  <1>4. /\ parser' \in Seq(Frames)
        /\ Len(parser') = m
        /\ \A i \in 1..m : parser'[i] = IF i = m THEN g ELSE parser[i]
    <2>1. /\ Pop(parser) \in Seq(Frames)
          /\ Len(Pop(parser)) = m
          /\ \A i \in 1..m : Pop(parser)[i] = parser[i]
      BY <1>0, PopSeq, <1>m DEF IInv, TypeOK
    <2> DEFINE q == Pop(parser)
    <2>2. q \in Seq(Frames) /\ Len(q) = m /\ q # <<>> /\ \A i \in 1..m : q[i] = parser[i]
      BY <1>2, <2>1
    <2>3. parser' = SetTop(q, g)
      BY <1>0
    <2> HIDE DEF q
    <2>4. /\ parser' \in Seq(Frames)
          /\ Len(parser') = Len(q)
          /\ \A i \in 1..Len(q) : parser'[i] = IF i = Len(q) THEN g ELSE q[i]
      <3>1. g \in Frames
        BY <1>3
      <3> QED
        BY <2>2, <2>3, <3>1, SetTopSeq
    <2> QED
      BY <2>2, <2>4
  <1>5. /\ dsstack' \in Seq([ts : SpecifierSets, empty : BOOLEAN])
        /\ Len(dsstack') = d - 1
        /\ \A i \in 1..(d - 1) : dsstack'[i] = dsstack[i]
    BY <1>0, <1>1, PopSeq DEF IInv, TypeOK
  <1>6. FunctionFrames' = FunctionFrames /\ Symbols' = Symbols
    BY <1>0 DEF FunctionFrames, Symbols
  <1>7. TypeOK'
    <2>1. \A i \in 1..n : /\ parser[i].sym <= Len(syms)
                          /\ \A k \in 1..Len(parser[i].params) : parser[i].params[k] \in Symbols
      BY DEF IInv, TypeOK, NoDangling
    <2>2. \A k \in 1..Len(g.params) : g.params[k] \in Symbols
      BY <1>1, <1>2, <1>3, <2>1
    <2>3. \A i \in 1..m : /\ parser'[i].sym <= Len(syms)
                                /\ \A k \in 1..Len(parser'[i].params) : parser'[i].params[k] \in Symbols
      BY <1>1, <1>2, <1>3, <1>4, <2>1, <2>2
    <2>4. NoDangling'
      BY <1>0, <1>4, <1>6, <2>3 DEF IInv, TypeOK, NoDangling, Ty
    <2> QED
      BY <1>0, <1>4, <1>5, <2>4 DEF IInv, TypeOK
  <1>8. curfn # NoSym => m > 1 /\ parser'[1] = parser[1]
    BY <1>1, <1>2, <1>4, ScopeFacts DEF FunctionFrames
  <1>9. ParserShape'
    BY <1>0, <1>1, <1>2, <1>3, <1>4, <1>6, <1>8 DEF IInv, ParserShape, DeclarationStates
  <1>10. ScopeShape'
    BY <1>0, <1>6 DEF IInv, ScopeShape
  <1>11. DsstackShape'
    BY <1>1, <1>2, <1>4, <1>5, <1>6 DEF IInv, DsstackShape
  <1>12. \A i \in 1..m : \A x : Declares(i, x)' <=> Declares(i, x) \/ (i = m /\ x = s)
    <2>1. ASSUME NEW x PROVE Declares(m, x)' <=> Declares(m, x) \/ x = s
      <3>1. Declares(m, x) <=> list.sym = x \/ \E k \in 1..Len(list.params) : list.params[k] = x
        BY <1>2 DEF Declares, DeclaringStates
      <3>2. Declares(m, x)' <=> g.sym = x \/ \E k \in 1..Len(g.params) : g.params[k] = x
        BY <1>2, <1>3, <1>4 DEF Declares, DeclaringStates
      <3>3. (\E k \in 1..Len(g.params) : g.params[k] = x) <=> x = s \/ \E k \in 1..Len(list.params) : list.params[k] = x
        <4>1. Len(g.params) \in 1..Len(g.params) /\ g.params[Len(g.params)] = s
          BY <1>3
        <4>2. \A k \in 1..Len(list.params) : k \in 1..Len(g.params) /\ g.params[k] = list.params[k]
          BY <1>3
        <4>3. ASSUME NEW k \in 1..Len(g.params)
              PROVE  g.params[k] = s \/ (k \in 1..Len(list.params) /\ g.params[k] = list.params[k])
          <5>1. k \in 1..(Len(list.params) + 1)
            BY <1>3
          <5>2. k # Len(list.params) + 1 => k \in 1..Len(list.params)
            BY <1>3, <5>1
          <5> QED
            BY <1>3, <5>1, <5>2
        <4> QED
          BY <4>1, <4>2, <4>3
      <3> QED
        BY <1>3, <3>1, <3>2, <3>3
    <2>2. ASSUME NEW i \in 1..m, i # m, NEW x PROVE Declares(i, x)' <=> Declares(i, x)
      BY <1>4, <2>2 DEF Declares
    <2> QED
      BY <2>1, <2>2
  <1>13. \A x : Declaring(x)' => Declaring(x)
    BY <1>1, <1>2, <1>4, <1>12 DEF Declaring
  <1>14. DeclaringFresh'
    BY <1>0, <1>13, SameFresh
  <1>15. \A i \in 1..m : ~Declares(i, s)
    <2>1. n \in 1..n
      BY <1>1
    <2> QED
      BY <1>1, <1>2, <2>1 DEF IInv, DeclaringOnce
  <1>16. DeclaringOnce'
    <2>1. ASSUME NEW i \in 1..m, NEW j \in 1..m, NEW x \in Symbols, Declares(i, x)', Declares(j, x)'
          PROVE  i = j
      <3>1. CASE x = s
        BY <1>12, <1>15, <2>1, <3>1
      <3>2. CASE x # s
        <4>1. Declares(i, x) /\ Declares(j, x) /\ i \in 1..n /\ j \in 1..n
          BY <1>2, <1>12, <2>1, <3>2
        <4> QED
          BY <4>1 DEF IInv, DeclaringOnce
      <3> QED
        BY <3>1, <3>2
    <2>2. list.sym # s
      <3>1. Declares(m, list.sym)
        BY <1>2 DEF Declares, DeclaringStates
      <3> QED
        BY <1>2, <1>15, <3>1
    <2>3. \A k \in 1..Len(list.params) : list.params[k] # list.sym
      BY <1>2 DEF IInv, DeclaringOnce
    <2>4. \A k \in 1..Len(g.params) : g.params[k] # g.sym
      BY <1>3, <2>2, <2>3
    <2>5. \A i \in 1..m : parser'[i].at = "params" =>
            \A k \in 1..Len(parser'[i].params) : parser'[i].params[k] # parser'[i].sym
      BY <1>2, <1>4, <2>4 DEF IInv, DeclaringOnce
    <2> QED
      BY <1>4, <1>6, <2>1, <2>5 DEF DeclaringOnce
  <1>17. DeclaringFrames'
    <2>1. s # NoSym
      BY <1>1, SymbolFacts DEF Symbols, NoSym
    <2>2. /\ list.sym # NoSym
          /\ \A k \in 1..Len(list.params) : list.params[k] # NoSym
      BY <1>2 DEF IInv, DeclaringFrames, DeclaringStates
    <2>3. /\ g.sym # NoSym
          /\ \A k \in 1..Len(g.params) : g.params[k] # NoSym
      BY <1>3, <2>1, <2>2
    <2> QED
      BY <1>2, <1>4, <2>3 DEF IInv, DeclaringFrames
  <1>18. FunctionsOK' /\ ParametersOK' /\ InScopeOK' /\ ExternalsOK'
    BY <1>0, <1>8, SameSymbols
  <1>19. ErrorsReported'
    BY <1>0, <1>1, <1>5 DEF IInv, ErrorsReported, Symbols, Ty
  <1>20. EmissionOK'
    BY <1>0, SameEmission
  <1> QED
    BY <1>7, <1>9, <1>10, <1>11, <1>14, <1>16, <1>17, <1>18, <1>19, <1>20 DEF IInv

(* resolve returns what the innermost scope that holds the name says. *)
LEMMA ResolveIs ==
  ASSUME IInv, NEW n \in Names
  PROVE  \/ Resolve(n) = NoSym /\ \A i \in 1..Len(scopes) : scopes[i].names[n] = NoSym
         \/ \E i \in 1..Len(scopes) : /\ scopes[i].names[n] # NoSym
                                      /\ Resolve(n) = scopes[i].names[n]
                                      /\ \A j \in 1..Len(scopes) : scopes[j].names[n] # NoSym => j <= i
  <1>1. CASE Holders(n) = {}
    BY <1>1 DEF Resolve, Holders
  <1>2. CASE Holders(n) # {}
    <2> DEFINE inner == CHOOSE i \in Holders(n) : \A j \in Holders(n) : j <= i
    <2>1. Resolve(n) = scopes[inner].names[n]
      BY <1>2 DEF Resolve
    <2>2. inner \in Holders(n) /\ \A j \in Holders(n) : j <= inner
      BY <1>2, HoldersTop
    <2> QED
      BY <2>1, <2>2 DEF Holders
  <1> QED
    BY <1>1, <1>2

ScopeRecords == [level : Nat, names : [Names -> Nat]]

(* install changes one name in the current scope. *)
LEMMA InstallFacts ==
  ASSUME IInv, NEW s \in Symbols
  PROVE  /\ Install(s) \in Seq(ScopeRecords)
         /\ Len(Install(s)) = Len(scopes)
         /\ \A i \in 1..Len(scopes) :
              /\ Install(s)[i].level = scopes[i].level
              /\ \A m \in Names : Install(s)[i].names[m] =
                   IF i = Len(scopes) /\ m = syms[s].name THEN s ELSE scopes[i].names[m]
  <1> DEFINE n  == Len(scopes)
             nm == syms[s].name
             e  == [scopes[n] EXCEPT !.names[nm] = s]
  <1>1. nm \in Names /\ s \in Nat
    BY SymbolFacts DEF Symbols
  <1>2. scopes \in Seq(ScopeRecords) /\ n \in Nat \ {0} /\ n \in 1..n
    BY ScopeFacts DEF IInv, TypeOK, ScopeRecords
  <1>3. scopes[n] \in ScopeRecords
    BY <1>2, ElementOfSeq
  <1>4. /\ e \in ScopeRecords /\ e.level = scopes[n].level
        /\ \A m \in Names : e.names[m] = IF m = nm THEN s ELSE scopes[n].names[m]
    <2> DEFINE t == [scopes[n].names EXCEPT ![nm] = s]
    <2>1. t \in [Names -> Nat] /\ \A m \in Names : t[m] = IF m = nm THEN s ELSE scopes[n].names[m]
      BY <1>1, <1>3 DEF ScopeRecords
    <2>2. e = [scopes[n] EXCEPT !.names = t]
      OBVIOUS
    <2> HIDE DEF t, e
    <2> QED
      BY <1>3, <2>1, <2>2 DEF ScopeRecords
  <1>5. Install(s) = [scopes EXCEPT ![n] = e]
    BY DEF Install
  <1> HIDE DEF e
  <1>6. /\ Install(s) \in Seq(ScopeRecords)
        /\ Len(Install(s)) = n
        /\ \A i \in 1..n : Install(s)[i] = IF i = n THEN e ELSE scopes[i]
    BY <1>2, <1>4, <1>5, ExceptSeq
  <1> QED
    BY <1>4, <1>6

(* What declare_symbol does to the parser. *)
LEMMA DeclareSymbolFrames ==
  ASSUME IInv, DeclareSymbol
  PROVE  /\ parser # <<>>
         /\ Top(parser).at \in DeclarationStates
         /\ Top(parser).sym \in Symbols
         /\ Declaring(Top(parser).sym)
         /\ Len(parser) = FunctionFrames + 1
         /\ Len(scopes) = FunctionFrames + 1
         /\ Len(scopes) # 2
         /\ Len(scopes) # 1 => curfn # NoSym /\ bstack # <<>>
         /\ Len(scopes) = 1 => curfn = NoSym
  <1>1. /\ parser # <<>> /\ Top(parser).at \in DeclarationStates /\ Top(parser).at \in DeclaringStates
        /\ Top(parser).ctx \in {"ext", "block"}
    BY DEF DeclareSymbol, In, DeclarationStates, DeclaringStates
  <1>2. /\ Top(parser) = parser[Len(parser)] /\ Len(parser) \in Nat \ {0}
        /\ FunctionFrames < Len(parser) /\ FunctionFrames \in Nat
    BY <1>1, TopFacts, DsstackFacts, ScopeFacts
  <1>3. Len(parser) = FunctionFrames + 1
    BY <1>1, <1>2 DEF IInv, ParserShape
  <1>4. Len(scopes) = FunctionFrames + 1
    BY DEF IInv, ScopeShape
  <1>5. curfn # NoSym => bstack # <<>>
    BY <1>2, <1>3 DEF IInv, ParserShape, FunctionFrames
  <1>6. bstack # <<>> => Len(bstack) \in Nat \ {0}
    BY EmptySeq DEF IInv, TypeOK
  <1>7. /\ Len(scopes) # 2
        /\ Len(scopes) # 1 => curfn # NoSym /\ bstack # <<>>
        /\ Len(scopes) = 1 => curfn = NoSym
    BY <1>4, <1>5, <1>6 DEF FunctionFrames
  <1> QED
    BY <1>1, <1>3, <1>4, <1>7, TopSym

(* What holds after declare_symbol whether it installs the symbol or not.  *)
LEMMA DeclaredFrame ==
  ASSUME IInv, DeclareSymbol, Len(bstack') = Len(bstack), bstack' = <<>> <=> bstack = <<>>,
         Len(scopes') = Len(scopes), \A i \in 1..Len(scopes) : scopes'[i].level = scopes[i].level
  PROVE  /\ parser' \in Seq(Frames)
         /\ \A i \in 1..Len(parser') : /\ parser'[i].sym <= Len(syms)
                                       /\ \A k \in 1..Len(parser'[i].params) : parser'[i].params[k] \in Symbols
         /\ ParserShape' /\ ScopeShape' /\ DsstackShape'
         /\ DeclaringOnce' /\ DeclaringFrames'
         /\ curfn # NoSym => parser'[1] = parser[1]
         /\ \A x \in Symbols : Declaring(x)' => Declaring(x) /\ x # Top(parser).sym
  <1> DEFINE n == Len(parser)
             f == [Top(parser) EXCEPT !.at = "list", !.first = FALSE]
  <1>0. /\ parser' = SetTop(parser, f)
        /\ UNCHANGED <<dsstack, syms, curfn, status>>
        /\ parser # <<>> /\ Top(parser).at \in DeclarationStates
        /\ Top(parser).at \in {"declarator", "pointer"}
    BY DeclareSymbolFrames DEF DeclareSymbol, In
  <1>1. /\ f \in Frames /\ f.at = "list" /\ f.ctx = Top(parser).ctx /\ f.params = Top(parser).params
        /\ f.sym = Top(parser).sym /\ Top(parser) = parser[n] /\ n \in Nat \ {0} /\ f.at \in DeclarationStates
    <2>1. Top(parser) \in Frames /\ Top(parser) = parser[n] /\ n \in Nat \ {0}
      BY <1>0, TopFacts
    <2>2. "list" \in DeclarationStates
      BY DEF DeclarationStates
    <2> QED
      BY <2>1, <2>2 DEF Frames
  <1> HIDE DEF f
  <1>2. /\ parser' \in Seq(Frames)
        /\ Len(parser') = n
        /\ \A i \in 1..n : parser'[i] = IF i = n THEN f ELSE parser[i]
        /\ FunctionFrames' = FunctionFrames
        /\ ParserShape'
        /\ curfn # NoSym => parser'[1] = parser[1]
    BY <1>0, <1>1, TopReplaced
  <1>3. ScopeShape' /\ DsstackShape'
    BY <1>0, <1>2, SameShape
  <1>4. \A i \in 1..n : parser'[i].sym = parser[i].sym /\ parser'[i].params = parser[i].params
    BY <1>1, <1>2
  <1>5. \A i \in 1..n : /\ parser'[i].sym <= Len(syms)
                        /\ \A k \in 1..Len(parser'[i].params) : parser'[i].params[k] \in Symbols
    BY <1>4 DEF IInv, TypeOK, NoDangling
  <1>6. \A i \in 1..n : \A x : Declares(i, x)' <=> i # n /\ Declares(i, x)
    BY <1>1, <1>2 DEF Declares, DeclaringStates
  <1>7. Declares(n, Top(parser).sym) /\ n \in 1..n
    BY <1>0, <1>1 DEF Declares, DeclaringStates
  <1>8. \A x \in Symbols : Declaring(x)' => Declaring(x) /\ x # Top(parser).sym
    <2> SUFFICES ASSUME NEW x \in Symbols, Declaring(x)'
                 PROVE  Declaring(x) /\ x # Top(parser).sym
      OBVIOUS
    <2>1. PICK i \in 1..n : i # n /\ Declares(i, x)
      BY <1>2, <1>6 DEF Declaring
    <2>2. ~Declares(n, x)
      BY <1>7, <2>1 DEF IInv, DeclaringOnce
    <2> QED
      BY <1>7, <2>1, <2>2 DEF Declaring
  <1>9. DeclaringOnce'
    <2>1. \A i \in 1..n : parser'[i].at = "params" => parser[i].at = "params"
      BY <1>1, <1>2
    <2>2. \A i \in 1..n : parser'[i].at = "params" =>
            \A k \in 1..Len(parser'[i].params) : parser'[i].params[k] # parser'[i].sym
      BY <1>4, <2>1 DEF IInv, DeclaringOnce
    <2>3. \A i, j \in 1..n : \A x \in Symbols' : Declares(i, x)' /\ Declares(j, x)' => i = j
      BY <1>0, <1>6 DEF IInv, DeclaringOnce, Symbols
    <2> QED
      BY <1>2, <2>2, <2>3 DEF DeclaringOnce
  <1>10. DeclaringFrames'
    <2>1. \A i \in 1..n : parser'[i].at \in DeclaringStates => parser[i].at \in DeclaringStates
      BY <1>1, <1>2 DEF DeclaringStates
    <2> QED
      BY <1>2, <1>4, <2>1 DEF IInv, DeclaringFrames
  <1> QED
    BY <1>2, <1>3, <1>5, <1>8, <1>9, <1>10

(* declare_symbol, when it reports a redeclaration or finds no type. *)
LEMMA NotDeclaredInv ==
  ASSUME IInv, status = "running", DeclareSymbol,
         UNCHANGED <<scopes, bstack, extdefs>>, err' \in BOOLEAN, err => err'
  PROVE  IInv'
  <1>0. UNCHANGED <<dsstack, syms, curfn, status>>
    BY DEF DeclareSymbol
  <1>1. /\ parser' \in Seq(Frames)
        /\ \A i \in 1..Len(parser') : /\ parser'[i].sym <= Len(syms)
                                      /\ \A k \in 1..Len(parser'[i].params) : parser'[i].params[k] \in Symbols
        /\ ParserShape' /\ ScopeShape' /\ DsstackShape'
        /\ DeclaringOnce' /\ DeclaringFrames'
        /\ curfn # NoSym => parser'[1] = parser[1]
        /\ \A x \in Symbols : Declaring(x)' => Declaring(x) /\ x # Top(parser).sym
    BY DeclaredFrame
  <1>2. TypeOK'
    BY <1>0, <1>1 DEF IInv, TypeOK, NoDangling, Symbols, Ty
  <1>3. DeclaringFresh'
    BY <1>0, <1>1, SameFresh
  <1>4. FunctionsOK' /\ ParametersOK' /\ InScopeOK' /\ ExternalsOK'
    BY <1>0, <1>1, SameSymbols
  <1>5. ErrorsReported'
    BY <1>0 DEF IInv, ErrorsReported, Symbols, Ty
  <1>6. EmissionOK'
    BY <1>0, SameEmission
  <1> QED
    BY <1>1, <1>2, <1>3, <1>4, <1>5, <1>6 DEF IInv

(* declare_symbol keeps the invariant: the symbol leaves the parse stack   *)
(* for the current scope, and for a block or the external definitions.     *)
LEMMA DeclareSymbolInv ==
  ASSUME IInv, status = "running", DeclareSymbol
  PROVE  IInv'
  <1> DEFINE s == Top(parser).sym
             nm == syms[s].name
             isfun == Op(Ty(s)) = "Kfun"
  <1>1. CASE /\ UNCHANGED <<scopes, bstack, extdefs>>
             /\ err' = err \/ err' = TRUE
    <2>1. CASE err' = err
      BY <1>1, <2>1, NotDeclaredInv, ErrType
    <2>2. CASE err' = TRUE
      BY <1>1, <2>2, NotDeclaredInv
    <2> QED
      BY <1>1, <2>1, <2>2
  <1>2. CASE /\ Ty(s) # NoType
             /\ ~DeclaredInScope(nm)
             /\ err' = \/ err
                       \/ isfun /\ (~ValidFuncty(s, FALSE) \/ ~AtFileScope)
                       \/ ~isfun /\ ~Complete(Ty(s))
             /\ scopes' = Install(s)
             /\ extdefs' = IF AtFileScope /\ ~isfun THEN Append(extdefs, s) ELSE extdefs
             /\ bstack' = IF AtFileScope THEN bstack ELSE SetTop(bstack, Top(bstack) \cup {s})
    <2>0. UNCHANGED <<dsstack, syms, curfn, status>> /\ err' \in BOOLEAN /\ (err => err') /\ Symbols' = Symbols
      BY <1>2, ErrType DEF DeclareSymbol, ValidFuncty, AtFileScope, Complete, Symbols
    <2>1. /\ s \in Symbols /\ Declaring(s) /\ nm \in Names /\ s # NoSym
          /\ Len(scopes) \in Nat \ {0}
          /\ Len(scopes) # 2
          /\ Len(scopes) # 1 => curfn # NoSym /\ bstack # <<>>
          /\ Len(scopes) = 1 => curfn = NoSym
          /\ CurLevel = Len(scopes) - 1
      BY DeclareSymbolFrames, SymbolFacts, ScopeFacts DEF Symbols, NoSym
    <2>2. /\ syms[s].level = CurLevel
          /\ ~InScope(s) /\ ~Parameter(s) /\ ~Local(s)
          /\ syms[s].op = "Sfunc" => isfun
      BY <1>2, <2>1 DEF IInv, DeclaringFresh
    <2>3. /\ scopes' \in Seq(ScopeRecords)
          /\ Len(scopes') = Len(scopes)
          /\ \A i \in 1..Len(scopes) :
               /\ scopes'[i].level = scopes[i].level
               /\ \A m \in Names : scopes'[i].names[m] =
                    IF i = Len(scopes) /\ m = nm THEN s ELSE scopes[i].names[m]
      BY <1>2, <2>1, InstallFacts
    <2>4. /\ bstack' \in Seq(SUBSET Nat)
          /\ Len(bstack') = Len(bstack)
          /\ bstack' = <<>> <=> bstack = <<>>
          /\ \A i \in 1..Len(bstack) :
               bstack'[i] = bstack[i] \/ (~AtFileScope /\ bstack'[i] = bstack[i] \cup {s})
      <3>1. bstack \in Seq(SUBSET Nat) /\ s \in Nat
        BY <2>1 DEF IInv, TypeOK, Symbols
      <3>2. CASE AtFileScope
        BY <1>2, <3>1, <3>2
      <3>3. CASE ~AtFileScope
        <4>1. bstack # <<>>
          BY <2>1, <3>3 DEF AtFileScope
        <4> DEFINE b == Top(bstack) \cup {s}
        <4>2. /\ Top(bstack) \in SUBSET Nat /\ Top(bstack) = bstack[Len(bstack)] /\ b \in SUBSET Nat
          BY <3>1, <4>1, TopSeq
        <4>3. bstack' = SetTop(bstack, b)
          BY <1>2, <3>3
        <4>4. b = bstack[Len(bstack)] \cup {s}
          BY <4>2
        <4> HIDE DEF b
        <4>5. /\ bstack' \in Seq(SUBSET Nat)
              /\ Len(bstack') = Len(bstack)
              /\ \A i \in 1..Len(bstack) : bstack'[i] = IF i = Len(bstack) THEN b ELSE bstack[i]
          <5>1. PICK blocks : blocks = SUBSET Nat
            OBVIOUS
          <5>2. bstack \in Seq(blocks) /\ b \in blocks
            BY <3>1, <4>2, <5>1
          <5>3. /\ SetTop(bstack, b) \in Seq(blocks)
                /\ Len(SetTop(bstack, b)) = Len(bstack)
                /\ \A i \in 1..Len(bstack) : SetTop(bstack, b)[i] = IF i = Len(bstack) THEN b ELSE bstack[i]
            BY <4>1, <5>2, SetTopSeq
          <5> QED
            BY <4>3, <5>1, <5>3
        <4>6. bstack' # <<>>
          BY <3>1, <4>1, <4>5, EmptySeq
        <4> QED
          BY <3>3, <4>1, <4>4, <4>5, <4>6
      <3> QED
        BY <3>2, <3>3
    <2>5. /\ extdefs' \in Seq(Nat)
          /\ \/ extdefs' = extdefs
             \/ /\ AtFileScope /\ ~isfun
                /\ Len(extdefs') = Len(extdefs) + 1 /\ Len(extdefs) \in Nat
                /\ \A i \in 1..(Len(extdefs) + 1) : extdefs'[i] = IF i = Len(extdefs) + 1 THEN s ELSE extdefs[i]
      BY <1>2, <2>1, AppendSeq DEF IInv, TypeOK, Symbols
    <2>6. /\ parser' \in Seq(Frames)
          /\ \A i \in 1..Len(parser') : /\ parser'[i].sym <= Len(syms)
                                        /\ \A k \in 1..Len(parser'[i].params) : parser'[i].params[k] \in Symbols
          /\ ParserShape' /\ ScopeShape' /\ DsstackShape'
          /\ DeclaringOnce' /\ DeclaringFrames'
          /\ curfn # NoSym => parser'[1] = parser[1]
          /\ \A x \in Symbols : Declaring(x)' => Declaring(x) /\ x # s
      BY <2>3, <2>4, DeclaredFrame
    <2>7. TypeOK'
      <3>1. \A i \in 1..Len(scopes'), m \in Names : scopes'[i].names[m] <= Len(syms)
        <4>1. s <= Len(syms)
          BY <2>1, SymbolFacts DEF Symbols
        <4> QED
          BY <2>3, <4>1, ScopeNames
      <3>2. \A i \in 1..Len(bstack') : bstack'[i] \subseteq Symbols
        BY <2>1, <2>4 DEF IInv, TypeOK, NoDangling
      <3>3. \A i \in 1..Len(extdefs') : extdefs'[i] \in Symbols
        BY <2>1, <2>5, ExternalFacts
      <3>4. NoDangling'
        BY <2>0, <2>6, <3>1, <3>2, <3>3 DEF IInv, TypeOK, NoDangling, Ty
      <3> QED
        BY <2>0, <2>3, <2>4, <2>5, <2>6, <3>4 DEF IInv, TypeOK, ScopeRecords
    <2>8. CurLevel' = CurLevel
      <3>1. scopes'[Len(scopes)].level = scopes[Len(scopes)].level
        BY <2>1, <2>3
      <3> QED
        BY <2>3, <3>1 DEF CurLevel, Top
    <2>9. \A x \in Symbols : x # s => (InScope(x)' => InScope(x)) /\ (Local(x)' => Local(x))
      BY <2>0, <2>3, <2>4 DEF InScope, Local
    <2>10. DeclaringFresh'
      <3> SUFFICES ASSUME NEW x \in Symbols, Declaring(x)'
                   PROVE  /\ syms[x].level = CurLevel'
                          /\ syms[x].body = FALSE
                          /\ ~InScope(x)' /\ ~Parameter(x)' /\ ~Local(x)'
                          /\ syms[x].op = "Sfunc" /\ Ty(x) # NoType => Op(Ty(x)) = "Kfun"
        BY <2>0 DEF DeclaringFresh, Ty
      <3>1. Declaring(x) /\ x # s
        BY <2>6
      <3>2. /\ syms[x].level = CurLevel
            /\ syms[x].body = FALSE
            /\ ~InScope(x) /\ ~Parameter(x) /\ ~Local(x)
            /\ syms[x].op = "Sfunc" /\ Ty(x) # NoType => Op(Ty(x)) = "Kfun"
        BY <3>1 DEF IInv, DeclaringFresh
      <3>3. ~Parameter(x)'
        BY <2>0, <3>2 DEF Parameter, Ty
      <3> QED
        BY <2>8, <2>9, <3>1, <3>2, <3>3
    <2>11. FunctionsOK' /\ ParametersOK'
      BY <2>0 DEF IInv, FunctionsOK, ParametersOK, Ty
    <2>12. InScopeOK'
      <3> SUFFICES ASSUME NEW i \in 1..Len(scopes), NEW m \in Names, scopes'[i].names[m] # NoSym
                   PROVE  /\ syms[scopes'[i].names[m]].name = m
                          /\ Ty(scopes'[i].names[m]) # NoType
                          /\ syms[scopes'[i].names[m]].level = IF i = 2 THEN 0 ELSE i - 1
        BY <2>0, <2>3 DEF InScopeOK, Ty
      <3>1. CASE i = Len(scopes) /\ m = nm
        BY <1>2, <2>1, <2>2, <2>3, <3>1
      <3>2. CASE ~(i = Len(scopes) /\ m = nm)
        <4>1. scopes'[i].names[m] = scopes[i].names[m]
          BY <2>3, <3>2
        <4> QED
          BY <4>1 DEF IInv, InScopeOK
      <3> QED
        BY <3>1, <3>2
    <2>13. ExternalsOK'
      <3>1. CASE AtFileScope
        <4>1. Len(scopes) = 1 /\ curfn = NoSym /\ CurLevel = 0 /\ 1 \in 1..Len(scopes)
          BY <2>1, <3>1 DEF AtFileScope
        <4>2. scopes[1].names[nm] = NoSym
          <5> SUFFICES ASSUME scopes[1].names[nm] # NoSym PROVE FALSE
            OBVIOUS
          <5>1. \A i \in 1..Len(scopes) : i = 1
            BY <4>1
          <5>2. Resolve(nm) = scopes[1].names[nm]
            BY <2>1, <4>1, <5>1, ResolveIs
          <5>3. syms[scopes[1].names[nm]].level = 0
            BY <2>1, <4>1 DEF IInv, InScopeOK
          <5> QED
            BY <1>2, <4>1, <5>2, <5>3 DEF DeclaredInScope
        <4>3. \A i \in 1..Len(extdefs) : /\ extdefs[i] # s /\ extdefs[i] \in Symbols
                                         /\ syms[extdefs[i]].name # nm
                                         /\ syms[extdefs[i]].name \in Names
                                         /\ scopes[1].names[syms[extdefs[i]].name] = extdefs[i]
          <5> SUFFICES ASSUME NEW i \in 1..Len(extdefs)
                       PROVE  /\ extdefs[i] # s /\ extdefs[i] \in Symbols
                              /\ syms[extdefs[i]].name # nm
                              /\ syms[extdefs[i]].name \in Names
                              /\ scopes[1].names[syms[extdefs[i]].name] = extdefs[i]
            OBVIOUS
          <5>1. extdefs[i] \in Symbols /\ InScope(extdefs[i]) /\ extdefs[i] # NoSym
            BY ExternalFacts, SymbolFacts DEF Symbols, NoSym
          <5>2. scopes[1].names[syms[extdefs[i]].name] = extdefs[i]
            BY DEF IInv, ExternalsOK
          <5> QED
            BY <2>2, <4>2, <5>1, <5>2, SymbolFacts
        <4>4. \A i \in 1..Len(extdefs) : scopes'[1].names[syms[extdefs[i]].name] = extdefs[i]
          BY <2>3, <4>1, <4>3
        <4>5. scopes'[1].names[nm] = s
          BY <2>1, <2>3, <4>1
        <4>6. CASE extdefs' = extdefs
          BY <2>0, <4>1, <4>4, <4>6 DEF IInv, ExternalsOK, Ty
        <4>7. CASE /\ ~isfun
                   /\ Len(extdefs') = Len(extdefs) + 1 /\ Len(extdefs) \in Nat
                   /\ \A i \in 1..(Len(extdefs) + 1) : extdefs'[i] = IF i = Len(extdefs) + 1 THEN s ELSE extdefs[i]
          <5> DEFINE x(i) == extdefs'[i]
          <5>1. ASSUME NEW i \in 1..(Len(extdefs) + 1)
                PROVE  /\ scopes'[1].names[syms[x(i)].name] = x(i)
                       /\ Op(Ty(x(i))) = "Kfun" => syms[x(i)].body \/ x(i) = curfn
            <6>1. CASE i = Len(extdefs) + 1
              BY <4>5, <4>7, <6>1
            <6>2. CASE i # Len(extdefs) + 1
              <7>1. i \in 1..Len(extdefs) /\ x(i) = extdefs[i]
                BY <4>7, <6>2
              <7> QED
                BY <4>4, <7>1 DEF IInv, ExternalsOK
            <6> QED
              BY <6>1, <6>2
          <5>2. ASSUME NEW i \in 1..(Len(extdefs) + 1), NEW j \in 1..(Len(extdefs) + 1), x(i) = x(j)
                PROVE  i = j
            <6>1. CASE i = Len(extdefs) + 1 /\ j # Len(extdefs) + 1
              BY <4>3, <4>7, <5>2, <6>1
            <6>2. CASE j = Len(extdefs) + 1 /\ i # Len(extdefs) + 1
              BY <4>3, <4>7, <5>2, <6>2
            <6>3. CASE j # Len(extdefs) + 1 /\ i # Len(extdefs) + 1
              <7>1. i \in 1..Len(extdefs) /\ j \in 1..Len(extdefs) /\ extdefs[i] = extdefs[j]
                BY <4>7, <5>2, <6>3
              <7> QED
                BY <7>1 DEF IInv, ExternalsOK
            <6> QED
              BY <6>1, <6>2, <6>3
          <5> QED
            BY <2>0, <4>1, <4>7, <5>1, <5>2 DEF ExternalsOK, Ty
        <4> QED
          BY <2>5, <4>6, <4>7
      <3>2. CASE ~AtFileScope
        <4>1. 1 \in 1..Len(scopes) /\ 1 # Len(scopes) /\ extdefs' = extdefs /\ curfn # NoSym
          BY <2>1, <2>5, <3>2 DEF AtFileScope
        <4>2. \A m \in Names : scopes'[1].names[m] = scopes[1].names[m]
          BY <2>3, <4>1
        <4>3. \A i \in 1..Len(extdefs) : syms[extdefs[i]].name \in Names
          BY ExternalFacts, SymbolFacts
        <4>4. syms[curfn].name \in Names
          BY <4>1, ExternalFacts, SymbolFacts
        <4> QED
          BY <2>0, <2>6, <4>1, <4>2, <4>3, <4>4 DEF IInv, ExternalsOK, Ty
      <3> QED
        BY <3>1, <3>2
    <2>14. ErrorsReported'
      BY <2>0 DEF IInv, ErrorsReported, Ty
    <2>15. EmissionOK'
      <3> SUFFICES ASSUME ~err'
                   PROVE  /\ \A i \in 1..Len(extdefs') : Emittable(extdefs'[i])
                          /\ \A i \in 1..Len(bstack) : \A x \in bstack'[i] : Complete(Ty(x))
                          /\ \A g \in Symbols : \A x \in syms[g].locals : Complete(Ty(x))
        BY <2>0, <2>4 DEF EmissionOK, Emittable, Ty
      <3>1. ~err /\ (isfun => AtFileScope) /\ (~isfun => Complete(Ty(s)))
        BY <1>2, <2>0
      <3>2. /\ \A i \in 1..Len(extdefs) : Emittable(extdefs[i])
            /\ \A i \in 1..Len(bstack) : \A x \in bstack[i] : Complete(Ty(x))
            /\ \A g \in Symbols : \A x \in syms[g].locals : Complete(Ty(x))
        BY <3>1 DEF IInv, EmissionOK
      <3>3. ~isfun => Emittable(s)
        <4>1. syms[s].op \in {"Sdata", "Sfunc"}
          BY <2>1, SymbolFacts DEF SymbolRecords
        <4> QED
          BY <2>2, <3>1, <4>1 DEF Emittable
      <3>4. \A i \in 1..Len(extdefs') : Emittable(extdefs'[i])
        BY <2>5, <3>2, <3>3
      <3>5. \A i \in 1..Len(bstack) : \A x \in bstack'[i] : Complete(Ty(x))
        BY <2>4, <3>1, <3>2
      <3> QED
        BY <3>2, <3>4, <3>5
    <2> QED
      BY <2>6, <2>7, <2>10, <2>11, <2>12, <2>13, <2>14, <2>15 DEF IInv
  <1> QED
    BY <1>1, <1>2 DEF DeclareSymbol

(* The parser is in a function, in no declaration. *)
LEMMA InFunction ==
  ASSUME IInv, parser # <<>>, Top(parser).at \notin DeclarationStates
  PROVE  /\ curfn # NoSym
         /\ Len(parser) \in Nat \ {0}
         /\ Len(parser) = Len(bstack) + 1
         /\ Len(scopes) = Len(parser) + 1
         /\ FunctionFrames = Len(parser)
         /\ Len(bstack) \in Nat
         /\ \A i \in 1..Len(parser) : parser[i].at \notin DeclaringStates
         /\ \A s : ~Declaring(s)
         /\ Top(parser) = parser[Len(parser)]
  <1>1. Top(parser) = parser[Len(parser)] /\ Len(parser) \in Nat \ {0} /\ Len(bstack) \in Nat /\ FunctionFrames \in Nat
    BY TopFacts, ScopeFacts
  <1>2. FunctionFrames = Len(parser)
    BY <1>1 DEF IInv, ParserShape
  <1>3. curfn # NoSym /\ Len(parser) = Len(bstack) + 1 /\ Len(scopes) = Len(parser) + 1
    BY <1>1, <1>2 DEF IInv, ScopeShape, FunctionFrames
  <1>4. \A i \in 1..Len(parser) : parser[i].at \notin DeclaringStates
    BY <1>1, <1>2, <1>3 DEF IInv, ParserShape, DeclaringStates, FunctionStates
  <1>5. \A s : ~Declaring(s)
    BY <1>4 DEF Declaring, Declares, DeclaringStates
  <1> QED
    BY <1>1, <1>2, <1>3, <1>4, <1>5

(* The invariants about declarations when there is none. *)
LEMMA NoDeclaration ==
  ASSUME IInv, \A i \in 1..Len(parser') : parser'[i].at \notin DeclaringStates,
         \A i \in 1..Len(parser') : \A k \in 1..Len(parser'[i].params) : parser'[i].params[k] # NoSym
  PROVE  DeclaringFresh' /\ DeclaringOnce' /\ DeclaringFrames'
  <1>1. \A i \in 1..Len(parser') : \A s : ~Declares(i, s)'
    BY DEF Declares, DeclaringStates
  <1>2. DeclaringFresh' /\ DeclaringOnce'
    BY <1>1 DEF DeclaringFresh, DeclaringOnce, Declaring, DeclaringStates
  <1>3. DeclaringFrames'
    BY DEF DeclaringFrames
  <1> QED
    BY <1>2, <1>3

(* leave_fun keeps the invariant: the scope of the parameters is the last  *)
(* one above the file scope.                                               *)
LEMMA LeaveFunInv ==
  ASSUME IInv, status = "running", LeaveFun
  PROVE  IInv'
  <1>0. /\ parser' = Pop(parser) /\ scopes' = Pop(scopes) /\ curfn' = NoSym
        /\ UNCHANGED <<dsstack, syms, bstack, extdefs, err, status>>
        /\ parser # <<>> /\ Top(parser).at = "built"
    BY DEF LeaveFun, In
  <1>1. /\ curfn # NoSym /\ Len(parser) = 1 /\ bstack = <<>> /\ Len(scopes) = 2 /\ parser[1].at = "built"
    <2>1. "built" \notin DeclarationStates
      BY DEF DeclarationStates
    <2>2. /\ curfn # NoSym
          /\ Len(parser) \in Nat \ {0}
          /\ Len(parser) = Len(bstack) + 1
          /\ Len(scopes) = Len(parser) + 1
          /\ FunctionFrames = Len(parser)
          /\ parser[Len(parser)].at = "built"
      BY <1>0, <2>1, InFunction
    <2>3. Len(parser) = 1
      BY <2>2 DEF IInv, ParserShape
    <2> QED
      BY <2>2, <2>3 DEF IInv, ParserShape
  <1>2. parser' \in Seq(Frames) /\ Len(parser') = 0 /\ parser' = <<>>
    <2>1. parser' \in Seq(Frames) /\ Len(parser') = 0
      BY <1>0, <1>1, PopSeq DEF IInv, TypeOK
    <2> QED
      BY <2>1, EmptySeq
  <1>3. /\ scopes' \in Seq(ScopeRecords) /\ Len(scopes') = 1 /\ scopes'[1] = scopes[1]
    <2>1. scopes \in Seq(ScopeRecords)
      BY DEF IInv, TypeOK, ScopeRecords
    <2>2. scopes # <<>>
      BY <1>1
    <2>3. /\ Pop(scopes) \in Seq(ScopeRecords) /\ Len(Pop(scopes)) = Len(scopes) - 1
          /\ \A i \in 1..(Len(scopes) - 1) : Pop(scopes)[i] = scopes[i]
      BY <2>1, <2>2, PopSeq
    <2>4. Len(scopes) - 1 = 1 /\ 1 \in 1..(Len(scopes) - 1)
      BY <1>1
    <2> QED
      BY <1>0, <2>3, <2>4
  <1>4. FunctionFrames' = 0 /\ Symbols' = Symbols
    BY <1>0 DEF FunctionFrames, Symbols
  <1>5. TypeOK'
    <2>1. NoSym \in Nat /\ NoSym <= Len(syms)
      BY SymbolFacts DEF NoSym
    <2>2. \A i \in 1..Len(scopes'), n \in Names : scopes'[i].names[n] <= Len(syms)
      BY <1>1, <1>3, ScopeNames
    <2>3. NoDangling'
      BY <1>0, <1>2, <1>4, <2>1, <2>2 DEF IInv, TypeOK, NoDangling, Ty
    <2> QED
      BY <1>0, <1>2, <1>3, <2>1, <2>3 DEF IInv, TypeOK, ScopeRecords
  <1>6. ParserShape'
    BY <1>0, <1>1, <1>2, <1>4 DEF ParserShape
  <1>7. ScopeShape' /\ DsstackShape'
    BY <1>0, <1>1, <1>2, <1>3, <1>4 DEF IInv, ScopeShape, DsstackShape, TypeOK
  <1>8. DeclaringFresh' /\ DeclaringOnce' /\ DeclaringFrames'
    BY <1>2, NoDeclaration
  <1>9. FunctionsOK' /\ ParametersOK'
    BY <1>0, <1>4 DEF IInv, FunctionsOK, ParametersOK, Ty
  <1>10. InScopeOK'
    BY <1>0, <1>1, <1>3 DEF IInv, InScopeOK, Ty
  <1>11. ExternalsOK'
    <2>1. syms[curfn].body
      BY <1>1 DEF IInv, ExternalsOK
    <2> QED
      BY <1>0, <1>3, <2>1 DEF IInv, ExternalsOK, Ty
  <1>12. ErrorsReported'
    BY <1>0, <1>4 DEF IInv, ErrorsReported, Ty
  <1>13. EmissionOK'
    BY <1>0, SameEmission
  <1> QED
    BY <1>5, <1>6, <1>7, <1>8, <1>9, <1>10, <1>11, <1>12, <1>13 DEF IInv

(* enter_block keeps the invariant: a frame, a scope and a block are       *)
(* pushed together.                                                        *)
LEMMA EnterBlockInv ==
  ASSUME IInv, status = "running", EnterBlock
  PROVE  IInv'
  <1> DEFINE n == Len(parser)
             entered == Top(parser).at = "entered"
             base == IF entered THEN SetTop(parser, [Top(parser) EXCEPT !.at = "body"]) ELSE parser
             block == Frame("block", "block")
             scope == [level |-> CurLevel + 1, names |-> EmptyTable]
  <1>0. /\ scopes' = Append(scopes, scope)
        /\ bstack' = Append(bstack, {})
        /\ parser' = Append(base, block)
        /\ UNCHANGED <<dsstack, syms, curfn, extdefs, err, status>>
        /\ parser # <<>> /\ Top(parser).at \in {"entered", "block"}
        /\ Top(parser).at \notin DeclarationStates
    BY DEF EnterBlock, EnterScope, In, DeclarationStates
  <1>1. /\ curfn # NoSym /\ n \in Nat \ {0} /\ n = Len(bstack) + 1 /\ Len(scopes) = n + 1
        /\ FunctionFrames = n /\ Len(bstack) \in Nat
        /\ \A i \in 1..n : parser[i].at \notin DeclaringStates
        /\ Top(parser) = parser[n]
    BY <1>0, InFunction
  <1>2. /\ base \in Seq(Frames) /\ Len(base) = n
        /\ base[1].at = "body" /\ base[1].ctx = "ext" /\ base[1].sym = curfn
        /\ \A i \in 1..n : base[i].sym = parser[i].sym /\ base[i].params = parser[i].params
        /\ \A i \in 1..n : i > 1 => base[i] = parser[i]
        /\ parser[1].at # "built"
    <2>1. parser \in Seq(Frames) /\ Top(parser) \in Frames /\ 1 \in 1..n
      BY <1>0, <1>1, TopFacts DEF IInv, TypeOK
    <2>2. parser[1].at \in FunctionStates /\ parser[1].ctx = "ext" /\ parser[1].sym = curfn
      BY <1>1 DEF IInv, ParserShape
    <2>3. CASE entered
      <3> DEFINE g == [Top(parser) EXCEPT !.at = "body"]
      <3>1. n = 1
        BY <1>1, <2>3 DEF IInv, ParserShape
      <3>2. /\ g \in Frames /\ g.at = "body" /\ g.ctx = parser[1].ctx /\ g.sym = parser[1].sym
            /\ g.params = parser[1].params
        BY <1>1, <2>1, <3>1 DEF Frames, FunctionStates
      <3>3. base = SetTop(parser, g)
        BY <2>3
      <3> HIDE DEF g, base
      <3>4. base \in Seq(Frames) /\ Len(base) = n /\ \A i \in 1..n : base[i] = IF i = n THEN g ELSE parser[i]
        <4>1. g \in Frames
          BY <3>2
        <4>2. parser # <<>> /\ parser \in Seq(Frames)
          BY <1>0, <2>1
        <4>3. /\ SetTop(parser, g) \in Seq(Frames) /\ Len(SetTop(parser, g)) = n
              /\ \A i \in 1..n : SetTop(parser, g)[i] = IF i = n THEN g ELSE parser[i]
          BY <4>1, <4>2, SetTopSeq
        <4> QED
          BY <3>3, <4>3
      <3> QED
        BY <1>1, <2>2, <2>3, <3>1, <3>2, <3>4
    <2>4. CASE ~entered
      <3>1. parser[n].at = "block"
        BY <1>0, <1>1, <2>4
      <3>2. n > 1
        BY <1>1, <2>2, <3>1 DEF FunctionStates
      <3>3. bstack # <<>>
        BY <1>1, <3>2
      <3>4. parser[1].at = "body"
        BY <1>1, <3>3 DEF IInv, ParserShape
      <3> QED
        BY <2>1, <2>2, <2>4, <3>4
    <2> QED
      BY <2>3, <2>4
  <1>3. /\ block \in Frames /\ block.at = "block" /\ block.ctx = "block" /\ block.sym = 0 /\ block.params = <<>>
    BY EmptySeq DEF Frame, Frames, NoSym
  <1>4. /\ scope \in ScopeRecords /\ scope.level = Len(scopes) /\ \A m \in Names : scope.names[m] = NoSym
    BY <1>1, ScopeFacts DEF ScopeRecords, EmptyTable, NoSym
  <1> HIDE DEF base, block, scope
  <1>5. /\ parser' \in Seq(Frames) /\ Len(parser') = n + 1
        /\ \A i \in 1..(n + 1) : parser'[i] = IF i = n + 1 THEN block ELSE base[i]
    BY <1>0, <1>2, <1>3, AppendSeq
  <1>6. /\ scopes' \in Seq(ScopeRecords) /\ Len(scopes') = Len(scopes) + 1
        /\ \A i \in 1..(Len(scopes) + 1) : scopes'[i] = IF i = Len(scopes) + 1 THEN scope ELSE scopes[i]
    <2>1. scopes \in Seq(ScopeRecords)
      BY DEF IInv, TypeOK, ScopeRecords
    <2> QED
      BY <1>0, <1>4, <2>1, AppendSeq
  <1>7. /\ bstack' \in Seq(SUBSET Nat) /\ Len(bstack') = Len(bstack) + 1
        /\ \A i \in 1..(Len(bstack) + 1) : bstack'[i] = IF i = Len(bstack) + 1 THEN {} ELSE bstack[i]
    <2>1. PICK blocks : blocks = SUBSET Nat
      OBVIOUS
    <2>2. bstack \in Seq(blocks) /\ {} \in blocks
      BY <2>1 DEF IInv, TypeOK
    <2>3. /\ bstack' \in Seq(blocks) /\ Len(bstack') = Len(bstack) + 1
          /\ \A i \in 1..(Len(bstack) + 1) : bstack'[i] = IF i = Len(bstack) + 1 THEN {} ELSE bstack[i]
      BY <1>0, <2>2, AppendSeq
    <2> QED
      BY <2>1, <2>3
  <1>8. FunctionFrames' = n + 1 /\ Symbols' = Symbols /\ bstack' # <<>>
    <2>1. bstack' # <<>>
      BY <1>1, <1>7
    <2> QED
      BY <1>0, <1>1, <1>7, <2>1 DEF FunctionFrames, Symbols
  <1>9. parser'[1] = base[1] /\ \A i \in 1..n : parser'[i] = base[i]
    BY <1>1, <1>5
  <1>10. TypeOK'
    <2>1. \A i \in 1..n : /\ parser[i].sym <= Len(syms)
                          /\ \A k \in 1..Len(parser[i].params) : parser[i].params[k] \in Symbols
      BY DEF IInv, TypeOK, NoDangling
    <2>2. \A i \in 1..(n + 1) : /\ parser'[i].sym <= Len(syms)
                                /\ \A k \in 1..Len(parser'[i].params) : parser'[i].params[k] \in Symbols
      <3> SUFFICES ASSUME NEW i \in 1..(n + 1)
                   PROVE  /\ parser'[i].sym <= Len(syms)
                          /\ \A k \in 1..Len(parser'[i].params) : parser'[i].params[k] \in Symbols
        OBVIOUS
      <3>1. CASE i = n + 1
        BY <1>3, <1>5, <3>1, SymbolFacts, EmptySeq
      <3>2. CASE i # n + 1
        <4>1. i \in 1..n
          BY <1>1, <3>2
        <4> QED
          BY <1>2, <1>9, <2>1, <4>1
      <3> QED
        BY <3>1, <3>2
    <2>3. \A i \in 1..Len(scopes'), m \in Names : scopes'[i].names[m] <= Len(syms)
      <3> SUFFICES ASSUME NEW i \in 1..(Len(scopes) + 1), NEW m \in Names
                   PROVE  scopes'[i].names[m] <= Len(syms)
        BY <1>6
      <3>1. CASE i = Len(scopes) + 1
        BY <1>4, <1>6, <3>1, SymbolFacts DEF NoSym
      <3>2. CASE i # Len(scopes) + 1
        <4>1. i \in 1..Len(scopes)
          BY <1>1, <3>2
        <4> QED
          BY <1>6, <3>2, <4>1, ScopeNames
      <3> QED
        BY <3>1, <3>2
    <2>4. \A i \in 1..Len(bstack') : bstack'[i] \subseteq Symbols
      <3>1. \A i \in 1..Len(bstack) : bstack[i] \subseteq Symbols
        BY DEF IInv, TypeOK, NoDangling
      <3>2. \A i \in 1..(Len(bstack) + 1) : bstack'[i] = {} \/ (i \in 1..Len(bstack) /\ bstack'[i] = bstack[i])
        BY <1>1, <1>7
      <3> QED
        BY <1>7, <3>1, <3>2
    <2>5. NoDangling'
      BY <1>0, <1>5, <1>8, <2>2, <2>3, <2>4 DEF IInv, TypeOK, NoDangling, Ty
    <2> QED
      BY <1>0, <1>5, <1>6, <1>7, <2>5 DEF IInv, TypeOK, ScopeRecords
  <1>11. ParserShape'
    <2>1. ASSUME NEW i \in 1..(n + 1), i > 1 PROVE parser'[i].at = "block" /\ parser'[i].ctx = "block"
      <3>1. CASE i = n + 1
        BY <1>3, <1>5, <3>1
      <3>2. CASE i # n + 1
        <4>1. i \in 1..n
          BY <1>1, <3>2
        <4>2. parser[i].at = "block" /\ parser[i].ctx = "block"
          BY <1>1, <2>1, <4>1 DEF IInv, ParserShape
        <4> QED
          BY <1>2, <1>9, <2>1, <4>1, <4>2
      <3> QED
        BY <3>1, <3>2
    <2> QED
      BY <1>0, <1>1, <1>2, <1>5, <1>8, <1>9, <2>1 DEF ParserShape, FunctionStates
  <1>12. ScopeShape' /\ DsstackShape'
    <2>1. \A i \in 1..Len(scopes) : scopes[i].level = i - 1
      BY DEF IInv, ScopeShape
    <2>2. \A i \in 1..(Len(scopes) + 1) : scopes'[i].level = i - 1
      BY <1>1, <1>4, <1>6, <2>1
    <2>3. Len(dsstack) \in Nat
      BY DEF IInv, TypeOK
    <2> QED
      BY <1>0, <1>1, <1>5, <1>6, <1>8, <2>2, <2>3 DEF ScopeShape, DsstackShape
  <1>13. DeclaringFresh' /\ DeclaringOnce' /\ DeclaringFrames'
    <2>1. \A i \in 1..(n + 1) : parser'[i].at \notin DeclaringStates
      <3>1. \A i \in 1..n : parser'[i].at \notin DeclaringStates
        BY <1>1, <1>2, <1>9 DEF DeclaringStates
      <3> QED
        BY <1>1, <1>3, <1>5, <3>1 DEF DeclaringStates
    <2>2. \A i \in 1..(n + 1) : \A k \in 1..Len(parser'[i].params) : parser'[i].params[k] # NoSym
      <3>1. \A i \in 1..n : \A k \in 1..Len(parser'[i].params) : parser'[i].params[k] # NoSym
        BY <1>2, <1>9 DEF IInv, DeclaringFrames
      <3> QED
        BY <1>1, <1>3, <1>5, <3>1, EmptySeq
    <2> QED
      BY <1>5, <2>1, <2>2, NoDeclaration
  <1>14. FunctionsOK' /\ ParametersOK'
    BY <1>0, <1>8 DEF IInv, FunctionsOK, ParametersOK, Ty
  <1>15. InScopeOK'
    <2> SUFFICES ASSUME NEW i \in 1..(Len(scopes) + 1), NEW m \in Names, scopes'[i].names[m] # NoSym
                 PROVE  /\ syms[scopes'[i].names[m]].name = m
                        /\ Ty(scopes'[i].names[m]) # NoType
                        /\ syms[scopes'[i].names[m]].level = IF i = 2 THEN 0 ELSE i - 1
      BY <1>0, <1>6 DEF InScopeOK, Ty
    <2>1. i \in 1..Len(scopes) /\ scopes'[i] = scopes[i]
      BY <1>1, <1>4, <1>6
    <2> QED
      BY <2>1 DEF IInv, InScopeOK
  <1>16. ExternalsOK'
    <2>1. scopes'[1] = scopes[1]
      BY <1>1, <1>6
    <2>2. ~syms[curfn].body /\ parser'[1].at # "built"
      BY <1>1, <1>2, <1>9 DEF IInv, ExternalsOK
    <2> QED
      BY <1>0, <2>1, <2>2 DEF IInv, ExternalsOK, Ty
  <1>17. ErrorsReported'
    BY <1>0, <1>8 DEF IInv, ErrorsReported, Ty
  <1>18. EmissionOK'
    <2>1. \A i \in 1..Len(extdefs) : Emittable(extdefs[i])' <=> Emittable(extdefs[i])
      BY <1>0 DEF Emittable, Ty
    <2>2. status' # "emitting"
      BY <1>0
    <2>3. ~err' => \A i \in 1..Len(bstack') : \A x \in bstack'[i] : Complete(Ty(x))
      BY <1>0, <1>1, <1>7 DEF IInv, EmissionOK
    <2>4. ~err' => /\ \A i \in 1..Len(extdefs) : Emittable(extdefs[i])
                   /\ \A f \in Symbols : \A s \in syms[f].locals : Complete(Ty(s))
      BY <1>0 DEF IInv, EmissionOK
    <2> QED
      BY <1>0, <1>8, <2>1, <2>2, <2>3, <2>4 DEF EmissionOK, Ty
  <1> QED
    BY <1>10, <1>11, <1>12, <1>13, <1>14, <1>15, <1>16, <1>17, <1>18 DEF IInv

(* The scopes after leave_scope. *)
LEMMA LeaveScope ==
  ASSUME IInv, Len(scopes) > 2, scopes' = Pop(scopes)
  PROVE  /\ scopes' \in Seq(ScopeRecords)
         /\ Len(scopes') = Len(scopes) - 1
         /\ \A i \in 1..Len(scopes') : i \in 1..Len(scopes) /\ scopes'[i] = scopes[i]
         /\ scopes'[1] = scopes[1]
  <1>1. scopes \in Seq(ScopeRecords) /\ Len(scopes) \in Nat
    BY DEF IInv, TypeOK, ScopeRecords
  <1>2. scopes # <<>>
    BY <1>1
  <1>3. /\ scopes' \in Seq(ScopeRecords) /\ Len(scopes') = Len(scopes) - 1
        /\ \A i \in 1..(Len(scopes) - 1) : scopes'[i] = scopes[i]
    BY <1>1, <1>2, PopSeq
  <1>4. \A i \in 1..(Len(scopes) - 1) : i \in 1..Len(scopes)
    BY <1>1
  <1>5. 1 \in 1..(Len(scopes) - 1)
    BY <1>1
  <1> QED
    BY <1>3, <1>4, <1>5

(* leave_block, as far as the two kinds of blocks agree. *)
LEMMA LeaveBlockInv ==
  ASSUME IInv, status = "running", LeaveBlock
  PROVE  IInv'
  <1> DEFINE n == Len(parser)
             outer == Pop(parser)
             rest == Pop(bstack)
             locals == Top(bstack)
             built == [Top(outer) EXCEPT !.at = "built"]
  <1>0. /\ scopes' = Pop(scopes)
        /\ UNCHANGED <<dsstack, curfn, extdefs, err, status>>
        /\ parser # <<>> /\ Top(parser).at = "block"
        /\ \/ /\ Top(outer).at = "body"
              /\ parser' = SetTop(outer, built)
              /\ bstack' = rest
              /\ syms' = [syms EXCEPT ![Top(outer).sym].body = TRUE,
                                      ![Top(outer).sym].locals = locals]
           \/ /\ Top(outer).at # "body"
              /\ parser' = outer
              /\ bstack' = SetTop(rest, Top(rest) \cup locals)
              /\ syms' = syms
    BY DEF LeaveBlock, In
  <1>1. /\ curfn # NoSym /\ n \in Nat \ {0} /\ n = Len(bstack) + 1 /\ Len(scopes) = n + 1
        /\ FunctionFrames = n /\ Len(bstack) \in Nat
        /\ \A i \in 1..n : parser[i].at \notin DeclaringStates
        /\ parser[n].at = "block"
    <2>1. "block" \notin DeclarationStates
      BY DEF DeclarationStates
    <2> QED
      BY <1>0, <2>1, InFunction
  <1>2. PICK m : m = n - 1
    OBVIOUS
  <1>3. /\ m \in Nat \ {0} /\ n = m + 1 /\ Len(bstack) = m /\ bstack # <<>>
        /\ parser[1].at = "body" /\ 1 \in 1..m /\ m \in 1..m
        /\ \A i \in 1..m : i \in 1..n /\ i # n
        /\ \A i \in 1..m : i > 1 => parser[i].at = "block" /\ parser[i].ctx = "block"
    <2>1. parser[1].at \in FunctionStates
      BY <1>1 DEF IInv, ParserShape
    <2>2. n # 1
      BY <1>1, <2>1 DEF FunctionStates
    <2>3. m \in Nat \ {0} /\ n = m + 1 /\ Len(bstack) = m /\ 1 \in 1..m /\ m \in 1..m
          /\ \A i \in 1..m : i \in 1..n /\ i # n
      BY <1>1, <1>2, <2>2
    <2>4. bstack # <<>>
      BY <2>3
    <2>5. parser[1].at = "body"
      BY <1>1, <2>4 DEF IInv, ParserShape
    <2>6. \A i \in 1..m : i > 1 => parser[i].at = "block" /\ parser[i].ctx = "block"
      BY <1>1, <2>3 DEF IInv, ParserShape
    <2> QED
      BY <2>3, <2>4, <2>5, <2>6
  <1>4. /\ outer \in Seq(Frames) /\ Len(outer) = m /\ outer # <<>>
        /\ \A i \in 1..m : outer[i] = parser[i]
        /\ Top(outer) = parser[m] /\ Top(outer) \in Frames
    <2>1. /\ outer \in Seq(Frames) /\ Len(outer) = m
          /\ \A i \in 1..m : outer[i] = parser[i]
      BY <1>0, <1>2, PopSeq DEF IInv, TypeOK
    <2>2. outer # <<>>
      BY <1>3, <2>1
    <2> HIDE DEF outer
    <2> QED
      BY <1>3, <2>1, <2>2, TopSeq
  <1>5. PICK blocks : blocks = SUBSET Nat
    OBVIOUS
  <1>6. /\ rest \in Seq(blocks) /\ Len(rest) = m - 1
        /\ \A i \in 1..(m - 1) : rest[i] = bstack[i]
        /\ locals \in blocks /\ locals = bstack[m]
    <2>1. bstack \in Seq(blocks)
      BY <1>5 DEF IInv, TypeOK
    <2>2. /\ rest \in Seq(blocks) /\ Len(rest) = m - 1
          /\ \A i \in 1..(m - 1) : rest[i] = bstack[i]
      BY <1>3, <2>1, PopSeq
    <2>3. locals \in blocks /\ locals = bstack[m]
      BY <1>3, <2>1, TopSeq
    <2> QED
      BY <2>2, <2>3
  <1>7. \A i \in 1..m : bstack[i] \subseteq Symbols
    BY <1>3 DEF IInv, TypeOK, NoDangling
  <1>8. /\ scopes' \in Seq(ScopeRecords)
        /\ Len(scopes') = n
        /\ \A i \in 1..Len(scopes') : i \in 1..Len(scopes) /\ scopes'[i] = scopes[i]
        /\ scopes'[1] = scopes[1]
    BY <1>0, <1>1, <1>3, LeaveScope
  <1>9. curfn \in Symbols /\ parser[1].sym = curfn /\ parser[1].ctx = "ext"
    BY <1>1, ExternalFacts DEF IInv, ParserShape
  <1> HIDE DEF outer, rest, locals, built
  (* The frames and the symbols that are left. *)
  <1> DEFINE SymbolsKept ==
               \A s \in Symbols : /\ syms'[s].name = syms[s].name
                                  /\ syms'[s].op = syms[s].op
                                  /\ syms'[s].level = syms[s].level
                                  /\ syms'[s].ty = syms[s].ty
                                  /\ \/ syms'[s].locals = syms[s].locals
                                     \/ syms'[s].locals = locals
                                  /\ s # curfn => syms'[s].body = syms[s].body
             FramesKept ==
               \A i \in 1..m : /\ parser'[i].sym = parser[i].sym
                               /\ parser'[i].params = parser[i].params
                               /\ parser'[i].ctx = parser[i].ctx
                               /\ i > 1 => parser'[i].at = "block"
             FunctionFrame ==
               IF m = 1 THEN parser'[1].at = "built" /\ syms'[curfn].body
               ELSE parser'[1].at = "body" /\ syms'[curfn].body = syms[curfn].body
  <1>10. /\ syms' \in Seq(SymbolRecords) /\ Len(syms') = Len(syms) /\ Symbols' = Symbols
         /\ parser' \in Seq(Frames) /\ Len(parser') = m
         /\ SymbolsKept /\ FramesKept /\ FunctionFrame
    <2> HIDE DEF SymbolsKept, FramesKept, FunctionFrame
    <2>1. CASE m = 1
      <3>1. Top(outer) = parser[1]
        BY <1>4, <2>1
      <3>2. /\ parser' = SetTop(outer, built)
            /\ syms' = [syms EXCEPT ![curfn].body = TRUE, ![curfn].locals = locals]
        BY <1>0, <1>3, <1>9, <3>1
      <3>3. /\ built \in Frames /\ built.at = "built" /\ built.ctx = parser[1].ctx
            /\ built.sym = parser[1].sym /\ built.params = parser[1].params
        BY <1>4, <3>1 DEF built, Frames, FunctionStates
      <3>4. /\ parser' \in Seq(Frames) /\ Len(parser') = m
            /\ \A i \in 1..m : parser'[i] = IF i = m THEN built ELSE outer[i]
        <4>1. /\ SetTop(outer, built) \in Seq(Frames) /\ Len(SetTop(outer, built)) = Len(outer)
              /\ \A i \in 1..Len(outer) : SetTop(outer, built)[i] = IF i = Len(outer) THEN built ELSE outer[i]
          <5>1. built \in Frames /\ outer \in Seq(Frames) /\ outer # <<>>
            BY <1>4, <3>3
          <5> QED
            BY <5>1, SetTopSeq
        <4> QED
          BY <1>4, <3>2, <4>1
      <3> DEFINE e == [syms[curfn] EXCEPT !.body = TRUE, !.locals = locals]
      <3>5. /\ e \in SymbolRecords /\ e.name = syms[curfn].name /\ e.op = syms[curfn].op
            /\ e.level = syms[curfn].level /\ e.ty = syms[curfn].ty /\ e.locals = locals /\ e.body = TRUE
        <4>1. syms[curfn] \in SymbolRecords /\ locals \in SUBSET Nat
          BY <1>5, <1>6, <1>9, SymbolFacts
        <4> QED
          BY <4>1 DEF SymbolRecords
      <3>6. syms' = [syms EXCEPT ![curfn] = e]
        BY <3>2
      <3> HIDE DEF e
      <3>7. /\ syms' \in Seq(SymbolRecords) /\ Len(syms') = Len(syms)
            /\ \A s \in Symbols : syms'[s] = IF s = curfn THEN e ELSE syms[s]
        BY <1>9, <3>5, <3>6, ExceptSeq DEF IInv, TypeOK, Symbols
      <3>8. \A i \in 1..m : i = 1 /\ parser'[i] = built
        BY <2>1, <3>4
      <3>9. Symbols' = Symbols
        BY <3>7 DEF Symbols
      <3>10. SymbolsKept /\ syms'[curfn].body
        BY <1>9, <3>5, <3>7 DEF SymbolsKept
      <3>11. FramesKept /\ parser'[1].at = "built"
        BY <1>3, <3>3, <3>8 DEF FramesKept
      <3>12. parser' \in Seq(Frames) /\ Len(parser') = m
        BY <3>4
      <3>13. syms' \in Seq(SymbolRecords) /\ Len(syms') = Len(syms)
        BY <3>7
      <3>14. FunctionFrame
        BY <2>1, <3>10, <3>11 DEF FunctionFrame
      <3> QED
        BY <3>9, <3>10, <3>11, <3>12, <3>13, <3>14
    <2>2. CASE m # 1
      <3>1. Top(outer).at # "body"
        BY <1>3, <1>4, <2>2
      <3>2. parser' = outer /\ syms' = syms
        BY <1>0, <3>1
      <3> QED
        BY <1>3, <1>4, <2>2, <3>2 DEF Symbols, IInv, TypeOK, SymbolsKept, FramesKept, FunctionFrame
    <2> QED
      BY <2>1, <2>2
  <1>11. /\ bstack' \in Seq(SUBSET Nat) /\ Len(bstack') = m - 1
         /\ \A i \in 1..(m - 1) : bstack'[i] \subseteq (bstack[i] \cup locals)
         /\ bstack' = <<>> <=> m = 1
    <2>1. CASE m = 1
      <3>1. Top(outer).at = "body"
        BY <1>3, <1>4, <2>1
      <3>2. bstack' = rest
        BY <1>0, <3>1
      <3>3. bstack' = <<>>
        BY <1>6, <2>1, <3>2, EmptySeq
      <3> QED
        BY <1>5, <1>6, <2>1, <3>2, <3>3
    <2>2. CASE m # 1
      <3>1. Top(outer).at # "body"
        BY <1>3, <1>4, <2>2
      <3> DEFINE b == Top(rest) \cup locals
      <3>2. bstack' = SetTop(rest, b)
        BY <1>0, <3>1
      <3>3. m - 1 \in Nat \ {0} /\ rest # <<>>
        BY <1>3, <1>6, <2>2
      <3>4. Top(rest) \in blocks /\ Top(rest) = rest[m - 1]
        BY <1>6, <3>3, TopSeq
      <3>5. b \in blocks /\ b = bstack[m - 1] \cup locals
        BY <1>5, <1>6, <3>3, <3>4
      <3> HIDE DEF b
      <3>6. /\ SetTop(rest, b) \in Seq(blocks) /\ Len(SetTop(rest, b)) = Len(rest)
            /\ \A i \in 1..Len(rest) : SetTop(rest, b)[i] = IF i = Len(rest) THEN b ELSE rest[i]
        <4>1. b \in blocks /\ rest \in Seq(blocks)
          BY <1>6, <3>5
        <4> QED
          BY <3>3, <4>1, SetTopSeq
      <3>7. /\ bstack' \in Seq(blocks) /\ Len(bstack') = m - 1
            /\ \A i \in 1..(m - 1) : bstack'[i] = IF i = m - 1 THEN b ELSE bstack[i]
        BY <1>6, <3>2, <3>6
      <3>8. bstack' # <<>>
        BY <3>3, <3>7
      <3> QED
        BY <1>5, <2>2, <3>5, <3>7, <3>8
    <2> QED
      BY <2>1, <2>2
  <1>12. FunctionFrames' = m
    BY <1>0, <1>1, <1>3, <1>11 DEF FunctionFrames
  <1>13. TypeOK'
    <2>1. \A i \in 1..m : /\ parser'[i].sym <= Len(syms)
                          /\ \A k \in 1..Len(parser'[i].params) : parser'[i].params[k] \in Symbols
      BY <1>3, <1>10 DEF IInv, TypeOK, NoDangling
    <2>2. locals \subseteq Symbols
      BY <1>3, <1>6, <1>7
    <2>3. \A s \in Symbols : /\ \A k \in 1..Len(syms'[s].ty.params) : syms'[s].ty.params[k] \in Symbols
                             /\ syms'[s].locals \subseteq Symbols
      BY <1>10, <2>2, SymbolFacts DEF Ty
    <2>4. \A i \in 1..(m - 1) : i \in 1..m /\ bstack'[i] \subseteq Symbols
      <3> SUFFICES ASSUME NEW i \in 1..(m - 1) PROVE i \in 1..m /\ bstack'[i] \subseteq Symbols
        OBVIOUS
      <3>1. i \in 1..m
        BY <1>3
      <3> QED
        BY <1>7, <1>11, <2>2, <3>1
    <2>5. \A i \in 1..Len(scopes'), x \in Names : scopes'[i].names[x] <= Len(syms)
      BY <1>8, ScopeNames
    <2>6. NoDangling'
      BY <1>0, <1>10, <1>11, <2>1, <2>3, <2>4, <2>5 DEF IInv, TypeOK, NoDangling, Ty
    <2> QED
      BY <1>0, <1>8, <1>10, <1>11, <2>6 DEF IInv, TypeOK, ScopeRecords
  <1>14. ParserShape'
    BY <1>0, <1>1, <1>3, <1>9, <1>10, <1>11, <1>12 DEF ParserShape, FunctionStates
  <1>15. ScopeShape' /\ DsstackShape'
    <2>1. Len(dsstack) \in Nat
      BY DEF IInv, TypeOK
    <2>2. ScopeShape'
      BY <1>3, <1>8, <1>12 DEF IInv, ScopeShape
    <2> QED
      BY <1>0, <1>3, <1>10, <1>12, <2>1, <2>2 DEF DsstackShape
  <1>16. DeclaringFresh' /\ DeclaringOnce' /\ DeclaringFrames'
    <2>1. \A i \in 1..m : parser'[i].at \notin DeclaringStates
      BY <1>3, <1>10 DEF DeclaringStates
    <2>2. \A i \in 1..m : \A k \in 1..Len(parser'[i].params) : parser'[i].params[k] # NoSym
      BY <1>3, <1>10 DEF IInv, DeclaringFrames
    <2> QED
      BY <1>10, <2>1, <2>2, NoDeclaration
  <1>17. FunctionsOK'
    BY <1>10 DEF IInv, FunctionsOK, Ty
  <1>18. ParametersOK'
    <2> SUFFICES ASSUME NEW f \in Symbols, NEW k \in 1..Len(syms'[f].ty.params)
                 PROVE  /\ syms'[syms'[f].ty.params[k]].ty # NoType
                        /\ syms'[syms'[f].ty.params[k]].level = syms'[f].level
      BY <1>10 DEF ParametersOK, Ty
    <2>1. syms'[f].ty = syms[f].ty /\ syms'[f].level = syms[f].level
      BY <1>10
    <2> DEFINE p == syms[f].ty.params[k]
    <2>2. p \in Symbols /\ syms'[f].ty.params[k] = p
      BY <2>1, SymbolFacts DEF Ty
    <2>3. syms[p].ty # NoType /\ syms[p].level = syms[f].level
      BY <2>1 DEF IInv, ParametersOK, Ty
    <2>4. syms'[p].ty = syms[p].ty /\ syms'[p].level = syms[p].level
      BY <1>10, <2>2
    <2> HIDE DEF p
    <2> QED
      BY <2>1, <2>2, <2>3, <2>4
  <1>19. InScopeOK'
    <2> SUFFICES ASSUME NEW i \in 1..Len(scopes'), NEW x \in Names, scopes'[i].names[x] # NoSym
                 PROVE  /\ syms'[scopes'[i].names[x]].name = x
                        /\ syms'[scopes'[i].names[x]].ty # NoType
                        /\ syms'[scopes'[i].names[x]].level = IF i = 2 THEN 0 ELSE i - 1
      BY DEF InScopeOK, Ty
    <2>1. i \in 1..Len(scopes) /\ scopes'[i] = scopes[i]
      BY <1>8
    <2>2. scopes[i].names[x] \in Symbols
      BY <2>1, ScopeNames
    <2>3. /\ syms[scopes[i].names[x]].name = x
          /\ syms[scopes[i].names[x]].ty # NoType
          /\ syms[scopes[i].names[x]].level = IF i = 2 THEN 0 ELSE i - 1
      BY <2>1 DEF IInv, InScopeOK, Ty
    <2> QED
      BY <1>10, <2>1, <2>2, <2>3
  <1>20. ExternalsOK'
    <2>1. ASSUME NEW i \in 1..Len(extdefs)
          PROVE  /\ scopes'[1].names[syms'[extdefs[i]].name] = extdefs[i]
                 /\ Op(syms'[extdefs[i]].ty) = "Kfun" => syms'[extdefs[i]].body \/ extdefs[i] = curfn
      <3>1. extdefs[i] \in Symbols
        BY ExternalFacts
      <3> QED
        BY <1>8, <1>10, <3>1 DEF IInv, ExternalsOK, Ty
    <2>2. \A i, j \in 1..Len(extdefs) : extdefs[j] = extdefs[i] => j = i
      BY DEF IInv, ExternalsOK
    <2>3. /\ Op(syms'[curfn].ty) = "Kfun"
          /\ scopes'[1].names[syms'[curfn].name] = curfn
      BY <1>1, <1>8, <1>9, <1>10 DEF IInv, ExternalsOK, Ty
    <2>4. syms'[curfn].body <=> parser'[1].at = "built"
      <3>1. ~syms[curfn].body
        BY <1>1, <1>3 DEF IInv, ExternalsOK
      <3> QED
        BY <1>10, <3>1
    <2> QED
      BY <1>0, <2>1, <2>2, <2>3, <2>4 DEF ExternalsOK, Ty
  <1>21. ErrorsReported'
    BY <1>0, <1>10 DEF IInv, ErrorsReported, Ty
  <1>22. EmissionOK'
    <2>1. ASSUME NEW i \in 1..Len(extdefs), Emittable(extdefs[i]) PROVE Emittable(extdefs[i])'
      <3>1. extdefs'[i] = extdefs[i] /\ extdefs[i] \in Symbols
        BY <1>0, ExternalFacts
      <3>2. syms'[extdefs[i]].op = syms[extdefs[i]].op /\ syms'[extdefs[i]].ty = syms[extdefs[i]].ty
        BY <1>10, <3>1
      <3>3. \A k \in 1..Len(syms[extdefs[i]].ty.params) :
              syms'[syms[extdefs[i]].ty.params[k]].ty = syms[syms[extdefs[i]].ty.params[k]].ty
        BY <1>10, <3>1, SymbolFacts DEF Ty
      <3> QED
        BY <2>1, <3>1, <3>2, <3>3 DEF Emittable, Ty
    <2> SUFFICES ASSUME ~err
                 PROVE  /\ \A i \in 1..Len(extdefs) : Emittable(extdefs[i])'
                        /\ \A i \in 1..(m - 1) : \A s \in bstack'[i] : Complete(syms'[s].ty)
                        /\ \A f \in Symbols : \A s \in syms'[f].locals : Complete(syms'[s].ty)
      BY <1>0, <1>10, <1>11 DEF EmissionOK, Ty
    <2>2. /\ \A i \in 1..Len(extdefs) : Emittable(extdefs[i])
          /\ \A i \in 1..m : \A s \in bstack[i] : Complete(syms[s].ty)
          /\ \A f \in Symbols : \A s \in syms[f].locals : Complete(syms[s].ty)
      BY <1>3 DEF IInv, EmissionOK, Ty
    <2>3. \A s \in locals : s \in Symbols /\ Complete(syms'[s].ty)
      BY <1>3, <1>6, <1>7, <1>10, <2>2
    <2>4. \A i \in 1..(m - 1) : \A s \in bstack'[i] : Complete(syms'[s].ty)
      <3> SUFFICES ASSUME NEW i \in 1..(m - 1), NEW s \in bstack'[i] PROVE Complete(syms'[s].ty)
        OBVIOUS
      <3>1. i \in 1..m
        BY <1>3
      <3> QED
        BY <1>7, <1>10, <1>11, <2>2, <2>3, <3>1
    <2>5. \A f \in Symbols : \A s \in syms'[f].locals : Complete(syms'[s].ty)
      BY <1>10, <2>2, <2>3, SymbolFacts
    <2> QED
      BY <2>1, <2>2, <2>4, <2>5
  <1> QED
    BY <1>13, <1>14, <1>15, <1>16, <1>17, <1>18, <1>19, <1>20, <1>21, <1>22 DEF IInv

(* A function is defined where nothing else is open. *)
LEMMA DefinitionFacts ==
  ASSUME IInv, DefinitionPoint
  PROVE  /\ curfn = NoSym
         /\ parser # <<>> /\ Len(parser) = 1
         /\ Len(scopes) = 1 /\ CurLevel = 0
         /\ bstack = <<>>
         /\ Top(parser) = parser[1]
         /\ Top(parser) \in Frames
         /\ Top(parser).sym \in Symbols
         /\ Declaring(Top(parser).sym)
  <1>1. /\ parser # <<>> /\ Top(parser).at \in {"declarator", "pointer"} /\ Top(parser).ctx = "ext"
    BY DEF DefinitionPoint, DeclaratorRead, In
  <1>2. Top(parser) \in Frames /\ Top(parser) = parser[Len(parser)] /\ Len(parser) \in Nat \ {0}
    BY <1>1, TopFacts
  <1>3. FunctionFrames \in Nat /\ Len(scopes) \in Nat /\ CurLevel = Len(scopes) - 1 /\ Len(bstack) \in Nat
    BY ScopeFacts
  <1>4. Len(parser) > FunctionFrames
    <2>0. SUFFICES ASSUME Len(parser) <= FunctionFrames PROVE FALSE
      BY <1>2, <1>3
    <2>1. curfn # NoSym
      BY <1>2, <2>0 DEF FunctionFrames
    <2>2. CASE Len(parser) = 1
      BY <1>1, <1>2, <2>1, <2>2 DEF IInv, ParserShape, FunctionStates
    <2>3. CASE Len(parser) # 1
      <3>1. Len(parser) \in 1..Len(parser) /\ 1 < Len(parser)
        <4> DEFINE n == Len(parser)
        <4>1. n \in Nat \ {0} /\ n # 1
          BY <1>2, <2>3
        <4> HIDE DEF n
        <4>2. n \in 1..n /\ 1 < n
          BY <4>1
        <4> QED
          BY <4>2 DEF n
      <3>2. parser[Len(parser)].at = "block"
        BY <2>0, <3>1 DEF IInv, ParserShape
      <3> QED
        BY <1>1, <1>2, <3>2
    <2> QED
      BY <2>2, <2>3
  <1>5. curfn = NoSym /\ Len(parser) = FunctionFrames + 1
    BY <1>1, <1>2, <1>3, <1>4 DEF IInv, ParserShape
  <1>6. FunctionFrames = 0 /\ bstack = <<>>
    BY <1>5 DEF IInv, ParserShape, FunctionFrames
  <1>7. Top(parser).sym \in Symbols /\ Declaring(Top(parser).sym)
    BY <1>1, TopSym DEF DeclaringStates
  <1> QED
    BY <1>1, <1>2, <1>3, <1>5, <1>6, <1>7 DEF IInv, ScopeShape

(* The table of the parameters holds nothing but parameters, under their   *)
(* names.                                                                  *)
LEMMA ParamTableFacts ==
  ASSUME IInv, NEW f \in Symbols
  PROVE  /\ ParamTable(Ty(f).params) \in [Names -> Nat]
         /\ \A n \in Names :
              LET p == ParamTable(Ty(f).params)[n] IN
              p # NoSym => /\ p \in Symbols /\ Parameter(p)
                           /\ syms[p].name = n
                           /\ Ty(p) # NoType
                           /\ syms[p].level = syms[f].level
  <1> DEFINE ps == Ty(f).params
             at(n) == {i \in 1..Len(ps) : syms[ps[i]].name = n}
             last(n) == CHOOSE i \in at(n) : \A j \in at(n) : j <= i
             table == ParamTable(ps)
  <1>1. ps \in Seq(Nat)
    BY SymbolFacts DEF TypeRecords
  <1>2. ASSUME NEW n \in Names, at(n) # {}
        PROVE  last(n) \in 1..Len(ps) /\ syms[ps[last(n)]].name = n
    <2>1. at(n) \subseteq 1..Len(ps) /\ Len(ps) \in Nat
      BY <1>1
    <2>2. \E i \in at(n) : \A j \in at(n) : j <= i
      <3> HIDE DEF at
      <3> QED
        BY <1>2, <2>1, HasGreatest
    <2>3. last(n) \in at(n)
      BY <2>2
    <2> QED
      BY <2>3
  <1>3. table = [n \in Names |-> IF at(n) = {} THEN NoSym ELSE ps[last(n)]]
    BY DEF ParamTable
  <1>4. ASSUME NEW n \in Names
        PROVE  \/ table[n] = NoSym
               \/ \E k \in 1..Len(ps) : table[n] = ps[k] /\ syms[ps[k]].name = n
    <2>1. table[n] = IF at(n) = {} THEN NoSym ELSE ps[last(n)]
      BY <1>3
    <2> QED
      BY <1>2, <2>1
  <1>5. \A k \in 1..Len(ps) : ps[k] \in Symbols /\ ps[k] \in Nat
    BY SymbolFacts DEF Symbols
  <1>6. table \in [Names -> Nat]
    <2>1. \A n \in Names : table[n] \in Nat
      BY <1>4, <1>5 DEF NoSym
    <2> QED
      BY <1>3, <2>1
  <1>7. \A k \in 1..Len(ps) : Ty(ps[k]) # NoType /\ syms[ps[k]].level = syms[f].level
    BY DEF IInv, ParametersOK
  <1>8. \A k \in 1..Len(ps) : Parameter(ps[k])
    BY DEF Parameter
  <1> HIDE DEF ps, table
  <1> QED
    <2>1. \A n \in Names : table[n] # NoSym => /\ table[n] \in Symbols /\ Parameter(table[n])
                                               /\ syms[table[n]].name = n
                                               /\ Ty(table[n]) # NoType
                                               /\ syms[table[n]].level = syms[f].level
      BY <1>4, <1>5, <1>7, <1>8
    <2> QED
      BY <1>6, <2>1 DEF table, ps

(* The symbol a definition enters. *)
LEMMA DefinedFacts ==
  ASSUME IInv, DefinitionPoint, NEW f, f = DefinedSymbol(Top(parser).sym), f # NoSym
  PROVE  LET s == Top(parser).sym IN
         /\ f \in Symbols
         /\ syms[f].name = syms[s].name
         /\ Op(Ty(f)) = "Kfun" /\ syms[f].op = "Sfunc"
         /\ syms[f].level = 0
         /\ syms[f].body = FALSE
         /\ f = s \/ Ty(f).params = <<>>
         /\ scopes[1].names[syms[s].name] \in {NoSym, f}
  <1> DEFINE s == Top(parser).sym
             p == Previous(s)
             n == syms[s].name
  <1>1. s \in Symbols /\ Declaring(s) /\ n \in Names /\ Len(scopes) = 1 /\ CurLevel = 0
    BY DefinitionFacts, SymbolFacts
  <1>2. /\ Op(Ty(s)) = "Kfun"
        /\ p # NoSym => ~syms[p].body /\ Compatible(Ty(p), Ty(s))
        /\ f = IF p # NoSym THEN p ELSE s
    BY DEF DefinedSymbol
  <1>3. p = scopes[1].names[n]
    <2>1. \A i \in 1..Len(scopes) : i = 1
      BY <1>1
    <2>2. 1 \in 1..Len(scopes)
      BY <1>1
    <2> QED
      BY <1>1, <2>1, <2>2, ResolveIs DEF Previous
  <1>4. CASE p = NoSym
    <2>1. f = s
      BY <1>2, <1>4
    <2>2. syms[s].level = 0 /\ syms[s].body = FALSE
      BY <1>1 DEF IInv, DeclaringFresh
    <2>3. syms[s].op = "Sfunc"
      BY <1>1, <1>2 DEF IInv, FunctionsOK
    <2> QED
      BY <1>1, <1>2, <1>3, <1>4, <2>1, <2>2, <2>3
  <1>5. CASE p # NoSym
    <2>1. f = p /\ 1 \in 1..Len(scopes)
      BY <1>1, <1>2, <1>5
    <2>2. p \in Symbols
      BY <1>1, <1>3, <1>5, <2>1, ScopeNames
    <2>3. syms[p].name = n /\ syms[p].level = 0
      BY <1>1, <1>3, <1>5, <2>1 DEF IInv, InScopeOK
    <2>4. Ty(s) \in TypeRecords /\ Ty(p) \in TypeRecords /\ syms[p].body \in BOOLEAN
      BY <1>1, <2>2, SymbolFacts DEF SymbolRecords
    <2>5. Ty(s).core = "fun" /\ Ty(s).depth = 0
      BY <1>2, <2>4 DEF Op, TypeRecords
    <2>6. Op(Ty(p)) = "Kfun" /\ Ty(p).params = <<>>
      BY <1>2, <1>5, <2>4, <2>5 DEF Compatible, ParametersCompatible, Op, TypeRecords
    <2>7. syms[p].op = "Sfunc"
      BY <2>2, <2>6 DEF IInv, FunctionsOK
    <2> HIDE DEF s, p, n
    <2>8. syms[p].body = FALSE
      BY <1>2, <1>5, <2>4
    <2> QED
      BY <1>3, <2>1, <2>2, <2>3, <2>6, <2>7, <2>8 DEF s, n
  <1> QED
    BY <1>4, <1>5

(* define_function and enter_fun. *)
LEMMA DefineFunctionInv ==
  ASSUME IInv, status = "running", DefineFunction
  PROVE  IInv'
  <1> DEFINE s == Top(parser).sym
             f == DefinedSymbol(s)
             table == ParamTable(Ty(f).params)
             scope == [level |-> CurLevel + 1, names |-> table]
             g == [Frame("entered", "ext") EXCEPT !.sym = f]
             nm == syms[s].name
  <1>1. /\ DefinitionPoint /\ curfn = NoSym /\ Len(scopes) = 1 /\ CurLevel = 0
        /\ bstack = <<>> /\ Len(parser) = 1 /\ parser # <<>>
        /\ s \in Symbols /\ Declaring(s)
    BY DefinitionFacts DEF DefineFunction
  <1>2. err' \in BOOLEAN /\ (err => err')
    BY ErrType DEF DefineFunction
  <1>3. CASE f = NoSym /\ Crash
    <2>1. err'
      <3>1. Ty(s) = NoType => err
        BY <1>1 DEF IInv, ErrorsReported
      <3> QED
        BY <1>3, <3>1 DEF DefineFunction
    <2>2. /\ UNCHANGED <<parser, dsstack, syms, scopes, bstack, curfn, extdefs>>
          /\ status' = "crashed"
      BY <1>3 DEF Crash
    <2> QED
      BY <1>2, <2>1, <2>2, QuietStep
  <1>4. CASE /\ f # NoSym
             /\ scopes' = Append(Install(f), scope)
             /\ extdefs' = Append(extdefs, f)
             /\ curfn' = f
             /\ parser' = SetTop(parser, g)
             /\ UNCHANGED <<dsstack, syms, bstack, status>>
    <2>1. /\ f \in Symbols
          /\ syms[f].name = nm
          /\ Op(Ty(f)) = "Kfun" /\ syms[f].op = "Sfunc"
          /\ syms[f].level = 0
          /\ syms[f].body = FALSE
          /\ f = s \/ Ty(f).params = <<>>
          /\ scopes[1].names[nm] \in {NoSym, f}
      BY <1>1, <1>4, DefinedFacts
    <2>2. ~err' => ~err /\ ValidFuncty(s, TRUE)
      BY <1>4 DEF DefineFunction
    <2>3. /\ table \in [Names -> Nat]
          /\ \A n \in Names :
               table[n] # NoSym => /\ table[n] \in Symbols /\ Parameter(table[n])
                                   /\ syms[table[n]].name = n
                                   /\ Ty(table[n]) # NoType
                                   /\ syms[table[n]].level = 0
      <3>1. /\ table \in [Names -> Nat]
            /\ \A n \in Names :
                 table[n] # NoSym => /\ table[n] \in Symbols /\ Parameter(table[n])
                                     /\ syms[table[n]].name = n
                                     /\ Ty(table[n]) # NoType
                                     /\ syms[table[n]].level = syms[f].level
        BY <2>1, ParamTableFacts
      <3> QED
        BY <2>1, <3>1
    <2>4. /\ Install(f) \in Seq(ScopeRecords) /\ Len(Install(f)) = 1
          /\ Install(f)[1].level = 0
          /\ \A n \in Names : Install(f)[1].names[n] = IF n = nm THEN f ELSE scopes[1].names[n]
      <3>1. 1 \in 1..Len(scopes) /\ scopes[1].level = 0
        BY <1>1 DEF IInv, ScopeShape
      <3> QED
        BY <1>1, <2>1, <3>1, InstallFacts
    <2>5. scope \in ScopeRecords /\ scope.level = 1 /\ scope.names = table
      BY <1>1, <2>3 DEF ScopeRecords
    <2> HIDE DEF f, table, scope
    <2>6. /\ g \in Frames /\ g.at = "entered" /\ g.ctx = "ext" /\ g.sym = f /\ g.params = <<>>
      <3>1. f \in Nat
        BY <2>1 DEF Symbols
      <3> QED
        BY <3>1, EmptySeq DEF Frame, Frames, FunctionStates, NoSym
    <2> HIDE DEF g
    <2>7. /\ scopes' \in Seq(ScopeRecords) /\ Len(scopes') = 2
          /\ scopes'[1] = Install(f)[1] /\ scopes'[2] = scope
      BY <1>4, <2>4, <2>5, AppendSeq
    <2>8. /\ parser' \in Seq(Frames) /\ Len(parser') = 1 /\ parser'[1] = g
      <3>1. parser \in Seq(Frames)
        BY DEF IInv, TypeOK
      <3>2. /\ SetTop(parser, g) \in Seq(Frames) /\ Len(SetTop(parser, g)) = Len(parser)
            /\ \A i \in 1..Len(parser) : SetTop(parser, g)[i] = IF i = Len(parser) THEN g ELSE parser[i]
        <4>1. g \in Frames /\ parser # <<>>
          BY <1>1, <2>6
        <4> QED
          BY <3>1, <4>1, SetTopSeq
      <3> QED
        BY <1>1, <1>4, <3>2
    <2>9. /\ extdefs' \in Seq(Nat) /\ Len(extdefs) \in Nat /\ Len(extdefs') = Len(extdefs) + 1
          /\ \A i \in 1..(Len(extdefs) + 1) : extdefs'[i] = IF i = Len(extdefs) + 1 THEN f ELSE extdefs[i]
      <3>1. f \in Nat /\ extdefs \in Seq(Nat)
        BY <2>1 DEF IInv, TypeOK, Symbols
      <3> QED
        BY <1>4, <3>1, AppendSeq
    <2>10. Symbols' = Symbols /\ f # NoSym /\ nm \in Names /\ f <= Len(syms) /\ f \in Nat
      BY <1>1, <1>4, <2>1, SymbolFacts DEF Symbols
    <2>11. FunctionFrames' = 1
      BY <1>1, <1>4 DEF FunctionFrames
    <2>12. \A n \in Names : \/ scopes'[1].names[n] = scopes[1].names[n]
                            \/ n = nm /\ scopes'[1].names[n] = f
      BY <2>4, <2>7
    <2>13. \A i \in 1..Len(scopes') : i = 1 \/ i = 2
      BY <2>7
    <2>14. 1 \in 1..Len(scopes)
      BY <1>1
    <2>15. TypeOK'
      <3>1. ASSUME NEW n \in Names PROVE scopes'[1].names[n] <= Len(syms) /\ scopes'[2].names[n] <= Len(syms)
        <4>1. scopes'[1].names[n] <= Len(syms)
          BY <2>10, <2>12, <2>14, ScopeNames
        <4>2. table[n] <= Len(syms)
          <5>1. Len(syms) \in Nat /\ table[n] \in Nat
            BY <2>3, SymbolFacts
          <5>2. table[n] # 0 => table[n] \in 1..Len(syms)
            BY <2>3 DEF Symbols, NoSym
          <5> QED
            BY <5>1, <5>2
        <4> QED
          BY <2>5, <2>7, <4>1, <4>2
      <3>2. \A i \in 1..Len(scopes'), n \in Names : scopes'[i].names[n] <= Len(syms)
        BY <2>13, <3>1
      <3>3. \A i \in 1..Len(extdefs') : extdefs'[i] \in Symbols
        BY <2>1, <2>9, ExternalFacts
      <3>4. \A i \in 1..Len(parser') : /\ parser'[i].sym <= Len(syms)
                                       /\ \A k \in 1..Len(parser'[i].params) : parser'[i].params[k] \in Symbols
        <4>1. \A i \in 1..Len(parser') : parser'[i] = g
          BY <2>8
        <4> QED
          BY <2>6, <2>10, <4>1, EmptySeq
      <3>5. NoDangling'
        BY <1>4, <2>10, <3>2, <3>3, <3>4 DEF IInv, TypeOK, NoDangling, Ty
      <3> QED
        BY <1>2, <1>4, <2>7, <2>8, <2>9, <2>10, <3>5 DEF IInv, TypeOK, ScopeRecords
    <2>16. ParserShape'
      <3>1. \A i \in 1..Len(parser') : i = 1
        BY <2>8
      <3>2. bstack' = <<>>
        BY <1>1, <1>4
      <3> QED
        BY <1>4, <2>6, <2>8, <2>10, <2>11, <3>1, <3>2 DEF ParserShape, FunctionStates
    <2>17. ScopeShape' /\ DsstackShape'
      <3>1. Len(dsstack) \in Nat
        BY DEF IInv, TypeOK
      <3>2. ScopeShape'
        BY <2>4, <2>5, <2>7, <2>11, <2>13 DEF ScopeShape
      <3> QED
        BY <1>4, <2>8, <2>11, <3>1, <3>2 DEF DsstackShape
    <2>18. DeclaringFresh' /\ DeclaringOnce' /\ DeclaringFrames'
      <3>1. \A i \in 1..Len(parser') : parser'[i] = g
        BY <2>8
      <3> QED
        BY <2>6, <3>1, EmptySeq, NoDeclaration DEF DeclaringStates
    <2>19. FunctionsOK' /\ ParametersOK'
      BY <1>4, <2>10 DEF IInv, FunctionsOK, ParametersOK, Ty
    <2>20. InScopeOK'
      <3> SUFFICES ASSUME NEW n \in Names
                   PROVE  /\ scopes'[1].names[n] # NoSym =>
                               /\ syms[scopes'[1].names[n]].name = n
                               /\ Ty(scopes'[1].names[n]) # NoType
                               /\ syms[scopes'[1].names[n]].level = 0
                          /\ scopes'[2].names[n] # NoSym =>
                               /\ syms[scopes'[2].names[n]].name = n
                               /\ Ty(scopes'[2].names[n]) # NoType
                               /\ syms[scopes'[2].names[n]].level = 0
        BY <1>4, <2>13 DEF InScopeOK, Ty
      <3>1. scopes'[2].names[n] = table[n]
        BY <2>5, <2>7
      <3>2. CASE scopes'[1].names[n] = scopes[1].names[n]
        <4>1. scopes[1].names[n] # NoSym =>
                /\ syms[scopes[1].names[n]].name = n
                /\ Ty(scopes[1].names[n]) # NoType
                /\ syms[scopes[1].names[n]].level = 0
          BY <2>14 DEF IInv, InScopeOK
        <4> QED
          BY <2>3, <3>1, <3>2, <4>1
      <3>3. CASE n = nm /\ scopes'[1].names[n] = f
        <4>1. Ty(f) # NoType
          BY <2>1 DEF Op, NoType, TypeOf
        <4> QED
          BY <2>1, <2>3, <3>1, <3>3, <4>1
      <3> QED
        BY <2>12, <3>2, <3>3
    <2>21. ExternalsOK'
      <3>1. \A i \in 1..Len(extdefs) : /\ extdefs[i] \in Symbols
                                       /\ syms[extdefs[i]].name \in Names
                                       /\ scopes[1].names[syms[extdefs[i]].name] = extdefs[i]
                                       /\ Op(Ty(extdefs[i])) = "Kfun" => syms[extdefs[i]].body
        BY <1>1, ExternalFacts, SymbolFacts DEF IInv, ExternalsOK, Symbols, NoSym
      <3>2. \A i \in 1..Len(extdefs) : extdefs[i] # f
        BY <2>1, <3>1
      <3>3. \A i \in 1..Len(extdefs) : syms[extdefs[i]].name # nm
        BY <2>1, <3>1, <3>2 DEF Symbols, NoSym
      <3>4. \A i \in 1..Len(extdefs) : scopes'[1].names[syms[extdefs[i]].name] = extdefs[i]
        BY <2>12, <3>1, <3>3
      <3>5. scopes'[1].names[syms[f].name] = f
        BY <2>1, <2>4, <2>7, <2>10
      <3>6. ASSUME NEW i \in 1..Len(extdefs')
            PROVE  /\ scopes'[1].names[syms[extdefs'[i]].name] = extdefs'[i]
                   /\ Op(Ty(extdefs'[i])) = "Kfun" => syms[extdefs'[i]].body \/ extdefs'[i] = f
                   /\ \A j \in 1..Len(extdefs') : extdefs'[j] = extdefs'[i] => j = i
        <4>1. CASE i = Len(extdefs) + 1
          <5>1. extdefs'[i] = f
            BY <2>9, <4>1
          <5>2. ASSUME NEW j \in 1..Len(extdefs'), extdefs'[j] = extdefs'[i] PROVE j = i
            <6> SUFFICES ASSUME j # i PROVE FALSE
              OBVIOUS
            <6>1. j \in 1..Len(extdefs) /\ extdefs'[j] = extdefs[j]
              BY <2>9, <4>1
            <6> QED
              BY <3>2, <5>1, <5>2, <6>1
          <5> QED
            BY <3>5, <5>1, <5>2
        <4>2. CASE i # Len(extdefs) + 1
          <5>1. i \in 1..Len(extdefs) /\ extdefs'[i] = extdefs[i]
            BY <2>9, <4>2
          <5>2. ASSUME NEW j \in 1..Len(extdefs'), extdefs'[j] = extdefs'[i] PROVE j = i
            <6>1. CASE j = Len(extdefs) + 1
              BY <2>9, <3>2, <5>1, <5>2, <6>1
            <6>2. CASE j # Len(extdefs) + 1
              <7>1. j \in 1..Len(extdefs) /\ extdefs'[j] = extdefs[j]
                BY <2>9, <6>2
              <7> QED
                BY <5>1, <5>2, <7>1 DEF IInv, ExternalsOK
            <6> QED
              BY <6>1, <6>2
          <5> QED
            BY <3>1, <3>4, <5>1, <5>2
        <4> QED
          BY <4>1, <4>2
      <3>7. ~syms[f].body /\ parser'[1].at = "entered"
        BY <2>1, <2>6, <2>8
      <3> QED
        BY <1>4, <2>1, <3>5, <3>6, <3>7 DEF ExternalsOK, Ty
    <2>22. ErrorsReported'
      BY <1>2, <1>4, <2>10 DEF IInv, ErrorsReported, Ty
    <2>23. EmissionOK'
      <3> SUFFICES ASSUME ~err'
                   PROVE  /\ \A i \in 1..Len(extdefs') : Emittable(extdefs'[i])
                          /\ \A i \in 1..Len(bstack) : \A x \in bstack[i] : Complete(Ty(x))
                          /\ \A h \in Symbols : \A x \in syms[h].locals : Complete(Ty(x))
        BY <1>4, <2>10 DEF EmissionOK, Emittable, Ty
      <3>1. ~err /\ ValidFuncty(s, TRUE)
        BY <2>2
      <3>2. /\ \A i \in 1..Len(extdefs) : Emittable(extdefs[i])
            /\ \A i \in 1..Len(bstack) : \A x \in bstack[i] : Complete(Ty(x))
            /\ \A h \in Symbols : \A x \in syms[h].locals : Complete(Ty(x))
        BY <3>1 DEF IInv, EmissionOK
      <3>3. \A k \in 1..Len(Ty(f).params) : Complete(Ty(Ty(f).params[k]))
        <4>1. CASE f = s
          BY <3>1, <4>1 DEF ValidFuncty
        <4>2. CASE Ty(f).params = <<>>
          BY <4>2, EmptySeq
        <4> QED
          BY <2>1, <4>1, <4>2
      <3>4. Emittable(f)
        BY <2>1, <3>3 DEF Emittable
      <3>5. \A i \in 1..Len(extdefs') : Emittable(extdefs'[i])
        BY <2>9, <3>2, <3>4
      <3> QED
        BY <3>2, <3>5
    <2> QED
      BY <2>15, <2>16, <2>17, <2>18, <2>19, <2>20, <2>21, <2>22, <2>23 DEF IInv
  <1> QED
    BY <1>3, <1>4 DEF DefineFunction
-----------------------------------------------------------------------------
(* The invariant holds before anything is read. *)
LEMMA InitInductive == Init => IInv
  <1> SUFFICES ASSUME Init PROVE IInv
    OBVIOUS
  <1>1. /\ parser = <<>> /\ dsstack = <<>> /\ syms = <<>> /\ bstack = <<>> /\ extdefs = <<>>
        /\ curfn = 0 /\ err = FALSE /\ status = "running" /\ Symbols = {}
        /\ Len(scopes) = 1 /\ scopes[1].level = 0 /\ \A n \in Names : scopes[1].names[n] = 0
    BY DEF Init, EmptyTable, Symbols, NoSym
  <1>2. scopes \in Seq([level : Nat, names : [Names -> Nat]])
    <2>1. [level |-> 0, names |-> EmptyTable] \in ScopeRecords
      BY DEF EmptyTable, NoSym, ScopeRecords
    <2> QED
      BY <2>1 DEF Init, ScopeRecords
  <1>3. \A i \in 1..Len(scopes) : i = 1
    BY <1>1
  <1>4. /\ parser \in Seq(Frames) /\ syms \in Seq(SymbolRecords) /\ bstack \in Seq(SUBSET Nat)
        /\ extdefs \in Seq(Nat) /\ dsstack \in Seq([ts : SpecifierSets, empty : BOOLEAN])
    BY <1>1, EmptySeq
  <1>5. \A i : i \notin 1..Len(parser) /\ i \notin 1..Len(dsstack) /\ i \notin 1..Len(bstack) /\ i \notin 1..Len(extdefs)
    BY <1>1, EmptySeq
  <1>6. NoDangling
    BY <1>1, <1>3, <1>5, EmptySeq DEF NoDangling
  <1>7. TypeOK
    BY <1>1, <1>2, <1>4, <1>6 DEF TypeOK
  <1>8. FunctionFrames = 0 /\ Len(parser) = 0 /\ Len(dsstack) = 0
    BY <1>1, EmptySeq DEF FunctionFrames, NoSym
  <1>9. ParserShape /\ ScopeShape /\ DsstackShape
    BY <1>1, <1>3, <1>5, <1>8 DEF ParserShape, ScopeShape, DsstackShape, NoSym
  <1>10. DeclaringFresh /\ DeclaringOnce /\ DeclaringFrames /\ FunctionsOK /\ ParametersOK
    BY <1>1, <1>5 DEF DeclaringFresh, DeclaringOnce, DeclaringFrames, FunctionsOK, ParametersOK
  <1>11. InScopeOK /\ ExternalsOK /\ ErrorsReported /\ EmissionOK
    BY <1>1, <1>3, <1>5 DEF InScopeOK, ExternalsOK, ErrorsReported, EmissionOK, NoSym
  <1> QED
    BY <1>7, <1>9, <1>10, <1>11 DEF IInv

(* A step that changes nothing keeps the invariant. *)
LEMMA StutterInductive == IInv /\ UNCHANGED vars => IInv'
  <1> SUFFICES ASSUME IInv, UNCHANGED vars PROVE IInv'
    OBVIOUS
  <1>1. /\ UNCHANGED <<parser, dsstack, syms, scopes, bstack, curfn, extdefs>>
        /\ err' = err /\ status' = status
    BY DEF vars
  <1>2. TypeOK' /\ ParserShape' /\ ScopeShape' /\ DsstackShape' /\ DeclaringOnce' /\ DeclaringFrames'
    <2>1. TypeOK'
      BY <1>1 DEF IInv, TypeOK, NoDangling, Symbols, Ty
    <2>2. ParserShape' /\ FunctionFrames' = FunctionFrames
      BY <1>1 DEF IInv, ParserShape, FunctionFrames
    <2>3. ScopeShape' /\ DsstackShape'
      BY <1>1, <2>2, SameShape
    <2>4. DeclaringOnce' /\ DeclaringFrames'
      BY <1>1 DEF IInv, DeclaringOnce, DeclaringFrames, Declares, Symbols
    <2> QED
      BY <2>1, <2>2, <2>3, <2>4
  <1>3. DeclaringFresh'
    BY <1>1, SameFresh DEF Declaring, Declares
  <1>4. FunctionsOK' /\ ParametersOK' /\ InScopeOK' /\ ExternalsOK'
    BY <1>1, SameSymbols
  <1>5. ErrorsReported'
    BY <1>1 DEF IInv, ErrorsReported, Symbols, Ty
  <1>6. EmissionOK'
    BY <1>1 DEF IInv, EmissionOK, Emittable, Symbols, Ty
  <1> QED
    BY <1>2, <1>3, <1>4, <1>5, <1>6 DEF IInv

(* Every step keeps the invariant, action by action. *)
LEMMA NextInductive == IInv /\ [Next]_vars => IInv'
  <1> SUFFICES ASSUME IInv, [Next]_vars PROVE IInv'
    OBVIOUS
  <1>1. CASE UNCHANGED vars
    BY <1>1, StutterInductive
  <1>2. CASE Next
    <2>0. status = "running"
      BY <1>2 DEF Next
    <2>1. ASSUME NEW atom \in SpecAtoms, BeginDeclspecs(atom) PROVE IInv'
      BY <2>0, <2>1, BeginDeclspecsInv
    <2>2. ASSUME NEW atom \in SpecAtoms, MoreDeclspecs(atom) PROVE IInv'
      BY <2>0, <2>2, MoreDeclspecsInv
    <2>3. ASSUME NEW n \in Names, NEW stars \in 0..MaxStars, Identifier(n, stars) PROVE IInv'
      BY <2>0, <2>3, IdentifierInv
    <2>4. CASE BeginParameters
      BY <2>0, <2>4, BeginParametersInv
    <2>5. CASE MakeFdecl
      BY <2>0, <2>5, MakeFdeclInv
    <2>6. CASE MakePdecl
      BY <2>0, <2>6, MakePdeclInv
    <2>7. CASE EndParameter
      BY <2>0, <2>7, EndParameterInv
    <2>8. CASE DeclareSymbol
      BY <2>0, <2>8, DeclareSymbolInv
    <2>9. CASE EndDeclaration
      BY <2>0, <2>9, EndDeclarationInv
    <2>10. CASE DefineFunction
      BY <2>0, <2>10, DefineFunctionInv
    <2>11. CASE EnterBlock
      BY <2>0, <2>11, EnterBlockInv
    <2>12. CASE LeaveBlock
      BY <2>0, <2>12, LeaveBlockInv
    <2>13. CASE LeaveFun
      BY <2>0, <2>13, LeaveFunInv
    <2>14. ASSUME NEW n \in Names, UseIdentifier(n) PROVE IInv'
      BY <2>0, <2>14, UseIdentifierInv
    <2>15. ASSUME NEW withvalue \in BOOLEAN, Return(withvalue) PROVE IInv'
      BY <2>0, <2>15, ReturnInv
    <2>16. CASE EndOfFile
      BY <2>0, <2>16, EndOfFileInv
    <2> QED
      BY <1>2, <2>1, <2>2, <2>3, <2>4, <2>5, <2>6, <2>7, <2>8, <2>9, <2>10, <2>11, <2>12,
         <2>13, <2>14, <2>15, <2>16 DEF Next, Step
  <1> QED
    BY <1>1, <1>2

(* IInv holds in every state the semantic actions can reach. *)
THEOREM Inductive == Spec => []IInv
  BY InitInductive, NextInductive, PTL DEF Spec

(* The state of the semantic analysis is well typed, and every symbol that *)
(* a declaration, a type, a scope, a block or the list of external         *)
(* definitions refers to has been allocated.                               *)
THEOREM TypeCorrect == Spec => []TypeOK
  <1>1. IInv => TypeOK
    BY DEF IInv
  <1> QED
    BY <1>1, Inductive, PTL
-----------------------------------------------------------------------------
(* Where the parser can be when it reads a declaration. *)
LEMMA InDeclaration ==
  ASSUME IInv, parser # <<>>, Top(parser).at \in DeclarationStates
  PROVE  /\ Len(dsstack) \in Nat \ {0}
         /\ Top(parser).ctx = "ext" => Len(scopes) = 1
         /\ Top(parser).ctx = "block" => /\ bstack # <<>> /\ curfn # NoSym
                                         /\ Len(scopes) > 2
  <1>1. Top(parser) = parser[Len(parser)] /\ Len(parser) \in Nat \ {0}
    BY TopFacts
  <1>2. FunctionFrames \in Nat /\ Len(scopes) = FunctionFrames + 1 /\ Len(bstack) \in Nat /\ Len(dsstack) \in Nat
    BY ScopeFacts DEF IInv, ScopeShape, TypeOK
  <1> DEFINE n == Len(parser)
  <1> HIDE DEF n
  <1>3. n \in Nat \ {0} /\ n \in 1..n /\ 1 \in 1..n /\ parser[n].at \in DeclarationStates
    BY <1>1 DEF n
  <1>4. n > FunctionFrames
    <2> SUFFICES ASSUME n <= FunctionFrames PROVE FALSE
      BY <1>2, <1>3
    <2>1. curfn # NoSym
      BY <1>3 DEF FunctionFrames
    <2>2. CASE n = 1
      BY <1>3, <2>1, <2>2 DEF IInv, ParserShape, FunctionStates, DeclarationStates
    <2>3. CASE n # 1
      <3>1. 1 < n
        BY <1>3, <2>3
      <3>2. parser[n].at = "block"
        BY <1>3, <3>1 DEF IInv, ParserShape, n
      <3> QED
        BY <1>3, <3>2 DEF DeclarationStates
    <2> QED
      BY <2>2, <2>3
  <1>5. Len(dsstack) \in Nat \ {0}
    BY <1>2, <1>3, <1>4 DEF IInv, DsstackShape, n
  <1>6. parser[n].ctx = IF n > FunctionFrames + 1 THEN "param"
                        ELSE IF curfn = NoSym THEN "ext" ELSE "block"
    BY <1>3, <1>4 DEF IInv, ParserShape, n
  <1>7. CASE parser[n].ctx = "ext"
    BY <1>1, <1>2, <1>5, <1>6, <1>7 DEF n, FunctionFrames
  <1>8. CASE parser[n].ctx = "block"
    <2>1. curfn # NoSym /\ n # 1 /\ FunctionFrames = Len(bstack) + 1
      BY <1>2, <1>4, <1>6, <1>8 DEF FunctionFrames
    <2>2. bstack # <<>>
      BY <2>1 DEF IInv, ParserShape, n
    <2>3. Len(bstack) # 0
      BY <2>2, EmptySeq DEF IInv, TypeOK
    <2> QED
      BY <1>1, <1>2, <1>5, <1>8, <2>1, <2>2, <2>3 DEF n
  <1> QED
    BY <1>1, <1>5, <1>7, <1>8 DEF n

(* The shapes of the stacks are what the assertions of semant.c ask for. *)
LEMMA AssertionsFromInvariant == ASSUME IInv PROVE AssertionsHold
  <1>1. ASSUME NEW n \in Names, Resolve(n) # NoSym PROVE syms[Resolve(n)].level <= CurLevel
    <2>1. PICK i \in 1..Len(scopes) : scopes[i].names[n] # NoSym /\ Resolve(n) = scopes[i].names[n]
      BY <1>1, ResolveIs
    <2>2. syms[Resolve(n)].level = IF i = 2 THEN 0 ELSE i - 1
      BY <2>1 DEF IInv, InScopeOK
    <2>3. CurLevel = Len(scopes) - 1 /\ Len(scopes) \in Nat \ {0}
      BY ScopeFacts
    <2> QED
      BY <2>2, <2>3
  <1>2. ASSUME In(DeclarationStates, {"ext", "block", "param"}) PROVE dsstack # <<>>
    BY <1>2, InDeclaration, EmptySeq DEF In
  <1>3. ASSUME In(DeclarationStates, {"block"}) PROVE bstack # <<>> /\ curfn # NoSym /\ ~AtFileScope
    BY <1>3, InDeclaration, ScopeFacts DEF In, AtFileScope
  <1>4. ASSUME In({"block"}, {"block"}) PROVE bstack # <<>> /\ curfn # NoSym /\ ~AtFileScope
    <2>1. parser # <<>> /\ Top(parser).at = "block" /\ Top(parser).at \notin DeclarationStates
      BY <1>4 DEF In, DeclarationStates
    <2>2. /\ curfn # NoSym /\ Len(parser) \in Nat \ {0} /\ Len(parser) = Len(bstack) + 1
          /\ Len(scopes) = Len(parser) + 1 /\ Top(parser) = parser[Len(parser)]
      BY <2>1, InFunction
    <2>3. Len(parser) # 1
      BY <2>1, <2>2 DEF IInv, ParserShape, FunctionStates
    <2> QED
      BY <2>2, <2>3, EmptySeq DEF AtFileScope
  <1>5. ASSUME In(DeclarationStates, {"ext"}) PROVE AtFileScope
    BY <1>5, InDeclaration DEF In, AtFileScope
  <1>6. ASSUME In(FunctionStates, {"ext"}) PROVE ~AtFileScope
    <2>1. parser # <<>> /\ Top(parser).at \notin DeclarationStates
      BY <1>6 DEF In, DeclarationStates, FunctionStates
    <2> QED
      BY <2>1, InFunction DEF AtFileScope
  <1> QED
    BY <1>1, <1>2, <1>3, <1>4, <1>5, <1>6 DEF AssertionsHold

(* No assertion of semant.c about scopes, declspecs, blocks or the current *)
(* function can fail, whatever the input.                                  *)
THEOREM AssertionsNeverFail == Spec => []AssertionsHold
  BY Inductive, AssertionsFromInvariant, PTL

(* A symbol found at the current level is in the current scope, and the    *)
(* other way round: only parameters have another level than their scope,   *)
(* and no declaration is read directly in theirs.                          *)
LEMMA RedeclarationFromInvariant == ASSUME IInv PROVE RedeclarationTestIsExact
  <1> SUFFICES ASSUME DeclaratorRead, Top(parser).ctx # "param", NEW n \in Names
               PROVE  DeclaredInScope(n) <=> Top(scopes).names[n] # NoSym
    BY DEF RedeclarationTestIsExact
  <1>1. Len(scopes) \in Nat \ {0} /\ CurLevel = Len(scopes) - 1 /\ Top(scopes) = scopes[Len(scopes)]
    BY ScopeFacts
  <1>2. Len(scopes) # 2
    <2>1. /\ parser # <<>> /\ Top(parser).at \in {"declarator", "pointer"}
          /\ Top(parser).ctx \in {"ext", "block"}
      BY DEF DeclaratorRead, In
    <2>2. Top(parser).at \in DeclarationStates
      BY <2>1 DEF DeclarationStates
    <2> QED
      BY <1>1, <2>1, <2>2, InDeclaration
  <1>3. ASSUME DeclaredInScope(n) PROVE Top(scopes).names[n] # NoSym
    <2>1. PICK i \in 1..Len(scopes) : scopes[i].names[n] # NoSym /\ Resolve(n) = scopes[i].names[n]
      BY <1>3, ResolveIs DEF DeclaredInScope
    <2>2. syms[Resolve(n)].level = IF i = 2 THEN 0 ELSE i - 1
      BY <2>1 DEF IInv, InScopeOK
    <2>3. i = Len(scopes)
      BY <1>1, <1>2, <1>3, <2>2 DEF DeclaredInScope
    <2> QED
      BY <1>1, <2>1, <2>3
  <1>4. ASSUME Top(scopes).names[n] # NoSym PROVE DeclaredInScope(n)
    <2>1. Len(scopes) \in 1..Len(scopes) /\ scopes[Len(scopes)].names[n] # NoSym
      BY <1>1, <1>4
    <2>2. PICK i \in 1..Len(scopes) : /\ scopes[i].names[n] # NoSym
                                      /\ Resolve(n) = scopes[i].names[n]
                                      /\ \A j \in 1..Len(scopes) : scopes[j].names[n] # NoSym => j <= i
      BY <2>1, ResolveIs
    <2>3. i = Len(scopes)
      BY <1>1, <2>1, <2>2
    <2>4. syms[Resolve(n)].level = IF i = 2 THEN 0 ELSE i - 1
      BY <2>2 DEF IInv, InScopeOK
    <2> QED
      BY <1>1, <1>2, <2>2, <2>3, <2>4 DEF DeclaredInScope
  <1> QED
    BY <1>3, <1>4

(* declare_symbol rejects a name exactly when the current scope already    *)
(* holds it, although it compares levels and a parameter has the level of  *)
(* the scope outside its own.                                              *)
THEOREM RedeclarationExact == Spec => []RedeclarationTestIsExact
  BY Inductive, RedeclarationFromInvariant, PTL

(* No name is handed to the code generator twice.                          *)
THEOREM DistinctExternals == Spec => []ExternalsDistinct
  <1>1. IInv => ExternalsDistinct
    <2> SUFFICES ASSUME IInv, NEW i \in 1..Len(extdefs), NEW j \in 1..Len(extdefs),
                        syms[extdefs[i]].name = syms[extdefs[j]].name
                 PROVE  i = j
      BY DEF ExternalsDistinct
    <2>1. /\ scopes[1].names[syms[extdefs[i]].name] = extdefs[i]
          /\ scopes[1].names[syms[extdefs[j]].name] = extdefs[j]
      BY DEF IInv, ExternalsOK
    <2> QED
      BY <2>1 DEF IInv, ExternalsOK
  <1> QED
    BY <1>1, Inductive, PTL

(* The semantic actions establish what the code generator assumes of the   *)
(* external definitions: complete types, and a body for every function.    *)
THEOREM EmissionIsSafe == Spec => []EmissionPrecondition
  <1>1. IInv => EmissionPrecondition
    <2> SUFFICES ASSUME IInv, status = "emitting", NEW i \in 1..Len(extdefs)
                 PROVE  LET x == syms[extdefs[i]] IN
                        \/ x.op = "Sdata" /\ Complete(x.ty)
                        \/ /\ x.op = "Sfunc" /\ Op(x.ty) = "Kfun" /\ x.body
                           /\ \A k \in 1..Len(x.ty.params) : Complete(Ty(x.ty.params[k]))
                           /\ \A s \in x.locals : Complete(Ty(s))
      BY DEF EmissionPrecondition
    <2>1. ~err /\ parser = <<>>
      BY DEF IInv, EmissionOK
    <2>2. curfn = NoSym
      <3>1. Len(parser) = 0
        BY <2>1, EmptySeq
      <3> QED
        BY <3>1, ScopeFacts DEF IInv, ParserShape, FunctionFrames
    <2>3. extdefs[i] \in Symbols /\ extdefs[i] # curfn
      BY <2>2, ExternalFacts, SymbolFacts DEF Symbols, NoSym
    <2>4. Emittable(extdefs[i]) /\ \A s \in syms[extdefs[i]].locals : Complete(Ty(s))
      BY <2>1, <2>3 DEF IInv, EmissionOK
    <2>5. Op(Ty(extdefs[i])) = "Kfun" => syms[extdefs[i]].body
      BY <2>3 DEF IInv, ExternalsOK
    <2> QED
      BY <2>4, <2>5 DEF Emittable, Ty
  <1> QED
    BY <1>1, Inductive, PTL

(* A declaration whose type is in error never gets into a scope, and the   *)
(* semantic actions only crash after an error has been reported.           *)
THEOREM ErrorsConfined == Spec => []ErrorsStayOutOfScope
  <1>1. IInv => ErrorsStayOutOfScope
    BY DEF IInv, InScopeOK, ErrorsReported, ErrorsStayOutOfScope
  <1> QED
    BY <1>1, Inductive, PTL

(* No step takes a body away or replaces it. *)
LEMMA BodyStep ==
  ASSUME IInv, Next, NEW s \in Symbols, syms[s].body
  PROVE  /\ syms'[s].body /\ syms'[s].locals = syms[s].locals
         /\ curfn' = s => curfn = s
  <1>1. s # NoSym
    BY SymbolFacts DEF Symbols, NoSym
  <1>2. ~Declaring(s)
    BY DEF IInv, DeclaringFresh
  <1>3. CASE syms' = syms /\ curfn' = curfn
    BY <1>3
  <1>4. ASSUME NEW n \in Names, NEW stars \in 0..MaxStars, Identifier(n, stars)
        PROVE  syms'[s] = syms[s] /\ curfn' = curfn
    <2>1. syms \in Seq(SymbolRecords) /\ Len(syms) \in Nat /\ s \in 1..Len(syms)
      BY SymbolFacts DEF IInv, TypeOK, Symbols
    <2>2. PICK e : syms' = Append(syms, e) /\ curfn' = curfn
      BY <1>4 DEF Identifier
    <2> QED
      BY <2>1, <2>2
  <1>5. CASE MakeFdecl
    <2>1. curfn' = curfn /\ (Crash => syms' = syms)
      BY <1>5 DEF MakeFdecl, Crash
    <2> DEFINE t == Top(parser).sym
    <2>2. parser # <<>> /\ Top(parser).at \in DeclaringStates
      BY <1>5 DEF MakeFdecl, In, DeclaringStates
    <2>3. t \in Symbols /\ Declaring(t) /\ t # s
      BY <1>2, <2>2, TopSym
    <2>4. \/ syms' = syms
          \/ syms' = [syms EXCEPT ![t].ty = NoType]
          \/ \E ps : syms' = [x \in 1..Len(syms) |->
                   IF x = t
                   THEN [syms[t] EXCEPT !.op = "Sfunc", !.ty = FunctionType(Ty(t), ps)]
                   ELSE IF \E i \in 1..Len(ps) : ps[i] = x
                   THEN [syms[x] EXCEPT !.ty = Adjust(@)]
                   ELSE syms[x]]
      BY <1>5, <2>1 DEF MakeFdecl
    <2> HIDE DEF t
    <2>5. CASE syms' = syms
      BY <2>1, <2>5
    <2>6. CASE syms' = [syms EXCEPT ![t].ty = NoType]
      BY <2>1, <2>3, <2>6
    <2>7. ASSUME NEW ps, syms' = [x \in 1..Len(syms) |->
                   IF x = t
                   THEN [syms[t] EXCEPT !.op = "Sfunc", !.ty = FunctionType(Ty(t), ps)]
                   ELSE IF \E i \in 1..Len(ps) : ps[i] = x
                   THEN [syms[x] EXCEPT !.ty = Adjust(@)]
                   ELSE syms[x]]
          PROVE  syms'[s].body = syms[s].body /\ syms'[s].locals = syms[s].locals
      <3>1. syms'[s] = syms[s] \/ syms'[s] = [syms[s] EXCEPT !.ty = Adjust(@)]
        BY <2>3, <2>7 DEF Symbols
      <3>2. syms[s] \in SymbolRecords
        BY SymbolFacts
      <3> QED
        BY <3>1, <3>2 DEF SymbolRecords
    <2> QED
      BY <2>1, <2>4, <2>5, <2>6, <2>7
  <1>6. CASE MakePdecl
    <2> DEFINE t == Top(parser).sym
    <2>1. curfn' = curfn /\ syms' = [syms EXCEPT ![t].ty = PointerDeclarator(@)]
      BY <1>6 DEF MakePdecl
    <2>2. parser # <<>> /\ Top(parser).at \in DeclaringStates
      BY <1>6 DEF MakePdecl, In, DeclaringStates
    <2>3. t # s
      BY <1>2, <2>2, TopSym
    <2> HIDE DEF t
    <2> QED
      BY <2>1, <2>3
  <1>7. CASE DefineFunction
    <2>1. syms' = syms
      BY <1>7 DEF DefineFunction, Crash
    <2>2. CASE curfn' = curfn
      BY <2>1, <2>2
    <2> DEFINE f == DefinedSymbol(Top(parser).sym)
    <2>3. CASE curfn' = f /\ f # NoSym
      <3>1. DefinitionPoint
        BY <1>7 DEF DefineFunction
      <3>2. syms[f].body = FALSE
        BY <2>3, <3>1, DefinedFacts
      <3> QED
        BY <2>1, <2>3, <3>2
    <2> QED
      BY <1>7, <2>2, <2>3 DEF DefineFunction, Crash
  <1>8. CASE LeaveBlock
    <2> DEFINE n == Len(parser)
               outer == Pop(parser)
    <2>1. parser # <<>> /\ Top(parser).at = "block" /\ Top(parser).at \notin DeclarationStates /\ curfn' = curfn
      BY <1>8 DEF LeaveBlock, In, DeclarationStates
    <2>2. n \in Nat \ {0} /\ curfn # NoSym /\ FunctionFrames = n /\ Top(parser) = parser[n]
      BY <2>1, InFunction
    <2>3. n # 1
      BY <2>1, <2>2 DEF IInv, ParserShape, FunctionStates
    <2>4. PICK m : m = n - 1
      OBVIOUS
    <2>5. m \in Nat \ {0} /\ m \in 1..n /\ m <= FunctionFrames
      BY <2>2, <2>3, <2>4
    <2>6. Top(outer) = parser[m]
      <3>1. outer \in Seq(Frames) /\ Len(outer) = m /\ \A i \in 1..m : outer[i] = parser[i]
        BY <2>1, <2>4, PopSeq DEF IInv, TypeOK
      <3> QED
        BY <2>5, <3>1 DEF Top
    <2> HIDE DEF n, outer
    <2>7. CASE Top(outer).at = "body"
      <3>1. m = 1
        BY <2>2, <2>5, <2>6, <2>7 DEF IInv, ParserShape, n
      <3>2. Top(outer).sym = curfn
        BY <2>2, <2>6, <3>1 DEF IInv, ParserShape
      <3>3. s # curfn
        BY <2>2, <2>6, <2>7, <3>1 DEF IInv, ExternalsOK
      <3>4. syms' = [syms EXCEPT ![curfn].body = TRUE, ![curfn].locals = Top(bstack)]
        BY <1>8, <2>7, <3>2 DEF LeaveBlock, outer
      <3> DEFINE e == [syms[curfn] EXCEPT !.body = TRUE, !.locals = Top(bstack)]
      <3>5. syms' = [syms EXCEPT ![curfn] = e]
        BY <3>4
      <3> HIDE DEF e
      <3>6. syms'[s] = syms[s]
        BY <3>3, <3>5, SymbolFacts DEF IInv, TypeOK, Symbols
      <3> QED
        BY <2>1, <3>6
    <2>8. CASE Top(outer).at # "body"
      BY <1>8, <2>1, <2>8 DEF LeaveBlock, outer
    <2> QED
      BY <2>7, <2>8
  <1>9. CASE LeaveFun
    BY <1>1, <1>9 DEF LeaveFun
  <1>10. (\E n \in Names, stars \in 0..MaxStars : Identifier(n, stars)) \/ MakeFdecl \/ MakePdecl
           \/ DefineFunction \/ LeaveBlock \/ LeaveFun \/ (syms' = syms /\ curfn' = curfn)
    <2>1. ASSUME NEW atom \in SpecAtoms, BeginDeclspecs(atom) \/ MoreDeclspecs(atom)
          PROVE  syms' = syms /\ curfn' = curfn
      BY <2>1 DEF BeginDeclspecs, MoreDeclspecs
    <2>2. ASSUME BeginParameters \/ EndParameter \/ DeclareSymbol \/ EndDeclaration \/ EnterBlock \/ EndOfFile
          PROVE  syms' = syms /\ curfn' = curfn
      BY <2>2 DEF BeginParameters, EndParameter, DeclareSymbol, EndDeclaration, EnterBlock, EndOfFile
    <2>3. ASSUME NEW n \in Names, UseIdentifier(n) PROVE syms' = syms /\ curfn' = curfn
      BY <2>3 DEF UseIdentifier, Crash
    <2>4. ASSUME NEW withvalue \in BOOLEAN, Return(withvalue) PROVE syms' = syms /\ curfn' = curfn
      BY <2>4 DEF Return
    <2> QED
      BY <2>1, <2>2, <2>3, <2>4 DEF Next, Step
  <1> QED
    BY <1>3, <1>4, <1>5, <1>6, <1>7, <1>8, <1>9, <1>10

(* A function that has its body keeps it, and is never entered again.      *)
THEOREM BodiesAreFinal == Spec => BodyIsFinal
  <1>1. IInv /\ [Next]_vars =>
          [\A s \in Symbols : syms[s].body =>
             /\ syms'[s].body /\ syms'[s].locals = syms[s].locals
             /\ curfn' = s => curfn = s]_vars
    BY BodyStep
  <1> QED
    BY <1>1, Inductive, PTL DEF Spec, BodyIsFinal

-----------------------------------------------------------------------------

(* What a name means in the i-th of the given scopes: MeaningIn, with the  *)
(* scopes as a parameter, so that it can be compared before and after a    *)
(* step.                                                                   *)
HoldersUpTo(chain, i, n) == {j \in 1..i : chain[j].names[n] # NoSym}
MeaningOf(chain, i, n) ==
  IF HoldersUpTo(chain, i, n) = {} THEN NoSym
  ELSE chain[CHOOSE j \in HoldersUpTo(chain, i, n) :
               \A k \in HoldersUpTo(chain, i, n) : k <= j].names[n]

(* The innermost scope that holds the name. *)
LEMMA HoldersInnermost ==
  ASSUME NEW chain, NEW i \in Nat, NEW n, HoldersUpTo(chain, i, n) # {}
  PROVE  LET j == CHOOSE j \in HoldersUpTo(chain, i, n) :
                    \A k \in HoldersUpTo(chain, i, n) : k <= j
         IN  j \in HoldersUpTo(chain, i, n) /\ \A k \in HoldersUpTo(chain, i, n) : k <= j
  <1>1. HoldersUpTo(chain, i, n) \subseteq 1..i
    BY DEF HoldersUpTo
  <1>2. \E j \in HoldersUpTo(chain, i, n) : \A k \in HoldersUpTo(chain, i, n) : k <= j
    BY <1>1, HasGreatest
  <1> QED
    BY <1>2

(* The meaning in a scope is what the scope holds, or the meaning in the   *)
(* one around it.                                                          *)
LEMMA MeaningStep ==
  ASSUME NEW chain, NEW i \in Nat \ {0}, NEW n
  PROVE  MeaningOf(chain, i, n) =
           IF chain[i].names[n] # NoSym THEN chain[i].names[n] ELSE MeaningOf(chain, i - 1, n)
  <1>1. CASE chain[i].names[n] # NoSym
    <2>1. i \in HoldersUpTo(chain, i, n)
      BY <1>1 DEF HoldersUpTo
    <2>2. PICK j : /\ j = CHOOSE m \in HoldersUpTo(chain, i, n) :
                            \A k \in HoldersUpTo(chain, i, n) : k <= m
                   /\ j \in HoldersUpTo(chain, i, n)
                   /\ \A k \in HoldersUpTo(chain, i, n) : k <= j
      BY <2>1, HoldersInnermost
    <2>3. j \in 1..i /\ i <= j
      BY <2>1, <2>2 DEF HoldersUpTo
    <2>4. j = i
      BY <2>3
    <2>5. MeaningOf(chain, i, n) = chain[j].names[n]
      BY <2>1, <2>2 DEF MeaningOf
    <2> QED
      BY <1>1, <2>4, <2>5
  <1>2. CASE chain[i].names[n] = NoSym
    <2>1. HoldersUpTo(chain, i, n) = HoldersUpTo(chain, i - 1, n)
      BY <1>2 DEF HoldersUpTo
    <2> QED
      BY <1>2, <2>1 DEF MeaningOf
  <1> QED
    BY <1>1, <1>2

(* It depends on the scopes up to that one only, and on that name only.    *)
LEMMA MeaningLocal ==
  ASSUME NEW chain, NEW other, NEW i \in Nat, NEW n,
         \A j \in 1..i : chain[j].names[n] = other[j].names[n]
  PROVE  MeaningOf(chain, i, n) = MeaningOf(other, i, n)
  <1>1. HoldersUpTo(chain, i, n) = HoldersUpTo(other, i, n)
    BY DEF HoldersUpTo
  <1>2. CASE HoldersUpTo(other, i, n) = {}
    BY <1>1, <1>2 DEF MeaningOf
  <1>3. CASE HoldersUpTo(other, i, n) # {}
    <2>1. PICK j : /\ j = CHOOSE m \in HoldersUpTo(other, i, n) :
                            \A k \in HoldersUpTo(other, i, n) : k <= m
                   /\ j \in HoldersUpTo(other, i, n)
      BY <1>3, HoldersInnermost
    <2>2. chain[j].names[n] = other[j].names[n]
      BY <2>1 DEF HoldersUpTo
    <2> QED
      BY <1>1, <1>3, <2>1, <2>2 DEF MeaningOf
  <1> QED
    BY <1>2, <1>3

(* Nothing is known in no scope.                                           *)
LEMMA MeaningNowhere == ASSUME NEW chain, NEW n PROVE MeaningOf(chain, 0, n) = NoSym
  BY DEF MeaningOf, HoldersUpTo

(* The refinement mapping in these terms. *)
LEMMA MappingIs ==
  /\ \A n : Resolve(n) = MeaningOf(scopes, Len(scopes), n)
  /\ \A i, n : MeaningIn(i, n) = MeaningOf(scopes, i, n)
  <1>1. \A n : Resolve(n) = MeaningOf(scopes, Len(scopes), n)
    BY DEF Resolve, Holders, MeaningOf, HoldersUpTo
  <1>2. \A i, n : MeaningIn(i, n) = MeaningOf(scopes, i, n)
    BY DEF MeaningIn, MeaningOf, HoldersUpTo
  <1> QED
    BY <1>1, <1>2

Environment == [Names -> Nat]
Meanings(chain)      == [n \in Names |-> MeaningOf(chain, Len(chain), n)]
SavedMeanings(chain) == [i \in 1..(Len(chain) - 1) |-> [n \in Names |-> MeaningOf(chain, i, n)]]

MappedMeaning == [n \in Names |-> Resolve(n)]
MappedSaved   == [i \in 1..(Len(scopes) - 1) |-> [n \in Names |-> MeaningIn(i, n)]]
Mapped == MappedMeaning = Meanings(scopes) /\ MappedSaved = SavedMeanings(scopes)

(* The refinement mapping, in this state and the next, is the function of  *)
(* the scopes that it is defined to be.                                    *)
LEMMA MappedIs == Mapped
  BY MappingIs DEF Mapped, MappedMeaning, MappedSaved, Meanings, SavedMeanings

(* What the scopes mean after a step is what they hold then. *)
LEMMA MappedNextIs ==
  MappedMeaning' = Meanings(scopes') /\ MappedSaved' = SavedMeanings(scopes')
  <1>1. Mapped'
    BY MappedIs, PTL
  <1> QED
    BY <1>1 DEF Mapped, Meanings, SavedMeanings, MeaningOf, HoldersUpTo

(* The environments are what they should be. *)
LEMMA MeaningType ==
  ASSUME NEW chain \in Seq(ScopeRecords), NEW i \in 0..Len(chain), NEW n \in Names
  PROVE  MeaningOf(chain, i, n) \in Nat
  <1>1. CASE HoldersUpTo(chain, i, n) = {}
    BY <1>1 DEF MeaningOf, NoSym
  <1>2. CASE HoldersUpTo(chain, i, n) # {}
    <2>1. PICK j : /\ j = CHOOSE m \in HoldersUpTo(chain, i, n) :
                            \A k \in HoldersUpTo(chain, i, n) : k <= m
                   /\ j \in HoldersUpTo(chain, i, n)
      BY <1>2, HoldersInnermost
    <2>2. j \in 1..Len(chain)
      BY <2>1 DEF HoldersUpTo
    <2>3. chain[j] \in ScopeRecords
      BY <2>2, ElementOfSeq
    <2>4. chain[j].names \in [Names -> Nat]
      BY <2>3 DEF ScopeRecords
    <2> QED
      BY <1>2, <2>1, <2>4 DEF MeaningOf
  <1> QED
    BY <1>1, <1>2

(* What leave_scope will restore: one environment per scope around this    *)
(* one.                                                                    *)
LEMMA SavedFacts ==
  ASSUME NEW chain \in Seq(ScopeRecords), Len(chain) # 0
  PROVE  /\ Len(chain) \in Nat \ {0}
         /\ Meanings(chain) \in Environment
         /\ SavedMeanings(chain) \in Seq(Environment)
         /\ Len(SavedMeanings(chain)) = Len(chain) - 1
         /\ \A i \in 1..(Len(chain) - 1) :
              SavedMeanings(chain)[i] = [n \in Names |-> MeaningOf(chain, i, n)]
  <1>1. Len(chain) \in Nat \ {0}
    OBVIOUS
  <1>2. Meanings(chain) \in Environment
    BY <1>1, MeaningType DEF Meanings, Environment
  <1>m. PICK m \in Nat : m = Len(chain) - 1
    BY <1>1
  <1>3. \A i \in 1..m : [n \in Names |-> MeaningOf(chain, i, n)] \in Environment
    BY <1>1, <1>m, MeaningType DEF Environment
  <1>4. SavedMeanings(chain) = [i \in 1..m |-> [n \in Names |-> MeaningOf(chain, i, n)]]
    BY <1>m DEF SavedMeanings
  <1>5. SavedMeanings(chain) \in Seq(Environment) /\ Len(SavedMeanings(chain)) = m
    BY <1>3, <1>4
  <1> QED
    BY <1>1, <1>2, <1>m, <1>4, <1>5

(* install gives one name a meaning and keeps what the scopes around mean. *)
LEMMA InstallMeans ==
  ASSUME NEW chain \in Seq(ScopeRecords), NEW other \in Seq(ScopeRecords),
         Len(chain) # 0, Len(other) = Len(chain), NEW nm \in Names, NEW s \in Nat \ {NoSym},
         \A i \in 1..Len(chain), n \in Names :
           other[i].names[n] = IF i = Len(chain) /\ n = nm THEN s ELSE chain[i].names[n]
  PROVE  /\ Meanings(other) = [Meanings(chain) EXCEPT ![nm] = s]
         /\ SavedMeanings(other) = SavedMeanings(chain)
  <1>1. Len(chain) \in Nat \ {0}
    OBVIOUS
  <1>m. PICK m \in Nat : m = Len(chain) - 1
    BY <1>1
  <1>2. ASSUME NEW i \in 0..m, NEW n \in Names
        PROVE  MeaningOf(other, i, n) = MeaningOf(chain, i, n)
    <2>1. \A j \in 1..i : other[j].names[n] = chain[j].names[n]
      BY <1>1, <1>m
    <2> QED
      BY <2>1, MeaningLocal
  <1>3. ASSUME NEW n \in Names
        PROVE  MeaningOf(other, Len(other), n) = IF n = nm THEN s ELSE MeaningOf(chain, Len(chain), n)
    <2>1. other[Len(chain)].names[n] = IF n = nm THEN s ELSE chain[Len(chain)].names[n]
      BY <1>1
    <2>2. MeaningOf(other, Len(chain), n) =
            IF other[Len(chain)].names[n] # NoSym THEN other[Len(chain)].names[n] ELSE MeaningOf(other, m, n)
      BY <1>1, <1>m, MeaningStep
    <2>3. MeaningOf(chain, Len(chain), n) =
            IF chain[Len(chain)].names[n] # NoSym THEN chain[Len(chain)].names[n] ELSE MeaningOf(chain, m, n)
      BY <1>1, <1>m, MeaningStep
    <2>4. MeaningOf(other, m, n) = MeaningOf(chain, m, n)
      BY <1>2
    <2> QED
      BY <2>1, <2>2, <2>3, <2>4
  <1>4. Meanings(other) = [Meanings(chain) EXCEPT ![nm] = s]
    BY <1>3 DEF Meanings
  <1>5. SavedMeanings(other) = SavedMeanings(chain)
    BY <1>2, <1>m DEF SavedMeanings
  <1> QED
    BY <1>4, <1>5

(* What is not in the current scope means what it did outside of it. *)
LEMMA OuterMeans ==
  ASSUME NEW chain \in Seq(ScopeRecords), Len(chain) # 0, NEW nm \in Names,
         chain[Len(chain)].names[nm] = NoSym
  PROVE  Meanings(chain)[nm] =
           IF SavedMeanings(chain) = <<>> THEN NoSym
           ELSE SavedMeanings(chain)[Len(SavedMeanings(chain))][nm]
  <1>1. /\ Len(chain) \in Nat \ {0} /\ SavedMeanings(chain) \in Seq(Environment)
        /\ Len(SavedMeanings(chain)) = Len(chain) - 1
        /\ \A i \in 1..(Len(chain) - 1) :
              SavedMeanings(chain)[i] = [n \in Names |-> MeaningOf(chain, i, n)]
    BY SavedFacts
  <1>m. PICK m \in Nat : m = Len(chain) - 1
    BY <1>1
  <1>2. Meanings(chain)[nm] = MeaningOf(chain, m, nm)
    BY <1>1, <1>m, MeaningStep DEF Meanings
  <1>3. CASE m = 0
    <2>1. SavedMeanings(chain) = <<>>
      BY <1>1, <1>m, <1>3, EmptySeq
    <2> QED
      BY <1>2, <1>3, <2>1, MeaningNowhere
  <1>4. CASE m # 0
    <2>1. SavedMeanings(chain) # <<>>
      BY <1>1, <1>m, <1>4, EmptySeq
    <2>2. m \in 1..(Len(chain) - 1)
      BY <1>1, <1>m, <1>4
    <2>3. SavedMeanings(chain)[m] = [n \in Names |-> MeaningOf(chain, m, n)]
      BY <1>1, <2>2
    <2>4. SavedMeanings(chain)[m][nm] = MeaningOf(chain, m, nm)
      BY <2>3
    <2> QED
      BY <1>1, <1>2, <1>m, <2>1, <2>4
  <1> QED
    BY <1>3, <1>4

(* enter_scope saves what everything means. *)
LEMMA EnterMeans ==
  ASSUME NEW chain \in Seq(ScopeRecords), NEW e \in ScopeRecords, Len(chain) # 0
  PROVE  /\ SavedMeanings(Append(chain, e)) = Append(SavedMeanings(chain), Meanings(chain))
         /\ Meanings(Append(chain, e)) =
              [n \in Names |-> IF e.names[n] # NoSym THEN e.names[n] ELSE Meanings(chain)[n]]
  <1>o. PICK other : other = Append(chain, e)
    OBVIOUS
  <1>1. PICK k \in Nat \ {0} : k = Len(chain)
    OBVIOUS
  <1>2. /\ other \in Seq(ScopeRecords) /\ Len(other) = k + 1
        /\ \A i \in 1..k : other[i] = chain[i]
        /\ other[k + 1] = e
    BY <1>o, <1>1
  <1>3. ASSUME NEW i \in 0..k, NEW n \in Names
        PROVE  MeaningOf(other, i, n) = MeaningOf(chain, i, n)
    <2>1. \A j \in 1..i : other[j].names[n] = chain[j].names[n]
      BY <1>2
    <2> QED
      BY <2>1, MeaningLocal
  <1>4. ASSUME NEW n \in Names
        PROVE  MeaningOf(other, Len(other), n) = IF e.names[n] # NoSym THEN e.names[n] ELSE Meanings(chain)[n]
    <2>1. MeaningOf(other, k + 1, n) = IF e.names[n] # NoSym THEN e.names[n] ELSE MeaningOf(other, k, n)
      <3>1. k + 1 \in Nat \ {0} /\ (k + 1) - 1 = k
        OBVIOUS
      <3> QED
        BY <1>2, <3>1, MeaningStep
    <2>2. MeaningOf(other, k, n) = Meanings(chain)[n]
      BY <1>1, <1>3 DEF Meanings
    <2> QED
      BY <1>2, <2>1, <2>2
  <1>5. Meanings(other) = [n \in Names |-> IF e.names[n] # NoSym THEN e.names[n] ELSE Meanings(chain)[n]]
    BY <1>4 DEF Meanings
  <1>6. SavedMeanings(other) = Append(SavedMeanings(chain), Meanings(chain))
    <2>1. /\ SavedMeanings(chain) \in Seq(Environment) /\ Meanings(chain) \in Environment
          /\ Len(SavedMeanings(chain)) = k - 1
          /\ \A i \in 1..(k - 1) : SavedMeanings(chain)[i] = [n \in Names |-> MeaningOf(chain, i, n)]
      BY <1>1, SavedFacts
    <2>2. /\ SavedMeanings(other) \in Seq(Environment)
          /\ Len(SavedMeanings(other)) = k
          /\ \A i \in 1..k : SavedMeanings(other)[i] = [n \in Names |-> MeaningOf(other, i, n)]
      <3>1. Len(other) # 0 /\ Len(other) - 1 = k
        BY <1>2
      <3> QED
        BY <1>2, <3>1, SavedFacts
    <2>3. PICK both : both = Append(SavedMeanings(chain), Meanings(chain))
      OBVIOUS
    <2>4. /\ both \in Seq(Environment) /\ Len(both) = k
          /\ \A i \in 1..k : both[i] = IF i = k THEN Meanings(chain) ELSE SavedMeanings(chain)[i]
      BY <2>1, <2>3
    <2>5. \A i \in 1..k : [n \in Names |-> MeaningOf(other, i, n)] = [n \in Names |-> MeaningOf(chain, i, n)]
      BY <1>3
    <2>6. Meanings(chain) = [n \in Names |-> MeaningOf(chain, k, n)]
      BY <1>1 DEF Meanings
    <2>7. \A i \in 1..k : SavedMeanings(other)[i] = both[i]
      BY <2>1, <2>2, <2>4, <2>5, <2>6
    <2>8. SavedMeanings(other) = both
      BY <2>2, <2>4, <2>7, SeqEqual
    <2> QED
      BY <2>3, <2>8
  <1> QED
    BY <1>o, <1>5, <1>6

(* leave_scope restores what everything meant. *)
LEMMA LeaveMeans ==
  ASSUME NEW chain \in Seq(ScopeRecords), Len(chain) > 1
  PROVE  /\ SavedMeanings(chain) # <<>>
         /\ Meanings(Pop(chain)) = SavedMeanings(chain)[Len(SavedMeanings(chain))]
         /\ SavedMeanings(Pop(chain)) =
              SubSeq(SavedMeanings(chain), 1, Len(SavedMeanings(chain)) - 1)
  <1>1. PICK k \in Nat \ {0} : k = Len(chain) - 1
    OBVIOUS
  <1>2. PICK other : /\ other = Pop(chain) /\ other \in Seq(ScopeRecords) /\ Len(other) = k
                     /\ \A i \in 1..k : other[i] = chain[i]
    <2>1. chain # <<>>
      BY EmptySeq
    <2> QED
      BY <1>1, <2>1, PopSeq
  <1>3. ASSUME NEW i \in 0..k, NEW n \in Names
        PROVE  MeaningOf(other, i, n) = MeaningOf(chain, i, n)
    <2>1. \A j \in 1..i : other[j].names[n] = chain[j].names[n]
      BY <1>2
    <2> QED
      BY <2>1, MeaningLocal
  <1>4. /\ SavedMeanings(chain) \in Seq(Environment)
        /\ Len(SavedMeanings(chain)) = k
        /\ \A i \in 1..k : SavedMeanings(chain)[i] = [n \in Names |-> MeaningOf(chain, i, n)]
    BY <1>1, SavedFacts
  <1>5. SavedMeanings(chain) # <<>>
    BY <1>4, EmptySeq
  <1>6. Meanings(other) = SavedMeanings(chain)[k]
    BY <1>2, <1>3, <1>4 DEF Meanings
  <1>7. /\ SavedMeanings(other) \in Seq(Environment)
        /\ Len(SavedMeanings(other)) = k - 1
        /\ \A i \in 1..(k - 1) : SavedMeanings(other)[i] = [n \in Names |-> MeaningOf(other, i, n)]
    BY <1>2, SavedFacts
  <1>8. PICK rest : /\ rest = Pop(SavedMeanings(chain)) /\ rest \in Seq(Environment)
                    /\ Len(rest) = k - 1
                    /\ \A i \in 1..(k - 1) : rest[i] = SavedMeanings(chain)[i]
    BY <1>4, <1>5, PopSeq
  <1>9. \A i \in 1..(k - 1) : [n \in Names |-> MeaningOf(other, i, n)] = [n \in Names |-> MeaningOf(chain, i, n)]
    BY <1>3
  <1>10. \A i \in 1..(k - 1) : SavedMeanings(other)[i] = rest[i]
    BY <1>4, <1>7, <1>8, <1>9
  <1>11. SavedMeanings(other) = rest
    BY <1>7, <1>8, <1>10, SeqEqual
  <1> QED
    BY <1>2, <1>4, <1>5, <1>6, <1>8, <1>11 DEF Pop

(* The chain is a nonempty sequence of scopes.                             *)
LEMMA ScopesType == ASSUME IInv PROVE scopes \in Seq(ScopeRecords) /\ Len(scopes) \in Nat \ {0}
  BY ScopeFacts DEF IInv, TypeOK, ScopeRecords

(* Nothing changes for the steps that leave the scopes alone. *)
LEMMA SameScopes ==
  ASSUME scopes' = scopes
  PROVE  UNCHANGED Lexical!vars
  <1>1. MappedMeaning' = MappedMeaning /\ MappedSaved' = MappedSaved
    BY MappedIs, MappedNextIs DEF Mapped
  <1> QED
    BY <1>1 DEF MappedMeaning, MappedSaved, Lexical!vars

(* declare_symbol changes one meaning in the current scope, or none.       *)
LEMMA DeclareSymbolLexical ==
  ASSUME IInv, DeclareSymbol, Len(syms) <= MaxSymbols, ~ UNCHANGED scopes
  PROVE  Lexical!Next
  <1> DEFINE s  == Top(parser).sym
             nm == syms[s].name
  <1>1. s \in Symbols /\ nm \in Names
    BY DeclareSymbolFrames, SymbolFacts
  <1>2. scopes' = Install(s) /\ ~DeclaredInScope(nm)
    BY DEF DeclareSymbol
  <1>3. s \in Nat \ {NoSym} /\ s \in 1..MaxSymbols
    BY <1>1, SymbolFacts, ConstantsAssumption DEF Symbols, NoSym
  <1> HIDE DEF s
  <1>4. scopes[Len(scopes)].names[nm] = NoSym
    <2>1. DeclaratorRead /\ Top(parser).ctx # "param"
      BY DEF DeclareSymbol, In
    <2> QED
      BY <1>1, <1>2, <2>1, RedeclarationFromInvariant DEF RedeclarationTestIsExact, Top
  <1>5. PICK chain : chain = scopes'
    OBVIOUS
  <1> HIDE DEF nm
  <1>6. /\ chain \in Seq(ScopeRecords) /\ Len(chain) = Len(scopes)
        /\ \A i \in 1..Len(scopes), n \in Names :
             chain[i].names[n] = IF i = Len(scopes) /\ n = nm THEN s ELSE scopes[i].names[n]
    BY <1>1, <1>2, <1>5, InstallFacts DEF nm
  <1>7. /\ MappedMeaning' = [MappedMeaning EXCEPT ![nm] = s]
        /\ MappedSaved' = MappedSaved
    <2>1. Meanings(chain) = [Meanings(scopes) EXCEPT ![nm] = s] /\ SavedMeanings(chain) = SavedMeanings(scopes)
      BY <1>1, <1>3, <1>6, ScopesType, InstallMeans
    <2> QED
      BY <1>5, <2>1, MappedIs, MappedNextIs DEF Mapped
  <1>8. MappedMeaning[nm] = IF MappedSaved = <<>> THEN NoSym ELSE MappedSaved[Len(MappedSaved)][nm]
    <2>1. Meanings(scopes)[nm] = IF SavedMeanings(scopes) = <<>> THEN NoSym
                                 ELSE SavedMeanings(scopes)[Len(SavedMeanings(scopes))][nm]
      BY <1>1, <1>4, ScopesType, OuterMeans
    <2> QED
      BY <2>1, MappedIs DEF Mapped
  <1>9. Lexical!Declare(nm, s)
    BY <1>7, <1>8 DEF MappedMeaning, MappedSaved, Lexical!Declare, Lexical!OuterMeaning
  <1> QED
    BY <1>1, <1>3, <1>9 DEF Lexical!Next

(* A definition declares the function where everything is still at file    *)
(* scope, and its parameters in a scope of their own.                      *)
LEMMA DefineFunctionLexical ==
  ASSUME IInv, DefineFunction, Len(syms) <= MaxSymbols, ~ UNCHANGED scopes
  PROVE  Lexical!Next
  <1> DEFINE t == Top(parser).sym
             nm == syms[t].name
  <1>f. PICK f : f = DefinedSymbol(t)
    OBVIOUS
  <1>1. /\ f # NoSym /\ DefinitionPoint
        /\ scopes' = Append(Install(f), [level |-> CurLevel + 1, names |-> ParamTable(Ty(f).params)])
    BY <1>f DEF DefineFunction, Crash
  <1>2. /\ f \in Symbols /\ syms[f].name = nm /\ nm \in Names
        /\ scopes[1].names[nm] \in {NoSym, f}
        /\ Len(scopes) = 1 /\ CurLevel = 0
    <2>1. f \in Symbols /\ syms[f].name = nm /\ scopes[1].names[nm] \in {NoSym, f}
      BY <1>f, <1>1, DefinedFacts
    <2>2. Len(scopes) = 1 /\ CurLevel = 0
      BY <1>1, DefinitionFacts
    <2> QED
      BY <2>1, <2>2, SymbolFacts
  <1> HIDE DEF nm
  <1>3. f \in Nat \ {NoSym} /\ f \in 1..MaxSymbols
    BY <1>2, SymbolFacts, ConstantsAssumption DEF Symbols, NoSym
  <1>4. PICK table : table = ParamTable(Ty(f).params)
    OBVIOUS
  <1>5. /\ table \in [Names -> Nat]
        /\ \A n \in Names : table[n] # NoSym => table[n] \in Symbols
    BY <1>2, <1>4, ParamTableFacts
  <1>6. table \in [Names -> (1..MaxSymbols) \cup {NoSym}]
    <2>1. \A n \in Names : table[n] \in (1..MaxSymbols) \cup {NoSym}
      BY <1>5, SymbolFacts, ConstantsAssumption DEF Symbols
    <2> QED
      BY <1>5, <2>1
  <1>7. PICK chain : chain = Install(f)
    OBVIOUS
  <1>8. /\ chain \in Seq(ScopeRecords) /\ Len(chain) = 1
        /\ \A i \in 1..Len(scopes), n \in Names :
             chain[i].names[n] = IF i = Len(scopes) /\ n = nm THEN f ELSE scopes[i].names[n]
    BY <1>2, <1>7, InstallFacts
  <1>9. /\ Meanings(chain) = [Meanings(scopes) EXCEPT ![nm] = f]
        /\ SavedMeanings(chain) = SavedMeanings(scopes)
    BY <1>2, <1>3, <1>8, ScopesType, InstallMeans
  <1>10. PICK e : e = [level |-> CurLevel + 1, names |-> table]
    OBVIOUS
  <1>11. e \in ScopeRecords /\ e.names = table
    BY <1>2, <1>5, <1>10 DEF ScopeRecords
  <1>12. /\ SavedMeanings(scopes') = Append(SavedMeanings(chain), Meanings(chain))
         /\ Meanings(scopes') = [n \in Names |-> IF e.names[n] # NoSym THEN e.names[n] ELSE Meanings(chain)[n]]
    <2>1. scopes' = Append(chain, e)
      BY <1>1, <1>4, <1>7, <1>10
    <2>2. Len(chain) # 0
      BY <1>8
    <2> QED
      BY <1>8, <1>11, <2>1, <2>2, EnterMeans
  <1>13. SavedMeanings(scopes) = <<>>
    <2>1. SavedMeanings(scopes) \in Seq(Environment) /\ Len(SavedMeanings(scopes)) = Len(scopes) - 1
      BY ScopesType, SavedFacts
    <2>2. Len(SavedMeanings(scopes)) = 0
      BY <1>2, <2>1
    <2> QED
      BY <2>1, <2>2, EmptySeq
  <1>14. Meanings(scopes)[nm] \in {NoSym, f}
    <2>1. MeaningOf(scopes, 1, nm) = IF scopes[1].names[nm] # NoSym THEN scopes[1].names[nm]
                                     ELSE MeaningOf(scopes, 0, nm)
      BY MeaningStep
    <2>2. MeaningOf(scopes, 1, nm) \in {NoSym, f}
      BY <1>2, <2>1, MeaningNowhere
    <2> QED
      BY <1>2, <2>2 DEF Meanings
  <1>15. /\ MappedSaved = <<>>
         /\ MappedMeaning[nm] \in {NoSym, f}
         /\ MappedSaved' = << [MappedMeaning EXCEPT ![nm] = f] >>
         /\ MappedMeaning' = [n \in Names |-> IF table[n] # NoSym THEN table[n]
                                              ELSE IF n = nm THEN f ELSE MappedMeaning[n]]
    <2>1. MappedMeaning = Meanings(scopes) /\ MappedSaved = SavedMeanings(scopes)
      BY MappedIs DEF Mapped
    <2>2. MappedSaved' = << [MappedMeaning EXCEPT ![nm] = f] >>
      <3>1. MappedSaved' = Append(<<>>, [MappedMeaning EXCEPT ![nm] = f])
        BY <1>9, <1>12, <1>13, <2>1, MappedNextIs
      <3> QED
        BY <3>1
    <2>3. \A n \in Names : Meanings(chain)[n] = IF n = nm THEN f ELSE MappedMeaning[n]
      BY <1>9, <2>1 DEF Meanings
    <2>4. MappedMeaning' = [n \in Names |-> IF table[n] # NoSym THEN table[n] ELSE Meanings(chain)[n]]
      BY <1>11, <1>12, MappedNextIs
    <2> QED
      BY <1>13, <1>14, <2>1, <2>2, <2>3, <2>4
  <1>16. Lexical!OpenFunction(nm, f, table)
    BY <1>15 DEF MappedMeaning, MappedSaved, Lexical!OpenFunction
  <1>17. table \in Lexical!Environments
    BY <1>6 DEF Lexical!Environments
  <1> QED
    BY <1>2, <1>3, <1>16, <1>17 DEF Lexical!Next

(* enter_block saves the meanings of all names.                            *)
LEMMA EnterBlockLexical ==
  ASSUME IInv, EnterBlock
  PROVE  Lexical!Next
  <1>1. PICK e : e = [level |-> CurLevel + 1, names |-> EmptyTable]
    OBVIOUS
  <1>2. scopes' = Append(scopes, e)
    BY <1>1 DEF EnterBlock, EnterScope
  <1>3. e \in ScopeRecords /\ \A n \in Names : e.names[n] = NoSym
    BY <1>1, ScopeFacts DEF ScopeRecords, EmptyTable, NoSym
  <1>4. /\ SavedMeanings(scopes') = Append(SavedMeanings(scopes), Meanings(scopes))
        /\ Meanings(scopes') = [n \in Names |-> IF e.names[n] # NoSym THEN e.names[n] ELSE Meanings(scopes)[n]]
    BY <1>2, <1>3, ScopesType, EnterMeans
  <1>5. Meanings(scopes') = Meanings(scopes)
    BY <1>3, <1>4 DEF Meanings
  <1>6. MappedMeaning' = MappedMeaning /\ MappedSaved' = Append(MappedSaved, MappedMeaning)
    BY <1>4, <1>5, MappedIs, MappedNextIs DEF Mapped
  <1> QED
    BY <1>6 DEF MappedMeaning, MappedSaved, Lexical!OpenBlock, Lexical!Next

(* leave_block and leave_fun restore the meanings saved last.              *)
LEMMA LeaveScopeLexical ==
  ASSUME IInv, LeaveBlock \/ LeaveFun
  PROVE  Lexical!Next
  <1>1. parser # <<>> /\ Top(parser).at \notin DeclarationStates
    BY DEF LeaveBlock, LeaveFun, In, DeclarationStates
  <1>2. Len(scopes) > 1 /\ scopes' = Pop(scopes)
    BY <1>1, InFunction DEF LeaveBlock, LeaveFun
  <1>3. /\ SavedMeanings(scopes) # <<>>
        /\ Meanings(scopes') = SavedMeanings(scopes)[Len(SavedMeanings(scopes))]
        /\ SavedMeanings(scopes') = SubSeq(SavedMeanings(scopes), 1, Len(SavedMeanings(scopes)) - 1)
    BY <1>2, ScopesType, LeaveMeans
  <1>4. /\ MappedSaved # <<>>
        /\ MappedMeaning' = MappedSaved[Len(MappedSaved)]
        /\ MappedSaved' = SubSeq(MappedSaved, 1, Len(MappedSaved) - 1)
    BY <1>3, MappedIs, MappedNextIs DEF Mapped
  <1> QED
    BY <1>4 DEF MappedMeaning, MappedSaved, Lexical!CloseBlock, Lexical!Next

(* At first nothing has a meaning and nothing is saved.                    *)
LEMMA InitLexical == ASSUME Init PROVE Lexical!Init
  <1>1. /\ scopes = << [level |-> 0, names |-> EmptyTable] >> /\ Len(scopes) = 1
        /\ scopes[1].names = EmptyTable
    BY DEF Init
  <1>2. scopes \in Seq(ScopeRecords)
    BY <1>1 DEF ScopeRecords, EmptyTable, NoSym
  <1>3. SavedMeanings(scopes) = <<>>
    <2>0. Len(scopes) # 0
      BY <1>1
    <2>1. SavedMeanings(scopes) \in Seq(Environment) /\ Len(SavedMeanings(scopes)) = Len(scopes) - 1
      BY <1>2, <2>0, SavedFacts
    <2>2. Len(SavedMeanings(scopes)) = 0
      BY <1>1, <2>1
    <2> QED
      BY <2>1, <2>2, EmptySeq
  <1>4. \A n \in Names : MeaningOf(scopes, 1, n) = NoSym
    <2> SUFFICES ASSUME NEW n \in Names PROVE MeaningOf(scopes, 1, n) = NoSym
      OBVIOUS
    <2>1. MeaningOf(scopes, 1, n) = IF scopes[1].names[n] # NoSym THEN scopes[1].names[n]
                                    ELSE MeaningOf(scopes, 0, n)
      BY MeaningStep
    <2> QED
      BY <1>1, <2>1, MeaningNowhere DEF EmptyTable
  <1>5. MappedMeaning = [n \in Names |-> NoSym] /\ MappedSaved = <<>>
    BY <1>1, <1>3, <1>4, MappedIs DEF Mapped, Meanings
  <1> QED
    BY <1>5 DEF MappedMeaning, MappedSaved, Lexical!Init

(* Every step of the analysis is one of environments, or a stutter.        *)
LEMMA NextLexical ==
  ASSUME IInv, Len(syms) <= MaxSymbols, [Next]_vars
  PROVE  [Lexical!Next]_Lexical!vars
  <1>1. CASE scopes' = scopes
    BY <1>1, SameScopes
  <1>2. CASE DeclareSymbol /\ ~ UNCHANGED scopes
    BY <1>2, DeclareSymbolLexical
  <1>3. CASE DefineFunction /\ ~ UNCHANGED scopes
    BY <1>3, DefineFunctionLexical
  <1>4. CASE EnterBlock
    BY <1>4, EnterBlockLexical
  <1>5. CASE LeaveBlock \/ LeaveFun
    BY <1>5, LeaveScopeLexical
  <1>6. scopes' = scopes \/ DeclareSymbol \/ DefineFunction \/ EnterBlock \/ LeaveBlock \/ LeaveFun
    <2>1. ASSUME NEW atom \in SpecAtoms, BeginDeclspecs(atom) \/ MoreDeclspecs(atom)
          PROVE  scopes' = scopes
      BY <2>1 DEF BeginDeclspecs, MoreDeclspecs
    <2>2. ASSUME NEW n \in Names, NEW stars \in 0..MaxStars, Identifier(n, stars)
          PROVE  scopes' = scopes
      BY <2>2 DEF Identifier
    <2>3. ASSUME BeginParameters \/ MakePdecl \/ EndParameter \/ EndDeclaration \/ EndOfFile
          PROVE  scopes' = scopes
      BY <2>3 DEF BeginParameters, MakePdecl, EndParameter, EndDeclaration, EndOfFile
    <2>4. ASSUME MakeFdecl PROVE scopes' = scopes
      BY <2>4 DEF MakeFdecl, Crash
    <2>5. ASSUME NEW n \in Names, UseIdentifier(n) PROVE scopes' = scopes
      BY <2>5 DEF UseIdentifier, Crash
    <2>6. ASSUME NEW withvalue \in BOOLEAN, Return(withvalue) PROVE scopes' = scopes
      BY <2>6 DEF Return
    <2>7. ASSUME UNCHANGED vars PROVE scopes' = scopes
      BY <2>7 DEF vars
    <2> QED
      BY <2>1, <2>2, <2>3, <2>4, <2>5, <2>6, <2>7 DEF Next, Step
  <1> QED
    BY <1>1, <1>2, <1>3, <1>4, <1>5, <1>6

(* Identifier alone allocates a symbol, up to the bound. *)
LEMMA SymbolsStep ==
  ASSUME IInv, Len(syms) <= MaxSymbols, [Next]_vars
  PROVE  Len(syms') <= MaxSymbols
  <1>1. syms \in Seq(SymbolRecords) /\ Len(syms) \in Nat /\ MaxSymbols \in Nat
    BY SymbolFacts, ConstantsAssumption DEF IInv, TypeOK
  <1>2. CASE syms' = syms
    BY <1>2
  <1>3. ASSUME NEW n \in Names, NEW stars \in 0..MaxStars, Identifier(n, stars)
        PROVE  Len(syms') <= MaxSymbols
    <2>1. PICK e : syms' = Append(syms, e)
      BY <1>3 DEF Identifier
    <2>2. Len(syms) < MaxSymbols
      BY <1>3 DEF Identifier
    <2> QED
      BY <1>1, <2>1, <2>2
  <1>4. CASE MakeFdecl
    <2> DEFINE t == Top(parser).sym
    <2>1. Crash => syms' = syms
      BY DEF Crash
    <2>2. \/ syms' = syms
          \/ syms' = [syms EXCEPT ![t].ty = NoType]
          \/ \E ps : syms' = [x \in 1..Len(syms) |->
                   IF x = t
                   THEN [syms[t] EXCEPT !.op = "Sfunc", !.ty = FunctionType(Ty(t), ps)]
                   ELSE IF \E i \in 1..Len(ps) : ps[i] = x
                   THEN [syms[x] EXCEPT !.ty = Adjust(@)]
                   ELSE syms[x]]
      BY <1>4, <2>1 DEF MakeFdecl
    <2> HIDE DEF t
    <2>3. CASE syms' = [syms EXCEPT ![t].ty = NoType]
      BY <1>1, <2>3
    <2>4. ASSUME NEW ps, syms' = [x \in 1..Len(syms) |->
                   IF x = t
                   THEN [syms[t] EXCEPT !.op = "Sfunc", !.ty = FunctionType(Ty(t), ps)]
                   ELSE IF \E i \in 1..Len(ps) : ps[i] = x
                   THEN [syms[x] EXCEPT !.ty = Adjust(@)]
                   ELSE syms[x]]
          PROVE  Len(syms') = Len(syms)
      BY <1>1, <2>4
    <2> QED
      BY <1>1, <2>2, <2>3, <2>4
  <1>5. CASE MakePdecl
    BY <1>1, <1>5 DEF MakePdecl
  <1>6. CASE LeaveBlock
    BY <1>1, <1>6 DEF LeaveBlock
  <1>7. (\E n \in Names, stars \in 0..MaxStars : Identifier(n, stars)) \/ MakeFdecl \/ MakePdecl
           \/ LeaveBlock \/ syms' = syms
    <2>1. ASSUME NEW atom \in SpecAtoms, BeginDeclspecs(atom) \/ MoreDeclspecs(atom)
          PROVE  syms' = syms
      BY <2>1 DEF BeginDeclspecs, MoreDeclspecs
    <2>2. ASSUME BeginParameters \/ EndParameter \/ DeclareSymbol \/ EndDeclaration \/ EnterBlock
                 \/ LeaveFun \/ EndOfFile \/ UNCHANGED vars
          PROVE  syms' = syms
      BY <2>2 DEF BeginParameters, EndParameter, DeclareSymbol, EndDeclaration, EnterBlock, LeaveFun,
                  EndOfFile, vars
    <2>3. ASSUME NEW n \in Names, UseIdentifier(n) PROVE syms' = syms
      BY <2>3 DEF UseIdentifier, Crash
    <2>4. ASSUME NEW withvalue \in BOOLEAN, Return(withvalue) PROVE syms' = syms
      BY <2>4 DEF Return
    <2>5. ASSUME DefineFunction PROVE syms' = syms
      BY <2>5 DEF DefineFunction, Crash
    <2> QED
      BY <2>1, <2>2, <2>3, <2>4, <2>5 DEF Next, Step
  <1> QED
    BY <1>2, <1>3, <1>4, <1>5, <1>6, <1>7

(* resolve implements lexical scoping, for any number of names, symbols    *)
(* and nested blocks: install, enter_scope, leave_scope and what           *)
(* define_function does to the scopes are steps of environments that are   *)
(* saved and restored.                                                     *)
THEOREM ScopesAreLexical == Spec => ScopingIsLexical
  <1>1. Init => Len(syms) <= MaxSymbols
    BY ConstantsAssumption DEF Init
  <1>2. IInv /\ Len(syms) <= MaxSymbols /\ [Next]_vars => (Len(syms) <= MaxSymbols)'
    BY SymbolsStep
  <1>3. IInv /\ Len(syms) <= MaxSymbols /\ [Next]_vars => [Lexical!Next]_Lexical!vars
    BY NextLexical
  <1>4. Init => Lexical!Init
    BY InitLexical
  <1> QED
    BY <1>1, <1>2, <1>3, <1>4, Inductive, PTL DEF Spec, ScopingIsLexical, Lexical!Spec
-----------------------------------------------------------------------------

(* The functions whose declspec was left behind: those that have their     *)
(* body, but for the one being defined.                                    *)
LeftBehind == {s \in Symbols : syms[s].body /\ s # curfn}

(* One entry for each declaration being read and for the function being    *)
(* defined, on those left behind; the last one is untouched as long as     *)
(* the declaration has no declarator.                                      *)
DsstackCount ==
  Len(dsstack) = Len(parser) - FunctionFrames
                   + (IF curfn = NoSym THEN 0 ELSE 1) + Cardinality(LeftBehind)
SpecsUnread ==
  parser # <<>> /\ Top(parser).at = "specs" /\ Top(parser).first => Top(dsstack).empty
StackInv == DsstackCount /\ SpecsUnread

(* They can be counted.                                                    *)
LEMMA LeftBehindFinite ==
  ASSUME IInv
  PROVE  IsFiniteSet(LeftBehind) /\ Cardinality(LeftBehind) \in Nat
  <1>1. IsFiniteSet(1..Len(syms))
    BY SymbolFacts, FS_Interval
  <1>2. LeftBehind \subseteq 1..Len(syms)
    BY DEF LeftBehind, Symbols
  <1> QED
    BY <1>1, <1>2, FS_Subset, FS_CardinalityType

(* How many of 1, ..., i are left when 2, ..., f are taken out.            *)
LEMMA OpenCount ==
  ASSUME NEW f \in Nat, NEW i \in Nat
  PROVE  /\ Cardinality(1..i) = i
         /\ Cardinality({1}) = 1
         /\ f >= 1 /\ i > f => Cardinality({1} \cup (f+1)..i) = i - f + 1
  <1>1. Cardinality(1..i) = i
    BY FS_Interval
  <1>2. IsFiniteSet((f+1)..i) /\ (i > f => Cardinality((f+1)..i) = i - f)
    <2>1. f + 1 \in Int /\ i \in Int
      OBVIOUS
    <2>2. IsFiniteSet((f+1)..i) /\ Cardinality((f+1)..i) = IF f + 1 > i THEN 0 ELSE i - (f + 1) + 1
      BY <2>1, FS_Interval
    <2> QED
      BY <2>2
  <1>3. ASSUME f >= 1, i > f PROVE Cardinality({1} \cup (f+1)..i) = i - f + 1
    <2> DEFINE S == (f+1)..i
    <2>1. 1 \notin S
      BY <1>3
    <2>2. IsFiniteSet(S) /\ Cardinality(S) = i - f
      BY <1>2, <1>3
    <2> HIDE DEF S
    <2>3. Cardinality(S \cup {1}) = Cardinality(S) + 1
      BY <2>1, <2>2, FS_AddElement
    <2>4. S \cup {1} = {1} \cup S
      OBVIOUS
    <2> QED
      BY <2>2, <2>3, <2>4 DEF S
  <1>4. Cardinality({1}) = 1
    BY FS_Singleton
  <1> QED
    BY <1>1, <1>3, <1>4

(* The entries below the open declarations and the function being defined  *)
(* are those of the functions left behind.                                 *)
LEMMA BelowIs ==
  ASSUME IInv
  PROVE  LET defined == {s \in Symbols : syms[s].body} IN
         (IF curfn # NoSym /\ syms[curfn].body THEN defined \ {curfn} ELSE defined) = LeftBehind
  <1>1. NoSym \notin Symbols
    BY SymbolFacts DEF Symbols, NoSym
  <1>2. CASE curfn # NoSym /\ syms[curfn].body
    BY <1>2 DEF LeftBehind
  <1>3. CASE curfn = NoSym
    BY <1>1, <1>3 DEF LeftBehind
  <1>4. CASE curfn # NoSym /\ ~syms[curfn].body
    BY <1>4 DEF LeftBehind
  <1> QED
    BY <1>2, <1>3, <1>4

(* The frames that own a declspec: the function's and the declarations'.   *)
LEMMA OwnersAre ==
  ASSUME IInv
  PROVE  LET owners == {i \in 1..Len(parser) : parser[i].at # "block"} IN
         /\ curfn = NoSym => FunctionFrames = 0 /\ owners = 1..Len(parser)
         /\ curfn # NoSym => /\ FunctionFrames >= 1
                             /\ owners = {1} \cup (FunctionFrames + 1)..Len(parser)
  <1>1. Len(parser) \in Nat /\ FunctionFrames \in Nat /\ FunctionFrames <= Len(parser) /\ Len(bstack) \in Nat
    BY ScopeFacts DEF IInv, ParserShape
  <1>2. \A i \in 1..Len(parser) : i > FunctionFrames => parser[i].at # "block"
    BY DEF IInv, ParserShape, DeclarationStates
  <1>3. CASE curfn = NoSym
    <2>1. FunctionFrames = 0
      BY <1>3 DEF FunctionFrames
    <2> QED
      BY <1>1, <1>2, <1>3, <2>1
  <1>4. CASE curfn # NoSym
    <2>1. FunctionFrames >= 1
      BY <1>1, <1>4 DEF FunctionFrames
    <2>2. parser[1].at # "block"
      BY <1>4 DEF IInv, ParserShape, FunctionStates
    <2>3. \A i \in 1..Len(parser) : 1 < i /\ i <= FunctionFrames => parser[i].at = "block"
      BY DEF IInv, ParserShape
    <2>4. PICK f : f = FunctionFrames
      OBVIOUS
    <2>5. {i \in 1..Len(parser) : parser[i].at # "block"} = {1} \cup (f + 1)..Len(parser)
      BY <1>1, <1>2, <2>1, <2>2, <2>3, <2>4
    <2> QED
      BY <1>4, <2>1, <2>4, <2>5
  <1> QED
    BY <1>3, <1>4

(* What the discipline asks of a frame follows from the counts.            *)
LEMMA DisciplineFromCount ==
  ASSUME IInv, DsstackCount, SpecsUnread
  PROVE  DsstackDiscipline
  <1> DEFINE n      == Len(parser)
             f      == FunctionFrames
             b      == Cardinality(LeftBehind)
             owners == {i \in 1..n : parser[i].at # "block"}
             open(i) == {j \in owners : j <= i}
             count(i) == Cardinality(open(i))
  <1>1. n \in Nat /\ f \in Nat /\ f <= n /\ b \in Nat
    BY ScopeFacts, LeftBehindFinite DEF IInv, ParserShape
  <1>2. Len(dsstack) = n - f + (IF curfn = NoSym THEN 0 ELSE 1) + b
    BY DEF DsstackCount
  <1>3. (curfn = NoSym => f = 0 /\ owners = 1..n) /\ (curfn # NoSym => f >= 1 /\ owners = {1} \cup (f+1)..n)
    BY OwnersAre
  <1> HIDE DEF n, f, b
  <1>4. ASSUME NEW i \in owners
        PROVE  /\ i > f => count(i) = IF curfn = NoSym THEN i - f ELSE i - f + 1
               /\ i <= f => curfn # NoSym /\ i = 1 /\ count(i) = 1
    <2>1. i \in Nat /\ i \in 1..n
      BY <1>1
    <2>2. CASE curfn = NoSym
      <3>1. open(i) = 1..i
        BY <1>1, <1>3, <2>1, <2>2
      <3> HIDE DEF open
      <3>2. count(i) = i
        BY <2>1, <3>1, OpenCount
      <3> QED
        BY <1>1, <1>3, <2>1, <2>2, <3>2
    <2>3. CASE curfn # NoSym /\ i > f
      <3>1. open(i) = {1} \cup (f+1)..i
        BY <1>1, <1>3, <2>1, <2>3
      <3>2. f >= 1
        BY <1>3, <2>3
      <3> HIDE DEF open
      <3>3. count(i) = i - f + 1
        BY <1>1, <2>1, <2>3, <3>1, <3>2, OpenCount
      <3> QED
        BY <1>1, <2>1, <2>3, <3>3
    <2>4. CASE curfn # NoSym /\ i <= f
      <3>1. i = 1
        BY <1>1, <1>3, <2>1, <2>4
      <3>2. open(i) = {1}
        BY <1>1, <1>3, <2>4, <3>1
      <3> HIDE DEF open
      <3>3. count(i) = 1
        BY <1>1, <3>2, OpenCount
      <3> QED
        BY <1>1, <2>1, <2>4, <3>1, <3>3
    <2> QED
      BY <1>1, <1>3, <2>1, <2>2, <2>3, <2>4
  <1> HIDE DEF count
  <1>5. ASSUME NEW i \in owners
        PROVE  /\ count(i) + b <= Len(dsstack)
               /\ i = n => count(i) + b = Len(dsstack)
    <2>1. i \in Nat /\ i \in 1..n
      BY <1>1
    <2>2. CASE i > f
      BY <1>1, <1>2, <1>4, <2>1, <2>2
    <2>3. CASE i <= f
      BY <1>1, <1>2, <1>4, <2>1, <2>3
    <2> QED
      BY <1>1, <2>1, <2>2, <2>3
  <1>6. ASSUME NEW i \in owners, parser[i].at = "specs", parser[i].first
        PROVE  dsstack[count(i) + b].empty
    <2>1. i \in 1..n
      OBVIOUS
    <2>2. i = n
      <3>1. i > f
        BY <1>1, <1>4, <1>6, <2>1 DEF IInv, ParserShape, FunctionStates
      <3> QED
        BY <1>1, <1>6, <2>1, <3>1 DEF IInv, ParserShape, n, f
    <2>3. parser # <<>> /\ Top(parser) = parser[i]
      BY <1>1, <2>1, <2>2 DEF Top, n
    <2>4. Top(dsstack) = dsstack[count(i) + b]
      BY <1>5, <2>2 DEF Top
    <2> QED
      BY <1>6, <2>3, <2>4 DEF SpecsUnread
  <1> QED
    BY <1>5, <1>6, BelowIs DEF DsstackDiscipline, count, open, n, b

(* Steps that keep the bodies, the number of frames and of declspecs.      *)
LEMMA CountSame ==
  ASSUME IInv, DsstackCount, Len(syms') = Len(syms),
         \A s \in Symbols : syms'[s].body = syms[s].body,
         UNCHANGED curfn, Len(bstack') = Len(bstack),
         Len(parser') = Len(parser), Len(dsstack') = Len(dsstack)
  PROVE  DsstackCount'
  <1>1. LeftBehind' = LeftBehind
    BY DEF LeftBehind, Symbols
  <1>2. FunctionFrames' = FunctionFrames
    BY DEF FunctionFrames
  <1> QED
    BY <1>1, <1>2 DEF DsstackCount

(* Steps that keep the symbols.                                            *)
LEMMA LeftBehindSame ==
  ASSUME UNCHANGED <<syms, curfn>>
  PROVE  LeftBehind' = LeftBehind
  BY DEF LeftBehind, Symbols

(* Steps that touch nothing the invariant is about, or crash.              *)
LEMMA QuietStack ==
  ASSUME StackInv, UNCHANGED <<parser, dsstack, syms, bstack, curfn>>
  PROVE  StackInv'
  BY DEF StackInv, DsstackCount, SpecsUnread, FunctionFrames, LeftBehind, Symbols, Top

(* A crash leaves the stacks alone.                                        *)
LEMMA CrashStack ==
  ASSUME StackInv, Crash
  PROVE  StackInv'
  BY QuietStack DEF Crash

(* The lengths of what SetTop, Pop and Append return here.                 *)
LEMMA ParserLength ==
  ASSUME IInv
  PROVE  /\ parser \in Seq(Frames) /\ Len(parser) \in Nat
         /\ Len(dsstack) \in Nat /\ Len(bstack) \in Nat
         /\ \A e : Len(SetTop(parser, e)) = Len(parser)
         /\ parser # <<>> => \A e : Top(SetTop(parser, e)) = e
  <1>1. parser \in Seq(Frames) /\ Len(parser) \in Nat /\ Len(dsstack) \in Nat /\ Len(bstack) \in Nat
    BY DEF IInv, TypeOK
  <1>2. \A e : Len(SetTop(parser, e)) = Len(parser)
    BY <1>1 DEF SetTop
  <1>3. ASSUME parser # <<>>, NEW e PROVE Top(SetTop(parser, e)) = e
    <2>1. Len(parser) \in 1..Len(parser)
      BY <1>1, <1>3
    <2>2. SetTop(parser, e)[Len(parser)] = e
      BY <1>1, <2>1 DEF SetTop
    <2> QED
      BY <1>2, <2>2 DEF Top
  <1> QED
    BY <1>1, <1>2, <1>3

(* A step that replaces the top frame, and does not read specifiers.       *)
LEMMA FrameStack ==
  ASSUME IInv, StackInv, parser # <<>>, NEW e, e.at # "specs",
         parser' = SetTop(parser, e), Len(dsstack') = Len(dsstack),
         Len(bstack') = Len(bstack), UNCHANGED curfn,
         Len(syms') = Len(syms), \A s \in Symbols : syms'[s].body = syms[s].body
  PROVE  StackInv'
  <1>1. Len(parser') = Len(parser) /\ Top(parser)' = e
    BY ParserLength
  <1>2. DsstackCount'
    BY <1>1, CountSame DEF StackInv
  <1>3. SpecsUnread'
    BY <1>1 DEF SpecsUnread
  <1> QED
    BY <1>2, <1>3 DEF StackInv

(* A declaration starts: a frame and a declspec are pushed.                *)
LEMMA BeginDeclspecsStack ==
  ASSUME IInv, StackInv, NEW atom \in SpecAtoms, BeginDeclspecs(atom)
  PROVE  StackInv'
  <1>1. PICK e, d : /\ d.empty = TRUE
                    /\ parser' = Append(parser, e) /\ dsstack' = Append(dsstack, d)
                    /\ UNCHANGED <<syms, bstack, curfn>>
    BY DEF BeginDeclspecs
  <1>2. Len(parser') = Len(parser) + 1 /\ Len(dsstack') = Len(dsstack) + 1 /\ Top(dsstack') = d
    BY <1>1, ParserLength DEF IInv, TypeOK, Top
  <1>3. FunctionFrames' = FunctionFrames /\ FunctionFrames \in Nat
    BY <1>1, ScopeFacts DEF FunctionFrames
  <1>4. DsstackCount'
    BY <1>1, <1>2, <1>3, LeftBehindSame, LeftBehindFinite, ParserLength DEF StackInv, DsstackCount
  <1>5. SpecsUnread'
    BY <1>1, <1>2 DEF SpecsUnread, Top
  <1> QED
    BY <1>4, <1>5 DEF StackInv

(* Another specifier: the declspec stays as unread as it was.              *)
LEMMA MoreDeclspecsStack ==
  ASSUME IInv, StackInv, NEW atom \in SpecAtoms, MoreDeclspecs(atom)
  PROVE  StackInv'
  <1>1. PICK ts : /\ dsstack' = [dsstack EXCEPT ![Len(dsstack)].ts = ts]
                  /\ UNCHANGED <<parser, syms, bstack, curfn>>
                  /\ parser # <<>> /\ Top(parser).at = "specs"
    BY DEF MoreDeclspecs, In
  <1>2. Len(dsstack) \in Nat \ {0} /\ dsstack \in Seq([ts : SpecifierSets, empty : BOOLEAN])
    BY <1>1, DsstackFacts DEF DeclarationStates, IInv, TypeOK
  <1>3. Len(dsstack') = Len(dsstack) /\ dsstack'[Len(dsstack)].empty = dsstack[Len(dsstack)].empty
    BY <1>1, <1>2
  <1>4. DsstackCount'
    BY <1>1, <1>3, CountSame DEF StackInv
  <1>5. SpecsUnread'
    BY <1>1, <1>3 DEF StackInv, SpecsUnread, Top
  <1> QED
    BY <1>4, <1>5 DEF StackInv

(* A declarator's identifier: a symbol without a body is allocated.        *)
LEMMA IdentifierStack ==
  ASSUME IInv, StackInv, NEW n \in Names, NEW stars \in 0..MaxStars, Identifier(n, stars)
  PROVE  StackInv'
  <1>0. parser # <<>> /\ Top(parser) \in Frames
    BY TopFacts DEF Identifier, In
  <1>1. PICK e, s : /\ e.at = "declarator" /\ s.body = FALSE
                    /\ parser' = SetTop(parser, e) /\ syms' = Append(syms, s)
                    /\ dsstack' = [dsstack EXCEPT ![Len(dsstack)].empty = FALSE]
                    /\ UNCHANGED <<bstack, curfn>>
    <2> DEFINE e == [Top(parser) EXCEPT !.at = "declarator", !.stars = stars, !.sym = Len(syms) + 1]
               s == [name |-> n, op |-> "Sdata", level |-> CurLevel,
                     ty |-> TypeOf(DeclspecType(Top(dsstack).ts), 0),
                     body |-> FALSE, locals |-> {}]
    <2>1. e.at = "declarator" /\ s.body = FALSE
      BY <1>0 DEF Frames
    <2>2. /\ parser' = SetTop(parser, e) /\ syms' = Append(syms, s)
          /\ dsstack' = [dsstack EXCEPT ![Len(dsstack)].empty = FALSE]
          /\ UNCHANGED <<bstack, curfn>>
      BY DEF Identifier
    <2> HIDE DEF e, s
    <2> QED
      BY <2>1, <2>2
  <1>2. Len(parser') = Len(parser) /\ Top(parser)' = e /\ Len(dsstack') = Len(dsstack)
    BY <1>0, <1>1, ParserLength DEF IInv, TypeOK
  <1>3. LeftBehind' = LeftBehind
    <2>0. syms \in Seq(SymbolRecords \cup {s}) /\ s \in SymbolRecords \cup {s}
      <3>1. syms \in Seq(SymbolRecords)
        BY DEF IInv, TypeOK
      <3>2. Len(syms) \in Nat /\ syms = [x \in 1..Len(syms) |-> syms[x]]
            /\ \A x \in 1..Len(syms) : syms[x] \in SymbolRecords \cup {s}
        BY <3>1
      <3> QED
        BY <3>2
    <2>1. /\ Len(syms) \in Nat /\ Len(syms') = Len(syms) + 1
          /\ \A x \in 1..Len(syms) : syms'[x] = syms[x]
          /\ syms'[Len(syms) + 1] = s
      BY <1>1, <2>0, AppendSeq
    <2>2. \A x : x \in 1..Len(syms') <=> x \in 1..Len(syms) \/ x = Len(syms) + 1
      BY <2>1
    <2> QED
      BY <1>1, <2>1, <2>2 DEF LeftBehind, Symbols
  <1>4. FunctionFrames' = FunctionFrames
    BY <1>1 DEF FunctionFrames
  <1>5. DsstackCount'
    BY <1>1, <1>2, <1>3, <1>4 DEF StackInv, DsstackCount
  <1>6. SpecsUnread'
    BY <1>1, <1>2 DEF SpecsUnread
  <1> QED
    BY <1>5, <1>6 DEF StackInv

(* BeginParameters, MakePdecl and DeclareSymbol replace the top frame.     *)
LEMMA DeclaratorStack ==
  ASSUME IInv, StackInv, BeginParameters \/ MakePdecl \/ DeclareSymbol
  PROVE  StackInv'
  <1>0. parser # <<>> /\ Top(parser) \in Frames
    BY TopFacts DEF BeginParameters, MakePdecl, DeclareSymbol, In
  <1>1. CASE BeginParameters
    <2>1. PICK e : e.at = "params" /\ parser' = SetTop(parser, e)
                     /\ UNCHANGED <<dsstack, syms, bstack, curfn>>
      BY <1>0, <1>1 DEF BeginParameters, Frames
    <2> QED
      BY <1>0, <2>1, FrameStack
  <1>2. CASE MakePdecl
    <2>1. PICK e, t : /\ e.at = "pointer" /\ parser' = SetTop(parser, e)
                      /\ syms' = [syms EXCEPT ![Top(parser).sym].ty = t]
                      /\ UNCHANGED <<dsstack, bstack, curfn>>
      BY <1>0, <1>2 DEF MakePdecl, Frames
    <2>2. Len(syms') = Len(syms) /\ \A s \in Symbols : syms'[s].body = syms[s].body
      BY <2>1, SymbolFacts DEF Symbols, SymbolRecords, IInv, TypeOK
    <2> QED
      BY <1>0, <2>1, <2>2, FrameStack
  <1>3. CASE DeclareSymbol
    <2>1. PICK e : /\ e.at = "list" /\ parser' = SetTop(parser, e)
                   /\ UNCHANGED <<dsstack, syms, curfn>>
      BY <1>0, <1>3 DEF DeclareSymbol, Frames
    <2>2. Len(bstack') = Len(bstack)
      <3>1. bstack' = bstack \/ \E b : bstack' = SetTop(bstack, b)
        BY <1>3 DEF DeclareSymbol
      <3> QED
        BY <3>1 DEF SetTop, IInv, TypeOK
    <2> QED
      BY <1>0, <2>1, <2>2, FrameStack
  <1> QED
    BY <1>1, <1>2, <1>3

(* make_fdecl changes types and sorts of symbols, never bodies.            *)
LEMMA MakeFdeclStack ==
  ASSUME IInv, StackInv, MakeFdecl
  PROVE  StackInv'
  <1> DEFINE t == Top(parser).sym
  <1>0. parser # <<>> /\ Top(parser) \in Frames /\ Top(parser).at \in DeclaringStates
    BY TopFacts DEF MakeFdecl, In, DeclaringStates
  <1>1. t \in Symbols
    BY <1>0, TopSym
  <1>2. CASE Crash
    BY <1>2, CrashStack
  <1>3. CASE ~Crash
    <2>1. /\ \E e : e.at = "declarator" /\ parser' = SetTop(parser, e)
          /\ UNCHANGED <<dsstack, bstack, curfn>>
      BY <1>0, <1>3 DEF MakeFdecl, Frames
    <2>2. \/ syms' = [syms EXCEPT ![t].ty = NoType]
          \/ \E ps : syms' = [x \in 1..Len(syms) |->
                   IF x = t
                   THEN [syms[t] EXCEPT !.op = "Sfunc", !.ty = FunctionType(Ty(t), ps)]
                   ELSE IF \E i \in 1..Len(ps) : ps[i] = x
                   THEN [syms[x] EXCEPT !.ty = Adjust(@)]
                   ELSE syms[x]]
      BY <1>3 DEF MakeFdecl
    <2> HIDE DEF t
    <2>3. Len(syms') = Len(syms) /\ \A s \in Symbols : syms'[s].body = syms[s].body
      <3>1. CASE syms' = [syms EXCEPT ![t].ty = NoType]
        BY <1>1, <3>1, SymbolFacts DEF Symbols, SymbolRecords, IInv, TypeOK
      <3>2. ASSUME NEW ps, syms' = [x \in 1..Len(syms) |->
                   IF x = t
                   THEN [syms[t] EXCEPT !.op = "Sfunc", !.ty = FunctionType(Ty(t), ps)]
                   ELSE IF \E i \in 1..Len(ps) : ps[i] = x
                   THEN [syms[x] EXCEPT !.ty = Adjust(@)]
                   ELSE syms[x]]
            PROVE  Len(syms') = Len(syms) /\ \A s \in Symbols : syms'[s].body = syms[s].body
        <4>1. Len(syms) \in Nat
          BY SymbolFacts
        <4>2. DOMAIN syms' = 1..Len(syms)
          BY <3>2
        <4>3. Len(syms') = Len(syms)
          BY <3>2, <4>1, LenProperties
        <4>4. ASSUME NEW s \in Symbols PROVE syms'[s].body = syms[s].body
          <5>1. syms[s] \in SymbolRecords
            BY SymbolFacts
          <5>2. \/ syms'[s] = syms[s]
                \/ syms'[s] = [syms[s] EXCEPT !.ty = Adjust(@)]
                \/ syms'[s] = [syms[s] EXCEPT !.op = "Sfunc", !.ty = FunctionType(Ty(t), ps)]
            BY <3>2 DEF Symbols
          <5> QED
            BY <5>1, <5>2 DEF SymbolRecords
        <4> QED
          BY <4>3, <4>4
      <3> QED
        BY <2>2, <3>1, <3>2
    <2> QED
      BY <1>0, <2>1, <2>3, FrameStack
  <1> QED
    BY <1>2, <1>3

(* A declaration or a parameter ends: its frame and its declspec go.       *)
LEMMA EndDeclarationStack ==
  ASSUME IInv, StackInv, EndDeclaration \/ EndParameter
  PROVE  StackInv'
  <1> DEFINE n == Len(parser)
  <1>0. /\ parser # <<>> /\ Top(parser).at \in DeclarationStates
        /\ dsstack' = Pop(dsstack) /\ UNCHANGED <<syms, bstack, curfn>>
    BY DEF EndDeclaration, EndParameter, In, DeclarationStates
  <1>1. n \in Nat \ {0} /\ dsstack # <<>> /\ Len(dsstack) \in Nat \ {0} /\ FunctionFrames < n
    BY <1>0, DsstackFacts, TopFacts
  <1>2. Len(dsstack') = Len(dsstack) - 1
    BY <1>0, <1>1, PopSeq DEF IInv, TypeOK
  <1>3. Pop(parser) \in Seq(Frames) /\ Len(Pop(parser)) = n - 1 /\ \A i \in 1..(n - 1) : Pop(parser)[i] = parser[i]
    BY <1>0, PopSeq DEF IInv, TypeOK
  <1>4. FunctionFrames' = FunctionFrames /\ FunctionFrames \in Nat
    BY <1>0, ScopeFacts DEF FunctionFrames
  <1>5. Len(parser') = n - 1 => DsstackCount'
    BY <1>0, <1>1, <1>2, <1>4, LeftBehindSame, LeftBehindFinite DEF StackInv, DsstackCount
  <1>6. CASE EndDeclaration
    <2>1. parser' = Pop(parser) /\ Top(parser).ctx \in {"ext", "block"}
      BY <1>6 DEF EndDeclaration, In
    <2>2. Len(parser') = n - 1
      BY <1>3, <2>1
    <2>3. SpecsUnread'
      <3>1. SUFFICES ASSUME parser' # <<>> PROVE Top(parser').at # "specs"
        BY DEF SpecsUnread, Top
      <3>2. PICK m : m = n - 1
        OBVIOUS
      <3>3. m \in 1..n /\ m \in 1..(n - 1)
        BY <1>1, <1>3, <2>1, <3>1, <3>2, EmptySeq
      <3>4. Top(parser') = parser[m]
        BY <1>3, <2>1, <3>2, <3>3 DEF Top
      <3>5. n = FunctionFrames + 1
        BY <1>0, <1>1, <1>4, <2>1, TopFacts DEF IInv, ParserShape
      <3>6. m = FunctionFrames /\ curfn # NoSym
        BY <1>1, <1>4, <3>2, <3>3, <3>5 DEF FunctionFrames
      <3> QED
        BY <3>3, <3>4, <3>6 DEF IInv, ParserShape, FunctionStates
    <2> QED
      BY <1>5, <2>2, <2>3 DEF StackInv
  <1>7. CASE EndParameter
    <2>1. Top(parser).ctx = "param"
      BY <1>7 DEF EndParameter, In
    <2>2. PICK m : m = n - 1
      OBVIOUS
    <2>3. n > FunctionFrames + 1
      <3>1. n \in 1..n /\ Top(parser) = parser[n]
        BY <1>0, <1>1, TopFacts
      <3> QED
        BY <1>0, <1>1, <1>4, <2>1, <3>1 DEF IInv, ParserShape
    <2>4. m \in 1..n /\ m \in Nat \ {0} /\ m > FunctionFrames /\ m < n
      <3>1. PICK f : f = FunctionFrames
        OBVIOUS
      <3>2. f \in Nat /\ n \in Nat /\ n > f + 1
        BY <1>1, <1>4, <2>3, <3>1
      <3> HIDE DEF n
      <3>3. m \in Nat /\ m > f /\ m < n
        BY <2>2, <3>2
      <3> QED
        BY <3>1, <3>2, <3>3
    <2>5. parser[m].at = "params" /\ parser[m] \in Frames
      <3>1. parser[m].at = "params"
        BY <2>4 DEF IInv, ParserShape
      <3> QED
        BY <2>4, <3>1 DEF IInv, TypeOK
    <2>6. PICK e : e.at = "params" /\ parser' = SetTop(Pop(parser), e)
      BY <1>7, <2>2, <2>5 DEF EndParameter, Frames
    <2>7. Len(parser') = m /\ Top(parser') = e
      <3>1. DOMAIN Pop(parser) = 1..m
        BY <1>3, <2>2
      <3>2. parser' = [Pop(parser) EXCEPT ![m] = e]
        BY <1>3, <2>2, <2>6 DEF SetTop
      <3>3. Len(parser') = m /\ parser'[m] = e
        <4>1. PICK q : q = Pop(parser)
          OBVIOUS
        <4>2. q \in Seq(Frames) /\ Len(q) = m /\ parser' = [q EXCEPT ![m] = e]
          BY <1>3, <2>2, <3>2, <4>1
        <4> QED
          BY <2>4, <4>2
      <3> QED
        BY <3>3 DEF Top
    <2>8. SpecsUnread'
      BY <2>6, <2>7 DEF SpecsUnread, Top
    <2> QED
      BY <1>5, <2>2, <2>7, <2>8 DEF StackInv
  <1> QED
    BY <1>0, <1>6, <1>7

(* define_function: the entry of the declaration is now that of the        *)
(* function, which has no body yet.                                        *)
LEMMA DefineFunctionStack ==
  ASSUME IInv, StackInv, DefineFunction
  PROVE  StackInv'
  <1> DEFINE f == DefinedSymbol(Top(parser).sym)
  <1>0. DefinitionPoint
    BY DEF DefineFunction
  <1>1. /\ curfn = NoSym /\ parser # <<>> /\ Len(parser) = 1 /\ bstack = <<>>
    BY <1>0, DefinitionFacts
  <1>2. CASE f = NoSym
    BY <1>2, CrashStack DEF DefineFunction
  <1>3. CASE f # NoSym
    <2>1. PICK e : /\ e.at = "entered" /\ parser' = SetTop(parser, e)
                   /\ curfn' = f /\ UNCHANGED <<dsstack, syms, bstack>>
      BY <1>3 DEF DefineFunction, Frame
    <2>2. f \in Symbols /\ syms[f].body = FALSE
      BY <1>0, <1>3, DefinedFacts
    <2> HIDE DEF f
    <2>3. LeftBehind' = LeftBehind
      BY <1>1, <2>1, <2>2, SymbolFacts DEF LeftBehind, Symbols, NoSym
    <2>4. Len(parser') = 1 /\ Top(parser)' = e
      BY <1>1, <2>1, ParserLength
    <2>5. FunctionFrames = 0 /\ FunctionFrames' = 1
      BY <1>1, <1>3, <2>1, EmptySeq DEF FunctionFrames
    <2>6. DsstackCount'
      BY <1>1, <1>3, <2>1, <2>3, <2>4, <2>5, LeftBehindFinite DEF StackInv, DsstackCount
    <2>7. SpecsUnread'
      BY <2>1, <2>4 DEF SpecsUnread
    <2> QED
      BY <2>6, <2>7 DEF StackInv
  <1> QED
    BY <1>2, <1>3

(* A block opens: a frame of the function more.                            *)
LEMMA EnterBlockStack ==
  ASSUME IInv, StackInv, EnterBlock
  PROVE  StackInv'
  <1>0. /\ parser # <<>> /\ Top(parser).at \notin DeclarationStates
        /\ UNCHANGED <<dsstack, syms, curfn>> /\ bstack' = Append(bstack, {})
    BY DEF EnterBlock, In, DeclarationStates
  <1>1. curfn # NoSym /\ Len(bstack) \in Nat
    BY <1>0, InFunction
  <1>2. Len(bstack') = Len(bstack) + 1
    BY <1>0, AppendSeq DEF IInv, TypeOK
  <1>3. PICK q, e : q \in Seq(Frames) /\ Len(q) = Len(parser) /\ e.at = "block" /\ e \in Frames
                    /\ parser' = Append(q, e)
    <2> DEFINE e == Frame("block", "block")
               q == IF Top(parser).at = "entered"
                    THEN SetTop(parser, [Top(parser) EXCEPT !.at = "body"]) ELSE parser
    <2>1. e.at = "block" /\ e \in Frames
      BY DEF Frame, Frames, NoSym
    <2>2. parser \in Seq(Frames) /\ Top(parser) \in Frames
      BY <1>0, TopFacts DEF IInv, TypeOK
    <2>3. q \in Seq(Frames) /\ Len(q) = Len(parser)
      <3>1. PICK b : b = [Top(parser) EXCEPT !.at = "body"]
        OBVIOUS
      <3>2. b \in Frames
        BY <2>2, <3>1 DEF Frames, FunctionStates
      <3> QED
        BY <1>0, <2>2, <3>1, <3>2, SetTopSeq
    <2>4. parser' = Append(q, e)
      BY DEF EnterBlock
    <2> HIDE DEF q, e
    <2> QED
      BY <2>1, <2>3, <2>4
  <1>4. Len(parser') = Len(parser) + 1 /\ Top(parser') = e /\ Len(parser) \in Nat
    BY <1>3, ScopeFacts DEF Top
  <1>5. FunctionFrames = Len(bstack) + 1 /\ FunctionFrames' = Len(bstack) + 2
    BY <1>0, <1>1, <1>2 DEF FunctionFrames
  <1>6. DsstackCount'
    BY <1>0, <1>1, <1>4, <1>5, LeftBehindSame, LeftBehindFinite DEF StackInv, DsstackCount
  <1>7. SpecsUnread'
    BY <1>3, <1>4 DEF SpecsUnread, Top
  <1> QED
    BY <1>6, <1>7 DEF StackInv

(* A block closes; the function gets its body with the last one.           *)
LEMMA LeaveBlockStack ==
  ASSUME IInv, StackInv, LeaveBlock
  PROVE  StackInv'
  <1> DEFINE n == Len(parser)
             outer == Pop(parser)
  <1>0. /\ parser # <<>> /\ Top(parser).at = "block" /\ Top(parser).at \notin DeclarationStates
        /\ UNCHANGED <<dsstack, curfn>>
    BY DEF LeaveBlock, In, DeclarationStates
  <1>1. n \in Nat \ {0} /\ curfn # NoSym /\ FunctionFrames = n /\ Top(parser) = parser[n] /\ n = Len(bstack) + 1
    BY <1>0, InFunction
  <1>2. n # 1
    BY <1>0, <1>1 DEF IInv, ParserShape, FunctionStates
  <1>3. PICK m : m = n - 1
    OBVIOUS
  <1>4. m \in Nat \ {0} /\ m \in 1..n /\ m <= FunctionFrames /\ bstack # <<>> /\ Len(bstack) = m
    BY <1>1, <1>2, <1>3, EmptySeq
  <1>5. outer \in Seq(Frames) /\ Len(outer) = m /\ Top(outer) = parser[m] /\ outer # <<>>
    <2>1. outer \in Seq(Frames) /\ Len(outer) = m /\ \A i \in 1..m : outer[i] = parser[i]
      BY <1>0, <1>3, PopSeq DEF IInv, TypeOK
    <2> QED
      BY <1>4, <2>1, EmptySeq DEF Top
  <1>6. Pop(bstack) \in Seq(SUBSET Nat) /\ Len(Pop(bstack)) = m - 1
    BY <1>4, PopSeq DEF IInv, TypeOK
  <1>7. parser[m] \in Frames
    BY <1>4 DEF IInv, TypeOK
  <1> HIDE DEF outer
  <1>8. CASE Top(outer).at = "body"
    <2>1. m = 1
      BY <1>1, <1>4, <1>5, <1>8 DEF IInv, ParserShape
    <2>2. Top(outer).sym = curfn
      BY <1>1, <1>5, <2>1 DEF IInv, ParserShape
    <2>3. PICK e : e.at = "built" /\ parser' = SetTop(outer, e) /\ bstack' = Pop(bstack)
      BY <1>5, <1>7, <1>8 DEF LeaveBlock, outer, Frames
    <2>4. \E r : syms' = [syms EXCEPT ![curfn] = r]
      <3>1. syms' = [syms EXCEPT ![curfn].body = TRUE, ![curfn].locals = Top(bstack)]
        BY <1>8, <2>2 DEF LeaveBlock, outer
      <3> DEFINE r == [syms[curfn] EXCEPT !.body = TRUE, !.locals = Top(bstack)]
      <3>2. syms' = [syms EXCEPT ![curfn] = r]
        BY <3>1
      <3> HIDE DEF r
      <3> QED
        BY <3>2
    <2>5. LeftBehind' = LeftBehind
      <3>1. Len(syms') = Len(syms) /\ \A s \in Symbols : s # curfn => syms'[s] = syms[s]
        BY <2>4, SymbolFacts DEF IInv, TypeOK, Symbols
      <3> QED
        BY <1>0, <3>1 DEF LeftBehind, Symbols
    <2>6. Len(parser') = m /\ Top(parser') = e
      <3>1. parser' = [outer EXCEPT ![m] = e]
        BY <1>5, <2>3 DEF SetTop
      <3>2. Len(parser') = m /\ parser'[m] = e
        BY <1>4, <1>5, <3>1
      <3> QED
        BY <3>2 DEF Top
    <2>7. FunctionFrames' = m
      BY <1>0, <1>1, <1>4, <1>6, <2>3 DEF FunctionFrames
    <2>8. DsstackCount'
      BY <1>0, <1>1, <1>4, <2>5, <2>6, <2>7, LeftBehindFinite DEF StackInv, DsstackCount
    <2>9. SpecsUnread'
      BY <2>3, <2>6 DEF SpecsUnread, Top
    <2> QED
      BY <2>8, <2>9 DEF StackInv
  <1>9. CASE Top(outer).at # "body"
    <2>1. parser' = outer /\ \E b : bstack' = SetTop(Pop(bstack), b)
      BY <1>9 DEF LeaveBlock, outer
    <2>2. UNCHANGED syms
      BY <1>9 DEF LeaveBlock, outer
    <2>3. Len(bstack') = m - 1
      BY <1>6, <2>1 DEF SetTop
    <2>4. FunctionFrames' = m
      BY <1>0, <1>1, <1>4, <2>3 DEF FunctionFrames
    <2>5. DsstackCount'
      BY <1>0, <1>1, <1>4, <1>5, <2>1, <2>2, <2>4, LeftBehindSame, LeftBehindFinite DEF StackInv, DsstackCount
    <2>6. parser[m].at # "specs"
      BY <1>1, <1>4 DEF IInv, ParserShape, FunctionStates
    <2>7. SpecsUnread'
      BY <1>5, <2>1, <2>6 DEF SpecsUnread, Top
    <2> QED
      BY <2>5, <2>7 DEF StackInv
  <1> QED
    BY <1>8, <1>9

(* leave_fun: the entry of the function is now left behind.                *)
LEMMA LeaveFunStack ==
  ASSUME IInv, StackInv, LeaveFun
  PROVE  StackInv'
  <1>0. /\ parser' = Pop(parser) /\ curfn' = NoSym /\ UNCHANGED <<dsstack, syms, bstack>>
        /\ parser # <<>> /\ Top(parser).at = "built" /\ Top(parser).at \notin DeclarationStates
    BY DEF LeaveFun, In, DeclarationStates
  <1>1. /\ curfn # NoSym /\ Len(parser) \in Nat \ {0}
        /\ FunctionFrames = Len(parser) /\ Len(parser) \in 1..Len(parser)
        /\ parser[Len(parser)].at = "built"
    BY <1>0, InFunction
  <1>2. Len(parser) = 1
    <2>1. \A i \in 1..Len(parser) : 1 < i /\ i <= FunctionFrames => parser[i].at = "block"
      BY DEF IInv, ParserShape
    <2> QED
      BY <1>1, <2>1
  <1>3. Len(parser') = 0 /\ parser' = <<>>
    <2>1. /\ parser \in Seq(Frames)
          /\ Pop(parser) \in Seq(Frames) /\ Len(Pop(parser)) = Len(parser) - 1
      BY <1>0, PopSeq DEF IInv, TypeOK
    <2>2. Len(parser') = 0 /\ parser' \in Seq(Frames)
      BY <1>0, <1>2, <2>1
    <2> QED
      BY <2>2, EmptySeq
  <1>4. syms[curfn].body /\ curfn \in Symbols
    <2>1. syms[curfn].body
      BY <1>1, <1>2 DEF IInv, ExternalsOK
    <2>2. curfn \in Nat /\ curfn <= Len(syms)
      BY DEF IInv, TypeOK, NoDangling
    <2> QED
      BY <1>1, <2>1, <2>2, SymbolFacts DEF Symbols, NoSym
  <1>5. LeftBehind' = LeftBehind \cup {curfn} /\ curfn \notin LeftBehind
    <2>1. NoSym \notin Symbols
      BY SymbolFacts DEF Symbols, NoSym
    <2> QED
      BY <1>0, <1>4, <2>1 DEF LeftBehind, Symbols
  <1>6. Cardinality(LeftBehind)' = Cardinality(LeftBehind) + 1
    <2>1. Cardinality(LeftBehind \cup {curfn}) = Cardinality(LeftBehind) + 1
      BY <1>5, LeftBehindFinite, FS_AddElement
    <2> QED
      BY <1>5, <2>1
  <1>7. FunctionFrames' = 0
    BY <1>0 DEF FunctionFrames
  <1>8. DsstackCount'
    BY <1>0, <1>1, <1>2, <1>3, <1>6, <1>7, LeftBehindFinite DEF StackInv, DsstackCount
  <1>9. SpecsUnread'
    BY <1>3 DEF SpecsUnread
  <1> QED
    BY <1>8, <1>9 DEF StackInv

(* Nothing is open at first.                                               *)
LEMMA InitStack == Init => StackInv
  <1> SUFFICES ASSUME Init PROVE StackInv
    OBVIOUS
  <1>1. LeftBehind = {}
    BY DEF Init, LeftBehind, Symbols
  <1>2. Cardinality(LeftBehind) = 0
    BY <1>1, FS_EmptySet
  <1> QED
    BY <1>2 DEF Init, StackInv, DsstackCount, SpecsUnread, FunctionFrames

(* Every step keeps the counts.                                            *)
LEMMA NextStack == IInv /\ StackInv /\ [Next]_vars => StackInv'
  <1> SUFFICES ASSUME IInv, StackInv, [Next]_vars PROVE StackInv'
    OBVIOUS
  <1>1. CASE UNCHANGED vars
    BY <1>1, QuietStack DEF vars
  <1>2. CASE Next
    <2>1. ASSUME NEW atom \in SpecAtoms, BeginDeclspecs(atom) \/ MoreDeclspecs(atom) PROVE StackInv'
      BY <2>1, BeginDeclspecsStack, MoreDeclspecsStack
    <2>2. ASSUME NEW n \in Names, NEW stars \in 0..MaxStars, Identifier(n, stars) PROVE StackInv'
      BY <2>2, IdentifierStack
    <2>3. CASE BeginParameters \/ MakePdecl \/ DeclareSymbol
      BY <2>3, DeclaratorStack
    <2>4. CASE MakeFdecl
      BY <2>4, MakeFdeclStack
    <2>5. CASE EndParameter \/ EndDeclaration
      BY <2>5, EndDeclarationStack
    <2>6. CASE DefineFunction
      BY <2>6, DefineFunctionStack
    <2>7. CASE EnterBlock
      BY <2>7, EnterBlockStack
    <2>8. CASE LeaveBlock
      BY <2>8, LeaveBlockStack
    <2>9. CASE LeaveFun
      BY <2>9, LeaveFunStack
    <2>10. ASSUME NEW n \in Names, UseIdentifier(n) PROVE StackInv'
      BY <2>10, QuietStack, CrashStack DEF UseIdentifier
    <2>11. ASSUME NEW withvalue \in BOOLEAN, Return(withvalue) PROVE StackInv'
      BY <2>11, QuietStack DEF Return
    <2>12. CASE EndOfFile
      BY <2>12, QuietStack DEF EndOfFile
    <2> QED
      BY <1>2, <2>1, <2>2, <2>3, <2>4, <2>5, <2>6, <2>7, <2>8, <2>9, <2>10, <2>11, <2>12 DEF Next, Step
  <1> QED
    BY <1>1, <1>2

(* Every declarator reads the declspec that its own declaration pushed,    *)
(* however declarations, parameter lists and function definitions nest:    *)
(* the entry fndef leaves behind lies below all that is still read.        *)
THEOREM DsstackDisciplined == Spec => []DsstackDiscipline
  <1>1. IInv /\ StackInv => DsstackDiscipline
    BY DisciplineFromCount DEF StackInv
  <1> QED
    BY <1>1, InitStack, NextStack, Inductive, PTL DEF Spec
=============================================================================
