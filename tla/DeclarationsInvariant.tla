----------------------- MODULE DeclarationsInvariant -----------------------
(***************************************************************************)
(* Why the invariants of Declarations hold: an inductive invariant.  It    *)
(* says what the stacks look like together, which symbols are still being  *)
(* declared, and what is known of those that are in scope.                 *)
(***************************************************************************)
EXTENDS Declarations

(* The frames of the function being defined and of its open blocks; the    *)
(* declarations being read are above them.                                 *)
FunctionFrames == IF curfn = NoSym THEN 0 ELSE Len(bstack) + 1

(* One frame for the function, one per open block, then a declaration and  *)
(* the parameters it is nested in; each declaration below the top is in    *)
(* the middle of a parameter list.                                         *)
ParserShape ==
  /\ FunctionFrames <= Len(parser)
  /\ curfn = NoSym => bstack = <<>>
  /\ curfn # NoSym =>
       /\ parser[1].at \in FunctionStates
       /\ parser[1].ctx = "ext"
       /\ parser[1].sym = curfn
       /\ parser[1].at = "body" <=> bstack # <<>>
       /\ parser[1].at # "body" => Len(parser) = 1
  /\ \A i \in 1..Len(parser) :
       /\ 1 < i /\ i <= FunctionFrames => parser[i].at = "block" /\ parser[i].ctx = "block"
       /\ i > FunctionFrames =>
            /\ parser[i].at \in DeclarationStates
            /\ parser[i].ctx = IF i > FunctionFrames + 1 THEN "param"
                               ELSE IF curfn = NoSym THEN "ext" ELSE "block"
            /\ i < Len(parser) => parser[i].at = "params"

(* The file scope, the scope of the parameters, and one scope per block. *)
ScopeShape ==
  /\ Len(scopes) = FunctionFrames + 1
  /\ \A i \in 1..Len(scopes) : scopes[i].level = i - 1

DsstackShape == Len(parser) - FunctionFrames <= Len(dsstack)

(* The symbols that frame i is still declaring. *)
DeclaringStates == {"declarator", "params", "pointer"}
Declares(i, s) ==
  \/ parser[i].at \in DeclaringStates /\ parser[i].sym = s
  \/ parser[i].at = "params" /\ \E k \in 1..Len(parser[i].params) : parser[i].params[k] = s

Declaring(s) == \E i \in 1..Len(parser) : Declares(i, s)
InScope(s)   == \E i \in 1..Len(scopes), n \in Names : scopes[i].names[n] = s
Parameter(s) == \E f \in Symbols : \E k \in 1..Len(Ty(f).params) : Ty(f).params[k] = s

Local(s)     == \/ \E i \in 1..Len(bstack) : s \in bstack[i]
                \/ \E f \in Symbols : s \in syms[f].locals

(* A symbol that is being declared has the current level and is not known  *)
(* to anything else yet: no function type, scope or block.                 *)
DeclaringFresh ==
  \A s \in Symbols : Declaring(s) =>
    /\ syms[s].level = CurLevel
    /\ syms[s].body = FALSE
    /\ ~InScope(s)
    /\ ~Parameter(s)
    /\ ~Local(s)
    /\ syms[s].op = "Sfunc" /\ Ty(s) # NoType => Op(Ty(s)) = "Kfun"

(* It is declared in one place. *)
DeclaringOnce ==
  /\ \A i, j \in 1..Len(parser) : \A s \in Symbols : Declares(i, s) /\ Declares(j, s) => i = j
  /\ \A i \in 1..Len(parser) :
       parser[i].at = "params" =>
         \A k \in 1..Len(parser[i].params) : parser[i].params[k] # parser[i].sym

DeclaringFrames ==
  \A i \in 1..Len(parser) :
    /\ parser[i].at \in DeclaringStates => parser[i].sym # NoSym
    /\ \A k \in 1..Len(parser[i].params) : parser[i].params[k] # NoSym

FunctionsOK == \A s \in Symbols : Op(Ty(s)) = "Kfun" => syms[s].op = "Sfunc"

(* Parameters have a type and the level of their function. *)
ParametersOK ==
  \A f \in Symbols : \A k \in 1..Len(Ty(f).params) :
    /\ Ty(Ty(f).params[k]) # NoType
    /\ syms[Ty(f).params[k]].level = syms[f].level

(* What is in scope has a type; it is in a scope of its own level, but for *)
(* the parameters of the function being defined.                           *)
InScopeOK ==
  \A i \in 1..Len(scopes), n \in Names :
    LET s == scopes[i].names[n] IN
    s # NoSym => /\ syms[s].name = n
                 /\ Ty(s) # NoType
                 /\ syms[s].level = IF i = 2 THEN 0 ELSE i - 1

(* An external definition is what its name means at file scope; a function *)
(* among them has its body or is getting it.                               *)
ExternalsOK ==
  /\ \A i \in 1..Len(extdefs) :
       LET x == extdefs[i] IN
       /\ scopes[1].names[syms[x].name] = x
       /\ Op(Ty(x)) = "Kfun" => syms[x].body \/ x = curfn
       /\ \A j \in 1..Len(extdefs) : extdefs[j] = x => j = i
  /\ curfn # NoSym =>
       /\ Op(Ty(curfn)) = "Kfun"
       /\ scopes[1].names[syms[curfn].name] = curfn
       /\ syms[curfn].body <=> parser[1].at = "built"

(* Nothing goes wrong in silence. *)
ErrorsReported ==
  /\ \A i \in 1..Len(dsstack) :
       dsstack[i].ts # SpecNone /\ (dsstack[i].ts = SpecInvalid => err)
  /\ \A s \in Symbols : Ty(s) = NoType => err
  /\ status = "crashed" => err

(* Unless an error was reported, the variables declared so far are of      *)
(* complete types and the external definitions can be emitted.             *)
Emittable(x) ==
  \/ syms[x].op = "Sdata" /\ Complete(Ty(x))
  \/ /\ syms[x].op = "Sfunc"
     /\ Op(Ty(x)) = "Kfun"
     /\ \A k \in 1..Len(Ty(x).params) : Complete(Ty(Ty(x).params[k]))

EmissionOK ==
  /\ status = "emitting" => ~err /\ parser = <<>>
  /\ ~err =>
       /\ \A i \in 1..Len(extdefs) : Emittable(extdefs[i])
       /\ \A i \in 1..Len(bstack) : \A s \in bstack[i] : Complete(Ty(s))
       /\ \A f \in Symbols : \A s \in syms[f].locals : Complete(Ty(s))

(* The inductive invariant: it holds in every state between two reductions *)
(* of the parser, and each step keeps it.                                  *)
IInv ==
  /\ TypeOK
  /\ ParserShape
  /\ ScopeShape
  /\ DsstackShape
  /\ DeclaringFresh
  /\ DeclaringOnce
  /\ DeclaringFrames
  /\ FunctionsOK
  /\ ParametersOK
  /\ InScopeOK
  /\ ExternalsOK
  /\ ErrorsReported
  /\ EmissionOK
=============================================================================
