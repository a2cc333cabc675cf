---------------------------- MODULE Declarations ----------------------------
(***************************************************************************)
(* Declarations, scopes and function definitions: the semantic actions the *)
(* parser (src/parser.y.in) calls in src/semant.c, in every order the      *)
(* grammar allows.  Each action is the reduction of one production.        *)
(* "parser" is the part of the parse stack these productions leave behind: *)
(* one frame per declaration, function definition and compound statement   *)
(* that is being read.  A syntax error ends the compiler in any state with *)
(* nothing emitted: behaviours may stop anywhere.                          *)
(***************************************************************************)
EXTENDS FiniteSets, Specifiers, Types

CONSTANTS
  Names,      \* identifiers
  SpecAtoms,  \* the type specifiers used
  MaxSymbols, \* bound on the symbols allocated
  MaxStars,   \* bound on the stars before a declarator
  MaxParams,  \* bound on the parameters of a declarator
  MaxNesting  \* bound on the depth of the parse stack

ASSUME ConstantsAssumption ==
  /\ SpecAtoms \subseteq Atoms
  /\ {MaxSymbols, MaxStars, MaxParams, MaxNesting} \subseteq Nat

VARIABLES
  parser,    \* what the parser is in the middle of, innermost last
  dsstack,   \* the stack of struct declspec
  syms,      \* every struct symbol allocated; a symbol is its index
  scopes,    \* the chain from filescope (first) to curscope (last)
  bstack,    \* the stack of blocks being built
  curfn,     \* the function being defined
  extdefs,   \* the external definitions handed to the code generator
  err,       \* semant_error
  status     \* "running", or how the compiler ended

vars == <<parser, dsstack, syms, scopes, bstack, curfn, extdefs, err, status>>

NoSym == 0
Top(s) == s[Len(s)]
Pop(s) == SubSeq(s, 1, Len(s) - 1)
SetTop(s, e) == [s EXCEPT ![Len(s)] = e]

Ty(s) == syms[s].ty
CurLevel == Top(scopes).level
AtFileScope == Len(scopes) = 1

(* The scopes that hold the name. *)
Holders(n) == {i \in 1..Len(scopes) : scopes[i].names[n] # NoSym}

(* Mutant of Resolve: the walk starts at the file scope. *)
ResolveOutermost(n) ==
  IF Holders(n) = {} THEN NoSym
  ELSE LET i == CHOOSE i \in Holders(n) : \A j \in Holders(n) : i <= j
       IN  scopes[i].names[n]

(* resolve: the innermost scope that holds the name. *)
Resolve(n) ==
  IF Holders(n) = {} THEN NoSym
  ELSE LET i == CHOOSE i \in Holders(n) : \A j \in Holders(n) : j <= i
       IN  scopes[i].names[n]

EmptyTable == [n \in Names |-> NoSym]
(* Mutant of EnterScope: the level stays that of the parent. *)
EnterScopeSameLevel(table) == Append(scopes, [level |-> CurLevel, names |-> table])

EnterScope(table) == Append(scopes, [level |-> CurLevel + 1, names |-> table])
Install(s) == [scopes EXCEPT ![Len(scopes)].names[syms[s].name] = s]

(* The table after the parameters ps are installed in turn. *)
ParamTable(ps) ==
  [n \in Names |->
    LET at == {i \in 1..Len(ps) : syms[ps[i]].name = n}
    IN  IF at = {} THEN NoSym ELSE ps[CHOOSE i \in at : \A j \in at : j <= i]]

(* A NULL is dereferenced: nothing but the status matters any more. *)
Crash ==
  /\ status' = "crashed"
  /\ UNCHANGED <<parser, dsstack, syms, scopes, bstack, curfn, extdefs>>

Frame(at, ctx) ==
  [at |-> at, ctx |-> ctx, first |-> TRUE, stars |-> 0, sym |-> NoSym, params |-> <<>>]

DeclarationStates == {"specs", "declarator", "params", "pointer", "list"}
FunctionStates    == {"entered", "body", "built"}

In(at, ctx) == parser # <<>> /\ Top(parser).at \in at /\ Top(parser).ctx \in ctx
DeclaratorRead == In({"declarator", "pointer"}, {"ext", "block", "param"}) /\ Top(parser).stars = 0
-----------------------------------------------------------------------------
Init ==
  /\ parser = <<>>
  /\ dsstack = <<>>
  /\ syms = <<>>
  /\ scopes = << [level |-> 0, names |-> EmptyTable] >>
  /\ bstack = <<>>
  /\ curfn = NoSym
  /\ extdefs = <<>>
  /\ err = FALSE
  /\ status = "running"

(* Where a declaration may start, and what kind of declaration it is. *)
Context ==
  IF parser = <<>> THEN "ext"
  ELSE IF Top(parser).at = "block" THEN "block"
  ELSE IF Top(parser).at = "params" /\ Len(Top(parser).params) < MaxParams THEN "param"
  ELSE "none"

(* declspecs: typespec *)
BeginDeclspecs(atom) ==
  /\ Context # "none"
  /\ Len(parser) < MaxNesting
  /\ parser' = Append(parser, Frame("specs", Context))
  /\ dsstack' = Append(dsstack, [ts |-> AddSpecifier(SpecNone, atom), empty |-> TRUE])
  /\ UNCHANGED <<syms, scopes, bstack, curfn, extdefs, err, status>>

(* declspecs: declspecs typespec *)
MoreDeclspecs(atom) ==
  /\ In({"specs"}, {"ext", "block", "param"})
  /\ dsstack' = [dsstack EXCEPT ![Len(dsstack)].ts = AddSpecifier(@, atom)]
  /\ err' = (err \/ SpecifierError(Top(dsstack).ts, atom))
  /\ UNCHANGED <<parser, syms, scopes, bstack, curfn, extdefs, status>>

(* declarator: IDENT, make_idecl; the stars before it are already shifted. *)
Identifier(n, stars) ==
  /\ In({"specs", "list"}, {"ext", "block", "param"})
  /\ Len(syms) < MaxSymbols
  /\ syms' = Append(syms, [name |-> n, op |-> "Sdata", level |-> CurLevel,
                           ty |-> TypeOf(DeclspecType(Top(dsstack).ts), 0),
                           body |-> FALSE, locals |-> {}])
  /\ dsstack' = [dsstack EXCEPT ![Len(dsstack)].empty = FALSE]
  /\ parser' = SetTop(parser, [Top(parser) EXCEPT !.at = "declarator", !.stars = stars,
                                                  !.sym = Len(syms) + 1])
  /\ UNCHANGED <<scopes, bstack, curfn, extdefs, err, status>>

(* declarator LPAREN: the parameter list starts. *)
BeginParameters ==
  /\ In({"declarator"}, {"ext", "block", "param"})
  /\ parser' = SetTop(parser, [Top(parser) EXCEPT !.at = "params", !.params = <<>>])
  /\ UNCHANGED <<dsstack, syms, scopes, bstack, curfn, extdefs, err, status>>

(* make_fdecl and functy.  Neither expects a type that is NULL.            *)
MakeFdecl ==
  LET s      == Top(parser).sym
      params == Top(parser).params
  IN
  /\ In({"params"}, {"ext", "block", "param"})
  /\ \/ /\ \/ Ty(s) = NoType
           \/ Op(Ty(s)) # "Kfun" /\ \E i \in 1..Len(params) : Ty(params[i]) = NoType
        /\ Crash
        /\ UNCHANGED err
     \/ /\ Ty(s) # NoType
        /\ parser' = SetTop(parser, [Top(parser) EXCEPT !.at = "declarator"])
        /\ \/ /\ Op(Ty(s)) = "Kfun"
              /\ syms' = [syms EXCEPT ![s].ty = NoType]
              /\ err' = TRUE
           \/ /\ Op(Ty(s)) # "Kfun"
              /\ \A i \in 1..Len(params) : Ty(params[i]) # NoType
              /\ syms' = [x \in 1..Len(syms) |->
                   IF x = s
                   THEN [syms[s] EXCEPT !.op = "Sfunc", !.ty = FunctionType(Ty(s), params)]
                   ELSE IF \E i \in 1..Len(params) : params[i] = x
                   THEN [syms[x] EXCEPT !.ty = Adjust(@)]
                   ELSE syms[x]]
              /\ UNCHANGED err
        /\ UNCHANGED <<dsstack, scopes, bstack, curfn, extdefs, status>>

(* pointer: MUL pointer, make_pdecl *)
MakePdecl ==
  LET s == Top(parser).sym IN
  /\ In({"declarator", "pointer"}, {"ext", "block", "param"})
  /\ Top(parser).stars > 0
  /\ syms' = [syms EXCEPT ![s].ty = PointerDeclarator(@)]
  /\ parser' = SetTop(parser, [Top(parser) EXCEPT !.at = "pointer", !.stars = @ - 1])
  /\ UNCHANGED <<dsstack, scopes, bstack, curfn, extdefs, err, status>>

(* Mutant of EndParameter: leave_decl is not called. *)
EndParameterKeepsSpecs ==
  LET list == parser[Len(parser) - 1] IN
  /\ DeclaratorRead
  /\ In({"declarator", "pointer"}, {"param"})
  /\ parser' = SetTop(Pop(parser), [list EXCEPT !.params = Append(@, Top(parser).sym)])
  /\ UNCHANGED <<dsstack, syms, scopes, bstack, curfn, extdefs, err, status>>

(* paramdecl: declspecs pointer, leave_decl; and the push of the parameter *)
(* on the list being read.                                                 *)
EndParameter ==
  LET list == parser[Len(parser) - 1] IN
  /\ DeclaratorRead
  /\ In({"declarator", "pointer"}, {"param"})
  /\ dsstack' = Pop(dsstack)
  /\ parser' = SetTop(Pop(parser), [list EXCEPT !.params = Append(@, Top(parser).sym)])
  /\ UNCHANGED <<syms, scopes, bstack, curfn, extdefs, err, status>>

(* Mutant of ValidFuncty: a definition's parameters may be incomplete. *)
ValidFunctyAnyParam(s, indef) ==
  LET ps == Ty(s).params IN
  /\ Ty(s).ret.core = "void" \/ Ty(s).ret.depth > 0 \/ Ty(s).ret.core \in IntegerTypes
  /\ \A i, j \in 1..Len(ps) : syms[ps[i]].name = syms[ps[j]].name => i = j

(* valid_functy reports nothing. *)
ValidFuncty(s, indef) ==
  LET ps == Ty(s).params IN
  /\ Ty(s).ret.core = "void" \/ Ty(s).ret.depth > 0 \/ Ty(s).ret.core \in IntegerTypes
  /\ \A i, j \in 1..Len(ps) : syms[ps[i]].name = syms[ps[j]].name => i = j
  /\ indef => \A i \in 1..Len(ps) : Complete(Ty(ps[i]))

(* The test with which declare_symbol detects a redeclaration. *)
DeclaredInScope(n) == Resolve(n) # NoSym /\ syms[Resolve(n)].level = CurLevel

(* initdecl: pointer, declare_symbol *)
DeclareSymbol ==
  LET s     == Top(parser).sym
      isfun == Op(Ty(s)) = "Kfun"
  IN
  /\ DeclaratorRead
  /\ In({"declarator", "pointer"}, {"ext", "block"})
  /\ parser' = SetTop(parser, [Top(parser) EXCEPT !.at = "list", !.first = FALSE])
  /\ UNCHANGED <<dsstack, syms, curfn, status>>
  /\ \/ /\ Ty(s) = NoType
        /\ UNCHANGED <<scopes, bstack, extdefs, err>>
     \/ /\ Ty(s) # NoType
        /\ DeclaredInScope(syms[s].name)
        /\ err' = TRUE
        /\ UNCHANGED <<scopes, bstack, extdefs>>
     \/ /\ Ty(s) # NoType
        /\ ~DeclaredInScope(syms[s].name)
        /\ err' = \/ err
                  \/ isfun /\ (~ValidFuncty(s, FALSE) \/ ~AtFileScope)
                  \/ ~isfun /\ ~Complete(Ty(s))
        /\ scopes' = Install(s)
        /\ extdefs' = IF AtFileScope /\ ~isfun THEN Append(extdefs, s) ELSE extdefs
        /\ bstack' = IF AtFileScope THEN bstack ELSE SetTop(bstack, Top(bstack) \cup {s})

(* decl: declspecs initdecls SEMICOLON, leave_decl *)
EndDeclaration ==
  /\ In({"specs", "list"}, {"ext", "block"})
  /\ err' = (err \/ (Top(dsstack).ts # SpecInvalid /\ Top(dsstack).empty))
  /\ dsstack' = Pop(dsstack)
  /\ parser' = Pop(parser)
  /\ UNCHANGED <<syms, scopes, bstack, curfn, extdefs, status>>
-----------------------------------------------------------------------------
Previous(s) == Resolve(syms[s].name)

(* The parser can call define_function. *)
DefinitionPoint ==
  DeclaratorRead /\ In({"declarator", "pointer"}, {"ext"}) /\ Top(parser).first

(* Mutants of DefinedSymbol: the earlier symbol's body, or its type, is    *)
(* not looked at.                                                          *)
DefinedSymbolAgain(s) ==
  LET p == Previous(s) IN
  IF Op(Ty(s)) # "Kfun" \/ (p # NoSym /\ ~Compatible(Ty(p), Ty(s))) THEN NoSym
  ELSE IF p # NoSym THEN p ELSE s
DefinedSymbolAnyType(s) ==
  LET p == Previous(s) IN
  IF Op(Ty(s)) # "Kfun" \/ (p # NoSym /\ syms[p].body) THEN NoSym
  ELSE IF p # NoSym THEN p ELSE s

(* The symbol define_function returns for the declarator s, NoSym for NULL *)
DefinedSymbol(s) ==
  LET p == Previous(s) IN
  IF \/ Op(Ty(s)) # "Kfun"
     \/ p # NoSym /\ (syms[p].body \/ ~Compatible(Ty(p), Ty(s)))
  THEN NoSym
  ELSE IF p # NoSym THEN p ELSE s

(* fndef: declspecs pointer, define_function and enter_fun; the declspec   *)
(* stays on its stack.  enter_fun dereferences what define_function        *)
(* returned.                                                               *)
DefineFunction ==
  LET s == Top(parser).sym
      f == DefinedSymbol(s)
  IN
  /\ DefinitionPoint
  /\ err' = \/ err
            \/ f = NoSym /\ Ty(s) # NoType
            \/ f # NoSym /\ ~ValidFuncty(s, TRUE)
  /\ \/ f = NoSym /\ Crash
     \/ /\ f # NoSym
        /\ scopes' = Append(Install(f), [level |-> CurLevel + 1,
                                         names |-> ParamTable(Ty(f).params)])
        /\ extdefs' = Append(extdefs, f)
        /\ curfn' = f
        /\ parser' = SetTop(parser, [Frame("entered", "ext") EXCEPT !.sym = f])
        /\ UNCHANGED <<dsstack, syms, bstack, status>>

(* compound: LCURLY, enter_block *)
EnterBlock ==
  /\ In({"entered", "block"}, {"ext", "block"})
  /\ Len(parser) < MaxNesting
  /\ scopes' = EnterScope(EmptyTable)
  /\ bstack' = Append(bstack, {})
  /\ parser' = Append(IF Top(parser).at = "entered"
                      THEN SetTop(parser, [Top(parser) EXCEPT !.at = "body"])
                      ELSE parser,
                      Frame("block", "block"))
  /\ UNCHANGED <<dsstack, syms, curfn, extdefs, err, status>>

(* compound: LCURLY stmts RCURLY, leave_block.  A block is the set of the  *)
(* variables declared in it and, once they are appended to it, in its      *)
(* statements.  A nested block is a statement of the one around it; the    *)
(* outermost one becomes the body of the function.                         *)
LeaveBlock ==
  LET outer == Pop(parser) IN
  /\ In({"block"}, {"block"})
  /\ scopes' = Pop(scopes)
  /\ IF Top(outer).at = "body"
     THEN /\ parser' = SetTop(outer, [Top(outer) EXCEPT !.at = "built"])
          /\ bstack' = Pop(bstack)
          /\ syms' = [syms EXCEPT ![Top(outer).sym].body = TRUE,
                                  ![Top(outer).sym].locals = Top(bstack)]
     ELSE /\ parser' = outer
          /\ bstack' = SetTop(Pop(bstack), Top(Pop(bstack)) \cup Top(bstack))
          /\ UNCHANGED syms
  /\ UNCHANGED <<dsstack, curfn, extdefs, err, status>>

(* Mutant of LeaveFun: the scope of the parameters stays. *)
LeaveFunKeepsScope ==
  /\ In({"built"}, {"ext"})
  /\ curfn' = NoSym
  /\ parser' = Pop(parser)
  /\ UNCHANGED <<dsstack, syms, scopes, bstack, extdefs, err, status>>

(* fndef, at its end: leave_fun *)
LeaveFun ==
  /\ In({"built"}, {"ext"})
  /\ scopes' = Pop(scopes)
  /\ curfn' = NoSym
  /\ parser' = Pop(parser)
  /\ UNCHANGED <<dsstack, syms, bstack, extdefs, err, status>>

(* A statement that names n: make_ident reads the type of its symbol. *)
UseIdentifier(n) ==
  LET s == Resolve(n) IN
  /\ In({"block"}, {"block"})
  /\ err' = (err \/ s = NoSym)
  /\ IF s # NoSym /\ Ty(s) = NoType
     THEN Crash
     ELSE UNCHANGED <<parser, dsstack, syms, scopes, bstack, curfn, extdefs, status>>

(* return: RETURN, and RETURN expression with an expression of type int:   *)
(* make_return, and assign for the conversion to the returned type.        *)
Return(withvalue) ==
  LET ret    == Ty(curfn).ret
      isvoid == ret = ObjectType("void", 0)
  IN
  /\ In({"block"}, {"block"})
  /\ err' = \/ err
            \/ isvoid = withvalue
            \/ withvalue /\ ret.depth > 0
  /\ UNCHANGED <<parser, dsstack, syms, scopes, bstack, curfn, extdefs, status>>

(* unit: main emits the program, unless an error was reported. *)
EndOfFile ==
  /\ parser = <<>>
  /\ status' = IF err THEN "rejected" ELSE "emitting"
  /\ UNCHANGED <<parser, dsstack, syms, scopes, bstack, curfn, extdefs, err>>

Step ==
  \/ \E atom \in SpecAtoms : BeginDeclspecs(atom) \/ MoreDeclspecs(atom)
  \/ \E n \in Names, stars \in 0..MaxStars : Identifier(n, stars)
  \/ BeginParameters \/ MakeFdecl \/ MakePdecl \/ EndParameter
  \/ DeclareSymbol \/ EndDeclaration
  \/ DefineFunction \/ EnterBlock \/ LeaveBlock \/ LeaveFun
  \/ \E n \in Names : UseIdentifier(n)
  \/ \E withvalue \in BOOLEAN : Return(withvalue)
  \/ EndOfFile

Next == status = "running" /\ Step

Spec == Init /\ [][Next]_vars
-----------------------------------------------------------------------------
Symbols == 1..Len(syms)

Cores == {"none", "void", "fun"} \cup IntegerTypes

TypeRecords == [core : Cores, depth : Nat, ret : [core : Cores, depth : Nat], params : Seq(Nat)]

SymbolRecords == [name : Names, op : {"Sdata", "Sfunc"}, level : Nat, ty : TypeRecords,
                  body : BOOLEAN, locals : SUBSET Nat]

Frames == [at : DeclarationStates \cup FunctionStates \cup {"block"},
           ctx : {"ext", "block", "param"}, first : BOOLEAN, stars : Nat, sym : Nat,
           params : Seq(Nat)]

(* Every symbol that something refers to has been allocated. *)
NoDangling ==
  /\ \A i \in 1..Len(parser) :
       /\ parser[i].sym <= Len(syms)
       /\ \A k \in 1..Len(parser[i].params) : parser[i].params[k] \in Symbols
  /\ \A s \in Symbols : /\ \A k \in 1..Len(Ty(s).params) : Ty(s).params[k] \in Symbols
                        /\ syms[s].locals \subseteq Symbols
  /\ \A i \in 1..Len(bstack) : bstack[i] \subseteq Symbols
  /\ \A i \in 1..Len(scopes), n \in Names : scopes[i].names[n] <= Len(syms)
  /\ \A i \in 1..Len(extdefs) : extdefs[i] \in Symbols
  /\ curfn <= Len(syms)

(* The variables have their types, and no symbol dangles. *)
TypeOK ==
  /\ parser \in Seq(Frames)
  /\ dsstack \in Seq([ts : SpecifierSets, empty : BOOLEAN])
  /\ syms \in Seq(SymbolRecords)
  /\ scopes \in Seq([level : Nat, names : [Names -> Nat]])
  /\ bstack \in Seq(SUBSET Nat)
  /\ extdefs \in Seq(Nat)
  /\ curfn \in Nat
  /\ err \in BOOLEAN
  /\ status \in {"running", "crashed", "rejected", "emitting"}
  /\ NoDangling

(* The assertions of semant.c hold wherever the parser can call the        *)
(* function that makes them: resolve (57), leave_decl and the readers of   *)
(* the top declspec (323, 344, 415, 456), declare_symbol's block (567),    *)
(* define_function (573), leave_scope (619), append_statement (659),       *)
(* make_return (731) and leave_block (755).                                *)
AssertionsHold ==
  /\ \A n \in Names : Resolve(n) # NoSym => syms[Resolve(n)].level <= CurLevel
  /\ In(DeclarationStates, {"ext", "block", "param"}) => dsstack # <<>>
  /\ In(DeclarationStates, {"block"}) \/ In({"block"}, {"block"}) =>
       bstack # <<>> /\ curfn # NoSym /\ ~AtFileScope
  /\ In(DeclarationStates, {"ext"}) => AtFileScope
  /\ In(FunctionStates, {"ext"}) => ~AtFileScope

(* declare_symbol compares levels, not scopes.  Wherever it can run, the   *)
(* levels say the truth: a name is found with the current level exactly    *)
(* when the current scope holds it.  (Parameters live in a scope of level  *)
(* 1 with the level 0 of the place where they were read.)                  *)
RedeclarationTestIsExact ==
  DeclaratorRead /\ Top(parser).ctx # "param" =>
    \A n \in Names : DeclaredInScope(n) <=> Top(scopes).names[n] # NoSym

(* No two external definitions have the same name, whatever mixture of     *)
(* variables, prototypes and definitions came before: the assembler never  *)
(* sees a symbol defined twice.                                            *)
ExternalsDistinct ==
  \A i, j \in 1..Len(extdefs) :
    syms[extdefs[i]].name = syms[extdefs[j]].name => i = j

(* What the code generator asserts of every external definition (data 12,  *)
(* func 574 and 577, assign_memloc 520, assign_paramloc): nothing an       *)
(* unreported error left behind reaches it.                                *)
EmissionPrecondition ==
  status = "emitting" =>
    \A i \in 1..Len(extdefs) :
      LET x == syms[extdefs[i]] IN
      \/ x.op = "Sdata" /\ Complete(x.ty)
      \/ /\ x.op = "Sfunc" /\ Op(x.ty) = "Kfun" /\ x.body
         /\ \A k \in 1..Len(x.ty.params) : Complete(Ty(x.ty.params[k]))
         /\ \A s \in x.locals : Complete(Ty(s))

(* A NULL type never gets into a scope, so that make_ident may look at the *)
(* type of whatever it finds; and the compiler crashes only on a program   *)
(* for which it has already reported an error.                             *)
ErrorsStayOutOfScope ==
  /\ \A i \in 1..Len(scopes), n \in Names :
       scopes[i].names[n] # NoSym => Ty(scopes[i].names[n]) # NoType
  /\ status = "crashed" => err

(* The declspec a declarator reads is the one its own declaration opened,  *)
(* across nested parameter lists and across the entries that function      *)
(* definitions leave behind: each open declaration or function owns one    *)
(* entry above those of the functions already defined.                     *)
DsstackDiscipline ==
  LET owners  == {i \in 1..Len(parser) : parser[i].at # "block"}
      defined == {s \in Symbols : syms[s].body}
      open(i) == {j \in owners : j <= i}
      below   == IF curfn # NoSym /\ syms[curfn].body THEN defined \ {curfn} ELSE defined
  IN
  \A i \in owners :
    LET entry == Cardinality(open(i)) + Cardinality(below) IN
    /\ entry <= Len(dsstack)
    /\ parser[i].at = "specs" /\ parser[i].first => dsstack[entry].empty
    /\ i = Len(parser) => entry = Len(dsstack)

(* Two types are the same, parameter by parameter. *)
SameType(t, u) ==
  /\ <<t.core, t.depth, t.ret, Len(t.params)>> = <<u.core, u.depth, u.ret, Len(u.params)>>
  /\ \A i \in 1..Len(t.params) : Ty(t.params[i]) = Ty(u.params[i])

(* A function may be defined after a prototype of the very same type: the  *)
(* diagnostic "definition of function with incompatible type" (593) is for *)
(* types that differ.                                                      *)
PrototypeMatchesDefinition ==
  DefinitionPoint =>
    LET s == Top(parser).sym
        p == Previous(s)
    IN  Op(Ty(s)) = "Kfun" /\ p # NoSym /\ SameType(Ty(p), Ty(s)) => Compatible(Ty(p), Ty(s))

(* Once a function has its body, it is never entered again and nothing     *)
(* gives it another body.                                                  *)
BodyIsFinal ==
  [][\A s \in Symbols : syms[s].body =>
       /\ syms'[s].body /\ syms'[s].locals = syms[s].locals
       /\ curfn' = s => curfn = s]_vars

(* What a name means in the i-th scope, and the environments that result. *)
MeaningIn(i, n) ==
  LET at == {j \in 1..i : scopes[j].names[n] # NoSym}
  IN  IF at = {} THEN NoSym ELSE scopes[CHOOSE j \in at : \A k \in at : k <= j].names[n]

Lexical == INSTANCE LexicalScopes WITH
  Symbols  <- 1..MaxSymbols,
  NoSymbol <- NoSym,
  meaning  <- [n \in Names |-> Resolve(n)],
  saved    <- [i \in 1..(Len(scopes) - 1) |-> [n \in Names |-> MeaningIn(i, n)]]

(* resolve implements lexical scoping: what a name means is restored when  *)
(* a block or a function is left, and changes at most once in a block.     *)
ScopingIsLexical == Lexical!Spec
=============================================================================
