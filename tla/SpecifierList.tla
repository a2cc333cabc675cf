--------------------------- MODULE SpecifierList ---------------------------
(***************************************************************************)
(* One declaration's list of type specifiers, as the parser reads it:      *)
(* enter_decl, then one add_specifier per typespec.  "count" is history:   *)
(* how many times each specifier has been written so far.                  *)
(***************************************************************************)
EXTENDS Naturals, Specifiers

CONSTANT MaxSpecifiers   \* bound on the length of the list
ASSUME MaxSpecifiersAssumption == MaxSpecifiers \in Nat

VARIABLES
  ts,       \* declspec.ts of the declaration being read
  count,    \* history: occurrences of each specifier
  length,   \* history: specifiers read
  errors    \* diagnostics reported by add_specifier for this list

vars == <<ts, count, length, errors>>

EnterDecl ==
  /\ ts = SpecNone
  /\ count = [a \in Atoms |-> 0]
  /\ length = 0
  /\ errors = 0

ReadSpecifier(atom) ==
  /\ length < MaxSpecifiers
  /\ ts' = AddSpecifier(ts, atom)
  /\ errors' = IF SpecifierError(ts, atom) THEN errors + 1 ELSE errors
  /\ count' = [count EXCEPT ![atom] = @ + 1]
  /\ length' = length + 1

Next == \E atom \in Atoms : ReadSpecifier(atom)

Spec == EnterDecl /\ [][Next]_vars
-----------------------------------------------------------------------------
(* The C rule: the multisets of specifiers that name a type, whatever      *)
(* their order.                                                            *)
Allowed(c) ==
  \/ /\ c["void"] = 1
     /\ \A a \in Atoms \ {"void"} : c[a] = 0
  \/ /\ c["void"] = 0
     /\ c["int"] <= 1
     /\ c["signed"] + c["unsigned"] <= 1
     /\ c["long"] <= 2

(* The type an allowed, nonempty multiset names. *)
NamedType(c) ==
  IF c["void"] = 1 THEN "void"
  ELSE IF c["unsigned"] = 1
       THEN IF c["long"] = 0 THEN "uint" ELSE IF c["long"] = 1 THEN "ulong" ELSE "ullong"
       ELSE IF c["long"] = 0 THEN "int" ELSE IF c["long"] = 1 THEN "long" ELSE "llong"

(* The variables have their types: what is in ts is a set of specifiers or *)
(* the error.                                                              *)
TypeOK ==
  /\ ts \in SpecifierSets
  /\ count \in [Atoms -> Nat]
  /\ length \in Nat
  /\ errors \in Nat

(* A list is rejected exactly when its multiset of specifiers is not one   *)
(* C allows, in whatever order and after however many errors add_specifier *)
(* met them, and then exactly one diagnostic has been reported.            *)
RejectedIffNotAllowed ==
  /\ ts = SpecInvalid <=> ~Allowed(count)
  /\ errors = IF Allowed(count) THEN 0 ELSE 1

(* An accepted list names the type of its multiset: the order in which     *)
(* "long unsigned int long" is written never shows in declspec_type.       *)
OrderFree ==
  length > 0 /\ Allowed(count) => DeclspecType(ts) = NamedType(count)

(* No list of specifiers, legal or not, drives declspec_type into the      *)
(* die("invalid type specifier") of its default case.                      *)
NeverDies == DeclspecType(ts) # "die"
=============================================================================
