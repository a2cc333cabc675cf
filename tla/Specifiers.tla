----------------------------- MODULE Specifiers -----------------------------
(***************************************************************************)
(* Type specifiers (src/semant.c, "struct declspec"): how add_specifier    *)
(* folds one more specifier into the set of those already read, and the    *)
(* table with which declspec_type names the type the set stands for.       *)
(* The bit mask ts is a set of bits; an arithmetic type is its name.       *)
(***************************************************************************)

(* What the nonterminal typespec of the grammar can be. *)
Atoms == {"void", "int", "long", "signed", "unsigned"}

SpecNone    == {}
SpecInvalid == {"invalid"}

Signedness == {"signed", "unsigned"}

(* The sets of bits a list of specifiers can leave in ts. *)
SpecifierSets ==
  {s \in SUBSET (Atoms \cup {"longlong"}) :
     /\ ~(Signedness \subseteq s)
     /\ ~({"long", "longlong"} \subseteq s)
     /\ "void" \in s => s = {"void"}} \cup {SpecInvalid}

(* add_specifier accepts atom after the specifiers s. *)
Combines(s, atom) ==
  /\ "void" \notin s
  /\ atom = "void" => s = SpecNone
  /\ atom \in Signedness => s \cap Signedness = {}
  /\ atom = "int" => "int" \notin s
  /\ atom = "long" => "longlong" \notin s

(* Mutant of Combine: SpecLong is never promoted. *)
CombineKeepingLong(s, atom) == s \cup {atom}

(* The second long turns the bit SpecLong into SpecLongLong. *)
Combine(s, atom) ==
  IF atom = "long" /\ "long" \in s
  THEN (s \ {"long"}) \cup {"longlong"}
  ELSE s \cup {atom}

(* Mutant of AddSpecifier: the early return for SpecInvalid is missing. *)
AddSpecifierAnyway(s, atom) ==
  IF Combines(s, atom) THEN Combine(s, atom) ELSE SpecInvalid

(* Errors are sticky: nothing leaves SpecInvalid. *)
AddSpecifier(s, atom) ==
  IF s # SpecInvalid /\ Combines(s, atom) THEN Combine(s, atom) ELSE SpecInvalid

(* Mutant of SpecifierError: what follows void is dropped in silence. *)
SpecifierErrorButVoid(s, atom) ==
  s # SpecInvalid /\ "void" \notin s /\ ~Combines(s, atom)

(* add_specifier reports an error only when it is the one that meets it. *)
SpecifierError(s, atom) == s # SpecInvalid /\ ~Combines(s, atom)

IntegerTypes == {"int", "uint", "long", "ulong", "llong", "ullong"}

(* The switch of declspec_type.  "none" is the NULL it returns for no      *)
(* specifier or after an error, "die" the call of die in its default case. *)
DeclspecType(s) ==
  LET rest == s \ {"int", "signed"} IN
  IF      s = SpecNone \/ s = SpecInvalid   THEN "none"
  ELSE IF Signedness \subseteq s           THEN "die"
  ELSE IF s = {"void"}                     THEN "void"
  ELSE IF rest = {}                        THEN "int"
  ELSE IF rest = {"unsigned"}              THEN "uint"
  ELSE IF rest = {"long"}                  THEN "long"
  ELSE IF rest = {"unsigned", "long"}      THEN "ulong"
  ELSE IF rest = {"longlong"}              THEN "llong"
  ELSE IF rest = {"unsigned", "longlong"}  THEN "ullong"
  ELSE "die"
=============================================================================
