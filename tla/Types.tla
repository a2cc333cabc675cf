-------------------------------- MODULE Types --------------------------------
(***************************************************************************)
(* struct type of src/semant.h, as far as declarations tell types apart.   *)
(* A type is a core with some pointers around it: [core, depth].  The core *)
(* is "void", the name of an integer type or "fun"; a function also has    *)
(* the type it returns and the vector of its parameters.  "none" is the    *)
(* NULL that stands for a type after an error.                             *)
(***************************************************************************)
EXTENDS Naturals, Sequences

ObjectType(core, depth) == [core |-> core, depth |-> depth]

NoReturn == ObjectType("none", 0)

TypeOf(core, depth) ==
  [core |-> core, depth |-> depth, ret |-> NoReturn, params |-> <<>>]

NoType == TypeOf("none", 0)

(* functy, after its assertions *)
FunctionType(ret, params) ==
  [core |-> "fun", depth |-> 0, params |-> params,
   ret |-> ObjectType(ret.core, ret.depth)]

(* type.op *)
Op(t) ==
  IF t.depth > 0 THEN "Kptr"
  ELSE IF t.core = "fun" THEN "Kfun"
  ELSE IF t.core = "void" THEN "Kvoid"
  ELSE IF t.core = "none" THEN "NULL"
  ELSE "Kint"

Complete(t) == Op(t) \in {"Kint", "Kptr"}

(* adjust: a parameter of function type becomes a pointer to it. *)
Adjust(t) == IF Op(t) = "Kfun" THEN [t EXCEPT !.depth = 1] ELSE t

(* make_pdecl.  The star goes to the innermost place: around the core of   *)
(* an object type, around the returned type of a function.                 *)
PointerDeclarator(t) ==
  IF t = NoType THEN t
  ELSE IF t.core = "fun" THEN [t EXCEPT !.ret.depth = @ + 1]
  ELSE [t EXCEPT !.depth = @ + 1]

(* compatible(s, t) for the types of two different declarators, which      *)
(* never share a struct.  The parameter loop hands the slots of the two    *)
(* vectors (struct symbol pointers) to compatible as if they were types:   *)
(* two slots are at different addresses, and the bits read as their op are *)
(* those of a heap pointer, never Kfun or Kptr, so that the first pair of  *)
(* parameters already makes the types incompatible.                        *)
ParametersCompatible(ps, qs) == Len(ps) = Len(qs) /\ ps = <<>>

Compatible(s, t) ==
  /\ s.depth = t.depth
  /\ s.core = t.core
  /\ s.core = "fun" => /\ ParametersCompatible(s.params, t.params)
                       /\ s.ret = t.ret
=============================================================================
