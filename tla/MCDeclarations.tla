--------------------------- MODULE MCDeclarations ---------------------------
(* Declarations on small instances: every list of declarations, prototypes, *)
(* definitions and blocks that a few symbols can make.                      *)
EXTENDS DeclarationsInvariant, TLC

(* Nothing but equality is asked of an identifier. *)
NameSymmetry == Permutations(Names)
=============================================================================
