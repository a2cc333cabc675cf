SPECIFICATION Spec
CONSTANTS
  Names = {a, b}
  SpecAtoms = {"int", "void"}
  MaxSymbols = 3
  MaxStars = 1
  MaxParams = 2
  MaxNesting = 2
SYMMETRY NameSymmetry
INVARIANTS
  IInv
  ExternalsDistinct
  EmissionPrecondition
  ErrorsStayOutOfScope
PROPERTIES
  BodyIsFinal
CHECK_DEADLOCK FALSE
