SPECIFICATION Spec
CONSTANTS
  Names = {a, b}
  SpecAtoms = {"int"}
  MaxSymbols = 4
  MaxStars = 0
  MaxParams = 1
  MaxNesting = 2
SYMMETRY NameSymmetry
INVARIANT PrototypeMatchesDefinition
CHECK_DEADLOCK FALSE
