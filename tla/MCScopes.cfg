SPECIFICATION Spec
CONSTANTS
  Names = {a, b}
  SpecAtoms = {"int"}
  MaxSymbols = 4
  MaxStars = 0
  MaxParams = 1
  MaxNesting = 4
SYMMETRY NameSymmetry
INVARIANTS
  AssertionsHold
  RedeclarationTestIsExact
  DsstackDiscipline
PROPERTIES
  ScopingIsLexical
CHECK_DEADLOCK FALSE
