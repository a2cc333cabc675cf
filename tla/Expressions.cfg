SPECIFICATION Spec
CONSTANTS
  Declared <- SomeDeclared
  Functions <- SomeFunctions
  Constants <- SomeConstants
  TypeNames <- SomeTypeNames
  MaxStack = 2
  MaxArgs = 2
  MaxDepth = 2
INVARIANTS
  LvaluesHaveAddress
  OperandsAgree
  ErrorsAreTracked
PROPERTIES
  ErrorsPropagate
  CallsMatch
CHECK_DEADLOCK FALSE
