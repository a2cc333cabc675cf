SPECIFICATION ExprSpec
CONSTANTS
  Variables <- SomeVariables
  AddressOf <- SomeAddresses
  Literals = {0, 3}
  TypeNames = {"int", "uint", "long"}
  Memories <- SomeMemories
  Operators <- AllOperators
  MaxOps = 2
  MaxStack = 3
INVARIANTS
  ComputesMeaning
  PushesBalance
  OnlyNullUnassembled
  DepartsAsNamed
CHECK_DEADLOCK FALSE
