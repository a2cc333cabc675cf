SPECIFICATION SumSpec
CONSTANTS
  MaxSpecifiers = 6
  Architectures <- AllTables
  Constants = {0, 1, 2, 3, 4, 7, 8, 15, 127, 128, 255}
INVARIANTS
  RejectedIffNotAllowed
  OrderFree
  SumTypeIsLeast
  ConstantTypeIsAble
CHECK_DEADLOCK FALSE
