SPECIFICATION Spec
CONSTANTS
  Values = {1, 3}
  Narrow = {1}
  ReturnAddress = 5
  NPARAM_REG = 1
  MaxArgs = 3
  MaxLocals = 1
  MaxInner = 1
  MaxPushes = 1
  MaxDepth = 3
INVARIANTS
  FramesIntact
  StackBalanced
  AlignedUnlessPushed
PROPERTIES
  RbxPreserved
