SPECIFICATION Spec
CONSTANTS
  ExprTypes = {"int", "void", "NULL"}
  MaxSize = 5
  MaxRefused = 4
INVARIANTS
  FollowsSource
  CrashesAreHollow
  OnlyDoUnassembled
PROPERTY
  Progress
CHECK_DEADLOCK FALSE
