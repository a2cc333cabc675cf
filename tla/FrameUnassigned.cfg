SPECIFICATION Spec
CONSTANTS
  Widths = {4, 8}
  NPARAM_REG = 1
  MaxParameters = 3
  MaxVariables = 3
  MaxVisits = 4
INVARIANTS
  EveryVariableAssigned
CHECK_DEADLOCK FALSE
