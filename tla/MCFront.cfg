CONSTANTS
  Programs <- MCPrograms
  Globals <- MCGlobals
  MaxInputs = 2
  LogicBudget = 3
  InlineMax = 12
SPECIFICATION Spec
CHECK_DEADLOCK FALSE
INVARIANTS LoweredAsWritten AssignedBeforeRead WarningsTrue NoFallOff
