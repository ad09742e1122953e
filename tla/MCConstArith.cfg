CONSTANTS
  W = 9
  Narrow = 5
  ImmBits = 6
  MaxRounds = 8
  MaxTurns = 2
  Families <- MCFamilies
  Inputs <- MCInputs
SPECIFICATION Spec
CHECK_DEADLOCK FALSE
INVARIANTS ComputedAsWritten SearchEnds
PROPERTY MultipliersExact
