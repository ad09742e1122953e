CONSTANTS
  a = a
  b = b
  y = y
  Regs = {a, b, y}
  Addressed = {y}
  Ops = {"move", "mul", "div", "stg", "ldg", "stp", "ldp", "call"}
  MaxCode = 3
  NOREG = NOREG
  Builds <- MCBuilds
  MaxRounds = 8
SPECIFICATION Spec
INVARIANTS BlockOptInv Settles
CHECK_DEADLOCK FALSE
