CONSTANTS
  Vregs = {v1, v2, v3}
  Ax = ax
  Dx = dx
  Cx = cx
  Callee = {}
  Scratch <- MCScratch
  Ops = {"neg", "shift", "div", "divc"}
  MaxCode = 2
  SPILL = SPILL
  NONE = NONE
SPECIFICATION Spec
SYMMETRY Symmetry
INVARIANTS SweptLive ContractHolds EmissionServed
CHECK_DEADLOCK FALSE
