CONSTANTS
  c1 = c1
  c2 = c2
  e1 = e1
  Nodes = {n1, n2, n3, n4}
  Caller = {c1, c2}
  Callee = {e1}
  Scratch <- MCScratch
  Setups <- MCSetups
  SPILL = SPILL
SPECIFICATION Spec
SYMMETRY Symmetry
INVARIANTS ColoringInv NoNeedlessSpill
PROPERTIES Contract NearerTheEnd
CHECK_DEADLOCK FALSE
