CONSTANTS
  N = 2
  Size = 2
  Regs = {x, y}
  NOREG = NOREG
  Instrs <- EveryInstr
  Builds <- MCBuilds
  Spills <- MCSpills
SPECIFICATION MCSpec
INVARIANTS Consistent LiveAsRead EffectsKept SlotsApart
PROPERTIES NearerTheEnd
SYMMETRY Symmetric
CHECK_DEADLOCK FALSE
