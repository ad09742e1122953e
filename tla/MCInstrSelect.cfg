CONSTANTS
  Regs = {0, 1, 2, 3}
  NarrowBits = 4
  ImmBits = 6
  WideBits = 8
  ScratchMax = 2
  Programs <- MCPrograms
  Values = {0, 77, 203}
  Dirt = {160}
  StaleBlk = FALSE
  Kinds = {"wide", "narrow", "crowded", "pairs", "triples", "shifts", "unary", "convert", "div", "cmp", "select", "choice"}
SPECIFICATION Spec
INVARIANTS SelectInv NoFault
PROPERTY ClobbersTold
CHECK_DEADLOCK FALSE
