CONSTANTS
  Programs <- MCPrograms
  MaxDepth = 2
  CallerMask = {"rax", "rcx", "rdi", "rsi"}
  ArgRegs <- MCArgRegs
SPECIFICATION Spec
CHECK_DEADLOCK FALSE
INVARIANTS StartsAsWritten InitOrdered ClobbersKnown
PROPERTIES Starts
