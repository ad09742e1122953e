CONSTANTS
  r1 = r1
  r2 = r2
  r3 = r3
  r4 = r4
  in3 = in3
  out3 = out3
  s1 = s1
  s2 = s2
  s3 = s3
  v1 = v1
  v2 = v2
  v3 = v3
  v4 = v4
  Regs = {r1, r2, r3, r4}
  Slots = {in3, out3, s1, s2, s3, v1, v2, v3, v4}
  PMMaxRegs = 4
  ArgRegs <- MCArgRegs
  InSlots <- MCInSlots
  OutSlots <- MCOutSlots
  Rax = r4
  CallerSaved = {r1, r2, r4}
  SpillSlots <- MCSpillSlots
  SaveSlots <- MCSaveSlots
  ArgVregs = {1, 2}
  Overwritten = FALSE
  SPILL = SPILL
  CONST = CONST
  NOTHING = NOTHING
  RESULT = RESULT
SPECIFICATION CallersSpec
INVARIANTS PlanInv ValuesArrive CallKeepsLive
PROPERTIES Parallel Terminates
CHECK_DEADLOCK FALSE
