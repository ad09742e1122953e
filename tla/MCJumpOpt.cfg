CONSTANTS
  Labels = {l1, l2}
  MaxCode = 6
  NOLABEL = NOLABEL
  MaxHops = 8
  MaxRounds = 8
SPECIFICATION Spec
INVARIANTS FlowKept TablesExact Settles
CHECK_DEADLOCK FALSE
