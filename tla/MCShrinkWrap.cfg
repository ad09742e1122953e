CONSTANTS
  N = 4
  MaxRuns = 2
SPECIFICATION WrapSpec
INVARIANTS CallerValueSafe DomExact
CHECK_DEADLOCK FALSE
