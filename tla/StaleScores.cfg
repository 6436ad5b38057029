SPECIFICATION Spec
CONSTANTS
  Listed = 2
  Halted = {}
  MaxRuns = 2
INVARIANT CandidatesCurrent
CHECK_DEADLOCK FALSE
