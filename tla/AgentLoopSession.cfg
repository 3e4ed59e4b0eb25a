\* The session file after a run.
SPECIFICATION Spec
CONSTANTS
  u1 = u1
  u2 = u2
  Inputs = {u1, u2}
  BlankInputs = {}
  MaxCalls = 1
  Setups <- OnlySteered
  Resumable <- OneResumed
  MaxRuns = 1
INVARIANTS
  SessionFileAnswered
CHECK_DEADLOCK FALSE
