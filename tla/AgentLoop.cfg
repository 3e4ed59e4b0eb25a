\* Steering, follow-ups and cancellation against one long run; cascade,
\* compaction, hooks and batches of two calls in another.
SPECIFICATION FairSpec
CONSTANTS
  u1 = u1
  u2 = u2
  Inputs = {u1, u2}
  BlankInputs <- OneBlank
  MaxCalls = 2
  Setups <- SteeredOrLoaded
  Resumable <- OneResumed
  MaxRuns = 1
INVARIANTS
  TypeOK
  HistoryIsWhatWasSaid
  FileKeepsDialogue
  HistoryAnswered
  InputsConserved
  TurnBudgetHolds
PROPERTIES
  RunEnds
CHECK_DEADLOCK FALSE
