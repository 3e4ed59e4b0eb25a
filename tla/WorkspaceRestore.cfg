\* A checkpoint of a clean tree, a bad edit, and the restore.
SPECIFICATION WorkSpec
CONSTANTS
  a1 = a1
  a2 = a2
  f1 = f1
  f2 = f2
  Workers = {a1, a2}
  Files = {f1, f2}
  Programs <- EditAfterCheckpoint
  Git = TRUE
  IndexIsTracked = TRUE
INVARIANTS
  RestoreBringsBack
CHECK_DEADLOCK FALSE
