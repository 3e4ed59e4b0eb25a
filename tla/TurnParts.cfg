\* Completion, compaction, the thrash guard and a request, one at a time.
SPECIFICATION FairSpec
CONSTANTS
  Routes <- AllRoutes
  MaxRetries = 1
  MaxText = 2
  MaxLag = 0
  Sizes = {1, 6}
  Limit = 10
  KeepRecent = 4
  MinTurns = 2
  MaxResult = 3
  Resumes <- FreshOrTorn
  MaxSaid = 9
  MaxExtra = 3
  Calls <- LooksAndWrites
  MayFail <- Looks
  Window = 4
  MaxRepeats = 3
  MaxMistakes = 2
  HashKeep = 2
  MaxAdvice = 1
  MaxStarts = 5
  Packs <- PinsAndStrip
  Protected <- Gates
  MaxMessages = 5
  Strategies <- WeakDriveAndFans
  Allowances = {0, 2}
  MaxTree = 3
INVARIANTS
  CompletionIsSound
  WireIsValid
  GateIsHonest
PROPERTIES
  CancelIsHeard
  CompactionIsSound
  ThrashIsStopped
CHECK_DEADLOCK FALSE
