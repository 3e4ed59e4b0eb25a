\* The OpenAI client alone: does an attempt that was retried spoil the reply?
SPECIFICATION PartsSpec
CONSTANTS
  Routes <- OnePlain
  MaxRetries = 1
  MaxText = 1
  MaxLag = 0
  Sizes = {1, 6}
  Limit = 10
  KeepRecent = 4
  MinTurns = 2
  MaxResult = 3
  Resumes <- FreshOrTorn
  MaxSaid = 3
  MaxExtra = 1
  Calls <- Looks
  MayFail <- Looks
  Window = 4
  MaxRepeats = 3
  MaxMistakes = 2
  HashKeep = 2
  MaxAdvice = 1
  MaxStarts = 1
  Packs <- PinsAndStrip
  Protected <- Gates
  MaxMessages = 1
  Strategies <- WeakDriveAndFans
  Allowances = {0, 2}
  MaxTree = 3
INVARIANTS
  RetryIsForgiven
CHECK_DEADLOCK FALSE
