\* One indexer, and one call that edits while a batch is being embedded.
SPECIFICATION IndexSpec
CONSTANTS
  i1 = i1
  i2 = i2
  g1 = g1
  g2 = g2
  Versions = {1, 2}
  Gone = Gone
  SymbolsOf <- TwoTexts
  Indexers = {i1, i2}
  ModelOf <- OwnModels
  Readers = {g1, g2}
  Hooked = {g1, g2}
  Crews <- OneOfEach
  Batch = 1
  MaxEdits = 2
INVARIANTS
  EditsAreReembedded
