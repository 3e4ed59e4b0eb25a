\* A batch, and each of what serves its tools, one at a time.
SPECIFICATION ToolsSpec
CONSTANTS
  p1 = p1
  NoPath = NoPath
  N = 3
  Paths = {p1}
  PathOf <- TwoOnOnePath
  Idempotent = {2}
  a = a
  b = b
  c = c
  t1 = t1
  t2 = t2
  t3 = t3
  Servers = {a, b, c}
  Tasks = {t1, t2, t3}
  Transport <- Servings
  CallMixes <- Mixes
  NoOne = NoOne
  MaxLive = 1
  main = main
  s1 = s1
  s2 = s2
  c1 = c1
  c2 = c2
  c3 = c3
  Extensions = {1, 2}
  Policies = {1, 2}
  Patches = {1}
  Observers = {2}
  MainAgent = main
  SubAgents = {s1, s2}
  BatchOf <- Batches
  ToolOf <- Tools
  q1 = q1
  q2 = q2
  doc = doc
  LspCalls = {q1, q2}
  Document <- OneDocument
  Methods <- MixedMethods
  MaxTries = 2
  MaxAsks = 1
  a1 = a1
  a2 = a2
  f1 = f1
  f2 = f2
  Workers = {a1, a2}
  Files = {f1, f2}
  Programs <- Workings
  Git = TRUE
  IndexIsTracked = TRUE
  i1 = i1
  i2 = i2
  g1 = g1
  g2 = g2
  Versions = {1, 2}
  Gone = Gone
  SymbolsOf <- TwoTexts
  Indexers = {i1, i2}
  ModelOf <- OwnModels
  Readers = {g1, g2}
  Hooked = {g1, g2}
  Crews <- Pairs
  Batch = 1
  MaxEdits = 2
  k1 = k1
  k2 = k2
  Kin = {k1, k2}
  MaxOutput = 2
  MaxQueue = 1
INVARIANTS
  TypeOK
  ExecutionRules
  ReportsAreComplete
  PoolIsSound
  LspIsSound
  FailsClosed
  WorkIsKept
  IndexIsSound
  ShellIsReaped
PROPERTIES
  ContractHolds
  EveryCallEnds
