\* Two jobs in a registry that holds one, a kill and a wait; one instance of
\* the daemon, two stops, one rpc call and a crash; two clients on one instance,
\* a line of each, or one line and an event.
SPECIFICATION ProcessesSpec
CONSTANTS
  k1 = k1
  w1 = w1
  a = a
  s1 = s1
  s2 = s2
  r1 = r1
  JobIds = {1, 2}
  Killers = {k1}
  Waiters = {w1}
  Capacity = 1
  KindsOf <- BashThenAgent
  MaxGen <- Restarts
  Instances = {a}
  StopCalls = {s1, s2}
  RpcCalls = {r1}
  MaxCrashes = 1
  c1 = c1
  c2 = c2
  i1 = i1
  Streams = {c1, c2}
  Ids = {i1}
  LineKinds <- KindsOfLine
  MaxLines <- LinesOf
  MaxInputs = 2
  MaxEvents = 1
INVARIANTS
  TypeOK
  StatusIsTrue
  KillsWork
  NoLostWakeup
  RecordsAreTrue
  BridgeIsSound
PROPERTIES
  NobodyHangs
  DeathIsNoticed
\* Every job may have ended and every request been served.
CHECK_DEADLOCK FALSE
