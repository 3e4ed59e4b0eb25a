\* A one-shot and a cron job, the ticker of the gateway and two commands.
SPECIFICATION Spec
CONSTANTS
  once = once
  daily = daily
  gw = gw
  c1 = c1
  c2 = c2
  Jobs = {once, daily}
  Gateways = {gw}
  Clis = {c1, c2}
  KindOf <- Kind
  Period <- Steps
  Delays = {0}
  CronGrace = 0
  MinGrace = 1
  CronBackoff = 1
  OnceBackoff = 1
  BackoffCap = 1
  BackoffAfter = 2
  GiveUpAfter = 3
  FailCap = 3
  MaxTime = 3
INVARIANTS
  TypeOK
  OneshotBudget
PROPERTIES
  SlotFiresOnce
  PauseHolds
\* The clock may have stopped.
CHECK_DEADLOCK FALSE
CONSTRAINT Explored
SYMMETRY Commands
