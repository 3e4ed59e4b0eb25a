\* The gateway and the front ends of pirs, one at a time.
SPECIFICATION FrontSpec
CONSTANTS
  ann = ann
  bob = bob
  eve = eve
  k1 = k1
  k2 = k2
  g1 = g1
  g2 = g2
  c1 = c1
  c2 = c2
  Peers = {ann, bob, eve}
  Codes = {k1, k2}
  Gateways = {g1, g2}
  Clis = {c1, c2}
  Cases <- MixesOrSilence
  Listed = {ann}
  MaxCrashes = 1
  Modes <- AllModes
  MaxSaid = 2
  MaxSessions = 3
  MaxLines = 3
  MaxPacks = 1
INVARIANTS
  InboxIsHonest
  
  ScreensAreTrue
PROPERTIES
  EveryRequestEnds
CHECK_DEADLOCK FALSE
