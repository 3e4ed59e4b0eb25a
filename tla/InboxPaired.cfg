SPECIFICATION Spec
CONSTANTS
  ann = ann
  bob = bob
  eve = eve
  k1 = k1
  k2 = k2
  g1 = g1
  g2 = g2
  c1 = c1
  c2 = c2
  Peers = {ann, bob, eve}
  Codes = {k1, k2}
  Gateways = {g1, g2}
  Clis = {c1, c2}
  Cases <- Paired
  Listed = {ann}
  MaxCrashes = 1
INVARIANTS
  PairedCanChat
CHECK_DEADLOCK FALSE
