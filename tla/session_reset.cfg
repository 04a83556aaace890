SPECIFICATION Spec
CONSTANTS
  k1 = k1
  k2 = k2
  k3 = k3
  p1 = p1
  p2 = p2
  d1 = d1
  d2 = d2
  d3 = d3
  Device = {d1}
  MaxConn = 2
  Backlog = 2
  MaxCuts = 1
  Runs <- RunsB
  RecordCount = 3
  MaxResets = 1
  Pinned <- PinnedGood
  KeyId <- KeyIds
  DevicePsk <- PskGood
  ServerKey = k1
  ServerKeyId = 1
  NoPsk = NoPsk
  InitTable <- TableGood
  TableUpdate <- NoUpdate
  MaxExits = 0
  MaxKills = 1
INVARIANTS
  NonceOnce
PROPERTIES
  ChannelSpec
CHECK_DEADLOCK FALSE
