SPECIFICATION FairSpec
CONSTANTS
  k1 = k1
  k2 = k2
  k3 = k3
  p1 = p1
  p2 = p2
  d1 = d1
  d2 = d2
  d3 = d3
  Device = {d1, d2}
  MaxConn = 1
  Backlog = 1
  MaxCuts = 1
  Runs <- RunsB
  RecordCount = 1
  MaxResets = 0
  Pinned <- PinnedGood
  KeyId <- KeyIds
  DevicePsk <- PskGood
  ServerKey = k1
  ServerKeyId = 1
  NoPsk = NoPsk
  InitTable <- TableGood
  TableUpdate <- NoUpdate
  MaxExits = 0
  MaxKills = 1
PROPERTIES
  ChannelSpec
  RunsEnd
  ServerReturns
  CleanDelivery
CHECK_DEADLOCK FALSE
