SPECIFICATION Spec
CONSTANTS
  k1 = k1
  k2 = k2
  k3 = k3
  p1 = p1
  p2 = p2
  d1 = d1
  d2 = d2
  d3 = d3
  Device = {d1, d2, d3}
  MaxConn = 1
  Backlog = 2
  MaxCuts = 0
  Runs <- RunsB
  RecordCount = 1
  MaxResets = 0
  Pinned <- PinnedMixed
  KeyId <- KeyIds
  DevicePsk <- PskMixed
  ServerKey = k1
  ServerKeyId = 1
  NoPsk = NoPsk
  InitTable <- TableMixed
  TableUpdate <- UpdateMixed
  MaxExits = 1
  MaxKills = 0
INVARIANTS
  EphemeralErased
  OnlyMismatchRefused
  NoWorkForStrangers
  EncapsulatesToTheServer
CHECK_DEADLOCK FALSE
