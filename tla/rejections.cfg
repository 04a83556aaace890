SPECIFICATION Spec
CONSTANTS
  k1 = k1
  p1 = p1
  board = board
  tester = tester
  Device = {board, tester}
  MaxConn = 4
  Backlog = 2
  MaxCuts = 0
  Runs <- RunsAB
  RecordCount = 1
  MaxResets = 1
  Pinned <- PinnedGood
  KeyId <- KeyIds
  DevicePsk <- PskGood
  ServerKey = k1
  ServerKeyId = 1
  NoPsk = NoPsk
  InitTable <- TableGood
  TableUpdate <- NoUpdate
  MaxExits = 1
  MaxKills = 0
  RogueKey = k1
  RoguePsk = p1
  Board = board
  MaxSshFaults = 1
  Tester = tester
  FirstDevice = board
  FirstPsk = p1
  TestKey = k1
  TestKeyId = 1
INVARIANTS
  TypeOK
  FirmwareRefuses
  
  ServerRefuses
CHECK_DEADLOCK FALSE
