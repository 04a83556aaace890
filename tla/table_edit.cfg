SPECIFICATION Spec
CONSTANTS
  d0 = d0
  d1 = d1
  d2 = d2
  p0 = p0
  p1 = p1
  p2 = p2
  r1 = r1
  r2 = r2
  Device = {d0, d1, d2}
  Psk = {p0, p1, p2}
  NoPsk = NoPsk
  ShortPsk = ShortPsk
  NoDevice = NoDevice
  Registrar = {r1, r2}
  Job <- Jobs
  InitFile <- OneDevice
  Edits <- MidEdit
  MaxEdits = 1
  MaxDeaths = 0
  MaxSameTick = 0
  AtOnce = 1
PROPERTIES
  ServingContinues
CHECK_DEADLOCK FALSE
