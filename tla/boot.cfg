SPECIFICATION BootFairSpec
CONSTANTS
  Unit <- Units
  MHZ = 240
  Wrap = 1000
  MAX_ATTEMPTS = 8
  MaxLosses = 2
  MaxPanics = 1
CHECK_DEADLOCK FALSE
INVARIANTS
  TypeOK
  NoBlindDraw
  NeverSilentlyOffline
  BoundedRetries
  OnlyVerifiedDraw
  NoFalseAlarm
PROPERTIES
  StartEnds
