SPECIFICATION Spec
CONSTANTS
  k512 = k512
  k768 = k768
  x25519 = x25519
  KemOps <- TwoKems
  ClassicalOps <- OneExchange
  Deep = {k768}
  Slow = {x25519}
  ITERATIONS = 4
  Cycles <- ThreeCosts
  EarlyExit = 1
  TickCycles = 3
  Readings = {0, 12, 15}
  Wrap = 16
INVARIANTS
  FigureIsOfItsOp
  NoFigureOfAFailure
  
CHECK_DEADLOCK FALSE
