SPECIFICATION Spec
CONSTANTS
  Bytes = {"S", "E", "A", "H", "X", "c"}
  START = "S"
  END = "E"
  Known <- MCKnown
  Frames <- MCFrames
  MaxBuffer = 6
  MaxQueue = 1
INVARIANTS BufferBounded InStep
PROPERTIES DeliveredWhole
