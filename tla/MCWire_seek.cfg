CONSTANTS
  Message <- FourMessages
  Sizes <- FourSizes
  Command <- FourCommands
  Merged = 2
  CHUNK_SIZE = 75
  MTU = 300
  DEFAULT_CAPACITY = 8
SPECIFICATION Spec
CHECK_DEADLOCK FALSE
INVARIANTS SeekReachesOffset
