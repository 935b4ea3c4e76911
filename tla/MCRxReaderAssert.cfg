SPECIFICATION Spec
CONSTANTS
  MAX_BLOCK_SIZE = 3
  MaxFrames = 6
  Window = 1
  NDEBUG = FALSE
INVARIANT ReaderAssertHolds
CHECK_DEADLOCK FALSE
