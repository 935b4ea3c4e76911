SPECIFICATION TurnsSpec
CONSTANTS
  MAX_BLOCK_SIZE = 3
  DISCOVER_PERIOD = 2
  MaxMessages = 6
  Backlog = 2
  NDEBUG = FALSE
INVARIANT TransmittedWhole
