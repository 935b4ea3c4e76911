SPECIFICATION FairLightSpec
CONSTANTS
  MAX_BLOCK_SIZE = 4
  DISCOVER_PERIOD = 2
  MaxMessages = 9
  Backlog = 2
  NDEBUG = FALSE
INVARIANTS
  TypeOK
  TransmittedInOrder
  TransmittedWhole
  NothingDropped
PROPERTY EveryWriteTransmitted
