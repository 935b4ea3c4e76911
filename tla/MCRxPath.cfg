SPECIFICATION FairSpec
CONSTANTS
  MAX_BLOCK_SIZE = 5
  MaxFrames = 12
  Window = 3
  NDEBUG = TRUE
INVARIANTS
  TypeOK
  ExactlyOnceInOrder
  NeverParsesNull
  ParsedBlockIsPrivate
  ReceiverStaysArmed
  RingInv
PROPERTY EveryFrameHandled
