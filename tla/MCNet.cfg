SPECIFICATION FairSpec
CONSTANTS
  QUEUE_SIZE_MAX = 2
  IdxMod = 4
  queue_count = 2
  QueueNum = 2
  MaxPosts = 2
  FrameLen = 1
  ChainLen = 2
  MaxFrames = 2
  IoErrors = TRUE
INVARIANTS
  TypeOK
  ChainOwnedWhileServed
  RxInOrder
  TxInOrder
  NoLostInterrupt
PROPERTIES
  ServesFifo
  FrameDelivered
