SPECIFICATION Spec
CONSTANTS
  QUEUE_SIZE_MAX = 2
  IdxMod = 4
  queue_count = 1
  QueueNum = 2
  MaxPosts = 3
  a = a
  b = b
  blank = blank
  id = id
  Data <- TwoData
  Zero = a
  Blank = blank
  DISK_ID = id
  Capacity = 2
  MaxSegs = 2
  ReqTypes <- AllTypes
  IoErrors = TRUE
INVARIANTS
  TypeOK
  ChainOwnedWhileServed
  CompletedInOrder
  NoLostInterrupt
  OneEdgeAtATime
