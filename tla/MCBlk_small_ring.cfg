SPECIFICATION Spec
CONSTANTS
  QUEUE_SIZE_MAX = 4
  IdxMod = 8
  queue_count = 1
  QueueNum = 2
  MaxPosts = 6
  a = a
  b = b
  blank = blank
  id = id
  Data <- OneData
  Zero = a
  Blank = blank
  DISK_ID = id
  Capacity = 1
  MaxSegs = 1
  ReqTypes <- HandledTypes
  IoErrors = FALSE
INVARIANTS
  NoLostInterrupt
