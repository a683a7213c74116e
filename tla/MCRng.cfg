SPECIFICATION FairSpec
CONSTANTS
  QUEUE_SIZE_MAX = 2
  IdxMod = 8
  queue_count = 1
  QueueNum = 2
  MaxPosts = 5
  v1 = v1
  v2 = v2
  VCpus <- BothVCpus
  BufLen = 3
  MaxOutstanding = 1
  IoErrors = TRUE
INVARIANTS
  StreamExclusive
  ReturnsWhatItFilled
  NoLostInterrupt
PROPERTIES
  ServesFifo
