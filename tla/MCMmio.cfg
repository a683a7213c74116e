SPECIFICATION MmioSpec
CONSTANTS
  Devices <- Both
  features <- Features
  queue_count <- QueueCounts
  SetUp <- SetUps
  Threads <- ThreadArgs
  Rings <- TwoRings
  Supported <- SomeSupport
  MaxProbes = 2
INVARIANTS
  RingsAreWhole
  OneQueuePerChain
  BoundIsServed
  FeaturesRecorded
