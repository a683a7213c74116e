SPECIFICATION FairSpec
CONSTANTS
  VCpus <- TwoCpus
  boot = "cpu0"
  Sizes <- MemorySizes
  Images <- SomeImages
INVARIANTS
  NothingUsedAfterDestroyed
  ServedWhileBootRuns
  GuestRamIsBacked
  ImageIsWhole
  DevicesAreWired
PROPERTIES
  ShutdownCompletes
CHECK_DEADLOCK FALSE
