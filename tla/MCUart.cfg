SPECIFICATION FairSpec
CONSTANTS
  FIFO_LEN = 2
  Garbage <- SomeGarbage
  MaxErrors = 1
  MaxTyped = 3
  MaxWritten = 2
INVARIANTS
  TypeOK
  RxInOrder
  TransmittedAtOnce
  RegistersTrue
  NoLostInterrupt
PROPERTIES
  TypedIsRead
  PulsesEnd
