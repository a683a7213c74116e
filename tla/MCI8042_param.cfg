SPECIFICATION Spec
CONSTANTS
  BUF_SIZE = 2
  int = int
  noint = noint
  Values <- TwoValues
  KbdInt <- Interrupting
  Ack = fa
INVARIANTS
  ParameterExpected
