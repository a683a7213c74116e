SPECIFICATION Spec
CONSTANTS
  Ports <- TwoPorts
  console = "ttyS0"
  VCpus <- TwoCpus
  terminal = "terminal"
  Strays = {TRUE, FALSE}
INVARIANTS
  HighOnlyInPulse
  LostOnlyByOverlap
