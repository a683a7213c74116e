----------------------------- MODULE MCSharedLine -----------------------------
(* Instances of SharedLine for TLC: line 4, two vCPUs. *)
EXTENDS SharedLine

TwoPorts == {"ttyS0", "ttyS2"}
TwoCpus == {"cpu0", "cpu1"}

=============================================================================
