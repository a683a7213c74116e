-------------------------------- MODULE MCRng --------------------------------
(* Instances of Rng for TLC. *)
EXTENDS Rng

CONSTANTS v1, v2

BothVCpus == {v1, v2}

=============================================================================
