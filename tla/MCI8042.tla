------------------------------- MODULE MCI8042 -------------------------------
(* Instances of I8042 for TLC. *)
EXTENDS I8042

CONSTANTS int, noint

TwoValues == {int, noint}
Interrupting == {int}

=============================================================================
