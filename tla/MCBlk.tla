-------------------------------- MODULE MCBlk --------------------------------
(* Instances of Blk for TLC. *)
EXTENDS Blk

CONSTANTS a, b, blank, id

TwoData == {a, b}
OneData == {a}
AllTypes == {"IN", "OUT", "GET_ID", "OTHER"}
HandledTypes == {"OUT", "GET_ID"}

=============================================================================
