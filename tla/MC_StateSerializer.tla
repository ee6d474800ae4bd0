------------------------- MODULE MC_StateSerializer -------------------------
(* StateSerializer with a hash of four bits and bytes of three values. *)
EXTENDS StateSerializer
=============================================================================
