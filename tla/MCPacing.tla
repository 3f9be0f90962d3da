-------------------------------- MODULE MCPacing --------------------------------
(* A finite instance of Pacing; a tick is 10 ms. *)
EXTENDS Pacing
=============================================================================
