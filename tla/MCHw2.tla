--------------------------------- MODULE MCHw2 ---------------------------------
(* A finite instance of Hw2. *)
EXTENDS Hw2
=============================================================================
