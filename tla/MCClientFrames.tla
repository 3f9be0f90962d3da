---------------------------- MODULE MCClientFrames ----------------------------
(* ClientFrames on a small clock. *)
EXTENDS ClientFrames

MCHalfTrips == {0, 1}
=============================================================================
