------------------------------ MODULE MCKeepalive ------------------------------
(* A finite instance of Keepalive: the cfg gives the constants. *)
EXTENDS Keepalive
=============================================================================
