------------------------------ MODULE MCSession ------------------------------
(* Session with symmetric clients. *)
EXTENDS Session, TLC

Symmetry == Permutations(Clients)
=============================================================================
