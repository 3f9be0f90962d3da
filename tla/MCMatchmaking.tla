---------------------------- MODULE MCMatchmaking ----------------------------
(* Matchmaking with symmetric clients and servers. *)
EXTENDS Matchmaking, TLC

Symmetry == Permutations(Clients) \union Permutations(Servers)
=============================================================================
