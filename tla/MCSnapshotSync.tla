---------------------------- MODULE MCSnapshotSync ----------------------------
(* SnapshotSync on byte vectors of at most two cells. *)
EXTENDS SnapshotSync

MCByte == {0, 1}
MCFresh == 0
\* Vectors that grow, shrink and change a cell there and back.
MCStates == UNION {[1..n -> MCByte] : n \in 0..2}
=============================================================================
