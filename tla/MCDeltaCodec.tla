----------------------------- MODULE MCDeltaCodec -----------------------------
(* DeltaCodec with two bits to a byte: vectors of 0 to 4 bytes have no, a
   partly used, a full, and a full and a further mask byte. *)
EXTENDS DeltaCodec

MCFresh == {1}
MCVectors == UNION {[1..n -> {{}, {0, 1}}] : n \in 0..4}
=============================================================================
