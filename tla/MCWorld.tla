-------------------------------- MODULE MCWorld --------------------------------
(* Finite instance of World. *)
EXTENDS World, TLC

MCFresh == 0
MCStartSizes == {3, 4}
MCSymmetry == Permutations(Clients)

\* A velocity has two bytes that change: 0, next to nothing, 0.7 and 1.
MCByte == 0..3
MCTiny == {<<x, y>> : x, y \in {0, 1}}
MCBotSpeeds == {<<2, 2>>}
\* Along an axis and across, so that the second one is scaled and one byte of the
\* two is the same.
MCSpeeds == {<<3, 0>>, <<3, 3>>}

\* Velocities longer than 1 are cut down to 1.
MCClamped ==
    [vel \in [1..2 -> MCByte] |->
        IF vel[1] >= 2 /\ vel[2] >= 2 THEN <<2, 2>> ELSE vel]
=============================================================================
