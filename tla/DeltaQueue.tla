------------------------------ MODULE DeltaQueue ------------------------------
(***************************************************************************)
(* The DeltaSendQueue of hw5/common/delta.hpp and the codec it calls, as   *)
(* operators on values.                                                    *)
(*                                                                         *)
(* A byte vector is a sequence of cells.  A delta is a function from the   *)
(* positions whose mask bit is set to the byte sent for them; how it is    *)
(* packed into mask bytes followed by payload bytes is DeltaCodec's        *)
(* subject, which shows that the packing loses nothing.                    *)
(*                                                                         *)
(* The code keeps the newest state at the front of a deque and the oldest  *)
(* at its back.  A queue here is a sequence with the oldest state first,   *)
(* so that emplace_front is Append and pop_back drops the head.            *)
(***************************************************************************)
EXTENDS Integers, Sequences, SequencesExt

CONSTANT Fresh      \* a cell of a default constructed element (vector::resize)

-----------------------------------------------------------------------------
Changed(bytes_old, bytes_new) ==
    {i \in DOMAIN bytes_new : \/ i \notin DOMAIN bytes_old
                              \/ bytes_new[i] # bytes_old[i]}

delta_encode(bytes_old, bytes_new) ==
    [i \in Changed(bytes_old, bytes_new) |-> bytes_new[i]]

\* Mutation of the next definition: the vector is made anew.
delta_apply_anew(data, delta, total_size) ==
    [i \in 1..total_size |-> IF i \in DOMAIN delta THEN delta[i] ELSE Fresh]

\* The vector overload: resize to total_size, then overwrite the marked cells.  That
\* total_size is a whole number of elements (NG_ASSERT, delta.hpp:37) is left out: both
\* programs encode whole elements only.
delta_apply(data, delta, total_size) ==
    [i \in 1..total_size |-> IF i \in DOMAIN delta THEN delta[i]
                             ELSE IF i \in DOMAIN data THEN data[i]
                             ELSE Fresh]

-----------------------------------------------------------------------------
front(states_) == Last(states_)

back(states_) == Head(states_)

\* The constructor pushes the empty state with epoch 0.
DeltaSendQueue == << [epoch |-> 0, data |-> << >>] >>

\* Mutation of the next definition: <= for <.
ReceiveConfirmation_strict(states_, confirmed_epoch) ==
    SelectSeq(states_, LAMBDA s : s.epoch > confirmed_epoch)

\* Mutation of the next definition: if for while.
ReceiveConfirmation_once(states_, confirmed_epoch) ==
    IF back(states_).epoch < confirmed_epoch THEN Tail(states_) ELSE states_

\* Pop from the back as long as the oldest state is older than the
\* confirmed epoch: what is left starts at the first state that is not.
ReceiveConfirmation(states_, confirmed_epoch) ==
    LET first == SelectInSeq(states_, LAMBDA s : s.epoch >= confirmed_epoch)
    IN  IF first = 0 THEN << >> ELSE SubSeq(states_, first, Len(states_))

\* GetStateDelta pushes the new state ...
PushState(states_, new_state_bytes) ==
    Append(states_, [epoch |-> front(states_).epoch + 1,
                     data  |-> new_state_bytes])

\* Mutation of the next definition: the difference from the last state sent.
StateDelta_from_front(states_, new_state_bytes) ==
    [epoch       |-> front(states_).epoch + 1,
     total_bytes |-> Len(new_state_bytes),
     cont        |-> delta_encode(front(states_).data, new_state_bytes)]

\* ... and returns its epoch with the difference from the oldest state kept,
\* which the code calls last_confirmed_state.
StateDelta(states_, new_state_bytes) ==
    [epoch       |-> front(states_).epoch + 1,
     total_bytes |-> Len(new_state_bytes),
     cont        |-> delta_encode(back(states_).data, new_state_bytes)]
=============================================================================
