----------------------------- MODULE SnapshotSync -----------------------------
(***************************************************************************)
(* State replication from the server to one client: send_deltas and the    *)
(* PStateDeltaConfirmation handler of hw5/server.cpp, the PStateDelta      *)
(* handler of hw5/client.cpp, and ENet's channel 1 in between.             *)
(*                                                                         *)
(* Both packets are sent with flags {} on channel 1, which ENet treats as  *)
(* unreliable sequenced: a packet may be lost, and one that arrives after  *)
(* a newer one is dropped.  So taking the k-th packet in flight discards   *)
(* the k - 1 older ones.                                                   *)
(*                                                                         *)
(* The server keeps one DeltaSendQueue per client and the clients do not   *)
(* interact through it, so one client is enough.                           *)
(***************************************************************************)
EXTENDS DeltaQueue

CONSTANTS Byte,       \* the values of a cell
          States,     \* the values entities_ may take when it is sent
          MaxEpoch    \* bound on the number of states sent

ASSUME StatesAssumption == States \subseteq Seq(Byte) /\ Fresh \in Byte
ASSUME MaxEpochAssumption == MaxEpoch \in Nat \ {0}

VARIABLES
    delta_queue,      \* server: ClientData::delta_queue
    deltas,           \* PStateDelta packets in flight, oldest first
    confirmations,    \* epochs of PStateDeltaConfirmation packets in flight
    snapshot,         \* client: snapshotHistory_.back().entities
    applied,          \* history: epoch of the delta applied last
    sent              \* history: the states sent, sent[e] at epoch e

vars == <<delta_queue, deltas, confirmations, snapshot, applied, sent>>

\* The state of an epoch; epoch 0 is the empty state both sides start from.
StateIn(hist, e) == IF e = 0 THEN << >> ELSE hist[e]
StateAt(e) == StateIn(sent, e)

Init ==
    /\ delta_queue = DeltaSendQueue
    /\ deltas = << >>
    /\ confirmations = << >>
    /\ snapshot = << >>
    /\ applied = 0
    /\ sent = << >>

-----------------------------------------------------------------------------
(* Server *)

\* Every 100 ms, and whenever a player joins, the current entities go out as
\* a delta.  What they are is up to updateLogic: any value of States.
send_deltas(state) ==
    /\ Len(sent) < MaxEpoch
    /\ delta_queue' = PushState(delta_queue, state)
    /\ deltas' = Append(deltas, StateDelta(delta_queue, state))
    /\ sent' = Append(sent, state)
    /\ UNCHANGED <<confirmations, snapshot, applied>>

HandleStateDeltaConfirmation(k) ==
    /\ delta_queue' = ReceiveConfirmation(delta_queue, confirmations[k])
    /\ confirmations' = SubSeq(confirmations, k + 1, Len(confirmations))
    /\ UNCHANGED <<deltas, snapshot, applied, sent>>

(* Client *)

Confirmed(packet) == Append(confirmations, packet.epoch)

\* Mutation of the next definition: sent unsequenced, late packets are not dropped.
Undelivered_kept(k) == RemoveAt(deltas, k)

\* What can still be delivered when the k-th packet has been.
Undelivered(k) == SubSeq(deltas, k + 1, Len(deltas))

\* The new snapshot starts as a copy of the newest one and the delta is
\* applied to that copy, whatever state the delta was computed against.
HandleStateDelta(k) ==
    LET packet == deltas[k]
    IN  /\ snapshot' = delta_apply(snapshot, packet.cont, packet.total_bytes)
        /\ confirmations' = Confirmed(packet)
        /\ applied' = packet.epoch
        /\ deltas' = Undelivered(k)
        /\ UNCHANGED <<delta_queue, sent>>

-----------------------------------------------------------------------------
Send == \E state \in States : send_deltas(state)
ReceiveDelta == \E k \in 1..Len(deltas) : HandleStateDelta(k)
ReceiveConfirm ==
    \E k \in 1..Len(confirmations) : HandleStateDeltaConfirmation(k)

Next == Send \/ ReceiveDelta \/ ReceiveConfirm

Spec == Init /\ [][Next]_vars

\* Both programs poll their host in every iteration of run(), and the server
\* sends again every 100 ms, so the newest packet in flight stands for one
\* that gets through.
FairSpec == Spec /\ WF_vars(ReceiveDelta) /\ WF_vars(ReceiveConfirm)

-----------------------------------------------------------------------------
TypeOK ==
    /\ delta_queue \in Seq([epoch : Nat, data : Seq(Byte)])
    /\ \A k \in 1..Len(deltas) :
         /\ deltas[k].epoch \in 1..Len(sent)
         /\ deltas[k].total_bytes \in Nat
         /\ \A i \in DOMAIN deltas[k].cont : deltas[k].cont[i] \in Byte
    /\ confirmations \in Seq(1..Len(sent))
    /\ snapshot \in Seq(Byte)
    /\ applied \in 0..Len(sent)
    /\ sent \in Seq(States)

\* NG_ASSERT(confirmed_epoch <= states_.front().epoch) holds for every
\* confirmation that can reach the server, and there is a front to compare
\* with: ReceiveConfirmation never empties the queue GetStateDelta reads.
ConfirmationsNotAhead ==
    /\ delta_queue # << >>
    /\ \A k \in 1..Len(confirmations) :
         confirmations[k] <= front(delta_queue).epoch

\* The queue holds, without gaps, the states sent since its oldest epoch:
\* the state a delta is computed against is the one that epoch stands for.
QueueIsHistory ==
    \A n \in 1..Len(delta_queue) :
        /\ delta_queue[n].epoch = Len(sent) - Len(delta_queue) + n
        /\ delta_queue[n].data = StateAt(delta_queue[n].epoch)

\* The server never computes a delta against an epoch the client has not
\* reached: the oldest state kept is one the client has confirmed (or 0).
BaseWasApplied == back(delta_queue).epoch <= applied

\* Every delta in flight is newer than what the client has applied, and was
\* computed against a state the client has been through; only epochs the
\* client has applied are confirmed.
InFlightConsistent ==
    /\ \A k \in 1..Len(deltas) :
         /\ applied < deltas[k].epoch
         /\ \A j \in 1..(k - 1) : deltas[j].epoch < deltas[k].epoch
         /\ \E base \in 0..applied :
              LET new == StateAt(deltas[k].epoch)
              IN  /\ deltas[k].cont = delta_encode(StateAt(base), new)
                  /\ deltas[k].total_bytes = Len(new)
    /\ \A k \in 1..Len(confirmations) : confirmations[k] <= applied

\* The value of cell i at epoch e, with a mark for "no such cell".
Cell(state, i) == IF i \in DOMAIN state THEN <<state[i]>> ELSE << >>

\* Cell i never leaves a value and comes back to it.
NeverReturns(i) ==
    \A e, f, g \in 0..Len(sent) :
        (e < f /\ f < g /\ Cell(StateAt(e), i) = Cell(StateAt(g), i))
            => Cell(StateAt(f), i) = Cell(StateAt(e), i)

\* What replication gives under loss, although deltas are applied to the
\* newest snapshot and not to the state they were computed against: a cell
\* whose value never returns to an earlier one is exact, at the epoch the
\* client has confirmed, no matter which packets were lost.
ExactWhereNeverReturning ==
    \A i \in DOMAIN snapshot \union DOMAIN StateAt(applied) :
        NeverReturns(i) => Cell(snapshot, i) = Cell(StateAt(applied), i)

\* Queue, deltas and confirmations amount to what Replica promises, whatever is
\* lost, although a delta is made from a state the client may have left long ago
\* (hw5/common/delta.hpp:67) and applied to its newest (hw5/client.cpp:101).
R == INSTANCE Replica
ImplementsReplica == R!Spec

\* Neither the client's epoch nor the epoch deltas are computed against ever
\* goes back, whatever order confirmations are lost in.
EpochsNeverGoBack ==
    [][/\ applied' >= applied
       /\ back(delta_queue').epoch >= back(delta_queue).epoch]_vars

\* The queue does not keep what the client has confirmed: once the last state
\* is out, it shrinks to that state.
QueueDrains == (Len(sent) = MaxEpoch) ~> (Len(delta_queue) = 1)
=============================================================================
