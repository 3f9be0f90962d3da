--------------------------------- MODULE Link ---------------------------------
(***************************************************************************)
(* One ENet connection between two hosts, as hw5/common/Service.hpp uses   *)
(* it: operators on a record with the state and the inbox of both ends.    *)
(* The near end is the one that called connect, the far end the one that   *)
(* accepted.                                                               *)
(*                                                                         *)
(* An inbox holds the events enet_host_service has yet to return, in the   *)
(* order of the reliable channel 0.  A DISCONNECT is the last event of an  *)
(* inbox: what is sent to an end that is going down is lost.               *)
(***************************************************************************)
EXTENDS Integers, Sequences, SequencesExt

Event(type) == [type |-> type]
CONNECT == Event("CONNECT")
DISCONNECT == Event("DISCONNECT")

EndState == {"none", "connecting", "accepting", "up", "closing", "down"}

NoLink == [near |-> "none", far |-> "none", in |-> << >>, out |-> << >>]

\* enet_host_connect: the far host has not heard of it yet.
Connecting == [NoLink EXCEPT !.near = "connecting"]

-----------------------------------------------------------------------------
HeadIs(inbox, type) == inbox # << >> /\ Head(inbox).type = type

\* The connection is over for the end that reads this inbox.
Ended(inbox) == inbox # << >> /\ Last(inbox) = DISCONNECT

Put(inbox, event) == IF Ended(inbox) THEN inbox ELSE Append(inbox, event)

\* enet_peer_send, from the near and from the far end.  Nothing is sent by an
\* end that is not connected, or reaches one that is closed.
SendFar(link, packet) ==
    IF link.near = "up" /\ link.far # "down"
    THEN [link EXCEPT !.out = Put(@, packet)] ELSE link

SendNear(link, packet) ==
    IF link.far = "up" /\ link.near # "down"
    THEN [link EXCEPT !.in = Put(@, packet)] ELSE link

\* enet_peer_disconnect_later: the other end gets what was sent and then the
\* DISCONNECT; this end gets no more packets, only a DISCONNECT of its own
\* when the other has taken everything.  Without effect on a closed end.
CloseNear(link) ==
    IF link.near \in {"none", "down"} THEN link
    ELSE [link EXCEPT !.near = "closing", !.in = <<DISCONNECT>>,
                      !.out = IF link.far = "down" THEN @ ELSE Put(@, DISCONNECT)]

CloseFar(link) ==
    IF link.far \in {"none", "down"} THEN link
    ELSE [link EXCEPT !.far = "closing", !.out = <<DISCONNECT>>,
                      !.in = IF link.near = "down" THEN @ ELSE Put(@, DISCONNECT)]

\* The other end of a closing one has taken what was sent before the DISCONNECT.
NearMayEnd(link) == link.near = "closing" => Len(link.out) <= 1
FarMayEnd(link) == link.far = "closing" => Len(link.in) <= 1

\* The ways a time-out can leave an inbox: some of the packets arrived.
CutShort(inbox) == {Append(SubSeq(inbox, 1, n), DISCONNECT) : n \in 0..Len(inbox)}

\* The near host is destroyed without a word; the far end finds out later.
DestroyNear(link) ==
    IF link.near = "none" THEN link
    ELSE [link EXCEPT !.near = "down", !.in = << >>]

Abandoned(link) ==
    IF link.near # "down" \/ link.far \in {"none", "down"} \/ Ended(link.out)
    THEN {}
    ELSE {[link EXCEPT !.out = out] : out \in CutShort(link.out)}

WithInboxes(link, in, out) == [link EXCEPT !.in = in, !.out = out]

\* The network between the ends fails: each end notices with a DISCONNECT.
Broken(link) ==
    {WithInboxes(link, in, out) :
        in \in IF link.near \in {"none", "down"} \/ Ended(link.in)
               THEN {link.in} ELSE CutShort(link.in),
        out \in IF link.far \in {"none", "down"} \/ Ended(link.out)
                THEN {link.out} ELSE CutShort(link.out)}
=============================================================================
