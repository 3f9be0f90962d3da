--------------------------------- MODULE Pacing ---------------------------------
(***************************************************************************)
(* The pace of the loops of hw5/server.cpp and hw5/client.cpp.  Both call  *)
(* Service::poll once a round, and poll goes on until enet_host_service    *)
(* has seen no event for 30 ms: packets keep their reader from everything  *)
(* else it has to do, from drawing and input in the client, from the world *)
(* and its deltas in the server.                                           *)
(*                                                                         *)
(* All clients play and nobody joins, leaves or writes.  Computing takes   *)
(* no time; time passes in ticks, and a poll that has waited long enough   *)
(* ends before the next tick.  All packets are sent on channel 1.          *)
(***************************************************************************)
EXTENDS Naturals

CONSTANTS
    Clients,
    PollTimeout,     \* timeoutMs, 30 ms
    InputRate,       \* the client's kSendRate, 60 ms
    DeltaRate,       \* the server's kSendRate, 100 ms
    MaxDelay         \* of a packet that is not lost

ASSUME ConstantsAssumption ==
    /\ {PollTimeout, InputRate, DeltaRate} \subseteq Nat \ {0}
    \* Two packets of one sort, sent in different rounds, differ in age.
    /\ MaxDelay \in Nat /\ MaxDelay < PollTimeout
    \* A delta has arrived, and is no longer noticed, when the next one is sent.
    /\ MaxDelay + PollTimeout <= DeltaRate

VARIABLES
    clientPoll,      \* client -> ticks since it read now
    serverQuiet,     \* ticks since enet_host_service was called
    clientQuiet,     \* client -> the same
    sinceDeltas,     \* now - lastSendTime of the server
    sinceInput,      \* client -> now - lastSendTime, as of the start of its round
    net              \* packets under way

serverVars == <<serverQuiet, sinceDeltas>>
clientVars == <<clientPoll, clientQuiet, sinceInput>>
pacingVars == <<serverVars, clientVars, net>>

Packet == [to : {"server", "client"}, peer : Clients, confirms : BOOLEAN,
           age : 0..MaxDelay]

\* Times stop where nothing compares them any more.
AtMost(bound, time) == IF time > bound THEN bound ELSE time
MaxTime == 2 * (MaxDelay + PollTimeout) + InputRate + 1

PacingTypeOK ==
    /\ clientPoll \in [Clients -> 0..MaxTime]
    /\ serverQuiet \in 0..PollTimeout /\ clientQuiet \in [Clients -> 0..PollTimeout]
    /\ sinceDeltas \in 0..DeltaRate + 1
    /\ sinceInput \in [Clients -> 0..InputRate + 1]
    /\ net \subseteq Packet

\* Everybody is somewhere in a poll.
PacingInit ==
    /\ serverQuiet \in 0..PollTimeout
    /\ clientQuiet \in [Clients -> 0..PollTimeout] /\ clientPoll = clientQuiet
    /\ sinceDeltas \in 0..DeltaRate + 1
    /\ sinceInput \in [Clients -> 0..InputRate + 1]
    /\ net = {}

-----------------------------------------------------------------------------
Delta(to, c) == [to |-> to, peer |-> c, confirms |-> FALSE, age |-> 0]
Confirmation(to, c) == [to |-> to, peer |-> c, confirms |-> TRUE, age |-> 0]

\* What is left when d has arrived: late packets of a channel are dropped.
Without(d) ==
    {e \in net \ {d} : e.to = d.to /\ e.peer = d.peer => e.age <= d.age}

\* Mutation of the next definition: every round sends
DeltasDue_always == TRUE

DeltasDue == sinceDeltas > DeltaRate

\* poll returns, and the loop comes round to it again.
ServerRound ==
    /\ serverQuiet = PollTimeout
    /\ serverQuiet' = 0
    /\ IF DeltasDue
       THEN /\ sinceDeltas' = 0
            /\ net' = net \union {Delta("client", c) : c \in Clients}
       ELSE UNCHANGED <<sinceDeltas, net>>
    /\ UNCHANGED clientVars

\* Mutation of the next definition: every round sends
InputDue_always(c) == TRUE

InputDue(c) == sinceInput[c] > InputRate

\* lastSendTime becomes the time at which the round began, and the next one
\* begins now.
ClientRound(c) ==
    /\ clientQuiet[c] = PollTimeout
    /\ clientQuiet' = [clientQuiet EXCEPT ![c] = 0]
    /\ clientPoll' = [clientPoll EXCEPT ![c] = 0]
    /\ LET since == IF InputDue(c) THEN clientPoll[c] ELSE sinceInput[c] + clientPoll[c]
       IN  sinceInput' = [sinceInput EXCEPT ![c] = AtMost(InputRate + 1, since)]
    /\ net' = net \union IF InputDue(c) THEN {Delta("server", c)} ELSE {}
    /\ UNCHANGED serverVars

\* An input is confirmed unless the player's entity is gone; a confirmation of a
\* delta only shortens a queue.
ServerReceive(d) ==
    /\ d \in net /\ d.to = "server"
    /\ serverQuiet' = 0
    /\ \/ ~d.confirms /\ net' = Without(d) \union {Confirmation("client", d.peer)}
       \/ net' = Without(d)
    /\ UNCHANGED <<sinceDeltas, clientVars>>

\* A delta is confirmed.
ClientReceive(d) ==
    /\ d \in net /\ d.to = "client"
    /\ clientQuiet' = [clientQuiet EXCEPT ![d.peer] = 0]
    /\ net' = Without(d) \union IF d.confirms THEN {} ELSE {Confirmation("server", d.peer)}
    /\ UNCHANGED <<clientPoll, sinceInput, serverVars>>

Lose(d) ==
    /\ d \in net /\ net' = net \ {d}
    /\ UNCHANGED <<serverVars, clientVars>>

Tick ==
    /\ serverQuiet < PollTimeout /\ \A c \in Clients : clientQuiet[c] < PollTimeout
    /\ \A d \in net : d.age < MaxDelay
    /\ serverQuiet' = serverQuiet + 1
    /\ clientQuiet' = [c \in Clients |-> clientQuiet[c] + 1]
    /\ clientPoll' = [c \in Clients |-> AtMost(MaxTime, clientPoll[c] + 1)]
    /\ sinceDeltas' = AtMost(DeltaRate + 1, sinceDeltas + 1)
    /\ net' = {[d EXCEPT !.age = @ + 1] : d \in net}
    /\ UNCHANGED sinceInput

PacingNext ==
    \/ ServerRound \/ Tick
    \/ \E c \in Clients : ClientRound(c)
    \/ \E d \in net : ServerReceive(d) \/ ClientReceive(d) \/ Lose(d)

PacingSpec == PacingInit /\ [][PacingNext]_pacingVars

\* The programs run and time passes.
FairPacingSpec == PacingSpec /\ WF_pacingVars(PacingNext)

-----------------------------------------------------------------------------
(* Correctness *)

\* With few enough players the server always leaves poll again, and deltas go out
\* for ever (Service.hpp:107, server.cpp:276-286).
DeltasGoOut == []<><<ServerRound /\ DeltasDue>>_pacingVars

\* A client comes round to its window and its console at the latest a round trip and
\* two silences after it began to poll: of the packets that can keep it, one is the
\* confirmation of its last input and one a delta (client.cpp:359-361).
ClientsComeRound ==
    \A c \in Clients : clientPoll[c] <= 2 * MaxDelay + 2 * PollTimeout
=============================================================================
