------------------------------- MODULE Keepalive -------------------------------
(***************************************************************************)
(* The datagram chat of hw1: one server (hw1/server.cpp) that remembers    *)
(* when it last heard of each address, pings the quiet ones and forgets    *)
(* the silent ones, and its clients (hw1/client.cpp).                      *)
(*                                                                         *)
(* Datagrams are lost, repeated, reordered, corrupted and delayed by up to *)
(* MaxDelay.  Time passes in ticks of about select's 100 ms; ages count    *)
(* ticks, so that last_seen[a] is the code's now - last_seen[a].           *)
(*                                                                         *)
(* The server reads one datagram per round of its loop and stops for as    *)
(* long as select or the terminal it writes to makes it wait: MaxStall     *)
(* bounds the ticks between two rounds that find the socket empty, and is  *)
(* 1 when the server is never held up.                                     *)
(***************************************************************************)
EXTENDS Integers, Sequences, FiniteSets, SequencesExt, Functions

CONSTANTS
    ClientAddresses,
    NoAddress,    \* the zeroed sockaddr_in of a recvfrom that failed
    PingTime,     \* PING_TIME, 500 ms
    Timeout,      \* TIMEOUT, 5 s
    MaxDelay,     \* of a datagram that is not lost
    MaxStall,
    Backlog       \* datagrams the socket holds

ASSUME AddressAssumption ==
    /\ NoAddress \notin ClientAddresses
    /\ IsFiniteSet(ClientAddresses)

\* The code's 5 s against 0.5 s leave this much room, or the time-out could
\* not tell a silent client from one that answers.
ASSUME TimeAssumption ==
    /\ {PingTime, Timeout, MaxDelay} \subseteq Nat /\ MaxStall \in Nat \ {0}
    /\ Backlog \in Nat \ {0}
    /\ PingTime + 2 * MaxStall + 2 * MaxDelay <= Timeout

Addresses == ClientAddresses \union {NoAddress}

VARIABLES
    last_seen,    \* address -> ticks since a datagram of it was read
    readable,     \* select has reported the socket, which is yet to be read
    buffer,       \* what waits in the server's socket
    net,          \* datagrams under way
    alive,        \* clients whose process runs
    stalled,      \* ticks since the last round that found the socket empty
    lost          \* history: clients a ping of which, or a datagram from which,
                  \* was lost since they were last seen

serverVars == <<last_seen, readable, buffer>>
vars == <<serverVars, net, alive, stalled, lost>>

Datagram == [to : {"server", "client"}, peer : ClientAddresses, text : {"m", "k"},
             age : 0..MaxDelay]
\* Where ages stop counting: no entry gets that old.
Old == Timeout + MaxStall + 1

Received == [from : Addresses, text : {"m", "k", ""}]

TypeOK ==
    /\ \E A \in SUBSET Addresses : last_seen \in [A -> 0..Old - 1]
    /\ readable \in BOOLEAN
    /\ buffer \in Seq(Received)
    /\ net \subseteq Datagram
    /\ alive \subseteq ClientAddresses
    /\ stalled \in 0..MaxStall
    /\ lost \subseteq ClientAddresses

-----------------------------------------------------------------------------
To(end, c, text) == [to |-> end, peer |-> c, text |-> text, age |-> 0]

Init ==
    /\ last_seen = << >> /\ readable = FALSE /\ buffer = << >>
    /\ net = {}
    /\ alive = ClientAddresses
    /\ stalled = 0
    /\ lost = {}

(* The server *)

\* Mutation of the next definition: nobody is ever dead.
TimedOut_never == {}

TimedOut == {a \in DOMAIN last_seen : last_seen[a] > Timeout}

Quiet == {a \in DOMAIN last_seen \ TimedOut : last_seen[a] > PingTime}

\* Mutation of the next definition: whom sendto cannot reach is not dead.
Unreachable_kept(failing) == {}

\* sendto fails for an address of port 0, and for any other when it likes.
Unreachable(failing) == Quiet \intersect (failing \union {NoAddress})

\* A round up to handle_keepalive.  What arrives after select has returned is
\* left for the next round.
handle_keepalive ==
    /\ ~readable
    /\ readable' = (buffer # << >>)
    /\ stalled' = IF buffer = << >> THEN 0 ELSE stalled
    /\ \E failing \in SUBSET (Quiet \intersect ClientAddresses) :
          LET dead   == TimedOut \union Unreachable(failing)
              pinged == (Quiet \ failing) \intersect ClientAddresses
          IN  /\ last_seen' = Restrict(last_seen, DOMAIN last_seen \ dead)
              /\ net' = net \union {To("client", c, "k") : c \in pinged}
    /\ UNCHANGED <<buffer, alive, lost>>

Nothing == [from |-> NoAddress, text |-> ""]

\* recvfrom skips corrupted datagrams and fails when there is nothing else.
FirstGood == SelectInSeq(buffer, LAMBDA d : d.from # NoAddress)
recvfrom == IF FirstGood = 0 THEN Nothing ELSE buffer[FirstGood]

\* Mutation of the next definition: only who says something is seen.
Seen_lines(d) == d.text = "m"

Seen(d) == TRUE

\* The rest of the round: the sender is seen, even if there is none, and its
\* line comes back if sendto allows.
ReceiveDatagram ==
    LET d == recvfrom
    IN  /\ readable
        /\ readable' = FALSE
        /\ buffer' = IF FirstGood = 0 THEN << >>
                     ELSE SubSeq(buffer, FirstGood + 1, Len(buffer))
        /\ IF Seen(d)
           THEN /\ last_seen' = [a \in DOMAIN last_seen \union {d.from} |->
                                    IF a = d.from THEN 0 ELSE last_seen[a]]
                /\ lost' = lost \ {d.from}
           ELSE UNCHANGED <<last_seen, lost>>
        /\ \/ d.text = "m" /\ net' = net \union {To("client", d.from, "m")}
           \/ UNCHANGED net
        /\ UNCHANGED <<alive, stalled>>

-----------------------------------------------------------------------------
(* The clients *)

\* A line typed, or the empty one getline returns at the end of its input.
SendLine(c) ==
    /\ c \in alive
    /\ net' = net \union {To("server", c, "m")}
    /\ UNCHANGED <<serverVars, alive, stalled, lost>>

\* A ping goes back as it came; an echo is printed.
Answer(c, text) == IF text = "k" THEN {To("server", c, text)} ELSE {}

\* The network may deliver a datagram again.
Taken(d) == {net, net \ {d}}

ClientReceive(d) ==
    /\ d \in net /\ d.to = "client"
    /\ \E rest \in Taken(d) :
          net' = rest \union
                 IF d.peer \in alive THEN Answer(d.peer, d.text) ELSE {}
    /\ UNCHANGED <<serverVars, alive, stalled, lost>>

Crash(c) ==
    /\ c \in alive
    /\ alive' = alive \ {c}
    /\ UNCHANGED <<serverVars, net, stalled, lost>>

-----------------------------------------------------------------------------
(* The network and time *)

\* d reaches the server's socket, with a checksum that is right or not.
Arrive(d) ==
    /\ d \in net /\ d.to = "server" /\ Len(buffer) < Backlog
    /\ net' \in Taken(d)
    /\ \/ /\ buffer' = Append(buffer, [from |-> d.peer, text |-> d.text])
          /\ UNCHANGED lost
       \/ /\ buffer' = Append(buffer, Nothing)
          /\ lost' = lost \union {d.peer}
    /\ UNCHANGED <<last_seen, readable, alive, stalled>>

Lose(d) ==
    /\ d \in net
    /\ net' = net \ {d}
    /\ lost' = IF d.to = "client" /\ d.text = "m" THEN lost
               ELSE lost \union {d.peer}
    /\ UNCHANGED <<serverVars, alive, stalled>>

Tick ==
    /\ stalled < MaxStall /\ \A d \in net : d.age < MaxDelay
    /\ stalled' = stalled + 1
    /\ last_seen' = [a \in DOMAIN last_seen |->
                        IF last_seen[a] < Old THEN last_seen[a] + 1 ELSE Old]
    /\ net' = {[d EXCEPT !.age = @ + 1] : d \in net}
    /\ UNCHANGED <<readable, buffer, alive, lost>>

Server == handle_keepalive \/ ReceiveDatagram
Network(d) == ClientReceive(d) \/ Arrive(d) \/ Lose(d)

Next ==
    \/ Server
    \/ \E c \in ClientAddresses : SendLine(c) \/ Crash(c)
    \/ \E d \in net : Network(d)
    \/ Tick

Spec == Init /\ [][Next]_vars

\* The server's loop runs, no datagram stays under way, and time passes.
FairSpec ==
    /\ Spec
    /\ WF_vars(Server) /\ WF_vars(Tick)
    /\ \A d \in Datagram : WF_vars(Network(d) /\ net' = net \ {d})

-----------------------------------------------------------------------------
(* Correctness *)

\* The clients a step forgets because they have been silent for too long.
Dropped == {c \in ClientAddresses \intersect TimedOut : c \notin DOMAIN last_seen'}

\* A running client is only dropped as silent when a datagram between the two
\* was lost: one ping and one answer keep it, although the test comes before the
\* read and an answer may be waiting when it is made (hw1/server.cpp:115).
AnsweringStays == [][Dropped \intersect alive \subseteq lost]_vars

\* The zeroed address of a failed recvfrom (hw1/server.cpp:122-131) is gone with
\* the first ping to it, well before TIMEOUT.
NobodyIsBrief ==
    NoAddress \in DOMAIN last_seen => last_seen[NoAddress] <= PingTime + MaxStall

\* A client that has crashed is forgotten in the end, for good: a datagram that
\* comes late enters it anew (hw1/server.cpp:131), but only for another TIMEOUT.
CrashedIsForgotten ==
    \A c \in ClientAddresses : <>(c \notin alive) => <>[](c \notin DOMAIN last_seen)
=============================================================================
