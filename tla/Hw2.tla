--------------------------------- MODULE Hw2 ---------------------------------
(***************************************************************************)
(* The predecessor of hw5: a lobby (hw2/lobby.cpp) that knows one server   *)
(* address, the server (hw2/server.cpp), which tells it and leaves, and    *)
(* clients (hw2/client.cpp) that stay in the lobby when they are sent on.  *)
(*                                                                         *)
(* Every server announces localhost:10889, so there is one at a time; it   *)
(* may crash and be started again.  A client's host has two peers, the     *)
(* first of them for the lobby.  The server tells the lobby's peer by its  *)
(* pointer, and ENet gives the lowest free peer to the next connection.    *)
(*                                                                         *)
(* Packets whose reader only logs them (PlayerList, PlayerListWithPing and *)
(* the server's Time) are left out, and so are the timers they hang on.    *)
(***************************************************************************)
EXTENDS Link, Functions

CONSTANTS
    Clients,
    MaxId,           \* the largest uint16_t, and the bound on the players of one run
    MaxStarts,       \* bound on the lines "start" that are typed
    MaxFailures      \* bound on crashes, and on connections that time out

ASSUME ConstantsAssumption ==
    "server" \notin Clients /\ {MaxId, MaxStarts, MaxFailures} \subseteq Nat

\* A connection, named by the host that asked for it and the peer it uses there.
Peers == {1, 2}
ToLobby == <<"server", 1>>
Connections == (Clients \X Peers) \union {ToLobby}

VARIABLES
    (* lobby *)
    clients_, started_,
    server_address_,     \* whether the port is not 0
    (* server *)
    running,
    lobbyPeer,           \* whether it is not null
    lobbySlot,           \* the connection that uses the peer lobbyPeer points to
    players,             \* clients_ of the server: connection -> id
    next_id,
    (* client *)
    remote,              \* the host at the far end of each connection
    lobbyConnected, serverConnected,
    serverPeer,          \* 0 before the first ServerAddress: not initialised
    typed,               \* lines "start" that StdioThread holds
    gaveUp,              \* clients that returned 1
    (* network, history and bounds *)
    link, starts, failures,
    registrationFailed   \* a server's connect to the lobby failed

lobbyVars == <<clients_, started_, server_address_>>
gameVars == <<running, lobbyPeer, lobbySlot, players, next_id>>
clientVars == <<remote, lobbyConnected, serverConnected, serverPeer, typed, gaveUp>>
bounds == <<starts, failures, registrationFailed>>
hw2Vars == <<lobbyVars, gameVars, clientVars, link, bounds>>

Hw2Init ==
    /\ clients_ = {} /\ started_ = FALSE /\ server_address_ = FALSE
    /\ running = TRUE /\ lobbyPeer = TRUE /\ lobbySlot = ToLobby
    /\ players = << >> /\ next_id = 0
    /\ remote = [k \in Connections |-> IF k[2] = 1 THEN "lobby" ELSE "nobody"]
    /\ lobbyConnected = {} /\ serverConnected = {}
    /\ serverPeer = [c \in Clients |-> 0]
    /\ typed = [c \in Clients |-> 0]
    /\ gaveUp = {}
    /\ link = [k \in Connections |-> IF k[2] = 1 THEN Connecting ELSE NoLink]
    /\ starts = 0 /\ failures = 0 /\ registrationFailed = FALSE

-----------------------------------------------------------------------------
(* Lobby *)

Address == Event("ServerAddress")

LobbyHas(k, type) == remote[k] = "lobby" /\ HeadIs(link[k].out, type)
HeadTaken(k) == [link EXCEPT ![k].out = Tail(@)]

\* Everybody who connects is a client, the server too; a late one is sent on.
LobbyConnect(k) ==
    /\ LobbyHas(k, "CONNECT")
    /\ clients_' = clients_ \union {k}
    /\ LET up == [link[k] EXCEPT !.far = "up", !.out = Tail(@)]
       IN  link' = [link EXCEPT ![k] = IF started_ THEN SendNear(up, Address) ELSE up]
    /\ UNCHANGED <<started_, server_address_, gameVars, clientVars, bounds>>

\* The end of connection k for its far host.
Closed(k) == [link EXCEPT ![k].far = "down", ![k].out = << >>]

LobbyDisconnect(k) ==
    /\ LobbyHas(k, "DISCONNECT")
    /\ clients_' = clients_ \ {k}
    /\ link' = Closed(k)
    /\ UNCHANGED <<started_, server_address_, gameVars, clientVars, bounds>>

LobbyServerAddress(k) ==
    /\ LobbyHas(k, "ServerAddress")
    /\ server_address_' = TRUE
    /\ link' = HeadTaken(k)
    /\ UNCHANGED <<clients_, started_, gameVars, clientVars, bounds>>

\* Mutation of the next definition: started_ is not set
Started_again == started_

\* started_ = true
Started == TRUE

\* A second start, or one before there is a server, is only logged.
LobbyStart(k) ==
    /\ LobbyHas(k, "Start")
    /\ IF ~started_ /\ server_address_
       THEN /\ link' = [j \in Connections |-> IF j \in clients_
                           THEN SendNear(HeadTaken(k)[j], Address) ELSE HeadTaken(k)[j]]
            /\ started_' = Started
       ELSE /\ link' = HeadTaken(k)
            /\ UNCHANGED started_
    /\ UNCHANGED <<clients_, server_address_, gameVars, clientVars, bounds>>

-----------------------------------------------------------------------------
(* Server *)

\* The peer's connection is up for the host that asked for it, and its CONNECT
\* is on the way to the other one.
Established(l) == [l EXCEPT !.near = "up", !.far = "accepting", !.out = <<CONNECT>>]

\* The CONNECT of the lobby: the address is sent and the lobby left.
ServerConnect ==
    /\ running /\ link[ToLobby] = Connecting
    /\ lobbyPeer' = FALSE
    /\ link' = [link EXCEPT ![ToLobby] = CloseNear(SendFar(Established(@), Address))]
    /\ UNCHANGED <<lobbyVars, running, lobbySlot, players, next_id, clientVars, bounds>>

\* The DISCONNECT of that connection, or of a connect that failed, which leaves
\* lobbyPeer as it is.
ServerDisconnect ==
    /\ running /\ link[ToLobby].near \in {"connecting", "up", "closing"}
    /\ HeadIs(link[ToLobby].in, "DISCONNECT") /\ NearMayEnd(link[ToLobby])
    /\ link' = [link EXCEPT ![ToLobby].near = "down", ![ToLobby].in = << >>]
    /\ lobbySlot' = <<"free">>
    /\ registrationFailed' = (registrationFailed \/ link[ToLobby].near = "connecting")
    /\ UNCHANGED <<lobbyVars, running, lobbyPeer, players, next_id, clientVars,
                   starts, failures>>

ServerHas(k, type) == running /\ remote[k] = "server" /\ HeadIs(link[k].out, type)

\* An entry that is there already is kept.
PlayersWith(k, id) ==
    [j \in DOMAIN players \union {k} |-> IF j \in DOMAIN players THEN players[j] ELSE id]

\* A player's CONNECT; one that has come to sit where lobbyPeer points to is
\* taken for the lobby.  Bound: next_id has not come round to 0 again.
PlayerConnect(k) ==
    /\ ServerHas(k, "CONNECT")
    /\ LET up == [link[k] EXCEPT !.far = "up", !.out = Tail(@)]
       IN  IF lobbyPeer /\ lobbySlot = k
           THEN /\ link' = [link EXCEPT ![k] = CloseFar(SendNear(up, Address))]
                /\ lobbyPeer' = FALSE
                /\ UNCHANGED <<players, next_id>>
           ELSE /\ next_id < MaxId
                /\ link' = [link EXCEPT ![k] = up]
                /\ players' = PlayersWith(k, next_id)
                /\ next_id' = next_id + 1
                /\ UNCHANGED lobbyPeer
    /\ UNCHANGED <<lobbyVars, running, lobbySlot, clientVars, bounds>>

\* Mutation of the next definition: the player is not erased
PlayersWithout_kept(k) == players

PlayersWithout(k) == Restrict(players, DOMAIN players \ {k})

PlayerDisconnect(k) ==
    /\ ServerHas(k, "DISCONNECT") /\ FarMayEnd(link[k])
    /\ players' = PlayersWithout(k)
    /\ link' = Closed(k)
    /\ lobbySlot' = IF lobbySlot = k THEN <<"free">> ELSE lobbySlot
    /\ UNCHANGED <<lobbyVars, running, lobbyPeer, next_id, clientVars, bounds>>

\* clients_[event.peer] makes an entry where there is none.  Start, from a
\* client that takes the server for the lobby, is only logged.
PlayerPacket(k) ==
    /\ ServerHas(k, "Time") \/ ServerHas(k, "Start")
    /\ link[k].far = "up"
    /\ players' = IF HeadIs(link[k].out, "Time") THEN PlayersWith(k, 0) ELSE players
    /\ link' = HeadTaken(k)
    /\ UNCHANGED <<lobbyVars, running, lobbyPeer, lobbySlot, next_id, clientVars, bounds>>

\* The process dies, and is started again after the lobby has noticed.
ServerCrash ==
    /\ running /\ failures < MaxFailures /\ failures' = failures + 1
    /\ running' = FALSE
    /\ players' = << >> /\ next_id' = 0
    /\ link' = [k \in Connections |->
                   IF k = ToLobby THEN DestroyNear(link[k])
                   ELSE IF remote[k] = "server" /\ link[k].far # "none"
                   THEN Closed(k)[k] ELSE link[k]]
    /\ UNCHANGED <<lobbyVars, lobbyPeer, lobbySlot, clientVars, starts,
                   registrationFailed>>

ServerRestart ==
    /\ ~running /\ link[ToLobby].far \in {"none", "down"}
    /\ running' = TRUE /\ lobbyPeer' = TRUE /\ lobbySlot' = ToLobby
    /\ link' = [link EXCEPT ![ToLobby] = Connecting]
    /\ UNCHANGED <<lobbyVars, players, next_id, clientVars, bounds>>

-----------------------------------------------------------------------------
(* Client *)

\* A CONNECT: the lobby's if it comes from the first peer.  At the server's host
\* the lowest free peer is taken.
ClientConnect(k) ==
    /\ k[1] \in Clients /\ link[k] = Connecting /\ (remote[k] = "server" => running)
    /\ link' = [link EXCEPT ![k] = Established(@)]
    /\ IF k[2] = 1
       THEN lobbyConnected' = lobbyConnected \union {k[1]} /\ UNCHANGED serverConnected
       ELSE serverConnected' = serverConnected \union {k[1]} /\ UNCHANGED lobbyConnected
    /\ lobbySlot' = IF remote[k] = "server" /\ lobbySlot = <<"free">> THEN k
                    ELSE lobbySlot
    /\ UNCHANGED <<lobbyVars, running, lobbyPeer, players, next_id, remote,
                   serverPeer, typed, gaveUp, bounds>>

FreePeers(c, l) == {i \in Peers : l[<<c, i>>].near \in {"none", "down"}}

\* Mutation of the next definition: the address is only noted
ConnectToServer_idle(c, l) ==
    link' = l /\ UNCHANGED <<remote, serverPeer, gaveUp>>

\* enet_host_connect takes the lowest free peer; without one the client gives up.
ConnectToServer(c, l) ==
    IF FreePeers(c, l) = {}
    THEN /\ link' = [k \in Connections |-> IF k[1] = c THEN DestroyNear(l[k]) ELSE l[k]]
         /\ gaveUp' = gaveUp \union {c}
         /\ UNCHANGED <<remote, serverPeer>>
    ELSE LET i == CHOOSE i \in FreePeers(c, l) : \A j \in FreePeers(c, l) : i <= j
         IN  /\ link' = [l EXCEPT ![<<c, i>>] = Connecting]
             /\ remote' = [remote EXCEPT ![<<c, i>>] = "server"]
             /\ serverPeer' = [serverPeer EXCEPT ![c] = i]
             /\ UNCHANGED gaveUp

ClientServerAddress(k) ==
    /\ k[1] \in Clients /\ link[k].near = "up" /\ HeadIs(link[k].in, "ServerAddress")
    /\ ConnectToServer(k[1], [link EXCEPT ![k].in = Tail(@)])
    /\ UNCHANGED <<lobbyVars, gameVars, lobbyConnected, serverConnected, typed, bounds>>

\* The client has no case for a DISCONNECT.
ClientDisconnect(k) ==
    /\ k[1] \in Clients /\ link[k].near \in {"connecting", "up"}
    /\ HeadIs(link[k].in, "DISCONNECT")
    /\ link' = [link EXCEPT ![k].near = "down", ![k].in = << >>]
    /\ UNCHANGED <<lobbyVars, gameVars, clientVars, bounds>>

TypeStart(c) ==
    /\ c \notin gaveUp /\ starts < MaxStarts /\ starts' = starts + 1
    /\ typed' = [typed EXCEPT ![c] = @ + 1]
    /\ UNCHANGED <<lobbyVars, gameVars, remote, lobbyConnected, serverConnected,
                   serverPeer, gaveUp, link, failures, registrationFailed>>

\* Lines wait in StdioThread until the client is connected to the lobby; then
\* they go to the first peer, whatever has become of it.
SendStart(c) ==
    /\ c \in lobbyConnected \ gaveUp /\ typed[c] > 0
    /\ typed' = [typed EXCEPT ![c] = @ - 1]
    /\ link' = [link EXCEPT ![<<c, 1>>] = SendFar(@, Event("Start"))]
    /\ UNCHANGED <<lobbyVars, gameVars, remote, lobbyConnected, serverConnected,
                   serverPeer, gaveUp, bounds>>

\* Every 10 s, unreliable.  Bound: one on its way.
SendTime(c) ==
    /\ c \in serverConnected \ gaveUp
    /\ LET k == <<c, serverPeer[c]>>
       IN  /\ Event("Time") \notin Range(link[k].out)
           /\ link' = [link EXCEPT ![k] = SendFar(@, Event("Time"))]
    /\ UNCHANGED <<lobbyVars, gameVars, clientVars, bounds>>

-----------------------------------------------------------------------------
(* Time-outs *)

LinkFails(k) ==
    /\ failures < MaxFailures /\ failures' = failures + 1
    /\ \E broken \in Broken(link[k]) \ {link[k]} : link' = [link EXCEPT ![k] = broken]
    /\ UNCHANGED <<lobbyVars, gameVars, clientVars, starts, registrationFailed>>

\* The far end of a dead client, the near end of a dead server, and a connect
\* nobody answers.
TimeOut(k) ==
    /\ \/ \E abandoned \in Abandoned(link[k]) : link' = [link EXCEPT ![k] = abandoned]
       \/ /\ link[k].near = "up" /\ link[k].far = "down" /\ ~Ended(link[k].in)
          /\ \E in \in CutShort(link[k].in) : link' = [link EXCEPT ![k].in = in]
       \/ /\ link[k] = Connecting /\ remote[k] = "server" /\ ~running
          /\ link' = [link EXCEPT ![k].in = <<DISCONNECT>>]
    /\ UNCHANGED <<lobbyVars, gameVars, clientVars, bounds>>

-----------------------------------------------------------------------------
LobbyStep(k) ==
    LobbyConnect(k) \/ LobbyDisconnect(k) \/ LobbyServerAddress(k) \/ LobbyStart(k)

ServerStep(k) ==
    \/ k = ToLobby /\ (ServerConnect \/ ServerDisconnect)
    \/ PlayerConnect(k) \/ PlayerDisconnect(k) \/ PlayerPacket(k)

ClientStep(c) ==
    \/ \E k \in {c} \X Peers :
          ClientConnect(k) \/ ClientServerAddress(k) \/ ClientDisconnect(k)
    \/ SendStart(c)

Hw2Next ==
    \/ \E k \in Connections : LobbyStep(k) \/ ServerStep(k) \/ LinkFails(k) \/ TimeOut(k)
    \/ ServerCrash \/ ServerRestart
    \/ \E c \in Clients : ClientStep(c) \/ TypeStart(c) \/ SendTime(c)

Hw2Spec == Hw2Init /\ [][Hw2Next]_hw2Vars

\* Every program serves its host, which takes its peers in turn; failures,
\* typing and restarts are not fair.
FairHw2Spec ==
    /\ Hw2Spec
    /\ \A k \in Connections :
          WF_hw2Vars(LobbyStep(k)) /\ WF_hw2Vars(ServerStep(k)) /\ WF_hw2Vars(TimeOut(k))
    /\ \A c \in Clients : WF_hw2Vars(ClientStep(c))

-----------------------------------------------------------------------------
(* Correctness *)

Hw2TypeOK ==
    /\ clients_ \subseteq Connections /\ DOMAIN players \subseteq Connections
    /\ \A k \in DOMAIN players : players[k] \in 0..MaxId
    /\ next_id \in 0..MaxId
    /\ {started_, server_address_, running, lobbyPeer, registrationFailed} \subseteq BOOLEAN
    /\ lobbySlot \in Connections \union {<<"free">>}
    /\ remote \in [Connections -> {"nobody", "lobby", "server"}]
    /\ lobbyConnected \union serverConnected \union gaveUp \subseteq Clients
    /\ serverPeer \in [Clients -> 0..2] /\ typed \in [Clients -> 0..MaxStarts]
    /\ \A k \in Connections : link[k].near \in EndState /\ link[k].far \in EndState

\* A client is told of the server once, so that its second peer is enough and it
\* does not end with "Cannot connect to server" (hw2/client.cpp:112), whether it
\* came before the start or after it, and whoever types start how often.  The
\* exception: the server's connect to the lobby failed, lobbyPeer was kept
\* (hw2/server.cpp:74) and a player was taken for the lobby.
NobodyGivesUp == gaveUp # {} => registrationFailed

\* The server's clients_ holds the players who are connected and no others: the
\* clients_[event.peer] of hw2/server.cpp:101 never makes a player up, and no id is
\* left behind under a peer ENet uses again.
PlayersAreLive ==
    /\ \A k \in DOMAIN players : remote[k] = "server" /\ link[k].far = "up"
    /\ \A j, k \in DOMAIN players : players[j] = players[k] => j = k

\* Whoever is in the lobby once it has started gets to the server, early or late
\* (hw2/lobby.cpp:35 and 64), unless something fails.
StartedArrives ==
    \A c \in Clients :
        started_ /\ <<c, 1>> \in clients_ ~>
            failures > 0 \/ <<c, 2>> \in DOMAIN players
=============================================================================
