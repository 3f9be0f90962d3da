----------------------------- MODULE Matchmaking -----------------------------
(***************************************************************************)
(* How players, lobby and game servers find and leave each other:          *)
(* hw5/lobby.cpp, the connection handling of hw5/server.cpp and            *)
(* hw5/client.cpp, and Service::poll's treatment of CONNECT and DISCONNECT *)
(* events with its maps pending_connect_ and pending_disconnect_.          *)
(*                                                                         *)
(* A client is one run of the client program, which connects once to the   *)
(* lobby and at most once to a server.  Peers are ENetPeer pointers, that  *)
(* is slots of a host's peer array, which ENet uses again; they are        *)
(* modelled at the servers, where connections come and go in both          *)
(* directions.  The packets of a running game are left to Session and      *)
(* SnapshotSync.                                                           *)
(***************************************************************************)
EXTENDS Link, FiniteSets

CONSTANTS
    Clients, Servers,
    PeerCount,        \* peers of a server's host (32 in the code)
    MaxBegins,        \* bound on the number of /begin commands
    MaxEscapes,       \* bound on the ESC presses and /exit commands of a client
    MaxFailures       \* bound on the number of connections that time out

\* What a slot of a server's peer array holds other than a client.
LobbyUse == {"free", "to lobby", "leaving lobby"}

ASSUME PeerCountAssumption == PeerCount \in Nat \ {0}
ASSUME BoundsAssumption == {MaxBegins, MaxEscapes, MaxFailures} \subseteq Nat
ASSUME NamesAssumption ==
    Clients \cap LobbyUse = {} /\ "nobody" \notin Servers

Slots == 1..PeerCount

RegisterClientInLobby == Event("RegisterClientInLobby")
RegisterServerInLobby == Event("RegisterServerInLobby")
StartLobby == Event("StartLobby")

\* Mutation of the next definition: the address is left as constructed.
LobbyStarted_default(server) == [type |-> "LobbyStarted", serverAddress |-> "unset"]

LobbyStarted(server) == [type |-> "LobbyStarted", serverAddress |-> server]

VARIABLES
    (* lobby *)
    clients_,             \* the registered clients
    servers_,             \* addresses of the registered servers
    registrations,        \* per server, PRegisterServerInLobby in flight
    (* client *)
    lobby_link,           \* the connection to the lobby
    game_link,            \* the connection to a server ...
    game_server,          \* ... and which server that is
    lobby_peer_,          \* lobby_peer_ != nullptr
    server_peer_,         \* server_peer_ != nullptr
    stop_on_disconnect,   \* links with close's callback in pending_disconnect_
    shouldStop_,
    exited,               \* run() has returned
    (* server *)
    peers,                \* what each slot is used for
    players,              \* the keys of ServerService::clients_
    pending_connect_,     \* slots, with registerInLobby's callback
    pending_disconnect_,  \* slots, with a callback that does nothing
    aborted,              \* NG_VERIFY(lobby != nullptr) failed
    (* history and bounds *)
    pressedESC,           \* the clients whose player pressed ESC
    escapes, begins, failures

lobbyVars == <<clients_, servers_, registrations>>
linkVars == <<lobby_link, game_link>>
clientVars == <<game_server, lobby_peer_, server_peer_, stop_on_disconnect,
                shouldStop_, exited>>
serverVars == <<peers, players, pending_connect_, pending_disconnect_, aborted>>
userVars == <<pressedESC, escapes, begins>>
vars == <<lobbyVars, linkVars, clientVars, serverVars, userVars, failures>>

\* Both kinds of program start with a connection to the lobby.
Init ==
    /\ clients_ = {}
    /\ servers_ = << >>
    /\ registrations = [s \in Servers |-> 0]
    /\ lobby_link = [c \in Clients |-> Connecting]
    /\ game_link = [c \in Clients |-> NoLink]
    /\ game_server = [c \in Clients |-> "nobody"]
    /\ lobby_peer_ = [c \in Clients |-> FALSE]
    /\ server_peer_ = [c \in Clients |-> FALSE]
    /\ stop_on_disconnect = [c \in Clients |-> {}]
    /\ shouldStop_ = [c \in Clients |-> FALSE]
    /\ exited = [c \in Clients |-> FALSE]
    /\ peers = [s \in Servers |-> [slot \in Slots |->
                                     IF slot = 1 THEN "to lobby" ELSE "free"]]
    /\ players = [s \in Servers |-> {}]
    /\ pending_connect_ = [s \in Servers |-> {1}]
    /\ pending_disconnect_ = [s \in Servers |-> {}]
    /\ aborted = [s \in Servers |-> FALSE]
    /\ pressedESC = {}
    /\ escapes = [c \in Clients |-> 0]
    /\ begins = 0 /\ failures = 0

-----------------------------------------------------------------------------
(* The player *)

\* /begin, or the B key.
begin(c) ==
    /\ ~shouldStop_[c] /\ begins < MaxBegins
    /\ begins' = begins + 1
    /\ lobby_peer_[c]
    /\ lobby_link' = [lobby_link EXCEPT ![c] = SendFar(@, StartLobby)]
    /\ UNCHANGED <<lobbyVars, game_link, clientVars, serverVars, failures,
                   pressedESC, escapes>>

close(c) ==
    IF server_peer_[c]
    THEN /\ game_link' = [game_link EXCEPT ![c] = CloseNear(@)]
         /\ server_peer_' = [server_peer_ EXCEPT ![c] = FALSE]
         /\ stop_on_disconnect' = [stop_on_disconnect EXCEPT ![c] = @ \union {"game"}]
         /\ UNCHANGED <<lobby_link, lobby_peer_, shouldStop_>>
    ELSE IF lobby_peer_[c]
    THEN /\ lobby_link' = [lobby_link EXCEPT ![c] = CloseNear(@)]
         /\ lobby_peer_' = [lobby_peer_ EXCEPT ![c] = FALSE]
         /\ stop_on_disconnect' = [stop_on_disconnect EXCEPT ![c] = @ \union {"lobby"}]
         /\ UNCHANGED <<game_link, server_peer_, shouldStop_>>
    ELSE /\ shouldStop_' = [shouldStop_ EXCEPT ![c] = TRUE]
         /\ UNCHANGED <<linkVars, lobby_peer_, server_peer_, stop_on_disconnect>>

keyDownESC(c) ==
    /\ ~shouldStop_[c] /\ escapes[c] < MaxEscapes
    /\ escapes' = [escapes EXCEPT ![c] = @ + 1]
    /\ pressedESC' = pressedESC \union {c}
    /\ close(c)
    /\ UNCHANGED <<lobbyVars, game_server, exited, serverVars, begins, failures>>

handleLineExit(c) ==
    /\ ~shouldStop_[c] /\ escapes[c] < MaxEscapes
    /\ escapes' = [escapes EXCEPT ![c] = @ + 1]
    /\ IF server_peer_[c] THEN close(c)
       ELSE UNCHANGED <<linkVars, lobby_peer_, server_peer_, stop_on_disconnect,
                        shouldStop_>>
    /\ UNCHANGED <<lobbyVars, game_server, exited, serverVars, pressedESC, begins,
                   failures>>

\* while (!shouldStop_): the iteration that set it still ends with a poll.
Exit(c) ==
    /\ shouldStop_[c] /\ ~exited[c]
    /\ exited' = [exited EXCEPT ![c] = TRUE]
    /\ lobby_link' = [lobby_link EXCEPT ![c] = DestroyNear(@)]
    /\ game_link' = [game_link EXCEPT ![c] = DestroyNear(@)]
    /\ UNCHANGED <<lobbyVars, game_server, lobby_peer_, server_peer_,
                   stop_on_disconnect, shouldStop_, serverVars, userVars, failures>>

-----------------------------------------------------------------------------
(* Client: Service::poll *)

\* Mutation of the next definition: the client does not register
Registered_not(link) == [link EXCEPT !.near = "up", !.far = "up"]

\* The connection is up, and the first packet on it is the registration.
Registered(link) ==
    SendFar([link EXCEPT !.near = "up", !.far = "up"], RegisterClientInLobby)

\* joinLobby's callback.
ConnectedToLobby(c) ==
    /\ lobby_link[c] = Connecting
    /\ lobby_link' = [lobby_link EXCEPT ![c] = Registered(@)]
    /\ lobby_peer_' = [lobby_peer_ EXCEPT ![c] = TRUE]
    /\ UNCHANGED <<lobbyVars, game_link, game_server, server_peer_,
                   stop_on_disconnect, shouldStop_, exited, serverVars, userVars,
                   failures>>

\* Mutation of the next definition: the client stays in the lobby
Left_stays(link) == [link EXCEPT !.in = Tail(@)]

\* The packet is taken and the lobby left.
Left(link) == CloseNear([link EXCEPT !.in = Tail(@)])

\* Mutation of the next definition: the address is noted, nothing else
ConnectTo_idle(c, server) ==
    /\ game_server' = [game_server EXCEPT ![c] = server]
    /\ UNCHANGED game_link

ConnectTo(c, server) ==
    /\ game_server' = [game_server EXCEPT ![c] = server]
    /\ game_link' = [game_link EXCEPT ![c] = Connecting]

\* Leave the lobby and connect to the server it names.
HandleLobbyStarted(c) ==
    /\ lobby_link[c].near = "up" /\ HeadIs(lobby_link[c].in, "LobbyStarted")
    /\ lobby_link' = [lobby_link EXCEPT ![c] = Left(@)]
    /\ lobby_peer_' = [lobby_peer_ EXCEPT ![c] = FALSE]
    /\ ConnectTo(c, Head(lobby_link[c].in).serverAddress)
    /\ UNCHANGED <<lobbyVars, server_peer_, stop_on_disconnect, shouldStop_, exited,
                   serverVars, userVars, failures>>

\* The callback of that connect.
ConnectedToServer(c) ==
    /\ game_link[c].near = "connecting" /\ game_link[c].far = "accepting"
    /\ game_link[c].in = << >>
    /\ game_link' = [game_link EXCEPT ![c].near = "up",
                                      ![c].out = Append(@, CONNECT)]
    /\ server_peer_' = [server_peer_ EXCEPT ![c] = TRUE]
    /\ UNCHANGED <<lobbyVars, lobby_link, game_server, lobby_peer_,
                   stop_on_disconnect, shouldStop_, exited, serverVars, userVars,
                   failures>>

\* The client has no handler for this packet: Service's default one logs it.
HandleUnsupported(c) ==
    /\ game_link[c].near = "up"
    /\ HeadIs(game_link[c].in, "RegisterServerInLobby")
    /\ game_link' = [game_link EXCEPT ![c].in = Tail(@)]
    /\ UNCHANGED <<lobbyVars, lobby_link, clientVars, serverVars, userVars, failures>>

\* Mutation of the next definition: the callback is erased and not called
CallBack_dropped(c, name) == UNCHANGED shouldStop_

\* close's callback, if it is waiting under this peer.
CallBack(c, name) ==
    shouldStop_' = [shouldStop_ EXCEPT ![c] = @ \/ name \in stop_on_disconnect[c]]

\* A DISCONNECT.  Where no callback waits, disconnected() is called, which the
\* client leaves to Service's default: it only logs.
Disconnected(c, name, link) ==
    /\ link.near \in {"connecting", "up", "closing"}
    /\ HeadIs(link.in, "DISCONNECT") /\ NearMayEnd(link)
    /\ CallBack(c, name)
    /\ stop_on_disconnect' = [stop_on_disconnect EXCEPT ![c] = @ \ {name}]
    /\ UNCHANGED <<lobbyVars, game_server, lobby_peer_, server_peer_, exited,
                   serverVars, userVars, failures>>

DisconnectedFromLobby(c) ==
    /\ Disconnected(c, "lobby", lobby_link[c])
    /\ lobby_link' = [lobby_link EXCEPT ![c].near = "down", ![c].in = << >>]
    /\ UNCHANGED game_link

DisconnectedFromServer(c) ==
    /\ Disconnected(c, "game", game_link[c])
    /\ game_link' = [game_link EXCEPT ![c].near = "down", ![c].in = << >>]
    /\ UNCHANGED lobby_link

-----------------------------------------------------------------------------
(* Lobby: Service::poll *)

HandleRegisterClientInLobby(c) ==
    /\ HeadIs(lobby_link[c].out, "RegisterClientInLobby")
    /\ clients_' = clients_ \union {c}
    /\ lobby_link' = [lobby_link EXCEPT ![c].out = Tail(@)]
    /\ UNCHANGED <<servers_, registrations, game_link, clientVars, serverVars,
                   userVars, failures>>

HandleRegisterServerInLobby(s) ==
    /\ registrations[s] > 0
    /\ registrations' = [registrations EXCEPT ![s] = @ - 1]
    /\ servers_' = Append(servers_, s)
    /\ UNCHANGED <<clients_, linkVars, clientVars, serverVars, userVars, failures>>

HandleStartLobby(c) ==
    /\ HeadIs(lobby_link[c].out, "StartLobby")
    /\ LET taken == [lobby_link EXCEPT ![c].out = Tail(@)]
       IN  IF servers_ = << >>
           THEN /\ lobby_link' = taken
                /\ UNCHANGED servers_
           ELSE /\ servers_' = Tail(servers_)
                /\ lobby_link' = [d \in Clients |->
                       IF d \in clients_
                       THEN SendNear(taken[d], LobbyStarted(Head(servers_)))
                       ELSE taken[d]]
    /\ UNCHANGED <<clients_, registrations, game_link, clientVars, serverVars,
                   userVars, failures>>

ClientsWithout(c) == clients_ \ {c}

LobbyDisconnected(c) ==
    /\ HeadIs(lobby_link[c].out, "DISCONNECT")
    /\ clients_' = ClientsWithout(c)
    /\ lobby_link' = [lobby_link EXCEPT ![c].far = "down", ![c].out = << >>]
    /\ UNCHANGED <<servers_, registrations, game_link, clientVars, serverVars,
                   userVars, failures>>

-----------------------------------------------------------------------------
(* Server: Service::poll *)

FreeSlots(used) == {slot \in Slots : used[slot] = "free"}

\* connect: the new peer takes the lowest free slot; without one the callback
\* gets a null pointer.  emplace keeps an entry that is already there.
registerInLobby(s, used) ==
    IF FreeSlots(used) = {}
    THEN /\ aborted' = [aborted EXCEPT ![s] = TRUE]
         /\ peers' = [peers EXCEPT ![s] = used]
         /\ UNCHANGED pending_connect_
    ELSE LET slot == Min(FreeSlots(used))
         IN  /\ peers' = [peers EXCEPT ![s] = [used EXCEPT ![slot] = "to lobby"]]
             /\ pending_connect_' = [pending_connect_ EXCEPT ![s] = @ \union {slot}]
             /\ UNCHANGED aborted

\* Mutation of the next definition: nothing is sent to the lobby
Registering_mute(s) == registrations

Registering(s) == [registrations EXCEPT ![s] = @ + 1]

\* registerInLobby's callback, run by poll on the CONNECT from the lobby.
ServerConnectedToLobby(s, slot) ==
    /\ peers[s][slot] = "to lobby"
    /\ registrations' = Registering(s)
    /\ peers' = [peers EXCEPT ![s][slot] = "leaving lobby"]
    /\ pending_connect_' = [pending_connect_ EXCEPT ![s] = @ \ {slot}]
    /\ pending_disconnect_' = [pending_disconnect_ EXCEPT ![s] = @ \union {slot}]
    /\ UNCHANGED <<clients_, servers_, linkVars, clientVars, players, aborted,
                   userVars, failures>>

\* Mutation of the next definition: the callback is not erased
CalledBack_kept(s, slot) == pending_disconnect_

\* The callback waiting under this peer is called, which does nothing, and erased.
CalledBack(s, slot) == [pending_disconnect_ EXCEPT ![s] = @ \ {slot}]

ServerLeftLobby(s, slot) ==
    /\ peers[s][slot] = "leaving lobby"
    /\ peers' = [peers EXCEPT ![s][slot] = "free"]
    /\ pending_disconnect_' = CalledBack(s, slot)
    /\ UNCHANGED <<lobbyVars, linkVars, clientVars, players, pending_connect_,
                   aborted, userVars, failures>>

\* ENet answers a client that wants to connect.
Accept(s, c) ==
    /\ game_server[c] = s
    /\ game_link[c] = Connecting
    /\ FreeSlots(peers[s]) # {}
    /\ peers' = [peers EXCEPT ![s][Min(FreeSlots(peers[s]))] = c]
    /\ game_link' = [game_link EXCEPT ![c].far = "accepting"]
    /\ UNCHANGED <<lobbyVars, lobby_link, clientVars, players, pending_connect_,
                   pending_disconnect_, aborted, userVars, failures>>

\* A CONNECT goes to the callback waiting under its peer, if there is one:
\* here that is registerInLobby's.
PlayerTakenForLobby(s, slot) ==
    LET c == peers[s][slot]
    IN  /\ c \in Clients /\ HeadIs(game_link[c].out, "CONNECT")
        /\ slot \in pending_connect_[s]
        /\ game_link' = [game_link EXCEPT ![c] =
               CloseFar(SendNear([@ EXCEPT !.far = "up"], RegisterServerInLobby))]
        /\ pending_connect_' = [pending_connect_ EXCEPT ![s] = @ \ {slot}]
        /\ pending_disconnect_' = [pending_disconnect_ EXCEPT ![s] = @ \union {slot}]
        /\ UNCHANGED <<lobbyVars, lobby_link, clientVars, peers, players, aborted,
                       userVars, failures>>

\* connected(): the player joins the game.
PlayerConnected(s, slot) ==
    LET c == peers[s][slot]
    IN  /\ c \in Clients /\ HeadIs(game_link[c].out, "CONNECT")
        /\ slot \notin pending_connect_[s]
        /\ game_link' = [game_link EXCEPT ![c].far = "up", ![c].out = Tail(@)]
        /\ players' = [players EXCEPT ![s] = @ \union {slot}]
        /\ UNCHANGED <<lobbyVars, lobby_link, clientVars, peers, pending_connect_,
                       pending_disconnect_, aborted, userVars, failures>>

\* ENet frees the slot of a peer whose CONNECT was never handled.
PlayerForgotten(s, slot) ==
    LET c == peers[s][slot]
    IN  /\ c \in Clients /\ HeadIs(game_link[c].out, "DISCONNECT")
        /\ game_link[c].far = "accepting"
        /\ game_link' = [game_link EXCEPT ![c].far = "down", ![c].out = << >>]
        /\ peers' = [peers EXCEPT ![s][slot] = "free"]
        /\ UNCHANGED <<lobbyVars, lobby_link, clientVars, players, pending_connect_,
                       pending_disconnect_, aborted, userVars, failures>>

\* ENet resets the peer before it returns the DISCONNECT.
Vacated(s, slot) == [peers[s] EXCEPT ![slot] = "free"]

\* Mutation of the next definition: the player stays in clients_
Remaining_all(s, slot) == players[s]

\* clients_.erase(it)
Remaining(s, slot) == players[s] \ {slot}

\* The pending callback, which does nothing, or disconnected(): the last player
\* to leave sends the server back to the lobby.
PlayerDisconnected(s, slot) ==
    LET c    == peers[s][slot]
        used == Vacated(s, slot)
        left == Remaining(s, slot)
    IN  /\ c \in Clients /\ HeadIs(game_link[c].out, "DISCONNECT")
        /\ game_link[c].far \in {"up", "closing"} /\ FarMayEnd(game_link[c])
        /\ game_link' = [game_link EXCEPT ![c].far = "down", ![c].out = << >>]
        /\ pending_disconnect_' = CalledBack(s, slot)
        /\ IF slot \in pending_disconnect_[s] \/ slot \notin players[s]
           THEN /\ peers' = [peers EXCEPT ![s] = used]
                /\ UNCHANGED <<players, pending_connect_, aborted>>
           ELSE /\ players' = [players EXCEPT ![s] = left]
                /\ IF left = {} THEN registerInLobby(s, used)
                   ELSE /\ peers' = [peers EXCEPT ![s] = used]
                        /\ UNCHANGED <<pending_connect_, aborted>>
        /\ UNCHANGED <<lobbyVars, lobby_link, clientVars, userVars, failures>>

-----------------------------------------------------------------------------
(* Time-outs *)

LobbyLinkFails(c) ==
    /\ failures < MaxFailures /\ failures' = failures + 1
    /\ \E broken \in Broken(lobby_link[c]) \ {lobby_link[c]} :
          lobby_link' = [lobby_link EXCEPT ![c] = broken]
    /\ UNCHANGED <<lobbyVars, game_link, clientVars, serverVars, userVars>>

GameLinkFails(c) ==
    /\ failures < MaxFailures /\ failures' = failures + 1
    /\ \E broken \in Broken(game_link[c]) \ {game_link[c]} :
          game_link' = [game_link EXCEPT ![c] = broken]
    /\ UNCHANGED <<lobbyVars, lobby_link, clientVars, serverVars, userVars>>

\* The server's connect to the lobby raises a DISCONNECT, which finds nothing
\* in pending_disconnect_ and nobody in clients_.
RegistrationFails(s, slot) ==
    /\ failures < MaxFailures /\ failures' = failures + 1
    /\ peers[s][slot] = "to lobby"
    /\ peers' = [peers EXCEPT ![s][slot] = "free"]
    /\ UNCHANGED <<lobbyVars, linkVars, clientVars, players, pending_connect_,
                   pending_disconnect_, aborted, userVars>>

\* Connected, but the registration does not get through.
RegistrationLost(s, slot) ==
    /\ failures < MaxFailures /\ failures' = failures + 1
    /\ peers[s][slot] = "leaving lobby" /\ registrations[s] > 0
    /\ registrations' = [registrations EXCEPT ![s] = @ - 1]
    /\ peers' = [peers EXCEPT ![s][slot] = "free"]
    /\ pending_disconnect_' = CalledBack(s, slot)
    /\ UNCHANGED <<clients_, servers_, linkVars, clientVars, players,
                   pending_connect_, aborted, userVars>>

\* A client that has exited no longer answers.
LobbyTimesOut(c) ==
    /\ \E abandoned \in Abandoned(lobby_link[c]) :
          lobby_link' = [lobby_link EXCEPT ![c] = abandoned]
    /\ UNCHANGED <<lobbyVars, game_link, clientVars, serverVars, userVars, failures>>

GameTimesOut(c) ==
    /\ \E abandoned \in Abandoned(game_link[c]) :
          game_link' = [game_link EXCEPT ![c] = abandoned]
    /\ UNCHANGED <<lobbyVars, lobby_link, clientVars, serverVars, userVars, failures>>

\* A server without a free slot does not answer.
NoSlotTimesOut(c) ==
    /\ game_link[c] = Connecting
    /\ FreeSlots(peers[game_server[c]]) = {}
    /\ game_link' = [game_link EXCEPT ![c].in = <<DISCONNECT>>]
    /\ UNCHANGED <<lobbyVars, lobby_link, clientVars, serverVars, userVars, failures>>

-----------------------------------------------------------------------------
User == \E c \in Clients : begin(c) \/ keyDownESC(c) \/ handleLineExit(c)

ClientStep(c) ==
    \/ Exit(c)
    \/ ConnectedToLobby(c)
    \/ HandleLobbyStarted(c)
    \/ ConnectedToServer(c)
    \/ HandleUnsupported(c)
    \/ DisconnectedFromLobby(c)
    \/ DisconnectedFromServer(c)

LobbyStep ==
    \/ \E c \in Clients : \/ HandleRegisterClientInLobby(c)
                          \/ HandleStartLobby(c)
                          \/ LobbyDisconnected(c)
    \/ \E s \in Servers : HandleRegisterServerInLobby(s)

ServerStep(s) ==
    \/ \E slot \in Slots : \/ ServerConnectedToLobby(s, slot)
                           \/ ServerLeftLobby(s, slot)
                           \/ PlayerTakenForLobby(s, slot)
                           \/ PlayerConnected(s, slot)
                           \/ PlayerForgotten(s, slot)
                           \/ PlayerDisconnected(s, slot)
    \/ \E c \in Clients : Accept(s, c)

Failure ==
    \/ \E c \in Clients : LobbyLinkFails(c) \/ GameLinkFails(c)
    \/ \E s \in Servers, slot \in Slots : \/ RegistrationFails(s, slot)
                                          \/ RegistrationLost(s, slot)

\* Time-outs that are bound to happen.
TimeOut ==
    \E c \in Clients : LobbyTimesOut(c) \/ GameTimesOut(c) \/ NoSlotTimesOut(c)

Next ==
    \/ User
    \/ \E c \in Clients : ClientStep(c)
    \/ LobbyStep
    \/ \E s \in Servers : ServerStep(s)
    \/ Failure
    \/ TimeOut

Spec == Init /\ [][Next]_vars

\* Every program polls its host in each iteration of its loop, and ENet gives
\* up on a peer that does not answer.  Players and failures are not fair.
FairSpec ==
    /\ Spec
    /\ \A c \in Clients : WF_vars(ClientStep(c))
    /\ WF_vars(LobbyStep)
    /\ \A s \in Servers : WF_vars(ServerStep(s))
    /\ WF_vars(TimeOut)

-----------------------------------------------------------------------------
IsLink(link) ==
    /\ DOMAIN link = {"near", "far", "in", "out"}
    /\ link.near \in EndState /\ link.far \in EndState
    /\ \A inbox \in {link.in, link.out} :
          \A n \in 1..Len(inbox) : inbox[n] = DISCONNECT => n = Len(inbox)

TypeOK ==
    /\ clients_ \subseteq Clients /\ servers_ \in Seq(Servers)
    /\ registrations \in [Servers -> Nat]
    /\ \A c \in Clients : IsLink(lobby_link[c]) /\ IsLink(game_link[c])
    /\ game_server \in [Clients -> Servers \union {"nobody"}]
    /\ lobby_peer_ \in [Clients -> BOOLEAN]
    /\ server_peer_ \in [Clients -> BOOLEAN]
    /\ stop_on_disconnect \in [Clients -> SUBSET {"lobby", "game"}]
    /\ shouldStop_ \in [Clients -> BOOLEAN] /\ exited \in [Clients -> BOOLEAN]
    /\ peers \in [Servers -> [Slots -> Clients \union LobbyUse]]
    /\ players \in [Servers -> SUBSET Slots]
    /\ pending_connect_ \in [Servers -> SUBSET Slots]
    /\ pending_disconnect_ \in [Servers -> SUBSET Slots]
    /\ aborted \in [Servers -> BOOLEAN]
    /\ pressedESC \subseteq Clients
    /\ escapes \in [Clients -> 0..MaxEscapes]
    /\ begins \in 0..MaxBegins /\ failures \in 0..MaxFailures

\* disconnect(std::exchange(lobby_peer_, nullptr), ...) is never given a null
\* peer: whatever the player and the lobby do at the same time, a client that
\* can still be told LobbyStarted has not left the lobby.
StartedFindsLobbyPeer ==
    \A c \in Clients :
        (lobby_link[c].near = "up" /\ HeadIs(lobby_link[c].in, "LobbyStarted"))
            => lobby_peer_[c]

\* LobbyStarted goes to the client that asked for it as to the others: its start is
\* read after its registration and before its departure, however quickly the player
\* presses B after the connect, or ESC after B (lobby.cpp:17-43, 54-61, 72).  Whether
\* anybody follows is another matter: a client that is closing when LobbyStarted
\* reaches it discards it, and the server is off the queue all the same.
StarterIsRegistered ==
    \A c \in Clients :
        HeadIs(lobby_link[c].out, "StartLobby") => c \in clients_

\* The clients_ of the lobby holds live peers only: a stale pointer would soon be
\* some other client's.  That of a server has an entry for the peers that may send
\* packets and no others, which clients_.at(peer) in the handlers takes for granted.
ListedPeersAreLive ==
    /\ \A c \in clients_ : lobby_link[c].far = "up"
    /\ \A s \in Servers, slot \in Slots :
          slot \in players[s] <=> /\ peers[s][slot] \in Clients
                                 /\ game_link[peers[s][slot]].far = "up"

\* A callback of pending_disconnect_ waits only for a connection this server is
\* closing, so that it never swallows the departure of a player.
CallbacksWaitForClosing ==
    \A s \in Servers, slot \in Slots :
        slot \in pending_disconnect_[s] <=>
            \/ peers[s][slot] = "leaving lobby"
            \/ /\ peers[s][slot] \in Clients
               /\ game_link[peers[s][slot]].far = "closing"

\* The screen says "ESC = /exit": one press makes the client stop.
ESCStops == \A c \in Clients : c \in pressedESC ~> shouldStop_[c]

\* A client that is told a server gets there, unless its player leaves.
StartedArrives ==
    \A c \in Clients :
        game_server[c] # "nobody" ~>
            \/ \E s \in Servers : \E slot \in players[s] : peers[s][slot] = c
            \/ shouldStop_[c] \/ c \in pressedESC

\* A server that turns to the lobby is queued there again.
RequeueCompletes ==
    \A s \in Servers :
        (\E slot \in Slots : peers[s][slot] = "to lobby") ~> s \in Range(servers_)
=============================================================================
