------------------------------- MODULE Session -------------------------------
(***************************************************************************)
(* A game session: what the server of hw5/server.cpp and the clients of    *)
(* hw5/client.cpp tell each other while players come and go, under the     *)
(* cipher of hw5/common/Service.hpp.                                       *)
(*                                                                         *)
(* SetKey and the roster travel on channel 0, reliable and ordered; chat   *)
(* and deltas on channel 1, where packets are lost and late ones dropped.  *)
(* ENet keeps no order between the channels.                               *)
(*                                                                         *)
(* A packet carries the key it was ciphered with, 0 for none.  Deciphered  *)
(* with another key its type byte is arbitrary, and for most values poll's *)
(* NG_VERIFY aborts the program; a reader of such a packet is in misread   *)
(* and gone.  The contents of deltas are left to SnapshotSync, the way to  *)
(* the session and out of it to Matchmaking.                               *)
(***************************************************************************)
EXTENDS Link, FiniteSets

CONSTANTS
    Clients,
    PeerCount,        \* peers of the server's host (32 in the code)
    MaxJoins,         \* bound on the number of connections, over all clients
    MaxFailures,      \* bound on the number of connections that time out
    MaxInFlight       \* packets on a channel 1; one more pushes out the oldest

ASSUME ConstantsAssumption ==
    /\ "free" \notin Clients /\ "server" \notin Clients
    /\ {PeerCount, MaxJoins, MaxInFlight} \subseteq Nat \ {0} /\ MaxFailures \in Nat

Slots == 1..PeerCount
Keys == 1..MaxJoins
Ids == 1..MaxJoins
kInvalidId == 0

VARIABLES
    (* server *)
    peers,            \* the client a slot is used for
    keys_,            \* key of a slot, 0 for none
    clients_,         \* id of the player of a slot, 0 for none
    idCounter_,
    (* client *)
    client_key,       \* the key for server_peer_, 0 for none
    otherIds_,
    playerEntityId_,
    (* network *)
    link,             \* connections and their channel 0
    to_client,        \* channel 1, oldest packet first
    to_server,
    (* history and bounds *)
    misread,          \* who has read a packet with the wrong key
    joins, failures

serverVars == <<peers, keys_, clients_, idCounter_>>
clientVars == <<client_key, otherIds_, playerEntityId_>>
vars == <<serverVars, clientVars, link, to_client, to_server, misread, joins,
          failures>>

-----------------------------------------------------------------------------
Packet(type, key) == [type |-> type, key |-> key]
SetKey(key, value) == [type |-> "SetKey", key |-> key, value |-> value]
Roster(type, key, id) == [type |-> type, key |-> key, id |-> id]

\* The slots whose player is in clients_.
Playing == {slot \in Slots : clients_[slot] # 0}

\* enet_peer_send with flags {} on channel 1.
SendLossy(channel, packet) ==
    LET longer == Append(channel, packet)
    IN  IF Len(longer) > MaxInFlight THEN Tail(longer) ELSE longer

\* SendNear, packet by packet.
SendAll(l, packets) ==
    IF l.far = "up" /\ l.near # "down" /\ ~Ended(l.in)
    THEN [l EXCEPT !.in = @ \o packets] ELSE l

\* send_deltas: to every player, with its key.
DeltasSent(keys, playing) ==
    [c \in Clients |->
        IF \E slot \in playing : peers[slot] = c /\ link[c].near # "down"
        THEN SendLossy(to_client[c], Packet("StateDelta",
                 keys[CHOOSE slot \in playing : peers[slot] = c]))
        ELSE to_client[c]]

-----------------------------------------------------------------------------
Init ==
    /\ peers = [slot \in Slots |-> "free"]
    /\ keys_ = [slot \in Slots |-> 0]
    /\ clients_ = [slot \in Slots |-> 0]
    /\ idCounter_ = 1
    /\ client_key = [c \in Clients |-> 0]
    /\ otherIds_ = [c \in Clients |-> {}]
    /\ playerEntityId_ \in [Clients -> {kInvalidId, 1}]    \* not initialised
    /\ link = [c \in Clients |-> NoLink]
    /\ to_client = [c \in Clients |-> << >>]
    /\ to_server = [c \in Clients |-> << >>]
    /\ misread = {}
    /\ joins = 0 /\ failures = 0

FreeSlots == {slot \in Slots : peers[slot] = "free"}

(* Server: Service::poll and the handlers *)

\* genKey: another key every time.
NewKey == idCounter_

\* Mutation of the next definition: ids count the players
NewId_by_count == Cardinality(Playing) + 1

NewId == idCounter_

\* Mutation of the next definition: the newcomer is not told of the others
Hello_alone(slot) ==
    <<SetKey(keys_[slot], NewKey), Packet("PossessEntity", NewKey)>>

\* What a newcomer is sent: SetKey before its key is in force, the rest with it.
Hello(slot) ==
    <<SetKey(keys_[slot], NewKey), Packet("PossessEntity", NewKey)>> \o
    SetToSeq({Roster("PlayerJoined", NewKey, clients_[other]) :
                 other \in Playing \ {slot}})

\* The players in the slots of a set are sent a packet, each with its own key.
Tell(links, slots, type, id) ==
    [d \in Clients |->
        IF \E slot \in slots : peers[slot] = d
        THEN SendNear(links[d],
                 Roster(type, keys_[CHOOSE slot \in slots : peers[slot] = d], id))
        ELSE links[d]]

\* The CONNECT of a player: the roster goes out in both directions, then a
\* delta to everyone.
connected(slot) ==
    LET c    == peers[slot]
        keys == [keys_ EXCEPT ![slot] = NewKey]
        up   == [link[c] EXCEPT !.far = "up", !.out = Tail(@)]
    IN  /\ c \in Clients /\ HeadIs(link[c].out, "CONNECT")
        /\ keys_' = keys
        /\ clients_' = [clients_ EXCEPT ![slot] = NewId]
        /\ idCounter_' = idCounter_ + 1
        /\ link' = [Tell(link, Playing \ {slot}, "PlayerJoined", NewId)
                       EXCEPT ![c] = SendAll(up, Hello(slot))]
        /\ to_client' = DeltasSent(keys, Playing \union {slot})
        /\ UNCHANGED <<peers, clientVars, to_server, misread, joins, failures>>

\* Mutation of the next definition: keys_ is not erased
KeysWithout_kept(slot) == keys_

\* keys_.erase(event.peer)
KeysWithout(slot) == [keys_ EXCEPT ![slot] = 0]

\* The DISCONNECT of a player.  A peer that never raised its CONNECT is
\* forgotten without an event.
disconnected(slot) ==
    LET c    == peers[slot]
        down == [link EXCEPT ![c].far = "down", ![c].out = << >>]
    IN  /\ c \in Clients /\ HeadIs(link[c].out, "DISCONNECT")
        /\ peers' = [peers EXCEPT ![slot] = "free"]
        /\ to_server' = [to_server EXCEPT ![c] = << >>]
        /\ IF link[c].far = "accepting"
           THEN /\ link' = down
                /\ UNCHANGED <<keys_, clients_>>
           ELSE /\ keys_' = KeysWithout(slot)
                /\ clients_' = [clients_ EXCEPT ![slot] = 0]
                /\ link' = Tell(down, Playing \ {slot}, "PlayerLeft", clients_[slot])
        /\ UNCHANGED <<idCounter_, clientVars, to_client, misread, joins, failures>>

\* Every 100 ms.
send_deltas ==
    /\ to_client' = DeltasSent(keys_, Playing)
    /\ UNCHANGED <<serverVars, clientVars, link, to_server, misread, joins, failures>>

\* The k-th packet on channel 1 arrives; the ones before it are lost or late.
ServerReceive(slot, k) ==
    LET c      == peers[slot]
        packet == to_server[c][k]
    IN  /\ c \in Clients /\ link[c].far = "up" /\ k \in 1..Len(to_server[c])
        /\ to_server' = [to_server EXCEPT ![c] = SubSeq(@, k + 1, Len(@))]
        /\ IF packet.key # keys_[slot]
           THEN misread' = misread \union {"server"} /\ UNCHANGED to_client
           ELSE /\ UNCHANGED misread
                /\ CASE packet.type = "Chat" ->
                          to_client' = [d \in Clients |->
                             IF \E other \in Playing \ {slot} : peers[other] = d
                             THEN SendLossy(to_client[d], Packet("Chat",
                                    keys_[CHOOSE s \in Playing : peers[s] = d]))
                             ELSE to_client[d]]
                     \* Confirmed unless the player's entity is gone.
                     [] packet.type = "StateDelta" ->
                          \/ UNCHANGED to_client
                          \/ to_client' = [to_client EXCEPT ![c] = SendLossy(@,
                                 Packet("StateDeltaConfirmation", keys_[slot]))]
                     [] OTHER -> UNCHANGED to_client
        /\ UNCHANGED <<serverVars, clientVars, link, joins, failures>>

-----------------------------------------------------------------------------
(* Client *)

\* ENet has found a slot at the server, and raises the client's CONNECT before
\* the server's.  The callback sets server_peer_.
Connect(c) ==
    /\ link[c] = NoLink /\ FreeSlots # {} /\ joins < MaxJoins
    /\ joins' = joins + 1
    /\ peers' = [peers EXCEPT ![Min(FreeSlots)] = c]
    /\ link' = [link EXCEPT ![c] = [NoLink EXCEPT !.near = "up", !.far = "accepting",
                                                  !.out = <<CONNECT>>]]
    /\ UNCHANGED <<keys_, clients_, idCounter_, clientVars, to_client, to_server,
                   misread, failures>>

\* otherIds_ after a packet.
Known(ids, packet) ==
    CASE packet.type = "PlayerJoined" -> ids \union {packet.id}
      [] packet.type = "PlayerLeft"   -> ids \ {packet.id}
      [] OTHER                        -> ids

\* Channel 0: the handlers of SetKey, PossessEntity, PlayerJoined, PlayerLeft.
ClientReceive(c) ==
    LET packet == Head(link[c].in)
    IN  /\ link[c].near = "up" /\ link[c].in # << >> /\ packet # DISCONNECT
        /\ IF packet.key # client_key[c]
           THEN /\ misread' = misread \union {c}
                /\ link' = [link EXCEPT ![c] = DestroyNear(@)]
                /\ UNCHANGED clientVars
           ELSE /\ UNCHANGED misread
                /\ link' = [link EXCEPT ![c].in = Tail(@)]
                /\ client_key' = IF packet.type = "SetKey"
                                 THEN [client_key EXCEPT ![c] = packet.value]
                                 ELSE client_key
                /\ otherIds_' = [otherIds_ EXCEPT ![c] = Known(@, packet)]
                /\ playerEntityId_' = IF packet.type = "PossessEntity"
                                      THEN [playerEntityId_ EXCEPT ![c] = 1]
                                      ELSE playerEntityId_
        /\ UNCHANGED <<serverVars, to_client, to_server, joins, failures>>

\* Channel 1: a chat line is shown, a confirmation taken note of, and a delta
\* confirmed.
ClientReceiveLossy(c, k) ==
    LET packet == to_client[c][k]
    IN  /\ link[c].near = "up" /\ k \in 1..Len(to_client[c])
        /\ to_client' = [to_client EXCEPT ![c] = SubSeq(@, k + 1, Len(@))]
        /\ IF packet.key # client_key[c]
           THEN /\ misread' = misread \union {c}
                /\ link' = [link EXCEPT ![c] = DestroyNear(@)]
                /\ UNCHANGED to_server
           ELSE /\ UNCHANGED <<misread, link>>
                /\ to_server' = IF packet.type = "StateDelta"
                                THEN [to_server EXCEPT ![c] = SendLossy(@,
                                        Packet("StateDeltaConfirmation", client_key[c]))]
                                ELSE to_server
        /\ UNCHANGED <<serverVars, clientVars, joins, failures>>

\* A line typed by the player, or the player's velocity every 60 ms.
ClientSend(c, type) ==
    /\ link[c].near = "up"
    /\ type = "StateDelta" => playerEntityId_[c] # kInvalidId
    /\ to_server' = [to_server EXCEPT ![c] = SendLossy(@, Packet(type, client_key[c]))]
    /\ UNCHANGED <<serverVars, clientVars, link, to_client, misread, joins, failures>>

close(c) ==
    /\ link[c].near = "up"
    /\ link' = [link EXCEPT ![c] = CloseNear(@)]
    /\ to_client' = [to_client EXCEPT ![c] = << >>]
    /\ UNCHANGED <<serverVars, clientVars, to_server, misread, joins, failures>>

ClientDisconnected(c) ==
    /\ link[c].near \in {"up", "closing"} /\ HeadIs(link[c].in, "DISCONNECT")
    /\ NearMayEnd(link[c])
    /\ link' = [link EXCEPT ![c].near = "down", ![c].in = << >>]
    /\ client_key' = [client_key EXCEPT ![c] = 0]
    /\ to_client' = [to_client EXCEPT ![c] = << >>]
    /\ UNCHANGED <<serverVars, otherIds_, playerEntityId_, to_server, misread, joins,
                   failures>>

\* The player starts the program again.
Restart(c) ==
    /\ link[c].near = "down" /\ link[c].far = "down"
    /\ link' = [link EXCEPT ![c] = NoLink]
    /\ client_key' = [client_key EXCEPT ![c] = 0]
    /\ otherIds_' = [otherIds_ EXCEPT ![c] = {}]
    /\ \E garbage \in {kInvalidId, 1} :
          playerEntityId_' = [playerEntityId_ EXCEPT ![c] = garbage]
    /\ misread' = misread \ {c}
    /\ UNCHANGED <<serverVars, to_client, to_server, joins, failures>>

TimeOut(c) ==
    /\ failures < MaxFailures /\ failures' = failures + 1
    /\ \E broken \in Broken(link[c]) \ {link[c]} : link' = [link EXCEPT ![c] = broken]
    /\ UNCHANGED <<serverVars, clientVars, to_client, to_server, misread, joins>>

\* The server notices that a client is gone without a DISCONNECT.
Forsaken(c) ==
    /\ \E abandoned \in Abandoned(link[c]) : link' = [link EXCEPT ![c] = abandoned]
    /\ UNCHANGED <<serverVars, clientVars, to_client, to_server, misread, joins,
                   failures>>

-----------------------------------------------------------------------------
ServerPoll ==
    /\ "server" \notin misread
    /\ \E slot \in Slots : connected(slot) \/ disconnected(slot)

ServerLossy ==
    /\ "server" \notin misread
    /\ \/ send_deltas
       \/ \E slot \in Slots, k \in 1..MaxInFlight : ServerReceive(slot, k)

ClientPoll(c) == ClientReceive(c) \/ ClientDisconnected(c)

ClientLossy(c) ==
    \/ \E k \in 1..MaxInFlight : ClientReceiveLossy(c, k)
    \/ \E type \in {"Chat", "StateDelta"} : ClientSend(c, type)

Player(c) == Connect(c) \/ close(c) \/ Restart(c)

Next ==
    \/ ServerPoll
    \/ ServerLossy
    \/ \E c \in Clients : ClientPoll(c) \/ ClientLossy(c) \/ Player(c)
    \/ \E c \in Clients : TimeOut(c) \/ Forsaken(c)

Spec == Init /\ [][Next]_vars

-----------------------------------------------------------------------------
TypeOK ==
    /\ peers \in [Slots -> Clients \union {"free"}]
    /\ keys_ \in [Slots -> {0} \union Keys]
    /\ clients_ \in [Slots -> {0} \union Ids]
    /\ idCounter_ \in 1..(MaxJoins + 1)
    /\ client_key \in [Clients -> {0} \union Keys]
    /\ otherIds_ \in [Clients -> SUBSET Ids]
    /\ playerEntityId_ \in [Clients -> {kInvalidId, 1}]
    /\ misread \subseteq Clients \union {"server"}
    /\ \A c \in Clients :
         /\ link[c].near \in EndState /\ link[c].far \in EndState
         /\ Len(to_client[c]) <= MaxInFlight /\ Len(to_server[c]) <= MaxInFlight

\* The key a client has when it has handled some packets: that of the last SetKey.
KeyAfter(key, packets) ==
    LET given == {n \in 1..Len(packets) : packets[n].type = "SetKey"}
    IN  IF given = {} THEN key ELSE packets[Max(given)].value

\* The roster it has then: those it knew or was told of who did not leave later.
RosterAfter(ids, packets) ==
    LET Stays(id, from) ==
            \A n \in from + 1..Len(packets) :
                ~(packets[n].type = "PlayerLeft" /\ packets[n].id = id)
        joined == {n \in 1..Len(packets) : packets[n].type = "PlayerJoined"}
    IN  {id \in ids : Stays(id, 0)} \union
        {packets[n].id : n \in {m \in joined : Stays(packets[m].id, m)}}

\* Whatever players come and go through the same peers, every packet on channel
\* 0 will be read with the key it was ciphered with: the change of keys in
\* connected() and setKeyForPeer keeps step with the stream, and no key
\* outlives its connection.
ReliableIsReadable ==
    \A c \in Clients : link[c].near = "up" =>
        \A n \in 1..Len(link[c].in) :
            \/ link[c].in[n] = DISCONNECT
            \/ link[c].in[n].key = KeyAfter(client_key[c], SubSeq(link[c].in, 1, n - 1))

\* The players a client's /list will show are the other players of the server:
\* what the client knows and what is under way to it add up to clients_, also
\* when players join and leave at the same time.
RosterInTransit ==
    \A c \in Clients, slot \in Playing :
        (peers[slot] = c /\ link[c].near = "up" /\ ~Ended(link[c].in)) =>
            RosterAfter(otherIds_[c], link[c].in)
                = {clients_[other] : other \in Playing \ {slot}}

\* No two players have the same id, and nobody is told of itself as another.
IdsAreDistinct ==
    /\ \A s, t \in Playing : clients_[s] = clients_[t] => s = t
    /\ \A slot \in Playing : clients_[slot] \notin otherIds_[peers[slot]]

\* poll asserts of each packet it deciphers that its type is one of PacketType's.
EveryPacketReadable == misread = {}
=============================================================================
