-------------------------- MODULE MatchmakingProofs --------------------------
(* Proofs about Matchmaking, for any number of clients, servers and peers. *)
EXTENDS Matchmaking, SequenceTheorems, FiniteSetTheorems, WellFoundedInduction, TLAPS

\* The events that reach a client from the lobby, the lobby from a client, a
\* client from a server and a server from a client.
FromLobby == {DISCONNECT} \union {LobbyStarted(s) : s \in Servers}
ToLobby == {RegisterClientInLobby, StartLobby, DISCONNECT}
FromServer == {RegisterServerInLobby, DISCONNECT}
ToServer == {CONNECT, DISCONNECT}

LobbyLink == [near : {"connecting", "up", "closing", "down"},
              far  : {"none", "up", "down"},
              in   : Seq(FromLobby), out : Seq(ToLobby)]

GameLink == [near : {"none", "connecting", "up", "closing", "down"},
             far  : {"none", "accepting", "up", "closing", "down"},
             in   : Seq(FromServer), out : Seq(ToServer)]

\* Nothing follows a DISCONNECT.
WellEnded(inbox) ==
    \A n \in 1..Len(inbox) : inbox[n] = DISCONNECT => n = Len(inbox)

\* The connection of a client to the lobby.  Until the lobby has listed the
\* client, the first packet it will read is the registration: that is why a
\* client never starts a lobby it is not in.
LobbyOk(c, link, listed) ==
    /\ link \in LobbyLink
    /\ WellEnded(link.in) /\ WellEnded(link.out)
    /\ link.near \in {"up", "closing"} => link.far # "none"
    /\ link.far # "up" => link.out = << >> /\ c \notin listed
    /\ (link.far = "up" /\ c \notin listed) =>
          link.out # << >> /\ link.out[1] \in {RegisterClientInLobby, DISCONNECT}

\* The connection of a client to a server.  The CONNECT is the first event the
\* server reads, and is read by a peer that is still accepting.
GameOk(link) ==
    /\ link \in GameLink
    /\ WellEnded(link.in) /\ WellEnded(link.out)
    /\ link.near = "none" => link = NoLink
    /\ (link.near = "connecting" /\ link.in = << >>) => link.out = << >>
    /\ link.near \in {"up", "closing"} => link.far # "none"
    /\ link.far \in {"none", "down"} => link.out = << >>
    /\ \A n \in 1..Len(link.out) :
          link.out[n] = CONNECT => n = 1 /\ link.far = "accepting"

\* What the client notes about its connections.
PeersOk(c) ==
    /\ lobby_link[c].near = "up" => lobby_peer_[c]
    /\ lobby_peer_[c] => lobby_link[c].near # "connecting"
    /\ server_peer_[c] => game_link[c].near \notin {"none", "connecting"}
    /\ lobby_link[c].near \in {"connecting", "up"} => game_link[c].near = "none"

LobbyInv ==
    /\ clients_ \subseteq Clients /\ servers_ \in Seq(Servers)
    /\ registrations \in [Servers -> Nat]
    /\ lobby_link \in [Clients -> LobbyLink]
    /\ \A c \in Clients : LobbyOk(c, lobby_link[c], clients_)

GameInv ==
    /\ game_link \in [Clients -> GameLink]
    /\ \A c \in Clients : GameOk(game_link[c])

ClientInv ==
    /\ \A c \in Clients : PeersOk(c)
    /\ game_server \in [Clients -> Servers \union {"nobody"}]
    /\ lobby_peer_ \in [Clients -> BOOLEAN] /\ server_peer_ \in [Clients -> BOOLEAN]
    /\ stop_on_disconnect \in [Clients -> SUBSET {"lobby", "game"}]
    /\ shouldStop_ \in [Clients -> BOOLEAN] /\ exited \in [Clients -> BOOLEAN]
    /\ pressedESC \subseteq Clients
    /\ escapes \in [Clients -> 0..MaxEscapes]
    /\ begins \in 0..MaxBegins /\ failures \in 0..MaxFailures

\* A slot is used for at most one client, one that was told this server, and a
\* client for at most one slot: an event of a client is an event of one slot.
Seated ==
    \A s \in Servers, slot \in Slots : peers[s][slot] \in Clients =>
        /\ game_server[peers[s][slot]] = s
        /\ game_link[peers[s][slot]].far \in {"accepting", "up", "closing"}
        /\ \A other \in Slots : peers[s][other] = peers[s][slot] => other = slot

PlayersAreUp ==
    \A s \in Servers, slot \in Slots :
        slot \in players[s] <=> /\ peers[s][slot] \in Clients
                               /\ game_link[peers[s][slot]].far = "up"

ServerInv ==
    /\ peers \in [Servers -> [Slots -> Clients \union LobbyUse]]
    /\ players \in [Servers -> SUBSET Slots]
    /\ pending_connect_ \in [Servers -> SUBSET Slots]
    /\ pending_disconnect_ \in [Servers -> SUBSET Slots]
    /\ aborted \in [Servers -> BOOLEAN]
    /\ Seated
    /\ PlayersAreUp
    /\ CallbacksWaitForClosing

IInv == LobbyInv /\ GameInv /\ ClientInv /\ ServerInv

-----------------------------------------------------------------------------
(* Inboxes *)

\* Events of different types differ, and only LobbyStarted names a server.
LEMMA Events ==
  /\ DISCONNECT.type = "DISCONNECT" /\ CONNECT.type = "CONNECT"
  /\ RegisterClientInLobby.type = "RegisterClientInLobby"
  /\ StartLobby.type = "StartLobby"
  /\ RegisterServerInLobby.type = "RegisterServerInLobby"
  /\ \A s : LobbyStarted(s).type = "LobbyStarted" /\ LobbyStarted(s).serverAddress = s
BY DEF DISCONNECT, CONNECT, RegisterClientInLobby, StartLobby, RegisterServerInLobby,
       LobbyStarted, Event

\* What is put into an inbox goes behind the rest, or is lost behind a DISCONNECT.
LEMMA PutInbox ==
  ASSUME NEW E, NEW inbox \in Seq(E), WellEnded(inbox), NEW e \in E
  PROVE  /\ Put(inbox, e) \in Seq(E) /\ WellEnded(Put(inbox, e))
         /\ Put(inbox, e) # << >>
         /\ inbox # << >> => Put(inbox, e)[1] = inbox[1]
         /\ \A n \in 1..Len(Put(inbox, e)) :
               \/ n \in 1..Len(inbox) /\ Put(inbox, e)[n] = inbox[n]
               \/ Put(inbox, e)[n] = e
<1>1. Len(inbox) \in Nat /\ (inbox # << >> => Len(inbox) >= 1)
  OBVIOUS
<1>2. CASE Ended(inbox)
  <2>1. Put(inbox, e) = inbox /\ inbox # << >>
    BY <1>2 DEF Put, Ended
  <2> QED
    BY <2>1
<1>3. CASE ~Ended(inbox)
  <2>1. Put(inbox, e) = Append(inbox, e)
    BY <1>3 DEF Put
  <2>2. \A n \in 1..Len(inbox) : inbox[n] # DISCONNECT
    BY <1>1, <1>3 DEF WellEnded, Ended, Last
  <2>3. /\ Append(inbox, e) \in Seq(E) /\ Append(inbox, e) # << >>
        /\ Len(Append(inbox, e)) = Len(inbox) + 1
        /\ \A n \in 1..Len(inbox) : Append(inbox, e)[n] = inbox[n]
        /\ Append(inbox, e)[Len(inbox) + 1] = e
    BY AppendProperties
  <2>4. \A n \in 1..(Len(inbox) + 1) : n \in 1..Len(inbox) \/ n = Len(inbox) + 1
    BY <1>1
  <2>5. WellEnded(Append(inbox, e))
    BY <2>2, <2>3, <2>4 DEF WellEnded
  <2>6. inbox # << >> => 1 \in 1..Len(inbox)
    BY <1>1
  <2> QED
    BY <2>1, <2>3, <2>4, <2>5, <2>6
<1> QED
  BY <1>2, <1>3

\* The first event is taken.
LEMMA TakeInbox ==
  ASSUME NEW E, NEW inbox \in Seq(E), WellEnded(inbox), inbox # << >>
  PROVE  /\ Tail(inbox) \in Seq(E) /\ WellEnded(Tail(inbox))
         /\ Head(inbox) = inbox[1] /\ Head(inbox) \in E
         /\ Len(inbox) >= 1 /\ Len(Tail(inbox)) = Len(inbox) - 1
         /\ \A n \in 1..Len(Tail(inbox)) :
               Tail(inbox)[n] = inbox[n + 1] /\ n + 1 \in 1..Len(inbox)
<1>1. /\ Len(inbox) \in Nat \ {0} /\ Tail(inbox) \in Seq(E)
      /\ Head(inbox) = inbox[1] /\ Head(inbox) \in E
      /\ Len(Tail(inbox)) = Len(inbox) - 1
      /\ \A n \in 1..Len(Tail(inbox)) : Tail(inbox)[n] = inbox[n + 1]
  BY HeadTailProperties
<1>2. \A n \in 1..Len(Tail(inbox)) : n + 1 \in 1..Len(inbox)
  BY <1>1
<1>3. WellEnded(Tail(inbox))
  <2> SUFFICES ASSUME NEW n \in 1..Len(Tail(inbox)), Tail(inbox)[n] = DISCONNECT
               PROVE  n = Len(Tail(inbox))
    BY DEF WellEnded
  <2>1. n + 1 \in 1..Len(inbox) /\ inbox[n + 1] = DISCONNECT
    BY <1>1, <1>2
  <2>2. n + 1 = Len(inbox)
    BY <2>1 DEF WellEnded
  <2> DEFINE rest == Len(Tail(inbox))
  <2>3. rest = Len(inbox) - 1 /\ Len(inbox) \in Nat /\ n \in Nat
    BY <1>1
  <2> HIDE DEF rest
  <2>4. n = rest
    BY <2>2, <2>3
  <2> QED
    BY <2>4 DEF rest
<1> QED
  BY <1>1, <1>2, <1>3

\* Some of the events arrive, then a DISCONNECT.
LEMMA CutInbox ==
  ASSUME NEW E, NEW inbox \in Seq(E), WellEnded(inbox), ~Ended(inbox),
         DISCONNECT \in E, NEW cut \in CutShort(inbox)
  PROVE  /\ cut \in Seq(E) /\ WellEnded(cut) /\ cut # << >>
         /\ cut[1] = DISCONNECT \/ (inbox # << >> /\ cut[1] = inbox[1])
         /\ \A n \in 1..Len(cut) : \/ n \in 1..Len(inbox) /\ cut[n] = inbox[n]
                                   \/ cut[n] = DISCONNECT
<1>1. PICK k \in 0..Len(inbox) : cut = Append(SubSeq(inbox, 1, k), DISCONNECT)
  BY DEF CutShort
<1>2. Len(inbox) \in Nat /\ k \in Nat /\ k <= Len(inbox)
  OBVIOUS
<1>3. \A n \in 1..Len(inbox) : inbox[n] # DISCONNECT
  BY <1>2 DEF WellEnded, Ended, Last
<1>4. /\ SubSeq(inbox, 1, k) \in Seq(E) /\ Len(SubSeq(inbox, 1, k)) = k
      /\ \A n \in 1..k : SubSeq(inbox, 1, k)[n] = inbox[n] /\ n \in 1..Len(inbox)
  BY <1>2
<1>5. /\ cut \in Seq(E) /\ Len(cut) = k + 1 /\ cut[k + 1] = DISCONNECT /\ cut # << >>
      /\ \A n \in 1..k : cut[n] = inbox[n] /\ n \in 1..Len(inbox)
  <2> DEFINE arrived == SubSeq(inbox, 1, k)
  <2>1. /\ arrived \in Seq(E) /\ Len(arrived) = k /\ cut = Append(arrived, DISCONNECT)
        /\ \A n \in 1..k : arrived[n] = inbox[n] /\ n \in 1..Len(inbox)
    BY <1>1, <1>4
  <2> HIDE DEF arrived
  <2> QED
    BY <2>1, AppendProperties
<1>6. \A n \in 1..(k + 1) : n \in 1..k \/ n = k + 1
  BY <1>2
<1>7. WellEnded(cut)
  BY <1>3, <1>5, <1>6 DEF WellEnded
<1>8. 1 \in 1..k \/ k = 0
  BY <1>2
<1>9. cut[1] = DISCONNECT \/ (inbox # << >> /\ cut[1] = inbox[1])
  <2>1. 1 \in 1..Len(inbox) => inbox # << >>
    OBVIOUS
  <2> QED
    BY <1>5, <1>8, <2>1
<1> QED
  BY <1>5, <1>6, <1>7, <1>9

\* The inbox of an end that hears no more than a DISCONNECT.
LEMMA LastInbox ==
  ASSUME NEW E, DISCONNECT \in E
  PROVE  /\ << >> \in Seq(E) /\ WellEnded(<< >>)
         /\ <<DISCONNECT>> \in Seq(E) /\ WellEnded(<<DISCONNECT>>)
         /\ <<DISCONNECT>> # << >> /\ <<DISCONNECT>>[1] = DISCONNECT
         /\ Len(<<DISCONNECT>>) = 1
BY DEF WellEnded

-----------------------------------------------------------------------------
(* The connection to the lobby *)

\* What is sent to the lobby goes behind the registration.
LEMMA LobbySendFar ==
  ASSUME NEW c, NEW listed, NEW link, LobbyOk(c, link, listed)
  PROVE  /\ LobbyOk(c, SendFar(link, StartLobby), listed)
         /\ SendFar(link, StartLobby).near = link.near
<1> DEFINE l == SendFar(link, StartLobby)
<1>1. CASE ~(link.near = "up" /\ link.far # "down")
  BY <1>1 DEF SendFar
<1>2. CASE link.near = "up" /\ link.far # "down"
  <2>1. l = [link EXCEPT !.out = Put(link.out, StartLobby)] /\ link \in LobbyLink
    BY <1>2 DEF SendFar, LobbyOk
  <2>2. /\ Put(link.out, StartLobby) \in Seq(ToLobby)
        /\ WellEnded(Put(link.out, StartLobby)) /\ Put(link.out, StartLobby) # << >>
        /\ link.out # << >> => Put(link.out, StartLobby)[1] = link.out[1]
    <3> DEFINE o == link.out
    <3>1. StartLobby \in ToLobby /\ o \in Seq(ToLobby) /\ WellEnded(o)
      BY DEF LobbyOk, LobbyLink, ToLobby
    <3> HIDE DEF o
    <3>2. /\ Put(o, StartLobby) \in Seq(ToLobby) /\ WellEnded(Put(o, StartLobby))
          /\ Put(o, StartLobby) # << >>
          /\ o # << >> => Put(o, StartLobby)[1] = o[1]
      BY <3>1, PutInbox
    <3> QED
      BY <3>2 DEF o
  <2>3. l \in LobbyLink /\ l.near = link.near /\ l.far = link.far /\ l.in = link.in
        /\ l.out = Put(link.out, StartLobby)
    BY <2>1, <2>2 DEF LobbyLink
  <2>4. link.far = "up"
    BY <1>2 DEF LobbyOk, LobbyLink
  <2> QED
    BY <2>2, <2>3, <2>4 DEF LobbyOk
<1> QED
  BY <1>1, <1>2

\* What the lobby sends goes behind what it has sent.
LEMMA LobbySendNear ==
  ASSUME NEW c, NEW listed, NEW link, LobbyOk(c, link, listed), NEW s \in Servers
  PROVE  /\ LobbyOk(c, SendNear(link, LobbyStarted(s)), listed)
         /\ SendNear(link, LobbyStarted(s)).near = link.near
<1> DEFINE l == SendNear(link, LobbyStarted(s))
           inbox == link.in
           packet == LobbyStarted(s)
<1>1. CASE ~(link.far = "up" /\ link.near # "down")
  BY <1>1 DEF SendNear
<1>2. CASE link.far = "up" /\ link.near # "down"
  <2>1. l = [link EXCEPT !.in = Put(inbox, packet)] /\ link \in LobbyLink
    BY <1>2 DEF SendNear, LobbyOk
  <2>2. inbox \in Seq(FromLobby) /\ WellEnded(inbox) /\ packet \in FromLobby
    BY DEF LobbyOk, LobbyLink, FromLobby
  <2> HIDE DEF inbox, packet
  <2>3. Put(inbox, packet) \in Seq(FromLobby) /\ WellEnded(Put(inbox, packet))
    BY <2>2, PutInbox
  <2>4. /\ l \in LobbyLink /\ l.near = link.near /\ l.far = link.far /\ l.out = link.out
        /\ l.in = Put(inbox, packet)
    BY <2>1, <2>3 DEF LobbyLink
  <2> QED
    BY <2>3, <2>4 DEF LobbyOk
<1> QED
  BY <1>1, <1>2

\* A client that leaves the lobby reads no more of what it is sent.
LEMMA LobbyCloseNear ==
  ASSUME NEW c, NEW listed, NEW link, LobbyOk(c, link, listed),
         link.near # "connecting"
  PROVE  /\ LobbyOk(c, CloseNear(link), listed)
         /\ CloseNear(link).near \in {"closing", "down"}
<1> DEFINE l == CloseNear(link)
           outbox == link.out
<1>1. CASE link.near = "down"
  BY <1>1 DEF CloseNear
<1>2. CASE link.near # "down"
  <2>1. /\ link \in LobbyLink /\ link.near \in {"up", "closing"} /\ link.far # "none"
        /\ outbox \in Seq(ToLobby) /\ WellEnded(outbox)
        /\ DISCONNECT \in ToLobby /\ DISCONNECT \in FromLobby
    BY <1>2 DEF LobbyOk, LobbyLink, ToLobby, FromLobby
  <2> DEFINE sent == IF link.far = "down" THEN outbox ELSE Put(outbox, DISCONNECT)
  <2>2. l = [link EXCEPT !.near = "closing", !.in = <<DISCONNECT>>, !.out = sent]
    BY <2>1 DEF CloseNear
  <2> HIDE DEF outbox
  <2>3. /\ Put(outbox, DISCONNECT) \in Seq(ToLobby) /\ WellEnded(Put(outbox, DISCONNECT))
        /\ Put(outbox, DISCONNECT) # << >>
        /\ outbox # << >> => Put(outbox, DISCONNECT)[1] = outbox[1]
    BY <2>1, PutInbox
  <2>4. <<DISCONNECT>> \in Seq(FromLobby) /\ WellEnded(<<DISCONNECT>>)
    BY <2>1, LastInbox
  <2>5. /\ sent \in Seq(ToLobby) /\ WellEnded(sent)
        /\ link.far = "down" => sent = outbox
        /\ link.far = "up" => sent # << >> /\ (outbox # << >> => sent[1] = outbox[1])
    BY <2>1, <2>3
  <2> HIDE DEF sent
  <2>6. /\ l \in LobbyLink /\ l.near = "closing" /\ l.far = link.far
        /\ l.in = <<DISCONNECT>> /\ l.out = sent
    BY <2>1, <2>2, <2>4, <2>5 DEF LobbyLink
  <2>7. link.far \in {"up", "down"}
    BY <2>1 DEF LobbyLink
  <2> QED
    BY <2>4, <2>5, <2>6, <2>7 DEF LobbyOk, outbox
<1> QED
  BY <1>1, <1>2

\* The near end ends: the client exits, or has read its DISCONNECT.
LEMMA LobbyNearDown ==
  ASSUME NEW c, NEW listed, NEW link, LobbyOk(c, link, listed)
  PROVE  /\ DestroyNear(link) = [link EXCEPT !.near = "down", !.in = << >>]
         /\ LobbyOk(c, [link EXCEPT !.near = "down", !.in = << >>], listed)
<1> DEFINE l == [link EXCEPT !.near = "down", !.in = << >>]
<1>1. link \in LobbyLink /\ link.near # "none"
  BY DEF LobbyOk, LobbyLink
<1>2. << >> \in Seq(FromLobby) /\ WellEnded(<< >>)
  BY LastInbox DEF FromLobby
<1>3. /\ l \in LobbyLink /\ l.near = "down" /\ l.far = link.far /\ l.in = << >>
      /\ l.out = link.out
  BY <1>1, <1>2 DEF LobbyLink
<1>4. LobbyOk(c, l, listed)
  BY <1>2, <1>3 DEF LobbyOk
<1> QED
  BY <1>1, <1>4 DEF DestroyNear

\* The client takes a packet.
LEMMA LobbyTake ==
  ASSUME NEW c, NEW listed, NEW link, LobbyOk(c, link, listed), link.in # << >>
  PROVE  LobbyOk(c, [link EXCEPT !.in = Tail(@)], listed)
<1> DEFINE l == [link EXCEPT !.in = Tail(@)]
           inbox == link.in
<1>1. link \in LobbyLink /\ inbox \in Seq(FromLobby) /\ WellEnded(inbox) /\ inbox # << >>
  BY DEF LobbyOk, LobbyLink
<1> HIDE DEF inbox
<1>2. Tail(inbox) \in Seq(FromLobby) /\ WellEnded(Tail(inbox))
  BY <1>1, TakeInbox
<1>3. /\ l \in LobbyLink /\ l.near = link.near /\ l.far = link.far /\ l.out = link.out
      /\ l.in = Tail(inbox)
  BY <1>1, <1>2 DEF LobbyLink, inbox
<1> QED
  BY <1>2, <1>3 DEF LobbyOk

\* A time-out, noticed by both ends or by the lobby alone.
LEMMA LobbyFails ==
  ASSUME NEW c, NEW listed, NEW link, LobbyOk(c, link, listed),
         NEW l \in Broken(link) \union Abandoned(link)
  PROVE  LobbyOk(c, l, listed) /\ l.near = link.near
<1> DEFINE inbox == link.in
           outbox == link.out
<1>1. /\ link \in LobbyLink /\ inbox \in Seq(FromLobby) /\ WellEnded(inbox)
      /\ outbox \in Seq(ToLobby) /\ WellEnded(outbox)
      /\ DISCONNECT \in ToLobby /\ DISCONNECT \in FromLobby
  BY DEF LobbyOk, LobbyLink, ToLobby, FromLobby
<1>2. PICK in, out : /\ l = [link EXCEPT !.in = in, !.out = out]
                     /\ \/ in = inbox
                        \/ ~Ended(inbox) /\ in \in CutShort(inbox)
                     /\ \/ out = outbox
                        \/ link.far \notin {"none", "down"} /\ ~Ended(outbox)
                           /\ out \in CutShort(outbox)
  <2>1. CASE l \in Broken(link)
    <3> DEFINE I == IF link.near \in {"none", "down"} \/ Ended(link.in)
                    THEN {link.in} ELSE CutShort(link.in)
               O == IF link.far \in {"none", "down"} \/ Ended(link.out)
                    THEN {link.out} ELSE CutShort(link.out)
    <3>1. \E in \in I, out \in O : l = WithInboxes(link, in, out)
      BY <2>1 DEF Broken
    <3>2. PICK in \in I, out \in O : l = [link EXCEPT !.in = in, !.out = out]
      BY <3>1 DEF WithInboxes
    <3>3. in = inbox \/ (~Ended(inbox) /\ in \in CutShort(inbox))
      BY DEF I
    <3>4. out = outbox \/ (link.far \notin {"none", "down"} /\ ~Ended(outbox)
                           /\ out \in CutShort(outbox))
      BY DEF O
    <3> QED
      BY <3>2, <3>3, <3>4
  <2>2. CASE l \in Abandoned(link)
    <3>1. PICK out \in CutShort(outbox) : l = [link EXCEPT !.out = out]
      BY <2>2 DEF Abandoned
    <3>2. link.far \notin {"none", "down"} /\ ~Ended(outbox)
      BY <2>2 DEF Abandoned
    <3>3. l = [link EXCEPT !.in = inbox, !.out = out]
      BY <1>1, <3>1 DEF LobbyLink
    <3> QED
      BY <3>1, <3>2, <3>3
  <2> QED
    BY <2>1, <2>2
<1> HIDE DEF inbox, outbox
<1>3. in \in Seq(FromLobby) /\ WellEnded(in)
  BY <1>1, <1>2, CutInbox
<1>4. /\ out \in Seq(ToLobby) /\ WellEnded(out)
      /\ \/ out = outbox
         \/ /\ link.far \notin {"none", "down"} /\ out # << >>
            /\ out[1] = DISCONNECT \/ (outbox # << >> /\ out[1] = outbox[1])
  BY <1>1, <1>2, CutInbox
<1>5. /\ l \in LobbyLink /\ l.near = link.near /\ l.far = link.far
      /\ l.in = in /\ l.out = out
  BY <1>1, <1>2, <1>3, <1>4 DEF LobbyLink
<1>6. link.far # "up" => out = outbox
  BY <1>1, <1>4 DEF LobbyLink
<1> QED
  BY <1>3, <1>4, <1>5, <1>6 DEF LobbyOk, outbox

\* The lobby takes a packet of a client it has listed, or lists now.
LEMMA LobbyReads ==
  ASSUME NEW c, NEW listed, NEW link, LobbyOk(c, link, listed), link.out # << >>,
         NEW now, c \in now
  PROVE  LobbyOk(c, [link EXCEPT !.out = Tail(@)], now)
<1> DEFINE l == [link EXCEPT !.out = Tail(@)]
           outbox == link.out
<1>1. link \in LobbyLink /\ outbox \in Seq(ToLobby) /\ WellEnded(outbox) /\ outbox # << >>
      /\ link.far = "up"
  BY DEF LobbyOk, LobbyLink
<1> HIDE DEF outbox
<1>2. Tail(outbox) \in Seq(ToLobby) /\ WellEnded(Tail(outbox))
  BY <1>1, TakeInbox
<1>3. /\ l \in LobbyLink /\ l.near = link.near /\ l.far = link.far /\ l.in = link.in
      /\ l.out = Tail(outbox)
  BY <1>1, <1>2 DEF LobbyLink, outbox
<1> QED
  BY <1>1, <1>2, <1>3 DEF LobbyOk

\* The list of others does not matter to a connection.
LEMMA LobbyOthers ==
  ASSUME NEW c, NEW listed, NEW link, LobbyOk(c, link, listed),
         NEW now, c \in now <=> c \in listed
  PROVE  LobbyOk(c, link, now)
BY DEF LobbyOk

-----------------------------------------------------------------------------
(* The connection to a server *)

\* A client that leaves a server reads no more of what it is sent.
LEMMA GameCloseNear ==
  ASSUME NEW link, GameOk(link), link.near # "connecting"
  PROVE  /\ GameOk(CloseNear(link)) /\ CloseNear(link).far = link.far
         /\ link.near = "none" => CloseNear(link) = link
         /\ link.near # "none" => CloseNear(link).near \in {"closing", "down"}
<1> DEFINE l == CloseNear(link)
           outbox == link.out
<1>1. CASE link.near \in {"none", "down"}
  BY <1>1 DEF CloseNear
<1>2. CASE link.near \notin {"none", "down"}
  <2>1. /\ link \in GameLink /\ link.near \in {"up", "closing"} /\ link.far # "none"
        /\ outbox \in Seq(ToServer) /\ WellEnded(outbox)
        /\ DISCONNECT \in ToServer /\ DISCONNECT \in FromServer
    BY <1>2 DEF GameOk, GameLink, ToServer, FromServer
  <2> DEFINE sent == IF link.far = "down" THEN outbox ELSE Put(outbox, DISCONNECT)
  <2>2. l = [link EXCEPT !.near = "closing", !.in = <<DISCONNECT>>, !.out = sent]
    BY <1>2 DEF CloseNear
  <2>3. \A n \in 1..Len(outbox) : outbox[n] = CONNECT => n = 1 /\ link.far = "accepting"
    BY DEF GameOk
  <2> HIDE DEF outbox
  <2>4. /\ Put(outbox, DISCONNECT) \in Seq(ToServer) /\ WellEnded(Put(outbox, DISCONNECT))
        /\ \A n \in 1..Len(Put(outbox, DISCONNECT)) :
              \/ n \in 1..Len(outbox) /\ Put(outbox, DISCONNECT)[n] = outbox[n]
              \/ Put(outbox, DISCONNECT)[n] = DISCONNECT
    BY <2>1, PutInbox
  <2>5. <<DISCONNECT>> \in Seq(FromServer) /\ WellEnded(<<DISCONNECT>>)
    BY <2>1, LastInbox
  <2>6. /\ sent \in Seq(ToServer) /\ WellEnded(sent)
        /\ link.far = "down" => sent = outbox
        /\ \A n \in 1..Len(sent) : sent[n] = CONNECT => n = 1 /\ link.far = "accepting"
    BY <2>1, <2>3, <2>4, Events
  <2> HIDE DEF sent
  <2>7. /\ l \in GameLink /\ l.near = "closing" /\ l.far = link.far
        /\ l.in = <<DISCONNECT>> /\ l.out = sent
    BY <2>1, <2>2, <2>5, <2>6 DEF GameLink
  <2> HIDE DEF l
  <2>8. GameOk(l)
    BY <2>1, <2>5, <2>6, <2>7 DEF GameOk, outbox
  <2> QED
    BY <1>2, <2>7, <2>8 DEF l
<1> QED
  BY <1>1, <1>2

\* The near end ends: the client exits, or has read its DISCONNECT.
LEMMA GameNearDown ==
  ASSUME NEW link, GameOk(link)
  PROVE  /\ link.near # "none" =>
              /\ GameOk([link EXCEPT !.near = "down", !.in = << >>])
              /\ DestroyNear(link) = [link EXCEPT !.near = "down", !.in = << >>]
         /\ link.near = "none" => DestroyNear(link) = link
         /\ [link EXCEPT !.near = "down", !.in = << >>].far = link.far
         /\ [link EXCEPT !.near = "down", !.in = << >>].near = "down"
<1> DEFINE l == [link EXCEPT !.near = "down", !.in = << >>]
<1>1. link \in GameLink
  BY DEF GameOk
<1>2. << >> \in Seq(FromServer) /\ WellEnded(<< >>)
  BY LastInbox DEF FromServer
<1>3. /\ l \in GameLink /\ l.near = "down" /\ l.far = link.far /\ l.in = << >>
      /\ l.out = link.out
  BY <1>1, <1>2 DEF GameLink
<1>4. GameOk(l)
  BY <1>2, <1>3 DEF GameOk
<1> QED
  BY <1>1, <1>3, <1>4 DEF DestroyNear

\* The client takes a packet.
LEMMA GameTake ==
  ASSUME NEW link, GameOk(link), link.in # << >>, link.near = "up"
  PROVE  /\ GameOk([link EXCEPT !.in = Tail(@)])
         /\ [link EXCEPT !.in = Tail(@)].far = link.far
         /\ [link EXCEPT !.in = Tail(@)].near = link.near
<1> DEFINE l == [link EXCEPT !.in = Tail(@)]
           inbox == link.in
<1>1. link \in GameLink /\ inbox \in Seq(FromServer) /\ WellEnded(inbox) /\ inbox # << >>
  BY DEF GameOk, GameLink
<1> HIDE DEF inbox
<1>2. Tail(inbox) \in Seq(FromServer) /\ WellEnded(Tail(inbox))
  BY <1>1, TakeInbox
<1>3. /\ l \in GameLink /\ l.near = link.near /\ l.far = link.far /\ l.out = link.out
      /\ l.in = Tail(inbox)
  BY <1>1, <1>2 DEF GameLink, inbox
<1>4. GameOk(l)
  BY <1>2, <1>3 DEF GameOk
<1> QED
  BY <1>3, <1>4

\* A time-out, noticed by both ends or by the server alone.
LEMMA GameFails ==
  ASSUME NEW link, GameOk(link), NEW l \in Broken(link) \union Abandoned(link)
  PROVE  GameOk(l) /\ l.near = link.near /\ l.far = link.far
<1> DEFINE inbox == link.in
           outbox == link.out
<1>1. /\ link \in GameLink /\ inbox \in Seq(FromServer) /\ WellEnded(inbox)
      /\ outbox \in Seq(ToServer) /\ WellEnded(outbox)
      /\ DISCONNECT \in ToServer /\ DISCONNECT \in FromServer
  BY DEF GameOk, GameLink, ToServer, FromServer
<1>2. PICK in, out :
        /\ l = [link EXCEPT !.in = in, !.out = out]
        /\ \/ in = inbox /\ (link.near \in {"none", "down"} \/ Ended(inbox))
           \/ link.near \notin {"none", "down"} /\ ~Ended(inbox) /\ in \in CutShort(inbox)
        /\ \/ out = outbox
           \/ link.far \notin {"none", "down"} /\ ~Ended(outbox) /\ out \in CutShort(outbox)
  <2>1. CASE l \in Broken(link)
    <3> DEFINE I == IF link.near \in {"none", "down"} \/ Ended(link.in)
                    THEN {link.in} ELSE CutShort(link.in)
               O == IF link.far \in {"none", "down"} \/ Ended(link.out)
                    THEN {link.out} ELSE CutShort(link.out)
    <3>1. \E in \in I, out \in O : l = WithInboxes(link, in, out)
      BY <2>1 DEF Broken
    <3>2. PICK in \in I, out \in O : l = [link EXCEPT !.in = in, !.out = out]
      BY <3>1 DEF WithInboxes
    <3>3. \/ in = inbox /\ (link.near \in {"none", "down"} \/ Ended(inbox))
          \/ link.near \notin {"none", "down"} /\ ~Ended(inbox) /\ in \in CutShort(inbox)
      BY DEF I
    <3>4. out = outbox \/ (link.far \notin {"none", "down"} /\ ~Ended(outbox)
                           /\ out \in CutShort(outbox))
      BY DEF O
    <3> QED
      BY <3>2, <3>3, <3>4
  <2>2. CASE l \in Abandoned(link)
    <3>1. PICK out \in CutShort(outbox) : l = [link EXCEPT !.out = out]
      BY <2>2 DEF Abandoned
    <3>2. /\ link.near = "down" /\ link.far \notin {"none", "down"} /\ ~Ended(outbox)
      BY <2>2 DEF Abandoned
    <3>3. l = [link EXCEPT !.in = inbox, !.out = out]
      BY <1>1, <3>1 DEF GameLink
    <3> QED
      BY <3>1, <3>2, <3>3
  <2> QED
    BY <2>1, <2>2
<1>3. \A n \in 1..Len(outbox) : outbox[n] = CONNECT => n = 1 /\ link.far = "accepting"
  BY DEF GameOk
<1> HIDE DEF inbox, outbox
<1>4. /\ in \in Seq(FromServer) /\ WellEnded(in)
      /\ link.near = "connecting" => in # << >>
  BY <1>1, <1>2, CutInbox DEF Ended
<1>5. /\ out \in Seq(ToServer) /\ WellEnded(out)
      /\ link.far \in {"none", "down"} => out = outbox
      /\ \A n \in 1..Len(out) : out[n] = CONNECT => n = 1 /\ link.far = "accepting"
  BY <1>1, <1>2, <1>3, CutInbox, Events
<1>6. /\ l \in GameLink /\ l.near = link.near /\ l.far = link.far
      /\ l.in = in /\ l.out = out
  BY <1>1, <1>2, <1>4, <1>5 DEF GameLink
<1>7. ASSUME link.near = "none"
      PROVE  l = NoLink
  <2>1. link = NoLink /\ link.far = "none"
    BY <1>7 DEF GameOk, NoLink
  <2>2. in = link.in /\ out = link.out
    BY <1>2, <1>7, <2>1 DEF inbox, outbox
  <2> QED
    BY <1>2, <2>1, <2>2 DEF NoLink
<1> QED
  BY <1>4, <1>5, <1>6, <1>7 DEF GameOk, outbox

-----------------------------------------------------------------------------
(* What a step leaves alone *)

\* A step that changes one connection to the lobby, and nothing at the lobby.
LEMMA LobbyChange ==
  ASSUME LobbyInv, NEW c \in Clients, NEW l, LobbyOk(c, l, clients_),
         lobby_link' = [lobby_link EXCEPT ![c] = l], UNCHANGED lobbyVars
  PROVE  LobbyInv'
<1>1. l \in LobbyLink
  BY DEF LobbyOk
<1> QED
  BY <1>1 DEF LobbyInv, lobbyVars

\* A step that does nothing to the lobby and the connections to it.
LEMMA LobbyKept ==
  ASSUME LobbyInv, UNCHANGED <<lobbyVars, lobby_link>>
  PROVE  LobbyInv'
BY DEF LobbyInv, lobbyVars

\* A step that changes one connection to a server.
LEMMA GameChange ==
  ASSUME GameInv, NEW c \in Clients, NEW l, GameOk(l),
         game_link' = [game_link EXCEPT ![c] = l]
  PROVE  GameInv'
<1>1. l \in GameLink
  BY DEF GameOk
<1> QED
  BY <1>1 DEF GameInv

\* A step that changes none.
LEMMA GameKept ==
  ASSUME GameInv, UNCHANGED game_link
  PROVE  GameInv'
BY DEF GameInv

\* A server sees of a client only the far end of the connection.
LEMMA ServersKept ==
  ASSUME ServerInv, UNCHANGED serverVars,
         \A c \in Clients : /\ game_link'[c].far = game_link[c].far
                            /\ game_link[c].far # "none" =>
                                  game_server'[c] = game_server[c]
  PROVE  ServerInv'
<1>1. UNCHANGED <<peers, players, pending_connect_, pending_disconnect_, aborted>>
  BY DEF serverVars
<1>2. Seated'
  BY <1>1 DEF ServerInv, Seated
<1>3. PlayersAreUp'
  BY <1>1 DEF ServerInv, PlayersAreUp
<1>4. CallbacksWaitForClosing'
  BY <1>1 DEF ServerInv, CallbacksWaitForClosing
<1> QED
  BY <1>1, <1>2, <1>3, <1>4 DEF ServerInv

-----------------------------------------------------------------------------
(* Steps of a client *)

\* A lobby is started by a client that is still connected to it.
LEMMA beginStep ==
  ASSUME IInv, NEW c \in Clients, begin(c)
  PROVE  IInv'
<1> USE DEF IInv
<1> DEFINE l == SendFar(lobby_link[c], StartLobby)
<1>1. LobbyOk(c, lobby_link[c], clients_) /\ lobby_link \in [Clients -> LobbyLink]
  BY DEF LobbyInv
<1>2. LobbyOk(c, l, clients_) /\ l.near = lobby_link[c].near
  BY <1>1, LobbySendFar
<1>3. /\ lobby_link' = [lobby_link EXCEPT ![c] = l]
      /\ begins < MaxBegins /\ begins' = begins + 1
      /\ UNCHANGED <<lobbyVars, game_link, clientVars, serverVars, failures,
                     pressedESC, escapes>>
  BY DEF begin
<1> HIDE DEF l
<1>4. LobbyInv'
  BY <1>2, <1>3, LobbyChange
<1>5. GameInv'
  BY <1>3, GameKept
<1>6. ClientInv'
  <2>1. \A d \in Clients : lobby_link'[d].near = lobby_link[d].near
    BY <1>1, <1>2, <1>3
  <2>2. \A d \in Clients : PeersOk(d)'
    BY <1>3, <2>1 DEF ClientInv, PeersOk, clientVars
  <2>3. begins' \in 0..MaxBegins
    BY <1>3, BoundsAssumption DEF ClientInv
  <2> QED
    BY <1>3, <2>2, <2>3 DEF ClientInv, clientVars
<1>7. ServerInv'
  BY <1>3, ServersKept DEF clientVars
<1> QED
  BY <1>4, <1>5, <1>6, <1>7

\* close leaves every connection sound, and forgets the peer it closes.
LEMMA CloseStep ==
  ASSUME IInv, NEW c \in Clients, close(c),
         UNCHANGED <<lobbyVars, game_server, serverVars>>
  PROVE  /\ LobbyInv' /\ GameInv' /\ ServerInv'
         /\ \A d \in Clients : PeersOk(d)'
         /\ lobby_peer_' \in [Clients -> BOOLEAN] /\ server_peer_' \in [Clients -> BOOLEAN]
         /\ stop_on_disconnect' \in [Clients -> SUBSET {"lobby", "game"}]
         /\ shouldStop_' \in [Clients -> BOOLEAN]
<1> USE DEF IInv
<1>1. /\ LobbyOk(c, lobby_link[c], clients_) /\ lobby_link \in [Clients -> LobbyLink]
      /\ GameOk(game_link[c]) /\ game_link \in [Clients -> GameLink]
      /\ PeersOk(c) /\ \A d \in Clients : PeersOk(d)
      /\ lobby_peer_ \in [Clients -> BOOLEAN] /\ server_peer_ \in [Clients -> BOOLEAN]
      /\ stop_on_disconnect \in [Clients -> SUBSET {"lobby", "game"}]
      /\ shouldStop_ \in [Clients -> BOOLEAN]
  BY DEF LobbyInv, GameInv, ClientInv
<1>2. CASE server_peer_[c]
  <2> DEFINE l == CloseNear(game_link[c])
  <2>1. /\ game_link' = [game_link EXCEPT ![c] = l]
        /\ server_peer_' = [server_peer_ EXCEPT ![c] = FALSE]
        /\ stop_on_disconnect' = [stop_on_disconnect EXCEPT ![c] = @ \union {"game"}]
        /\ UNCHANGED <<lobby_link, lobby_peer_, shouldStop_>>
    BY <1>2 DEF close
  <2>2. game_link[c].near \notin {"none", "connecting"}
    BY <1>1, <1>2 DEF PeersOk
  <2>3. GameOk(l) /\ l.far = game_link[c].far /\ l.near \in {"closing", "down"}
    BY <1>1, <2>2, GameCloseNear
  <2> HIDE DEF l
  <2>4. LobbyInv' /\ GameInv'
    BY <2>1, <2>3, LobbyKept, GameChange DEF lobbyVars
  <2>5. \A d \in Clients : game_link'[d].far = game_link[d].far
    BY <1>1, <2>1, <2>3
  <2>6. ServerInv'
    BY <2>5, ServersKept
  <2>7. \A d \in Clients : PeersOk(d)'
    BY <1>1, <2>1, <2>2, <2>3 DEF PeersOk
  <2>8. stop_on_disconnect' \in [Clients -> SUBSET {"lobby", "game"}]
    BY <1>1, <2>1
  <2> QED
    BY <1>1, <2>1, <2>4, <2>6, <2>7, <2>8
<1>3. CASE ~server_peer_[c] /\ lobby_peer_[c]
  <2> DEFINE l == CloseNear(lobby_link[c])
  <2>1. /\ lobby_link' = [lobby_link EXCEPT ![c] = l]
        /\ lobby_peer_' = [lobby_peer_ EXCEPT ![c] = FALSE]
        /\ stop_on_disconnect' = [stop_on_disconnect EXCEPT ![c] = @ \union {"lobby"}]
        /\ UNCHANGED <<game_link, server_peer_, shouldStop_>>
    BY <1>3 DEF close
  <2>2. LobbyOk(c, l, clients_) /\ l.near \in {"closing", "down"}
    <3>1. lobby_link[c].near # "connecting"
      BY <1>1, <1>3 DEF PeersOk
    <3> QED
      BY <1>1, <3>1, LobbyCloseNear
  <2> HIDE DEF l
  <2>3. LobbyInv' /\ GameInv'
    BY <2>1, <2>2, LobbyChange, GameKept
  <2>4. ServerInv'
    BY <2>1, ServersKept
  <2>5. \A d \in Clients : PeersOk(d)'
    BY <1>1, <2>1, <2>2 DEF PeersOk
  <2>6. stop_on_disconnect' \in [Clients -> SUBSET {"lobby", "game"}]
    BY <1>1, <2>1
  <2> QED
    BY <1>1, <2>1, <2>3, <2>4, <2>5, <2>6
<1>4. CASE ~server_peer_[c] /\ ~lobby_peer_[c]
  <2>1. /\ shouldStop_' = [shouldStop_ EXCEPT ![c] = TRUE]
        /\ UNCHANGED <<lobby_link, game_link, lobby_peer_, server_peer_, stop_on_disconnect>>
    BY <1>4 DEF close, linkVars
  <2>2. LobbyInv' /\ GameInv' /\ ServerInv'
    BY <2>1, LobbyKept, GameKept, ServersKept DEF lobbyVars
  <2>3. \A d \in Clients : PeersOk(d)'
    BY <1>1, <2>1 DEF PeersOk
  <2> QED
    BY <1>1, <2>1, <2>2, <2>3
<1> QED
  BY <1>2, <1>3, <1>4

\* ESC closes the connection there is, or stops the program.
LEMMA keyDownESCStep ==
  ASSUME IInv, NEW c \in Clients, keyDownESC(c)
  PROVE  IInv'
<1>1. /\ escapes[c] < MaxEscapes /\ escapes' = [escapes EXCEPT ![c] = @ + 1]
      /\ pressedESC' = pressedESC \union {c} /\ close(c)
      /\ UNCHANGED <<lobbyVars, game_server, exited, serverVars, begins, failures>>
  BY DEF keyDownESC
<1>2. /\ LobbyInv' /\ GameInv' /\ ServerInv'
      /\ \A d \in Clients : PeersOk(d)'
      /\ lobby_peer_' \in [Clients -> BOOLEAN] /\ server_peer_' \in [Clients -> BOOLEAN]
      /\ stop_on_disconnect' \in [Clients -> SUBSET {"lobby", "game"}]
      /\ shouldStop_' \in [Clients -> BOOLEAN]
  BY <1>1, CloseStep
<1>3. escapes' \in [Clients -> 0..MaxEscapes]
  BY <1>1, BoundsAssumption DEF IInv, ClientInv
<1>4. pressedESC' \subseteq Clients
  BY <1>1 DEF IInv, ClientInv
<1> QED
  BY <1>1, <1>2, <1>3, <1>4 DEF IInv, ClientInv

\* /exit closes the connection to a server and does nothing elsewhere.
LEMMA handleLineExitStep ==
  ASSUME IInv, NEW c \in Clients, handleLineExit(c)
  PROVE  IInv'
<1>1. /\ escapes[c] < MaxEscapes /\ escapes' = [escapes EXCEPT ![c] = @ + 1]
      /\ UNCHANGED <<lobbyVars, game_server, exited, serverVars, pressedESC, begins,
                     failures>>
  BY DEF handleLineExit
<1>2. /\ LobbyInv' /\ GameInv' /\ ServerInv'
      /\ \A d \in Clients : PeersOk(d)'
      /\ lobby_peer_' \in [Clients -> BOOLEAN] /\ server_peer_' \in [Clients -> BOOLEAN]
      /\ stop_on_disconnect' \in [Clients -> SUBSET {"lobby", "game"}]
      /\ shouldStop_' \in [Clients -> BOOLEAN]
  <2>1. CASE server_peer_[c]
    <3>1. close(c)
      BY <2>1 DEF handleLineExit
    <3> QED
      BY <1>1, <3>1, CloseStep
  <2>2. CASE ~server_peer_[c]
    <3>1. UNCHANGED <<lobby_link, game_link, lobby_peer_, server_peer_,
                      stop_on_disconnect, shouldStop_>>
      BY <2>2 DEF handleLineExit, linkVars
    <3>2. LobbyInv' /\ GameInv' /\ ServerInv'
      BY <1>1, <3>1, LobbyKept, GameKept, ServersKept DEF IInv, lobbyVars
    <3>3. \A d \in Clients : PeersOk(d)'
      BY <3>1 DEF IInv, ClientInv, PeersOk
    <3> QED
      BY <3>1, <3>2, <3>3 DEF IInv, ClientInv
  <2> QED
    BY <2>1, <2>2
<1>3. escapes' \in [Clients -> 0..MaxEscapes]
  BY <1>1, BoundsAssumption DEF IInv, ClientInv
<1> QED
  BY <1>1, <1>2, <1>3 DEF IInv, ClientInv

\* A program that exits takes its ends of the connections with it.
LEMMA ExitStep ==
  ASSUME IInv, NEW c \in Clients, Exit(c)
  PROVE  IInv'
<1> USE DEF IInv
<1> DEFINE l == DestroyNear(lobby_link[c])
           g == DestroyNear(game_link[c])
<1>1. /\ LobbyOk(c, lobby_link[c], clients_) /\ lobby_link \in [Clients -> LobbyLink]
      /\ GameOk(game_link[c]) /\ game_link \in [Clients -> GameLink]
  BY DEF LobbyInv, GameInv
<1>2. /\ lobby_link' = [lobby_link EXCEPT ![c] = l]
      /\ game_link' = [game_link EXCEPT ![c] = g]
      /\ exited' = [exited EXCEPT ![c] = TRUE]
      /\ UNCHANGED <<lobbyVars, game_server, lobby_peer_, server_peer_,
                     stop_on_disconnect, shouldStop_, serverVars, userVars, failures>>
  BY DEF Exit
<1>3. LobbyOk(c, l, clients_) /\ l.near = "down"
  <2> DEFINE old == lobby_link[c]
  <2>1. LobbyOk(c, old, clients_) /\ old \in LobbyLink
    BY <1>1
  <2> HIDE DEF old
  <2>2. /\ DestroyNear(old) = [old EXCEPT !.near = "down", !.in = << >>]
        /\ LobbyOk(c, [old EXCEPT !.near = "down", !.in = << >>], clients_)
    BY <2>1, LobbyNearDown
  <2>3. LobbyOk(c, DestroyNear(old), clients_) /\ DestroyNear(old).near = "down"
    BY <2>1, <2>2 DEF LobbyLink
  <2> QED
    BY <2>3 DEF old
<1>4. /\ GameOk(g) /\ g.far = game_link[c].far
      /\ g.near = "none" <=> game_link[c].near = "none"
      /\ g.near # "connecting"
  <2> DEFINE old == game_link[c]
  <2>1. GameOk(old)
    BY <1>1
  <2> HIDE DEF old
  <2>2. CASE old.near = "none"
    BY <2>1, <2>2, GameNearDown DEF old
  <2>3. CASE old.near # "none"
    <3> DEFINE down == [old EXCEPT !.near = "down", !.in = << >>]
    <3>1. /\ GameOk(down) /\ DestroyNear(old) = down
          /\ down.far = old.far /\ down.near = "down"
      BY <2>1, <2>3, GameNearDown
    <3> HIDE DEF down
    <3> QED
      BY <2>3, <3>1 DEF old
  <2> QED
    BY <2>2, <2>3
<1> HIDE DEF l, g
<1>5. LobbyInv' /\ GameInv'
  BY <1>2, <1>3, <1>4, LobbyChange, GameChange
<1>6. ServerInv'
  <2>1. \A d \in Clients : game_link'[d].far = game_link[d].far
    BY <1>1, <1>2, <1>4
  <2> QED
    BY <1>2, <2>1, ServersKept
<1>7. ClientInv'
  <2>1. \A d \in Clients : PeersOk(d)'
    BY <1>1, <1>2, <1>3, <1>4 DEF ClientInv, PeersOk
  <2> QED
    BY <1>2, <2>1 DEF ClientInv, userVars
<1> QED
  BY <1>5, <1>6, <1>7

\* Connected, the client registers before anything else.
LEMMA ConnectedToLobbyStep ==
  ASSUME IInv, NEW c \in Clients, ConnectedToLobby(c)
  PROVE  IInv'
<1> USE DEF IInv
<1> DEFINE l == Registered(lobby_link[c])
<1>1. /\ LobbyOk(c, lobby_link[c], clients_) /\ lobby_link \in [Clients -> LobbyLink]
      /\ lobby_link[c] = Connecting
  BY DEF LobbyInv, ConnectedToLobby
<1>2. /\ lobby_link' = [lobby_link EXCEPT ![c] = l]
      /\ lobby_peer_' = [lobby_peer_ EXCEPT ![c] = TRUE]
      /\ UNCHANGED <<lobbyVars, game_link, game_server, server_peer_,
                     stop_on_disconnect, shouldStop_, exited, serverVars, userVars,
                     failures>>
  BY DEF ConnectedToLobby
<1>3. l = [near |-> "up", far |-> "up", in |-> << >>, out |-> <<RegisterClientInLobby>>]
  <2> DEFINE up == [lobby_link[c] EXCEPT !.near = "up", !.far = "up"]
  <2>1. up = [near |-> "up", far |-> "up", in |-> << >>, out |-> << >>]
    <3> DEFINE old == lobby_link[c]
    <3>1. old = [near |-> "connecting", far |-> "none", in |-> << >>, out |-> << >>]
      BY <1>1 DEF Connecting, NoLink
    <3>2. up = [old EXCEPT !.near = "up", !.far = "up"]
      OBVIOUS
    <3> HIDE DEF old, up
    <3> QED
      BY <3>1, <3>2
  <2>2. l = SendFar(up, RegisterClientInLobby)
    BY DEF Registered
  <2> HIDE DEF up
  <2>3. l = [up EXCEPT !.out = Put(up.out, RegisterClientInLobby)]
    BY <2>1, <2>2 DEF SendFar
  <2>4. Put(up.out, RegisterClientInLobby) = <<RegisterClientInLobby>>
    <3>1. ~Ended(up.out) /\ up.out = << >>
      BY <2>1 DEF Ended
    <3>2. Append(<< >>, RegisterClientInLobby) = <<RegisterClientInLobby>>
      OBVIOUS
    <3> QED
      BY <3>1, <3>2 DEF Put
  <2> QED
    BY <2>1, <2>3, <2>4
<1>4. lobby_link[c].near = "connecting" /\ lobby_link[c].far = "none"
  BY <1>1 DEF Connecting, NoLink
<1>5. LobbyOk(c, l, clients_)
  <2>1. /\ <<RegisterClientInLobby>> \in Seq(ToLobby) /\ << >> \in Seq(FromLobby)
        /\ RegisterClientInLobby # DISCONNECT /\ Len(<<RegisterClientInLobby>>) = 1
        /\ <<RegisterClientInLobby>>[1] = RegisterClientInLobby
    BY Events DEF ToLobby
  <2>2. WellEnded(<<RegisterClientInLobby>>) /\ WellEnded(<< >>)
    BY <2>1 DEF WellEnded
  <2>3. l \in LobbyLink
    BY <1>3, <2>1 DEF LobbyLink
  <2> QED
    BY <1>3, <2>1, <2>2, <2>3 DEF LobbyOk
<1>6. l.near = "up"
  BY <1>3
<1> HIDE DEF l
<1>7. LobbyInv' /\ GameInv'
  BY <1>2, <1>5, LobbyChange, GameKept
<1>8. ServerInv'
  BY <1>2, ServersKept
<1>9. ClientInv'
  <2>1. \A d \in Clients : PeersOk(d)'
    BY <1>1, <1>2, <1>4, <1>6 DEF ClientInv, PeersOk
  <2> QED
    BY <1>2, <2>1 DEF ClientInv, userVars
<1> QED
  BY <1>7, <1>8, <1>9

\* A client that is told a server has none yet; it leaves the lobby for it.
LEMMA HandleLobbyStartedStep ==
  ASSUME IInv, NEW c \in Clients, HandleLobbyStarted(c)
  PROVE  IInv'
<1> USE DEF IInv
<1> DEFINE l == Left(lobby_link[c])
           inbox == lobby_link[c].in
           server == Head(inbox).serverAddress
<1>1. /\ LobbyOk(c, lobby_link[c], clients_) /\ lobby_link \in [Clients -> LobbyLink]
      /\ GameOk(game_link[c]) /\ game_link \in [Clients -> GameLink]
      /\ lobby_link[c].near = "up" /\ HeadIs(inbox, "LobbyStarted")
  BY DEF LobbyInv, GameInv, HandleLobbyStarted
<1>2. /\ lobby_link' = [lobby_link EXCEPT ![c] = l]
      /\ lobby_peer_' = [lobby_peer_ EXCEPT ![c] = FALSE]
      /\ game_server' = [game_server EXCEPT ![c] = server]
      /\ game_link' = [game_link EXCEPT ![c] = Connecting]
      /\ UNCHANGED <<lobbyVars, server_peer_, stop_on_disconnect, shouldStop_, exited,
                     serverVars, userVars, failures>>
  BY DEF HandleLobbyStarted, ConnectTo
<1>3. server \in Servers
  <2>1. inbox \in Seq(FromLobby) /\ WellEnded(inbox) /\ inbox # << >>
    BY <1>1 DEF LobbyOk, LobbyLink, HeadIs
  <2>2. Head(inbox).type = "LobbyStarted"
    BY <1>1 DEF HeadIs
  <2> HIDE DEF inbox
  <2>3. Head(inbox) \in FromLobby
    BY <2>1, TakeInbox
  <2>4. PICK s \in Servers : Head(inbox) = LobbyStarted(s)
    BY <2>2, <2>3, Events DEF FromLobby
  <2> QED
    BY <2>4, Events
<1>4. LobbyOk(c, l, clients_) /\ l.near \in {"closing", "down"}
  <2> DEFINE taken == [lobby_link[c] EXCEPT !.in = Tail(@)]
  <2>1. LobbyOk(c, taken, clients_)
    BY <1>1, LobbyTake DEF HeadIs
  <2>2. taken.near = "up"
    BY <1>1 DEF LobbyLink
  <2>3. l = CloseNear(taken)
    BY DEF Left
  <2> HIDE DEF taken
  <2> QED
    BY <2>1, <2>2, <2>3, LobbyCloseNear
<1>5. game_link[c] = NoLink /\ game_link[c].far = "none"
  <2>1. game_link[c].near = "none"
    BY <1>1 DEF ClientInv, PeersOk
  <2> QED
    BY <1>1, <2>1 DEF GameOk, NoLink
<1>6. GameOk(Connecting) /\ Connecting.near = "connecting" /\ Connecting.far = "none"
  <2>1. /\ Connecting = [near |-> "connecting", far |-> "none", in |-> << >>, out |-> << >>]
        /\ << >> \in Seq(FromServer) /\ << >> \in Seq(ToServer) /\ WellEnded(<< >>)
    BY DEF Connecting, NoLink, WellEnded
  <2>2. Connecting \in GameLink
    BY <2>1 DEF GameLink
  <2> QED
    BY <2>1, <2>2 DEF GameOk
<1> HIDE DEF l, server, inbox
<1>7. LobbyInv' /\ GameInv'
  BY <1>2, <1>4, <1>6, LobbyChange, GameChange
<1>8. ServerInv'
  <2>1. \A d \in Clients : /\ game_link'[d].far = game_link[d].far
                           /\ game_link[d].far # "none" =>
                                 game_server'[d] = game_server[d]
    BY <1>1, <1>2, <1>5, <1>6 DEF ClientInv
  <2> QED
    BY <1>2, <2>1, ServersKept
<1>9. ClientInv'
  <2>1. ~server_peer_[c]
    BY <1>1 DEF ClientInv, PeersOk
  <2>2. \A d \in Clients : PeersOk(d)'
    BY <1>1, <1>2, <1>4, <1>6, <2>1 DEF ClientInv, PeersOk
  <2>3. game_server' \in [Clients -> Servers \union {"nobody"}]
    BY <1>2, <1>3 DEF ClientInv
  <2> QED
    BY <1>2, <2>2, <2>3 DEF ClientInv, userVars
<1> QED
  BY <1>7, <1>8, <1>9

\* The server hears of the connection when the client does.
LEMMA ConnectedToServerStep ==
  ASSUME IInv, NEW c \in Clients, ConnectedToServer(c)
  PROVE  IInv'
<1> USE DEF IInv
<1> DEFINE g == [game_link[c] EXCEPT !.near = "up", !.out = Append(@, CONNECT)]
<1>1. /\ GameOk(game_link[c]) /\ game_link \in [Clients -> GameLink]
      /\ game_link[c].near = "connecting" /\ game_link[c].far = "accepting"
      /\ game_link[c].in = << >>
  BY DEF GameInv, ConnectedToServer
<1>2. /\ game_link' = [game_link EXCEPT ![c].near = "up", ![c].out = Append(@, CONNECT)]
      /\ server_peer_' = [server_peer_ EXCEPT ![c] = TRUE]
      /\ UNCHANGED <<lobbyVars, lobby_link, game_server, lobby_peer_,
                     stop_on_disconnect, shouldStop_, exited, serverVars, userVars,
                     failures>>
  BY DEF ConnectedToServer
<1>3. game_link' = [game_link EXCEPT ![c] = g]
  BY <1>1, <1>2 DEF GameLink
<1>4. game_link[c].out = << >>
  BY <1>1 DEF GameOk
<1>5. g = [near |-> "up", far |-> "accepting", in |-> << >>, out |-> <<CONNECT>>]
  <2> DEFINE old == game_link[c]
  <2>1. old = [near |-> "connecting", far |-> "accepting", in |-> << >>, out |-> << >>]
    BY <1>1, <1>4 DEF GameLink
  <2>2. Append(old.out, CONNECT) = <<CONNECT>>
    <3>1. Append(<< >>, CONNECT) = <<CONNECT>>
      OBVIOUS
    <3> QED
      BY <1>4, <3>1
  <2>3. g = [old EXCEPT !.near = "up", !.out = Append(old.out, CONNECT)]
    OBVIOUS
  <2> HIDE DEF old, g
  <2> QED
    BY <2>1, <2>2, <2>3
<1>6. GameOk(g) /\ g.near = "up" /\ g.far = "accepting"
  <2>1. /\ <<CONNECT>> \in Seq(ToServer) /\ << >> \in Seq(FromServer)
        /\ CONNECT # DISCONNECT /\ Len(<<CONNECT>>) = 1 /\ <<CONNECT>>[1] = CONNECT
    BY Events DEF ToServer
  <2>2. WellEnded(<<CONNECT>>) /\ WellEnded(<< >>)
    BY <2>1 DEF WellEnded
  <2>3. g \in GameLink
    BY <1>5, <2>1 DEF GameLink
  <2>4. /\ g.near = "up" /\ g.far = "accepting" /\ g.in = << >>
        /\ g.out = <<CONNECT>> /\ Len(g.out) = 1 /\ g.out[1] = CONNECT
    BY <1>5, <2>1
  <2> HIDE DEF g
  <2>5. \A n \in 1..Len(g.out) : n = 1
    BY <2>4
  <2> QED
    BY <2>2, <2>3, <2>4, <2>5 DEF GameOk
<1> HIDE DEF g
<1>7. LobbyInv' /\ GameInv'
  BY <1>2, <1>3, <1>6, LobbyKept, GameChange
<1>8. ServerInv'
  <2>1. \A d \in Clients : game_link'[d].far = game_link[d].far
    BY <1>1, <1>3, <1>6
  <2> QED
    BY <1>2, <2>1, ServersKept
<1>9. ClientInv'
  <2>1. \A d \in Clients : PeersOk(d)'
    BY <1>1, <1>2, <1>3, <1>6 DEF ClientInv, PeersOk
  <2> QED
    BY <1>2, <2>1 DEF ClientInv, userVars
<1> QED
  BY <1>7, <1>8, <1>9

\* The packet meant for the lobby is dropped.
LEMMA HandleUnsupportedStep ==
  ASSUME IInv, NEW c \in Clients, HandleUnsupported(c)
  PROVE  IInv'
<1> USE DEF IInv
<1> DEFINE g == [game_link[c] EXCEPT !.in = Tail(@)]
<1>1. /\ GameOk(game_link[c]) /\ game_link \in [Clients -> GameLink]
      /\ game_link[c].near = "up" /\ game_link[c].in # << >>
  BY DEF GameInv, HandleUnsupported, HeadIs
<1>2. /\ game_link' = [game_link EXCEPT ![c].in = Tail(@)]
      /\ UNCHANGED <<lobbyVars, lobby_link, clientVars, serverVars, userVars, failures>>
  BY DEF HandleUnsupported
<1>3. game_link' = [game_link EXCEPT ![c] = g]
  BY <1>1, <1>2 DEF GameLink
<1>4. GameOk(g) /\ g.near = game_link[c].near /\ g.far = game_link[c].far
  BY <1>1, GameTake
<1> HIDE DEF g
<1>5. LobbyInv' /\ GameInv'
  BY <1>2, <1>3, <1>4, LobbyKept, GameChange
<1>6. \A d \in Clients : /\ game_link'[d].far = game_link[d].far
                         /\ game_link'[d].near = game_link[d].near
  BY <1>1, <1>3, <1>4
<1>7. ServerInv'
  BY <1>2, <1>6, ServersKept DEF clientVars
<1>8. ClientInv'
  <2>1. \A d \in Clients : PeersOk(d)'
    BY <1>2, <1>6 DEF ClientInv, PeersOk, clientVars
  <2> QED
    BY <1>2, <2>1 DEF ClientInv, userVars, clientVars
<1> QED
  BY <1>5, <1>7, <1>8

\* The client learns that it has left the lobby.
LEMMA DisconnectedFromLobbyStep ==
  ASSUME IInv, NEW c \in Clients, DisconnectedFromLobby(c)
  PROVE  IInv'
<1> USE DEF IInv
<1> DEFINE l == [lobby_link[c] EXCEPT !.near = "down", !.in = << >>]
<1>1. LobbyOk(c, lobby_link[c], clients_) /\ lobby_link \in [Clients -> LobbyLink]
  BY DEF LobbyInv
<1>2. /\ lobby_link' = [lobby_link EXCEPT ![c].near = "down", ![c].in = << >>]
      /\ UNCHANGED game_link
      /\ shouldStop_' = [shouldStop_ EXCEPT ![c] = @ \/ "lobby" \in stop_on_disconnect[c]]
      /\ stop_on_disconnect' = [stop_on_disconnect EXCEPT ![c] = @ \ {"lobby"}]
      /\ UNCHANGED <<lobbyVars, game_server, lobby_peer_, server_peer_, exited,
                     serverVars, userVars, failures>>
  BY DEF DisconnectedFromLobby, Disconnected, CallBack
<1>3. lobby_link' = [lobby_link EXCEPT ![c] = l]
  BY <1>1, <1>2 DEF LobbyLink
<1>4. LobbyOk(c, l, clients_) /\ l.near = "down"
  BY <1>1, LobbyNearDown DEF LobbyLink
<1> HIDE DEF l
<1>5. LobbyInv' /\ GameInv'
  BY <1>2, <1>3, <1>4, LobbyChange, GameKept
<1>6. ServerInv'
  BY <1>2, ServersKept
<1>7. ClientInv'
  <2>1. \A d \in Clients : PeersOk(d)'
    BY <1>1, <1>2, <1>3, <1>4 DEF ClientInv, PeersOk
  <2>2. shouldStop_' \in [Clients -> BOOLEAN]
    BY <1>2 DEF ClientInv
  <2>3. stop_on_disconnect' \in [Clients -> SUBSET {"lobby", "game"}]
    BY <1>2 DEF ClientInv
  <2> QED
    BY <1>2, <2>1, <2>2, <2>3 DEF ClientInv, userVars
<1> QED
  BY <1>5, <1>6, <1>7

\* The client learns that it has left its server.
LEMMA DisconnectedFromServerStep ==
  ASSUME IInv, NEW c \in Clients, DisconnectedFromServer(c)
  PROVE  IInv'
<1> USE DEF IInv
<1> DEFINE g == [game_link[c] EXCEPT !.near = "down", !.in = << >>]
<1>1. /\ GameOk(game_link[c]) /\ game_link \in [Clients -> GameLink]
      /\ game_link[c].near \in {"connecting", "up", "closing"}
  BY DEF GameInv, DisconnectedFromServer, Disconnected
<1>2. /\ game_link' = [game_link EXCEPT ![c].near = "down", ![c].in = << >>]
      /\ UNCHANGED lobby_link
      /\ shouldStop_' = [shouldStop_ EXCEPT ![c] = @ \/ "game" \in stop_on_disconnect[c]]
      /\ stop_on_disconnect' = [stop_on_disconnect EXCEPT ![c] = @ \ {"game"}]
      /\ UNCHANGED <<lobbyVars, game_server, lobby_peer_, server_peer_, exited,
                     serverVars, userVars, failures>>
  BY DEF DisconnectedFromServer, Disconnected, CallBack
<1>3. game_link' = [game_link EXCEPT ![c] = g]
  BY <1>1, <1>2 DEF GameLink
<1>4. GameOk(g) /\ g.near = "down" /\ g.far = game_link[c].far
  BY <1>1, GameNearDown
<1> HIDE DEF g
<1>5. LobbyInv' /\ GameInv'
  BY <1>2, <1>3, <1>4, LobbyKept, GameChange
<1>6. ServerInv'
  <2>1. \A d \in Clients : game_link'[d].far = game_link[d].far
    BY <1>1, <1>3, <1>4
  <2> QED
    BY <1>2, <2>1, ServersKept
<1>7. ClientInv'
  <2>1. \A d \in Clients : PeersOk(d)'
    BY <1>1, <1>2, <1>3, <1>4 DEF ClientInv, PeersOk
  <2>2. shouldStop_' \in [Clients -> BOOLEAN]
    BY <1>2 DEF ClientInv
  <2>3. stop_on_disconnect' \in [Clients -> SUBSET {"lobby", "game"}]
    BY <1>2 DEF ClientInv
  <2> QED
    BY <1>2, <2>1, <2>2, <2>3 DEF ClientInv, userVars
<1> QED
  BY <1>5, <1>6, <1>7

-----------------------------------------------------------------------------
(* Steps of the lobby *)

\* A step of the lobby or a server leaves what clients note about themselves alone.
LEMMA ClientsKept ==
  ASSUME ClientInv, UNCHANGED <<clientVars, userVars, failures>>,
         \A c \in Clients : /\ lobby_link'[c].near = lobby_link[c].near
                            /\ game_link'[c].near = game_link[c].near
  PROVE  ClientInv'
<1>1. \A c \in Clients : PeersOk(c)'
  BY DEF ClientInv, PeersOk, clientVars
<1> QED
  BY <1>1 DEF ClientInv, clientVars, userVars

\* A packet of a client reaches the lobby on a connection that is up; and it is
\* listed if the packet is not its registration.
LEMMA Reading ==
  ASSUME IInv, NEW c \in Clients, lobby_link[c].out # << >>
  PROVE  /\ LobbyOk(c, lobby_link[c], clients_) /\ lobby_link[c] \in LobbyLink
         /\ lobby_link[c].far = "up"
         /\ Head(lobby_link[c].out) = lobby_link[c].out[1]
         /\ HeadIs(lobby_link[c].out, "StartLobby") => c \in clients_
<1>1. LobbyOk(c, lobby_link[c], clients_) /\ lobby_link[c] \in LobbyLink
  BY DEF IInv, LobbyInv
<1>2. lobby_link[c].far = "up"
  BY <1>1 DEF LobbyOk
<1>3. Head(lobby_link[c].out) = lobby_link[c].out[1]
  <2> DEFINE outbox == lobby_link[c].out
  <2>1. outbox \in Seq(ToLobby) /\ WellEnded(outbox) /\ outbox # << >>
    BY <1>1 DEF LobbyOk, LobbyLink
  <2> HIDE DEF outbox
  <2>2. Head(outbox) = outbox[1]
    BY <2>1, TakeInbox
  <2> QED
    BY <2>2 DEF outbox
<1>4. ASSUME c \notin clients_
      PROVE  ~HeadIs(lobby_link[c].out, "StartLobby")
  <2>1. lobby_link[c].out[1] \in {RegisterClientInLobby, DISCONNECT}
    BY <1>1, <1>2, <1>4 DEF LobbyOk
  <2> QED
    BY <1>3, <2>1, Events DEF HeadIs
<1> QED
  BY <1>1, <1>2, <1>3, <1>4

\* A client is listed.
LEMMA HandleRegisterClientInLobbyStep ==
  ASSUME IInv, NEW c \in Clients, HandleRegisterClientInLobby(c)
  PROVE  IInv'
<1> USE DEF IInv
<1> DEFINE l == [lobby_link[c] EXCEPT !.out = Tail(@)]
<1>1. /\ clients_' = clients_ \union {c}
      /\ lobby_link' = [lobby_link EXCEPT ![c].out = Tail(@)]
      /\ UNCHANGED <<servers_, registrations, game_link, clientVars, serverVars,
                     userVars, failures>>
      /\ lobby_link[c].out # << >>
  BY DEF HandleRegisterClientInLobby, HeadIs
<1>2. /\ lobby_link \in [Clients -> LobbyLink] /\ LobbyOk(c, lobby_link[c], clients_)
      /\ lobby_link[c] \in LobbyLink
  BY DEF LobbyInv
<1>3. lobby_link' = [lobby_link EXCEPT ![c] = l]
  BY <1>1, <1>2 DEF LobbyLink
<1>4. LobbyOk(c, l, clients_') /\ l.near = lobby_link[c].near
  <2>1. LobbyOk(c, l, clients_')
    BY <1>1, <1>2, LobbyReads
  <2> QED
    BY <1>2, <2>1 DEF LobbyLink
<1> HIDE DEF l
<1>5. LobbyInv'
  <2>1. l \in LobbyLink
    BY <1>4 DEF LobbyOk
  <2>2. \A d \in Clients \ {c} : LobbyOk(d, lobby_link[d], clients_')
    BY <1>1, LobbyOthers DEF LobbyInv
  <2>3. \A d \in Clients : LobbyOk(d, lobby_link'[d], clients_')
    BY <1>2, <1>3, <1>4, <2>2
  <2> QED
    BY <1>1, <1>2, <1>3, <2>1, <2>3 DEF LobbyInv
<1>6. GameInv' /\ ServerInv'
  BY <1>1, GameKept, ServersKept DEF clientVars
<1>7. ClientInv'
  <2>1. \A d \in Clients : lobby_link'[d].near = lobby_link[d].near
    BY <1>2, <1>3, <1>4
  <2> QED
    BY <1>1, <2>1, ClientsKept
<1> QED
  BY <1>5, <1>6, <1>7

\* A server is queued.
LEMMA HandleRegisterServerInLobbyStep ==
  ASSUME IInv, NEW s \in Servers, HandleRegisterServerInLobby(s)
  PROVE  IInv'
<1> USE DEF IInv
<1>1. /\ registrations[s] > 0 /\ registrations' = [registrations EXCEPT ![s] = @ - 1]
      /\ servers_' = Append(servers_, s)
      /\ UNCHANGED <<clients_, linkVars, clientVars, serverVars, userVars, failures>>
  BY DEF HandleRegisterServerInLobby
<1>2. servers_' \in Seq(Servers)
  BY <1>1, AppendProperties DEF LobbyInv
<1>3. registrations' \in [Servers -> Nat]
  BY <1>1 DEF LobbyInv
<1>4. LobbyInv'
  BY <1>1, <1>2, <1>3 DEF LobbyInv, linkVars
<1>5. GameInv' /\ ServerInv' /\ ClientInv'
  BY <1>1, GameKept, ServersKept, ClientsKept DEF clientVars, linkVars
<1> QED
  BY <1>4, <1>5

\* The server at the head of the queue is named to all the clients listed.
LEMMA HandleStartLobbyStep ==
  ASSUME IInv, NEW c \in Clients, HandleStartLobby(c)
  PROVE  IInv'
<1> USE DEF IInv
<1> DEFINE l == [lobby_link[c] EXCEPT !.out = Tail(@)]
           taken == [lobby_link EXCEPT ![c].out = Tail(@)]
<1>1. /\ UNCHANGED <<clients_, registrations, game_link, clientVars, serverVars,
                     userVars, failures>>
      /\ lobby_link[c].out # << >> /\ HeadIs(lobby_link[c].out, "StartLobby")
  BY DEF HandleStartLobby, HeadIs
<1>2. /\ lobby_link \in [Clients -> LobbyLink] /\ LobbyOk(c, lobby_link[c], clients_)
      /\ lobby_link[c] \in LobbyLink /\ c \in clients_
  BY <1>1, Reading DEF LobbyInv
<1>3. LobbyOk(c, l, clients_) /\ l.near = lobby_link[c].near
  <2>1. LobbyOk(c, l, clients_)
    BY <1>1, <1>2, LobbyReads
  <2> QED
    BY <1>2, <2>1 DEF LobbyLink
<1>4. taken = [lobby_link EXCEPT ![c] = l]
  BY <1>2 DEF LobbyLink
<1>5. \/ lobby_link' = taken /\ UNCHANGED servers_
      \/ /\ servers_ # << >> /\ servers_' = Tail(servers_)
         /\ lobby_link' = [d \in Clients |->
               IF d \in clients_ THEN SendNear(taken[d], LobbyStarted(Head(servers_)))
               ELSE taken[d]]
  BY DEF HandleStartLobby
<1> HIDE DEF l, taken
<1>6. \A d \in Clients : LobbyOk(d, taken[d], clients_) /\ taken[d].near = lobby_link[d].near
  BY <1>2, <1>3, <1>4 DEF LobbyInv
<1>7. /\ servers_' \in Seq(Servers)
      /\ lobby_link' = [d \in Clients |-> lobby_link'[d]]
      /\ \A d \in Clients : /\ LobbyOk(d, lobby_link'[d], clients_)
                            /\ lobby_link'[d].near = lobby_link[d].near
  <2>1. CASE lobby_link' = taken /\ UNCHANGED servers_
    BY <1>2, <1>4, <1>6, <2>1 DEF LobbyInv
  <2>2. CASE /\ servers_ # << >> /\ servers_' = Tail(servers_)
             /\ lobby_link' = [d \in Clients |->
                   IF d \in clients_ THEN SendNear(taken[d], LobbyStarted(Head(servers_)))
                   ELSE taken[d]]
    <3>1. servers_ \in Seq(Servers)
      BY DEF LobbyInv
    <3>2. Head(servers_) \in Servers /\ Tail(servers_) \in Seq(Servers)
      BY <2>2, <3>1, HeadTailProperties
    <3> DEFINE server == Head(servers_)
    <3> HIDE DEF server
    <3>3. \A d \in Clients : /\ LobbyOk(d, SendNear(taken[d], LobbyStarted(server)), clients_)
                             /\ SendNear(taken[d], LobbyStarted(server)).near
                                   = lobby_link[d].near
      <4>1. server \in Servers
        BY <3>2 DEF server
      <4> QED
        BY <1>6, <4>1, LobbySendNear
    <3>4. \A d \in Clients : lobby_link'[d] = IF d \in clients_
                                THEN SendNear(taken[d], LobbyStarted(server))
                                ELSE taken[d]
      BY <2>2 DEF server
    <3>5. \A d \in Clients : /\ LobbyOk(d, lobby_link'[d], clients_)
                             /\ lobby_link'[d].near = lobby_link[d].near
      BY <1>6, <3>3, <3>4
    <3>6. lobby_link' = [d \in Clients |-> lobby_link'[d]]
      BY <2>2
    <3> QED
      BY <2>2, <3>2, <3>5, <3>6
  <2> QED
    BY <1>5, <2>1, <2>2
<1>8. LobbyInv'
  <2>1. \A d \in Clients : lobby_link'[d] \in LobbyLink
    BY <1>7 DEF LobbyOk
  <2>2. lobby_link' \in [Clients -> LobbyLink]
    BY <1>7, <2>1
  <2> QED
    BY <1>1, <1>7, <2>2 DEF LobbyInv
<1>9. GameInv' /\ ServerInv' /\ ClientInv'
  BY <1>1, <1>7, GameKept, ServersKept, ClientsKept DEF clientVars
<1> QED
  BY <1>8, <1>9

\* A client that is gone is no longer listed.
LEMMA LobbyDisconnectedStep ==
  ASSUME IInv, NEW c \in Clients, LobbyDisconnected(c)
  PROVE  IInv'
<1> USE DEF IInv
<1> DEFINE old == lobby_link[c]
           l == [old EXCEPT !.far = "down", !.out = << >>]
<1>1. /\ clients_' = clients_ \ {c}
      /\ lobby_link' = [lobby_link EXCEPT ![c].far = "down", ![c].out = << >>]
      /\ UNCHANGED <<servers_, registrations, game_link, clientVars, serverVars,
                     userVars, failures>>
      /\ old.out # << >>
  BY DEF LobbyDisconnected, HeadIs, ClientsWithout
<1>2. /\ lobby_link \in [Clients -> LobbyLink] /\ LobbyOk(c, old, clients_)
      /\ old \in LobbyLink
  BY DEF LobbyInv
<1>3. lobby_link' = [lobby_link EXCEPT ![c] = l]
  BY <1>1, <1>2 DEF LobbyLink
<1>4. LobbyOk(c, l, clients_') /\ l.near = old.near
  <2> HIDE DEF old
  <2>1. << >> \in Seq(ToLobby) /\ WellEnded(<< >>)
    BY LastInbox DEF ToLobby
  <2>2. /\ l \in LobbyLink /\ l.near = old.near /\ l.far = "down" /\ l.in = old.in
        /\ l.out = << >>
    BY <1>2, <2>1 DEF LobbyLink
  <2> HIDE DEF l
  <2> QED
    BY <1>1, <1>2, <2>1, <2>2 DEF LobbyOk
<1> HIDE DEF l
<1>5. LobbyInv'
  <2>1. l \in LobbyLink
    BY <1>4 DEF LobbyOk
  <2>2. \A d \in Clients \ {c} : LobbyOk(d, lobby_link[d], clients_')
    BY <1>1, LobbyOthers DEF LobbyInv
  <2>3. \A d \in Clients : LobbyOk(d, lobby_link'[d], clients_')
    BY <1>2, <1>3, <1>4, <2>2
  <2> QED
    BY <1>1, <1>2, <1>3, <2>1, <2>3 DEF LobbyInv
<1>6. GameInv' /\ ServerInv'
  BY <1>1, GameKept, ServersKept DEF clientVars
<1>7. ClientInv'
  <2>1. \A d \in Clients : lobby_link'[d].near = lobby_link[d].near
    BY <1>2, <1>3, <1>4
  <2> QED
    BY <1>1, <2>1, ClientsKept
<1> QED
  BY <1>5, <1>6, <1>7

-----------------------------------------------------------------------------
(* Steps of a server *)

\* Every set of natural numbers has a least element.
LEMMA LeastElement ==
  ASSUME NEW T, T \subseteq Nat, T # {}
  PROVE  Min(T) \in T /\ \A y \in T : Min(T) <= y
<1> DEFINE Upto(n) == 0..n
           F == {S \in FiniteSubsetsOf(Nat) : \E n \in T : S = Upto(n)}
           R == StrictSubsetOrdering(Nat)
<1>1. \A n \in T : Upto(n) \in F
  BY FS_Interval DEF FiniteSubsetsOf
<1>2. \E S \in F : \A V \in F : ~(<<V, S>> \in R)
  <2>1. IsWellFoundedOn(R, FiniteSubsetsOf(Nat))
    BY FS_StrictSubsetOrderingWellFounded
  <2>2. F \subseteq FiniteSubsetsOf(Nat) /\ F # {}
    BY <1>1
  <2> HIDE DEF F, R
  <2> QED
    BY <2>1, <2>2, WFMin
<1>3. PICK n \in T : \A m \in T : ~(<<Upto(m), Upto(n)>> \in R)
  BY <1>1, <1>2
<1>4. \A m \in T : n <= m
  <2>1. SUFFICES ASSUME NEW m \in T, m < n
                 PROVE  FALSE
    OBVIOUS
  <2>2. Upto(m) \subseteq Upto(n) /\ n \in Upto(n) /\ n \notin Upto(m)
    BY <2>1
  <2>3. <<Upto(m), Upto(n)>> \in R
    BY <2>2 DEF StrictSubsetOrdering
  <2> QED
    BY <1>3, <2>3
<1> QED
  BY <1>4 DEF Min

\* A free slot that is looked for is found, if there is one.
LEMMA FreeSlot ==
  ASSUME NEW used, FreeSlots(used) # {}
  PROVE  Min(FreeSlots(used)) \in Slots /\ used[Min(FreeSlots(used))] = "free"
<1>1. FreeSlots(used) \subseteq Nat /\ FreeSlots(used) \subseteq Slots
  BY PeerCountAssumption DEF FreeSlots, Slots
<1>2. Min(FreeSlots(used)) \in FreeSlots(used)
  BY <1>1, LeastElement
<1> QED
  BY <1>1, <1>2 DEF FreeSlots

\* What a slot is used for besides clients is not the name of a client.
LEMMA UsesAreNotClients ==
  "free" \notin Clients /\ "to lobby" \notin Clients /\ "leaving lobby" \notin Clients
BY NamesAssumption DEF LobbyUse

\* A client sits at one server, on one slot.
LEMMA OneSeat ==
  ASSUME ServerInv, NEW s \in Servers, NEW slot \in Slots, peers[s][slot] \in Clients,
         NEW t \in Servers, NEW other \in Slots, peers[t][other] = peers[s][slot]
  PROVE  t = s /\ other = slot
<1>1. game_server[peers[s][slot]] = s /\ game_server[peers[t][other]] = t
  BY DEF ServerInv, Seated
<1>2. t = s
  BY <1>1
<1> QED
  BY <1>2 DEF ServerInv, Seated

\* A server that reads a CONNECT is still accepting.
LEMMA GameConnects ==
  ASSUME NEW link, GameOk(link), HeadIs(link.out, "CONNECT")
  PROVE  /\ link \in GameLink /\ link.far = "accepting" /\ link.near # "none"
         /\ link.near = "connecting" => link.in # << >>
         /\ link.out # << >> /\ link.out[1] = CONNECT
<1> DEFINE outbox == link.out
<1>1. /\ link \in GameLink /\ outbox \in Seq(ToServer) /\ WellEnded(outbox)
      /\ outbox # << >> /\ Head(outbox).type = "CONNECT"
  BY DEF GameOk, GameLink, HeadIs
<1>2. /\ \A n \in 1..Len(outbox) : outbox[n] = CONNECT => n = 1 /\ link.far = "accepting"
      /\ link.near = "none" => outbox = << >>
      /\ (link.near = "connecting" /\ link.in = << >>) => outbox = << >>
  BY DEF GameOk, NoLink
<1> HIDE DEF outbox
<1>3. Head(outbox) = outbox[1] /\ Head(outbox) \in ToServer /\ 1 \in 1..Len(outbox)
  <2>1. Len(outbox) \in Nat /\ Len(outbox) >= 1
    BY <1>1, TakeInbox
  <2> QED
    BY <1>1, <2>1, TakeInbox
<1>4. outbox[1] = CONNECT
  BY <1>1, <1>3, Events DEF ToServer
<1> QED
  BY <1>1, <1>2, <1>3, <1>4 DEF outbox

\* The server takes the CONNECT.
LEMMA GameFarUp ==
  ASSUME NEW link, GameOk(link), HeadIs(link.out, "CONNECT")
  PROVE  /\ GameOk([link EXCEPT !.far = "up", !.out = Tail(@)])
         /\ [link EXCEPT !.far = "up", !.out = Tail(@)].near = link.near
         /\ [link EXCEPT !.far = "up", !.out = Tail(@)].far = "up"
<1> DEFINE l == [link EXCEPT !.far = "up", !.out = Tail(@)]
           outbox == link.out
<1>1. /\ link \in GameLink /\ link.near # "none"
      /\ link.near = "connecting" => link.in # << >>
      /\ outbox \in Seq(ToServer) /\ WellEnded(outbox) /\ outbox # << >>
      /\ \A n \in 1..Len(outbox) : outbox[n] = CONNECT => n = 1
      /\ l = [link EXCEPT !.far = "up", !.out = Tail(outbox)]
  BY GameConnects DEF GameOk, GameLink
<1> HIDE DEF outbox
<1>2. /\ Tail(outbox) \in Seq(ToServer) /\ WellEnded(Tail(outbox))
      /\ \A n \in 1..Len(Tail(outbox)) :
            Tail(outbox)[n] = outbox[n + 1] /\ n + 1 \in 1..Len(outbox)
  BY <1>1, TakeInbox
<1>3. \A n \in 1..Len(Tail(outbox)) : Tail(outbox)[n] # CONNECT
  <2> SUFFICES ASSUME NEW n \in 1..Len(Tail(outbox)), Tail(outbox)[n] = CONNECT
               PROVE  FALSE
    OBVIOUS
  <2>1. n + 1 = 1
    BY <1>1, <1>2
  <2>2. n \in Nat /\ n >= 1
    OBVIOUS
  <2> QED
    BY <2>1, <2>2
<1>4. /\ l \in GameLink /\ l.near = link.near /\ l.far = "up" /\ l.in = link.in
      /\ l.out = Tail(outbox)
  BY <1>1, <1>2 DEF GameLink
<1> HIDE DEF l
<1>5. GameOk(l)
  BY <1>1, <1>2, <1>3, <1>4 DEF GameOk
<1> QED
  BY <1>4, <1>5 DEF l

\* The server mistakes the client for the lobby: it registers with it and leaves.
LEMMA GameTakenForLobby ==
  ASSUME NEW link, GameOk(link), HeadIs(link.out, "CONNECT"),
         NEW l, l = CloseFar(SendNear([link EXCEPT !.far = "up"], RegisterServerInLobby))
  PROVE  GameOk(l) /\ l.near = link.near /\ l.far = "closing"
<1> DEFINE inbox == link.in
           up == [link EXCEPT !.far = "up"]
           told == SendNear(up, RegisterServerInLobby)
           once == Put(inbox, RegisterServerInLobby)
           both == Put(once, DISCONNECT)
<1>1. /\ link \in GameLink /\ link.near # "none" /\ up \in GameLink
      /\ up.near = link.near /\ up.far = "up" /\ up.in = inbox /\ up.out = link.out
      /\ inbox \in Seq(FromServer) /\ WellEnded(inbox)
      /\ RegisterServerInLobby \in FromServer /\ DISCONNECT \in FromServer
      /\ DISCONNECT \in ToServer
  BY GameConnects DEF GameOk, GameLink, FromServer, ToServer
<1>2. l = CloseFar(told)
  OBVIOUS
<1>3. <<DISCONNECT>> \in Seq(ToServer) /\ WellEnded(<<DISCONNECT>>)
      /\ \A n \in 1..Len(<<DISCONNECT>>) : <<DISCONNECT>>[n] # CONNECT
  <2>1. /\ <<DISCONNECT>> \in Seq(ToServer) /\ WellEnded(<<DISCONNECT>>)
        /\ <<DISCONNECT>>[1] = DISCONNECT /\ Len(<<DISCONNECT>>) = 1
    BY <1>1, LastInbox
  <2>2. DISCONNECT # CONNECT
    BY Events
  <2> QED
    BY <2>1, <2>2
<1> HIDE DEF inbox, up
<1>4. CASE link.near = "down"
  <2>1. told = up
    BY <1>1, <1>4 DEF SendNear
  <2>2. l = [up EXCEPT !.far = "closing", !.out = <<DISCONNECT>>, !.in = inbox]
    BY <1>1, <1>2, <1>4, <2>1 DEF CloseFar
  <2>3. /\ l \in GameLink /\ l.near = link.near /\ l.far = "closing" /\ l.in = inbox
        /\ l.out = <<DISCONNECT>>
    BY <1>1, <1>3, <2>2 DEF GameLink
  <2> QED
    BY <1>1, <1>3, <1>4, <2>3 DEF GameOk
<1>5. CASE link.near # "down"
  <2>1. once \in Seq(FromServer) /\ WellEnded(once)
    BY <1>1, PutInbox
  <2>2. told = [up EXCEPT !.in = once]
    BY <1>1, <1>5 DEF SendNear
  <2> HIDE DEF once
  <2>3. both \in Seq(FromServer) /\ WellEnded(both) /\ both # << >>
    BY <1>1, <2>1, PutInbox
  <2>4. /\ told \in GameLink /\ told.near = link.near /\ told.far = "up"
        /\ told.in = once
    BY <1>1, <2>1, <2>2 DEF GameLink
  <2> HIDE DEF told
  <2>5. l = [told EXCEPT !.far = "closing", !.out = <<DISCONNECT>>, !.in = both]
    BY <1>2, <1>5, <2>4 DEF CloseFar
  <2> HIDE DEF both
  <2>6. /\ l \in GameLink /\ l.near = link.near /\ l.far = "closing" /\ l.in = both
        /\ l.out = <<DISCONNECT>>
    BY <1>3, <2>3, <2>4, <2>5 DEF GameLink
  <2> QED
    BY <1>1, <1>3, <2>3, <2>6 DEF GameOk
<1> QED
  BY <1>4, <1>5

\* The server has read the DISCONNECT.
LEMMA GameFarDown ==
  ASSUME NEW link, GameOk(link), link.out # << >>
  PROVE  /\ GameOk([link EXCEPT !.far = "down", !.out = << >>])
         /\ [link EXCEPT !.far = "down", !.out = << >>].near = link.near
<1> DEFINE l == [link EXCEPT !.far = "down", !.out = << >>]
<1>1. link \in GameLink /\ link.near # "none"
  BY DEF GameOk, NoLink
<1>2. << >> \in Seq(ToServer) /\ WellEnded(<< >>)
  BY LastInbox DEF ToServer
<1>3. /\ l \in GameLink /\ l.near = link.near /\ l.far = "down" /\ l.in = link.in
      /\ l.out = << >>
  BY <1>1, <1>2 DEF GameLink
<1> HIDE DEF l
<1>4. GameOk(l)
  BY <1>1, <1>2, <1>3 DEF GameOk
<1> QED
  BY <1>3, <1>4 DEF l

\* What a slot is used for agrees with clients_ and pending_disconnect_.
SlotOk(s, slot) ==
    /\ peers[s][slot] \in Clients =>
          game_link[peers[s][slot]].far \in {"accepting", "up", "closing"}
    /\ slot \in players[s] <=> /\ peers[s][slot] \in Clients
                              /\ game_link[peers[s][slot]].far = "up"
    /\ slot \in pending_disconnect_[s] <=>
          \/ peers[s][slot] = "leaving lobby"
          \/ /\ peers[s][slot] \in Clients
             /\ game_link[peers[s][slot]].far = "closing"

SlotTypes ==
    /\ peers \in [Servers -> [Slots -> Clients \union LobbyUse]]
    /\ players \in [Servers -> SUBSET Slots]
    /\ pending_connect_ \in [Servers -> SUBSET Slots]
    /\ pending_disconnect_ \in [Servers -> SUBSET Slots]

\* A slot that a step leaves as it was.
SlotKept(s, slot) ==
    /\ peers'[s][slot] = peers[s][slot]
    /\ slot \in players'[s] <=> slot \in players[s]
    /\ slot \in pending_disconnect_'[s] <=> slot \in pending_disconnect_[s]
    /\ peers[s][slot] \in Clients =>
          game_link'[peers[s][slot]].far = game_link[peers[s][slot]].far

\* The invariant of a server is one of each slot, apart from the seating.
LEMMA SlotBySlot ==
  ServerInv => SlotTypes /\ \A s \in Servers, slot \in Slots : SlotOk(s, slot)
BY DEF ServerInv, SlotTypes, SlotOk, Seated, PlayersAreUp, CallbacksWaitForClosing

\* A slot that is left as it was is still sound.
LEMMA KeptSlot ==
  ASSUME NEW s, NEW slot, SlotOk(s, slot), SlotKept(s, slot)
  PROVE  SlotOk(s, slot)'
BY DEF SlotOk, SlotKept

\* A step of a server that gives no slot to another client, and after which
\* every slot is sound.
LEMMA SlotsChange ==
  ASSUME ServerInv, SlotTypes', UNCHANGED <<aborted, game_server>>,
         \A s \in Servers, slot \in Slots : SlotOk(s, slot)',
         \A s \in Servers, slot \in Slots :
            peers'[s][slot] \in Clients => peers'[s][slot] = peers[s][slot]
  PROVE  ServerInv'
<1>1. Seated'
  <2> SUFFICES ASSUME NEW s \in Servers, NEW slot \in Slots, peers'[s][slot] \in Clients
               PROVE  /\ game_server'[peers'[s][slot]] = s
                      /\ game_link'[peers'[s][slot]].far \in {"accepting", "up", "closing"}
                      /\ \A other \in Slots :
                            peers'[s][other] = peers'[s][slot] => other = slot
    BY DEF Seated
  <2>1. peers'[s][slot] = peers[s][slot] /\ peers[s][slot] \in Clients
    OBVIOUS
  <2>2. \A other \in Slots :
           peers'[s][other] = peers'[s][slot] => peers[s][other] = peers[s][slot]
    BY <2>1
  <2>3. game_link'[peers'[s][slot]].far \in {"accepting", "up", "closing"}
    BY DEF SlotOk
  <2> QED
    BY <2>1, <2>2, <2>3 DEF ServerInv, Seated
<1>2. PlayersAreUp' /\ CallbacksWaitForClosing'
  BY DEF SlotOk, PlayersAreUp, CallbacksWaitForClosing
<1>3. aborted' \in [Servers -> BOOLEAN]
  BY DEF ServerInv
<1> QED
  BY <1>1, <1>2, <1>3 DEF ServerInv, SlotTypes

\* The server registers and leaves the lobby again.
LEMMA ServerConnectedToLobbyStep ==
  ASSUME IInv, NEW s \in Servers, NEW slot \in Slots, ServerConnectedToLobby(s, slot)
  PROVE  IInv'
<1> USE DEF IInv
<1>1. /\ peers[s][slot] = "to lobby"
      /\ registrations' = [registrations EXCEPT ![s] = @ + 1]
      /\ peers' = [peers EXCEPT ![s][slot] = "leaving lobby"]
      /\ pending_connect_' = [pending_connect_ EXCEPT ![s] = @ \ {slot}]
      /\ pending_disconnect_' = [pending_disconnect_ EXCEPT ![s] = @ \union {slot}]
      /\ UNCHANGED <<clients_, servers_, linkVars, clientVars, players, aborted,
                     userVars, failures>>
  BY DEF ServerConnectedToLobby, Registering
<1>2. SlotTypes /\ \A t \in Servers, other \in Slots : SlotOk(t, other)
  BY SlotBySlot
<1>3. LobbyInv' /\ GameInv' /\ ClientInv'
  <2>1. registrations' \in [Servers -> Nat]
    <3>1. registrations \in [Servers -> Nat] /\ registrations[s] + 1 \in Nat
      BY DEF LobbyInv
    <3>2. registrations' = [registrations EXCEPT ![s] = registrations[s] + 1]
      BY <1>1
    <3> QED
      BY <3>1, <3>2
  <2>2. LobbyInv'
    BY <1>1, <2>1 DEF LobbyInv, linkVars
  <2> QED
    BY <1>1, <2>2, GameKept, ClientsKept DEF linkVars
<1>4. ServerInv'
  <2>1. SlotTypes'
    BY <1>1, <1>2 DEF SlotTypes, LobbyUse
  <2>2. ASSUME NEW t \in Servers, NEW other \in Slots
        PROVE  /\ SlotOk(t, other)'
               /\ peers'[t][other] \in Clients => peers'[t][other] = peers[t][other]
    <3>1. CASE t = s /\ other = slot
      BY <1>1, <1>2, <3>1, UsesAreNotClients DEF SlotTypes, SlotOk
    <3>2. CASE ~(t = s /\ other = slot)
      <4>1. SlotKept(t, other)
        BY <1>1, <1>2, <3>2 DEF SlotTypes, SlotKept, linkVars
      <4> QED
        BY <1>2, <4>1, KeptSlot DEF SlotKept
    <3> QED
      BY <3>1, <3>2
  <2> QED
    BY <1>1, <2>1, <2>2, SlotsChange DEF clientVars
<1> QED
  BY <1>3, <1>4

\* A peer of the server that was not a client's is free again.
LEMMA SlotFreed ==
  ASSUME ServerInv, NEW s \in Servers, NEW slot \in Slots,
         peers[s][slot] \in {"to lobby", "leaving lobby"},
         peers' = [peers EXCEPT ![s][slot] = "free"],
         \/ pending_disconnect_' = CalledBack(s, slot)
         \/ peers[s][slot] = "to lobby" /\ UNCHANGED pending_disconnect_,
         UNCHANGED <<game_link, game_server, players, pending_connect_, aborted>>
  PROVE  ServerInv'
<1>1. SlotTypes /\ \A t \in Servers, other \in Slots : SlotOk(t, other)
  BY SlotBySlot
<1>2. SlotTypes'
  BY <1>1 DEF SlotTypes, LobbyUse, CalledBack
<1>3. ASSUME NEW t \in Servers, NEW other \in Slots
      PROVE  /\ SlotOk(t, other)'
             /\ peers'[t][other] \in Clients => peers'[t][other] = peers[t][other]
  <2>1. CASE t = s /\ other = slot
    <3>1. peers'[s][slot] = "free" /\ peers'[s][slot] \notin Clients
      BY <1>1, UsesAreNotClients DEF SlotTypes
    <3>2. peers[s][slot] \notin Clients /\ slot \notin players[s]
      BY <1>1, UsesAreNotClients DEF SlotOk
    <3>3. players' = players
      OBVIOUS
    <3>4. slot \notin pending_disconnect_'[s]
      <4>1. CASE pending_disconnect_' = CalledBack(s, slot)
        BY <1>1, <4>1 DEF SlotTypes, CalledBack
      <4>2. CASE peers[s][slot] = "to lobby" /\ UNCHANGED pending_disconnect_
        BY <1>1, <3>2, <4>2 DEF SlotOk
      <4> QED
        BY <4>1, <4>2
    <3>5. SlotOk(s, slot)'
      BY <3>1, <3>2, <3>3, <3>4 DEF SlotOk
    <3> QED
      BY <2>1, <3>1, <3>5
  <2>2. CASE ~(t = s /\ other = slot)
    <3>1. SlotKept(t, other)
      BY <1>1, <2>2 DEF SlotTypes, SlotKept, CalledBack
    <3> QED
      BY <1>1, <3>1, KeptSlot DEF SlotKept
  <2> QED
    BY <2>1, <2>2
<1> QED
  BY <1>2, <1>3, SlotsChange

\* The server has left the lobby.
LEMMA ServerLeftLobbyStep ==
  ASSUME IInv, NEW s \in Servers, NEW slot \in Slots, ServerLeftLobby(s, slot)
  PROVE  IInv'
<1>1. /\ peers[s][slot] = "leaving lobby"
      /\ peers' = [peers EXCEPT ![s][slot] = "free"]
      /\ pending_disconnect_' = CalledBack(s, slot)
      /\ UNCHANGED <<lobbyVars, linkVars, clientVars, players, pending_connect_,
                     aborted, userVars, failures>>
  BY DEF ServerLeftLobby
<1>2. LobbyInv' /\ GameInv' /\ ClientInv'
  BY <1>1, LobbyKept, GameKept, ClientsKept DEF IInv, linkVars
<1>3. ServerInv'
  BY <1>1, SlotFreed DEF IInv, linkVars, clientVars
<1> QED
  BY <1>2, <1>3 DEF IInv

\* A client that connects gets a free slot, and it had none before.
LEMMA AcceptStep ==
  ASSUME IInv, NEW s \in Servers, NEW c \in Clients, Accept(s, c)
  PROVE  IInv'
<1> USE DEF IInv
<1> DEFINE slot == Min(FreeSlots(peers[s]))
           old == game_link[c]
           g == [old EXCEPT !.far = "accepting"]
<1>1. /\ game_server[c] = s /\ old = Connecting /\ FreeSlots(peers[s]) # {}
      /\ peers' = [peers EXCEPT ![s][slot] = c]
      /\ game_link' = [game_link EXCEPT ![c].far = "accepting"]
      /\ UNCHANGED <<lobbyVars, lobby_link, clientVars, players, pending_connect_,
                     pending_disconnect_, aborted, userVars, failures>>
  BY DEF Accept
<1>2. slot \in Slots /\ peers[s][slot] = "free"
  BY <1>1, FreeSlot
<1> HIDE DEF slot
<1>3. GameInv /\ GameOk(old) /\ game_link \in [Clients -> GameLink]
  BY DEF GameInv
<1>4. game_link' = [game_link EXCEPT ![c] = g]
  BY <1>1, <1>3 DEF GameLink
<1>5. /\ old.near = "connecting" /\ old.far = "none" /\ old.in = << >>
      /\ old.out = << >>
  BY <1>1 DEF Connecting, NoLink
<1>6. GameOk(g) /\ g.far = "accepting" /\ g.near = old.near
  <2> HIDE DEF old
  <2>1. old \in GameLink /\ WellEnded(old.in) /\ WellEnded(old.out)
    BY <1>3 DEF GameOk
  <2>2. /\ g \in GameLink /\ g.near = "connecting" /\ g.far = "accepting"
        /\ g.in = << >> /\ g.out = << >>
    BY <1>5, <2>1 DEF GameLink
  <2> HIDE DEF g
  <2> QED
    BY <1>5, <2>1, <2>2 DEF GameOk
<1> HIDE DEF g
<1>7. LobbyInv' /\ GameInv'
  BY <1>1, <1>3, <1>4, <1>6, LobbyKept, GameChange
<1>8. ClientInv'
  <2>1. \A d \in Clients : game_link'[d].near = game_link[d].near
    BY <1>3, <1>4, <1>6
  <2> QED
    BY <1>1, <2>1, ClientsKept
<1>9. ServerInv'
  <2>1. SlotTypes /\ \A t \in Servers, other \in Slots : SlotOk(t, other)
    BY SlotBySlot
  <2>2. \A t \in Servers, other \in Slots : peers[t][other] # c
    BY <1>5, <2>1 DEF SlotOk
  <2>3. game_link'[c].far = "accepting"
    BY <1>3, <1>4, <1>6
  <2>4. /\ peers'[s][slot] = c
        /\ \A t \in Servers, other \in Slots : ~(t = s /\ other = slot) =>
              peers'[t][other] = peers[t][other]
    BY <1>1, <1>2, <2>1 DEF SlotTypes
  <2>5. ASSUME NEW t \in Servers, NEW other \in Slots
        PROVE  SlotOk(t, other)'
    <3>1. CASE t = s /\ other = slot
      <4>1. slot \notin players[s] /\ slot \notin pending_disconnect_[s]
        BY <1>2, <2>1, UsesAreNotClients DEF SlotOk
      <4>2. c # "leaving lobby"
        BY UsesAreNotClients
      <4> QED
        BY <1>1, <2>3, <2>4, <3>1, <4>1, <4>2 DEF SlotOk
    <3>2. CASE ~(t = s /\ other = slot)
      <4>1. SlotKept(t, other)
        BY <1>1, <1>3, <1>4, <2>2, <2>4, <3>2 DEF SlotKept
      <4> QED
        BY <2>1, <4>1, KeptSlot
    <3> QED
      BY <3>1, <3>2
  <2>6. Seated'
    <3> SUFFICES ASSUME NEW t \in Servers, NEW seat \in Slots, peers'[t][seat] \in Clients
                 PROVE  /\ game_server'[peers'[t][seat]] = t
                        /\ game_link'[peers'[t][seat]].far \in
                              {"accepting", "up", "closing"}
                        /\ \A other \in Slots :
                              peers'[t][other] = peers'[t][seat] => other = seat
      BY DEF Seated
    <3>1. game_link'[peers'[t][seat]].far \in {"accepting", "up", "closing"}
      BY <2>5 DEF SlotOk
    <3>2. CASE t = s /\ seat = slot
      BY <1>1, <2>2, <2>4, <3>1, <3>2 DEF clientVars
    <3>3. CASE ~(t = s /\ seat = slot)
      <4>1. peers'[t][seat] = peers[t][seat]
        BY <2>4, <3>3
      <4>2. game_server'[peers'[t][seat]] = t
        BY <1>1, <4>1 DEF ServerInv, Seated, clientVars
      <4>3. ASSUME NEW other \in Slots, peers'[t][other] = peers'[t][seat]
            PROVE  other = seat
        <5>1. peers[t][seat] \in Clients /\ peers[t][seat] # c
          BY <2>2, <4>1
        <5>2. peers[t][other] = peers[t][seat]
          BY <2>4, <4>1, <4>3, <5>1
        <5> QED
          BY <5>1, <5>2 DEF ServerInv, Seated
      <4> QED
        BY <3>1, <4>2, <4>3
    <3> QED
      BY <3>2, <3>3
  <2>7. SlotTypes'
    BY <1>1, <1>2, <2>1 DEF SlotTypes
  <2>8. PlayersAreUp' /\ CallbacksWaitForClosing'
    BY <2>5 DEF SlotOk, PlayersAreUp, CallbacksWaitForClosing
  <2>9. aborted' \in [Servers -> BOOLEAN]
    BY <1>1 DEF ServerInv
  <2> QED
    BY <2>6, <2>7, <2>8, <2>9 DEF ServerInv, SlotTypes
<1> QED
  BY <1>7, <1>8, <1>9

\* The far end of one connection changes, or its inboxes.
OneLinkChanges(c) ==
    /\ game_link' \in [Clients -> GameLink]
    /\ GameOk(game_link'[c]) /\ game_link'[c].near = game_link[c].near
    /\ \A d \in Clients \ {c} : game_link'[d] = game_link[d]

\* The clients on other slots are connected as before.
OthersKept(s, slot) ==
    \A t \in Servers, other \in Slots :
        (~(t = s /\ other = slot) /\ peers[t][other] \in Clients) =>
            game_link'[peers[t][other]].far = game_link[peers[t][other]].far

\* It does when a sound connection takes the place of one.
LEMMA LinkChange ==
  ASSUME GameInv, NEW c \in Clients, NEW g, GameOk(g), g.near = game_link[c].near,
         game_link' = [game_link EXCEPT ![c] = g]
  PROVE  OneLinkChanges(c) /\ game_link'[c] = g
<1>1. g \in GameLink
  BY DEF GameOk
<1> QED
  BY <1>1 DEF OneLinkChanges, GameInv

\* A step of a server on the connection of the client on one of its slots.
LEMMA SeatChange ==
  ASSUME IInv, NEW s \in Servers, NEW slot \in Slots, peers[s][slot] \in Clients,
         OneLinkChanges(peers[s][slot]),
         UNCHANGED <<lobbyVars, lobby_link, clientVars, userVars, failures>>
  PROVE  LobbyInv' /\ GameInv' /\ ClientInv' /\ OthersKept(s, slot)
<1>1. LobbyInv /\ GameInv /\ ClientInv /\ ServerInv
  BY DEF IInv
<1>2. LobbyInv' /\ GameInv'
  <2>1. \A d \in Clients : GameOk(game_link'[d])
    BY <1>1 DEF GameInv, OneLinkChanges
  <2> QED
    BY <1>1, <2>1, LobbyKept DEF GameInv, OneLinkChanges
<1>3. ClientInv'
  <2>1. \A d \in Clients : game_link'[d].near = game_link[d].near
    BY DEF OneLinkChanges
  <2> QED
    BY <1>1, <2>1, ClientsKept
<1>4. OthersKept(s, slot)
  <2> SUFFICES ASSUME NEW t \in Servers, NEW other \in Slots,
                      ~(t = s /\ other = slot), peers[t][other] \in Clients
               PROVE  game_link'[peers[t][other]].far = game_link[peers[t][other]].far
    BY DEF OthersKept
  <2>1. peers[t][other] # peers[s][slot]
    BY <1>1, OneSeat
  <2> QED
    BY <2>1 DEF OneLinkChanges
<1> QED
  BY <1>2, <1>3, <1>4

\* The client is taken for the lobby: it is registered with, and left.
LEMMA PlayerTakenForLobbyStep ==
  ASSUME IInv, NEW s \in Servers, NEW slot \in Slots, PlayerTakenForLobby(s, slot)
  PROVE  IInv'
<1> DEFINE c == peers[s][slot]
           old == game_link[c]
           g == CloseFar(SendNear([old EXCEPT !.far = "up"], RegisterServerInLobby))
<1>1. /\ c \in Clients /\ HeadIs(old.out, "CONNECT")
      /\ game_link' = [game_link EXCEPT ![c] = g]
      /\ pending_connect_' = [pending_connect_ EXCEPT ![s] = @ \ {slot}]
      /\ pending_disconnect_' = [pending_disconnect_ EXCEPT ![s] = @ \union {slot}]
      /\ UNCHANGED <<lobbyVars, lobby_link, clientVars, peers, players, aborted,
                     userVars, failures>>
  BY DEF PlayerTakenForLobby
<1>2. GameOk(old)
  BY <1>1 DEF IInv, GameInv
<1>3. GameOk(g) /\ g.near = old.near /\ g.far = "closing" /\ old.far = "accepting"
  BY <1>1, <1>2, GameTakenForLobby, GameConnects
<1> HIDE DEF c, g
<1>4 /\ LobbyInv' /\ GameInv' /\ ClientInv'
      /\ game_link'[c].far = "closing"
      /\ OthersKept(s, slot)
  <2>1. GameInv
    BY DEF IInv
  <2>2. OneLinkChanges(c) /\ game_link'[c] = g
    BY <1>1, <1>3, <2>1, LinkChange
  <2> QED
    BY <1>1, <1>3, <2>2, SeatChange DEF c
<1>5. ServerInv'
  <2>1. ServerInv /\ SlotTypes /\ \A t \in Servers, other \in Slots : SlotOk(t, other)
    BY SlotBySlot DEF IInv
  <2>2. SlotTypes'
    BY <1>1, <2>1 DEF SlotTypes
  <2>3. ASSUME NEW t \in Servers, NEW other \in Slots
        PROVE  SlotOk(t, other)'
    <3>1. CASE t = s /\ other = slot
      <4>1. slot \notin players[s]
        BY <1>1, <1>3, <2>1 DEF SlotOk, c
      <4> QED
        BY <1>1, <1>4, <2>1, <3>1, <4>1 DEF SlotTypes, SlotOk, c
    <3>2. CASE ~(t = s /\ other = slot)
      <4>1. SlotKept(t, other)
        BY <1>1, <1>4, <2>1, <3>2 DEF SlotTypes, SlotKept, OthersKept
      <4> QED
        BY <2>1, <4>1, KeptSlot
    <3> QED
      BY <3>1, <3>2
  <2> QED
    BY <1>1, <2>1, <2>2, <2>3, SlotsChange DEF clientVars
<1> QED
  BY <1>4, <1>5 DEF IInv

\* The client joins the game.
LEMMA PlayerConnectedStep ==
  ASSUME IInv, NEW s \in Servers, NEW slot \in Slots, PlayerConnected(s, slot)
  PROVE  IInv'
<1> DEFINE c == peers[s][slot]
           old == game_link[c]
           g == [old EXCEPT !.far = "up", !.out = Tail(@)]
<1>1. /\ c \in Clients /\ HeadIs(old.out, "CONNECT")
      /\ game_link' = [game_link EXCEPT ![c].far = "up", ![c].out = Tail(@)]
      /\ players' = [players EXCEPT ![s] = @ \union {slot}]
      /\ UNCHANGED <<lobbyVars, lobby_link, clientVars, peers, pending_connect_,
                     pending_disconnect_, aborted, userVars, failures>>
  BY DEF PlayerConnected
<1>2. GameOk(old) /\ game_link \in [Clients -> GameLink]
  BY <1>1 DEF IInv, GameInv
<1>3. GameOk(g) /\ g.near = old.near /\ g.far = "up" /\ old.far = "accepting"
  BY <1>1, <1>2, GameFarUp, GameConnects
<1>4. game_link' = [game_link EXCEPT ![c] = g]
  BY <1>1, <1>2 DEF GameLink
<1> HIDE DEF c, g
<1>5 /\ LobbyInv' /\ GameInv' /\ ClientInv'
      /\ game_link'[c].far = "up"
      /\ OthersKept(s, slot)
  <2>1. GameInv
    BY DEF IInv
  <2>2. OneLinkChanges(c) /\ game_link'[c] = g
    BY <1>1, <1>3, <1>4, <2>1, LinkChange
  <2> QED
    BY <1>1, <1>3, <2>2, SeatChange DEF c
<1>6. ServerInv'
  <2>1. ServerInv /\ SlotTypes /\ \A t \in Servers, other \in Slots : SlotOk(t, other)
    BY SlotBySlot DEF IInv
  <2>2. SlotTypes'
    BY <1>1, <2>1 DEF SlotTypes
  <2>3. ASSUME NEW t \in Servers, NEW other \in Slots
        PROVE  SlotOk(t, other)'
    <3>1. CASE t = s /\ other = slot
      <4>1. slot \notin pending_disconnect_[s] /\ c # "leaving lobby"
        BY <1>1, <1>3, <2>1, UsesAreNotClients DEF SlotOk, c
      <4> QED
        BY <1>1, <1>5, <2>1, <3>1, <4>1 DEF SlotTypes, SlotOk, c
    <3>2. CASE ~(t = s /\ other = slot)
      <4>1. SlotKept(t, other)
        BY <1>1, <1>5, <2>1, <3>2 DEF SlotTypes, SlotKept, OthersKept
      <4> QED
        BY <2>1, <4>1, KeptSlot
    <3> QED
      BY <3>1, <3>2
  <2> QED
    BY <1>1, <2>1, <2>2, <2>3, SlotsChange DEF clientVars
<1> QED
  BY <1>5, <1>6 DEF IInv

\* The connection of the client on a slot ends.
LEMMA SeatEnds ==
  ASSUME IInv, NEW s \in Servers, NEW slot \in Slots,
         NEW c \in Clients, peers[s][slot] = c, game_link[c].out # << >>,
         game_link' = [game_link EXCEPT ![c].far = "down", ![c].out = << >>],
         UNCHANGED <<lobbyVars, lobby_link, clientVars, userVars, failures>>
  PROVE  /\ LobbyInv' /\ GameInv' /\ ClientInv'
         /\ OthersKept(s, slot)
<1> DEFINE old == game_link[c]
           g == [old EXCEPT !.far = "down", !.out = << >>]
<1>1. GameOk(old) /\ game_link \in [Clients -> GameLink]
  BY DEF IInv, GameInv
<1>2. GameOk(g) /\ g.near = old.near
  BY <1>1, GameFarDown
<1>3. game_link' = [game_link EXCEPT ![c] = g]
  BY <1>1 DEF GameLink
<1> HIDE DEF g
<1>4. OneLinkChanges(c)
  BY <1>2, <1>3, LinkChange DEF IInv
<1> QED
  BY <1>4, SeatChange

\* The client leaves before the server has handled its CONNECT.
LEMMA PlayerForgottenStep ==
  ASSUME IInv, NEW s \in Servers, NEW slot \in Slots, PlayerForgotten(s, slot)
  PROVE  IInv'
<1> DEFINE c == peers[s][slot]
<1>1. /\ c \in Clients /\ game_link[c].out # << >> /\ game_link[c].far = "accepting"
      /\ game_link' = [game_link EXCEPT ![c].far = "down", ![c].out = << >>]
      /\ peers' = [peers EXCEPT ![s][slot] = "free"]
      /\ UNCHANGED <<lobbyVars, lobby_link, clientVars, players, pending_connect_,
                     pending_disconnect_, aborted, userVars, failures>>
  BY DEF PlayerForgotten, HeadIs
<1> HIDE DEF c
<1>2. /\ LobbyInv' /\ GameInv' /\ ClientInv'
      /\ OthersKept(s, slot)
  BY <1>1, SeatEnds DEF c
<1>3. ServerInv'
  <2>1. ServerInv /\ SlotTypes /\ \A t \in Servers, other \in Slots : SlotOk(t, other)
    BY SlotBySlot DEF IInv
  <2>2. SlotTypes'
    BY <1>1, <2>1 DEF SlotTypes, LobbyUse
  <2>3. ASSUME NEW t \in Servers, NEW other \in Slots
        PROVE  /\ SlotOk(t, other)'
               /\ peers'[t][other] \in Clients => peers'[t][other] = peers[t][other]
    <3>1. CASE t = s /\ other = slot
      <4>1. slot \notin players[s] /\ slot \notin pending_disconnect_[s]
        BY <1>1, <2>1, UsesAreNotClients DEF SlotOk, c
      <4>2. peers'[s][slot] = "free"
        BY <1>1, <2>1 DEF SlotTypes
      <4> QED
        BY <1>1, <3>1, <4>1, <4>2, UsesAreNotClients DEF SlotOk
    <3>2. CASE ~(t = s /\ other = slot)
      <4>1. SlotKept(t, other)
        BY <1>1, <1>2, <2>1, <3>2 DEF SlotTypes, SlotKept, OthersKept
      <4> QED
        BY <2>1, <4>1, KeptSlot DEF SlotKept
    <3> QED
      BY <3>1, <3>2
  <2> QED
    BY <1>1, <2>1, <2>2, <2>3, SlotsChange DEF clientVars
<1> QED
  BY <1>2, <1>3 DEF IInv

\* A player leaves; the last one sends the server back to the lobby, for which the
\* slot of that player is free.
LEMMA PlayerDisconnectedStep ==
  ASSUME IInv, NEW s \in Servers, NEW slot \in Slots, PlayerDisconnected(s, slot)
  PROVE  IInv'
<1> DEFINE c == peers[s][slot]
           used == Vacated(s, slot)
           left == Remaining(s, slot)
           back == Min(FreeSlots(used))
<1>1. /\ c \in Clients /\ game_link[c].out # << >>
      /\ game_link[c].far \in {"up", "closing"}
      /\ game_link' = [game_link EXCEPT ![c].far = "down", ![c].out = << >>]
      /\ pending_disconnect_' = [pending_disconnect_ EXCEPT ![s] = @ \ {slot}]
      /\ UNCHANGED <<lobbyVars, lobby_link, clientVars, userVars, failures>>
  BY DEF PlayerDisconnected, HeadIs, CalledBack
<1>2. ServerInv /\ SlotTypes /\ \A t \in Servers, other \in Slots : SlotOk(t, other)
  BY SlotBySlot DEF IInv
<1>3. used = [peers[s] EXCEPT ![slot] = "free"] /\ used[slot] = "free"
  BY <1>2 DEF Vacated, SlotTypes
<1>4. back \in Slots /\ used[back] = "free" /\ FreeSlots(used) # {}
  <2>1. slot \in FreeSlots(used)
    BY <1>3 DEF FreeSlots
  <2> QED
    BY <2>1, FreeSlot
<1>5. slot \in players[s] <=> slot \notin pending_disconnect_[s]
  BY <1>1, <1>2, UsesAreNotClients DEF SlotOk
<1>6. /\ UNCHANGED aborted /\ players' = [players EXCEPT ![s] = @ \ {slot}]
      /\ \/ peers' = [peers EXCEPT ![s] = used] /\ UNCHANGED pending_connect_
         \/ /\ peers' = [peers EXCEPT ![s] = [used EXCEPT ![back] = "to lobby"]]
            /\ pending_connect_' = [pending_connect_ EXCEPT ![s] = @ \union {back}]
  <2>1. CASE slot \in pending_disconnect_[s] \/ slot \notin players[s]
    <3>1. slot \notin players[s]
      BY <1>5, <2>1
    <3>2. /\ peers' = [peers EXCEPT ![s] = used]
          /\ UNCHANGED <<players, pending_connect_, aborted>>
      BY <2>1 DEF PlayerDisconnected
    <3>3. [players EXCEPT ![s] = @ \ {slot}] = players
      BY <1>2, <3>1 DEF SlotTypes
    <3> QED
      BY <3>2, <3>3
  <2>2. CASE ~(slot \in pending_disconnect_[s] \/ slot \notin players[s])
    <3>1. /\ players' = [players EXCEPT ![s] = left]
          /\ \/ registerInLobby(s, used)
             \/ /\ peers' = [peers EXCEPT ![s] = used]
                /\ UNCHANGED <<pending_connect_, aborted>>
      BY <2>2 DEF PlayerDisconnected
    <3>2. [players EXCEPT ![s] = left] = [players EXCEPT ![s] = @ \ {slot}]
      BY DEF Remaining
    <3> HIDE DEF used, left
    <3>3. registerInLobby(s, used) =>
             /\ peers' = [peers EXCEPT ![s] = [used EXCEPT ![back] = "to lobby"]]
             /\ pending_connect_' = [pending_connect_ EXCEPT ![s] = @ \union {back}]
             /\ UNCHANGED aborted
      BY <1>4 DEF registerInLobby
    <3> QED
      BY <3>1, <3>2, <3>3
  <2> QED
    BY <2>1, <2>2
<1> HIDE DEF used, left, back, c
<1>7. /\ LobbyInv' /\ GameInv' /\ ClientInv'
      /\ OthersKept(s, slot)
  BY <1>1, SeatEnds DEF c
<1>8. \A other \in Slots : used[other] = IF other = slot THEN "free" ELSE peers[s][other]
  BY <1>2, <1>3 DEF SlotTypes
<1>9. used \in [Slots -> Clients \union LobbyUse]
  BY <1>2, <1>3 DEF SlotTypes, LobbyUse
<1>10. /\ \A t \in Servers \ {s} : peers'[t] = peers[t]
       /\ \/ peers'[s] = used
          \/ peers'[s] = [used EXCEPT ![back] = "to lobby"]
       /\ peers' \in [Servers -> [Slots -> Clients \union LobbyUse]]
  <2>1. [used EXCEPT ![back] = "to lobby"] \in [Slots -> Clients \union LobbyUse]
    BY <1>9 DEF LobbyUse
  <2> DEFINE turned == [used EXCEPT ![back] = "to lobby"]
  <2> HIDE DEF turned
  <2>2. \/ peers' = [peers EXCEPT ![s] = used]
        \/ peers' = [peers EXCEPT ![s] = turned]
    BY <1>6 DEF turned
  <2>3. turned \in [Slots -> Clients \union LobbyUse]
    BY <2>1 DEF turned
  <2>4. /\ \A t \in Servers \ {s} : peers'[t] = peers[t]
        /\ peers'[s] = used \/ peers'[s] = turned
        /\ peers' \in [Servers -> [Slots -> Clients \union LobbyUse]]
    BY <1>2, <1>9, <2>2, <2>3 DEF SlotTypes
  <2> QED
    BY <2>4 DEF turned
<1>11. \A other \in Slots : \/ peers'[s][other] = used[other]
                            \/ other = back /\ peers'[s][other] = "to lobby"
  BY <1>9, <1>10
<1>12. ServerInv'
  <2>1. SlotTypes'
    <3>1. players' \in [Servers -> SUBSET Slots]
      BY <1>2, <1>6 DEF SlotTypes
    <3>2. pending_connect_' \in [Servers -> SUBSET Slots]
      <4>1. pending_connect_ \in [Servers -> SUBSET Slots]
        BY <1>2 DEF SlotTypes
      <4>2. \/ UNCHANGED pending_connect_
            \/ pending_connect_' = [pending_connect_ EXCEPT ![s] = @ \union {back}]
        BY <1>6
      <4> QED
        BY <1>4, <4>1, <4>2
    <3>3. pending_disconnect_' \in [Servers -> SUBSET Slots]
      BY <1>1, <1>2 DEF SlotTypes
    <3> QED
      BY <1>10, <3>1, <3>2, <3>3 DEF SlotTypes
  <2>2. ASSUME NEW t \in Servers, NEW other \in Slots
        PROVE  /\ SlotOk(t, other)'
               /\ peers'[t][other] \in Clients => peers'[t][other] = peers[t][other]
    <3>1. CASE t = s /\ other = slot
      <4>1. peers'[s][slot] \in {"free", "to lobby"}
        BY <1>3, <1>11
      <4>2. slot \notin players'[s] /\ slot \notin pending_disconnect_'[s]
        BY <1>1, <1>2, <1>6 DEF SlotTypes
      <4> QED
        BY <3>1, <4>1, <4>2, UsesAreNotClients DEF SlotOk
    <3>2. CASE t = s /\ other # slot
      <4>1. /\ other \in players'[s] <=> other \in players[s]
            /\ other \in pending_disconnect_'[s] <=> other \in pending_disconnect_[s]
        BY <1>1, <1>2, <1>6, <3>2 DEF SlotTypes
      <4>2. CASE peers'[s][other] = used[other]
        <5>1. SlotKept(t, other)
          BY <1>7, <1>8, <3>2, <4>1, <4>2 DEF SlotKept, OthersKept
        <5> QED
          BY <1>2, <5>1, KeptSlot DEF SlotKept
      <4>3. CASE other = back /\ peers'[s][other] = "to lobby"
        <5>1. peers[s][other] = "free"
          BY <1>4, <1>8, <3>2, <4>3
        <5>2. other \notin players[s] /\ other \notin pending_disconnect_[s]
          BY <1>2, <5>1, UsesAreNotClients DEF SlotOk
        <5> QED
          BY <3>2, <4>1, <4>3, <5>2, UsesAreNotClients DEF SlotOk
      <4> QED
        BY <1>11, <4>2, <4>3
    <3>3. CASE t # s
      <4>1. SlotKept(t, other)
        BY <1>1, <1>2, <1>6, <1>7, <1>10, <3>3 DEF SlotTypes, SlotKept, OthersKept
      <4> QED
        BY <1>2, <4>1, KeptSlot DEF SlotKept
    <3> QED
      BY <3>1, <3>2, <3>3
  <2> QED
    BY <1>1, <1>2, <1>6, <2>1, <2>2, SlotsChange DEF clientVars
<1> QED
  BY <1>7, <1>12 DEF IInv

-----------------------------------------------------------------------------
(* Failures and time-outs *)

\* The connection to the lobby fails, or the lobby gives up on a client.
LEMMA LobbyLost ==
  ASSUME IInv, NEW c \in Clients,
         NEW l \in Broken(lobby_link[c]) \union Abandoned(lobby_link[c]),
         lobby_link' = [lobby_link EXCEPT ![c] = l],
         UNCHANGED <<lobbyVars, game_link, clientVars, serverVars, userVars>>,
         failures' \in 0..MaxFailures
  PROVE  IInv'
<1> USE DEF IInv
<1>1. LobbyOk(c, lobby_link[c], clients_) /\ lobby_link \in [Clients -> LobbyLink]
  BY DEF LobbyInv
<1>2. LobbyOk(c, l, clients_) /\ l.near = lobby_link[c].near
  BY <1>1, LobbyFails
<1>3. LobbyInv' /\ GameInv' /\ ServerInv'
  BY <1>2, LobbyChange, GameKept, ServersKept DEF clientVars
<1>4. ClientInv'
  <2>1. \A d \in Clients : lobby_link'[d].near = lobby_link[d].near
    BY <1>1, <1>2
  <2>2. \A d \in Clients : PeersOk(d)'
    BY <2>1 DEF ClientInv, PeersOk, clientVars
  <2> QED
    BY <2>2 DEF ClientInv, clientVars, userVars
<1> QED
  BY <1>3, <1>4

\* The connection to a server fails, or the server gives up on a client.
LEMMA GameLost ==
  ASSUME IInv, NEW c \in Clients,
         NEW g \in Broken(game_link[c]) \union Abandoned(game_link[c]),
         game_link' = [game_link EXCEPT ![c] = g],
         UNCHANGED <<lobbyVars, lobby_link, clientVars, serverVars, userVars>>,
         failures' \in 0..MaxFailures
  PROVE  IInv'
<1> USE DEF IInv
<1>1. GameOk(game_link[c]) /\ game_link \in [Clients -> GameLink]
  BY DEF GameInv
<1>2. GameOk(g) /\ g.near = game_link[c].near /\ g.far = game_link[c].far
  BY <1>1, GameFails
<1>3. LobbyInv' /\ GameInv'
  BY <1>2, LobbyKept, GameChange
<1>4. \A d \in Clients : /\ game_link'[d].near = game_link[d].near
                         /\ game_link'[d].far = game_link[d].far
  BY <1>1, <1>2
<1>5. ServerInv'
  BY <1>4, ServersKept DEF clientVars
<1>6. ClientInv'
  <2>1. \A d \in Clients : PeersOk(d)'
    BY <1>4 DEF ClientInv, PeersOk, clientVars
  <2> QED
    BY <2>1 DEF ClientInv, clientVars, userVars
<1> QED
  BY <1>3, <1>5, <1>6

\* What a failure does to a client: it counts as one.
LEMMA FailureCounted ==
  ASSUME ClientInv, failures < MaxFailures, failures' = failures + 1
  PROVE  failures' \in 0..MaxFailures
BY BoundsAssumption DEF ClientInv

\* A failure that clients do not see.
LEMMA ClientsSpared ==
  ASSUME ClientInv, UNCHANGED <<lobby_link, game_link, clientVars, userVars>>,
         failures' \in 0..MaxFailures
  PROVE  ClientInv'
<1>1. \A d \in Clients : PeersOk(d)'
  BY DEF ClientInv, PeersOk, clientVars
<1> QED
  BY <1>1 DEF ClientInv, clientVars, userVars

\* Both ends of a connection to the lobby notice its failure.
LEMMA LobbyLinkFailsStep ==
  ASSUME IInv, NEW c \in Clients, LobbyLinkFails(c)
  PROVE  IInv'
<1>1. failures' \in 0..MaxFailures
  BY FailureCounted DEF IInv, LobbyLinkFails
<1>2. PICK l \in Broken(lobby_link[c]) : lobby_link' = [lobby_link EXCEPT ![c] = l]
  BY DEF LobbyLinkFails
<1>3. UNCHANGED <<lobbyVars, game_link, clientVars, serverVars, userVars>>
  BY DEF LobbyLinkFails
<1> QED
  BY <1>1, <1>2, <1>3, LobbyLost

\* Both ends of a connection to a server notice its failure.
LEMMA GameLinkFailsStep ==
  ASSUME IInv, NEW c \in Clients, GameLinkFails(c)
  PROVE  IInv'
<1>1. failures' \in 0..MaxFailures
  BY FailureCounted DEF IInv, GameLinkFails
<1>2. PICK g \in Broken(game_link[c]) : game_link' = [game_link EXCEPT ![c] = g]
  BY DEF GameLinkFails
<1>3. UNCHANGED <<lobbyVars, lobby_link, clientVars, serverVars, userVars>>
  BY DEF GameLinkFails
<1> QED
  BY <1>1, <1>2, <1>3, GameLost

\* The server does not reach the lobby.
LEMMA RegistrationFailsStep ==
  ASSUME IInv, NEW s \in Servers, NEW slot \in Slots, RegistrationFails(s, slot)
  PROVE  IInv'
<1>1. /\ failures < MaxFailures /\ failures' = failures + 1
      /\ peers[s][slot] = "to lobby" /\ peers' = [peers EXCEPT ![s][slot] = "free"]
      /\ UNCHANGED <<lobbyVars, linkVars, clientVars, players, pending_connect_,
                     pending_disconnect_, aborted, userVars>>
  BY DEF RegistrationFails
<1>2. LobbyInv' /\ GameInv'
  BY <1>1, LobbyKept, GameKept DEF IInv, linkVars
<1>3. ClientInv'
  BY <1>1, FailureCounted, ClientsSpared DEF IInv, linkVars
<1>4. ServerInv'
  BY <1>1, SlotFreed DEF IInv, linkVars, clientVars
<1> QED
  BY <1>2, <1>3, <1>4 DEF IInv

\* The server reaches the lobby, but not with its registration.
LEMMA RegistrationLostStep ==
  ASSUME IInv, NEW s \in Servers, NEW slot \in Slots, RegistrationLost(s, slot)
  PROVE  IInv'
<1>1. /\ failures < MaxFailures /\ failures' = failures + 1
      /\ peers[s][slot] = "leaving lobby" /\ registrations[s] > 0
      /\ registrations' = [registrations EXCEPT ![s] = @ - 1]
      /\ peers' = [peers EXCEPT ![s][slot] = "free"]
      /\ pending_disconnect_' = CalledBack(s, slot)
      /\ UNCHANGED <<clients_, servers_, linkVars, clientVars, players,
                     pending_connect_, aborted, userVars>>
  BY DEF RegistrationLost
<1>2. registrations' \in [Servers -> Nat]
  <2>1. registrations \in [Servers -> Nat] /\ registrations[s] - 1 \in Nat
    <3>1. registrations \in [Servers -> Nat]
      BY DEF IInv, LobbyInv
    <3>2. registrations[s] \in Nat /\ registrations[s] > 0
      BY <1>1, <3>1
    <3> QED
      BY <3>1, <3>2
  <2>2. registrations' = [registrations EXCEPT ![s] = registrations[s] - 1]
    BY <1>1
  <2> QED
    BY <2>1, <2>2
<1>3. LobbyInv' /\ GameInv'
  BY <1>1, <1>2, GameKept DEF IInv, LobbyInv, linkVars
<1>4. ClientInv'
  BY <1>1, FailureCounted, ClientsSpared DEF IInv, linkVars
<1>5. ServerInv'
  BY <1>1, SlotFreed DEF IInv, linkVars, clientVars
<1> QED
  BY <1>3, <1>4, <1>5 DEF IInv

\* The lobby gives up on a client that has exited.
LEMMA LobbyTimesOutStep ==
  ASSUME IInv, NEW c \in Clients, LobbyTimesOut(c)
  PROVE  IInv'
<1>1. PICK l \in Abandoned(lobby_link[c]) : lobby_link' = [lobby_link EXCEPT ![c] = l]
  BY DEF LobbyTimesOut
<1>2. UNCHANGED <<lobbyVars, game_link, clientVars, serverVars, userVars, failures>>
  BY DEF LobbyTimesOut
<1>3. failures' \in 0..MaxFailures
  BY <1>2 DEF IInv, ClientInv
<1> QED
  BY <1>1, <1>2, <1>3, LobbyLost

\* A server gives up on a client that has exited.
LEMMA GameTimesOutStep ==
  ASSUME IInv, NEW c \in Clients, GameTimesOut(c)
  PROVE  IInv'
<1>1. PICK g \in Abandoned(game_link[c]) : game_link' = [game_link EXCEPT ![c] = g]
  BY DEF GameTimesOut
<1>2. UNCHANGED <<lobbyVars, lobby_link, clientVars, serverVars, userVars, failures>>
  BY DEF GameTimesOut
<1>3. failures' \in 0..MaxFailures
  BY <1>2 DEF IInv, ClientInv
<1> QED
  BY <1>1, <1>2, <1>3, GameLost

\* A client gives up on a server that is full.
LEMMA NoSlotTimesOutStep ==
  ASSUME IInv, NEW c \in Clients, NoSlotTimesOut(c)
  PROVE  IInv'
<1> USE DEF IInv
<1> DEFINE old == game_link[c]
           g == [old EXCEPT !.in = <<DISCONNECT>>]
<1>1. /\ old = Connecting /\ game_link' = [game_link EXCEPT ![c].in = <<DISCONNECT>>]
      /\ UNCHANGED <<lobbyVars, lobby_link, clientVars, serverVars, userVars, failures>>
  BY DEF NoSlotTimesOut
<1>2. GameInv /\ GameOk(old) /\ game_link \in [Clients -> GameLink]
  BY DEF GameInv
<1>3. game_link' = [game_link EXCEPT ![c] = g]
  BY <1>1, <1>2 DEF GameLink
<1>4. old.near = "connecting" /\ old.far = "none" /\ old.out = << >>
  BY <1>1 DEF Connecting, NoLink
<1>5. GameOk(g) /\ g.near = old.near /\ g.far = old.far
  <2> HIDE DEF old
  <2>1. /\ <<DISCONNECT>> \in Seq(FromServer) /\ WellEnded(<<DISCONNECT>>)
        /\ <<DISCONNECT>> # << >>
    BY LastInbox DEF FromServer
  <2>2. old \in GameLink /\ WellEnded(old.out)
    BY <1>2 DEF GameOk
  <2>3. /\ g \in GameLink /\ g.near = "connecting" /\ g.far = "none"
        /\ g.in = <<DISCONNECT>> /\ g.out = << >>
    BY <1>4, <2>1, <2>2 DEF GameLink
  <2> HIDE DEF g
  <2> QED
    BY <1>4, <2>1, <2>2, <2>3 DEF GameOk
<1> HIDE DEF g
<1>6. LobbyInv' /\ GameInv'
  BY <1>1, <1>2, <1>3, <1>5, LobbyKept, GameChange
<1>7. \A d \in Clients : /\ game_link'[d].near = game_link[d].near
                         /\ game_link'[d].far = game_link[d].far
  BY <1>2, <1>3, <1>5
<1>8. ServerInv' /\ ClientInv'
  BY <1>1, <1>7, ServersKept, ClientsKept DEF clientVars
<1> QED
  BY <1>6, <1>8

-----------------------------------------------------------------------------
(* The invariant *)

\* It holds of programs that have just started.
LEMMA Initially ==
  Init => IInv
<1> SUFFICES ASSUME Init
             PROVE  IInv
  OBVIOUS
<1>1. /\ Connecting = [near |-> "connecting", far |-> "none", in |-> << >>, out |-> << >>]
      /\ NoLink = [near |-> "none", far |-> "none", in |-> << >>, out |-> << >>]
  BY DEF Connecting, NoLink
<1>2. /\ << >> \in Seq(FromLobby) /\ << >> \in Seq(ToLobby)
      /\ << >> \in Seq(FromServer) /\ << >> \in Seq(ToServer)
      /\ WellEnded(<< >>) /\ Len(<< >>) = 0
  BY DEF WellEnded
<1>3. LobbyInv
  <2>1. Connecting \in LobbyLink
    BY <1>1, <1>2 DEF LobbyLink
  <2>2. \A c \in Clients : lobby_link[c] = Connecting /\ clients_ = {}
    BY DEF Init
  <2>3. \A c \in Clients : LobbyOk(c, lobby_link[c], clients_)
    BY <1>1, <1>2, <2>1, <2>2 DEF LobbyOk
  <2>4. lobby_link \in [Clients -> LobbyLink]
    BY <2>1 DEF Init
  <2>5. /\ clients_ \subseteq Clients /\ servers_ \in Seq(Servers)
        /\ registrations \in [Servers -> Nat]
    <3>1. clients_ = {} /\ servers_ = << >> /\ registrations = [s \in Servers |-> 0]
      BY DEF Init
    <3> QED
      BY <3>1
  <2> QED
    BY <2>3, <2>4, <2>5 DEF LobbyInv
<1>4. GameInv
  <2>1. NoLink \in GameLink
    BY <1>1, <1>2 DEF GameLink
  <2>2. GameOk(NoLink)
    BY <1>1, <1>2, <2>1 DEF GameOk
  <2> QED
    BY <2>1, <2>2 DEF GameInv, Init
<1>5. ClientInv
  <2>1. \A c \in Clients : PeersOk(c)
    <3>1. \A c \in Clients : /\ lobby_link[c] = Connecting /\ game_link[c] = NoLink
                             /\ lobby_peer_[c] = FALSE /\ server_peer_[c] = FALSE
      BY DEF Init
    <3> QED
      BY <1>1, <3>1 DEF PeersOk
  <2>2. escapes \in [Clients -> 0..MaxEscapes] /\ begins \in 0..MaxBegins
        /\ failures \in 0..MaxFailures
    <3>1. escapes = [c \in Clients |-> 0] /\ begins = 0 /\ failures = 0
      BY DEF Init
    <3>2. 0 \in 0..MaxEscapes /\ 0 \in 0..MaxBegins /\ 0 \in 0..MaxFailures
      BY BoundsAssumption
    <3> QED
      BY <3>1, <3>2
  <2>3. /\ game_server \in [Clients -> Servers \union {"nobody"}]
        /\ lobby_peer_ \in [Clients -> BOOLEAN] /\ server_peer_ \in [Clients -> BOOLEAN]
        /\ stop_on_disconnect \in [Clients -> SUBSET {"lobby", "game"}]
        /\ shouldStop_ \in [Clients -> BOOLEAN] /\ exited \in [Clients -> BOOLEAN]
        /\ pressedESC \subseteq Clients
    BY DEF Init
  <2> QED
    BY <2>1, <2>2, <2>3 DEF ClientInv
<1>6. ServerInv
  <2>1. 1 \in Slots
    BY PeerCountAssumption DEF Slots
  <2>2. \A s \in Servers, slot \in Slots : peers[s][slot] \in {"to lobby", "free"}
    BY DEF Init
  <2>3. Seated /\ PlayersAreUp /\ CallbacksWaitForClosing
    <3>1. \A s \in Servers : players[s] = {} /\ pending_disconnect_[s] = {}
      BY DEF Init
    <3> QED
      BY <2>2, <3>1, UsesAreNotClients
         DEF Seated, PlayersAreUp, CallbacksWaitForClosing
  <2>4. peers \in [Servers -> [Slots -> Clients \union LobbyUse]]
    BY DEF Init, LobbyUse
  <2>5. /\ players \in [Servers -> SUBSET Slots]
        /\ pending_connect_ \in [Servers -> SUBSET Slots]
        /\ pending_disconnect_ \in [Servers -> SUBSET Slots]
        /\ aborted \in [Servers -> BOOLEAN]
    BY <2>1 DEF Init
  <2> QED
    BY <2>3, <2>4, <2>5 DEF ServerInv
<1> QED
  BY <1>3, <1>4, <1>5, <1>6 DEF IInv

\* Steps of other programs leave it alone.
LEMMA Stuttering ==
  ASSUME IInv, UNCHANGED vars
  PROVE  IInv'
<1>1. /\ UNCHANGED <<lobbyVars, linkVars, clientVars, serverVars, userVars, failures>>
      /\ UNCHANGED <<lobby_link, game_link>>
  BY DEF vars, linkVars
<1> QED
  BY <1>1, LobbyKept, GameKept, ClientsKept, ServersKept DEF IInv, clientVars

\* Every step preserves it.
LEMMA Preserved ==
  IInv /\ [Next]_vars => IInv'
<1> SUFFICES ASSUME IInv, [Next]_vars
             PROVE  IInv'
  OBVIOUS
<1>1. CASE User
  BY <1>1, beginStep, keyDownESCStep, handleLineExitStep DEF User
<1>2. ASSUME NEW c \in Clients, ClientStep(c)
      PROVE  IInv'
  BY <1>2, ExitStep, ConnectedToLobbyStep, HandleLobbyStartedStep,
     ConnectedToServerStep, HandleUnsupportedStep, DisconnectedFromLobbyStep,
     DisconnectedFromServerStep DEF ClientStep
<1>3. CASE LobbyStep
  BY <1>3, HandleRegisterClientInLobbyStep, HandleStartLobbyStep,
     LobbyDisconnectedStep, HandleRegisterServerInLobbyStep DEF LobbyStep
<1>4. ASSUME NEW s \in Servers, ServerStep(s)
      PROVE  IInv'
  BY <1>4, ServerConnectedToLobbyStep, ServerLeftLobbyStep, PlayerTakenForLobbyStep,
     PlayerConnectedStep, PlayerForgottenStep, PlayerDisconnectedStep, AcceptStep
     DEF ServerStep
<1>5. CASE Failure
  BY <1>5, LobbyLinkFailsStep, GameLinkFailsStep, RegistrationFailsStep,
     RegistrationLostStep DEF Failure
<1>6. CASE TimeOut
  BY <1>6, LobbyTimesOutStep, GameTimesOutStep, NoSlotTimesOutStep DEF TimeOut
<1>7. CASE UNCHANGED vars
  BY <1>7, Stuttering
<1> QED
  BY <1>1, <1>2, <1>3, <1>4, <1>5, <1>6, <1>7 DEF Next

\* The invariant: every connection is in a state that the code of its two ends
\* can bring about, what each program notes about its connections agrees with
\* them, and a client has one slot at the server it was told, or none.
THEOREM InductiveInvariant ==
  Spec => []IInv
BY Initially, Preserved, PTL DEF Spec

-----------------------------------------------------------------------------
(* What it says *)

\* The variables keep their types, and nothing follows a DISCONNECT in an inbox.
THEOREM TypeCorrect ==
  Spec => []TypeOK
<1>1. IInv => TypeOK
  <2> SUFFICES ASSUME IInv
               PROVE  TypeOK
    OBVIOUS
  <2>1. ASSUME NEW c \in Clients
        PROVE  IsLink(lobby_link[c]) /\ IsLink(game_link[c])
    <3> DEFINE l == lobby_link[c]
               g == game_link[c]
    <3>1. /\ l \in LobbyLink /\ WellEnded(l.in) /\ WellEnded(l.out)
          /\ g \in GameLink /\ WellEnded(g.in) /\ WellEnded(g.out)
      BY DEF IInv, LobbyInv, GameInv, LobbyOk, GameOk
    <3> HIDE DEF l, g
    <3>2. IsLink(l)
      BY <3>1 DEF IsLink, LobbyLink, WellEnded, EndState
    <3>3. IsLink(g)
      BY <3>1 DEF IsLink, GameLink, WellEnded, EndState
    <3> QED
      BY <3>2, <3>3 DEF l, g
  <2> QED
    BY <2>1 DEF IInv, LobbyInv, ClientInv, ServerInv, TypeOK
<1> QED
  BY <1>1, InductiveInvariant, PTL

\* A client that can still be told LobbyStarted has not left the lobby, so that
\* HandleLobbyStarted never disconnects a null peer.
THEOREM ClientsLeaveTheLobbyOnce ==
  Spec => []StartedFindsLobbyPeer
<1>1. IInv => StartedFindsLobbyPeer
  BY DEF IInv, ClientInv, PeersOk, StartedFindsLobbyPeer
<1> QED
  BY <1>1, InductiveInvariant, PTL

\* The sender of a start is listed when the lobby reads it: it is neither before its
\* registration nor after its departure.
THEOREM StartersAreRegistered ==
  Spec => []StarterIsRegistered
<1>1. IInv => StarterIsRegistered
  <2> SUFFICES ASSUME IInv, NEW c \in Clients, HeadIs(lobby_link[c].out, "StartLobby")
               PROVE  c \in clients_
    BY DEF StarterIsRegistered
  <2>1. lobby_link[c].out # << >>
    BY DEF HeadIs
  <2> QED
    BY <2>1, Reading
<1> QED
  BY <1>1, InductiveInvariant, PTL

\* The lists of peers hold the peers that are connected: the lobby's no others, a
\* server's exactly those.
THEOREM ListsAreCurrent ==
  Spec => []ListedPeersAreLive
<1>1. IInv => ListedPeersAreLive
  BY DEF IInv, LobbyInv, LobbyOk, ServerInv, PlayersAreUp, ListedPeersAreLive
<1> QED
  BY <1>1, InductiveInvariant, PTL

\* A waiting callback of pending_disconnect_ belongs to a connection that the server
\* itself is closing.
THEOREM CallbacksMatchClosings ==
  Spec => []CallbacksWaitForClosing
<1>1. IInv => CallbacksWaitForClosing
  BY DEF IInv, ServerInv
<1> QED
  BY <1>1, InductiveInvariant, PTL
=============================================================================
