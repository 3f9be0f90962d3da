---------------------------- MODULE SessionProofs ----------------------------
(* Proofs about Session, for any number of clients, peers and joins. *)
EXTENDS Session, SequenceTheorems, FiniteSetTheorems,
        WellFoundedInduction, TLAPS

\* The events that reach a client on channel 0, and the server.
Packets == [type : {"SetKey"}, key : Nat, value : Nat \ {0}]
             \union [type : {"PossessEntity"}, key : Nat]
             \union [type : {"PlayerJoined", "PlayerLeft"}, key : Nat, id : Nat]
ToPlayer == Packets \union {DISCONNECT}
ToServer == {CONNECT, DISCONNECT}

PlayerLink == [near : {"none", "up", "closing", "down"},
               far  : {"none", "accepting", "up", "down"},
               in   : Seq(ToPlayer), out : Seq(ToServer)]

\* Nothing follows a DISCONNECT.
WellEnded(inbox) ==
    \A n \in 1..Len(inbox) : inbox[n] = DISCONNECT => n = Len(inbox)

\* The packets of one connection: all of them are ciphered with its key k, but for
\* the SetKey that brings it to a client that has none yet, which comes first.
Keyed(key, inbox, k) ==
    /\ key \in {0, k}
    /\ \A n \in 1..Len(inbox) :
          \/ inbox[n] = DISCONNECT
          \/ IF key = 0 /\ n = 1 THEN inbox[n] = SetKey(0, k)
             ELSE inbox[n].type # "SetKey" /\ inbox[n].key = k

\* A client that the server has not taken up knows nothing and is told nothing.
ClientOk(l, key, ids) ==
    /\ l \in PlayerLink /\ key \in Nat /\ ids \subseteq Nat
    /\ WellEnded(l.in) /\ WellEnded(l.out)
    /\ \A n \in 1..Len(l.out) : l.out[n] = CONNECT => n = 1 /\ l.far = "accepting"
    /\ l.far \in {"none", "accepting"} =>
          /\ key = 0 /\ ids = {}
          /\ \A n \in 1..Len(l.in) : l.in[n] = DISCONNECT
    /\ l.near = "up" => \E k \in Nat \ {0} : Keyed(key, l.in, k)

\* A player with key k and this id, whose server has these others: it has the key or
\* is sent it, and will know the others when it has read what is under way.
PlayerOk(l, key, ids, k, me, others) ==
    /\ me \notin ids
    /\ \A n \in 1..Len(l.in) : l.in[n].type = "PlayerJoined" => l.in[n].id # me
    /\ l.near = "up" =>
          /\ Keyed(key, l.in, k)
          /\ key = 0 => l.in # << >>
          /\ ~Ended(l.in) => RosterAfter(ids, l.in) = others

Others(slot) == {clients_[other] : other \in Playing \ {slot}}

\* A slot holds one client, and a client one slot; keys_ and clients_ have an entry
\* for those whose CONNECT was handled, and ids go up.
SlotsOk ==
    /\ peers \in [Slots -> Clients \union {"free"}]
    /\ keys_ \in [Slots -> Nat] /\ clients_ \in [Slots -> Nat]
    /\ idCounter_ \in Nat \ {0}
    /\ \A slot \in Slots : peers[slot] \in Clients =>
          /\ link[peers[slot]].far \in {"accepting", "up"}
          /\ \A other \in Slots : peers[other] = peers[slot] => other = slot
    /\ \A slot \in Slots : slot \in Playing <=> /\ peers[slot] \in Clients
                                               /\ link[peers[slot]].far = "up"
    /\ \A slot \in Slots : keys_[slot] # 0 <=> slot \in Playing
    /\ \A slot \in Playing : clients_[slot] < idCounter_
    /\ \A s, t \in Playing : clients_[s] = clients_[t] => s = t

ClientsOk ==
    /\ link \in [Clients -> PlayerLink]
    /\ client_key \in [Clients -> Nat] /\ otherIds_ \in [Clients -> SUBSET Nat]
    /\ \A c \in Clients : ClientOk(link[c], client_key[c], otherIds_[c])

PlayersOk ==
    \A slot \in Playing :
        PlayerOk(link[peers[slot]], client_key[peers[slot]], otherIds_[peers[slot]],
                 keys_[slot], clients_[slot], Others(slot))

IInv == SlotsOk /\ ClientsOk /\ PlayersOk

-----------------------------------------------------------------------------
(* Packets and inboxes *)

\* A packet is not one of ENet's events.
LEMMA Events ==
  /\ DISCONNECT.type = "DISCONNECT" /\ CONNECT.type = "CONNECT" /\ DISCONNECT # CONNECT
  /\ \A p \in Packets : /\ p # DISCONNECT /\ p.key \in Nat
                        /\ p.type \in {"SetKey", "PossessEntity", "PlayerJoined", "PlayerLeft"}
                        /\ p.type \in {"PlayerJoined", "PlayerLeft"} => p.id \in Nat
                        /\ p.type = "SetKey" => p.value \in Nat \ {0}
  /\ \A k \in Nat, id \in Nat, type \in {"PlayerJoined", "PlayerLeft"} :
        /\ Roster(type, k, id) \in Packets /\ Roster(type, k, id).type = type
        /\ Roster(type, k, id).key = k /\ Roster(type, k, id).id = id
  /\ \A k \in Nat : /\ Packet("PossessEntity", k) \in Packets
                    /\ Packet("PossessEntity", k).type = "PossessEntity"
                    /\ Packet("PossessEntity", k).key = k
  /\ \A k \in Nat \ {0} : /\ SetKey(0, k) \in Packets /\ SetKey(0, k).type = "SetKey"
                          /\ SetKey(0, k).key = 0 /\ SetKey(0, k).value = k
<1>1. DISCONNECT.type = "DISCONNECT" /\ CONNECT.type = "CONNECT" /\ DISCONNECT # CONNECT
  BY DEF DISCONNECT, CONNECT, Event
<1>2. ASSUME NEW p \in Packets
      PROVE  /\ p # DISCONNECT /\ p.key \in Nat
             /\ p.type \in {"SetKey", "PossessEntity", "PlayerJoined", "PlayerLeft"}
             /\ p.type \in {"PlayerJoined", "PlayerLeft"} => p.id \in Nat
             /\ p.type = "SetKey" => p.value \in Nat \ {0}
  <2>1. CASE p \in [type : {"SetKey"}, key : Nat, value : Nat \ {0}]
    BY <1>1, <2>1
  <2>2. CASE p \in [type : {"PossessEntity"}, key : Nat]
    BY <1>1, <2>2
  <2>3. CASE p \in [type : {"PlayerJoined", "PlayerLeft"}, key : Nat, id : Nat]
    BY <1>1, <2>3
  <2> QED
    BY <2>1, <2>2, <2>3 DEF Packets
<1>3. \A k \in Nat, id \in Nat, type \in {"PlayerJoined", "PlayerLeft"} :
         /\ Roster(type, k, id) \in Packets /\ Roster(type, k, id).type = type
         /\ Roster(type, k, id).key = k /\ Roster(type, k, id).id = id
  BY DEF Roster, Packets
<1>4. \A k \in Nat : /\ Packet("PossessEntity", k) \in Packets
                     /\ Packet("PossessEntity", k).type = "PossessEntity"
                     /\ Packet("PossessEntity", k).key = k
  BY DEF Packet, Packets
<1>5. \A k \in Nat \ {0} : /\ SetKey(0, k) \in Packets /\ SetKey(0, k).type = "SetKey"
                           /\ SetKey(0, k).key = 0 /\ SetKey(0, k).value = k
  BY DEF SetKey, Packets
<1> QED
  BY <1>1, <1>2, <1>3, <1>4, <1>5

\* What is put into an inbox goes behind the rest, or is lost behind a DISCONNECT.
LEMMA PutInbox ==
  ASSUME NEW E, NEW inbox \in Seq(E), WellEnded(inbox), NEW e \in E
  PROVE  /\ Put(inbox, e) \in Seq(E) /\ WellEnded(Put(inbox, e))
         /\ Put(inbox, e) # << >>
         /\ inbox # << >> => Put(inbox, e)[1] = inbox[1]
         /\ \A n \in 1..Len(Put(inbox, e)) :
               \/ n \in 1..Len(inbox) /\ Put(inbox, e)[n] = inbox[n]
               \/ Put(inbox, e)[n] = e
<1>1. Len(inbox) \in Nat /\ (inbox # << >> => Len(inbox) >= 1)
  OBVIOUS
<1>2. CASE Ended(inbox)
  <2>1. Put(inbox, e) = inbox /\ inbox # << >>
    BY <1>2 DEF Put, Ended
  <2> QED
    BY <2>1
<1>3. CASE ~Ended(inbox)
  <2>1. Put(inbox, e) = Append(inbox, e)
    BY <1>3 DEF Put
  <2>2. \A n \in 1..Len(inbox) : inbox[n] # DISCONNECT
    BY <1>1, <1>3 DEF WellEnded, Ended, Last
  <2>3. /\ Append(inbox, e) \in Seq(E) /\ Append(inbox, e) # << >>
        /\ Len(Append(inbox, e)) = Len(inbox) + 1
        /\ \A n \in 1..Len(inbox) : Append(inbox, e)[n] = inbox[n]
        /\ Append(inbox, e)[Len(inbox) + 1] = e
    BY AppendProperties
  <2>4. \A n \in 1..(Len(inbox) + 1) : n \in 1..Len(inbox) \/ n = Len(inbox) + 1
    BY <1>1
  <2>5. WellEnded(Append(inbox, e))
    BY <2>2, <2>3, <2>4 DEF WellEnded
  <2>6. inbox # << >> => 1 \in 1..Len(inbox)
    BY <1>1
  <2> QED
    BY <2>1, <2>3, <2>4, <2>5, <2>6
<1> QED
  BY <1>2, <1>3

\* The first event is taken.
LEMMA TakeInbox ==
  ASSUME NEW E, NEW inbox \in Seq(E), WellEnded(inbox), inbox # << >>
  PROVE  /\ Tail(inbox) \in Seq(E) /\ WellEnded(Tail(inbox))
         /\ Head(inbox) = inbox[1] /\ Head(inbox) \in E
         /\ Len(inbox) >= 1 /\ Len(Tail(inbox)) = Len(inbox) - 1
         /\ \A n \in 1..Len(Tail(inbox)) :
               Tail(inbox)[n] = inbox[n + 1] /\ n + 1 \in 1..Len(inbox)
<1>1. /\ Len(inbox) \in Nat \ {0} /\ Tail(inbox) \in Seq(E)
      /\ Head(inbox) = inbox[1] /\ Head(inbox) \in E
      /\ Len(Tail(inbox)) = Len(inbox) - 1
      /\ \A n \in 1..Len(Tail(inbox)) : Tail(inbox)[n] = inbox[n + 1]
  BY HeadTailProperties
<1>2. \A n \in 1..Len(Tail(inbox)) : n + 1 \in 1..Len(inbox)
  BY <1>1
<1>3. WellEnded(Tail(inbox))
  <2> SUFFICES ASSUME NEW n \in 1..Len(Tail(inbox)), Tail(inbox)[n] = DISCONNECT
               PROVE  n = Len(Tail(inbox))
    BY DEF WellEnded
  <2>1. n + 1 \in 1..Len(inbox) /\ inbox[n + 1] = DISCONNECT
    BY <1>1, <1>2
  <2>2. n + 1 = Len(inbox)
    BY <2>1 DEF WellEnded
  <2> DEFINE rest == Len(Tail(inbox))
  <2>3. rest = Len(inbox) - 1 /\ Len(inbox) \in Nat /\ n \in Nat
    BY <1>1
  <2> HIDE DEF rest
  <2>4. n = rest
    BY <2>2, <2>3
  <2> QED
    BY <2>4 DEF rest
<1> QED
  BY <1>1, <1>2, <1>3

\* Some of the events arrive, then a DISCONNECT.
LEMMA CutInbox ==
  ASSUME NEW E, NEW inbox \in Seq(E), WellEnded(inbox), ~Ended(inbox),
         DISCONNECT \in E, NEW cut \in CutShort(inbox)
  PROVE  /\ cut \in Seq(E) /\ WellEnded(cut) /\ cut # << >> /\ Ended(cut)
         /\ cut[1] = DISCONNECT \/ (inbox # << >> /\ cut[1] = inbox[1])
         /\ \A n \in 1..Len(cut) : \/ n \in 1..Len(inbox) /\ cut[n] = inbox[n]
                                   \/ cut[n] = DISCONNECT
<1>1. PICK k \in 0..Len(inbox) : cut = Append(SubSeq(inbox, 1, k), DISCONNECT)
  BY DEF CutShort
<1>2. Len(inbox) \in Nat /\ k \in Nat /\ k <= Len(inbox)
  OBVIOUS
<1>3. \A n \in 1..Len(inbox) : inbox[n] # DISCONNECT
  BY <1>2 DEF WellEnded, Ended, Last
<1>4. /\ SubSeq(inbox, 1, k) \in Seq(E) /\ Len(SubSeq(inbox, 1, k)) = k
      /\ \A n \in 1..k : SubSeq(inbox, 1, k)[n] = inbox[n] /\ n \in 1..Len(inbox)
  BY <1>2
<1>5. /\ cut \in Seq(E) /\ Len(cut) = k + 1 /\ cut[k + 1] = DISCONNECT /\ cut # << >>
      /\ \A n \in 1..k : cut[n] = inbox[n] /\ n \in 1..Len(inbox)
  <2> DEFINE arrived == SubSeq(inbox, 1, k)
  <2>1. /\ arrived \in Seq(E) /\ Len(arrived) = k /\ cut = Append(arrived, DISCONNECT)
        /\ \A n \in 1..k : arrived[n] = inbox[n] /\ n \in 1..Len(inbox)
    BY <1>1, <1>4
  <2> HIDE DEF arrived
  <2> QED
    BY <2>1, AppendProperties
<1>6. \A n \in 1..(k + 1) : n \in 1..k \/ n = k + 1
  BY <1>2
<1>7. WellEnded(cut)
  BY <1>3, <1>5, <1>6 DEF WellEnded
<1>8. 1 \in 1..k \/ k = 0
  BY <1>2
<1>9. cut[1] = DISCONNECT \/ (inbox # << >> /\ cut[1] = inbox[1])
  <2>1. 1 \in 1..Len(inbox) => inbox # << >>
    OBVIOUS
  <2> QED
    BY <1>5, <1>8, <2>1
<1>10. Ended(cut)
  BY <1>2, <1>5 DEF Ended, Last
<1> QED
  BY <1>5, <1>6, <1>7, <1>9, <1>10

\* The inbox of an end that hears no more than a DISCONNECT.
LEMMA LastInbox ==
  ASSUME NEW E, DISCONNECT \in E
  PROVE  /\ << >> \in Seq(E) /\ WellEnded(<< >>)
         /\ <<DISCONNECT>> \in Seq(E) /\ WellEnded(<<DISCONNECT>>)
         /\ <<DISCONNECT>> # << >> /\ <<DISCONNECT>>[1] = DISCONNECT
         /\ Len(<<DISCONNECT>>) = 1
BY DEF WellEnded

-----------------------------------------------------------------------------
(* Rosters *)

\* Packet n of an inbox says that the player with this id has left.
Leaves(inbox, n, id) == inbox[n].type = "PlayerLeft" /\ inbox[n].id = id

\* A roster has those who stay, of the ones known before and the ones who joined.
LEMMA RosterMember ==
  ASSUME NEW ids, NEW inbox, NEW id
  PROVE  id \in RosterAfter(ids, inbox) <=>
            \/ id \in ids /\ \A n \in 1..Len(inbox) : ~Leaves(inbox, n, id)
            \/ \E m \in 1..Len(inbox) :
                  /\ inbox[m].type = "PlayerJoined" /\ inbox[m].id = id
                  /\ \A n \in m + 1..Len(inbox) : ~Leaves(inbox, n, id)
<1>1. 0 + 1 = 1
  OBVIOUS
<1> QED
  BY <1>1 DEF RosterAfter, Leaves

\* The last packet of an inbox is handled last.
LEMMA RosterAppend ==
  ASSUME NEW ids, NEW inbox \in Seq(ToPlayer), NEW p \in Packets
  PROVE  RosterAfter(ids, Append(inbox, p)) = Known(RosterAfter(ids, inbox), p)
<1> DEFINE longer == Append(inbox, p)
           last == Len(inbox) + 1
<1>1. /\ Len(inbox) \in Nat /\ Len(longer) = last /\ longer[last] = p
      /\ \A n \in 1..Len(inbox) : longer[n] = inbox[n]
  <2>1. p \in ToPlayer
    BY DEF ToPlayer
  <2> QED
    BY <2>1, AppendProperties
<1> HIDE DEF longer
<1>2. \A n \in 1..last : n \in 1..Len(inbox) \/ n = last
  BY <1>1
<1>3. \A m \in Nat : \A n \in m + 1..last : n \in m + 1..Len(inbox) \/ n = last
  BY <1>1
<1>4. /\ \A n \in 1..Len(inbox) : n \in 1..last
      /\ \A m \in Nat : \A n \in m + 1..Len(inbox) : n \in m + 1..last
      /\ last \in 1..last /\ \A m \in 1..Len(inbox) : last \in m + 1..last
      /\ \A n \in last + 1..last : FALSE
      /\ 1..Len(inbox) \subseteq Nat
      /\ \A m \in 1..Len(inbox) : \A n \in m + 1..Len(inbox) : n \in 1..Len(inbox)
  BY <1>1
<1>5. ASSUME NEW id
      PROVE  id \in RosterAfter(ids, longer) <=>
                \/ id \in RosterAfter(ids, inbox) /\ ~Leaves(longer, last, id)
                \/ p.type = "PlayerJoined" /\ p.id = id
  <2>1. \A n \in 1..Len(inbox) : Leaves(longer, n, id) <=> Leaves(inbox, n, id)
    BY <1>1 DEF Leaves
  <2>2. (\A n \in 1..last : ~Leaves(longer, n, id)) <=>
          (\A n \in 1..Len(inbox) : ~Leaves(inbox, n, id)) /\ ~Leaves(longer, last, id)
    BY <1>1, <1>2, <1>4, <2>1
  <2>3. ASSUME NEW m \in 1..Len(inbox)
        PROVE  (\A n \in m + 1..last : ~Leaves(longer, n, id)) <=>
                 (\A n \in m + 1..Len(inbox) : ~Leaves(inbox, n, id))
                    /\ ~Leaves(longer, last, id)
    BY <1>1, <1>3, <1>4, <2>1
  <2>4. (\E m \in 1..last : /\ longer[m].type = "PlayerJoined" /\ longer[m].id = id
                            /\ \A n \in m + 1..last : ~Leaves(longer, n, id))
          <=> \/ p.type = "PlayerJoined" /\ p.id = id
              \/ /\ ~Leaves(longer, last, id)
                 /\ \E m \in 1..Len(inbox) :
                       /\ inbox[m].type = "PlayerJoined" /\ inbox[m].id = id
                       /\ \A n \in m + 1..Len(inbox) : ~Leaves(inbox, n, id)
    BY <1>1, <1>2, <1>4, <2>3
  <2>5. id \in RosterAfter(ids, longer) <=>
            \/ id \in ids /\ \A n \in 1..last : ~Leaves(longer, n, id)
            \/ \E m \in 1..last :
                  /\ longer[m].type = "PlayerJoined" /\ longer[m].id = id
                  /\ \A n \in m + 1..last : ~Leaves(longer, n, id)
    BY <1>1, RosterMember
  <2>6. id \in RosterAfter(ids, inbox) <=>
            \/ id \in ids /\ \A n \in 1..Len(inbox) : ~Leaves(inbox, n, id)
            \/ \E m \in 1..Len(inbox) :
                  /\ inbox[m].type = "PlayerJoined" /\ inbox[m].id = id
                  /\ \A n \in m + 1..Len(inbox) : ~Leaves(inbox, n, id)
    BY RosterMember
  <2> QED
    BY <2>2, <2>4, <2>5, <2>6
<1>6. \A id : Leaves(longer, last, id) <=> p.type = "PlayerLeft" /\ p.id = id
  BY <1>1 DEF Leaves
<1>7. CASE p.type = "PlayerJoined"
  <2>1. Known(RosterAfter(ids, inbox), p) = RosterAfter(ids, inbox) \union {p.id}
    BY <1>7 DEF Known
  <2>2. \A id : id \in RosterAfter(ids, longer) <=>
                   id \in RosterAfter(ids, inbox) \union {p.id}
    BY <1>5, <1>6, <1>7
  <2> QED
    BY <2>1, <2>2 DEF longer
<1>8. CASE p.type = "PlayerLeft"
  <2>1. Known(RosterAfter(ids, inbox), p) = RosterAfter(ids, inbox) \ {p.id}
    BY <1>8 DEF Known
  <2>2. \A id : id \in RosterAfter(ids, longer) <=>
                   id \in RosterAfter(ids, inbox) \ {p.id}
    BY <1>5, <1>6, <1>8
  <2> QED
    BY <2>1, <2>2 DEF longer
<1>9. CASE p.type \notin {"PlayerJoined", "PlayerLeft"}
  <2>1. Known(RosterAfter(ids, inbox), p) = RosterAfter(ids, inbox)
    BY <1>9 DEF Known
  <2>2. \A id : id \in RosterAfter(ids, longer) <=> id \in RosterAfter(ids, inbox)
    BY <1>5, <1>6, <1>9
  <2> QED
    BY <2>1, <2>2 DEF longer
<1> QED
  BY <1>7, <1>8, <1>9

\* The first packet of an inbox is handled first.
LEMMA RosterTail ==
  ASSUME NEW ids, NEW inbox \in Seq(ToPlayer), inbox # << >>
  PROVE  RosterAfter(ids, inbox) = RosterAfter(Known(ids, inbox[1]), Tail(inbox))
<1> DEFINE rest == Tail(inbox)
           p == inbox[1]
           len == Len(inbox)
           short == Len(rest)
<1>1. len \in Nat \ {0} /\ short \in Nat /\ len = short + 1
      /\ \A n \in 1..short : rest[n] = inbox[n + 1]
  BY HeadTailProperties
<1> HIDE DEF rest, p, len, short
<1>2. /\ \A n \in 1..len : n = 1 \/ n - 1 \in 1..short
      /\ \A n \in 1..short : n + 1 \in 1..len /\ (n + 1) - 1 = n
      /\ \A m \in 1..short : \A n \in m + 1..short : n + 1 \in (m + 1) + 1..len
      /\ \A m \in 1..short : \A n \in (m + 1) + 1..len : n - 1 \in m + 1..short
      /\ \A m \in Nat : \A n \in m + 1..len : (n - 1) + 1 = n
      /\ \A n \in 1..short : n + 1 \in 1 + 1..len
      /\ \A n \in 1 + 1..len : n - 1 \in 1..short
      /\ \A m \in 1..short : \A n \in m + 1..short : n \in 1..short
      /\ \A n \in 1..len : (n - 1) + 1 = n
      /\ 1 \in 1..len
  BY <1>1
<1>3. ASSUME NEW id
      PROVE  id \in RosterAfter(ids, inbox) <=>
               id \in RosterAfter(Known(ids, p), rest)
  <2>1. \A n \in 1..short : /\ Leaves(rest, n, id) <=> Leaves(inbox, n + 1, id)
                            /\ rest[n].type = inbox[n + 1].type
                            /\ rest[n].id = inbox[n + 1].id
    BY <1>1 DEF Leaves
  <2> DEFINE StaysLater == \A n \in 1..short : ~Leaves(rest, n, id)
             JoinsLater == \E m \in 1..short :
                              /\ rest[m].type = "PlayerJoined" /\ rest[m].id = id
                              /\ \A n \in m + 1..short : ~Leaves(rest, n, id)
  <2>2. (\A n \in 1..len : ~Leaves(inbox, n, id)) <=> ~Leaves(inbox, 1, id) /\ StaysLater
    BY <1>2, <2>1
  <2>3. (\A n \in 1 + 1..len : ~Leaves(inbox, n, id)) <=> StaysLater
    BY <1>2, <2>1
  <2>4. ASSUME NEW m \in 1..short
        PROVE  (\A n \in (m + 1) + 1..len : ~Leaves(inbox, n, id)) <=>
                 (\A n \in m + 1..short : ~Leaves(rest, n, id))
    <3>1. ASSUME NEW n \in m + 1..short, \A i \in (m + 1) + 1..len : ~Leaves(inbox, i, id)
          PROVE  ~Leaves(rest, n, id)
      BY <1>2, <2>1, <3>1
    <3>2. ASSUME NEW n \in (m + 1) + 1..len, \A i \in m + 1..short : ~Leaves(rest, i, id)
          PROVE  ~Leaves(inbox, n, id)
      <4>1. n - 1 \in m + 1..short /\ n - 1 \in 1..short
        BY <1>2
      <4>2. (n - 1) + 1 = n
        BY <1>1
      <4> QED
        BY <2>1, <3>2, <4>1, <4>2
    <3> QED
      BY <3>1, <3>2
  <2>5. (\E m \in 1..len : /\ inbox[m].type = "PlayerJoined" /\ inbox[m].id = id
                           /\ \A n \in m + 1..len : ~Leaves(inbox, n, id))
          <=> \/ p.type = "PlayerJoined" /\ p.id = id /\ StaysLater
              \/ JoinsLater
    <3>1. ASSUME NEW m \in 1..len, inbox[m].type = "PlayerJoined", inbox[m].id = id,
                 \A n \in m + 1..len : ~Leaves(inbox, n, id), m # 1
          PROVE  JoinsLater
      <4>1. m - 1 \in 1..short /\ (m - 1) + 1 = m
        BY <1>2, <3>1
      <4>2. /\ rest[m - 1].type = "PlayerJoined" /\ rest[m - 1].id = id
            /\ \A n \in (m - 1) + 1..short : ~Leaves(rest, n, id)
        BY <2>1, <2>4, <3>1, <4>1
      <4> QED
        BY <4>1, <4>2
    <3>2. ASSUME NEW m \in 1..short, rest[m].type = "PlayerJoined", rest[m].id = id,
                 \A n \in m + 1..short : ~Leaves(rest, n, id)
          PROVE  \E i \in 1..len : /\ inbox[i].type = "PlayerJoined" /\ inbox[i].id = id
                                   /\ \A n \in i + 1..len : ~Leaves(inbox, n, id)
      <4>1. m + 1 \in 1..len
        BY <1>2
      <4> QED
        BY <2>1, <2>4, <3>2, <4>1
    <3>3. (p.type = "PlayerJoined" /\ p.id = id /\ StaysLater) <=>
             /\ inbox[1].type = "PlayerJoined" /\ inbox[1].id = id
             /\ \A n \in 1 + 1..len : ~Leaves(inbox, n, id)
      BY <2>3 DEF p
    <3> HIDE DEF StaysLater
    <3>4. 1 \in 1..len
      BY <1>2
    <3> QED
      BY <3>1, <3>2, <3>3, <3>4
  <2>6. id \in RosterAfter(ids, inbox) <=>
            \/ id \in ids /\ \A n \in 1..len : ~Leaves(inbox, n, id)
            \/ \E m \in 1..len :
                  /\ inbox[m].type = "PlayerJoined" /\ inbox[m].id = id
                  /\ \A n \in m + 1..len : ~Leaves(inbox, n, id)
    BY RosterMember DEF len
  <2>7. id \in RosterAfter(Known(ids, p), rest) <=>
            \/ id \in Known(ids, p) /\ StaysLater
            \/ JoinsLater
    BY RosterMember DEF short
  <2>8. Leaves(inbox, 1, id) <=> p.type = "PlayerLeft" /\ p.id = id
    BY DEF Leaves, p
  <2>9. id \in Known(ids, p) <=> \/ id \in ids /\ ~Leaves(inbox, 1, id)
                                 \/ p.type = "PlayerJoined" /\ p.id = id
    <3>1. CASE p.type = "PlayerJoined"
      BY <2>8, <3>1 DEF Known
    <3>2. CASE p.type = "PlayerLeft"
      BY <2>8, <3>2 DEF Known
    <3>3. CASE p.type \notin {"PlayerJoined", "PlayerLeft"}
      <4>1. Known(ids, p) = ids
        BY <3>3 DEF Known
      <4> QED
        BY <2>8, <3>3, <4>1
    <3> QED
      BY <3>1, <3>2, <3>3
  <2> HIDE DEF StaysLater, JoinsLater
  <2> QED
    BY <2>2, <2>5, <2>6, <2>7, <2>9
<1> QED
  BY <1>3 DEF rest, p

-----------------------------------------------------------------------------
(* The packets a newcomer is sent *)

\* SetToSeq lists a finite set: nothing else, and nothing twice.
LEMMA Listing ==
  ASSUME NEW S, IsFiniteSet(S)
  PROVE  /\ SetToSeq(S) \in Seq(S)
         /\ \A e \in S : \E n \in 1..Len(SetToSeq(S)) : SetToSeq(S)[n] = e
<1> DEFINE len == Cardinality(S)
<1>1. len \in Nat /\ ExistsBijection(1..len, S)
  BY FS_CardinalityType
<1> HIDE DEF len
<1>2. \E f \in [1..len -> S] : IsInjective(f)
  BY <1>1 DEF ExistsBijection, Bijection, Injection
<1>3. SetToSeq(S) \in [1..len -> S] /\ IsInjective(SetToSeq(S))
  BY <1>2 DEF SetToSeq, len
<1>4. SetToSeq(S) \in Injection(1..len, S)
  BY <1>3 DEF Injection
<1>5. Cardinality(1..len) = len
  BY <1>1, FS_Interval
<1>6. SetToSeq(S) \in Surjection(1..len, S)
  BY <1>4, <1>5, FS_Injection DEF len
<1>7. SetToSeq(S) \in Seq(S) /\ Len(SetToSeq(S)) = len
  BY <1>1, <1>3
<1> QED
  BY <1>6, <1>7 DEF Surjection

\* The greeting of a player with key k in a game with these other players.
Greeting(k, others) ==
    <<SetKey(0, k), Packet("PossessEntity", k)>> \o
    SetToSeq({Roster("PlayerJoined", k, id) : id \in others})

\* A greeting brings the key first, and all the others and nobody else after it.
LEMMA GreetingIsRight ==
  ASSUME NEW k \in Nat \ {0}, NEW others \in SUBSET Nat, IsFiniteSet(others)
  PROVE  /\ Greeting(k, others) \in Seq(Packets) /\ Greeting(k, others) # << >>
         /\ Keyed(0, Greeting(k, others), k)
         /\ \A n \in 1..Len(Greeting(k, others)) :
               Greeting(k, others)[n].type = "PlayerJoined" =>
                  Greeting(k, others)[n].id \in others
         /\ RosterAfter({}, Greeting(k, others)) = others
<1> DEFINE joined == {Roster("PlayerJoined", k, id) : id \in others}
           first == <<SetKey(0, k), Packet("PossessEntity", k)>>
           told == SetToSeq(joined)
           all == first \o told
<1>1. IsFiniteSet(joined)
  <2> DEFINE f == [id \in others |-> Roster("PlayerJoined", k, id)]
  <2>1. f \in Surjection(others, joined)
    BY DEF Surjection
  <2> HIDE DEF f, joined
  <2> QED
    BY <2>1, FS_Surjection
<1>2. joined \subseteq Packets
  BY Events
<1>3. /\ told \in Seq(joined)
      /\ \A e \in joined : \E n \in 1..Len(told) : told[n] = e
  <2> HIDE DEF joined
  <2> QED
    BY <1>1, Listing
<1>4. /\ Len(told) \in Nat
      /\ \A n \in 1..Len(told) : /\ told[n].type = "PlayerJoined"
                                 /\ told[n].key = k /\ told[n].id \in others
  <2>1. Len(told) \in Nat /\ \A n \in 1..Len(told) : told[n] \in joined
    <3> HIDE DEF joined
    <3> QED
      BY <1>3
  <2> HIDE DEF told
  <2>2. \A p \in joined : p.type = "PlayerJoined" /\ p.key = k /\ p.id \in others
    BY DEF Roster
  <2> QED
    BY <2>1, <2>2
<1>5. told \in Seq(Packets)
  <2> HIDE DEF joined
  <2> QED
    BY <1>2, <1>3
<1>6. /\ first \in Seq(Packets) /\ Len(first) = 2
      /\ first[1] = SetKey(0, k) /\ first[2] = Packet("PossessEntity", k)
  BY Events
<1> HIDE DEF told, first, joined
<1>7. /\ all \in Seq(Packets) /\ Len(all) = 2 + Len(told)
      /\ \A n \in 1..Len(all) : all[n] = IF n <= 2 THEN first[n] ELSE told[n - 2]
  <2>1. /\ first \o told \in Seq(Packets)
        /\ Len(first \o told) = Len(first) + Len(told)
        /\ \A n \in 1..Len(first) + Len(told) :
              (first \o told)[n] = IF n <= Len(first) THEN first[n]
                                   ELSE told[n - Len(first)]
    BY <1>5, <1>6, ConcatProperties
  <2> QED
    BY <1>6, <2>1
<1> HIDE DEF all
<1>8. all[1] = SetKey(0, k) /\ all[2] = Packet("PossessEntity", k)
  BY <1>4, <1>6, <1>7
<1>9. /\ \A n \in 1..Len(all) : n = 1 \/ n = 2 \/ (n > 2 /\ n - 2 \in 1..Len(told))
      /\ \A n \in 1..Len(told) : /\ n + 2 \in 1..Len(all) /\ (n + 2) - 2 = n
                                 /\ ~(n + 2 <= 2)
  BY <1>4, <1>7
<1>10. ASSUME NEW n \in 1..Len(all), n # 1, n # 2
       PROVE  /\ all[n].type = "PlayerJoined" /\ all[n].key = k
              /\ all[n].id \in others
  <2>1. n - 2 \in 1..Len(told) /\ ~(n <= 2)
    BY <1>4, <1>7, <1>9, <1>10
  <2>2. all[n] = told[n - 2]
    BY <1>7, <2>1
  <2> QED
    BY <1>4, <2>1, <2>2
<1>11. Keyed(0, all, k)
  <2>1. ASSUME NEW n \in 1..Len(all)
        PROVE  IF n = 1 THEN all[n] = SetKey(0, k)
               ELSE all[n].type # "SetKey" /\ all[n].key = k
    <3>1. CASE n = 1
      BY <1>8, <3>1
    <3>2. CASE n = 2
      BY <1>8, <3>2, Events
    <3>3. CASE n # 1 /\ n # 2
      BY <1>10, <3>3
    <3> QED
      BY <3>1, <3>2, <3>3
  <2> QED
    BY <2>1 DEF Keyed
<1>12. ASSUME NEW n \in 1..Len(all), all[n].type = "PlayerJoined"
       PROVE  all[n].id \in others
  <2>1. n # 1 /\ n # 2
    BY <1>8, <1>12, Events
  <2> QED
    BY <1>10, <2>1
<1>13. RosterAfter({}, all) = others
  <2>1. ASSUME NEW id, NEW n \in 1..Len(all)
        PROVE  ~Leaves(all, n, id)
    BY <1>8, <1>10, Events DEF Leaves
  <2>2. \A m \in 1..Len(all) : \A n \in m + 1..Len(all) : n \in 1..Len(all)
    BY <1>4, <1>7
  <2>3. ASSUME NEW id PROVE id \in RosterAfter({}, all) <=> id \in others
    <3>1. id \in RosterAfter({}, all) <=>
             \E m \in 1..Len(all) : all[m].type = "PlayerJoined" /\ all[m].id = id
      BY <2>1, <2>2, RosterMember
    <3>2. ASSUME id \in others
          PROVE  \E m \in 1..Len(all) : all[m].type = "PlayerJoined" /\ all[m].id = id
      <4>1. Roster("PlayerJoined", k, id) \in joined
        BY <3>2 DEF joined
      <4>2. PICK n \in 1..Len(told) : told[n] = Roster("PlayerJoined", k, id)
        BY <1>3, <4>1
      <4>3. n + 2 \in 1..Len(all) /\ all[n + 2] = told[n]
        BY <1>7, <1>9
      <4>4. all[n + 2].type = "PlayerJoined" /\ all[n + 2].id = id
        BY <4>2, <4>3 DEF Roster
      <4> QED
        BY <4>3, <4>4
    <3> QED
      BY <1>12, <3>1, <3>2
  <2> QED
    BY <2>3
<1>14. all # << >>
  BY <1>4, <1>7
<1>15. all = Greeting(k, others)
  BY DEF all, first, told, joined, Greeting
<1> QED
  BY <1>7, <1>11, <1>12, <1>13, <1>14, <1>15

-----------------------------------------------------------------------------
(* One connection *)

\* A change of a client's end that the server has no part in.
Keeps(l, key, ids, l2, key2, ids2) ==
    /\ ClientOk(l2, key2, ids2) /\ l2.far = l.far
    /\ \A k \in Nat \ {0}, me \in Nat, others \in SUBSET Nat :
          PlayerOk(l, key, ids, k, me, others) =>
              PlayerOk(l2, key2, ids2, k, me, others)

\* The server still has at most the CONNECT of a client it has not taken up.
OutOk(l) == \A n \in 1..Len(l.out) : l.out[n] = CONNECT => n = 1 /\ l.far = "accepting"

\* A client that closes, or is down, reads no more packets.
LEMMA Leaving ==
  ASSUME NEW l, NEW key, NEW ids, ClientOk(l, key, ids),
         NEW l2 \in PlayerLink, l2.far = l.far, l2.near # "up",
         WellEnded(l2.in), WellEnded(l2.out), OutOk(l2),
         \A n \in 1..Len(l2.in) : l2.in[n] = DISCONNECT,
         NEW key2 \in {0, key}
  PROVE  Keeps(l, key, ids, l2, key2, ids)
<1>1. ClientOk(l2, key2, ids)
  BY DEF ClientOk, OutOk
<1>2. ASSUME NEW k \in Nat \ {0}, NEW me \in Nat, NEW others \in SUBSET Nat,
             PlayerOk(l, key, ids, k, me, others)
      PROVE  PlayerOk(l2, key2, ids, k, me, others)
  BY <1>2, Events DEF PlayerOk
<1> QED
  BY <1>1, <1>2 DEF Keeps

\* close
LEMMA Closing ==
  ASSUME NEW l, NEW key, NEW ids, ClientOk(l, key, ids), l.near = "up"
  PROVE  Keeps(l, key, ids, CloseNear(l), key, ids)
<1> DEFINE l2 == CloseNear(l)
<1>1. l \in PlayerLink /\ WellEnded(l.out) /\ OutOk(l) /\ l.out \in Seq(ToServer)
  BY DEF ClientOk, OutOk, PlayerLink
<1>2. DISCONNECT \in ToServer /\ DISCONNECT \in ToPlayer /\ DISCONNECT # CONNECT
  BY Events DEF ToServer, ToPlayer
<1> DEFINE out == IF l.far = "down" THEN l.out ELSE Put(l.out, DISCONNECT)
<1>3. /\ out \in Seq(ToServer) /\ WellEnded(out)
      /\ \A n \in 1..Len(out) : out[n] = CONNECT => n \in 1..Len(l.out) /\ l.out[n] = CONNECT
  <2>1. CASE l.far = "down"
    <3>1. out = l.out
      BY <2>1
    <3> QED
      BY <1>1, <3>1
  <2>2. CASE l.far # "down"
    <3>1. out = Put(l.out, DISCONNECT)
      BY <2>2
    <3> DEFINE before == l.out
    <3>2. before \in Seq(ToServer) /\ WellEnded(before)
      BY <1>1
    <3> HIDE DEF out, before, l2
    <3>3. /\ Put(before, DISCONNECT) \in Seq(ToServer)
          /\ WellEnded(Put(before, DISCONNECT))
          /\ \A n \in 1..Len(Put(before, DISCONNECT)) :
                \/ n \in 1..Len(before) /\ Put(before, DISCONNECT)[n] = before[n]
                \/ Put(before, DISCONNECT)[n] = DISCONNECT
      BY <1>2, <3>2, PutInbox
    <3> QED
      BY <1>2, <3>1, <3>3 DEF before
  <2> QED
    BY <2>1, <2>2
<1> HIDE DEF out
<1>4. /\ l2.near = "closing" /\ l2.far = l.far /\ l2.in = <<DISCONNECT>> /\ l2.out = out
      /\ l2 = [near |-> "closing", far |-> l.far, in |-> <<DISCONNECT>>, out |-> out]
  BY <1>1 DEF CloseNear, PlayerLink, out
<1>5. l2 \in PlayerLink
  BY <1>1, <1>2, <1>3, <1>4, LastInbox DEF PlayerLink
<1>6. OutOk(l2)
  BY <1>1, <1>3, <1>4 DEF OutOk
<1>7. WellEnded(l2.in) /\ \A n \in 1..Len(l2.in) : l2.in[n] = DISCONNECT
  BY <1>2, <1>4, LastInbox
<1> HIDE DEF l2
<1>8. Keeps(l, key, ids, l2, key, ids)
  BY <1>3, <1>4, <1>5, <1>6, <1>7, Leaving
<1> QED
  BY <1>8 DEF l2

\* The end of a client is down: its program is gone, or has handled a DISCONNECT.
LEMMA GoingDown ==
  ASSUME NEW l, NEW key, NEW ids, ClientOk(l, key, ids), NEW key2 \in {0, key}
  PROVE  Keeps(l, key, ids, [l EXCEPT !.near = "down", !.in = << >>], key2, ids)
<1> DEFINE l2 == [l EXCEPT !.near = "down", !.in = << >>]
<1>1. l \in PlayerLink /\ WellEnded(l.out) /\ OutOk(l) /\ l.out \in Seq(ToServer)
  BY DEF ClientOk, OutOk, PlayerLink
<1>2. /\ l2.near = "down" /\ l2.far = l.far /\ l2.in = << >> /\ l2.out = l.out
      /\ l2 \in PlayerLink
  <2> DEFINE in == << >>
             near == "down"
  <2>1. in \in Seq(ToPlayer) /\ near \in {"none", "up", "closing", "down"}
    OBVIOUS
  <2>2. l2 = [l EXCEPT !.near = near, !.in = in]
    OBVIOUS
  <2> HIDE DEF l2, in, near
  <2>3. /\ l2.near = near /\ l2.far = l.far /\ l2.in = in /\ l2.out = l.out
        /\ l2 \in PlayerLink
    BY <1>1, <2>1, <2>2 DEF PlayerLink
  <2> QED
    BY <2>3 DEF in, near
<1>3. WellEnded(l2.in) /\ WellEnded(l2.out) /\ OutOk(l2) /\ \A n \in 1..Len(l2.in) : FALSE
  BY <1>1, <1>2 DEF WellEnded, OutOk
<1> HIDE DEF l2
<1>4. Keeps(l, key, ids, l2, key2, ids)
  BY <1>2, <1>3, Leaving
<1> QED
  BY <1>4 DEF l2

\* What an inbox is after a time-out: as it was, or cut short.
Cut(inbox, after) ==
    \/ after = inbox
    \/ after \in CutShort(inbox) /\ ~Ended(inbox)

\* The network fails, for one end or both.
LEMMA Breaking ==
  ASSUME NEW l, NEW key, NEW ids, ClientOk(l, key, ids),
         NEW in, Cut(l.in, in), NEW out, Cut(l.out, out)
  PROVE  Keeps(l, key, ids, WithInboxes(l, in, out), key, ids)
<1> DEFINE l2 == WithInboxes(l, in, out)
<1>1. /\ l \in PlayerLink /\ l.in \in Seq(ToPlayer) /\ l.out \in Seq(ToServer)
      /\ WellEnded(l.in) /\ WellEnded(l.out) /\ OutOk(l)
  BY DEF ClientOk, OutOk, PlayerLink
<1>2. DISCONNECT \in ToServer /\ DISCONNECT \in ToPlayer /\ DISCONNECT # CONNECT
  BY Events DEF ToServer, ToPlayer
<1>3. /\ in \in Seq(ToPlayer) /\ WellEnded(in)
      /\ in = l.in \/ (in # << >> /\ Ended(in))
      /\ \A n \in 1..Len(in) : \/ n \in 1..Len(l.in) /\ in[n] = l.in[n]
                               \/ in[n] = DISCONNECT
  <2>1. CASE in = l.in
    BY <1>1, <2>1
  <2>2. CASE in \in CutShort(l.in) /\ ~Ended(l.in)
    BY <1>1, <1>2, <2>2, CutInbox
  <2> QED
    BY <2>1, <2>2 DEF Cut
<1>4. /\ out \in Seq(ToServer) /\ WellEnded(out)
      /\ \A n \in 1..Len(out) : \/ n \in 1..Len(l.out) /\ out[n] = l.out[n]
                                \/ out[n] = DISCONNECT
  <2>1. CASE out = l.out
    BY <1>1, <2>1
  <2>2. CASE out \in CutShort(l.out) /\ ~Ended(l.out)
    BY <1>1, <1>2, <2>2, CutInbox
  <2> QED
    BY <2>1, <2>2 DEF Cut
<1>5. /\ l2.near = l.near /\ l2.far = l.far /\ l2.in = in /\ l2.out = out
      /\ l2 \in PlayerLink
  BY <1>1, <1>3, <1>4 DEF PlayerLink, WithInboxes
<1> HIDE DEF l2
<1>6. \A k : Keyed(key, l.in, k) => Keyed(key, l2.in, k)
  BY <1>3, <1>5 DEF Keyed
<1>7. OutOk(l2)
  BY <1>1, <1>2, <1>4, <1>5 DEF OutOk
<1>8. \A n \in 1..Len(l2.in) : \/ n \in 1..Len(l.in) /\ l2.in[n] = l.in[n]
                               \/ l2.in[n] = DISCONNECT
  BY <1>3, <1>5
<1>9. ClientOk(l2, key, ids)
  <2>1. l2.far \in {"none", "accepting"} =>
           key = 0 /\ ids = {} /\ \A n \in 1..Len(l2.in) : l2.in[n] = DISCONNECT
    BY <1>5, <1>8 DEF ClientOk
  <2>2. l2.near = "up" => \E k \in Nat \ {0} : Keyed(key, l2.in, k)
    BY <1>5, <1>6 DEF ClientOk
  <2>3. key \in Nat /\ ids \subseteq Nat
    BY DEF ClientOk
  <2>4. WellEnded(l2.in) /\ WellEnded(l2.out)
    BY <1>3, <1>4, <1>5
  <2> QED
    BY <1>5, <1>7, <2>1, <2>2, <2>3, <2>4 DEF ClientOk, OutOk
<1>10. ASSUME NEW k \in Nat \ {0}, NEW me \in Nat, NEW others \in SUBSET Nat,
              PlayerOk(l, key, ids, k, me, others)
       PROVE  PlayerOk(l2, key, ids, k, me, others)
  <2>1. me \notin ids
    BY <1>10 DEF PlayerOk
  <2>2. \A n \in 1..Len(l2.in) : l2.in[n].type = "PlayerJoined" => l2.in[n].id # me
    <3>1. \A n \in 1..Len(l.in) : l.in[n].type = "PlayerJoined" => l.in[n].id # me
      BY <1>10 DEF PlayerOk
    <3>2. DISCONNECT.type # "PlayerJoined"
      BY Events
    <3> QED
      BY <1>8, <3>1, <3>2
  <2>3. ASSUME l2.near = "up"
        PROVE  /\ Keyed(key, l2.in, k) /\ (key = 0 => l2.in # << >>)
               /\ ~Ended(l2.in) => RosterAfter(ids, l2.in) = others
    BY <1>3, <1>5, <1>6, <1>10, <2>3 DEF PlayerOk
  <2> QED
    BY <2>1, <2>2, <2>3 DEF PlayerOk
<1>11. Keeps(l, key, ids, l2, key, ids)
  BY <1>5, <1>9, <1>10 DEF Keeps
<1> QED
  BY <1>11 DEF l2

\* A player is told that another one has joined or left.
LEMMA Telling ==
  ASSUME NEW l, NEW key, NEW ids, ClientOk(l, key, ids), l.far = "up",
         NEW k \in Nat \ {0}, NEW me \in Nat, NEW others \in SUBSET Nat,
         PlayerOk(l, key, ids, k, me, others),
         NEW type \in {"PlayerJoined", "PlayerLeft"}, NEW id \in Nat,
         type = "PlayerJoined" => id # me
  PROVE  LET l2 == SendNear(l, Roster(type, k, id))
         IN  /\ ClientOk(l2, key, ids) /\ l2.far = "up"
             /\ PlayerOk(l2, key, ids, k, me, Known(others, Roster(type, k, id)))
<1> DEFINE p == Roster(type, k, id)
           l2 == SendNear(l, p)
           in == Put(l.in, p)
<1>1. /\ l \in PlayerLink /\ l.in \in Seq(ToPlayer) /\ l.out \in Seq(ToServer)
      /\ WellEnded(l.in) /\ WellEnded(l.out) /\ OutOk(l)
      /\ key \in Nat /\ ids \subseteq Nat
  BY DEF ClientOk, OutOk, PlayerLink
<1>2. /\ p \in Packets /\ p \in ToPlayer /\ p # DISCONNECT
      /\ p.type = type /\ p.key = k /\ p.id = id
  <2>1. p \in Packets /\ p.type = type /\ p.key = k /\ p.id = id
    BY Events
  <2> HIDE DEF p
  <2> QED
    BY <2>1, Events DEF ToPlayer
<1> HIDE DEF p
<1>3. /\ in \in Seq(ToPlayer) /\ WellEnded(in) /\ in # << >>
      /\ l.in # << >> => in[1] = l.in[1]
      /\ \A n \in 1..Len(in) : \/ n \in 1..Len(l.in) /\ in[n] = l.in[n]
                               \/ in[n] = p
  <2> DEFINE before == l.in
  <2>1. before \in Seq(ToPlayer) /\ WellEnded(before)
    BY <1>1
  <2>2. in = Put(before, p)
    OBVIOUS
  <2> HIDE DEF before, l2, in
  <2>3. p \in ToPlayer
    BY <1>2
  <2>4. /\ Put(before, p) \in Seq(ToPlayer) /\ WellEnded(Put(before, p))
        /\ Put(before, p) # << >>
        /\ before # << >> => Put(before, p)[1] = before[1]
        /\ \A n \in 1..Len(Put(before, p)) :
              \/ n \in 1..Len(before) /\ Put(before, p)[n] = before[n]
              \/ Put(before, p)[n] = p
    BY <2>1, <2>3, PutInbox
  <2> QED
    BY <2>2, <2>4 DEF before
<1>4. ~Ended(in) => ~Ended(l.in) /\ in = Append(l.in, p)
  BY DEF Put
<1> HIDE DEF in
<1>5. /\ l2 \in PlayerLink /\ l2.near = l.near /\ l2.far = "up" /\ l2.out = l.out
      /\ \/ l2.in = l.in
         \/ l2.in = in
      /\ l.near = "up" => l2.in = in
  <2> DEFINE sent == [l EXCEPT !.in = in]
  <2>1. /\ sent \in PlayerLink /\ sent.near = l.near /\ sent.far = l.far
        /\ sent.out = l.out /\ sent.in = in
    BY <1>1, <1>3 DEF PlayerLink
  <2>2. l2 = IF l.near # "down" THEN sent ELSE l
    BY DEF SendNear, in
  <2> HIDE DEF sent, l2
  <2> QED
    BY <1>1, <2>1, <2>2
<1> HIDE DEF l2
<1>6. l.near = "up" => Keyed(key, l.in, k) /\ (key = 0 => l.in # << >>)
  BY DEF PlayerOk
<1>7. l.near = "up" => Keyed(key, in, k)
  <2> SUFFICES ASSUME l.near = "up" PROVE Keyed(key, in, k)
    OBVIOUS
  <2>1. Keyed(key, l.in, k) /\ (key = 0 => l.in # << >>)
    BY <1>6
  <2>2. l.in # << >> => 1 \in 1..Len(l.in)
    BY <1>1
  <2>3. ASSUME NEW n \in 1..Len(in)
        PROVE  \/ in[n] = DISCONNECT
               \/ IF key = 0 /\ n = 1 THEN in[n] = SetKey(0, k)
                  ELSE in[n].type # "SetKey" /\ in[n].key = k
    <3>1. CASE key = 0 /\ n = 1
      BY <1>3, <2>1, <2>2, <3>1 DEF Keyed
    <3>2. CASE ~(key = 0 /\ n = 1) /\ in[n] = p
      BY <1>2, <3>2
    <3>3. CASE ~(key = 0 /\ n = 1) /\ in[n] # p
      BY <1>3, <2>1, <3>3 DEF Keyed
    <3> QED
      BY <3>1, <3>2, <3>3
  <2> QED
    BY <2>1, <2>3 DEF Keyed
<1>8. ClientOk(l2, key, ids)
  <2>1. WellEnded(l2.in) /\ WellEnded(l2.out)
    BY <1>1, <1>3, <1>5
  <2>2. OutOk(l2)
    BY <1>1, <1>5 DEF OutOk
  <2>3. l2.near = "up" => \E i \in Nat \ {0} : Keyed(key, l2.in, i)
    BY <1>5, <1>7
  <2> QED
    BY <1>1, <1>5, <2>1, <2>2, <2>3 DEF ClientOk, OutOk
<1>9. PlayerOk(l2, key, ids, k, me, Known(others, p))
  <2>1. me \notin ids
    BY DEF PlayerOk
  <2>2. \A n \in 1..Len(l2.in) : l2.in[n].type = "PlayerJoined" => l2.in[n].id # me
    <3>1. \A n \in 1..Len(l.in) : l.in[n].type = "PlayerJoined" => l.in[n].id # me
      BY DEF PlayerOk
    <3> QED
      BY <1>2, <1>3, <1>5, <3>1
  <2>3. ASSUME l2.near = "up"
        PROVE  /\ Keyed(key, l2.in, k) /\ (key = 0 => l2.in # << >>)
    BY <1>3, <1>5, <1>7, <2>3
  <2>4. ASSUME l2.near = "up", ~Ended(l2.in)
        PROVE  RosterAfter(ids, l2.in) = Known(others, p)
    <3>1. ~Ended(l.in) /\ l2.in = Append(l.in, p) /\ l.near = "up"
      BY <1>4, <1>5, <2>4
    <3>2. RosterAfter(ids, l.in) = others
      BY <3>1 DEF PlayerOk
    <3>3. RosterAfter(ids, Append(l.in, p)) = Known(RosterAfter(ids, l.in), p)
      BY <1>1, <1>2, RosterAppend
    <3> QED
      BY <3>1, <3>2, <3>3
  <2> QED
    BY <2>1, <2>2, <2>3, <2>4 DEF PlayerOk
<1> QED
  BY <1>5, <1>8, <1>9 DEF l2, p

\* A client handles the next packet of channel 0.
LEMMA Taking ==
  ASSUME NEW l, NEW key, NEW ids, ClientOk(l, key, ids), l.near = "up",
         l.in # << >>, Head(l.in) # DISCONNECT
  PROVE  LET p == Head(l.in)
         IN  /\ p \in Packets
             /\ Keeps(l, key, ids, [l EXCEPT !.in = Tail(@)],
                      IF p.type = "SetKey" THEN p.value ELSE key, Known(ids, p))
<1> DEFINE in == l.in
           p == Head(l.in)
           rest == Tail(l.in)
           l2 == [l EXCEPT !.in = Tail(@)]
           key2 == IF p.type = "SetKey" THEN p.value ELSE key
           ids2 == Known(ids, p)
<1>1. /\ l \in PlayerLink /\ in \in Seq(ToPlayer) /\ l.out \in Seq(ToServer)
      /\ WellEnded(in) /\ WellEnded(l.out) /\ OutOk(l)
      /\ key \in Nat /\ ids \subseteq Nat /\ in # << >>
  BY DEF ClientOk, OutOk, PlayerLink
<1>2. /\ rest \in Seq(ToPlayer) /\ WellEnded(rest)
      /\ p = in[1] /\ p \in ToPlayer /\ Len(in) >= 1 /\ Len(rest) = Len(in) - 1
      /\ \A n \in 1..Len(rest) : rest[n] = in[n + 1] /\ n + 1 \in 1..Len(in)
  <2> HIDE DEF in
  <2>1. p = Head(in) /\ rest = Tail(in)
    BY DEF in
  <2> HIDE DEF p, rest, l2
  <2> QED
    BY <1>1, <2>1, TakeInbox
<1>3. /\ l2 \in PlayerLink /\ l2.near = "up" /\ l2.far = l.far /\ l2.in = rest
      /\ l2.out = l.out
  <2>1. l2 = [l EXCEPT !.in = rest]
    BY <1>1 DEF PlayerLink
  <2> HIDE DEF l2, rest
  <2> QED
    BY <1>1, <1>2, <2>1 DEF PlayerLink
<1>4. rest = Tail(in)
  OBVIOUS
<1>5. p # DISCONNECT
  OBVIOUS
<1> HIDE DEF l2, rest, p
<1>6. p \in Packets
  BY <1>2, <1>5 DEF ToPlayer
<1>7. 1 \in 1..Len(in) /\ in[1] = p /\ Len(in) \in Nat
  BY <1>1, <1>2
<1>8. PICK k0 \in Nat \ {0} : Keyed(key, in, k0)
  BY DEF ClientOk
<1>9. ASSUME NEW k \in Nat \ {0}, Keyed(key, in, k)
      PROVE  Keyed(key2, rest, k) /\ key2 = k
  <2>1. IF key = 0 THEN p = SetKey(0, k) ELSE p.type # "SetKey" /\ p.key = k
    BY <1>5, <1>7, <1>9 DEF Keyed
  <2>2. key2 = k
    BY <1>9, <2>1, Events DEF Keyed
  <2>3. ASSUME NEW n \in 1..Len(rest)
        PROVE  \/ rest[n] = DISCONNECT
               \/ rest[n].type # "SetKey" /\ rest[n].key = k
    <3>1. rest[n] = in[n + 1] /\ n + 1 \in 1..Len(in) /\ n + 1 # 1
      BY <1>2
    <3> QED
      BY <1>9, <3>1 DEF Keyed
  <2> HIDE DEF key2
  <2> QED
    BY <2>2, <2>3 DEF Keyed
<1>10. l.far \notin {"none", "accepting"}
  BY <1>5, <1>7 DEF ClientOk
<1>11. ids2 \subseteq Nat
  BY <1>1, <1>6, Events DEF Known
<1>12. ClientOk(l2, key2, ids2)
  <2>1. key2 \in Nat /\ Keyed(key2, rest, k0)
    BY <1>8, <1>9
  <2>2. OutOk(l2)
    BY <1>1, <1>3 DEF OutOk
  <2> HIDE DEF key2, ids2
  <2> QED
    BY <1>1, <1>2, <1>3, <1>8, <1>10, <1>11, <2>1, <2>2 DEF ClientOk, OutOk
<1>13. ASSUME NEW k \in Nat \ {0}, NEW me \in Nat, NEW others \in SUBSET Nat,
              PlayerOk(l, key, ids, k, me, others)
       PROVE  PlayerOk(l2, key2, ids2, k, me, others)
  <2>1. /\ me \notin ids /\ Keyed(key, in, k)
        /\ \A n \in 1..Len(in) : in[n].type = "PlayerJoined" => in[n].id # me
        /\ ~Ended(in) => RosterAfter(ids, in) = others
    BY <1>13 DEF PlayerOk
  <2>2. me \notin ids2
    BY <1>7, <2>1 DEF Known
  <2>3. \A n \in 1..Len(rest) : rest[n].type = "PlayerJoined" => rest[n].id # me
    BY <1>2, <2>1
  <2>4. Keyed(key2, rest, k) /\ key2 # 0
    BY <1>9, <2>1
  <2>5. ~Ended(rest) => RosterAfter(ids2, rest) = others
    <3>1. ASSUME ~Ended(rest) PROVE ~Ended(in)
      <4>1. CASE rest = << >>
        <5>1. Len(in) = 1
          BY <1>2, <1>7, <4>1
        <5> QED
          BY <1>5, <1>7, <5>1 DEF Ended, Last
      <4>2. CASE rest # << >>
        <5>1. Len(rest) \in 1..Len(rest) /\ Len(rest) + 1 = Len(in)
          BY <1>2, <1>7, <4>2
        <5>2. rest[Len(rest)] = in[Len(in)]
          BY <1>2, <5>1
        <5> QED
          BY <3>1, <4>2, <5>2 DEF Ended, Last
      <4> QED
        BY <4>1, <4>2
    <3>2. RosterAfter(ids, in) = RosterAfter(Known(ids, in[1]), Tail(in))
      <4> HIDE DEF in
      <4> QED
        BY <1>1, RosterTail
    <3> QED
      BY <1>4, <1>7, <2>1, <3>1, <3>2
  <2> HIDE DEF key2, ids2
  <2> QED
    BY <1>3, <2>2, <2>3, <2>4, <2>5 DEF PlayerOk
<1>14. Keeps(l, key, ids, l2, key2, ids2)
  <2> HIDE DEF key2, ids2
  <2> QED
    BY <1>3, <1>12, <1>13 DEF Keeps
<1> QED
  BY <1>6, <1>14 DEF l2, p

-----------------------------------------------------------------------------
(* Steps of a client *)

\* Only client c's end of things changes, and as one connection may.
ClientStep(c) ==
    /\ UNCHANGED serverVars
    /\ link' \in [Clients -> PlayerLink]
    /\ client_key' \in [Clients -> Nat] /\ otherIds_' \in [Clients -> SUBSET Nat]
    /\ \A d \in Clients \ {c} : /\ link'[d] = link[d] /\ client_key'[d] = client_key[d]
                                /\ otherIds_'[d] = otherIds_[d]
    /\ Keeps(link[c], client_key[c], otherIds_[c],
             link'[c], client_key'[c], otherIds_'[c])

\* A player's place among the slots, in terms of the state.
LEMMA Place ==
  ASSUME IInv, NEW slot \in Playing
  PROVE  /\ slot \in Slots /\ peers[slot] \in Clients /\ link[peers[slot]].far = "up"
         /\ keys_[slot] \in Nat \ {0} /\ clients_[slot] \in Nat \ {0}
         /\ clients_[slot] < idCounter_ /\ Others(slot) \in SUBSET Nat
<1>1. slot \in Slots /\ clients_[slot] # 0
  BY DEF Playing
<1>2. Others(slot) \in SUBSET Nat
  BY DEF IInv, SlotsOk, Others, Playing
<1> QED
  BY <1>1, <1>2 DEF IInv, SlotsOk

\* Such a step keeps the invariant.
LEMMA ClientSteps ==
  ASSUME IInv, NEW c \in Clients, ClientStep(c)
  PROVE  IInv'
<1>1. /\ peers' = peers /\ keys_' = keys_ /\ clients_' = clients_
      /\ idCounter_' = idCounter_
  BY DEF ClientStep, serverVars
<1>2. Playing' = Playing /\ \A slot \in Slots : Others(slot)' = Others(slot)
  BY <1>1 DEF Playing, Others
<1>3. ASSUME NEW d \in Clients
      PROVE  Keeps(link[d], client_key[d], otherIds_[d],
                   link'[d], client_key'[d], otherIds_'[d])
  <2>1. CASE d = c
    BY <2>1 DEF ClientStep
  <2>2. CASE d # c
    BY <2>2 DEF ClientStep, IInv, ClientsOk, Keeps
  <2> QED
    BY <2>1, <2>2
<1>4. \A d \in Clients : link'[d].far = link[d].far
  BY <1>3 DEF Keeps
<1>5. SlotsOk'
  <2>1. /\ \A slot \in Slots : peers[slot] \in Clients =>
              /\ link'[peers[slot]].far \in {"accepting", "up"}
              /\ \A other \in Slots : peers[other] = peers[slot] => other = slot
        /\ \A slot \in Slots : slot \in Playing <=> /\ peers[slot] \in Clients
                                                   /\ link'[peers[slot]].far = "up"
    BY <1>4 DEF IInv, SlotsOk
  <2> QED
    BY <1>1, <1>2, <2>1 DEF IInv, SlotsOk
<1>6. ClientsOk'
  BY <1>3 DEF ClientsOk, ClientStep, Keeps
<1>7. PlayersOk'
  <2> SUFFICES ASSUME NEW slot \in Playing
               PROVE  PlayerOk(link'[peers[slot]], client_key'[peers[slot]],
                               otherIds_'[peers[slot]], keys_[slot], clients_[slot],
                               Others(slot))
    <3>1. \A slot \in Playing : slot \in Slots
      BY DEF Playing
    <3> QED
      BY <1>1, <1>2, <3>1 DEF PlayersOk
  <2>1. PlayerOk(link[peers[slot]], client_key[peers[slot]], otherIds_[peers[slot]],
                 keys_[slot], clients_[slot], Others(slot))
    BY DEF IInv, PlayersOk
  <2>2. /\ peers[slot] \in Clients /\ keys_[slot] \in Nat \ {0} /\ clients_[slot] \in Nat
        /\ Others(slot) \in SUBSET Nat
    BY Place
  <2> DEFINE d == peers[slot]
             others == Others(slot)
  <2>3. d \in Clients /\ others \in SUBSET Nat
        /\ PlayerOk(link[d], client_key[d], otherIds_[d], keys_[slot], clients_[slot], others)
    BY <2>1, <2>2
  <2> HIDE DEF d, others
  <2>4. PlayerOk(link'[d], client_key'[d], otherIds_'[d], keys_[slot], clients_[slot],
                 others)
    BY <1>3, <2>2, <2>3 DEF Keeps
  <2> QED
    BY <2>4 DEF d, others
<1> QED
  BY <1>5, <1>6, <1>7 DEF IInv

\* ClientReceive
LEMMA Receiving ==
  ASSUME IInv, NEW c \in Clients, ClientReceive(c)
  PROVE  IInv'
<1> DEFINE l == link[c]
           p == Head(link[c].in)
<1>1. /\ link \in [Clients -> PlayerLink] /\ client_key \in [Clients -> Nat]
      /\ otherIds_ \in [Clients -> SUBSET Nat]
      /\ ClientOk(l, client_key[c], otherIds_[c])
  BY DEF IInv, ClientsOk
<1>2. /\ UNCHANGED serverVars /\ l.near = "up" /\ l.in # << >> /\ p # DISCONNECT
  BY DEF ClientReceive
<1>3. CASE p.key # client_key[c]
  <2> DEFINE l2 == [l EXCEPT !.near = "down", !.in = << >>]
  <2>1. /\ link' = [link EXCEPT ![c] = l2]
        /\ client_key' = client_key /\ otherIds_' = otherIds_
    BY <1>2, <1>3 DEF ClientReceive, DestroyNear, clientVars
  <2>2. Keeps(l, client_key[c], otherIds_[c], l2, client_key[c], otherIds_[c])
    BY <1>1, GoingDown
  <2> HIDE DEF l2
  <2>3. l2 \in PlayerLink
    BY <2>2 DEF Keeps, ClientOk
  <2>4. ClientStep(c)
    BY <1>1, <1>2, <2>1, <2>2, <2>3 DEF ClientStep
  <2> QED
    BY <2>4, ClientSteps
<1>4. CASE p.key = client_key[c]
  <2> DEFINE l2 == [l EXCEPT !.in = Tail(@)]
             key2 == IF p.type = "SetKey" THEN p.value ELSE client_key[c]
             ids2 == Known(otherIds_[c], p)
  <2>1. Keeps(l, client_key[c], otherIds_[c], l2, key2, ids2)
    <3>1. l.near = "up" /\ l.in # << >> /\ Head(l.in) # DISCONNECT
      BY <1>2
    <3> HIDE DEF l
    <3>2. Keeps(l, client_key[c], otherIds_[c], [l EXCEPT !.in = Tail(@)],
                IF Head(l.in).type = "SetKey" THEN Head(l.in).value ELSE client_key[c],
                Known(otherIds_[c], Head(l.in)))
      BY <1>1, <3>1, Taking
    <3> QED
      BY <3>2 DEF l
  <2>2. /\ link' = [link EXCEPT ![c] = l2]
        /\ client_key' = [client_key EXCEPT ![c] = key2]
        /\ otherIds_' = [otherIds_ EXCEPT ![c] = ids2]
    <3>1. link' = [link EXCEPT ![c] = l2]
      BY <1>1, <1>4 DEF ClientReceive
    <3>2. client_key' = [client_key EXCEPT ![c] = key2]
      BY <1>1, <1>4 DEF ClientReceive
    <3>3. otherIds_' = [otherIds_ EXCEPT ![c] = ids2]
      BY <1>1, <1>4 DEF ClientReceive
    <3> QED
      BY <3>1, <3>2, <3>3
  <2> HIDE DEF l2, key2, ids2
  <2>3. l2 \in PlayerLink /\ key2 \in Nat /\ ids2 \in SUBSET Nat
    BY <2>1 DEF Keeps, ClientOk
  <2>4. ClientStep(c)
    BY <1>1, <1>2, <2>1, <2>2, <2>3 DEF ClientStep
  <2> QED
    BY <2>4, ClientSteps
<1> QED
  BY <1>3, <1>4

\* Only the connection of c changes.
LEMMA LinkStep ==
  ASSUME IInv, NEW c \in Clients, NEW l2,
         link' = [link EXCEPT ![c] = l2], UNCHANGED serverVars,
         UNCHANGED client_key, UNCHANGED otherIds_,
         Keeps(link[c], client_key[c], otherIds_[c], l2, client_key[c], otherIds_[c])
  PROVE  IInv'
<1>1. /\ link \in [Clients -> PlayerLink] /\ client_key \in [Clients -> Nat]
      /\ otherIds_ \in [Clients -> SUBSET Nat]
  BY DEF IInv, ClientsOk
<1>2. l2 \in PlayerLink
  BY DEF Keeps, ClientOk
<1>3. ClientStep(c)
  BY <1>1, <1>2 DEF ClientStep
<1> QED
  BY <1>3, ClientSteps

\* ClientReceiveLossy
LEMMA ReceivingLossy ==
  ASSUME IInv, NEW c \in Clients, NEW k, ClientReceiveLossy(c, k)
  PROVE  IInv'
<1> DEFINE l == link[c]
           l2 == IF to_client[c][k].key # client_key[c]
                 THEN [l EXCEPT !.near = "down", !.in = << >>] ELSE l
<1>1. link \in [Clients -> PlayerLink] /\ ClientOk(l, client_key[c], otherIds_[c])
  BY DEF IInv, ClientsOk
<1>2. UNCHANGED serverVars /\ UNCHANGED client_key /\ UNCHANGED otherIds_
  BY DEF ClientReceiveLossy, clientVars
<1>3. link' = [link EXCEPT ![c] = l2]
  BY <1>1 DEF ClientReceiveLossy, DestroyNear
<1>4. Keeps(l, client_key[c], otherIds_[c], l2, client_key[c], otherIds_[c])
  <2>1. Keeps(l, client_key[c], otherIds_[c], [l EXCEPT !.near = "down", !.in = << >>],
              client_key[c], otherIds_[c])
    BY <1>1, GoingDown
  <2>2. Keeps(l, client_key[c], otherIds_[c], l, client_key[c], otherIds_[c])
    BY <1>1 DEF Keeps
  <2> QED
    BY <2>1, <2>2
<1> HIDE DEF l2
<1> QED
  BY <1>2, <1>3, <1>4, LinkStep

\* close
LEMMA ClosesLink ==
  ASSUME IInv, NEW c \in Clients, close(c)
  PROVE  IInv'
<1>1. /\ UNCHANGED serverVars /\ UNCHANGED client_key /\ UNCHANGED otherIds_
      /\ link' = [link EXCEPT ![c] = CloseNear(link[c])] /\ link[c].near = "up"
  BY DEF close, clientVars
<1>2. ClientOk(link[c], client_key[c], otherIds_[c])
  BY DEF IInv, ClientsOk
<1> QED
  BY <1>1, <1>2, Closing, LinkStep

\* ClientDisconnected
LEMMA IsDisconnected ==
  ASSUME IInv, NEW c \in Clients, ClientDisconnected(c)
  PROVE  IInv'
<1> DEFINE l2 == [link[c] EXCEPT !.near = "down", !.in = << >>]
<1>1. /\ link \in [Clients -> PlayerLink] /\ client_key \in [Clients -> Nat]
      /\ otherIds_ \in [Clients -> SUBSET Nat]
      /\ ClientOk(link[c], client_key[c], otherIds_[c])
  BY DEF IInv, ClientsOk
<1>2. /\ UNCHANGED serverVars /\ otherIds_' = otherIds_
      /\ client_key' = [client_key EXCEPT ![c] = 0]
  BY DEF ClientDisconnected
<1>3. link' = [link EXCEPT ![c] = l2]
  BY <1>1 DEF ClientDisconnected
<1>4. Keeps(link[c], client_key[c], otherIds_[c], l2, 0, otherIds_[c])
  BY <1>1, GoingDown
<1> HIDE DEF l2
<1>5. l2 \in PlayerLink
  BY <1>4 DEF Keeps, ClientOk
<1>6. ClientStep(c)
  BY <1>1, <1>2, <1>3, <1>4, <1>5 DEF ClientStep
<1> QED
  BY <1>6, ClientSteps

\* TimeOut
LEMMA TimesOut ==
  ASSUME IInv, NEW c \in Clients, TimeOut(c)
  PROVE  IInv'
<1>1. UNCHANGED serverVars /\ UNCHANGED client_key /\ UNCHANGED otherIds_
  BY DEF TimeOut, clientVars
<1>2. PICK broken \in Broken(link[c]) : link' = [link EXCEPT ![c] = broken]
  BY DEF TimeOut
<1>3. PICK in, out : /\ broken = WithInboxes(link[c], in, out)
                     /\ Cut(link[c].in, in) /\ Cut(link[c].out, out)
  BY <1>2 DEF Broken, Cut
<1>4. ClientOk(link[c], client_key[c], otherIds_[c])
  BY DEF IInv, ClientsOk
<1>5. Keeps(link[c], client_key[c], otherIds_[c], broken, client_key[c], otherIds_[c])
  BY <1>3, <1>4, Breaking
<1> QED
  BY <1>1, <1>2, <1>5, LinkStep

\* Forsaken
LEMMA IsForsaken ==
  ASSUME IInv, NEW c \in Clients, Forsaken(c)
  PROVE  IInv'
<1> DEFINE l == link[c]
<1>1. UNCHANGED serverVars /\ UNCHANGED client_key /\ UNCHANGED otherIds_
  BY DEF Forsaken, clientVars
<1>2. PICK abandoned \in Abandoned(l) : link' = [link EXCEPT ![c] = abandoned]
  BY DEF Forsaken
<1>3. ClientOk(l, client_key[c], otherIds_[c]) /\ l \in PlayerLink
  BY DEF IInv, ClientsOk
<1> HIDE DEF l
<1>4. PICK out \in CutShort(l.out) : abandoned = [l EXCEPT !.out = out] /\ ~Ended(l.out)
  BY <1>2 DEF Abandoned
<1>5. WithInboxes(l, l.in, out) = [l EXCEPT !.out = out]
  BY <1>3 DEF WithInboxes, PlayerLink
<1>6. Cut(l.in, l.in) /\ Cut(l.out, out)
  BY <1>4 DEF Cut
<1>7. Keeps(l, client_key[c], otherIds_[c], WithInboxes(l, l.in, out),
            client_key[c], otherIds_[c])
  BY <1>3, <1>6, Breaking
<1>8. Keeps(l, client_key[c], otherIds_[c], abandoned, client_key[c], otherIds_[c])
  BY <1>4, <1>5, <1>7
<1> QED
  BY <1>1, <1>2, <1>8, LinkStep DEF l

-----------------------------------------------------------------------------
(* Connections that begin and end *)

\* The connection of a client that has called connect.
Calling == [NoLink EXCEPT !.near = "up", !.far = "accepting", !.out = <<CONNECT>>]

\* A program that has just started, and one that has called connect.
LEMMA Beginning ==
  /\ ClientOk(NoLink, 0, {}) /\ NoLink.near = "none" /\ NoLink.far = "none"
  /\ ClientOk(Calling, 0, {}) /\ Calling.near = "up" /\ Calling.far = "accepting"
<1>1. CONNECT \in ToServer /\ CONNECT # DISCONNECT
  BY Events DEF ToServer
<1>2. /\ << >> \in Seq(ToPlayer) /\ << >> \in Seq(ToServer) /\ <<CONNECT>> \in Seq(ToServer)
      /\ <<CONNECT>>[1] = CONNECT /\ Len(<<CONNECT>>) = 1 /\ Len(<< >>) = 0
  BY <1>1
<1>3. /\ NoLink.near = "none" /\ NoLink.far = "none" /\ NoLink.in = << >>
      /\ NoLink.out = << >> /\ NoLink \in PlayerLink
  BY <1>2 DEF NoLink, PlayerLink
<1>4. /\ Calling.near = "up" /\ Calling.far = "accepting" /\ Calling.in = << >>
      /\ Calling.out = <<CONNECT>> /\ Calling \in PlayerLink
  BY <1>2, <1>3 DEF Calling, PlayerLink
<1>5. WellEnded(<< >>) /\ WellEnded(<<CONNECT>>)
  BY <1>1, <1>2 DEF WellEnded
<1>6. Keyed(0, << >>, 1)
  BY <1>2 DEF Keyed
<1>7. ClientOk(NoLink, 0, {})
  BY <1>2, <1>3, <1>5 DEF ClientOk
<1>8. ClientOk(Calling, 0, {})
  BY <1>2, <1>4, <1>5, <1>6 DEF ClientOk
<1> QED
  BY <1>3, <1>4, <1>7, <1>8

\* The server is done with a connection.
LEMMA Dropping ==
  ASSUME NEW l, NEW key, NEW ids, ClientOk(l, key, ids)
  PROVE  LET l2 == [l EXCEPT !.far = "down", !.out = << >>]
         IN  ClientOk(l2, key, ids) /\ l2.far = "down"
<1> DEFINE out == << >>
           far == "down"
           l2 == [l EXCEPT !.far = "down", !.out = << >>]
<1>1. /\ l \in PlayerLink /\ WellEnded(l.in) /\ key \in Nat /\ ids \subseteq Nat
      /\ l.near = "up" => \E k \in Nat \ {0} : Keyed(key, l.in, k)
  BY DEF ClientOk
<1>2. /\ out \in Seq(ToServer) /\ far \in {"none", "accepting", "up", "down"}
      /\ WellEnded(out) /\ \A n \in 1..Len(out) : FALSE
  BY DEF WellEnded
<1>3. l2 = [l EXCEPT !.far = far, !.out = out]
  OBVIOUS
<1>4. far \notin {"none", "accepting"} /\ far = "down"
  OBVIOUS
<1> HIDE DEF l2, out, far
<1>5. /\ l2.near = l.near /\ l2.far = far /\ l2.in = l.in /\ l2.out = out
      /\ l2 \in PlayerLink
  BY <1>1, <1>2, <1>3 DEF PlayerLink
<1>6. ClientOk(l2, key, ids)
  BY <1>1, <1>2, <1>4, <1>5 DEF ClientOk
<1> QED
  BY <1>4, <1>5, <1>6 DEF l2

\* A newcomer is taken up: it gets the greeting, unless it is about to leave.
LEMMA Welcoming ==
  ASSUME NEW l, NEW key, NEW ids, ClientOk(l, key, ids), l.far = "accepting",
         l.out # << >>,
         NEW k \in Nat \ {0}, NEW others \in SUBSET Nat, IsFiniteSet(others),
         k \notin others
  PROVE  LET l2 == SendAll([l EXCEPT !.far = "up", !.out = Tail(@)], Greeting(k, others))
         IN  /\ ClientOk(l2, key, ids) /\ l2.far = "up"
             /\ PlayerOk(l2, key, ids, k, k, others)
<1> DEFINE hello == Greeting(k, others)
           rest == Tail(l.out)
           up == [l EXCEPT !.far = "up", !.out = Tail(@)]
           l2 == SendAll(up, hello)
<1>1. /\ l \in PlayerLink /\ l.in \in Seq(ToPlayer) /\ l.out \in Seq(ToServer)
      /\ WellEnded(l.in) /\ WellEnded(l.out) /\ OutOk(l)
      /\ key = 0 /\ ids = {} /\ \A n \in 1..Len(l.in) : l.in[n] = DISCONNECT
  BY DEF ClientOk, OutOk, PlayerLink
<1>2. /\ hello \in Seq(Packets) /\ hello # << >> /\ Keyed(0, hello, k)
      /\ \A n \in 1..Len(hello) : hello[n].type = "PlayerJoined" => hello[n].id \in others
      /\ RosterAfter({}, hello) = others
  BY GreetingIsRight
<1> HIDE DEF hello
<1>3. hello \in Seq(ToPlayer) /\ WellEnded(hello)
  <2>1. Packets \subseteq ToPlayer
    BY DEF ToPlayer
  <2>2. \A n \in 1..Len(hello) : hello[n] \in Packets
    BY <1>2
  <2>3. WellEnded(hello)
    BY <2>2, Events DEF WellEnded
  <2> QED
    BY <1>2, <2>1, <2>3
<1>4. /\ rest \in Seq(ToServer) /\ WellEnded(rest)
      /\ \A n \in 1..Len(rest) : rest[n] # CONNECT
  <2> DEFINE out == l.out
  <2>1. out \in Seq(ToServer) /\ WellEnded(out) /\ out # << >> /\ rest = Tail(out)
    BY <1>1
  <2> HIDE DEF out, rest, up
  <2>2. /\ rest \in Seq(ToServer) /\ WellEnded(rest)
        /\ \A n \in 1..Len(rest) : rest[n] = out[n + 1] /\ n + 1 \in 1..Len(out)
    BY <2>1, TakeInbox
  <2>3. \A n \in 1..Len(rest) : n + 1 # 1
    OBVIOUS
  <2> QED
    BY <1>1, <2>2, <2>3 DEF out, OutOk
<1>5. /\ up \in PlayerLink /\ up.near = l.near /\ up.far = "up" /\ up.in = l.in
      /\ up.out = rest
  <2> DEFINE far == "up"
  <2>1. up = [l EXCEPT !.far = far, !.out = rest]
    BY <1>1 DEF PlayerLink
  <2>2. far \in {"none", "accepting", "up", "down"} /\ far = "up"
    OBVIOUS
  <2> HIDE DEF far, rest, up
  <2> QED
    BY <1>1, <1>4, <2>1, <2>2 DEF PlayerLink
<1> HIDE DEF up, rest
<1>6. l.in = << >> \/ Ended(l.in)
  <2>1. l.in # << >> => Len(l.in) \in 1..Len(l.in)
    BY <1>1
  <2> QED
    BY <1>1, <2>1 DEF Ended, Last
<1>7. /\ l2 \in PlayerLink /\ l2.near = l.near /\ l2.far = "up" /\ l2.out = rest
      /\ \/ l2.in = l.in /\ (l.near = "up" => Ended(l.in))
         \/ l2.in = hello
  <2>1. CASE l.near # "down" /\ ~Ended(l.in)
    <3>1. up.in = << >> /\ up.in \o hello = hello
      BY <1>3, <1>5, <1>6, <2>1, ConcatEmptySeq
    <3>2. l2 = [up EXCEPT !.in = hello]
      BY <1>5, <2>1, <3>1 DEF SendAll, PlayerLink
    <3> HIDE DEF l2
    <3> QED
      BY <1>3, <1>5, <3>2 DEF PlayerLink
  <2>2. CASE l.near = "down" \/ Ended(l.in)
    <3>1. l2 = up
      BY <1>5, <2>2 DEF SendAll
    <3> QED
      BY <1>5, <2>2, <3>1
  <2> QED
    BY <2>1, <2>2
<1> HIDE DEF l2
<1>8. /\ WellEnded(l2.in) /\ WellEnded(l2.out) /\ OutOk(l2)
      /\ \A n \in 1..Len(l2.in) : l2.in[n].type = "PlayerJoined" => l2.in[n].id # k
  BY <1>1, <1>2, <1>3, <1>4, <1>7, Events DEF OutOk
<1>9. Keyed(0, l2.in, k)
  BY <1>1, <1>2, <1>7 DEF Keyed
<1>10. ClientOk(l2, key, ids)
  BY <1>1, <1>7, <1>8, <1>9 DEF ClientOk, OutOk
<1>11. PlayerOk(l2, key, ids, k, k, others)
  <2>1. l2.near = "up" => l2.in # << >> /\ (~Ended(l2.in) => l2.in = hello)
    BY <1>2, <1>7 DEF Ended
  <2> QED
    BY <1>1, <1>2, <1>8, <1>9, <2>1 DEF PlayerOk
<1> QED
  BY <1>7, <1>10, <1>11 DEF l2, up, hello

-----------------------------------------------------------------------------
(* Connect and Restart *)

\* Every set of natural numbers has a least element.
LEMMA LeastElement ==
  ASSUME NEW T, T \subseteq Nat, T # {}
  PROVE  Min(T) \in T /\ \A y \in T : Min(T) <= y
<1> DEFINE Upto(n) == 0..n
           F == {S \in FiniteSubsetsOf(Nat) : \E n \in T : S = Upto(n)}
           R == StrictSubsetOrdering(Nat)
<1>1. \A n \in T : Upto(n) \in F
  BY FS_Interval DEF FiniteSubsetsOf
<1>2. \E S \in F : \A V \in F : ~(<<V, S>> \in R)
  <2>1. IsWellFoundedOn(R, FiniteSubsetsOf(Nat))
    BY FS_StrictSubsetOrderingWellFounded
  <2>2. F \subseteq FiniteSubsetsOf(Nat) /\ F # {}
    BY <1>1
  <2> HIDE DEF F, R
  <2> QED
    BY <2>1, <2>2, WFMin
<1>3. PICK n \in T : \A m \in T : ~(<<Upto(m), Upto(n)>> \in R)
  BY <1>1, <1>2
<1>4. \A m \in T : n <= m
  <2>1. SUFFICES ASSUME NEW m \in T, m < n
                 PROVE  FALSE
    OBVIOUS
  <2>2. Upto(m) \subseteq Upto(n) /\ n \in Upto(n) /\ n \notin Upto(m)
    BY <2>1
  <2>3. <<Upto(m), Upto(n)>> \in R
    BY <2>2 DEF StrictSubsetOrdering
  <2> QED
    BY <1>3, <2>3
<1> QED
  BY <1>4 DEF Min

\* Client c's end is new, its slot is free or new, and nobody else notices.
NewEnd(c, l2) ==
    /\ link' = [link EXCEPT ![c] = l2]
    /\ client_key' = [client_key EXCEPT ![c] = 0]
    /\ otherIds_' = [otherIds_ EXCEPT ![c] = {}]
    /\ keys_' = keys_ /\ clients_' = clients_ /\ idCounter_' = idCounter_

\* The slots of the others, and what the players among them know, are as before.
LEMMA NewEnds ==
  ASSUME IInv, NEW c \in Clients, NEW l2, ClientOk(l2, 0, {}), NewEnd(c, l2),
         link[c].far \in {"none", "down"}
  PROVE  /\ ClientsOk' /\ Playing' = Playing
         /\ \A slot \in Playing : peers[slot] # c
         /\ \A slot \in Slots : peers[slot] \in Clients =>
               peers[slot] # c /\ link'[peers[slot]] = link[peers[slot]]
         /\ (\A slot \in Playing : peers'[slot] = peers[slot]) => PlayersOk'
<1>1. /\ link \in [Clients -> PlayerLink] /\ client_key \in [Clients -> Nat]
      /\ otherIds_ \in [Clients -> SUBSET Nat]
      /\ \A d \in Clients : ClientOk(link[d], client_key[d], otherIds_[d])
  BY DEF IInv, ClientsOk
<1>2. l2 \in PlayerLink
  BY DEF ClientOk
<1>3. /\ link' \in [Clients -> PlayerLink] /\ client_key' \in [Clients -> Nat]
      /\ otherIds_' \in [Clients -> SUBSET Nat]
      /\ link'[c] = l2 /\ client_key'[c] = 0 /\ otherIds_'[c] = {}
      /\ \A d \in Clients \ {c} : /\ link'[d] = link[d] /\ client_key'[d] = client_key[d]
                                  /\ otherIds_'[d] = otherIds_[d]
  BY <1>1, <1>2 DEF NewEnd
<1>4. ClientsOk'
  <2>1. ASSUME NEW d \in Clients
        PROVE  ClientOk(link'[d], client_key'[d], otherIds_'[d])
    <3>1. CASE d = c
      BY <1>3, <3>1
    <3>2. CASE d # c
      BY <1>1, <1>3, <3>2
    <3> QED
      BY <3>1, <3>2
  <2> QED
    BY <1>3, <2>1 DEF ClientsOk
<1>5. \A slot \in Slots : peers[slot] \in Clients =>
         peers[slot] # c /\ link'[peers[slot]] = link[peers[slot]]
  BY <1>3 DEF IInv, SlotsOk
<1>6. Playing' = Playing /\ \A slot \in Slots : Others(slot)' = Others(slot)
  BY DEF Playing, Others, NewEnd
<1>7. \A slot \in Playing : slot \in Slots /\ peers[slot] \in Clients /\ peers[slot] # c
  BY <1>5, Place
<1>8. ASSUME \A slot \in Playing : peers'[slot] = peers[slot]
      PROVE  PlayersOk'
  <2> SUFFICES ASSUME NEW slot \in Playing
               PROVE  PlayerOk(link'[peers'[slot]], client_key'[peers'[slot]],
                               otherIds_'[peers'[slot]], keys_'[slot], clients_'[slot],
                               Others(slot)')
    BY <1>6 DEF PlayersOk
  <2>1. PlayerOk(link[peers[slot]], client_key[peers[slot]], otherIds_[peers[slot]],
                 keys_[slot], clients_[slot], Others(slot))
    BY DEF IInv, PlayersOk
  <2>2. /\ link'[peers[slot]] = link[peers[slot]] /\ Others(slot)' = Others(slot)
        /\ client_key'[peers[slot]] = client_key[peers[slot]]
        /\ otherIds_'[peers[slot]] = otherIds_[peers[slot]]
    BY <1>3, <1>6, <1>7
  <2>3. keys_' = keys_ /\ clients_' = clients_ /\ peers'[slot] = peers[slot]
    BY <1>8 DEF NewEnd
  <2> QED
    BY <2>1, <2>2, <2>3
<1> QED
  BY <1>4, <1>5, <1>6, <1>7, <1>8

\* Restart
LEMMA Restarting ==
  ASSUME IInv, NEW c \in Clients, Restart(c)
  PROVE  IInv'
<1>1. /\ link[c].far = "down" /\ NewEnd(c, NoLink) /\ peers' = peers
  BY DEF Restart, NewEnd, serverVars
<1>2. /\ ClientsOk' /\ Playing' = Playing /\ PlayersOk'
      /\ \A slot \in Slots : peers[slot] \in Clients =>
            peers[slot] # c /\ link'[peers[slot]] = link[peers[slot]]
  BY <1>1, NewEnds, Beginning
<1>3. keys_' = keys_ /\ clients_' = clients_ /\ idCounter_' = idCounter_
  BY <1>1 DEF NewEnd
<1>4. SlotsOk'
  <2>1. /\ \A slot \in Slots : peers[slot] \in Clients =>
              /\ link'[peers[slot]].far \in {"accepting", "up"}
              /\ \A other \in Slots : peers[other] = peers[slot] => other = slot
        /\ \A slot \in Slots : slot \in Playing <=> /\ peers[slot] \in Clients
                                                   /\ link'[peers[slot]].far = "up"
    BY <1>2 DEF IInv, SlotsOk
  <2> QED
    BY <1>1, <1>2, <1>3, <2>1 DEF IInv, SlotsOk
<1> QED
  BY <1>2, <1>4 DEF IInv

\* Connect
LEMMA Connects ==
  ASSUME IInv, NEW c \in Clients, Connect(c)
  PROVE  IInv'
<1> DEFINE free == Min(FreeSlots)
<1>1. /\ link[c] = NoLink /\ FreeSlots # {}
      /\ peers' = [peers EXCEPT ![free] = c]
      /\ link' = [link EXCEPT ![c] = Calling]
      /\ UNCHANGED <<keys_, clients_, idCounter_, client_key, otherIds_>>
  BY DEF Connect, Calling, clientVars
<1>2. /\ link \in [Clients -> PlayerLink] /\ client_key \in [Clients -> Nat]
      /\ otherIds_ \in [Clients -> SUBSET Nat]
      /\ ClientOk(link[c], client_key[c], otherIds_[c])
  BY DEF IInv, ClientsOk
<1>3. link[c].far = "none" /\ client_key[c] = 0 /\ otherIds_[c] = {}
  BY <1>1, <1>2, Beginning DEF ClientOk
<1>4. NewEnd(c, Calling)
  BY <1>1, <1>2, <1>3 DEF NewEnd
<1>5. free \in Slots /\ peers[free] = "free"
  <2>1. FreeSlots \subseteq Nat /\ FreeSlots \subseteq Slots
    BY ConstantsAssumption DEF FreeSlots, Slots
  <2>2. free \in FreeSlots
    BY <1>1, <2>1, LeastElement
  <2> QED
    BY <2>2 DEF FreeSlots
<1> HIDE DEF free
<1>6. "free" \notin Clients
  BY ConstantsAssumption
<1>7. /\ ClientsOk' /\ Playing' = Playing
      /\ \A slot \in Slots : peers[slot] \in Clients =>
            peers[slot] # c /\ link'[peers[slot]] = link[peers[slot]]
      /\ (\A slot \in Playing : peers'[slot] = peers[slot]) => PlayersOk'
  BY <1>3, <1>4, NewEnds, Beginning
<1>8. peers \in [Slots -> Clients \union {"free"}]
  BY DEF IInv, SlotsOk
<1>9. /\ peers'[free] = c /\ \A slot \in Slots \ {free} : peers'[slot] = peers[slot]
      /\ peers' \in [Slots -> Clients \union {"free"}]
  BY <1>1, <1>5, <1>8
<1>10. free \notin Playing /\ \A slot \in Playing : slot \in Slots
  BY <1>5, <1>6, Place
<1>11. PlayersOk'
  BY <1>7, <1>9, <1>10
<1>12. SlotsOk'
  <2>1. link'[c].far = "accepting"
    BY <1>1, <1>2, Beginning
  <2>2. ASSUME NEW slot \in Slots, peers'[slot] \in Clients
        PROVE  /\ link'[peers'[slot]].far \in {"accepting", "up"}
               /\ \A other \in Slots : peers'[other] = peers'[slot] => other = slot
    <3>1. CASE slot = free
      BY <1>7, <1>9, <2>1, <3>1
    <3>2. CASE slot # free
      BY <1>7, <1>9, <2>2, <3>2 DEF IInv, SlotsOk
    <3> QED
      BY <3>1, <3>2
  <2>3. ASSUME NEW slot \in Slots
        PROVE  slot \in Playing <=> /\ peers'[slot] \in Clients
                                    /\ link'[peers'[slot]].far = "up"
    <3>1. CASE slot = free
      BY <1>9, <1>10, <2>1, <3>1
    <3>2. CASE slot # free
      BY <1>7, <1>9, <3>2 DEF IInv, SlotsOk
    <3> QED
      BY <3>1, <3>2
  <2> QED
    BY <1>1, <1>7, <1>9, <2>2, <2>3 DEF IInv, SlotsOk
<1> QED
  BY <1>7, <1>11, <1>12 DEF IInv

-----------------------------------------------------------------------------
(* The CONNECT and the DISCONNECT of a player *)

\* Tell finds the slot of a player.
LEMMA SlotIsFound ==
  ASSUME IInv, NEW slots \in SUBSET Playing, NEW s \in slots
  PROVE  /\ peers[s] \in Clients /\ \E t \in slots : peers[t] = peers[s]
         /\ (CHOOSE t \in slots : peers[t] = peers[s]) = s
<1>1. \A t \in slots : t \in Slots
  BY Place
<1>2. peers[s] \in Clients
  BY Place
<1>3. \A t \in slots : peers[t] = peers[s] => t = s
  BY <1>1, <1>2 DEF IInv, SlotsOk
<1> QED
  BY <1>2, <1>3

\* When a player is told of one that joins or leaves, its connection stays in
\* order, and it will know of the other.
LEMMA OneIsTold ==
  ASSUME IInv, NEW s \in Playing,
         NEW type \in {"PlayerJoined", "PlayerLeft"}, NEW id \in Nat,
         type = "PlayerJoined" => clients_[s] # id
  PROVE  LET l2 == SendNear(link[peers[s]], Roster(type, keys_[s], id))
         IN  /\ ClientOk(l2, client_key[peers[s]], otherIds_[peers[s]]) /\ l2.far = "up"
             /\ PlayerOk(l2, client_key[peers[s]], otherIds_[peers[s]],
                         keys_[s], clients_[s], Known(Others(s), Roster(type, 0, id)))
<1> DEFINE d == peers[s]
           l == link[d]
           k == keys_[s]
           me == clients_[s]
           others == Others(s)
           p == Roster(type, k, id)
<1>1. /\ d \in Clients /\ l.far = "up" /\ k \in Nat \ {0} /\ me \in Nat
      /\ others \in SUBSET Nat
  BY Place
<1>2. /\ ClientOk(l, client_key[d], otherIds_[d])
      /\ PlayerOk(l, client_key[d], otherIds_[d], k, me, others)
  BY <1>1 DEF IInv, ClientsOk, PlayersOk
<1>3. Known(others, p) = Known(others, Roster(type, 0, id))
  BY DEF Known, Roster
<1>4. type = "PlayerJoined" => id # me
  OBVIOUS
<1> HIDE DEF d, l, k, me, others
<1>5. LET l2 == SendNear(l, Roster(type, k, id))
      IN  /\ ClientOk(l2, client_key[d], otherIds_[d]) /\ l2.far = "up"
          /\ PlayerOk(l2, client_key[d], otherIds_[d], k, me,
                      Known(others, Roster(type, k, id)))
  BY <1>1, <1>2, <1>4, Telling
<1>6. LET l2 == SendNear(l, Roster(type, k, id))
      IN  /\ ClientOk(l2, client_key[d], otherIds_[d]) /\ l2.far = "up"
          /\ PlayerOk(l2, client_key[d], otherIds_[d], k, me,
                      Known(others, Roster(type, 0, id)))
  BY <1>3, <1>5
<1> QED
  BY <1>6 DEF d, l, k, me, others

\* connected
LEMMA PlayerConnected ==
  ASSUME IInv, NEW slot \in Slots, connected(slot)
  PROVE  IInv'
<1> DEFINE c == peers[slot]
           l == link[c]
           k == idCounter_
           others == Others(slot)
           told == Tell(link, Playing \ {slot}, "PlayerJoined", k)
           l2 == SendAll([l EXCEPT !.far = "up", !.out = Tail(@)], Greeting(k, others))
<1>1. /\ link \in [Clients -> PlayerLink] /\ client_key \in [Clients -> Nat]
      /\ otherIds_ \in [Clients -> SUBSET Nat]
      /\ keys_ \in [Slots -> Nat] /\ clients_ \in [Slots -> Nat] /\ k \in Nat \ {0}
  BY DEF IInv, ClientsOk, SlotsOk
<1>2. /\ c \in Clients /\ l.out # << >> /\ Head(l.out).type = "CONNECT"
      /\ ClientOk(l, client_key[c], otherIds_[c])
  BY DEF IInv, ClientsOk, connected, HeadIs
<1>3. l.far = "accepting"
  <2>1. /\ l.out \in Seq(ToServer) /\ OutOk(l) /\ 1 \in 1..Len(l.out)
        /\ Head(l.out) = l.out[1] /\ l.out[1] \in ToServer
    BY <1>2 DEF ClientOk, OutOk, PlayerLink
  <2>2. l.out[1] = CONNECT
    BY <1>2, <2>1, Events DEF ToServer
  <2> QED
    BY <2>1, <2>2 DEF OutOk
<1>4. slot \notin Playing /\ keys_[slot] = 0 /\ clients_[slot] = 0
  BY <1>2, <1>3 DEF IInv, SlotsOk, Playing
<1>5. \A s \in Playing : /\ s \in Slots /\ s # slot /\ clients_[s] \in Nat \ {0}
                         /\ clients_[s] < k /\ clients_[s] # k
  BY <1>1, <1>4, Place
<1>6. others \in SUBSET Nat /\ k \notin others /\ IsFiniteSet(others)
  <2>1. \A id \in others : id \in Nat /\ id < k
    BY <1>5 DEF Others
  <2> HIDE DEF others
  <2>2. others \in SUBSET Nat /\ \A id \in others : id <= k
    BY <1>1, <2>1
  <2>3. IsFiniteSet(others)
    BY <1>1, <2>2, FS_BoundedSetOfNaturals
  <2> QED
    BY <1>1, <2>1, <2>3
<1>7. Hello(slot) = Greeting(k, others)
  <2>1. {Roster("PlayerJoined", k, clients_[other]) : other \in Playing \ {slot}}
          = {Roster("PlayerJoined", k, id) : id \in others}
    BY DEF Others
  <2> QED
    BY <1>4, <2>1 DEF Hello, Greeting, NewKey
<1>8. /\ peers' = peers /\ keys_' = [keys_ EXCEPT ![slot] = k]
      /\ clients_' = [clients_ EXCEPT ![slot] = k] /\ idCounter_' = k + 1
      /\ client_key' = client_key /\ otherIds_' = otherIds_
      /\ link' = [told EXCEPT ![c] = l2]
  BY <1>7 DEF connected, NewKey, NewId, clientVars
<1>9. /\ ClientOk(l2, client_key[c], otherIds_[c]) /\ l2.far = "up"
      /\ PlayerOk(l2, client_key[c], otherIds_[c], k, k, others)
  <2> HIDE DEF l, others, k, c
  <2> QED
    BY <1>1, <1>2, <1>3, <1>6, Welcoming
<1>10. /\ \A d \in Clients \ {c} :
             ClientOk(told[d], client_key[d], otherIds_[d]) /\ told[d].far = link[d].far
       /\ \A s \in Playing \ {slot} :
             PlayerOk(told[peers[s]], client_key[peers[s]], otherIds_[peers[s]],
                      keys_[s], clients_[s], Known(Others(s), Roster("PlayerJoined", 0, k)))
  <2> DEFINE slots == Playing \ {slot}
  <2>1. slots \in SUBSET Playing /\ told = Tell(link, slots, "PlayerJoined", k)
    OBVIOUS
  <2> HIDE DEF slots, k, l, l2, others, told
  <2>2. /\ \A s \in slots : told[peers[s]] =
              SendNear(link[peers[s]], Roster("PlayerJoined", keys_[s], k))
        /\ \A d \in Clients : (\A s \in slots : peers[s] # d) => told[d] = link[d]
    <3>1. \A s \in slots :
             /\ peers[s] \in Clients /\ \E t \in slots : peers[t] = peers[s]
             /\ (CHOOSE t \in slots : peers[t] = peers[s]) = s
      BY <2>1, SlotIsFound
    <3>2. \A s \in slots : told[peers[s]] =
             SendNear(link[peers[s]], Roster("PlayerJoined", keys_[s], k))
      BY <2>1, <3>1 DEF Tell
    <3>3. \A d \in Clients : (\A s \in slots : peers[s] # d) => told[d] = link[d]
      BY <2>1 DEF Tell
    <3> QED
      BY <3>2, <3>3
  <2>3. ASSUME NEW s \in slots
        PROVE  /\ ClientOk(told[peers[s]], client_key[peers[s]], otherIds_[peers[s]])
               /\ told[peers[s]].far = "up" /\ link[peers[s]].far = "up"
               /\ PlayerOk(told[peers[s]], client_key[peers[s]], otherIds_[peers[s]],
                           keys_[s], clients_[s],
                           Known(Others(s), Roster("PlayerJoined", 0, k)))
    <3>1. s \in Playing /\ k \in Nat /\ clients_[s] # k
      BY <1>1, <1>5, <2>1
    <3>2. link[peers[s]].far = "up"
      BY <3>1, Place
    <3> QED
      BY <2>2, <3>1, <3>2, OneIsTold
  <2>4. ASSUME NEW d \in Clients \ {c}
        PROVE  ClientOk(told[d], client_key[d], otherIds_[d]) /\ told[d].far = link[d].far
    <3>1. CASE \E s \in slots : peers[s] = d
      BY <2>3, <3>1
    <3>2. CASE \A s \in slots : peers[s] # d
      <4>1. told[d] = link[d]
        BY <2>2, <3>2
      <4> QED
        BY <4>1 DEF IInv, ClientsOk
    <3> QED
      BY <3>1, <3>2
  <2> QED
    BY <2>3, <2>4 DEF slots
<1>11. told = [d \in Clients |-> told[d]]
  BY DEF Tell
<1> HIDE DEF told, l2, l, others, c
<1>12. /\ link' \in [Clients -> PlayerLink] /\ link'[c] = l2
       /\ \A d \in Clients \ {c} : link'[d] = told[d]
  BY <1>2, <1>8, <1>9, <1>10, <1>11 DEF ClientOk
<1>13. \A d \in Clients : ClientOk(link'[d], client_key[d], otherIds_[d])
  BY <1>9, <1>10, <1>12
<1>14. ClientsOk'
  BY <1>1, <1>8, <1>12, <1>13 DEF ClientsOk
<1>15. /\ keys_' \in [Slots -> Nat] /\ clients_' \in [Slots -> Nat]
       /\ keys_'[slot] = k /\ clients_'[slot] = k
       /\ \A s \in Slots \ {slot} : keys_'[s] = keys_[s] /\ clients_'[s] = clients_[s]
  BY <1>1, <1>8
<1>16. Playing' = Playing \union {slot}
  BY <1>1, <1>15 DEF Playing
<1>17. ASSUME NEW s \in Playing
       PROVE  /\ peers[s] \in Clients \ {c} /\ s \in Slots \ {slot}
              /\ Others(s)' = Known(Others(s), Roster("PlayerJoined", 0, k))
  <2>1. s \in Slots \ {slot} /\ peers[s] \in Clients
    BY <1>5, Place
  <2>2. peers[s] # c
    BY <2>1 DEF IInv, SlotsOk, c
  <2>3. Others(s)' = {clients_'[other] : other \in (Playing \union {slot}) \ {s}}
    BY <1>16 DEF Others
  <2>4. \A other \in Playing : clients_'[other] = clients_[other]
    BY <1>5, <1>15
  <2>5. Others(s)' = Others(s) \union {k}
    BY <1>15, <2>1, <2>3, <2>4 DEF Others
  <2> QED
    BY <2>1, <2>2, <2>5 DEF Known, Roster
<1>18. Others(slot)' = others
  <2>1. Others(slot)' = {clients_'[other] : other \in Playing}
    BY <1>4, <1>16 DEF Others
  <2>2. others = {clients_[other] : other \in Playing}
    BY <1>4 DEF Others, others
  <2>3. \A other \in Playing : clients_'[other] = clients_[other]
    BY <1>5, <1>15
  <2> QED
    BY <2>1, <2>2, <2>3
<1>19. PlayersOk'
  <2> SUFFICES ASSUME NEW s \in Playing'
               PROVE  PlayerOk(link'[peers[s]], client_key[peers[s]], otherIds_[peers[s]],
                               keys_'[s], clients_'[s], Others(s)')
    BY <1>8 DEF PlayersOk
  <2>1. CASE s = slot
    BY <1>9, <1>12, <1>15, <1>18, <2>1 DEF c
  <2>2. CASE s # slot
    <3>1. s \in Playing
      BY <1>16, <2>2
    <3> QED
      BY <1>10, <1>12, <1>15, <1>17, <2>2, <3>1
  <2> QED
    BY <2>1, <2>2
<1>20. SlotsOk'
  <2>1. \A d \in Clients \ {c} : link'[d].far = link[d].far
    BY <1>10, <1>12
  <2>2. link'[c].far = "up"
    BY <1>9, <1>12
  <2>3. \A s \in Slots \ {slot} : peers[s] # c
    BY <1>2 DEF IInv, SlotsOk, c
  <2>4. ASSUME NEW s \in Slots, peers[s] \in Clients
        PROVE  /\ link'[peers[s]].far \in {"accepting", "up"}
               /\ \A other \in Slots : peers[other] = peers[s] => other = s
    BY <2>1, <2>2, <2>4 DEF IInv, SlotsOk
  <2>5. ASSUME NEW s \in Slots
        PROVE  s \in Playing' <=> peers[s] \in Clients /\ link'[peers[s]].far = "up"
    <3>1. CASE s = slot
      BY <1>2, <1>16, <2>2, <3>1 DEF c
    <3>2. CASE s # slot
      BY <1>16, <2>1, <2>3, <3>2 DEF IInv, SlotsOk
    <3> QED
      BY <3>1, <3>2
  <2>6. \A s \in Slots : keys_'[s] # 0 <=> s \in Playing'
    BY <1>1, <1>15, <1>16 DEF IInv, SlotsOk
  <2>7. \A s \in Playing' : clients_'[s] < k + 1
    BY <1>1, <1>5, <1>15, <1>16
  <2>8. \A s, t \in Playing' : clients_'[s] = clients_'[t] => s = t
    BY <1>5, <1>15, <1>16 DEF IInv, SlotsOk
  <2>9. k + 1 \in Nat \ {0} /\ peers \in [Slots -> Clients \union {"free"}]
    BY <1>1 DEF IInv, SlotsOk
  <2> HIDE DEF k
  <2> QED
    BY <1>8, <1>15, <2>4, <2>5, <2>6, <2>7, <2>8, <2>9 DEF SlotsOk
<1> QED
  BY <1>14, <1>19, <1>20 DEF IInv

\* The connection of the player in a slot, when the server is done with it.
Dropped(slot) ==
    [link EXCEPT ![peers[slot]].far = "down", ![peers[slot]].out = << >>]

\* The slot is free, and its client's connection in order.
LEMMA SlotIsFreed ==
  ASSUME IInv, NEW slot \in Slots, peers[slot] \in Clients,
         peers' = [peers EXCEPT ![slot] = "free"]
  PROVE  /\ Dropped(slot) \in [Clients -> PlayerLink]
         /\ ClientOk(Dropped(slot)[peers[slot]], client_key[peers[slot]],
                     otherIds_[peers[slot]])
         /\ Dropped(slot)[peers[slot]].far = "down"
         /\ \A d \in Clients \ {peers[slot]} : Dropped(slot)[d] = link[d]
         /\ peers' \in [Slots -> Clients \union {"free"}] /\ peers'[slot] \notin Clients
         /\ \A s \in Slots \ {slot} : /\ peers'[s] = peers[s]
                                      /\ peers[s] # peers[slot]
<1> DEFINE c == peers[slot]
           l2 == [link[c] EXCEPT !.far = "down", !.out = << >>]
<1>1. /\ link \in [Clients -> PlayerLink]
      /\ ClientOk(link[c], client_key[c], otherIds_[c])
  BY DEF IInv, ClientsOk
<1>2. ClientOk(l2, client_key[c], otherIds_[c]) /\ l2.far = "down"
  <2> HIDE DEF c
  <2> QED
    BY <1>1, Dropping
<1>3. Dropped(slot) = [link EXCEPT ![c] = l2]
  BY <1>1 DEF Dropped
<1>4. l2 \in PlayerLink
  BY <1>2 DEF ClientOk
<1> HIDE DEF l2
<1>5. /\ Dropped(slot) \in [Clients -> PlayerLink] /\ Dropped(slot)[c] = l2
      /\ \A d \in Clients \ {c} : Dropped(slot)[d] = link[d]
  BY <1>1, <1>3, <1>4
<1>6. peers \in [Slots -> Clients \union {"free"}] /\ "free" \notin Clients
  BY ConstantsAssumption DEF IInv, SlotsOk
<1>7. /\ peers' \in [Slots -> Clients \union {"free"}] /\ peers'[slot] \notin Clients
      /\ \A s \in Slots \ {slot} : peers'[s] = peers[s]
  BY <1>6
<1>8. \A s \in Slots \ {slot} : peers[s] # peers[slot]
  BY DEF IInv, SlotsOk
<1> QED
  BY <1>2, <1>5, <1>7, <1>8

\* disconnected, of a client whose CONNECT never was an event of the server
LEMMA NewcomerDisconnected ==
  ASSUME IInv, NEW slot \in Slots, disconnected(slot),
         link[peers[slot]].far = "accepting"
  PROVE  IInv'
<1> DEFINE c == peers[slot]
<1>1. /\ c \in Clients /\ peers' = [peers EXCEPT ![slot] = "free"]
      /\ link' = Dropped(slot)
      /\ UNCHANGED <<keys_, clients_, idCounter_, client_key, otherIds_>>
  BY DEF disconnected, Dropped, clientVars
<1>2. /\ link' \in [Clients -> PlayerLink]
      /\ ClientOk(link'[c], client_key[c], otherIds_[c]) /\ link'[c].far = "down"
      /\ \A d \in Clients \ {c} : link'[d] = link[d]
      /\ peers' \in [Slots -> Clients \union {"free"}] /\ peers'[slot] \notin Clients
      /\ \A s \in Slots \ {slot} : peers'[s] = peers[s] /\ peers[s] # c
  BY <1>1, SlotIsFreed
<1>3. slot \notin Playing
  BY DEF IInv, SlotsOk
<1>4. \A s \in Playing : /\ s \in Slots \ {slot} /\ peers'[s] = peers[s]
                         /\ peers[s] \in Clients \ {c}
  BY <1>2, <1>3, Place
<1>5. Playing' = Playing /\ \A s \in Slots : Others(s)' = Others(s)
  BY <1>1 DEF Playing, Others
<1> HIDE DEF c
<1>6. ClientsOk'
  BY <1>1, <1>2 DEF IInv, ClientsOk
<1>7. PlayersOk'
  <2> SUFFICES ASSUME NEW s \in Playing
               PROVE  PlayerOk(link'[peers'[s]], client_key[peers'[s]],
                               otherIds_[peers'[s]], keys_[s], clients_[s], Others(s))
    <3>1. \A s \in Playing : s \in Slots
      BY <1>4
    <3> QED
      BY <1>1, <1>5, <3>1 DEF PlayersOk
  <2>1. PlayerOk(link[peers[s]], client_key[peers[s]], otherIds_[peers[s]],
                 keys_[s], clients_[s], Others(s))
    BY DEF IInv, PlayersOk
  <2>2. peers'[s] = peers[s] /\ link'[peers[s]] = link[peers[s]]
    BY <1>2, <1>4
  <2> QED
    BY <2>1, <2>2
<1>8. SlotsOk'
  <2>1. ASSUME NEW s \in Slots, peers'[s] \in Clients
        PROVE  /\ link'[peers'[s]].far \in {"accepting", "up"}
               /\ \A other \in Slots : peers'[other] = peers'[s] => other = s
    <3>1. s # slot /\ peers'[s] = peers[s] /\ link'[peers[s]] = link[peers[s]]
      BY <1>2, <2>1
    <3> QED
      BY <1>2, <2>1, <3>1 DEF IInv, SlotsOk
  <2>2. ASSUME NEW s \in Slots
        PROVE  s \in Playing <=> peers'[s] \in Clients /\ link'[peers'[s]].far = "up"
    <3>1. CASE s = slot
      BY <1>2, <1>3, <3>1
    <3>2. CASE s # slot
      <4>1. peers'[s] = peers[s] /\ (peers[s] \in Clients => link'[peers[s]] = link[peers[s]])
        BY <1>2, <3>2
      <4> QED
        BY <4>1 DEF IInv, SlotsOk
    <3> QED
      BY <3>1, <3>2
  <2> QED
    BY <1>1, <1>2, <1>5, <2>1, <2>2 DEF IInv, SlotsOk
<1> QED
  BY <1>6, <1>7, <1>8 DEF IInv

\* disconnected, of a player
LEMMA PlayerDisconnected ==
  ASSUME IInv, NEW slot \in Slots, disconnected(slot),
         link[peers[slot]].far # "accepting"
  PROVE  IInv'
<1> DEFINE c == peers[slot]
           id == clients_[slot]
           slots == Playing \ {slot}
           told == Tell(Dropped(slot), slots, "PlayerLeft", id)
<1>1. /\ c \in Clients /\ peers' = [peers EXCEPT ![slot] = "free"]
      /\ link' = told
      /\ keys_' = [keys_ EXCEPT ![slot] = 0] /\ clients_' = [clients_ EXCEPT ![slot] = 0]
      /\ UNCHANGED <<idCounter_, client_key, otherIds_>>
  <2>1. link' = told
    BY DEF disconnected, Dropped
  <2> HIDE DEF told
  <2> QED
    BY <2>1 DEF disconnected, clientVars, KeysWithout
<1>2. /\ ClientOk(Dropped(slot)[c], client_key[c], otherIds_[c])
      /\ Dropped(slot)[c].far = "down"
      /\ \A d \in Clients \ {c} : Dropped(slot)[d] = link[d]
      /\ peers' \in [Slots -> Clients \union {"free"}] /\ peers'[slot] \notin Clients
      /\ \A s \in Slots \ {slot} : peers'[s] = peers[s] /\ peers[s] # c
  BY <1>1, SlotIsFreed
<1>3. slot \in Playing
  BY <1>1 DEF IInv, SlotsOk
<1>4. id \in Nat
  BY <1>3, Place
<1>5. \A s \in slots : /\ s \in Playing /\ s \in Slots \ {slot} /\ peers'[s] = peers[s]
                       /\ peers[s] \in Clients \ {c} /\ clients_[s] # id
  <2>1. \A s \in slots : s \in Slots \ {slot} /\ peers[s] \in Clients
    BY Place
  <2>2. \A s \in slots : clients_[s] # id
    BY <1>3 DEF IInv, SlotsOk
  <2> QED
    BY <1>2, <2>1, <2>2
<1>6. slots \in SUBSET Playing /\ told = Tell(Dropped(slot), slots, "PlayerLeft", id)
  OBVIOUS
<1> HIDE DEF c, slots, told, id
<1>7. /\ \A s \in slots : told[peers[s]] =
            SendNear(link[peers[s]], Roster("PlayerLeft", keys_[s], id))
      /\ \A d \in Clients : (\A s \in slots : peers[s] # d) => told[d] = Dropped(slot)[d]
  <2>1. \A s \in slots :
           /\ peers[s] \in Clients /\ \E t \in slots : peers[t] = peers[s]
           /\ (CHOOSE t \in slots : peers[t] = peers[s]) = s
    BY <1>6, SlotIsFound
  <2>2. \A s \in slots : Dropped(slot)[peers[s]] = link[peers[s]]
    BY <1>2, <1>5
  <2>3. \A s \in slots : told[peers[s]] =
           SendNear(Dropped(slot)[peers[s]], Roster("PlayerLeft", keys_[s], id))
    BY <1>6, <2>1 DEF Tell
  <2>4. \A d \in Clients : (\A s \in slots : peers[s] # d) => told[d] = Dropped(slot)[d]
    BY <1>6 DEF Tell
  <2> QED
    BY <2>2, <2>3, <2>4
<1>8. ASSUME NEW s \in slots
      PROVE  /\ ClientOk(told[peers[s]], client_key[peers[s]], otherIds_[peers[s]])
             /\ told[peers[s]].far = "up" /\ link[peers[s]].far = "up"
             /\ PlayerOk(told[peers[s]], client_key[peers[s]], otherIds_[peers[s]],
                         keys_[s], clients_[s], Known(Others(s), Roster("PlayerLeft", 0, id)))
  <2>1. s \in Playing
    BY <1>5
  <2>2. link[peers[s]].far = "up"
    BY <2>1, Place
  <2> QED
    BY <1>4, <1>7, <2>1, <2>2, OneIsTold
<1>9. ASSUME NEW d \in Clients
      PROVE  /\ ClientOk(told[d], client_key[d], otherIds_[d])
             /\ d # c => told[d].far = link[d].far
  <2>1. CASE \E s \in slots : peers[s] = d
    BY <1>8, <2>1
  <2>2. CASE \A s \in slots : peers[s] # d
    <3>1. told[d] = Dropped(slot)[d]
      BY <1>7, <2>2
    <3>2. CASE d = c
      BY <1>2, <3>1, <3>2
    <3>3. CASE d # c
      BY <1>2, <3>1, <3>3 DEF IInv, ClientsOk
    <3> QED
      BY <3>2, <3>3
  <2> QED
    BY <2>1, <2>2
<1>10. ClientsOk'
  <2>1. told = [d \in Clients |-> told[d]]
    BY DEF Tell, told
  <2>2. told \in [Clients -> PlayerLink]
    BY <1>9, <2>1 DEF ClientOk
  <2> QED
    BY <1>1, <1>9, <2>2 DEF IInv, ClientsOk
<1>11. /\ keys_' \in [Slots -> Nat] /\ clients_' \in [Slots -> Nat]
       /\ keys_'[slot] = 0 /\ clients_'[slot] = 0
       /\ \A s \in Slots \ {slot} : keys_'[s] = keys_[s] /\ clients_'[s] = clients_[s]
  <2>1. keys_ \in [Slots -> Nat] /\ clients_ \in [Slots -> Nat]
    BY DEF IInv, SlotsOk
  <2> QED
    BY <1>1, <2>1
<1>12. Playing' = slots
  BY <1>11 DEF Playing, slots
<1>13. ASSUME NEW s \in slots
       PROVE  Others(s)' = Known(Others(s), Roster("PlayerLeft", 0, id))
  <2>1. Others(s)' = {clients_'[other] : other \in slots \ {s}}
    BY <1>12 DEF Others
  <2>2. \A other \in slots : clients_'[other] = clients_[other] /\ clients_[other] # id
    BY <1>5, <1>11
  <2>3. Others(s)' = Others(s) \ {id}
    <3>1. Others(s)' = {clients_[other] : other \in slots \ {s}}
      BY <2>1, <2>2
    <3>2. Others(s) = {clients_[other] : other \in slots \ {s}} \union {id}
      BY <1>3, <1>5 DEF Others, slots, id
    <3>3. id \notin {clients_[other] : other \in slots \ {s}}
      BY <2>2
    <3> QED
      BY <3>1, <3>2, <3>3
  <2> QED
    BY <2>3 DEF Known, Roster
<1>14. PlayersOk'
  <2> SUFFICES ASSUME NEW s \in slots
               PROVE  PlayerOk(link'[peers'[s]], client_key'[peers'[s]],
                               otherIds_'[peers'[s]], keys_'[s], clients_'[s], Others(s)')
    BY <1>12 DEF PlayersOk
  <2>1. /\ peers'[s] = peers[s] /\ keys_'[s] = keys_[s] /\ clients_'[s] = clients_[s]
        /\ link' = told /\ client_key' = client_key /\ otherIds_' = otherIds_
    BY <1>1, <1>5, <1>11
  <2> QED
    BY <1>8, <1>13, <2>1
<1>15. SlotsOk'
  <2>1. \A s \in Slots \ {slot} : /\ peers'[s] = peers[s] /\ peers[s] # c
                                  /\ peers[s] \in Clients =>
                                        link'[peers[s]].far = link[peers[s]].far
    BY <1>1, <1>2, <1>9
  <2>2. ASSUME NEW s \in Slots, peers'[s] \in Clients
        PROVE  /\ link'[peers'[s]].far \in {"accepting", "up"}
               /\ \A other \in Slots : peers'[other] = peers'[s] => other = s
    <3>1. s # slot
      BY <1>2, <2>2
    <3> QED
      BY <1>2, <2>1, <2>2, <3>1 DEF IInv, SlotsOk
  <2>3. ASSUME NEW s \in Slots
        PROVE  s \in Playing' <=> peers'[s] \in Clients /\ link'[peers'[s]].far = "up"
    <3>1. CASE s = slot
      BY <1>2, <1>12, <3>1 DEF slots
    <3>2. CASE s # slot
      BY <1>12, <2>1, <3>2 DEF IInv, SlotsOk, slots
    <3> QED
      BY <3>1, <3>2
  <2>4. \A s \in Slots : keys_'[s] # 0 <=> s \in Playing'
    BY <1>11, <1>12 DEF IInv, SlotsOk, slots
  <2>5. \A s \in Playing' : clients_'[s] < idCounter_
    BY <1>5, <1>11, <1>12 DEF IInv, SlotsOk
  <2>6. \A s, t \in Playing' : clients_'[s] = clients_'[t] => s = t
    BY <1>5, <1>11, <1>12 DEF IInv, SlotsOk
  <2>7. idCounter_' = idCounter_ /\ idCounter_ \in Nat \ {0}
    BY <1>1 DEF IInv, SlotsOk
  <2> QED
    BY <1>2, <1>11, <2>2, <2>3, <2>4, <2>5, <2>6, <2>7 DEF SlotsOk
<1> QED
  BY <1>10, <1>14, <1>15 DEF IInv

-----------------------------------------------------------------------------
(* The invariant, and what follows from it *)

\* Before anyone has connected.
LEMMA Initially == Init => IInv
<1> SUFFICES ASSUME Init PROVE IInv
  OBVIOUS
<1>1. /\ peers = [slot \in Slots |-> "free"] /\ keys_ = [slot \in Slots |-> 0]
      /\ clients_ = [slot \in Slots |-> 0] /\ idCounter_ = 1
      /\ client_key = [c \in Clients |-> 0] /\ otherIds_ = [c \in Clients |-> {}]
      /\ link = [c \in Clients |-> NoLink]
  BY DEF Init
<1>2. "free" \notin Clients /\ Playing = {}
  BY <1>1, ConstantsAssumption DEF Playing
<1>3. NoLink \in PlayerLink /\ ClientOk(NoLink, 0, {})
  BY Beginning DEF ClientOk
<1>4. SlotsOk
  BY <1>1, <1>2 DEF SlotsOk
<1>5. ClientsOk
  BY <1>1, <1>3 DEF ClientsOk
<1> QED
  BY <1>2, <1>4, <1>5 DEF IInv, PlayersOk

\* send_deltas, ServerReceive and ClientSend concern channel 1 only.
LEMMA Unseen ==
  ASSUME IInv, UNCHANGED <<serverVars, client_key, otherIds_, link>>
  PROVE  IInv'
<1>1. /\ peers' = peers /\ keys_' = keys_ /\ clients_' = clients_
      /\ idCounter_' = idCounter_ /\ link' = link
      /\ client_key' = client_key /\ otherIds_' = otherIds_
  BY DEF serverVars
<1>2. Playing' = Playing /\ \A slot \in Playing : Others(slot)' = Others(slot)
  BY <1>1 DEF Playing, Others
<1>3. SlotsOk' /\ ClientsOk' /\ PlayersOk'
  BY <1>1, <1>2 DEF IInv, SlotsOk, ClientsOk, PlayersOk
<1> QED
  BY <1>3 DEF IInv

\* Every step keeps the invariant.
LEMMA Steps == IInv /\ [Next]_vars => IInv'
<1> SUFFICES ASSUME IInv, [Next]_vars PROVE IInv'
  OBVIOUS
<1>1. CASE ServerPoll
  <2>1. PICK slot \in Slots : connected(slot) \/ disconnected(slot)
    BY <1>1 DEF ServerPoll
  <2>2. CASE connected(slot)
    BY <2>2, PlayerConnected
  <2>3. CASE disconnected(slot)
    BY <2>3, NewcomerDisconnected, PlayerDisconnected
  <2> QED
    BY <2>1, <2>2, <2>3
<1>2. CASE ServerLossy
  <2>1. CASE send_deltas
    BY <2>1, Unseen DEF send_deltas, clientVars
  <2>2. CASE \E slot \in Slots, k \in 1..MaxInFlight : ServerReceive(slot, k)
    BY <2>2, Unseen DEF ServerReceive, clientVars
  <2> QED
    BY <1>2, <2>1, <2>2 DEF ServerLossy
<1>3. ASSUME NEW c \in Clients, ClientPoll(c)
      PROVE  IInv'
  BY <1>3, Receiving, IsDisconnected DEF ClientPoll
<1>4. ASSUME NEW c \in Clients, ClientLossy(c)
      PROVE  IInv'
  <2>1. CASE \E k \in 1..MaxInFlight : ClientReceiveLossy(c, k)
    BY <2>1, ReceivingLossy
  <2>2. CASE \E type \in {"Chat", "StateDelta"} : ClientSend(c, type)
    BY <2>2, Unseen DEF ClientSend, clientVars
  <2> QED
    BY <1>4, <2>1, <2>2 DEF ClientLossy
<1>5. ASSUME NEW c \in Clients, Player(c)
      PROVE  IInv'
  BY <1>5, Connects, ClosesLink, Restarting DEF Player
<1>6. ASSUME NEW c \in Clients, TimeOut(c) \/ Forsaken(c)
      PROVE  IInv'
  BY <1>6, TimesOut, IsForsaken
<1>7. CASE UNCHANGED vars
  BY <1>7, Unseen DEF vars, clientVars
<1> QED
  BY <1>1, <1>2, <1>3, <1>4, <1>5, <1>6, <1>7 DEF Next

\* In every state of a session slots, connections and keys fit together, and what
\* is under way to a player adds up with what it knows.
THEOREM InductiveInvariant == Spec => []IInv
BY Initially, Steps, PTL DEF Spec

\* A packet of channel 0 will be deciphered with the key it was ciphered with:
\* connected() and setKeyForPeer change keys at the same place of the stream.
THEOREM ReliableChannelIsReadable == Spec => []ReliableIsReadable
<1>1. IInv => ReliableIsReadable
  <2> SUFFICES ASSUME IInv, NEW c \in Clients, link[c].near = "up",
                      NEW n \in 1..Len(link[c].in), link[c].in[n] # DISCONNECT
               PROVE  link[c].in[n].key =
                         KeyAfter(client_key[c], SubSeq(link[c].in, 1, n - 1))
    BY DEF ReliableIsReadable
  <2> DEFINE in == link[c].in
             key == client_key[c]
             before == SubSeq(in, 1, n - 1)
             given == {m \in 1..Len(before) : before[m].type = "SetKey"}
  <2>1. /\ in \in Seq(ToPlayer) /\ WellEnded(in)
        /\ \E k \in Nat \ {0} : Keyed(key, in, k)
    BY DEF IInv, ClientsOk, ClientOk, PlayerLink
  <2>2. PICK k \in Nat \ {0} : Keyed(key, in, k)
    BY <2>1
  <2>3. n \in 1..Len(in) /\ Len(in) \in Nat /\ in[n] # DISCONNECT
    BY <2>1
  <2> HIDE DEF in, key
  <2>4. /\ Len(before) = n - 1
        /\ \A m \in 1..(n - 1) : before[m] = in[m] /\ m \in 1..Len(in) /\ m # n
    BY <2>1, <2>3
  <2>5. KeyAfter(key, before) = IF given = {} THEN key ELSE before[Max(given)].value
    BY DEF KeyAfter
  <2> HIDE DEF before
  <2>6. \A m \in 1..(n - 1) : in[m] # DISCONNECT
    BY <2>1, <2>3, <2>4 DEF WellEnded
  <2>7. CASE key = 0 /\ n = 1
    <3>1. in[n].key = 0
      BY <2>2, <2>3, <2>7, Events DEF Keyed
    <3>2. given = {}
      BY <2>4, <2>7
    <3> QED
      BY <2>5, <2>7, <3>1, <3>2 DEF in, key, before
  <2>8. CASE key = 0 /\ n # 1
    <3>1. in[n].key = k
      BY <2>2, <2>3, <2>8 DEF Keyed
    <3>2. 1 \in 1..(n - 1)
      BY <2>3, <2>8
    <3>3. before[1] = SetKey(0, k)
      BY <2>2, <2>4, <2>6, <2>8, <3>2 DEF Keyed
    <3>4. \A m \in 1..(n - 1) : m # 1 => before[m].type # "SetKey"
      BY <2>2, <2>4, <2>6, <2>8 DEF Keyed
    <3>5. given = {1}
      BY <2>4, <3>2, <3>3, <3>4, Events
    <3>6. Max({1}) = 1
      BY DEF Max
    <3>7. before[1].value = k
      BY <3>3 DEF SetKey
    <3>8. KeyAfter(key, before) = k
      <4> HIDE DEF given
      <4> QED
        BY <2>5, <3>5, <3>6, <3>7
    <3> QED
      BY <3>1, <3>8 DEF in, key, before
  <2>9. CASE key # 0
    <3>1. key = k /\ in[n].key = k
      BY <2>2, <2>3, <2>9 DEF Keyed
    <3>2. \A m \in 1..(n - 1) : before[m].type # "SetKey"
      BY <2>2, <2>4, <2>6, <2>9 DEF Keyed
    <3>3. given = {}
      BY <2>4, <3>2
    <3> QED
      BY <2>5, <3>1, <3>3 DEF in, key, before
  <2> QED
    BY <2>7, <2>8, <2>9
<1> QED
  BY <1>1, InductiveInvariant, PTL

\* When a client has read what is under way to it, the players it knows are the
\* other players of the server: nobody is missed or forgotten, however joins and
\* departures interleave with its own arrival.
THEOREM RostersAreComplete == Spec => []RosterInTransit
<1>1. IInv => RosterInTransit
  <2> SUFFICES ASSUME IInv, NEW slot \in Playing, link[peers[slot]].near = "up",
                      ~Ended(link[peers[slot]].in)
               PROVE  RosterAfter(otherIds_[peers[slot]], link[peers[slot]].in)
                         = {clients_[other] : other \in Playing \ {slot}}
    BY DEF RosterInTransit
  <2> QED
    BY DEF IInv, PlayersOk, PlayerOk, Others
<1> QED
  BY <1>1, InductiveInvariant, PTL

\* Ids of players differ, and no client takes itself for one of the others.
THEOREM NobodyIsDoubled == Spec => []IdsAreDistinct
<1>1. IInv => IdsAreDistinct
  BY DEF IInv, SlotsOk, PlayersOk, PlayerOk, IdsAreDistinct
<1> QED
  BY <1>1, InductiveInvariant, PTL
=============================================================================
