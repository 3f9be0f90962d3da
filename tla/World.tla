--------------------------------- MODULE World ---------------------------------
(***************************************************************************)
(* The world of hw5/server.cpp: entities_, which of them are bots, whose   *)
(* the others are, and the velocity a player sends for its entity through  *)
(* the DeltaSendQueue of hw5/client.cpp.                                   *)
(*                                                                         *)
(* Positions, and the teleport_count and colours that go with them, are    *)
(* left out: which entities are within reach of each other is arbitrary.   *)
(* Sizes are whole multiples of a unit, and halves are rounded down.       *)
(* Snapshots of the world are SnapshotSync's subject, connections          *)
(* Session's.                                                              *)
(*                                                                         *)
(* A velocity is the bytes of its two floats, because a delta takes it for *)
(* no more than that: the server overwrites the bytes that are marked and  *)
(* then scales what comes out.  How floats are scaled is left open.  As in *)
(* SnapshotSync, a packet of channel 1 may never be taken from the wire,   *)
(* and taking the k-th one discards the k - 1 older ones.                  *)
(***************************************************************************)
EXTENDS DeltaQueue, FiniteSets

CONSTANTS
    Clients,
    kBots,           \* 10
    NumIds,          \* 2^32, of which the last is kInvalidId
    StartSizes,      \* sizes Entity::create draws from
    MinSize,         \* 1e-3
    VelSize,         \* sizeof(Entity::vel)
    Byte,            \* the values of a byte
    Speeds,          \* what mouse makes of the pointer's position
    BotSpeeds,       \* v / len * 0.2f
    Tiny,            \* velocities shorter than 1e-3
    Clamped,         \* vel -> vel / len * clamp(len, 0, 1)
    MaxCreated,      \* bound on the entities created in one game
    MaxInputs        \* bound on the inputs sent in one game

kInvalidId == NumIds - 1
Ids == 0..NumIds - 1

Velocity == [1..VelSize -> Byte]
Still == [i \in 1..VelSize |-> 0]

ASSUME ConstantsAssumption ==
    /\ {kBots, NumIds, MaxCreated, MaxInputs, MinSize, VelSize} \subseteq Nat \ {0}
    /\ StartSizes \subseteq Nat /\ \A s \in StartSizes : s >= MinSize
    /\ 0 \in Byte /\ Speeds \union BotSpeeds \subseteq Velocity
    /\ Clamped \in [Velocity -> Velocity]
    \* No game sees 2^32 - 1 players.
    /\ kBots < MaxCreated /\ MaxCreated < NumIds

VARIABLES
    entities_,       \* sequence of [id, size, vel]
    firstFreeId,
    botTargets_,     \* ids
    entityId,        \* client -> ClientData::entityId, kInvalidId if not in clients_
    queue,           \* client -> inputDeltaSendQueue
    to_server,       \* client -> its PStateDelta packets in flight, oldest first
    to_client,       \* client -> epochs of the confirmations in flight
    (* history and bounds *)
    chosen,          \* client -> the velocities sent, chosen[c][e] at epoch e
    got,             \* client -> epoch of the input applied last
    created, inputs

inputVars == <<queue, to_server, to_client, chosen, got>>
vars == <<entities_, firstFreeId, botTargets_, entityId, inputVars, created, inputs>>

\* clients_ of the server
Playing == {c \in Clients : entityId[c] # kInvalidId}

LiveIds == {entities_[i].id : i \in DOMAIN entities_}

-----------------------------------------------------------------------------
(* Entity::create *)

\* Mutation of the next definition: kInvalidId is not skipped
NextId_plain(id) == (id + 1) % NumIds

\* ++firstFreeId, which wraps around and passes over kInvalidId
NextId(id) ==
    LET next == (id + 1) % NumIds
    IN  IF next = kInvalidId THEN (next + 1) % NumIds ELSE next

Entity(id, size) == [id |-> id, size |-> size, vel |-> Still]

\* The ids of n entities that are created one after the other.
NewIds(first, n) ==
    LET ids[k \in 1..n] == IF k = 1 THEN first ELSE NextId(ids[k - 1])
    IN  ids

\* botTargets_.clear() and an entry per bot
Targets(ids) == Range(ids)

\* resetGame, with what is left of the game before.
resetGame(first, sizes) ==
    LET ids == NewIds(first, kBots)
    IN  /\ entities_' = [k \in 1..kBots |-> Entity(ids[k], sizes[k])]
        /\ botTargets_' = Targets(ids)
        /\ firstFreeId' = NextId(ids[kBots])
        /\ created' = kBots
        /\ inputs' = 0

Init ==
    /\ \E sizes \in [1..kBots -> StartSizes] :
          /\ entities_ = [k \in 1..kBots |-> Entity(k - 1, sizes[k])]
          /\ botTargets_ = 0..kBots - 1
          /\ firstFreeId = NextId(kBots - 1)
    /\ entityId = [c \in Clients |-> kInvalidId]
    /\ queue = [c \in Clients |-> DeltaSendQueue]
    /\ to_server = [c \in Clients |-> << >>] /\ to_client = [c \in Clients |-> << >>]
    /\ chosen = [c \in Clients |-> << >>] /\ got = [c \in Clients |-> 0]
    /\ created = kBots /\ inputs = 0

-----------------------------------------------------------------------------
(* Players *)

\* Mutation of the next definition: ids count the entities
NewId_by_size == Len(entities_)

NewId == firstFreeId

\* connected()
connected(c) ==
    /\ c \notin Playing /\ created < MaxCreated /\ created' = created + 1
    /\ \E size \in StartSizes : entities_' = Append(entities_, Entity(NewId, size))
    /\ firstFreeId' = NextId(firstFreeId)
    /\ entityId' = [entityId EXCEPT ![c] = NewId]
    /\ UNCHANGED <<botTargets_, inputVars, inputs>>

\* disconnected(): the entity stays; when the last player leaves, the game is
\* made anew.  A client that comes back is another process.
disconnected(c) ==
    /\ c \in Playing
    /\ entityId' = [entityId EXCEPT ![c] = kInvalidId]
    /\ queue' = [queue EXCEPT ![c] = DeltaSendQueue]
    /\ to_server' = [to_server EXCEPT ![c] = << >>]
    /\ to_client' = [to_client EXCEPT ![c] = << >>]
    /\ chosen' = [chosen EXCEPT ![c] = << >>]
    /\ got' = [got EXCEPT ![c] = 0]
    /\ IF Playing = {c}
       THEN \E sizes \in [1..kBots -> StartSizes] : resetGame(firstFreeId, sizes)
       ELSE UNCHANGED <<entities_, firstFreeId, botTargets_, created, inputs>>

-----------------------------------------------------------------------------
(* Input *)

\* Every 60 ms a player sends what the pointer asks for.
SendInput(c) ==
    /\ c \in Playing /\ inputs < MaxInputs /\ inputs' = inputs + 1
    /\ \E speed \in Speeds :
          /\ to_server' = [to_server EXCEPT ![c] =
                              Append(@, StateDelta(queue[c], speed))]
          /\ queue' = [queue EXCEPT ![c] = PushState(@, speed)]
          /\ chosen' = [chosen EXCEPT ![c] = Append(@, speed)]
    /\ UNCHANGED <<entities_, firstFreeId, botTargets_, entityId, to_client, got, created>>

\* Mutation of the next definition: ids are positions
entityById_at(id) == id + 1

\* The first entity with this id; 0 for nullptr.
entityById(id) == SelectInSeq(entities_, LAMBDA e : e.id = id)

Normalised(vel) == IF vel \in Tiny THEN Still ELSE Clamped[vel]

\* What can still be delivered of a client's packets when the k-th one has been.
Newer(packets, k) == SubSeq(packets, k + 1, Len(packets))

\* The server overwrites the marked bytes of the velocity that the player's entity
\* has now, scales the result and confirms the input; without an entity it does
\* nothing of the kind.
HandleStateDelta(c, k) ==
    LET at == entityById(entityId[c])
        packet == to_server[c][k]
    IN  /\ c \in Playing
        /\ to_server' = [to_server EXCEPT ![c] = Newer(@, k)]
        /\ IF at \in DOMAIN entities_
           THEN /\ entities_' = [entities_ EXCEPT ![at].vel =
                      Normalised(delta_apply(@, packet.cont, packet.total_bytes))]
                /\ to_client' = [to_client EXCEPT ![c] = Append(@, packet.epoch)]
                /\ got' = [got EXCEPT ![c] = packet.epoch]
           ELSE UNCHANGED <<entities_, to_client, got>>
        /\ UNCHANGED <<firstFreeId, botTargets_, entityId, queue, chosen, created, inputs>>

HandleStateDeltaConfirmation(c, k) ==
    /\ queue' = [queue EXCEPT ![c] = ReceiveConfirmation(@, to_client[c][k])]
    /\ to_client' = [to_client EXCEPT ![c] = Newer(@, k)]
    /\ UNCHANGED <<entities_, firstFreeId, botTargets_, entityId, to_server, chosen, got,
                   created, inputs>>

-----------------------------------------------------------------------------
(* updateLogic *)

\* Bots turn to their targets, but for those that have just reached one.
Steered(ents, arrived, course) ==
    [i \in DOMAIN ents |->
        IF ents[i].id \in botTargets_ \ arrived
        THEN [ents[i] EXCEPT !.vel = course[ents[i].id]] ELSE ents[i]]

Pairs(n) == {p \in (1..n) \X (1..n) : p[1] # p[2]}

\* The smaller one of a pair within reach loses half of its size to the other.
Bitten(ents, p) ==
    LET half == ents[p[1]].size \div 2
    IN  IF ents[p[1]].size < ents[p[2]].size
        THEN [i \in DOMAIN ents |->
                IF i = p[1] THEN [ents[i] EXCEPT !.size = half]
                ELSE IF i = p[2] THEN [ents[i] EXCEPT !.size = @ + half]
                ELSE ents[i]]
        ELSE ents

\* Every entity in turn meets every other one.
Fed(ents, near) ==
    LET n == Len(ents)
        Pair(k) == <<1 + ((k - 1) \div n), 1 + ((k - 1) % n)>>
        fed[k \in 0..n * n] ==
            IF k = 0 THEN ents
            ELSE IF Pair(k) \in near THEN Bitten(fed[k - 1], Pair(k)) ELSE fed[k - 1]
    IN  fed[n * n]

\* The last entity takes the place of the one at i.
Replaced(ents, i) ==
    [j \in 1..Len(ents) - 1 |-> IF j = i THEN Last(ents) ELSE ents[j]]

\* Mutation of the next definition: the entity swapped in is not looked at
Looked_skips(w) ==
    IF w.i > Len(w.es) THEN w
    ELSE IF w.es[w.i].size < MinSize
    THEN [i |-> w.i + 1, es |-> Replaced(w.es, w.i)]
    ELSE [i |-> w.i + 1, es |-> w.es]

\* A round of the loop that removes the entities that are too small: the one that
\* takes the place of such an entity is looked at next.
Looked(w) ==
    IF w.i > Len(w.es) THEN w
    ELSE IF w.es[w.i].size < MinSize
    THEN [i |-> w.i, es |-> Replaced(w.es, w.i)]
    ELSE [i |-> w.i + 1, es |-> w.es]

Swept(ents) ==
    LET looked[k \in 0..Len(ents)] ==
            IF k = 0 THEN [i |-> 1, es |-> ents] ELSE Looked(looked[k - 1])
    IN  looked[Len(ents)].es

updateLogic ==
    /\ Playing # {}
    /\ \E arrived \in SUBSET (botTargets_ \intersect LiveIds),
          course \in [botTargets_ -> BotSpeeds],
          near \in SUBSET Pairs(Len(entities_)) :
          entities_' = Swept(Fed(Steered(entities_, arrived, course), near))
    /\ UNCHANGED <<firstFreeId, botTargets_, entityId, inputVars, created, inputs>>

-----------------------------------------------------------------------------
ReceiveInput(c) == \E k \in DOMAIN to_server[c] : HandleStateDelta(c, k)
ReceiveConfirm(c) == \E k \in DOMAIN to_client[c] : HandleStateDeltaConfirmation(c, k)

Next ==
    \/ updateLogic
    \/ \E c \in Clients : \/ connected(c) \/ disconnected(c)
                          \/ SendInput(c) \/ ReceiveInput(c) \/ ReceiveConfirm(c)

Spec == Init /\ [][Next]_vars

-----------------------------------------------------------------------------
(* Correctness *)

TypeOK ==
    /\ entities_ \in Seq([id : Ids, size : Nat, vel : Velocity])
    /\ firstFreeId \in Ids /\ botTargets_ \subseteq Ids
    /\ entityId \in [Clients -> Ids]
    /\ \A c \in Clients : queue[c] # << >>
    /\ chosen \in [Clients -> Seq(Speeds)] /\ got \in [Clients -> Nat]
    /\ created \in kBots..MaxCreated /\ inputs \in 0..MaxInputs

\* Every entity has an id of its own and none has kInvalidId, which tells a client
\* that it has no entity (client.cpp:367), whatever firstFreeId was when the game
\* was reset; no two players share an entity, and no player's id is a bot's, be the
\* entity alive or gone (Entity.cpp:24-29, server.cpp:23-36).
OneBodyEach ==
    /\ \A i, j \in DOMAIN entities_ : entities_[i].id = entities_[j].id => i = j
    /\ kInvalidId \notin LiveIds
    /\ \A c, d \in Playing : entityId[c] = entityId[d] => c = d
    /\ \A c \in Playing : entityId[c] \notin botTargets_

\* The id of an entity that has been eaten up is not given out again while a player
\* or a bot target still refers to it (server.cpp:143, and :229, where the id of the
\* removed entity is read and not used): it stays dead until the game is reset.
GoneStaysGone ==
    [][\A id \in (Range(entityId) \union botTargets_) \ LiveIds :
          id \in LiveIds' => Playing' = {}]_vars

\* While a game goes on an entity that is no bot changes its course only when an
\* input of its own player arrives: ids find it wherever the entities before it have
\* been eaten up and the last one swapped in, and an input for an entity that is gone
\* goes to nobody else's (server.cpp:143-153, :229-231).
OwnersSteer ==
    [][\A i \in DOMAIN entities_, j \in DOMAIN entities_' :
          LET id == entities_[i].id
          IN  /\ entities_'[j].id = id /\ id \notin botTargets_'
              /\ entities_'[j].vel # entities_[i].vel
              => \E c \in Playing : entityId[c] = id /\ got'[c] > got[c]]_vars

\* The velocity v that comes out of an input, before it is scaled: bytes of the input
\* itself, or bytes the entity has had all along, but these only where an input that
\* the server has applied before asked for the same byte.
Mixed(c, old, v) ==
    \A i \in 1..VelSize :
       \/ v[i] = chosen[c][got'[c]][i]
       \/ /\ v[i] = old[i]
          /\ \E e \in 1..got[c] : chosen[c][e][i] = chosen[c][got'[c]][i]

\* Deltas are made from an input confirmed long ago and applied to a velocity that has
\* been changed and scaled since (server.cpp:151-163), so the bytes of several inputs
\* mix; but no byte is left out that the player has not had applied before.  The first
\* input to arrive is followed to the letter, whichever were lost before it.
InputsTakeEffect ==
    [][\A c \in Playing, i \in DOMAIN entities_ :
          /\ got'[c] # got[c] /\ c \in Playing'
          /\ entities_[i].id = entityId[c]
          => \E v \in Velocity : /\ Mixed(c, entities_[i].vel, v)
                                 /\ entities_'[i].vel = Normalised(v)]_vars

\* updateLogic leaves no entity below the smallest size, although it fills the holes
\* from the back while it goes on (server.cpp:227-235), and it never eats up the
\* last one: the largest entity cannot be bitten.
WorldIsAlive ==
    entities_ # << >> /\ \A i \in DOMAIN entities_ : entities_[i].size >= MinSize
=============================================================================
