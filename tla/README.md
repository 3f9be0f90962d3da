# TLA+ for mipt-gamedev-networks

The repository holds three network programs written one after the other. `hw5` is the one this project is
mostly about: a multiplayer game with a lobby, game servers and graphical clients over ENet. `hw1` (a
datagram chat with keepalive) and `hw2` (a first lobby, server and client) are separate, smaller programs.

The modules model how players, lobby and servers find and leave each other, what a server and its clients
tell each other under which key, how the state of the game is replicated as deltas, which entities the world
has and who steers them, and how the client reads its console and chooses what to draw; then `hw1`'s
keepalive and all of `hw2`. TLC checks them on small instances; the theorems about them are proved with
TLAPS for every instance.

## 1. The system

| component | source | state | operations |
|---|---|---|---|
| Delta codec, `DeltaSendQueue` | `hw5/common/delta.hpp` | `states_`: the states sent and not yet confirmed, with epochs | `GetStateDelta`, `ReceiveConfirmation`, `delta_encode`, `delta_apply` |
| `Service` | `hw5/common/Service.hpp` | `pending_connect_`, `pending_disconnect_`, `keys_`, all keyed by `ENetPeer*` | `connect`, `disconnect`, `send`, `poll`, `setKeyForPeer`, `cipherXor` |
| Lobby | `hw5/lobby.cpp` | `clients_` (peers), `servers_` (queue of addresses) | handlers of `StartLobby`, `RegisterClientInLobby`, `RegisterServerInLobby`; `disconnected` |
| Server, connections | `hw5/server.cpp` | `clients_`: id, entity and delta queue of each peer; `idCounter_` | `registerInLobby`, `connected`, `disconnected`, handlers of `Chat`, `StateDelta`, `StateDeltaConfirmation`; `send_deltas` |
| Server, world | `hw5/server.cpp`, `hw5/game/Entity.cpp` | `entities_`, `botTargets_`, `firstFreeId` | `resetGame`, `updateLogic`, `Entity::create`, `simulate` |
| Client, connections and commands | `hw5/client.cpp` | `lobby_peer_`, `server_peer_`, `otherIds_`, `playerEntityId_`, `shouldStop_` | `joinLobby`, `begin`, `handleLine`, `keyDown`, `close`, packet handlers |
| Client, frames | `hw5/client.cpp` | `snapshotHistory_`, `inputDeltaSendQueue`, `playerVelHistory_`, `playerServerPredicted` | `applySnapshots`, `interpolate`, `draw`, `mouse`, the send of input in `run` |
| Console input | `hw5/common/AsyncInput.hpp` | `lines_` under `mtx_`, `stopped_` | `Work` (a thread), `poll`, `stop` |
| Window | `hw5/common/Allegro.hpp` | event queue, timer | `poll`, `stop` |
| `hw1` | `hw1/*.cpp` | server: `last_seen`; clients: none | keepalive, receive and echo; a line, the answer to a ping |
| `hw2` | `hw2/*` | lobby: `clients_`, `server_address_`, `started_`; server: `clients_`, `next_id`, `lobbyPeer`; client: `lobbyConnected`, `serverConnected`, `serverPeer` | connect, disconnect, packets; start |

How they interact. Every program of `hw5` is one loop around `Service::poll`, so handlers run one at a time
and what is concurrent is the programs, and in the client the input thread. A client connects to the lobby
and registers; a server does the same and disconnects at once. `StartLobby` from any client takes the first
server off the queue and sends `LobbyStarted` to every registered client; each leaves the lobby and connects
to the server. The server sends the newcomer its key, its entity and the other players, tells the others,
and from then on sends everybody a delta every 100 ms; the client sends its velocity as a delta every 60 ms.
When the last player has left it connects to the lobby and registers again.

What is hard here:

- two channels: 0 is reliable and ordered, 1 loses and reorders (late packets are dropped), and nothing
  orders one with the other, while the key changes on 0 and is used on both;
- deltas are computed against the oldest state the server keeps and applied to the newest one the client
  has;
- everything is keyed by `ENetPeer*`, a slot ENet uses again for the next connection;
- connects fail, connections end abruptly, players arrive while a server is on its way back to the lobby;
- the player's commands meet packets that are already under way;
- entities disappear while players, targets and packets still name them by ids that wrap around;
- `hw1` tells silence from bad luck by one clock, with datagrams lost, late, repeated or corrupted.

What makes each component correct, in a sentence: the codec loses nothing at any size; the queue holds the
history since a state the client has been through; every callback and every entry under a peer belongs to
the connection that peer has now; a registered client is connected, a server that all have left is queued
again, a player is in `clients_` exactly as long as it may send packets; each packet is read with the key it
was written with; each client's list of players is right once the packets under way have arrived; asking the
client to stop makes it stop; an id names one entity, and a player steers no entity but its own, and no byte
of an input is left out that it has not had applied before; `hw1`'s server forgets who has gone and nobody
else; `hw2`'s lobby sends each client to the server once.

`PROJECT.json` lists the hazards behind these sentences with their lines, and the properties that cover
them.

## 2. Modules

| module | models | checked by |
|---|---|---|
| `DeltaQueue` | `DeltaSendQueue` and the codec as operators on values | through `SnapshotSync`, `DeltaCodec` and `World` |
| `SnapshotSync` | replication from the server to one client over channel 1 | `MCSnapshotSync` |
| `Replica` | what replication promises: a copy that only moves to later states | as a property of `SnapshotSync` |
| `SnapshotSyncProofs` | the theorems about `SnapshotSync` | TLAPS |
| `DeltaCodec` | the loops of `delta_encode` and `delta_apply`, byte by byte | `MCDeltaCodec` |
| `DeltaCodecProofs` | the theorems about `DeltaCodec` | TLAPS |
| `Link` | one ENet connection as `Service` uses it: operators on the state and inbox of both ends | through `Matchmaking`, `Session` and `Hw2` |
| `Matchmaking` | clients, lobby and servers finding and leaving each other; pending callbacks and peers | `MCMatchmaking` |
| `MatchmakingProofs` | the theorems about `Matchmaking` | TLAPS |
| `Session` | keys, roster, chat and delta packets between a server and its clients | `MCSession` |
| `SessionProofs` | the theorems about `Session` | TLAPS |
| `LineQueue` | what the console promises: a FIFO of lines | as a property of the next |
| `AsyncInput` | the console's thread, its mutex and deque, and the main loop that polls, stops and joins it | `MCAsyncInput` |
| `ClientFrames` | which snapshots and inputs a frame of the client uses | `MCClientFrames` |
| `ClientFramesProofs` | the theorems about `ClientFrames` | TLAPS |
| `World` | the server's entities, and the input that steers them, on `DeltaQueue` | `MCWorld` |
| `WorldProofs` | the theorems about `World` | TLAPS |
| `Keepalive` | `hw1`: server, clients, network and time | `MCKeepalive` |
| `Pacing` | the main loops of server and clients, and when they send | `MCPacing` |
| `MainLoopProofs` | the theorems about `AsyncInput`, refinement included, and `Pacing` | TLAPS |
| `Hw2` | `hw2`: lobby, server and clients, on `Link` | `MCHw2` |
| `FirstProgramsProofs` | the theorems about `Keepalive` and `Hw2` | TLAPS |

### DeltaQueue, DeltaCodec

A byte vector is a sequence of cells, a delta a function from changed positions to bytes, and the queue a
sequence with the oldest state first (in the code the oldest is at the back). `GetStateDelta` is
`PushState`, what it leaves in `states_`, and `StateDelta`, what it returns. `DeltaCodec` justifies the
function: it encodes two vectors into mask bytes and payload and applies the result to a third, one loop
iteration a step, and `AppliesTheDelta` says that the outcome is `delta_apply(received, delta_encode(old,
new), size)`. A byte there is the set of its one bits, with `BitsPerByte` bits (8 in the code).

### SnapshotSync

`delta_queue` is the server's `ClientData::delta_queue`, `snapshot` the newest element of the client's
`snapshotHistory_`, the only one its `PStateDelta` handler reads; `deltas` and `confirmations` are the
packets in flight. Channel 1 drops what is older than the newest packet delivered, so delivering the k-th
packet discards the k - 1 before it, and a packet that is never delivered is lost. `applied` and `sent` are
history. One client is enough, since each has a queue of its own. The value of `entities_` is arbitrary in
`States`: nothing about the game is assumed.

That the client holds the state it confirms, which the name `last_confirmed_state` (delta.hpp:67) promises,
is false: TLC refutes `snapshot = StateAt(applied)` with 3 epochs. The client applies a delta to its newest
snapshot and not to the state the delta was computed against, so a cell that changes there and back while a
confirmation is missing is not in the delta, and stays wrong. `ExactWhereNeverReturning` is what does hold,
and is proved: a cell that never returns to an earlier value (a counter, an id, a position that only moves
on) is exact at every confirmed epoch, whatever is lost. `Replica` says it without the mechanism, for all
cells: the client gets from one state to a later one, and each cell is right or left as it was, which
happens only where the right value is one the client's past had. Its `sent`, `applied` and `snapshot` are
those of `SnapshotSync`.

### Link, Matchmaking

`Link` has what the modules assume of ENet: events of one connection arrive in order and end with one
DISCONNECT; `enet_peer_disconnect_later` delivers what was sent before; a peer that is going down gets no
more packets; a peer that stops answering times out, and what was under way then arrives in part; a closed
peer's slot is free again before its DISCONNECT is returned; a new connection takes the lowest free slot.
These are external.

In `Matchmaking` a client is one run of the program, `lobby_link` and `game_link` its two connections.
`peers` is the peer array of each server, the place where slots change hands: a slot is free, connecting to
the lobby, leaving it, or used by a client. `pending_connect_` and `pending_disconnect_` are the slots with
an entry in those maps; since `registerInLobby` is the server's only caller, every pending connect stands
for its callback. The user's actions are `begin`, `keyDownESC` and `handleLineExit`; the other actions are
one event of `poll` each, or one time-out. The callback and everything it sends or disconnects are part of
the action.

### Session

`keys_`, `clients_` and `peers` belong to the slots of the server, `client_key`, `otherIds_` and
`playerEntityId_` to the clients. A packet carries the key it was ciphered with. A reader with another key
gets an arbitrary type byte, which `poll` answers with NG_VERIFY for nearly all values; the model takes that
outcome: a client that misreads is gone, and a server that does stops. `connected` sends `SetKey` under the
old key, switches, sends the rest, tells the others and sends deltas to all, in one action as in one
handler. Channel 1 holds at most `MaxInFlight` packets; one more pushes out the oldest, which is a loss. Its
random key of 16 bytes is a number that is different each time.

### AsyncInput, LineQueue

Two threads: `worker` and `main` say where they are, a step is what happens between two accesses to what
they share. `lines_` is appended to and moved under `mtx_`, and the move is two steps, so that the lock
matters. `worker_` is declared before `stopped_` (AsyncInput.hpp:55-56), so the thread may read `stopped_`
before it is initialised: it starts with either value, and `Construct` sets it. At the end of the input
`getline` fails at once and `Work` pushes empty lines; `MaxPending` bounds how many pile up, except after
`stopped_`, when the next test ends the thread.

`LineQueue` sees one queue: what `poll` has taken, what is in `lines_`, what the worker holds, what is typed
and not read, one behind the other. `Put` is a key press, or `getline` at the end of the input, `Take` is
`handleLine`, and the console is open until `shouldStop_` is set or the worker has returned.

### ClientFrames

A snapshot is its number and its time of arrival, a kept input its time; the clock counts the 30 ms that
`Service::poll` waits, so several deltas can arrive at one time and an iteration takes at least one tick.
`now` is read at the start of an iteration and used after the polls, as in the code. `Pops` and `Prunes` say
how often the two `pop_front` loops run. Before the first delta `snapshotHistory_[1]` does not exist:
`ReadBeyondHistory` lets the program crash or go on. Which of the target and the newest snapshot hold the
player's entity is open in `Predict`. `received` and `replay` are history.

### World

`entities_` is the vector, `botTargets_` the ids the map has, `entityId` a client's `ClientData::entityId`
with `kInvalidId` for a client that is not in `clients_`. Each handler is an action, and `updateLogic` is
one: bots turn, the pairs within reach of each other bite in the order of the two loops, and entities that
are too small are replaced by the last one. The loops are recursive functions of the round: `Fed` of the
pair that meets, `Swept` of the look at an index (`Looked`). Positions are left out, so that the pairs
within reach, and the bots that have just arrived, are any set; sizes are integers whose halves are rounded
down, which changes by how much an entity is smaller, not that it is. A client that leaves is gone; its
entity is not.

A velocity is its bytes, `VelSize` of them. `queue` is the client's `inputDeltaSendQueue`; `to_server` and
`to_client` are what is under way on channel 1, in order: taking the k-th packet discards the older ones,
and one that is never taken is lost. `HandleStateDelta` overwrites the marked bytes of the velocity the
entity has now and normalises the result, and confirms the epoch. Normalising is a constant: `Tiny` are the
velocities that become zero, and `Clamped` is what becomes of the others, any function on velocities.
`chosen` and `got` are history: what a player has sent at each epoch, and the epoch applied last.

What the bytes show: a delta is made from the last input confirmed and applied to a velocity that later
inputs have changed and the server has scaled. So an input need not have the effect of its own velocity. If
one that stops is confirmed, one that goes is applied but not yet confirmed, and the next one stops again,
its delta is empty and the entity goes on; as soon as that empty delta is confirmed every further stop is
empty as well. And where only one of the two floats' bytes changes, the other may be one the scaling has
made. `InputsTakeEffect` says how far this goes, and no further: a byte that an input leaves out is one that
an earlier input of this player, itself applied, asked for as well. The first input to arrive always takes
full effect. The code says nothing else of it than "input delta-compression" (client.cpp:109,
server.cpp:135).

### Pacing

Server and client are one loop each around `Service::poll`, which ends only when `enet_host_service` has
seen no event for 30 ms. `serverQuiet` and `clientQuiet` count the ticks of the present call, `clientPoll`
those since the client read `now`, and `sinceInput` is what that `now` was compared with: `lastSendTime`
becomes the time at which the round began, not that of the send, so that two inputs can follow each other by
30 ms. A round is one action and takes no time; a poll that has waited long enough ends before the next
tick, but a packet of the same tick may come first. Packets are inputs, deltas and their confirmations, all
on channel 1, late ones are dropped.

### Keepalive

An age is the code's `now - last_seen`, in ticks of about `select`'s 100 ms. A round of the server is two
actions, `handle_keepalive`, which comes after `select`, and `ReceiveDatagram`; what arrives between them
waits, and one round reads one datagram. `recvfrom` passes over corrupted datagrams and may find none left;
the zeroed address is then entered into `last_seen`, as in the code, until the first `sendto` to it fails.
The network loses, repeats, reorders and corrupts, but delivers what it delivers within `MaxDelay`;
`MaxStall` bounds the ticks until the server finds its socket empty. `TimeAssumption` is the room the code's
5 s and 0.5 s leave: PING_TIME and two delays and two stalls fit into TIMEOUT. `lost` is history.

### Hw2

A connection is named by the host that asked for it and the peer it uses there: a client has two, the server
one, to the lobby. `ServerConnect`, `PlayerConnect` and the like are the branches of the loops' `switch`.
`lobbySlot` is which connection the server's `lobbyPeer` points at, for ENet gives the slot of a failed
connect to the next player. `ServerCrash` and `ServerRestart` are the operator's; the lobby still knows the
address then, and the server is started again only when the lobby has noticed the end of the old connection
(one record stands for the server's connection, so the old and the new one cannot overlap). `typed` are the
lines `StdioThread` holds. `PlayersWith` keeps the entry a peer has, as `try_emplace` and
`clients_[event.peer]` do. Clients never look at a DISCONNECT, so a connection of theirs that has ended is
still sent to. `next_id` is a `uint16_t`: the bound `MaxId` on it stands for 2^16 - 1, and a server that has
had more players than that is not modelled; ids would then be given out twice.

## 3. Runs

| run | shows | bounds |
|---|---|---|
| `snapshot_sync` | NG_ASSERT in `ReceiveConfirmation`; deltas in flight are consistent; exactness; refinement of `Replica`; epochs only rise; the queue drains | 4 epochs, vectors of 0 to 2 cells of 2 values: a cell can leave a value and return, vectors grow and shrink, two packets can be lost in a row |
| `delta_codec` | `ReadsExactly` (in bounds, and all of the payload), round trip, agreement with `DeltaQueue` | every triple of vectors of 0 to 4 bytes over two values, two bits to a byte: no, a partial, a full, a full and a further mask byte |
| `matchmaking` | `StartedFindsLobbyPeer`, `StarterIsRegistered`, `ListedPeersAreLive`, `CallbacksWaitForClosing` | 2 clients, 1 server with 2 peers (so that it can be full), 2 starts, 1 ESC or /exit each, 1 failure |
| `matchmaking_live` | `ESCStops`, `StartedArrives`, `RequeueCompletes` | as above without failures, 1 start, 3 peers |
| `session` | `ReliableIsReadable`, `RosterInTransit`, `IdsAreDistinct` | 2 clients, 2 peers, 3 connections (a slot is used again while the other player plays), 1 failure, 1 packet in flight on each channel 1 |
| `session_misread` | violation of `EveryPacketReadable` | the same with 2 connections and no failure |
| `async_input` | `LinesInOrder` and `LinesAreHandled` (refinement of `LineQueue`, safety and with its fairness), `EnterWhileJoiningExits` | 3 lines typed, of 2 values: one taken, one held and one waiting; 2 empty lines pending |
| `client_frames` | `FramesHaveTwo`, `FramesAreLagged`, `PredictionReachesNow` | 6 snapshots, a cap of 4 (so it drops two), a lag of 3 and 7 ticks: bursts, gaps longer than the lag, frames before the first delta |
| `world` | `OneBodyEach`, `OwnersSteer`, `InputsTakeEffect`, `WorldIsAlive`, `GoneStaysGone` | 2 clients, 1 bot, 3 entities in a game; 4 ids, the last one `kInvalidId`, so that they wrap in the second game; sizes of 3 and 4 with 2 the least: an entity can be bitten to death, to the edge, and grow; 3 inputs in a game of 2 velocities that share a byte, one of them longer than 1 and scaled: all three can be under way at once, any of them lost, any confirmation late, and a velocity comes about that nobody asked for |
| `pacing` | `ClientsComeRound`, `DeltasGoOut` | 2 clients, a tick of 10 ms (silence 3, input rate 6, delta rate 10), delays of 0 and 1, all phases of the three loops to begin with |
| `keepalive` | `AnsweringStays`, `NobodyIsBrief`, `CrashedIsForgotten` | 1 client (and the zeroed address), `PingTime` 1, delays of 1, stalls of 2, `Timeout` 7, the least `TimeAssumption` allows, 2 datagrams waiting |
| `hw2` | `NobodyGivesUp`, `PlayersAreLive`, `StartedArrives` | 2 clients, 2 starts, 5 ids (no run of a server gets to the last), 2 failures: a failed registration and a crash, or a crash and a time-out |

Deadlock is not checked: all the models end, when bounds are used up, every client has stopped or nobody
types any more. The one lock of the programs is `AsyncInput`'s, and that both threads get on with it is part
of `LinesAreHandled`.

Clients, and servers, are symmetric in the safety runs (`MCMatchmaking.cfg`, `MCSession.cfg`,
`MCWorld.cfg`); no run with a liveness property uses symmetry.

**The violation** (`session_misread`) is a real disagreement between the code and what it says;
`PROJECT.json` quotes the lines: packets on channel 1 cross the change of keys, and are deciphered with the
wrong one.

Other things the models show the code do, which it nowhere denies, are actions or conditions in them:
replication diverges when a value returns while confirmations are missing (see `SnapshotSync`); after a
failed connect to the lobby the entry in `pending_connect_` stays, and the player who gets the peer next is
greeted with `RegisterServerInLobby` and disconnected (`Matchmaking`'s `PlayerTakenForLobby`); a server that
goes back to the lobby accepts players meanwhile and is queued with them; after an abrupt disconnect
`lobby_peer_` or `server_peer_` still points at the dead peer, so that ESC waits for an event ENet never
raises (`ESCStops` is checked without failures). In `hw2` likewise: a client gives up when the server's
connect to the lobby failed and it was taken for the lobby (the condition of `NobodyGivesUp`). A server is
used up when two clients start at once, or when the one client that started presses ESC before LobbyStarted
reaches it: the packet is discarded, and the server, off the queue, waits for a player whose departure would
put it back. `StarterIsRegistered` promises less: LobbyStarted is sent to the one who asked.

With a third client `DeltasGoOut` fails, even without any delay: inputs every 60 ms from three sides leave
no 30 ms of silence, so the server stays in `poll`, the world stands still and no deltas go out, for as long
as they keep their phases. No run is kept for it, since the repository promises nothing for any number of
players; in `MCPacing.cfg` set `Clients = {c1, c2, c3}` and `MaxDelay = 0`, and TLC finds the loop in a
minute or two.

**Fairness.** Each program polls its host in every iteration of a loop that never blocks longer than 30 ms,
so every event that is ready is handled: weak fairness of each program's events. ENet retransmits on channel
0 and gives up on a peer that does not answer: weak fairness of those time-outs. In `SnapshotSync` weak
fairness of the two receive actions says that some packet gets through, which the code justifies by sending
again every 100 ms. `World`, players, failures, starts and `Session` are under no fairness. In `AsyncInput`
both threads run (weak fairness), and the worker gets the mutex (strong fairness): main holds it for a
moment in iterations of at least 30 ms. That an iteration ends is `ClientsComeRound` of `Pacing`. In
`Keepalive` the server's loop runs, time passes, and no datagram is under way for ever, delivered or lost
(weak fairness of each); nothing says that one gets through. The run has one client. With two,
`AnsweringStays`, where an answer waits behind the other's datagram, is the theorem's; TLC confirms it too
(`ClientAddresses = {c1, c2}`, `Timeout = 3`, `MaxDelay = 0`, `MaxStall = 1` and `Spec`: 3.6 million states
up to a permutation of the clients), but `CrashedIsForgotten` does not hold then: the bound on stalls lets
time pass only when the server finds its socket empty at last, and a second client that sent without end
could hold the clock still. In `Pacing` some step is always taken, and time passes since each tick has
finitely many. In `Hw2` each program's events and each time-out are weakly fair, one connection at a time as
`enet_host_service` takes its peers in turn; crashes, restarts and typing are not.

## 4. Proofs

`SnapshotSyncProofs` proves, from `StatesAssumption` and `MaxEpochAssumption` alone, for every set of bytes,
every set of states and every bound:

| theorem | states |
|---|---|
| `InductiveInvariant` | `Spec => []IInv` |
| `TypeCorrect` | `Spec => []TypeOK` |
| `AssertionHolds` | `Spec => []ConfirmationsNotAhead` |
| `BasesAreReal` | `QueueIsHistory`, `BaseWasApplied`, `InFlightConsistent` always hold |
| `ReplicationIsExact` | `Spec => []ExactWhereNeverReturning` |
| `ImplementsAReplica` | `Spec => ImplementsReplica`, that is `Spec => R!Spec` |
| `EpochsOnlyRise` | `Spec => EpochsNeverGoBack` |

The argument. `IInv` conjoins the types (with the exact shape of packets), `QueueIsHistory`,
`BaseWasApplied` and `InFlightConsistent`. None of these is inductive alone: that a delta was computed
against a state the client has been through needs that the oldest state kept has been applied
(`BaseWasApplied`); that this stays true when the queue is cut needs that only applied epochs are confirmed
(`InFlightConsistent`); and that the cut leaves the state with exactly the confirmed epoch at the back needs
that the queue has no gaps (`QueueIsHistory`). Exactness is then shown over `IInv`: when a delta of epoch e
with base b <= applied < e is applied, a cell that is in the delta is set to its value in e, and one that is
not has the same value in b and e, so, if it never returns, in `applied` too, where it was exact by
hypothesis; a cell beyond the old snapshot is always in the delta, since it is then beyond the base as well
or, by the same argument, would have returned. `AppliedCells` says what taking a packet does to each cell;
with it a step of the client is one `CatchUp` of `Replica`, since the base of a delta is an epoch the client
has got to or past, and a confirmation is a stutter.

`DeltaCodecProofs` proves, from `BitsPerByteAssumption` and `VectorsAssumption`, for vectors of any length
and bytes of any number of bits:

| theorem | states |
|---|---|
| `InductiveInvariant`, `TypeCorrect` | `Spec => []IInv`, `Spec => []TypeOK` |
| `DeltaIsReadExactly` | `Spec => []ReadsExactly` |
| `DeltaIsApplied` | `Spec => []AppliesTheDelta` |
| `DeltaRoundTrip` | `Spec => []RoundTrip` |

The two loops are tied together by `SentBefore(k)`, how many of the bytes before index k are sent. The
writer has put one byte into the vector for each (`ResultLength`), at that distance behind the mask
(`PayloadIsRight`), and a mask bit where it did (`MaskIsRight`); the reader, which only sees the bits, has
counted the same number (`ReaderKeepsUp`), so that its `delta_offset` is where the byte of its index lies.
That a bit of the mask belongs to one index is division with remainder (`BitOfOneIndex`, `MaskCovers`).
`DeltaIsApplied` is the link to `SnapshotSync`: its theorems are about the operators the loops are thus
shown to compute.

`MatchmakingProofs` proves, from `PeerCountAssumption`, `BoundsAssumption` and `NamesAssumption`, for every
number of clients, servers and peers, starts, escapes and failures:

| theorem | states |
|---|---|
| `InductiveInvariant`, `TypeCorrect` | `Spec => []IInv`, `Spec => []TypeOK` |
| `ClientsLeaveTheLobbyOnce` | `Spec => []StartedFindsLobbyPeer` |
| `StartersAreRegistered` | `Spec => []StarterIsRegistered` |
| `ListsAreCurrent` | `Spec => []ListedPeersAreLive` |
| `CallbacksMatchClosings` | `Spec => []CallbacksWaitForClosing` |

`LobbyInv` and `GameInv` say which states a connection can be in, both ends and both inboxes at once: whose
CONNECT may still be unread, that a StartLobby comes behind the registration, that the LobbyStarted comes to
an end that is up, that nothing follows a DISCONNECT. `ClientInv` ties a client's two peers to its two
connections, and `ServerInv` the slots of a server to the clients: a client that was told a server has at
most one slot there (`Seated`), and the players are those whose end is up (`PlayersAreUp`). Without the
first an event of a connection could not be told to be an event of one slot, so neither list would be
inductive. Steps of one client keep what the others have by a frame lemma; each action has a lemma of its
own.

`SessionProofs` proves, from `ConstantsAssumption`, for any number of clients, peers and joins:

| theorem | states |
|---|---|
| `InductiveInvariant` | `Spec => []IInv` |
| `ReliableChannelIsReadable` | `Spec => []ReliableIsReadable` |
| `RostersAreComplete` | `Spec => []RosterInTransit` |
| `NobodyIsDoubled` | `Spec => []IdsAreDistinct` |

`Keyed` describes the whole inbox of a client: it is ciphered with one key, and the client has that key or
the `SetKey` that brings it is the first packet. Each packet sent and each one read keeps this; that no
`SetKey` comes later is what makes it hold. A player's inbox ends in the server's `clients_` (`PlayerOk`): a
roster packet behind the rest changes what the client will know as it changes the server's list
(`RosterAppend`), reading the first one changes nothing of the sum (`RosterTail`), and the greeting of a
newcomer alone sums up to all the others (`GreetingIsRight`, which needs that `clients_` is finite and is
listed once each). `SlotsOk` keeps the two ends of this apart from the slots' earlier users.

`MainLoopProofs` proves about `AsyncInput`, from `LineAssumption`, for every set of lines and every bound:

| theorem | states |
|---|---|
| `InductiveInvariant`, `TypeCorrect` | `Spec => []IInv`, `Spec => []TypeOK` |
| `ImplementsLineQueue` | `Spec => LinesInOrder`, that is `Spec => LQ!Spec` |

The invariant says who holds the mutex is in its critical section, so that `lines_` still is what `stolen`
holds when it is cleared; that `poll` starts with nothing left over; and that the loop runs only while
`shouldStop_` is false. Each step is then shown to put a line at the end of the concatenated queue, to take
its head, to close it, or to leave it alone.

`ClientFramesProofs` proves, from `CapAssumption` (at least two snapshots are kept) and `TimesAssumption`,
for every lag, cap and number of snapshots:

| theorem | states |
|---|---|
| `InductiveInvariant`, `TypeCorrect` | `Spec => []IInv`, `Spec => []TypeOK` |
| `HistoryIsSound` | `HistoryIsRecent` and `FramesHaveTwo` always hold |
| `EveryFrameIsLagged` | `Spec => FramesAreLagged` |
| `EveryPredictionReachesNow` | `Spec => PredictionReachesNow` |

What one frame pops is right for its time; that what earlier frames and the cap popped is not missed is
`OldestIsNeeded`: the oldest snapshot kept is the first of all, older than the time shown, or there are
`HistoryCap` of them. It holds on because `now` only grows, and it is what turns the local guards of the two
pop loops into a statement about all snapshots received. The prediction needs that the kept inputs are in
the order of their times and none is of the future (`InputsInOrder`): the durations between them then
telescope (`DurationsTelescope`), from the newest snapshot or the first input after it to now.

`FirstProgramsProofs` proves about `Keepalive`, from `AddressAssumption` and `TimeAssumption`, for every set
of clients and all times that leave room:

| theorem | states |
|---|---|
| `InductiveInvariant`, `TypeCorrect` | `Spec => []IInv`, `Spec => []TypeOK` |
| `FailedReadIsBrief` | `Spec => []NobodyIsBrief` |
| `AnsweringClientsStay` | `Spec => AnsweringStays` |

The heart is `AnswerComes`: of a running client with nothing lost since it was last seen, the entry is at
most `PingTime` and the present stall old, or there is a ping to it, a datagram from it or one waiting to be
read, and the entry is no older than the way so far accounts for. Each step hands this from one place to the
next: a round sends the ping, the client answers, the answer arrives, the server reads it or something
before it. The ages add up to what `TimeAssumption` bounds by `Timeout`. `Ages` is needed for the types (no
entry outlives `Timeout` and a stall), and `Briefness` is the same for the zeroed address.

`MainLoopProofs` proves about `Pacing`, whose definitions carry its name where `AsyncInput` has the same
one, from `ConstantsAssumption`, for every number of clients, all rates and delays:

| theorem | states |
|---|---|
| `PacingInductiveInvariant`, `PacingTypesCorrect` | `PacingSpec => []PacingInv`, `PacingSpec => []PacingTypeOK` |
| `ClientsAreResponsive` | `PacingSpec => []ClientsComeRound` |

`Kept` says what can have kept a client in its poll. Confirmations can within a round trip of its beginning,
because they answer inputs sent before it (`InputsAreOlder`); a delta can for one more silence, but then no
other is under way (`DeltasAreNew`: the one under way is the last sent) or due, since a delay and a silence
are less than the server's 100 ms.

`WorldProofs` proves, from `ConstantsAssumption` (fewer entities are created in a game than there are ids),
for any number of players, bots and ids, all sizes and speeds:

| theorem | states |
|---|---|
| `InductiveInvariant`, `TypeCorrect` | `Spec => []IInv`, `Spec => []TypeOK` |
| `EverybodyHasABody` | `Spec => []OneBodyEach` |
| `PlayersSteerTheirOwn` | `Spec => OwnersSteer` |
| `InputsAreNotLost` | `Spec => InputsTakeEffect` |
| `WorldStaysAlive` | `Spec => []WorldIsAlive` |
| `IdsAreNotReused` | `Spec => GoneStaysGone` |

`Age` is how many entities ago an id was given out, around the end of the ids and past `kInvalidId`. The ids
in use, by entities, bots or players, are among the last `created` ones (`IdsOk`), so that the next one, the
oldest of all, is none of them; that is why an id is neither shared nor given out again. `Runs` and
`RoundByRound` are what the proofs use in the place of an induction over the rounds of a loop (they need
only that a set of numbers has a least element): `NewIdsAre` gives the ids of a reset in closed form,
`FedIsSound` says that after every bite an entity is left that is large enough, the larger one of two that
meet, and `SweptIsSound` that the look at an index brings the loop one step nearer to its end, whether it
goes on or the vector gets shorter, so that `Len` rounds are enough and no entity is passed over. Steering
goes through all of these once more: none of them touches the velocity of an entity that is no bot, and the
ids that are distinct lead an input to its own.

`LineOk` describes the way of one player's inputs: the queue is the history from its oldest epoch on, that
epoch has been applied, the packets under way are newer than `got` and each was made from an epoch the
server had then applied (`InputOk`), and only applied epochs are confirmed. So a byte that a delta leaves
out is equal in an input that has been applied, which is `InputsTakeEffect`. It is the argument of
`SnapshotSyncProofs` with less to show: the server does not keep what the client believes it has, since it
scales, and so no equality of states is left to prove.

`FirstProgramsProofs` proves about `Hw2`, whose definitions carry its name where `Keepalive` has the same
one, from `ConstantsAssumption`, for any number of clients, starts and failures:

| theorem | states |
|---|---|
| `Hw2InductiveInvariant`, `Hw2TypesCorrect` | `Hw2Spec => []Hw2Inv`, `Hw2Spec => []Hw2TypeOK` |
| `ClientsDoNotGiveUp` | `Hw2Spec => []NobodyGivesUp` |
| `PlayersStayLive` | `Hw2Spec => []PlayersAreLive` |
| `ServerPeerIsSet` | `serverPeer`, which the code does not initialise, is set wherever `serverConnected` is |

A connection is told the address at most once, and not before the far end took it up (`LinksOk`). As long as
the server's registration has not failed, `lobbyPeer` is its connection to the lobby until that is up
(`RegisteringOk`), so no player is taken for the lobby; a client is then told by its first peer only, and
what tells it comes while the second is free (`LobbyTells`). `PlayersOk` is that the players are those
connections to the server whose far end is up; for this a client that is told again must not use a
connection the server still holds (`ToldApart`, which also holds after a failed registration, when the
server itself may tell a client the address). `Sound` is what may become of one connection without its
client being told what it should not be, and `LinkStep` says that such a step keeps the invariant. The
actions that also change `players`, `lobbyPeer` or `remote`, and a client's start (`LobbyStart`), which
touches many connections at once, have proofs of their own; so has a client that is told (`GiveUpStep`,
`ConnectStep`).

What is only model-checked: the liveness properties (outside the prover's reach) and `EveryPacketReadable`,
which is false. The types of `SnapshotSync`, `DeltaCodec`, `AsyncInput`, `ClientFrames`, `Pacing`, `World`,
`Keepalive` and `Hw2`, and `QueueIsHistory`, `BaseWasApplied` and `HistoryIsRecent`, are proved and in no
run; `TypeOK` of `Session` states the types for the reader. The proof of `Session` keeps weaker types of its
own: that keys and ids do not exceed `MaxJoins` is the bound of the model, not a fact about the code.

## 5. Not modelled

- Positions and everything computed from them: `simulate`, `teleport_count`, interpolation, prediction,
  drawing. They are floating point. Velocities are bytes in `World`, and what scaling does to them is open.
- In `Pacing` delays of 30 ms and more, joins, chat and the time computing takes, all of which keep the
  loops busy for longer; the other modules let each action come when it likes.
- The window; a key press is an action of `Matchmaking`, and so is `/exit`, apart from the console that
  delivers it.
- A client that plays twice in one run: it leaves the lobby for good, so `ClientFrames` connects once.
- In `hw1` creating the sockets, and what `cin` keeps in its buffer. In `hw2` the packets a reader only logs
  (`PlayerList`, `PlayerListWithPing`, the server's `Time`) and their timers, whose 32 bits of milliseconds
  wrap after 49 days; the lobby does not crash there either.
- Liveness of a client's input queue: that it shrinks when confirmations get through is shown for the
  server's queues, by the same operators (`QueueDrains`). The queue of a player whose entity is gone is
  never confirmed and grows for ever; `World` bounds the inputs.
- A packet read with the wrong key always ends its reader in `Session`; the few garbled types that are in
  range would run another handler.
- A lobby or server of `hw5` that crashes or is restarted: nothing in it notices.
- The lobby's limit of 32 peers, and `Service::connect` failing at a client (it has two peers and uses at
  most two).
- `cipherXor` changes only the first byte of a packet, many times over; no property tells this from a cipher
  of the whole.

## 6. Plan

Done: `DeltaQueue`, `SnapshotSync` with `Replica`, `DeltaCodec`, `Link`, `Matchmaking`, `Session`,
`AsyncInput` with `LineQueue`, `ClientFrames`, `World`, `Pacing`, `Keepalive` and `Hw2`, with their proofs.

Next, in this order:

1. The servers lost when two clients start at once, and the clients sent to a server that has crashed, in
`Matchmaking`.
