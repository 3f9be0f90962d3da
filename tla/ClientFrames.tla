----------------------------- MODULE ClientFrames -----------------------------
(***************************************************************************)
(* What the client draws: snapshotHistory_ and playerVelHistory_ of        *)
(* hw5/client.cpp, filled by the packet handlers while Service::poll runs  *)
(* and read by applySnapshots once per iteration of run().                 *)
(*                                                                         *)
(* A frame shows the world as it was Lag ago, between the two snapshots    *)
(* around that moment.  `now` is read at the start of an iteration, before *)
(* the polls, while a snapshot gets the time of its arrival.  A snapshot   *)
(* is its time and its number; its entities are SnapshotSync's subject.    *)
(***************************************************************************)
EXTENDS Integers, SequencesExt

CONSTANTS Lag,            \* forcedLagMs
          HistoryCap,     \* the most snapshots kept, 10 in the code
          HalfTrips,      \* values of roundTripTime / 2
          MaxClock,       \* bound on the clock
          MaxReceived     \* bound on the snapshots received

ASSUME CapAssumption == HistoryCap \in Nat /\ HistoryCap >= 2
ASSUME TimesAssumption == Lag \in Nat /\ HalfTrips \subseteq Nat
ASSUME BoundsAssumption == MaxClock \in Nat /\ MaxReceived \in Nat

VARIABLES
    clock,
    now,                  \* run(): the time this iteration started
    pc,                   \* "loop", "poll", "frame" or "crashed"
    server_peer_,         \* whether it is set
    snapshotHistory_,     \* oldest first
    playerVelHistory_,    \* the times of the player's inputs, oldest first
    replay,               \* history: the prediction of this iteration's frame
    received              \* history: the times of all snapshots, oldest first

vars == <<clock, now, pc, server_peer_, snapshotHistory_, playerVelHistory_,
          replay, received>>

\* A prediction starts from a time and simulates a sequence of durations.
NoReplay == [from |-> 0, durations |-> << >>]

Init ==
    /\ clock = 0 /\ now = 0 /\ pc = "loop"
    /\ server_peer_ = FALSE
    /\ snapshotHistory_ = << >> /\ playerVelHistory_ = << >>
    /\ replay = NoReplay
    /\ received = << >>

-----------------------------------------------------------------------------
Tick ==
    /\ clock < MaxClock
    /\ clock' = clock + 1
    /\ UNCHANGED <<now, pc, server_peer_, snapshotHistory_, playerVelHistory_,
                   replay, received>>

\* auto now = Clock::now(), then the polls of the console and the window.  By
\* /exit or ESC the player leaves: close() clears server_peer_.
StartIteration ==
    /\ pc = "loop"
    /\ now' = clock
    /\ pc' = "poll"
    /\ server_peer_' \in {server_peer_, FALSE}
    /\ replay' = NoReplay
    /\ UNCHANGED <<clock, snapshotHistory_, playerVelHistory_, received>>

\* A snapshot that arrives now, behind the others.
Arriving == [time |-> clock, nth |-> Len(received) + 1]

\* The callback of the connect to the server: an empty snapshot to start from.
Connected ==
    /\ pc = "poll" /\ received = << >> /\ Len(received) < MaxReceived
    /\ server_peer_' = TRUE
    /\ snapshotHistory_' = Append(snapshotHistory_, Arriving)
    /\ received' = Append(received, clock)
    /\ UNCHANGED <<clock, now, pc, playerVelHistory_, replay>>

Capped(history) ==
    IF Len(history) > HistoryCap THEN Tail(history) ELSE history

HandleStateDelta ==
    /\ pc = "poll" /\ server_peer_ /\ Len(received) < MaxReceived
    /\ snapshotHistory_' = Capped(Append(snapshotHistory_, Arriving))
    /\ received' = Append(received, clock)
    /\ UNCHANGED <<clock, now, pc, server_peer_, playerVelHistory_, replay>>

\* Service::poll returns when 30 ms, the unit of the clock, have passed without
\* an event.
PollReturns ==
    /\ pc = "poll" /\ now < clock
    /\ \A i \in 1..Len(received) : received[i] < clock
    /\ pc' = "frame"
    /\ UNCHANGED <<clock, now, server_peer_, snapshotHistory_,
                   playerVelHistory_, replay, received>>

-----------------------------------------------------------------------------
(* applySnapshots *)

\* Mutations of the next definition: one snapshot is left, or the first of the
\* two compared is the older one.
Pops_to_one(n, history, time) ==
    /\ n \in 0..Len(history) - 1
    /\ \A i \in 1..n : history[i + 1].time < time
    /\ n < Len(history) - 1 => history[n + 2].time >= time
Pops_older(n, history, time) ==
    /\ n \in 0..Len(history) - 2
    /\ \A i \in 1..n : history[i].time < time
    /\ n < Len(history) - 2 => history[n + 1].time >= time

\* while (size() > 2 && [1].time < time) pop_front() pops n times.
Pops(n, history, time) ==
    /\ n \in 0..Len(history) - 2
    /\ \A i \in 1..n : history[i + 1].time < time
    /\ n < Len(history) - 2 => history[n + 2].time >= time

\* Mutation of the next definition: nothing is pruned.
Prunes_never(n, inputs, from) == n = 0

\* while (!empty() && front().time < last) pop_front() pops n times.
Prunes(n, inputs, from) ==
    /\ n \in 0..Len(inputs)
    /\ \A i \in 1..n : inputs[i] < from
    /\ n < Len(inputs) => inputs[n + 1] >= from

\* Each input is simulated for the time since the one before it.
Durations(inputs, from) ==
    [i \in 1..Len(inputs) |-> inputs[i] - (IF i = 1 THEN from ELSE inputs[i - 1])]

\* The player's entity, when the target snapshot has it, moves by local input;
\* the newest snapshot, when it has it too, is where the prediction starts.
Predict(newest) ==
    LET inputs == Append(playerVelHistory_, now)
    IN  \/ UNCHANGED <<playerVelHistory_, replay>>
        \/ playerVelHistory_' = inputs /\ UNCHANGED replay
        \/ \E trip \in HalfTrips, n \in 0..Len(inputs) :
              LET from == newest.time - trip
                  recent == SubSeq(inputs, n + 1, Len(inputs))
              IN  /\ Prunes(n, inputs, from)
                  /\ playerVelHistory_' = recent
                  /\ replay' = [from |-> from, durations |-> Durations(recent, from)]

applySnapshots ==
    /\ pc = "frame" /\ server_peer_ /\ Len(snapshotHistory_) >= 2
    /\ \E n \in 0..Len(snapshotHistory_) :
         /\ Pops(n, snapshotHistory_, now - Lag)
         /\ snapshotHistory_' =
               SubSeq(snapshotHistory_, n + 1, Len(snapshotHistory_))
    /\ Predict(Last(snapshotHistory_))
    /\ pc' = "loop"
    /\ UNCHANGED <<clock, now, server_peer_, received>>

\* snapshotHistory_[1] does not exist before the first delta: what lies behind
\* the first element is copied, and either crashes the program or is drawn.
ReadBeyondHistory ==
    /\ pc = "frame" /\ server_peer_ /\ Len(snapshotHistory_) < 2
    /\ pc' \in {"loop", "crashed"}
    /\ UNCHANGED <<clock, now, server_peer_, snapshotHistory_,
                   playerVelHistory_, replay, received>>

SkipFrame ==
    /\ pc = "frame" /\ ~server_peer_
    /\ pc' = "loop"
    /\ UNCHANGED <<clock, now, server_peer_, snapshotHistory_,
                   playerVelHistory_, replay, received>>

-----------------------------------------------------------------------------
Next == \/ Tick \/ StartIteration \/ Connected \/ HandleStateDelta
        \/ PollReturns \/ applySnapshots \/ ReadBeyondHistory \/ SkipFrame

Spec == Init /\ [][Next]_vars

-----------------------------------------------------------------------------
TypeOK ==
    /\ clock \in Nat /\ now \in Nat
    /\ pc \in {"loop", "poll", "frame", "crashed"}
    /\ server_peer_ \in BOOLEAN
    /\ snapshotHistory_ \in Seq([time : Nat, nth : Nat])
    /\ playerVelHistory_ \in Seq(Nat)
    /\ replay \in [from : Int, durations : Seq(Int)]
    /\ received \in Seq(Nat)

\* However the handlers that add snapshots and the frames that drop them
\* alternate, the history is the newest part of what was received, without a
\* gap, of at most HistoryCap snapshots.
HistoryIsRecent ==
    /\ Len(snapshotHistory_) <= HistoryCap
    /\ \A i \in 1..Len(snapshotHistory_) :
         LET nth == Len(received) - Len(snapshotHistory_) + i
         IN  snapshotHistory_[i] = [time |-> received[nth], nth |-> nth]

\* From the first delta on there are two snapshots to draw between: the
\* accesses [0] and [1] of applySnapshots stay in bounds.
FramesHaveTwo == Len(received) >= 2 => Len(snapshotHistory_) >= 2

\* The frame at a time, out of n snapshots that had arrived, is drawn between
\* the right ones, p and p + 1: p + 1 is the newest or not older than the time
\* shown, and p is older than that time, the first of all, or the oldest kept.
RightPair(p, time, n) ==
    /\ p + 1 \in 2..n
    /\ p + 1 = n \/ received[p + 1] >= time
    /\ p = 1 \/ received[p] < time \/ p = n - HistoryCap + 1

\* Between frames the oldest snapshot kept is the first of all, older than the
\* time shown, or there are HistoryCap of them.
OldestIsNeeded ==
    snapshotHistory_ # << >> =>
        \/ snapshotHistory_[1].nth = 1
        \/ snapshotHistory_[1].time < now - Lag
        \/ Len(snapshotHistory_) = HistoryCap

\* Every frame draws the pair of snapshots around the time it shows, as if it
\* were looked up in all that ever arrived: popping in the frames, and in the
\* handler above the cap, never takes one that is still needed.
FramesAreLagged ==
    [][applySnapshots =>
         RightPair(snapshotHistory_'[1].nth, now - Lag, Len(received))]_vars

Total(durations) ==
    LET upto[i \in 0..Len(durations)] ==
            IF i = 0 THEN 0 ELSE upto[i - 1] + durations[i]
    IN  upto[Len(durations)]

\* The prediction never simulates backwards, and brings the newest snapshot up
\* to this frame, unless that snapshot is newer than the frame itself.
PredictionReachesNow ==
    [][replay' \notin {replay, NoReplay} =>
         /\ \A i \in 1..Len(replay'.durations) : replay'.durations[i] >= 0
         /\ replay'.from + Total(replay'.durations) =
               IF replay'.from > now THEN replay'.from ELSE now]_vars
=============================================================================
