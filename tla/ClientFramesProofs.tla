-------------------------- MODULE ClientFramesProofs --------------------------
(* Proofs about ClientFrames, for every lag, cap, clock and number of snapshots. *)
EXTENDS ClientFrames, SequenceTheorems, FiniteSetTheorems, WellFoundedInduction, TLAPS

Snapshot == [time : Nat, nth : Nat]

\* How the history and what was received are related besides HistoryIsRecent.
Sizes ==
    /\ Len(snapshotHistory_) <= Len(received)
    /\ received # << >> => snapshotHistory_ # << >>
    /\ server_peer_ => received # << >>
    /\ FramesHaveTwo

\* Times in order, none later than the last one.
InOrder(times, last) ==
    \A i \in 1..Len(times) :
        times[i] <= last /\ \A j \in i..Len(times) : times[i] <= times[j]

\* The inputs kept are in the order in which they were made.
InputsInOrder == InOrder(playerVelHistory_, now)

\* The inductive invariant.  FramesAreLagged speaks of one frame; that the
\* snapshots popped by earlier frames, for earlier times, or by the cap are not
\* needed by this one is OldestIsNeeded, which holds on because now only grows.
\* That a prediction goes forward is InputsInOrder.
IInv ==
    /\ TypeOK /\ now <= clock
    /\ HistoryIsRecent /\ Sizes /\ OldestIsNeeded
    /\ InputsInOrder

-----------------------------------------------------------------------------
(* Predictions *)

\* Every set of natural numbers has a least element.
LEMMA LeastNumber ==
  ASSUME NEW T, T \subseteq Nat, T # {}
  PROVE  \E n \in T : \A m \in T : n <= m
<1> DEFINE Upto(n) == 0..n
           F == {S \in FiniteSubsetsOf(Nat) : \E n \in T : S = Upto(n)}
           R == StrictSubsetOrdering(Nat)
<1>1. \A n \in T : Upto(n) \in F
  BY FS_Interval DEF FiniteSubsetsOf
<1>2. \E S \in F : \A V \in F : ~(<<V, S>> \in R)
  <2>1. IsWellFoundedOn(R, FiniteSubsetsOf(Nat))
    BY FS_StrictSubsetOrderingWellFounded
  <2>2. F \subseteq FiniteSubsetsOf(Nat) /\ F # {}
    BY <1>1
  <2> HIDE DEF F, R
  <2> QED
    BY <2>1, <2>2, WFMin
<1>3. PICK n \in T : \A m \in T : ~(<<Upto(m), Upto(n)>> \in R)
  BY <1>1, <1>2
<1>4. \A m \in T : n <= m
  <2>1. SUFFICES ASSUME NEW m \in T, m < n
                 PROVE  FALSE
    OBVIOUS
  <2>2. Upto(m) \subseteq Upto(n) /\ n \in Upto(n) /\ n \notin Upto(m)
    BY <2>1
  <2>3. <<Upto(m), Upto(n)>> \in R
    BY <2>2 DEF StrictSubsetOrdering
  <2> QED
    BY <1>3, <2>3
<1> QED
  BY <1>4

\* There is a duration for each input.
LEMMA DurationsOfInputs ==
  ASSUME NEW s \in Seq(Nat), NEW from \in Int
  PROVE  /\ Len(Durations(s, from)) = Len(s)
         /\ \A i \in 1..Len(s) :
              Durations(s, from)[i] = s[i] - (IF i = 1 THEN from ELSE s[i - 1])
<1> DEFINE L == Len(s)
           d == Durations(s, from)
<1>1. L \in Nat /\ \A i \in 1..L : s[i] \in Nat
  OBVIOUS
<1>2. \A i \in 1..L : s[i] - (IF i = 1 THEN from ELSE s[i - 1]) \in Int
  BY <1>1
<1>3. d \in Seq(Int)
  BY <1>1, <1>2, IsASeq DEF Durations
<1> QED
  BY <1>1, <1>3 DEF Durations

\* The durations of a prediction telescope: they add up to the time from its start
\* to the last input.
LEMMA DurationsTelescope ==
  ASSUME NEW s \in Seq(Nat), NEW from \in Int
  PROVE  Total(Durations(s, from)) = IF s = << >> THEN 0 ELSE s[Len(s)] - from
<1> DEFINE L == Len(s)
           d == Durations(s, from)
           Sum(f) == [i \in 0..L |-> IF i = 0 THEN 0 ELSE f[i - 1] + d[i]]
           g == [i \in 0..L |-> IF i = 0 THEN 0 ELSE s[i] - from]
           u == CHOOSE f : f = Sum(f)
<1>1. L \in Nat /\ (\A i \in 1..L : s[i] \in Nat) /\ (L = 0 => s = << >>)
      /\ (s = << >> => L = 0)
  BY EmptySeq
<1>2. Len(d) = L /\ \A i \in 1..L : d[i] = s[i] - (IF i = 1 THEN from ELSE s[i - 1])
  BY DurationsOfInputs
<1>3. Total(d) = u[L]
  BY <1>2 DEF Total
<1> HIDE DEF L, d
<1>4. g = Sum(g)
  <2>1. ASSUME NEW i \in 0..L
        PROVE  g[i] = IF i = 0 THEN 0 ELSE g[i - 1] + d[i]
    <3>1. CASE i = 0
      BY <3>1
    <3>2. CASE i = 1
      BY <3>2, <1>1, <1>2
    <3>3. CASE i > 1
      <4>1. i \in 1..L /\ i - 1 \in 1..L
        BY <3>3, <1>1
      <4>2. d[i] = s[i] - s[i - 1] /\ s[i] \in Nat /\ s[i - 1] \in Nat
        BY <4>1, <3>3, <1>1, <1>2
      <4>3. g[i] = s[i] - from /\ g[i - 1] = s[i - 1] - from
        BY <4>1, <3>3
      <4> QED
        BY <4>2, <4>3, <3>3
    <3> QED
      BY <3>1, <3>2, <3>3, <1>1
  <2> QED
    BY <2>1
<1> HIDE DEF g
<1>5. u = Sum(u)
  BY <1>4
<1> HIDE DEF u
<1>6. \A i \in 0..L : u[i] = g[i]
  <2> DEFINE Wrong == {i \in 0..L : u[i] # g[i]}
  <2> SUFFICES ASSUME Wrong # {}
               PROVE  FALSE
    OBVIOUS
  <2>1. PICK i \in Wrong : \A j \in Wrong : i <= j
    <3>1. Wrong \subseteq Nat
      BY <1>1
    <3> HIDE DEF Wrong
    <3> QED
      BY <3>1, LeastNumber
  <2>2. i \in 0..L /\ u[i] # g[i]
    BY <2>1
  <2>3. u[i] = (IF i = 0 THEN 0 ELSE u[i - 1] + d[i])
        /\ g[i] = (IF i = 0 THEN 0 ELSE g[i - 1] + d[i])
    <3>1. u[i] = Sum(u)[i] /\ g[i] = Sum(g)[i]
      BY <1>4, <1>5
    <3> QED
      BY <3>1, <2>2
  <2>4. i # 0
    BY <2>2, <2>3
  <2>5. i - 1 \in 0..L /\ ~(i <= i - 1)
    BY <2>2, <2>4, <1>1
  <2> QED
    BY <2>1, <2>2, <2>3, <2>4, <2>5
<1>7. u[L] = IF L = 0 THEN 0 ELSE s[L] - from
  BY <1>1, <1>6 DEF g
<1> QED
  BY <1>1, <1>3, <1>7 DEF L, d

\* The input of this iteration comes last.
LEMMA NowComesLast ==
  ASSUME NEW s \in Seq(Nat), NEW t \in Nat, InOrder(s, t)
  PROVE  /\ Append(s, t) \in Seq(Nat) /\ InOrder(Append(s, t), t)
         /\ Len(Append(s, t)) = Len(s) + 1 /\ Append(s, t)[Len(s) + 1] = t
<1> DEFINE r == Append(s, t)
<1>1. /\ r \in Seq(Nat) /\ Len(r) = Len(s) + 1 /\ Len(s) \in Nat
      /\ \A i \in 1..Len(s) : r[i] = s[i]
      /\ r[Len(s) + 1] = t
  BY AppendProperties
<1>2. \A i \in 1..Len(s) : s[i] \in Nat
  OBVIOUS
<1> HIDE DEF r
<1>3. ASSUME NEW i \in 1..Len(r)
      PROVE  r[i] <= t /\ \A j \in i..Len(r) : r[i] <= r[j]
  <2>1. CASE i = Len(s) + 1
    BY <1>1, <2>1
  <2>2. CASE i # Len(s) + 1
    <3>1. i \in 1..Len(s)
      BY <1>1, <2>2
    <3>2. ASSUME NEW j \in i..Len(r)
          PROVE  r[i] <= r[j]
      <4>1. CASE j \in 1..Len(s)
        BY <1>1, <3>1, <4>1 DEF InOrder
      <4>2. CASE j \notin 1..Len(s)
        <5>1. j = Len(s) + 1
          BY <1>1, <3>1, <4>2
        <5> QED
          BY <1>1, <3>1, <5>1 DEF InOrder
      <4> QED
        BY <4>1, <4>2
    <3> QED
      BY <1>1, <3>1, <3>2 DEF InOrder
  <2> QED
    BY <2>1, <2>2
<1> QED
  BY <1>1, <1>3 DEF InOrder, r

\* What is left of the inputs when the first n are pruned.
LEMMA PrunedInputs ==
  ASSUME NEW s \in Seq(Nat), NEW t \in Nat, InOrder(s, t), NEW n \in 0..Len(s)
  PROVE  /\ SubSeq(s, n + 1, Len(s)) \in Seq(Nat)
         /\ Len(SubSeq(s, n + 1, Len(s))) = Len(s) - n
         /\ \A i \in 1..Len(s) - n : SubSeq(s, n + 1, Len(s))[i] = s[n + i]
         /\ InOrder(SubSeq(s, n + 1, Len(s)), t)
<1> DEFINE r == SubSeq(s, n + 1, Len(s))
<1>0. Len(s) \in Nat /\ \A i \in 1..Len(s) : s[i] \in Nat
  OBVIOUS
<1>1. /\ r \in Seq(Nat) /\ Len(r) = Len(s) - n
      /\ \A i \in 1..Len(s) - n : r[i] = s[n + i]
  <2>1. n + 1 \in Int /\ Len(s) \in Int /\ \A i \in n + 1..Len(s) : s[i] \in Nat
    BY <1>0
  <2>2. /\ r \in Seq(Nat)
        /\ Len(r) = IF n + 1 <= Len(s) THEN Len(s) - (n + 1) + 1 ELSE 0
        /\ \A i \in 1..Len(s) - (n + 1) + 1 : r[i] = s[(n + 1) + i - 1]
    BY <2>1, SubSeqProperties
  <2>3. \A i \in 1..Len(s) - n : (n + 1) + i - 1 = n + i
    BY <1>0
  <2>4. Len(s) - (n + 1) + 1 = Len(s) - n /\ (~(n + 1 <= Len(s)) => Len(s) - n = 0)
    BY <1>0
  <2>5. Len(r) = Len(s) - n
    BY <2>2, <2>4
  <2> QED
    BY <2>2, <2>3, <2>4, <2>5
<1> HIDE DEF r
<1>2. ASSUME NEW i \in 1..Len(r)
      PROVE  r[i] <= t /\ \A j \in i..Len(r) : r[i] <= r[j]
  <2>1. n + i \in 1..Len(s) /\ r[i] = s[n + i]
    BY <1>0, <1>1
  <2>2. ASSUME NEW j \in i..Len(r)
        PROVE  r[i] <= r[j]
    <3>1. n + j \in n + i..Len(s) /\ r[j] = s[n + j]
      BY <1>0, <1>1
    <3> QED
      BY <2>1, <3>1 DEF InOrder
  <2> QED
    BY <2>1, <2>2 DEF InOrder
<1> QED
  BY <1>1, <1>2 DEF InOrder, r

\* A prediction from a time with the inputs that are left after pruning goes forward
\* only, up to the last input, which pruning leaves unless the start is later.
LEMMA PredictionLands ==
  ASSUME NEW s \in Seq(Nat), NEW t \in Nat, InOrder(s, t), s # << >>, s[Len(s)] = t,
         NEW from \in Int, NEW n \in 0..Len(s), Prunes(n, s, from),
         NEW d, d = Durations(SubSeq(s, n + 1, Len(s)), from)
  PROVE  /\ \A i \in 1..Len(d) : d[i] >= 0
         /\ from + Total(d) = IF from > t THEN from ELSE t
<1> DEFINE r == SubSeq(s, n + 1, Len(s))
<1>1. Len(s) \in Nat /\ Len(s) >= 1 /\ \A i \in 1..Len(s) : s[i] \in Nat
  BY EmptySeq
<1>2. /\ r \in Seq(Nat) /\ Len(r) = Len(s) - n
      /\ \A i \in 1..Len(s) - n : r[i] = s[n + i]
      /\ InOrder(r, t)
  BY PrunedInputs
<1> HIDE DEF r
<1>3. d = Durations(r, from)
  BY DEF r
<1>4. Len(d) = Len(r) /\ \A i \in 1..Len(r) : d[i] = r[i] - (IF i = 1 THEN from ELSE r[i - 1])
  <2>1. r \in Seq(Nat)
    BY <1>2
  <2>2. /\ Len(Durations(r, from)) = Len(r)
        /\ \A i \in 1..Len(r) :
             Durations(r, from)[i] = r[i] - (IF i = 1 THEN from ELSE r[i - 1])
    BY <2>1, DurationsOfInputs
  <2> QED
    BY <1>3, <2>2
<1>5. Total(d) = IF r = << >> THEN 0 ELSE r[Len(r)] - from
  BY <1>2, <1>3, DurationsTelescope
<1>6. CASE n = Len(s)
  <2>1. Len(r) = 0 /\ r = << >>
    BY <1>1, <1>2, <1>6, EmptySeq
  <2>2. from > t
    BY <1>1, <1>6 DEF Prunes
  <2> QED
    BY <1>4, <1>5, <2>1, <2>2
<1>7. CASE n < Len(s)
  <2>1. Len(r) >= 1 /\ Len(r) \in Nat /\ r # << >>
    BY <1>1, <1>2, <1>7
  <2>2. r[1] = s[n + 1] /\ r[Len(r)] = t
    <3>1. 1 \in 1..Len(s) - n /\ Len(s) - n \in 1..Len(s) - n /\ n + (Len(s) - n) = Len(s)
      BY <1>1, <1>7
    <3> QED
      BY <1>2, <3>1
  <2>3. r[1] >= from /\ r[1] \in Nat /\ r[1] <= t
    <3>1. s[n + 1] >= from
      BY <1>7 DEF Prunes
    <3>2. 1 \in 1..Len(r)
      BY <2>1
    <3>3. r[1] \in Nat
      BY <1>2, <3>2, ElementOfSeq
    <3>4. r[1] <= t
      BY <1>2, <3>2 DEF InOrder
    <3> QED
      BY <2>2, <3>1, <3>3, <3>4
  <2>4. ASSUME NEW i \in 1..Len(r)
        PROVE  d[i] >= 0
    <3>1. CASE i = 1
      BY <1>4, <2>3, <3>1
    <3>2. CASE i # 1
      <4>1. i - 1 \in 1..Len(r) /\ i \in i - 1..Len(r)
        BY <2>1, <3>2
      <4>2. r[i] \in Nat /\ r[i - 1] \in Nat
        BY <1>2, <4>1, ElementOfSeq
      <4>3. r[i - 1] <= r[i]
        BY <1>2, <4>1 DEF InOrder
      <4> QED
        BY <1>4, <3>2, <4>2, <4>3
    <3> QED
      BY <3>1, <3>2
  <2>5. from + Total(d) = t
    BY <1>5, <2>1, <2>2
  <2>6. ~(from > t)
    BY <2>3
  <2> QED
    BY <1>4, <2>4, <2>5, <2>6
<1> QED
  BY <1>1, <1>6, <1>7

-----------------------------------------------------------------------------
\* The prediction keeps the types of its two variables.
LEMMA PredictTypes ==
  ASSUME TypeOK, NEW newest \in Snapshot, Predict(newest)
  PROVE  playerVelHistory_' \in Seq(Nat) /\ replay' \in [from : Int, durations : Seq(Int)]
<1> DEFINE inputs == Append(playerVelHistory_, now)
<1>1. inputs \in Seq(Nat) /\ replay \in [from : Int, durations : Seq(Int)]
  BY DEF TypeOK
<1>2. ASSUME NEW trip \in HalfTrips, NEW n \in 0..Len(inputs),
             playerVelHistory_' = SubSeq(inputs, n + 1, Len(inputs)),
             replay' = [from |-> newest.time - trip,
                        durations |-> Durations(SubSeq(inputs, n + 1, Len(inputs)),
                                                newest.time - trip)]
      PROVE  playerVelHistory_' \in Seq(Nat) /\ replay' \in [from : Int, durations : Seq(Int)]
  <2> DEFINE recent == SubSeq(inputs, n + 1, Len(inputs))
             from == newest.time - trip
  <2> HIDE DEF inputs
  <2>1. recent \in Seq(Nat)
    BY <1>1
  <2>2. from \in Int
    BY TimesAssumption DEF Snapshot
  <2> HIDE DEF recent, from
  <2>3. Durations(recent, from) \in Seq(Int)
    <3>1. Len(recent) \in Nat /\ \A i \in 1..Len(recent) : recent[i] \in Nat
      BY <2>1
    <3>2. \A i \in 1..Len(recent) :
            recent[i] - (IF i = 1 THEN from ELSE recent[i - 1]) \in Int
      BY <2>2, <3>1, SMTT(30)
    <3> QED
      BY <3>1, <3>2, IsASeq DEF Durations
  <2> QED
    BY <1>2, <2>1, <2>2, <2>3 DEF recent, from
<1> HIDE DEF inputs
<1> QED
  BY <1>1, <1>2 DEF Predict, inputs, TypeOK

\* The prediction of a frame keeps the inputs in order and reaches that frame.
LEMMA PredictOrder ==
  ASSUME IInv, NEW newest \in Snapshot, Predict(newest), now' = now
  PROVE  /\ InputsInOrder'
         /\ replay' # replay =>
              /\ \A i \in 1..Len(replay'.durations) : replay'.durations[i] >= 0
              /\ replay'.from + Total(replay'.durations) =
                    IF replay'.from > now THEN replay'.from ELSE now
<1> DEFINE inputs == Append(playerVelHistory_, now)
<1>1. playerVelHistory_ \in Seq(Nat) /\ now \in Nat /\ InOrder(playerVelHistory_, now)
  BY DEF IInv, TypeOK, InputsInOrder
<1>2. /\ inputs \in Seq(Nat) /\ InOrder(inputs, now)
      /\ Len(inputs) = Len(playerVelHistory_) + 1
      /\ inputs[Len(playerVelHistory_) + 1] = now
  BY <1>1, NowComesLast
<1>3. inputs[Len(inputs)] = now /\ inputs # << >>
  <2>1. Len(inputs) # 0
    BY <1>1, <1>2
  <2> QED
    BY <1>2, <2>1, EmptySeq
<1> HIDE DEF inputs
<1>4. ASSUME NEW trip \in HalfTrips, NEW n \in 0..Len(inputs),
             Prunes(n, inputs, newest.time - trip),
             playerVelHistory_' = SubSeq(inputs, n + 1, Len(inputs)),
             replay' = [from |-> newest.time - trip,
                        durations |-> Durations(SubSeq(inputs, n + 1, Len(inputs)),
                                                newest.time - trip)]
      PROVE  /\ InputsInOrder'
             /\ \A i \in 1..Len(replay'.durations) : replay'.durations[i] >= 0
             /\ replay'.from + Total(replay'.durations) =
                   IF replay'.from > now THEN replay'.from ELSE now
  <2> DEFINE from == newest.time - trip
             d == Durations(SubSeq(inputs, n + 1, Len(inputs)), from)
  <2>1. from \in Int
    BY TimesAssumption DEF Snapshot
  <2>2. replay'.from = from /\ replay'.durations = d
    BY <1>4
  <2>3. InputsInOrder'
    <3>1. InOrder(playerVelHistory_', now)
      BY <1>1, <1>2, <1>4, PrunedInputs
    <3> QED
      BY <3>1 DEF InputsInOrder, InOrder
  <2>4. Prunes(n, inputs, from)
    BY <1>4
  <2> HIDE DEF from
  <2>5. /\ \A i \in 1..Len(d) : d[i] >= 0
        /\ from + Total(d) = IF from > now THEN from ELSE now
    BY <1>1, <1>2, <1>3, <2>1, <2>4, PredictionLands
  <2> HIDE DEF d
  <2> QED
    BY <2>2, <2>3, <2>5
<1>5. CASE UNCHANGED <<playerVelHistory_, replay>>
  BY <1>1, <1>5 DEF InputsInOrder, InOrder
<1>6. CASE playerVelHistory_' = inputs /\ UNCHANGED replay
  BY <1>2, <1>6 DEF InputsInOrder, InOrder
<1> QED
  BY <1>4, <1>5, <1>6 DEF Predict, inputs

\* What IInv says of the snapshots in the form the steps use.
LEMMA HistoryFacts ==
  ASSUME IInv
  PROVE  /\ snapshotHistory_ \in Seq(Snapshot) /\ received \in Seq(Nat)
         /\ Len(snapshotHistory_) \in Nat /\ Len(received) \in Nat
         /\ \A i \in 1..Len(snapshotHistory_) :
               /\ snapshotHistory_[i] \in Snapshot
               /\ snapshotHistory_[i].time \in Nat /\ snapshotHistory_[i].nth \in Nat
<1>1. snapshotHistory_ \in Seq(Snapshot) /\ received \in Seq(Nat)
  BY DEF IInv, TypeOK, Snapshot
<1>2. \A i \in 1..Len(snapshotHistory_) : snapshotHistory_[i] \in Snapshot
  BY <1>1, ElementOfSeq
<1> QED
  BY <1>1, <1>2, LenProperties DEF Snapshot

\* Adding a snapshot, with or without dropping the oldest.
LEMMA ArrivalPreserves ==
  ASSUME IInv, \/ snapshotHistory_' = Append(snapshotHistory_, Arriving)
               \/ snapshotHistory_' = Capped(Append(snapshotHistory_, Arriving)),
         received' = Append(received, clock), received = << >> \/ server_peer_,
         received = << >> =>
            snapshotHistory_' = Append(snapshotHistory_, Arriving),
         received # << >> =>
            snapshotHistory_' = Capped(Append(snapshotHistory_, Arriving)),
         now' = now
  PROVE  /\ snapshotHistory_' \in Seq(Snapshot) /\ received' \in Seq(Nat)
         /\ HistoryIsRecent' /\ OldestIsNeeded'
         /\ Len(snapshotHistory_') <= Len(received')
         /\ snapshotHistory_' # << >> /\ received' # << >>
         /\ FramesHaveTwo'
<1> DEFINE history == Append(snapshotHistory_, Arriving)
<1>1. Arriving \in Snapshot /\ clock \in Nat /\ now \in Nat
  BY HistoryFacts DEF IInv, TypeOK, Arriving, Snapshot
<1>2. /\ history \in Seq(Snapshot) /\ Len(history) = Len(snapshotHistory_) + 1
      /\ \A i \in 1..Len(snapshotHistory_) : history[i] = snapshotHistory_[i]
      /\ history[Len(snapshotHistory_) + 1] = Arriving /\ history # << >>
  BY <1>1, HistoryFacts, AppendProperties
<1>3. /\ received' \in Seq(Nat) /\ Len(received') = Len(received) + 1
      /\ \A i \in 1..Len(received) : received'[i] = received[i]
      /\ received'[Len(received) + 1] = clock /\ received' # << >>
  <2>1. received \in Seq(Nat)
    BY HistoryFacts
  <2>2. /\ Append(received, clock) \in Seq(Nat) /\ Append(received, clock) # << >>
        /\ Len(Append(received, clock)) = Len(received) + 1
        /\ \A i \in 1..Len(received) : Append(received, clock)[i] = received[i]
        /\ Append(received, clock)[Len(received) + 1] = clock
    BY <1>1, <2>1, AppendProperties
  <2> QED
    BY <2>2
<1>4. /\ Len(snapshotHistory_) <= Len(received) /\ Len(snapshotHistory_) <= HistoryCap
      /\ Len(received) >= 1 => Len(snapshotHistory_) >= 1
      /\ Len(received) >= 2 => Len(snapshotHistory_) >= 2
      /\ \A i \in 1..Len(snapshotHistory_) :
           snapshotHistory_[i] =
             [time |-> received[Len(received) - Len(snapshotHistory_) + i],
              nth |-> Len(received) - Len(snapshotHistory_) + i]
  BY HistoryFacts DEF IInv, Sizes, FramesHaveTwo, HistoryIsRecent
<1>5. /\ HistoryCap \in Nat /\ HistoryCap >= 2 /\ Lag \in Nat
      /\ Len(snapshotHistory_) \in Nat /\ Len(received) \in Nat
  BY CapAssumption, TimesAssumption, HistoryFacts
<1> HIDE DEF history
<1>6. \A i \in 1..Len(history) :
        history[i] = [time |-> received'[Len(received') - Len(history) + i],
                      nth |-> Len(received') - Len(history) + i]
  <2> SUFFICES ASSUME NEW i \in 1..Len(history)
               PROVE  history[i] = [time |-> received'[Len(received') - Len(history) + i],
                                    nth |-> Len(received') - Len(history) + i]
    OBVIOUS
  <2> DEFINE k == Len(received) - Len(snapshotHistory_) + i
  <2>1. Len(received') - Len(history) + i = k /\ k \in Nat
    BY <1>2, <1>3, <1>4, <1>5
  <2>2. CASE i \in 1..Len(snapshotHistory_)
    <3>1. k \in 1..Len(received)
      BY <2>2, <1>4, <1>5
    <3>2. history[i] = snapshotHistory_[i] /\ received'[k] = received[k]
      BY <2>2, <3>1, <1>2, <1>3, Zenon
    <3>3. snapshotHistory_[i] = [time |-> received[k], nth |-> k]
      BY <2>2, <1>4
    <3> HIDE DEF k
    <3> QED
      BY <2>1, <3>2, <3>3, Zenon
  <2>3. CASE i = Len(snapshotHistory_) + 1
    <3>1. k = Len(received) + 1
      BY <2>3, <1>5
    <3>2. history[i] = Arriving /\ received'[k] = clock
      BY <2>3, <3>1, <1>2, <1>3, Zenon
    <3>3. Arriving = [time |-> clock, nth |-> k]
      BY <3>1 DEF Arriving
    <3> HIDE DEF k
    <3> QED
      BY <2>1, <3>2, <3>3, Zenon
  <2>4. i \in 1..Len(snapshotHistory_) \/ i = Len(snapshotHistory_) + 1
    BY <1>2, <1>5
  <2> HIDE DEF k
  <2> QED
    BY <2>2, <2>3, <2>4, Zenon
<1>7. CASE snapshotHistory_' = history /\ Len(history) <= HistoryCap
  <2>1. HistoryIsRecent'
    BY <1>6, <1>7 DEF HistoryIsRecent
  <2>2. OldestIsNeeded'
    <3>1. CASE snapshotHistory_ = << >>
      <4>1. Len(snapshotHistory_) = 0 /\ Len(received) = 0
        BY <3>1, <1>4, <1>5
      <4>2. history[1] = Arriving /\ Arriving.nth = 1
        BY <4>1, <1>2 DEF Arriving
      <4> QED
        BY <4>2, <1>7 DEF OldestIsNeeded
    <3>2. CASE snapshotHistory_ # << >>
      <4>1. Len(snapshotHistory_) >= 1
        BY <3>2, <1>5, HistoryFacts, EmptySeq
      <4>2. history[1] = snapshotHistory_[1]
        BY <4>1, <1>2, <1>5
      <4>3. Len(snapshotHistory_) # HistoryCap
        BY <1>2, <1>5, <1>7
      <4> QED
        BY <3>2, <4>2, <4>3, <1>7 DEF IInv, OldestIsNeeded
    <3> QED
      BY <3>1, <3>2
  <2> QED
    BY <2>1, <2>2, <1>2, <1>3, <1>4, <1>5, <1>7 DEF FramesHaveTwo
<1>8. CASE snapshotHistory_' = Tail(history) /\ Len(history) > HistoryCap
  <2> DEFINE rest == Tail(history)
  <2>1. /\ rest \in Seq(Snapshot) /\ Len(rest) = Len(history) - 1
        /\ \A i \in 1..Len(rest) : rest[i] = history[i + 1]
    BY <1>2, HeadTailProperties
  <2> HIDE DEF rest
  <2>2. Len(rest) = HistoryCap /\ Len(rest) = Len(snapshotHistory_)
    BY <2>1, <1>2, <1>4, <1>5, <1>8
  <2>3. HistoryIsRecent'
    <3>1. \A i \in 1..Len(rest) :
            rest[i] = [time |-> received'[Len(received') - Len(rest) + i],
                       nth |-> Len(received') - Len(rest) + i]
      <4> SUFFICES ASSUME NEW i \in 1..Len(rest)
                   PROVE  rest[i] = [time |-> received'[Len(received') - Len(rest) + i],
                                     nth |-> Len(received') - Len(rest) + i]
        OBVIOUS
      <4>1. /\ i + 1 \in 1..Len(history)
            /\ Len(received') - Len(history) + (i + 1) = Len(received') - Len(rest) + i
        BY <2>1, <2>2, <1>2, <1>3, <1>5
      <4> QED
        BY <4>1, <2>1, <1>6
    <3>2. snapshotHistory_' = rest /\ Len(rest) <= HistoryCap
      BY <2>2, <1>5, <1>8 DEF rest
    <3> QED
      BY <3>1, <3>2 DEF HistoryIsRecent
  <2>4. OldestIsNeeded'
    BY <2>2, <1>8 DEF OldestIsNeeded, rest
  <2>5. snapshotHistory_' = rest /\ Len(rest) >= 2 /\ rest # << >>
    <3>1. Len(rest) >= 2 /\ Len(<< >>) = 0
      BY <2>2, <1>5
    <3>2. rest # << >>
      BY <3>1
    <3> QED
      BY <3>1, <3>2, <1>8 DEF rest
  <2>6. Len(rest) <= Len(received') /\ FramesHaveTwo'
    BY <2>2, <2>5, <1>3, <1>4, <1>5 DEF FramesHaveTwo
  <2> QED
    BY <2>1, <2>3, <2>4, <2>5, <2>6, <1>3, Zenon
<1>9. \/ snapshotHistory_' = history /\ Len(history) <= HistoryCap
      \/ snapshotHistory_' = Tail(history) /\ Len(history) > HistoryCap
  <2>1. CASE received = << >>
    <3>1. Len(history) = 1
      BY <2>1, <1>2, <1>4, <1>5
    <3> QED
      BY <2>1, <3>1, <1>5 DEF history
  <2>2. CASE received # << >>
    BY <2>2, <1>2, <1>5 DEF history, Capped
  <2> QED
    BY <2>1, <2>2
<1> QED
  BY <1>7, <1>8, <1>9

\* Popping what the loop of applySnapshots pops leaves the pair around the time
\* shown in front.
LEMMA FramePreserves ==
  ASSUME IInv, applySnapshots
  PROVE  /\ snapshotHistory_' \in Seq(Snapshot) /\ HistoryIsRecent'
         /\ OldestIsNeeded' /\ Len(snapshotHistory_') <= Len(received')
         /\ Len(snapshotHistory_') >= 2
         /\ RightPair(snapshotHistory_'[1].nth, now - Lag, Len(received))
<1> DEFINE L == Len(snapshotHistory_)
           N == Len(received)
<1>1. /\ snapshotHistory_ \in Seq(Snapshot) /\ L \in Nat /\ N \in Nat
      /\ L >= 2 /\ L <= N /\ L <= HistoryCap
      /\ HistoryCap \in Nat /\ Lag \in Nat /\ now \in Nat
      /\ \A i \in 1..L : snapshotHistory_[i] =
            [time |-> received[N - L + i], nth |-> N - L + i]
  BY HistoryFacts, CapAssumption, TimesAssumption
     DEF applySnapshots, IInv, TypeOK, Sizes, HistoryIsRecent
<1>2. UNCHANGED <<received, now>>
  BY DEF applySnapshots
<1>3. PICK n \in 0..L : /\ Pops(n, snapshotHistory_, now - Lag)
                        /\ snapshotHistory_' = SubSeq(snapshotHistory_, n + 1, L)
  BY DEF applySnapshots
<1>4. /\ n \in 0..L - 2
      /\ \A i \in 1..n : snapshotHistory_[i + 1].time < now - Lag
      /\ n < L - 2 => snapshotHistory_[n + 2].time >= now - Lag
  BY <1>3 DEF Pops
<1> DEFINE rest == SubSeq(snapshotHistory_, n + 1, L)
<1> HIDE DEF L, N
<1>5. /\ rest \in Seq(Snapshot) /\ Len(rest) = L - n
      /\ \A i \in 1..L - n : rest[i] = snapshotHistory_[n + i]
  <2>1. /\ n + 1 \in Int /\ L \in Int
        /\ \A i \in n + 1..L : snapshotHistory_[i] \in Snapshot
    BY <1>1, <1>4, HistoryFacts DEF L
  <2>2. /\ rest \in Seq(Snapshot)
        /\ Len(rest) = IF n + 1 <= L THEN L - (n + 1) + 1 ELSE 0
        /\ \A i \in 1..L - (n + 1) + 1 : rest[i] = snapshotHistory_[(n + 1) + i - 1]
    BY <2>1, SubSeqProperties
  <2>3. n + 1 <= L /\ L - (n + 1) + 1 = L - n
    BY <1>1, <1>4
  <2>4. \A i \in 1..L - n : (n + 1) + i - 1 = n + i
    BY <1>1, <1>4
  <2> QED
    BY <2>2, <2>3, <2>4
<1>6. \A i \in 1..Len(rest) :
        rest[i] = [time |-> received[N - Len(rest) + i], nth |-> N - Len(rest) + i]
  <2> SUFFICES ASSUME NEW i \in 1..Len(rest)
               PROVE  rest[i] = [time |-> received[N - Len(rest) + i],
                                 nth |-> N - Len(rest) + i]
    OBVIOUS
  <2> HIDE DEF rest
  <2>1. n + i \in 1..L /\ N - L + (n + i) = N - Len(rest) + i /\ i \in 1..L - n
    BY <1>1, <1>4, <1>5
  <2> QED
    BY <2>1, <1>1, <1>5
<1>7. snapshotHistory_' = rest
  BY <1>3
<1> HIDE DEF rest
<1>8. Len(rest) >= 2 /\ Len(rest) <= N /\ Len(rest) <= HistoryCap
  BY <1>1, <1>4, <1>5
<1>9. HistoryIsRecent'
  BY <1>2, <1>6, <1>7, <1>8 DEF HistoryIsRecent, N
<1>10. rest[1] = snapshotHistory_[n + 1] /\ rest[1].nth = N - L + n + 1
       /\ rest[1].time = received[N - L + n + 1]
  <2>1. 1 \in 1..L - n /\ 1 \in 1..Len(rest) /\ N - Len(rest) + 1 = N - L + n + 1
    BY <1>1, <1>4, <1>5
  <2>2. rest[1] = [time |-> received[N - L + n + 1], nth |-> N - L + n + 1]
    BY <2>1, <1>6
  <2> QED
    BY <2>1, <2>2, <1>5
<1>11. n > 0 => rest[1].time < now - Lag
  <2>1. n > 0 => n \in 1..n
    BY <1>4
  <2> QED
    BY <2>1, <1>4, <1>10
<1>12. n = 0 => \/ rest[1].nth = 1 \/ rest[1].time < now - Lag
                \/ Len(rest) = HistoryCap
  <2>1. n = 0 => rest[1] = snapshotHistory_[1] /\ Len(rest) = L
    BY <1>1, <1>5, <1>10
  <2>2. snapshotHistory_ # << >>
    BY <1>1 DEF L
  <2> QED
    BY <2>1, <2>2 DEF IInv, OldestIsNeeded, L
<1>13. n \in Nat /\ (n > 0 \/ n = 0)
  BY <1>1, <1>4
<1>14. OldestIsNeeded'
  BY <1>2, <1>7, <1>11, <1>12, <1>13 DEF OldestIsNeeded
<1>15. RightPair(rest[1].nth, now - Lag, N)
  <2> DEFINE p == rest[1].nth
  <2>1. p = N - L + n + 1 /\ p + 1 \in 2..N /\ p \in Nat
    BY <1>1, <1>4, <1>10
  <2>2. p + 1 = N \/ received[p + 1] >= now - Lag
    <3>1. CASE n = L - 2
      BY <3>1, <2>1, <1>1
    <3>2. CASE n < L - 2
      <4>1. n + 2 \in 1..L /\ N - L + (n + 2) = p + 1
        BY <2>1, <1>1, <1>4
      <4>2. snapshotHistory_[n + 2] = [time |-> received[p + 1], nth |-> p + 1]
        BY <4>1, <1>1
      <4> QED
        BY <3>2, <4>2, <1>4
    <3> QED
      BY <3>1, <3>2, <1>1, <1>4
  <2>3. p = 1 \/ received[p] < now - Lag \/ p = N - HistoryCap + 1
    <3>1. rest[1].time = received[p]
      BY <2>1, <1>10
    <3>2. Len(rest) = HistoryCap => p = N - HistoryCap + 1
      BY <2>1, <1>1, <1>4, <1>5
    <3> QED
      BY <3>1, <3>2, <1>11, <1>12, <1>13
  <2> QED
    BY <2>1, <2>2, <2>3 DEF RightPair
<1> QED
  BY <1>2, <1>5, <1>7, <1>8, <1>9, <1>14, <1>15 DEF N

\* At first there is no snapshot.
LEMMA InitEstablishes == Init => IInv
<1> SUFFICES ASSUME Init PROVE IInv
  OBVIOUS
<1>1. /\ << >> \in Seq(Snapshot) /\ << >> \in Seq(Nat) /\ << >> \in Seq(Int)
      /\ Len(<< >>) = 0
  OBVIOUS
<1>2. TypeOK /\ now <= clock
  <2>1. replay \in [from : Int, durations : Seq(Int)]
    BY <1>1 DEF Init, NoReplay
  <2>2. /\ snapshotHistory_ \in Seq([time : Nat, nth : Nat])
        /\ playerVelHistory_ \in Seq(Nat) /\ received \in Seq(Nat)
        /\ clock = 0 /\ now = 0
    BY <1>1, Zenon DEF Init, Snapshot
  <2>3. pc = "loop" /\ server_peer_ \in BOOLEAN
    BY DEF Init
  <2> QED
    BY <2>1, <2>2, <2>3 DEF TypeOK
<1>3. HistoryIsRecent /\ Sizes /\ OldestIsNeeded /\ InputsInOrder
  BY <1>1, CapAssumption
     DEF Init, HistoryIsRecent, Sizes, FramesHaveTwo, OldestIsNeeded,
         InputsInOrder, InOrder
<1> QED
  BY <1>2, <1>3 DEF IInv

\* Nothing but the clock and where the loop is, or a new, later now.
LEMMA QuietPreserves ==
  ASSUME IInv, UNCHANGED <<snapshotHistory_, received>>,
         now' \in Nat, clock' \in Nat, now <= now', now' <= clock',
         pc' \in {"loop", "poll", "frame", "crashed"},
         server_peer_' \in {server_peer_, FALSE},
         playerVelHistory_' = playerVelHistory_, replay' \in {replay, NoReplay}
  PROVE  IInv'
<1>1. replay' \in [from : Int, durations : Seq(Int)] /\ server_peer_' \in BOOLEAN
  <2>1. << >> \in Seq(Int) /\ 0 \in Int
    OBVIOUS
  <2>2. NoReplay \in [from : Int, durations : Seq(Int)]
    BY <2>1 DEF NoReplay
  <2> QED
    BY <2>2 DEF IInv, TypeOK
<1>2. TypeOK'
  BY <1>1 DEF IInv, TypeOK
<1>3. HistoryIsRecent' /\ Sizes'
  <2>1. HistoryIsRecent'
    BY DEF IInv, HistoryIsRecent
  <2>2. server_peer_' => server_peer_
    BY DEF IInv, TypeOK
  <2> QED
    BY <2>1, <2>2 DEF IInv, Sizes, FramesHaveTwo
<1>4. OldestIsNeeded'
  <2>1. CASE snapshotHistory_ = << >>
    BY <2>1 DEF OldestIsNeeded
  <2>2. CASE snapshotHistory_ # << >>
    <3>1. 1 \in 1..Len(snapshotHistory_)
      BY <2>2, HistoryFacts, EmptySeq
    <3>2. /\ snapshotHistory_[1].time \in Nat /\ now \in Nat /\ Lag \in Nat
      BY <3>1, HistoryFacts, TimesAssumption DEF IInv, TypeOK
    <3>3. snapshotHistory_[1].time < now - Lag => snapshotHistory_[1].time < now' - Lag
      BY <3>2
    <3> QED
      BY <2>2, <3>3 DEF IInv, OldestIsNeeded
  <2> QED
    BY <2>1, <2>2
<1>5. InputsInOrder'
  <2>1. playerVelHistory_ \in Seq(Nat) /\ now \in Nat /\ InOrder(playerVelHistory_, now)
    BY DEF IInv, TypeOK, InputsInOrder
  <2>2. \A i \in 1..Len(playerVelHistory_) : playerVelHistory_[i] \in Nat
    BY <2>1
  <2>3. \A i \in 1..Len(playerVelHistory_) : playerVelHistory_[i] <= now'
    BY <2>1, <2>2 DEF InOrder
  <2> QED
    BY <2>1, <2>3 DEF InputsInOrder, InOrder
<1> QED
  BY <1>2, <1>3, <1>4, <1>5 DEF IInv

\* The invariant is preserved by each step.
LEMMA StepPreserves ==
  ASSUME IInv, [Next]_vars
  PROVE  IInv'
<1>0. clock \in Nat /\ now \in Nat /\ now <= clock
      /\ pc \in {"loop", "poll", "frame", "crashed"}
  BY DEF IInv, TypeOK
<1>1. CASE Tick
  BY <1>0, <1>1, QuietPreserves DEF Tick
<1>2. CASE StartIteration
  <2>1. /\ UNCHANGED <<clock, snapshotHistory_, playerVelHistory_, received>>
        /\ now' = clock /\ pc' = "poll" /\ server_peer_' \in {server_peer_, FALSE}
        /\ replay' = NoReplay
    BY <1>2 DEF StartIteration
  <2>2. clock <= clock
    BY <1>0
  <2> QED
    BY <1>0, <2>1, <2>2, QuietPreserves
<1>3. CASE PollReturns \/ ReadBeyondHistory \/ SkipFrame
  <2>1. /\ UNCHANGED <<clock, now, server_peer_, snapshotHistory_,
                       playerVelHistory_, replay, received>>
        /\ pc' \in {"loop", "poll", "frame", "crashed"}
    BY <1>3 DEF PollReturns, ReadBeyondHistory, SkipFrame
  <2>2. now <= now
    BY <1>0
  <2> QED
    BY <1>0, <2>1, <2>2, QuietPreserves
<1>4. CASE UNCHANGED vars
  BY <1>0, <1>4, QuietPreserves DEF vars
<1>5. CASE Connected \/ HandleStateDelta
  <2>1. /\ \/ snapshotHistory_' = Append(snapshotHistory_, Arriving)
           \/ snapshotHistory_' = Capped(Append(snapshotHistory_, Arriving))
        /\ received' = Append(received, clock)
        /\ received = << >> \/ server_peer_
        /\ received = << >> => snapshotHistory_' = Append(snapshotHistory_, Arriving)
        /\ received # << >> =>
              snapshotHistory_' = Capped(Append(snapshotHistory_, Arriving))
        /\ now' = now
    BY <1>5 DEF Connected, HandleStateDelta, IInv, Sizes
  <2>2. /\ snapshotHistory_' \in Seq(Snapshot) /\ received' \in Seq(Nat)
        /\ HistoryIsRecent' /\ OldestIsNeeded'
        /\ Len(snapshotHistory_') <= Len(received')
        /\ snapshotHistory_' # << >> /\ received' # << >> /\ FramesHaveTwo'
    BY <2>1, ArrivalPreserves
  <2>3. /\ UNCHANGED <<clock, now, pc, playerVelHistory_, replay>>
        /\ server_peer_' \in BOOLEAN
    BY <1>5 DEF Connected, HandleStateDelta, IInv, TypeOK
  <2>4. InputsInOrder'
    BY <2>1, <2>3 DEF IInv, InputsInOrder, InOrder
  <2> QED
    BY <2>2, <2>3, <2>4 DEF IInv, TypeOK, Sizes, Snapshot
<1>6. CASE applySnapshots
  <2>1. /\ snapshotHistory_' \in Seq(Snapshot) /\ HistoryIsRecent'
        /\ OldestIsNeeded' /\ Len(snapshotHistory_') <= Len(received')
        /\ Len(snapshotHistory_') >= 2
    BY <1>6, FramePreserves
  <2>2. /\ UNCHANGED <<clock, now, server_peer_, received>> /\ pc' = "loop"
        /\ Predict(Last(snapshotHistory_)) /\ Len(snapshotHistory_) >= 2
    BY <1>6 DEF applySnapshots
  <2>3. Last(snapshotHistory_) \in Snapshot
    BY <2>2, HistoryFacts DEF Last
  <2>4. playerVelHistory_' \in Seq(Nat) /\ replay' \in [from : Int, durations : Seq(Int)]
    BY <2>2, <2>3, PredictTypes DEF IInv
  <2>5. TypeOK'
    BY <2>1, <2>2, <2>4 DEF IInv, TypeOK, Snapshot
  <2>6. Sizes'
    <3>1. snapshotHistory_' # << >>
      <4>1. Len(<< >>) = 0
        OBVIOUS
      <4> QED
        BY <4>1, <2>1
    <3> QED
      BY <2>1, <2>2, <3>1 DEF IInv, Sizes, FramesHaveTwo
  <2>7. InputsInOrder'
    BY <2>2, <2>3, PredictOrder
  <2> QED
    BY <2>1, <2>2, <2>5, <2>6, <2>7 DEF IInv
<1> QED
  BY <1>1, <1>2, <1>3, <1>4, <1>5, <1>6 DEF Next

-----------------------------------------------------------------------------
\* The inductive invariant holds in every reachable state.
THEOREM InductiveInvariant == Spec => []IInv
<1>1. Init => IInv
  BY InitEstablishes
<1>2. IInv /\ [Next]_vars => IInv'
  BY StepPreserves
<1> QED
  BY <1>1, <1>2, PTL DEF Spec

\* The variables keep their types.
THEOREM TypeCorrect == Spec => []TypeOK
<1>1. IInv => TypeOK
  BY DEF IInv
<1> QED
  BY <1>1, InductiveInvariant, PTL

\* snapshotHistory_ is the newest part of what was received, and after the
\* first delta applySnapshots finds two snapshots in it.
THEOREM HistoryIsSound == Spec => [](HistoryIsRecent /\ FramesHaveTwo)
<1>1. IInv => HistoryIsRecent /\ FramesHaveTwo
  BY DEF IInv, Sizes
<1> QED
  BY <1>1, InductiveInvariant, PTL

\* Every frame is drawn between the right two of all the snapshots received.
THEOREM EveryFrameIsLagged == Spec => FramesAreLagged
<1>1. IInv /\ [Next]_vars =>
        [applySnapshots =>
           RightPair(snapshotHistory_'[1].nth, now - Lag, Len(received))]_vars
  BY FramePreserves
<1> QED
  BY <1>1, InductiveInvariant, PTL DEF Spec, FramesAreLagged

\* Whatever was pruned before, in frames for other snapshots, every prediction goes
\* forward in time only and ends with the frame that shows it.
THEOREM EveryPredictionReachesNow == Spec => PredictionReachesNow
<1> DEFINE Reaches ==
      /\ \A i \in 1..Len(replay'.durations) : replay'.durations[i] >= 0
      /\ replay'.from + Total(replay'.durations) =
            IF replay'.from > now THEN replay'.from ELSE now
<1>1. ASSUME IInv, Next
      PROVE  replay' \notin {replay, NoReplay} => Reaches
  <2>1. CASE applySnapshots
    <3>1. Predict(Last(snapshotHistory_)) /\ now' = now /\ Len(snapshotHistory_) >= 2
      BY <2>1 DEF applySnapshots
    <3>2. Last(snapshotHistory_) \in Snapshot
      BY <1>1, <3>1, HistoryFacts DEF Last
    <3> QED
      BY <1>1, <3>1, <3>2, PredictOrder
  <2>2. CASE ~applySnapshots
    <3>1. replay' \in {replay, NoReplay}
      BY <1>1, <2>2 DEF Next, Tick, StartIteration, Connected, HandleStateDelta,
                        PollReturns, ReadBeyondHistory, SkipFrame
    <3> QED
      BY <3>1
  <2> QED
    BY <2>1, <2>2
<1>2. IInv /\ [Next]_vars =>
        [replay' \notin {replay, NoReplay} => Reaches]_vars
  BY <1>1
<1> QED
  BY <1>2, InductiveInvariant, PTL DEF Spec, PredictionReachesNow
=============================================================================
