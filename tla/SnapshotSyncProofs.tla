-------------------------- MODULE SnapshotSyncProofs --------------------------
(* Proofs about SnapshotSync, for every value of its constants. *)
EXTENDS SnapshotSync, SequenceTheorems, TLAPS

DataState == [epoch : Nat, data : Seq(Byte)]

DeltaPacket == [epoch : Nat, total_bytes : Nat,
                cont : UNION {[D -> Byte] : D \in SUBSET Nat}]

\* The inductive invariant.  TypeOK says nothing of the shape of a queue, so
\* the step that confirms an epoch needs QueueIsHistory to know which states
\* are dropped; BaseWasApplied and InFlightConsistent carry each other: a
\* confirmation in flight is of an applied epoch, so the base it moves the
\* queue to was applied, so the next delta is computed against such a state.
IInv ==
    /\ TypeOK
    /\ deltas \in Seq(DeltaPacket)
    /\ delta_queue # << >>
    /\ QueueIsHistory
    /\ BaseWasApplied
    /\ InFlightConsistent

\* Epochs in a queue rise by one from each state to the next.
Consecutive(q) == \A n \in 1..Len(q) : q[n].epoch = q[1].epoch + n - 1

\* Confirming an epoch that a non-empty, consecutive queue does not lie behind
\* leaves the suffix that starts at that epoch (or the whole queue, if the
\* epoch was dropped before).
LEMMA ReceiveConfirmationKeepsSuffix ==
  ASSUME NEW q \in Seq(DataState), Len(q) >= 1, Consecutive(q),
         NEW c \in Nat, c <= front(q).epoch
  PROVE  \E n \in 1..Len(q) :
            /\ ReceiveConfirmation(q, c) = SubSeq(q, n, Len(q))
            /\ q[n].epoch = IF c <= q[1].epoch THEN q[1].epoch ELSE c
<1> DEFINE n == IF c <= q[1].epoch THEN 1 ELSE c - q[1].epoch + 1
           I == {i \in 1..Len(q) : q[i].epoch >= c}
<1>1. Len(q) \in Nat /\ \A i \in 1..Len(q) : q[i].epoch \in Nat
  <2>1. \A i \in 1..Len(q) : q[i] \in DataState
    BY ElementOfSeq
  <2> QED
    BY <2>1 DEF DataState
<1>2. /\ n \in 1..Len(q)
      /\ q[n].epoch = IF c <= q[1].epoch THEN q[1].epoch ELSE c
  BY <1>1, SMTT(30) DEF Consecutive, front, Last
<1>3. n \in I /\ \A i \in I : n <= i
  BY <1>1, <1>2, SMTT(30) DEF Consecutive
<1>4. Min(I) = n
  <2>1. I \subseteq Int
    OBVIOUS
  <2> HIDE DEF n, I
  <2>2. Min(I) \in I /\ \A i \in I : Min(I) <= i
    BY <1>3 DEF Min
  <2>3. Min(I) \in Int /\ n \in Int /\ Min(I) <= n /\ n <= Min(I)
    BY <1>3, <2>1, <2>2
  <2> QED
    BY <2>3
<1>5. ReceiveConfirmation(q, c) = SubSeq(q, n, Len(q))
  <2>1. I # {} /\ Min(I) = n /\ n # 0
    BY <1>2, <1>3, <1>4
  <2> HIDE DEF n
  <2> QED
    BY <2>1 DEF ReceiveConfirmation, SelectInSeq
<1> QED
  BY <1>2, <1>5

-----------------------------------------------------------------------------
\* What IInv says of the queue, in the form the steps below use.
LEMMA QueueFacts ==
  ASSUME IInv
  PROVE  /\ Len(delta_queue) \in Nat \ {0}
         /\ Len(sent) \in Nat /\ applied \in 0..Len(sent)
         /\ Consecutive(delta_queue)
         /\ front(delta_queue).epoch = Len(sent)
         /\ back(delta_queue) = delta_queue[1]
         /\ \A n \in 1..Len(delta_queue) :
               /\ delta_queue[n] \in DataState
               /\ delta_queue[n].epoch \in Nat
               /\ delta_queue[n].data \in Seq(Byte)
         /\ back(delta_queue).epoch \in 0..applied
         /\ back(delta_queue).data = StateAt(back(delta_queue).epoch)
<1>1. delta_queue \in Seq(DataState) /\ sent \in Seq(States)
  BY DEF IInv, TypeOK, DataState
<1>2. Len(delta_queue) \in Nat \ {0} /\ Len(sent) \in Nat
  BY <1>1, EmptySeq DEF IInv
<1>3. \A n \in 1..Len(delta_queue) : delta_queue[n] \in DataState
  BY <1>1, ElementOfSeq
<1>4. \A n \in 1..Len(delta_queue) :
         delta_queue[n].epoch \in Nat /\ delta_queue[n].data \in Seq(Byte)
  BY <1>3 DEF DataState
<1>5. /\ Consecutive(delta_queue)
      /\ front(delta_queue).epoch = Len(sent)
  <2>1. \A n \in 1..Len(delta_queue) :
           delta_queue[n].epoch = Len(sent) - Len(delta_queue) + n
    BY DEF IInv, QueueIsHistory
  <2>2. 1 \in 1..Len(delta_queue) /\ Len(delta_queue) \in 1..Len(delta_queue)
    BY <1>2
  <2>3. Consecutive(delta_queue)
    BY <1>2, <2>1, <2>2 DEF Consecutive
  <2>4. delta_queue[Len(delta_queue)].epoch = Len(sent)
    BY <1>2, <2>1, <2>2
  <2> QED
    BY <2>3, <2>4 DEF front, Last
<1>6. back(delta_queue) = delta_queue[1]
  BY <1>1 DEF back
<1>7. applied \in 0..Len(sent)
  BY DEF IInv, TypeOK
<1> QED
  BY <1>2, <1>3, <1>4, <1>5, <1>6, <1>7
  DEF IInv, QueueIsHistory, BaseWasApplied

LEMMA InitIInv == Init => IInv
<1> SUFFICES ASSUME Init PROVE IInv
  OBVIOUS
<1>1. delta_queue = << [epoch |-> 0, data |-> << >>] >>
  BY DEF Init, DeltaSendQueue
<1>2. TypeOK /\ deltas \in Seq(DeltaPacket) /\ delta_queue # << >>
  BY <1>1, EmptySeq DEF Init, TypeOK
<1>3. QueueIsHistory /\ BaseWasApplied /\ InFlightConsistent
  BY <1>1 DEF Init, QueueIsHistory, BaseWasApplied, InFlightConsistent,
              StateAt, StateIn, back
<1> QED
  BY <1>2, <1>3 DEF IInv

-----------------------------------------------------------------------------
(* What the codec's operators return. *)

LEMMA EncodeType ==
  ASSUME NEW old \in Seq(Byte), NEW new \in Seq(Byte)
  PROVE  /\ delta_encode(old, new) \in [Changed(old, new) -> Byte]
         /\ Changed(old, new) \in SUBSET Nat
         /\ Changed(old, new) \subseteq DOMAIN new
<1>1. /\ new \in [1..Len(new) -> Byte] /\ DOMAIN new = 1..Len(new)
      /\ Len(new) \in Nat
  BY LenProperties
<1> QED
  BY <1>1 DEF delta_encode, Changed

LEMMA ApplyType ==
  ASSUME NEW data \in Seq(Byte), NEW D, NEW delta \in [D -> Byte],
         NEW total \in Nat
  PROVE  /\ delta_apply(data, delta, total) \in Seq(Byte)
         /\ DOMAIN delta_apply(data, delta, total) = 1..total
<1>1. data \in [1..Len(data) -> Byte] /\ DOMAIN data = 1..Len(data)
  BY LenProperties
<1>2. delta_apply(data, delta, total) \in [1..total -> Byte]
  BY <1>1, StatesAssumption DEF delta_apply
<1> QED
  BY <1>2, SeqDef

LEMMA StateInType ==
  ASSUME NEW hist \in Seq(States), NEW e \in 0..Len(hist)
  PROVE  StateIn(hist, e) \in Seq(Byte)
<1>1. CASE e = 0
  BY <1>1, EmptySeq DEF StateIn
<1>2. CASE e # 0
  <2>1. Len(hist) \in Nat
    BY LenProperties
  <2>2. hist[e] \in States
    BY <1>2, <2>1, ElementOfSeq
  <2> QED
    BY <1>2, <2>2, StatesAssumption DEF StateIn
<1> QED
  BY <1>1, <1>2

\* Sending extends the history and leaves what it was.
LEMMA AppendExtendsHistory ==
  ASSUME NEW hist \in Seq(States), NEW state \in States
  PROVE  /\ Append(hist, state) \in Seq(States)
         /\ Len(Append(hist, state)) = Len(hist) + 1
         /\ \A e \in 0..Len(hist) :
               StateIn(Append(hist, state), e) = StateIn(hist, e)
         /\ StateIn(Append(hist, state), Len(hist) + 1) = state
<1> DEFINE longer == Append(hist, state)
<1>1. /\ longer \in Seq(States) /\ Len(longer) = Len(hist) + 1
      /\ Len(hist) \in Nat
      /\ \A i \in 1..Len(hist) : longer[i] = hist[i]
      /\ longer[Len(hist) + 1] = state
  BY AppendProperties, LenProperties
<1> HIDE DEF longer
<1>2. StateIn(longer, Len(hist) + 1) = state
  BY <1>1 DEF StateIn
<1>3. ASSUME NEW e \in 0..Len(hist)
      PROVE  StateIn(longer, e) = StateIn(hist, e)
  <2>1. e = 0 \/ e \in 1..Len(hist)
    BY <1>1
  <2> QED
    BY <1>1, <2>1 DEF StateIn
<1> QED
  BY <1>1, <1>2, <1>3 DEF longer

-----------------------------------------------------------------------------
(* Each action preserves IInv. *)

\* The delta in a packet takes the state of an epoch not beyond a to its own.
EncodedSince(packet, hist, a) ==
    \E b \in 0..a :
        /\ packet.cont = delta_encode(StateIn(hist, b), StateIn(hist, packet.epoch))
        /\ packet.total_bytes = Len(StateIn(hist, packet.epoch))

LEMMA InFlightForm ==
  InFlightConsistent <=>
    /\ \A k \in 1..Len(deltas) :
         /\ applied < deltas[k].epoch
         /\ \A j \in 1..(k - 1) : deltas[j].epoch < deltas[k].epoch
         /\ EncodedSince(deltas[k], sent, applied)
    /\ \A k \in 1..Len(confirmations) : confirmations[k] <= applied
BY DEF InFlightConsistent, EncodedSince, StateAt

LEMMA DeltaType ==
  ASSUME IInv, NEW k \in 1..Len(deltas)
  PROVE  /\ deltas[k].epoch \in 1..Len(sent)
         /\ deltas[k].total_bytes \in Nat
         /\ \E D \in SUBSET Nat : deltas[k].cont \in [D -> Byte]
         /\ applied < deltas[k].epoch
         /\ \A j \in 1..(k - 1) : deltas[j].epoch < deltas[k].epoch
<1>1. deltas[k] \in DeltaPacket
  BY ElementOfSeq DEF IInv
<1>2. /\ deltas[k].total_bytes \in Nat
      /\ deltas[k].cont \in UNION {[D -> Byte] : D \in SUBSET Nat}
  BY <1>1 DEF DeltaPacket
<1>3. \E D \in SUBSET Nat : deltas[k].cont \in [D -> Byte]
  BY <1>2
<1> QED
  BY <1>2, <1>3 DEF IInv, TypeOK, InFlightConsistent

LEMMA SendKeepsIInv ==
  ASSUME IInv, NEW state \in States, send_deltas(state)
  PROVE  IInv'
<1> DEFINE packet == StateDelta(delta_queue, state)
           pushed == [epoch |-> front(delta_queue).epoch + 1, data |-> state]
           base   == back(delta_queue).epoch
<1>1. /\ delta_queue' = Append(delta_queue, pushed)
      /\ deltas' = Append(deltas, packet)
      /\ sent' = Append(sent, state)
      /\ UNCHANGED <<confirmations, snapshot, applied>>
  BY DEF send_deltas, PushState
<1>2. /\ delta_queue \in Seq(DataState) /\ deltas \in Seq(DeltaPacket)
      /\ Len(deltas) \in Nat /\ state \in Seq(Byte)
      /\ confirmations \in Seq(1..Len(sent)) /\ snapshot \in Seq(Byte)
      /\ sent \in Seq(States)
  BY LenProperties, StatesAssumption DEF IInv, TypeOK, DataState
<1>3. /\ sent' \in Seq(States) /\ Len(sent') = Len(sent) + 1
      /\ \A e \in 0..Len(sent) : StateIn(sent', e) = StateIn(sent, e)
      /\ StateIn(sent', Len(sent) + 1) = state
  BY <1>1, <1>2, AppendExtendsHistory
<1>4. /\ pushed.epoch = Len(sent) + 1 /\ pushed.data = state
      /\ pushed \in DataState
  <2>1. front(delta_queue).epoch + 1 = Len(sent) + 1 /\ Len(sent) + 1 \in Nat
    BY QueueFacts
  <2> QED
    BY <1>2, <2>1 DEF DataState
<1>5. /\ packet.epoch = Len(sent) + 1 /\ packet.total_bytes = Len(state)
      /\ packet.cont = delta_encode(StateIn(sent, base), state)
  BY QueueFacts DEF StateDelta, StateAt
<1>6. /\ base \in 0..applied /\ base \in 0..Len(sent)
      /\ StateIn(sent, base) \in Seq(Byte)
  <2>1. base \in 0..applied /\ base \in 0..Len(sent)
    BY QueueFacts
  <2> QED
    BY <1>2, <2>1, StateInType
<1>7. packet \in DeltaPacket
  <2>1. /\ packet.cont \in [Changed(StateIn(sent, base), state) -> Byte]
        /\ Changed(StateIn(sent, base), state) \in SUBSET Nat
    BY <1>2, <1>5, <1>6, EncodeType
  <2>2. packet.cont \in UNION {[D -> Byte] : D \in SUBSET Nat}
    BY <2>1
  <2>3. Len(sent) + 1 \in Nat /\ Len(state) \in Nat
    BY <1>2, QueueFacts, LenProperties
  <2> QED
    BY <1>5, <2>2, <2>3 DEF DeltaPacket, StateDelta
<1>8. /\ delta_queue' \in Seq(DataState)
      /\ Len(delta_queue') = Len(delta_queue) + 1
      /\ \A n \in 1..Len(delta_queue) : delta_queue'[n] = delta_queue[n]
      /\ delta_queue'[Len(delta_queue) + 1] = pushed
  BY <1>1, <1>2, <1>4, AppendProperties
<1>9. /\ deltas' \in Seq(DeltaPacket)
      /\ Len(deltas') = Len(deltas) + 1
      /\ \A k \in 1..Len(deltas) : deltas'[k] = deltas[k]
      /\ deltas'[Len(deltas) + 1] = packet
  BY <1>1, <1>2, <1>7, AppendProperties
<1> HIDE DEF packet, pushed, base
<1>10. \A k \in 1..Len(deltas') : k \in 1..Len(deltas) \/ k = Len(deltas) + 1
  BY <1>2, <1>9
<1>11. \A k \in 1..Len(deltas') :
          /\ deltas'[k].epoch \in 1..Len(sent')
          /\ deltas'[k].total_bytes \in Nat
          /\ \A i \in DOMAIN deltas'[k].cont : deltas'[k].cont[i] \in Byte
          /\ applied < deltas'[k].epoch
          /\ \A j \in 1..(k - 1) : deltas'[j].epoch < deltas'[k].epoch
  <2> SUFFICES ASSUME NEW k \in 1..Len(deltas')
               PROVE  /\ deltas'[k].epoch \in 1..Len(sent')
                      /\ deltas'[k].total_bytes \in Nat
                      /\ \A i \in DOMAIN deltas'[k].cont :
                            deltas'[k].cont[i] \in Byte
                      /\ applied < deltas'[k].epoch
                      /\ \A j \in 1..(k - 1) :
                            deltas'[j].epoch < deltas'[k].epoch
    OBVIOUS
  <2>1. CASE k \in 1..Len(deltas)
    <3>1. /\ deltas[k].epoch \in 1..Len(sent) /\ applied < deltas[k].epoch
          /\ deltas[k].total_bytes \in Nat
          /\ \A j \in 1..(k - 1) : deltas[j].epoch < deltas[k].epoch
      BY <2>1, DeltaType
    <3>2. \A i \in DOMAIN deltas[k].cont : deltas[k].cont[i] \in Byte
      BY <2>1 DEF IInv, TypeOK
    <3>3. /\ deltas'[k] = deltas[k]
          /\ \A j \in 1..(k - 1) : deltas'[j] = deltas[j]
      BY <1>2, <1>9, <2>1
    <3>4. deltas[k].epoch \in 1..Len(sent')
      BY <1>3, <3>1, QueueFacts
    <3> QED
      BY <3>1, <3>2, <3>3, <3>4
  <2>2. CASE k = Len(deltas) + 1
    <3>1. deltas'[k] = packet
      BY <1>9, <2>2
    <3>2. \A j \in 1..(k - 1) : deltas'[j].epoch < Len(sent) + 1
      <4> TAKE j \in 1..(k - 1)
      <4>1. j \in 1..Len(deltas)
        BY <1>2, <2>2
      <4>2. deltas[j].epoch \in 1..Len(sent)
        BY <4>1, DeltaType
      <4> QED
        BY <1>9, <4>1, <4>2, QueueFacts
    <3>3. /\ Len(sent) + 1 \in 1..Len(sent') /\ applied < Len(sent) + 1
      BY <1>3, QueueFacts
    <3>4. packet.total_bytes \in Nat
      BY <1>7 DEF DeltaPacket
    <3>5. \A i \in DOMAIN packet.cont : packet.cont[i] \in Byte
      BY <1>7 DEF DeltaPacket
    <3> QED
      BY <1>5, <3>1, <3>2, <3>3, <3>4, <3>5
  <2> QED
    BY <1>10, <2>1, <2>2
<1>12. TypeOK'
  <2>1. confirmations' \in Seq(1..Len(sent'))
    <3>1. 1..Len(sent) \subseteq 1..Len(sent')
      BY <1>3, QueueFacts
    <3> QED
      BY <1>1, <1>2, <3>1, SeqMonotonic
  <2>2. applied' \in 0..Len(sent')
    BY <1>1, <1>3, QueueFacts
  <2> QED
    BY <1>1, <1>2, <1>3, <1>8, <1>11, <2>1, <2>2 DEF TypeOK, DataState
<1>13. \A n \in 1..Len(delta_queue') :
          /\ delta_queue'[n].epoch = Len(sent') - Len(delta_queue') + n
          /\ delta_queue'[n].data = StateIn(sent', delta_queue'[n].epoch)
  <2> TAKE n \in 1..Len(delta_queue')
  <2>1. CASE n \in 1..Len(delta_queue)
    <3>1. /\ delta_queue[n].epoch = Len(sent) - Len(delta_queue) + n
          /\ delta_queue[n].data = StateIn(sent, delta_queue[n].epoch)
      BY <2>1 DEF IInv, QueueIsHistory, StateAt
    <3>2. delta_queue[n].epoch \in 0..Len(sent)
      BY <2>1, <3>1, QueueFacts
    <3>3. delta_queue'[n] = delta_queue[n]
      BY <1>8, <2>1
    <3>4. Len(sent') - Len(delta_queue') = Len(sent) - Len(delta_queue)
      BY <1>3, <1>8, QueueFacts
    <3> QED
      BY <1>3, <3>1, <3>2, <3>3, <3>4
  <2>2. CASE n = Len(delta_queue) + 1
    <3>1. delta_queue'[n] = pushed
      BY <1>8, <2>2
    <3>2. Len(sent') - Len(delta_queue') + n = Len(sent) + 1
      BY <1>3, <1>8, <2>2, QueueFacts
    <3> QED
      BY <1>3, <1>4, <3>1, <3>2
  <2> QED
    BY <1>8, <2>1, <2>2, QueueFacts
<1>14. BaseWasApplied'
  <2>1. back(delta_queue)' = back(delta_queue)
    <3>1. delta_queue'[1] = delta_queue[1] /\ delta_queue' # << >>
      BY <1>8, QueueFacts, EmptySeq
    <3> QED
      BY <3>1 DEF back
  <2> QED
    BY <1>1, <2>1 DEF BaseWasApplied, IInv
<1>15. \A k \in 1..Len(deltas') : EncodedSince(deltas'[k], sent', applied)
  <2> TAKE k \in 1..Len(deltas')
  <2>1. CASE k \in 1..Len(deltas)
    <3>1. PICK b \in 0..applied :
             /\ deltas[k].cont = delta_encode(StateIn(sent, b),
                                              StateIn(sent, deltas[k].epoch))
             /\ deltas[k].total_bytes = Len(StateIn(sent, deltas[k].epoch))
      BY <2>1, InFlightForm DEF IInv, EncodedSince
    <3>2. b \in 0..Len(sent) /\ deltas[k].epoch \in 0..Len(sent)
      <4>1. deltas[k].epoch \in 1..Len(sent)
        BY <2>1, DeltaType
      <4> QED
        BY <4>1, QueueFacts
    <3>3. /\ StateIn(sent', b) = StateIn(sent, b)
          /\ StateIn(sent', deltas[k].epoch) = StateIn(sent, deltas[k].epoch)
      BY <1>3, <3>2
    <3> QED
      BY <1>9, <2>1, <3>1, <3>3 DEF EncodedSince
  <2>2. CASE k = Len(deltas) + 1
    <3>1. deltas'[k] = packet /\ StateIn(sent', base) = StateIn(sent, base)
      BY <1>3, <1>6, <1>9, <2>2
    <3> QED
      BY <1>3, <1>5, <1>6, <3>1 DEF EncodedSince
  <2> QED
    BY <1>10, <2>1, <2>2
<1>16. InFlightConsistent'
  <2>1. \A k \in 1..Len(confirmations') : confirmations'[k] <= applied'
    BY <1>1 DEF IInv, InFlightConsistent
  <2> QED
    BY <1>1, <1>11, <1>15, <2>1 DEF InFlightConsistent, EncodedSince, StateAt
<1>17. delta_queue' # << >>
  BY <1>8, QueueFacts, EmptySeq
<1>18. QueueIsHistory'
  BY <1>13 DEF QueueIsHistory, StateAt
<1> QED
  BY <1>9, <1>12, <1>14, <1>16, <1>17, <1>18 DEF IInv

LEMMA SuffixFacts ==
  ASSUME NEW S, NEW q \in Seq(S), NEW k \in 1..(Len(q) + 1)
  PROVE  LET rest == SubSeq(q, k, Len(q))
         IN  /\ rest \in Seq(S) /\ Len(rest) = Len(q) - k + 1
             /\ \A i \in 1..Len(rest) : rest[i] = q[k + i - 1]
             /\ \A i \in 1..Len(rest) : k + i - 1 \in 1..Len(q)
<1>1. Len(q) \in Nat
  BY LenProperties
<1>2. \A i \in k..Len(q) : q[i] \in S
  BY <1>1, ElementOfSeq
<1> QED
  BY <1>1, <1>2, SubSeqProperties

\* Confirming drops queue states only up to an epoch the client has applied.
LEMMA ConfirmKeepsIInv ==
  ASSUME IInv, NEW k \in 1..Len(confirmations),
         HandleStateDeltaConfirmation(k)
  PROVE  IInv'
<1> DEFINE c == confirmations[k]
<1>1. /\ delta_queue' = ReceiveConfirmation(delta_queue, c)
      /\ confirmations' = SubSeq(confirmations, k + 1, Len(confirmations))
      /\ UNCHANGED <<deltas, snapshot, applied, sent>>
  BY DEF HandleStateDeltaConfirmation
<1>2. /\ delta_queue \in Seq(DataState) /\ confirmations \in Seq(1..Len(sent))
      /\ Len(confirmations) \in Nat
  BY LenProperties DEF IInv, TypeOK, DataState
<1>3. c \in 1..Len(sent) /\ c <= applied
  BY <1>2, ElementOfSeq DEF IInv, InFlightConsistent
<1>4. PICK n \in 1..Len(delta_queue) :
         /\ ReceiveConfirmation(delta_queue, c)
               = SubSeq(delta_queue, n, Len(delta_queue))
         /\ delta_queue[n].epoch = IF c <= delta_queue[1].epoch
                                   THEN delta_queue[1].epoch ELSE c
  <2>1. c \in Nat /\ c <= front(delta_queue).epoch /\ Len(delta_queue) >= 1
    BY <1>3, QueueFacts
  <2> HIDE DEF c
  <2> QED
    BY <1>2, <2>1, QueueFacts, ReceiveConfirmationKeepsSuffix
<1> HIDE DEF c
<1>5. /\ delta_queue' \in Seq(DataState)
      /\ Len(delta_queue') = Len(delta_queue) - n + 1
      /\ \A i \in 1..Len(delta_queue') :
            /\ delta_queue'[i] = delta_queue[n + i - 1]
            /\ n + i - 1 \in 1..Len(delta_queue)
  <2>1. n \in 1..(Len(delta_queue) + 1)
    BY QueueFacts
  <2> QED
    BY <1>1, <1>2, <1>4, <2>1, SuffixFacts
<1>6. /\ confirmations' \in Seq(1..Len(sent))
      /\ \A i \in 1..Len(confirmations') : confirmations'[i] <= applied
  <2>1. k + 1 \in 1..(Len(confirmations) + 1)
    BY <1>2
  <2>2. /\ confirmations' \in Seq(1..Len(sent))
        /\ \A i \in 1..Len(confirmations') :
              /\ confirmations'[i] = confirmations[k + 1 + i - 1]
              /\ k + 1 + i - 1 \in 1..Len(confirmations)
    BY <1>1, <1>2, <2>1, SuffixFacts
  <2> QED
    BY <2>2 DEF IInv, InFlightConsistent
<1>7. delta_queue' # << >> /\ back(delta_queue)' = delta_queue[n]
  <2>1. 1 \in 1..Len(delta_queue')
    BY <1>5, QueueFacts
  <2>2. delta_queue' # << >>
    BY <2>1, EmptySeq
  <2>3. delta_queue'[1] = delta_queue[n]
    BY <1>5, <2>1, QueueFacts
  <2> QED
    BY <2>2, <2>3 DEF back
<1>8. BaseWasApplied'
  <2>1. delta_queue[1].epoch <= applied
    BY QueueFacts
  <2> QED
    BY <1>1, <1>3, <1>4, <1>7, <2>1 DEF BaseWasApplied
<1>9. \A i \in 1..Len(delta_queue') :
         /\ delta_queue'[i].epoch = Len(sent') - Len(delta_queue') + i
         /\ delta_queue'[i].data = StateIn(sent', delta_queue'[i].epoch)
  <2> TAKE i \in 1..Len(delta_queue')
  <2>1. /\ delta_queue'[i] = delta_queue[n + i - 1]
        /\ n + i - 1 \in 1..Len(delta_queue)
    BY <1>5
  <2>2. /\ delta_queue[n + i - 1].epoch
              = Len(sent) - Len(delta_queue) + (n + i - 1)
        /\ delta_queue[n + i - 1].data
              = StateIn(sent, delta_queue[n + i - 1].epoch)
    BY <2>1 DEF IInv, QueueIsHistory, StateAt
  <2>3. Len(sent) - Len(delta_queue) + (n + i - 1)
          = Len(sent) - Len(delta_queue') + i
    BY <1>5, QueueFacts
  <2> QED
    BY <1>1, <2>1, <2>2, <2>3
<1>10. QueueIsHistory'
  BY <1>9 DEF QueueIsHistory, StateAt
<1>11. TypeOK' /\ deltas' \in Seq(DeltaPacket)
  BY <1>1, <1>5, <1>6 DEF IInv, TypeOK, DataState
<1>12. InFlightConsistent'
  BY <1>1, <1>6 DEF IInv, InFlightConsistent, StateAt, StateIn
<1> QED
  BY <1>7, <1>8, <1>10, <1>11, <1>12 DEF IInv

LEMMA DeltaKeepsIInv ==
  ASSUME IInv, NEW k \in 1..Len(deltas), HandleStateDelta(k)
  PROVE  IInv'
<1> DEFINE packet == deltas[k]
<1>1. /\ snapshot' = delta_apply(snapshot, packet.cont, packet.total_bytes)
      /\ confirmations' = Append(confirmations, packet.epoch)
      /\ applied' = packet.epoch
      /\ deltas' = SubSeq(deltas, k + 1, Len(deltas))
      /\ UNCHANGED <<delta_queue, sent>>
  BY DEF HandleStateDelta, Confirmed, Undelivered
<1>2. /\ packet.epoch \in 1..Len(sent) /\ packet.total_bytes \in Nat
      /\ applied < packet.epoch
      /\ \E D \in SUBSET Nat : packet.cont \in [D -> Byte]
  BY DeltaType
<1>3. /\ deltas \in Seq(DeltaPacket) /\ Len(deltas) \in Nat
      /\ confirmations \in Seq(1..Len(sent)) /\ Len(confirmations) \in Nat
      /\ snapshot \in Seq(Byte)
  BY LenProperties DEF IInv, TypeOK
<1>4. snapshot' \in Seq(Byte)
  <2> HIDE DEF packet
  <2> QED
    BY <1>1, <1>2, <1>3, ApplyType
<1>5. /\ confirmations' \in Seq(1..Len(sent))
      /\ \A i \in 1..Len(confirmations') : confirmations'[i] <= packet.epoch
  <2> HIDE DEF packet
  <2>1. /\ confirmations' \in Seq(1..Len(sent))
        /\ Len(confirmations') = Len(confirmations) + 1
        /\ \A i \in 1..Len(confirmations) : confirmations'[i] = confirmations[i]
        /\ confirmations'[Len(confirmations) + 1] = packet.epoch
    BY <1>1, <1>2, <1>3, AppendProperties
  <2>2. ASSUME NEW i \in 1..Len(confirmations')
        PROVE  confirmations'[i] <= packet.epoch
    <3>1. CASE i \in 1..Len(confirmations)
      <4>1. confirmations[i] <= applied /\ confirmations[i] \in 1..Len(sent)
        BY <1>3, <3>1, ElementOfSeq DEF IInv, InFlightConsistent
      <4>2. applied < packet.epoch /\ applied \in Nat /\ packet.epoch \in Nat
        BY <1>2, QueueFacts
      <4>3. confirmations'[i] = confirmations[i]
        BY <2>1, <3>1
      <4>4. Len(sent) \in Nat
        BY QueueFacts
      <4> QED
        BY <4>1, <4>2, <4>3, <4>4
    <3>2. CASE i = Len(confirmations) + 1
      BY <1>2, <2>1, <3>2
    <3> QED
      BY <1>3, <2>1, <3>1, <3>2
  <2> QED
    BY <2>1, <2>2
<1>6. /\ deltas' \in Seq(DeltaPacket) /\ Len(deltas') = Len(deltas) - k
      /\ \A i \in 1..Len(deltas') :
            /\ deltas'[i] = deltas[k + i]
            /\ k + i \in 1..Len(deltas) /\ k \in 1..((k + i) - 1)
  <2>1. k + 1 \in 1..(Len(deltas) + 1)
    BY <1>3
  <2>2. /\ deltas' \in Seq(DeltaPacket) /\ Len(deltas') = Len(deltas) - (k + 1) + 1
        /\ \A i \in 1..Len(deltas') :
              /\ deltas'[i] = deltas[(k + 1) + i - 1]
              /\ (k + 1) + i - 1 \in 1..Len(deltas)
    BY <1>1, <1>3, <2>1, SuffixFacts
  <2>3. \A i \in 1..Len(deltas') : (k + 1) + i - 1 = k + i
    BY <1>3, <2>2
  <2> QED
    BY <1>3, <2>2, <2>3
<1>7. \A i \in 1..Len(deltas') :
         /\ deltas'[i].epoch \in 1..Len(sent)
         /\ deltas'[i].total_bytes \in Nat
         /\ \A j \in DOMAIN deltas'[i].cont : deltas'[i].cont[j] \in Byte
         /\ packet.epoch < deltas'[i].epoch
         /\ \A j \in 1..(i - 1) : deltas'[j].epoch < deltas'[i].epoch
         /\ EncodedSince(deltas'[i], sent, packet.epoch)
  <2> TAKE i \in 1..Len(deltas')
  <2>1. /\ deltas'[i] = deltas[k + i]
        /\ k + i \in 1..Len(deltas) /\ k \in 1..((k + i) - 1)
    BY <1>6
  <2>2. /\ deltas[k + i].epoch \in 1..Len(sent)
        /\ deltas[k + i].total_bytes \in Nat
        /\ \A j \in DOMAIN deltas[k + i].cont : deltas[k + i].cont[j] \in Byte
    BY <2>1 DEF IInv, TypeOK
  <2>3. \A j \in 1..((k + i) - 1) : deltas[j].epoch < deltas[k + i].epoch
    BY <2>1, DeltaType
  <2>4. \A j \in 1..(i - 1) : deltas'[j].epoch < deltas'[i].epoch
    <3> TAKE j \in 1..(i - 1)
    <3>1. j \in 1..Len(deltas') /\ k + j \in 1..((k + i) - 1)
      BY <1>3, <1>6
    <3>2. deltas'[j] = deltas[k + j]
      BY <1>6, <3>1
    <3> QED
      BY <2>1, <2>3, <3>1, <3>2
  <2>5. EncodedSince(deltas[k + i], sent, packet.epoch)
    <3>1. EncodedSince(deltas[k + i], sent, applied)
      BY <2>1, InFlightForm DEF IInv
    <3>2. \A b \in 0..applied : b \in 0..packet.epoch
      BY <1>2, QueueFacts
    <3> QED
      BY <3>1, <3>2 DEF EncodedSince
  <2> QED
    BY <2>1, <2>2, <2>3, <2>4, <2>5
<1> HIDE DEF packet
<1>8. TypeOK'
  <2>1. /\ delta_queue' \in Seq([epoch : Nat, data : Seq(Byte)])
        /\ sent' \in Seq(States)
    BY <1>1 DEF IInv, TypeOK
  <2>2. applied' \in 0..Len(sent')
    BY <1>1, <1>2, QueueFacts
  <2> QED
    BY <1>1, <1>4, <1>5, <1>7, <2>1, <2>2 DEF TypeOK
<1>9. QueueIsHistory' /\ delta_queue' # << >>
  BY <1>1 DEF IInv, QueueIsHistory, StateAt, StateIn
<1>10. BaseWasApplied'
  <2>1. back(delta_queue).epoch \in 0..applied
    BY QueueFacts
  <2> QED
    BY <1>1, <1>2, <2>1, QueueFacts DEF BaseWasApplied
<1>11. InFlightConsistent'
  BY <1>1, <1>5, <1>7 DEF InFlightConsistent, EncodedSince, StateAt
<1> QED
  BY <1>6, <1>8, <1>9, <1>10, <1>11 DEF IInv

LEMMA StutterKeepsIInv == IInv /\ UNCHANGED vars => IInv'
BY DEF IInv, TypeOK, QueueIsHistory, BaseWasApplied, InFlightConsistent,
       StateAt, StateIn, back, vars

LEMMA NextKeepsIInv == IInv /\ [Next]_vars => IInv'
<1> SUFFICES ASSUME IInv, [Next]_vars PROVE IInv'
  OBVIOUS
<1>1. CASE Send
  BY <1>1, SendKeepsIInv DEF Send
<1>2. CASE ReceiveDelta
  BY <1>2, DeltaKeepsIInv DEF ReceiveDelta
<1>3. CASE ReceiveConfirm
  BY <1>3, ConfirmKeepsIInv DEF ReceiveConfirm
<1>4. CASE UNCHANGED vars
  BY <1>4, StutterKeepsIInv
<1> QED
  BY <1>1, <1>2, <1>3, <1>4 DEF Next

\* The inductive invariant holds of every execution.
THEOREM InductiveInvariant == Spec => []IInv
BY InitIInv, NextKeepsIInv, PTL DEF Spec

\* The queue, the packets in flight and the snapshot keep their types, however
\* many states are sent: no message handler of server.cpp or client.cpp
\* builds a packet or a queue entry out of range.
THEOREM TypeCorrect == Spec => []TypeOK
<1>1. IInv => TypeOK
  BY DEF IInv
<1> QED
  BY <1>1, InductiveInvariant, PTL

\* The assertion of ReceiveConfirmation never fails, and GetStateDelta, which
\* reads the front and the back of the queue, never finds it empty.
THEOREM AssertionHolds == Spec => []ConfirmationsNotAhead
<1>1. IInv => ConfirmationsNotAhead
  <2> SUFFICES ASSUME IInv, NEW k \in 1..Len(confirmations)
               PROVE  confirmations[k] <= front(delta_queue).epoch
    BY DEF IInv, ConfirmationsNotAhead
  <2>1. confirmations[k] \in 1..Len(sent)
    BY ElementOfSeq DEF IInv, TypeOK
  <2> QED
    BY <2>1, QueueFacts
<1> QED
  BY <1>1, InductiveInvariant, PTL

\* Whatever confirmations are lost, the queue is a gapless end of the history,
\* its oldest state is one the client has been through, and every delta in
\* flight takes such a state to the state of its own epoch.
THEOREM BasesAreReal ==
    Spec => [](QueueIsHistory /\ BaseWasApplied /\ InFlightConsistent)
<1>1. IInv => QueueIsHistory /\ BaseWasApplied /\ InFlightConsistent
  BY DEF IInv
<1> QED
  BY <1>1, InductiveInvariant, PTL

-----------------------------------------------------------------------------
(* What replication gives although the receiver forgets the bases. *)

\* A cell that the delta from b to e leaves alone has one value at b and e; if
\* it never returns to a value it has the same one at every epoch between.
LEMMA UnchangedCellStays ==
  ASSUME NEW i, NEW b \in 0..Len(sent), NEW f \in 0..Len(sent),
         NEW e \in 0..Len(sent), Len(sent) \in Nat, b <= f, f < e,
         NeverReturns(i),
         i \in DOMAIN StateAt(e), i \notin Changed(StateAt(b), StateAt(e))
  PROVE  Cell(StateAt(f), i) = <<StateAt(e)[i]>>
<1>1. i \in DOMAIN StateAt(b) /\ StateAt(b)[i] = StateAt(e)[i]
  BY DEF Changed
<1>2. /\ Cell(StateAt(b), i) = <<StateAt(e)[i]>>
      /\ Cell(StateAt(e), i) = <<StateAt(e)[i]>>
  BY <1>1 DEF Cell
<1>3. CASE b = f
  BY <1>2, <1>3
<1>4. CASE b # f
  <2>1. b < f
    BY <1>4
  <2> QED
    BY <1>2, <2>1 DEF NeverReturns
<1> QED
  BY <1>3, <1>4

\* What taking a packet does, cell by cell: b is the epoch the delta was made from.
LEMMA AppliedCells ==
  ASSUME IInv, NEW k \in 1..Len(deltas), HandleStateDelta(k)
  PROVE  LET e   == deltas[k].epoch
             new == StateAt(e)
         IN  /\ applied' = e /\ sent' = sent
             /\ e \in 1..Len(sent) /\ applied < e /\ applied \in 0..Len(sent)
             /\ Len(sent) \in Nat
             /\ DOMAIN snapshot' = DOMAIN new
             /\ \E b \in 0..applied : \A i \in DOMAIN new :
                   snapshot'[i] = IF i \in Changed(StateAt(b), new) THEN new[i]
                                  ELSE IF i \in DOMAIN snapshot THEN snapshot[i]
                                  ELSE Fresh
<1> DEFINE packet == deltas[k]
           e      == deltas[k].epoch
           new    == StateAt(e)
<1>1. /\ snapshot' = delta_apply(snapshot, packet.cont, packet.total_bytes)
      /\ applied' = e /\ sent' = sent
  BY DEF HandleStateDelta, Confirmed, Undelivered
<1>2. PICK b \in 0..applied :
         /\ packet.cont = delta_encode(StateAt(b), new)
         /\ packet.total_bytes = Len(new)
  BY DEF IInv, InFlightConsistent
<1>3. /\ e \in 0..Len(sent) /\ applied < e /\ e \in 1..Len(sent)
      /\ applied \in 0..Len(sent) /\ Len(sent) \in Nat
  BY QueueFacts, DeltaType
<1>4. new \in Seq(Byte)
  BY <1>3, StateInType DEF StateAt, IInv, TypeOK
<1>5. DOMAIN new = 1..Len(new) /\ Len(new) \in Nat
  BY <1>4, LenProperties
<1> HIDE DEF packet, e
<1>6. /\ DOMAIN packet.cont = Changed(StateAt(b), new)
      /\ \A i \in Changed(StateAt(b), new) : packet.cont[i] = new[i]
  BY <1>2 DEF delta_encode
<1>7. snapshot' = [i \in DOMAIN new |->
                     IF i \in DOMAIN packet.cont THEN packet.cont[i]
                     ELSE IF i \in DOMAIN snapshot THEN snapshot[i]
                     ELSE Fresh]
  BY <1>1, <1>2, <1>5 DEF delta_apply
<1> HIDE DEF new
<1>8. /\ DOMAIN snapshot' = DOMAIN new
      /\ \A i \in DOMAIN new :
            snapshot'[i] = IF i \in Changed(StateAt(b), new) THEN new[i]
                           ELSE IF i \in DOMAIN snapshot THEN snapshot[i]
                           ELSE Fresh
  BY <1>6, <1>7
<1> QED
  BY <1>1, <1>3, <1>8 DEF e, new

LEMMA ApplyKeepsExact ==
  ASSUME IInv, ExactWhereNeverReturning,
         NEW k \in 1..Len(deltas), HandleStateDelta(k)
  PROVE  ExactWhereNeverReturning'
<1> DEFINE e   == deltas[k].epoch
           new == StateAt(e)
<1>1. /\ applied' = e /\ sent' = sent
      /\ e \in 1..Len(sent) /\ applied < e /\ applied \in 0..Len(sent)
      /\ Len(sent) \in Nat
      /\ DOMAIN snapshot' = DOMAIN new
  BY AppliedCells
<1>2. PICK b \in 0..applied : \A i \in DOMAIN new :
         snapshot'[i] = IF i \in Changed(StateAt(b), new) THEN new[i]
                        ELSE IF i \in DOMAIN snapshot THEN snapshot[i]
                        ELSE Fresh
  BY AppliedCells
<1> HIDE DEF e
<1>3. e \in 0..Len(sent) /\ b \in 0..Len(sent) /\ b <= applied
  BY <1>1
<1>4. /\ DOMAIN snapshot' = DOMAIN new
      /\ \A i \in DOMAIN new :
            snapshot'[i] = IF i \in Changed(StateAt(b), new) THEN new[i]
                           ELSE IF i \in DOMAIN snapshot THEN snapshot[i]
                           ELSE Fresh
  BY <1>1, <1>2
<1>5. \A i : NeverReturns(i)' <=> NeverReturns(i)
  BY <1>1 DEF NeverReturns, StateAt, StateIn
<1>6. StateAt(applied)' = new
  BY <1>1 DEF StateAt
<1>7. ASSUME NEW i \in DOMAIN new, NeverReturns(i)
      PROVE  snapshot'[i] = new[i]
  <2>1. CASE i \in Changed(StateAt(b), new)
    BY <1>4, <2>1
  <2>2. CASE i \notin Changed(StateAt(b), new)
    <3>1. Cell(StateAt(applied), i) = <<new[i]>>
      BY <1>1, <1>3, <1>7, <2>2, UnchangedCellStays
    <3> HIDE DEF new
    <3>2. i \in DOMAIN StateAt(applied)
      BY <3>1 DEF Cell
    <3>3. Cell(snapshot, i) = <<new[i]>>
      BY <1>7, <3>1, <3>2 DEF ExactWhereNeverReturning
    <3>4. i \in DOMAIN snapshot /\ snapshot[i] = new[i]
      BY <3>3 DEF Cell
    <3> QED
      BY <1>4, <2>2, <3>4
  <2> QED
    BY <2>1, <2>2
<1> HIDE DEF new
<1>8. \A i \in DOMAIN new : NeverReturns(i) => Cell(snapshot', i) = Cell(new, i)
  BY <1>4, <1>7 DEF Cell
<1>9. \A i \in DOMAIN snapshot' \union DOMAIN StateAt(applied)' :
          NeverReturns(i)' => Cell(snapshot', i) = Cell(StateAt(applied)', i)
  BY <1>4, <1>5, <1>6, <1>8
<1> QED
  BY <1>9 DEF ExactWhereNeverReturning, Cell

LEMMA SendKeepsExact ==
  ASSUME IInv, ExactWhereNeverReturning, NEW state \in States,
         send_deltas(state)
  PROVE  ExactWhereNeverReturning'
<1>1. /\ sent' = Append(sent, state) /\ snapshot' = snapshot
      /\ applied' = applied
  BY DEF send_deltas
<1>2. /\ Len(sent') = Len(sent) + 1
      /\ \A e \in 0..Len(sent) : StateIn(sent', e) = StateIn(sent, e)
  BY <1>1, AppendExtendsHistory DEF IInv, TypeOK
<1>3. /\ Len(sent) \in Nat /\ applied \in 0..Len(sent)
      /\ \A e \in 0..Len(sent) : e \in 0..Len(sent')
  BY <1>2, QueueFacts
<1>4. ASSUME NEW i, NeverReturns(i)'
      PROVE  NeverReturns(i)
  <2> SUFFICES ASSUME NEW e \in 0..Len(sent), NEW f \in 0..Len(sent),
                      NEW g \in 0..Len(sent), e < f, f < g,
                      Cell(StateIn(sent, e), i) = Cell(StateIn(sent, g), i)
               PROVE  Cell(StateIn(sent, f), i) = Cell(StateIn(sent, e), i)
    BY DEF NeverReturns, StateAt
  <2>1. Cell(StateIn(sent', f), i) = Cell(StateIn(sent', e), i)
    BY <1>2, <1>3, <1>4 DEF NeverReturns, StateAt, Cell
  <2> QED
    BY <1>2, <2>1
<1>5. StateIn(sent', applied') = StateIn(sent, applied)
  BY <1>1, <1>2, <1>3
<1> QED
  BY <1>1, <1>4, <1>5 DEF ExactWhereNeverReturning, StateAt, Cell

\* Under any loss, a cell that never returns to a value it has left is exact at
\* the epoch the client has confirmed (the deltas applied to the newest
\* snapshot, client.cpp:101, go wrong only on cells that return).
THEOREM ReplicationIsExact == Spec => []ExactWhereNeverReturning
<1>1. Init => ExactWhereNeverReturning
  BY DEF Init, ExactWhereNeverReturning, StateAt, StateIn, Cell
<1>2. IInv /\ ExactWhereNeverReturning /\ [Next]_vars
        => ExactWhereNeverReturning'
  <2> SUFFICES ASSUME IInv, ExactWhereNeverReturning, [Next]_vars
               PROVE  ExactWhereNeverReturning'
    OBVIOUS
  <2>1. CASE Send
    BY <2>1, SendKeepsExact DEF Send
  <2>2. CASE ReceiveDelta
    BY <2>2, ApplyKeepsExact DEF ReceiveDelta
  <2>3. CASE ReceiveConfirm \/ UNCHANGED vars
    <3>1. UNCHANGED <<snapshot, applied, sent>>
      BY <2>3 DEF ReceiveConfirm, HandleStateDeltaConfirmation, vars
    <3> QED
      BY <3>1 DEF ExactWhereNeverReturning, NeverReturns, StateAt, StateIn,
                  Cell
  <2> QED
    BY <2>1, <2>2, <2>3 DEF Next
<1> QED
  BY <1>1, <1>2, InductiveInvariant, PTL DEF Spec

\* The client's epoch and the base epoch of the server only move forward: a
\* step takes a packet newer than the last one, and a confirmation that
\* overtook a later one leaves the queue alone.
THEOREM EpochsOnlyRise == Spec => EpochsNeverGoBack
<1> DEFINE Forward == /\ applied' >= applied
                      /\ back(delta_queue').epoch >= back(delta_queue).epoch
<1>1. ASSUME IInv, IInv', Next PROVE Forward
  <2>1. /\ applied \in Nat /\ back(delta_queue).epoch \in Nat
    BY <1>1, QueueFacts
  <2>2. CASE Send
    <3>1. PICK state \in States : send_deltas(state)
      BY <2>2 DEF Send
    <3>2. delta_queue' = Append(delta_queue, [epoch |-> front(delta_queue).epoch + 1,
                                              data  |-> state])
          /\ applied' = applied
      BY <3>1 DEF send_deltas, PushState
    <3>3. delta_queue \in Seq(DataState) /\ Len(delta_queue) \in Nat \ {0}
      BY <1>1, QueueFacts DEF IInv, TypeOK, DataState
    <3>4. delta_queue'[1] = delta_queue[1]
      <4>1. front(delta_queue).epoch + 1 \in Nat /\ state \in Seq(Byte)
        BY <1>1, QueueFacts, StatesAssumption
      <4>2. [epoch |-> front(delta_queue).epoch + 1, data |-> state] \in DataState
        BY <4>1 DEF DataState
      <4> QED
        BY <3>2, <3>3, <4>2, AppendProperties
    <3>5. delta_queue' \in Seq(DataState) /\ delta_queue' # << >>
      BY <1>1 DEF IInv, TypeOK, DataState
    <3>6. back(delta_queue') = back(delta_queue)
      BY <3>3, <3>4, <3>5 DEF back
    <3> QED
      BY <2>1, <3>2, <3>6
  <2>3. CASE ReceiveDelta
    <3>1. PICK k \in 1..Len(deltas) : HandleStateDelta(k)
      BY <2>3 DEF ReceiveDelta
    <3>2. /\ applied' = deltas[k].epoch /\ delta_queue' = delta_queue
      BY <3>1 DEF HandleStateDelta, Confirmed, Undelivered
    <3>3. applied < deltas[k].epoch /\ deltas[k].epoch \in 1..Len(sent)
      BY <1>1, DeltaType
    <3> QED
      BY <2>1, <3>2, <3>3, <1>1, QueueFacts
  <2>4. CASE ReceiveConfirm
    <3>1. PICK k \in 1..Len(confirmations) : HandleStateDeltaConfirmation(k)
      BY <2>4 DEF ReceiveConfirm
    <3>2. /\ delta_queue' = ReceiveConfirmation(delta_queue, confirmations[k])
          /\ applied' = applied
      BY <3>1 DEF HandleStateDeltaConfirmation
    <3>3. PICK n \in 1..Len(delta_queue) :
             ReceiveConfirmation(delta_queue, confirmations[k])
               = SubSeq(delta_queue, n, Len(delta_queue))
      <4>1. confirmations[k] \in 1..Len(sent)
        BY <1>1, ElementOfSeq DEF IInv, TypeOK
      <4>2. /\ confirmations[k] \in Nat
            /\ confirmations[k] <= front(delta_queue).epoch
            /\ Len(delta_queue) >= 1
        BY <1>1, <4>1, QueueFacts
      <4>3. delta_queue \in Seq(DataState)
        BY <1>1 DEF IInv, TypeOK, DataState
      <4> QED
        BY <1>1, <4>2, <4>3, QueueFacts, ReceiveConfirmationKeepsSuffix
    <3>4. delta_queue' \in Seq(DataState) /\ delta_queue' # << >>
      BY <1>1 DEF IInv, TypeOK, DataState
    <3>5. back(delta_queue') = delta_queue'[1] /\ Len(delta_queue') >= 1
      BY <3>4, LenProperties, EmptySeq DEF back
    <3>6. delta_queue'[1] = delta_queue[n]
      <4>1. delta_queue \in Seq(DataState) /\ n \in 1..(Len(delta_queue) + 1)
        BY <1>1, QueueFacts DEF IInv, TypeOK, DataState
      <4>2. \A i \in 1..Len(delta_queue') : delta_queue'[i] = delta_queue[n + i - 1]
        BY <3>2, <3>3, <4>1, SuffixFacts
      <4>3. 1 \in 1..Len(delta_queue') /\ n + 1 - 1 = n
        BY <1>1, <3>4, <3>5, LenProperties, QueueFacts
      <4> QED
        BY <4>2, <4>3
    <3>7. delta_queue[n].epoch >= back(delta_queue).epoch
      BY <1>1, QueueFacts DEF Consecutive
    <3> QED
      BY <2>1, <3>2, <3>5, <3>6, <3>7
  <2> QED
    BY <1>1, <2>2, <2>3, <2>4 DEF Next
<1>2. IInv /\ IInv' /\ [Next]_vars => [Forward]_vars
  BY <1>1
<1> QED
  BY <1>2, InductiveInvariant, PTL DEF Spec, EpochsNeverGoBack

-----------------------------------------------------------------------------
(* Replication implements Replica. *)

\* Taking a packet is catching up with its epoch: a cell the delta leaves out had its
\* value at the delta's base, which is not beyond what the client has got to.
LEMMA ApplyRefines ==
  ASSUME IInv, NEW k \in 1..Len(deltas), HandleStateDelta(k)
  PROVE  \E e \in 1..Len(sent) : R!CatchUp(e)
<1> DEFINE e   == deltas[k].epoch
           new == StateAt(e)
<1>1. /\ applied' = e /\ sent' = sent
      /\ e \in 1..Len(sent) /\ applied < e /\ applied \in 0..Len(sent)
      /\ Len(sent) \in Nat
      /\ DOMAIN snapshot' = DOMAIN new
  BY AppliedCells
<1>2. PICK b \in 0..applied : \A i \in DOMAIN new :
         snapshot'[i] = IF i \in Changed(StateAt(b), new) THEN new[i]
                        ELSE IF i \in DOMAIN snapshot THEN snapshot[i]
                        ELSE Fresh
  BY AppliedCells
<1> HIDE DEF e
<1>3. new = sent[e]
  BY <1>1 DEF StateAt, StateIn
<1>4. ASSUME NEW i \in DOMAIN new, i \notin Changed(StateAt(b), new)
      PROVE  snapshot'[i] = R!Held(i) /\ R!SeenBefore(i, new[i])
  <2>1. i \in DOMAIN StateAt(b) /\ StateAt(b)[i] = new[i]
    BY <1>4 DEF Changed
  <2>2. b # 0
    BY <2>1 DEF StateAt, StateIn
  <2>3. b \in 1..applied /\ StateAt(b) = sent[b]
    BY <1>1, <2>2 DEF StateAt, StateIn
  <2> HIDE DEF new
  <2> QED
    BY <1>2, <1>4, <2>1, <2>3 DEF R!Held, R!SeenBefore
<1>5. \A i \in DOMAIN new : \/ snapshot'[i] = new[i]
                            \/ snapshot'[i] = R!Held(i) /\ R!SeenBefore(i, new[i])
  <2> HIDE DEF new
  <2> QED
    BY <1>2, <1>4
<1> QED
  BY <1>1, <1>3, <1>5 DEF R!CatchUp

\* Whatever is lost, what the client has is a state sent later than the last
\* one, save cells whose right value it had been sent before: the deque, the
\* deltas against its back and the confirmations implement Replica.
THEOREM ImplementsAReplica == Spec => ImplementsReplica
<1>1. Init => R!Init
  BY DEF Init, R!Init
<1>2. IInv /\ [Next]_vars => [R!Next]_(R!vars)
  <2> SUFFICES ASSUME IInv, [Next]_vars PROVE [R!Next]_(R!vars)
    OBVIOUS
  <2>1. CASE Send
    BY <2>1 DEF Send, send_deltas, R!Next, R!Publish
  <2>2. CASE ReceiveDelta
    BY <2>2, ApplyRefines DEF ReceiveDelta, R!Next
  <2>3. CASE ReceiveConfirm \/ UNCHANGED vars
    BY <2>3 DEF ReceiveConfirm, HandleStateDeltaConfirmation, vars, R!vars
  <2> QED
    BY <2>1, <2>2, <2>3 DEF Next
<1> QED
  BY <1>1, <1>2, InductiveInvariant, PTL DEF Spec, ImplementsReplica, R!Spec
=============================================================================
