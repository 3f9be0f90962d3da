------------------------------ MODULE WorldProofs ------------------------------
(* Proofs about World, for any players, bots, sizes and number of ids. *)
EXTENDS World, SequenceTheorems, FiniteSetTheorems, WellFoundedInduction, TLAPS

\* How many entities ago an id was given out.
Age(id) ==
    IF id < firstFreeId THEN firstFreeId - id ELSE firstFreeId - id + kInvalidId

GoodIds == 0..kInvalidId - 1

Body == [id : GoodIds, size : Nat, vel : Velocity]

Distinct(es) == \A i, j \in 1..Len(es) : es[i].id = es[j].id => i = j

\* An entity that there is already, on its course unless it is a bot.
Own(e) ==
    \E i \in 1..Len(entities_) :
       /\ entities_[i].id = e.id
       /\ e.id \in botTargets_ \/ entities_[i].vel = e.vel

EntitiesOk == entities_ \in Seq(Body) /\ Distinct(entities_) /\ WorldIsAlive

\* The ids in use are among the last `created` ones, so that the next one, which was
\* given out kInvalidId entities ago or never, is none of them.
Used == LiveIds \union botTargets_ \union {entityId[c] : c \in Playing}

IdsOk ==
    /\ firstFreeId \in GoodIds /\ created \in kBots..MaxCreated
    /\ entityId \in [Clients -> Ids]
    /\ botTargets_ \subseteq GoodIds
    /\ \A id \in Used : Age(id) <= created
    /\ \A c, d \in Playing : entityId[c] = entityId[d] => c = d
    /\ \A c \in Playing : entityId[c] \notin botTargets_

State == [epoch : Nat, data : Velocity \union {<< >>}]

Packet == [epoch : Nat, total_bytes : Nat,
           cont : UNION {[D -> Byte] : D \in SUBSET (1..VelSize)}]

\* The velocity of an epoch; epoch 0 is the empty state of a new queue.
At(hist, e) == IF e = 0 THEN << >> ELSE hist[e]

\* An input under way that is newer than the one applied last: it has the bytes of the
\* velocity sent, but for those that an input which was applied has had as well.
InputOk(packet, hist, applied) ==
    /\ packet.total_bytes = VelSize
    /\ applied < packet.epoch /\ packet.epoch <= Len(hist)
    /\ \A i \in 1..VelSize :
          IF i \in DOMAIN packet.cont THEN packet.cont[i] = hist[packet.epoch][i]
          ELSE \E e \in 1..applied : hist[e][i] = hist[packet.epoch][i]

\* A queue holds the velocities sent since its oldest epoch.
QueueOk(q, hist) ==
    /\ Len(q) >= 1
    /\ \A n \in 1..Len(q) : /\ q[n].epoch = Len(hist) - Len(q) + n
                            /\ q[n].data = At(hist, q[n].epoch)

\* One player's inputs from end to end: the oldest one kept has been applied, and
\* only what has been applied is confirmed.
LineOk(q, hist, applied, srv, cl) ==
    /\ QueueOk(q, hist) /\ q[1].epoch <= applied /\ applied <= Len(hist)
    /\ \A k \in 1..Len(srv) : InputOk(srv[k], hist, applied)
    /\ \A j, k \in 1..Len(srv) : j < k => srv[j].epoch < srv[k].epoch
    /\ \A k \in 1..Len(cl) : cl[k] <= applied

Line(c) == LineOk(queue[c], chosen[c], got[c], to_server[c], to_client[c])

InputTypes ==
    /\ queue \in [Clients -> Seq(State)]
    /\ chosen \in [Clients -> Seq(Speeds)] /\ got \in [Clients -> Nat]
    /\ to_server \in [Clients -> Seq(Packet)] /\ to_client \in [Clients -> Seq(Nat)]

InputsOk == InputTypes /\ inputs \in 0..MaxInputs /\ \A c \in Clients : Line(c)

IInv == EntitiesOk /\ IdsOk /\ InputsOk

-----------------------------------------------------------------------------
(* Loops *)

\* Every set of natural numbers has a least element.
LEMMA LeastElement ==
  ASSUME NEW T, T \subseteq Nat, T # {}
  PROVE  Min(T) \in T /\ \A y \in T : Min(T) <= y
<1> DEFINE Upto(n) == 0..n
           F == {S \in FiniteSubsetsOf(Nat) : \E n \in T : S = Upto(n)}
           R == StrictSubsetOrdering(Nat)
<1>1. \A n \in T : Upto(n) \in F
  BY FS_Interval DEF FiniteSubsetsOf
<1>2. \E S \in F : \A V \in F : ~(<<V, S>> \in R)
  <2>1. IsWellFoundedOn(R, FiniteSubsetsOf(Nat))
    BY FS_StrictSubsetOrderingWellFounded
  <2>2. F \subseteq FiniteSubsetsOf(Nat) /\ F # {}
    BY <1>1
  <2> HIDE DEF F, R
  <2> QED
    BY <2>1, <2>2, WFMin
<1>3. PICK n \in T : \A m \in T : ~(<<Upto(m), Upto(n)>> \in R)
  BY <1>1, <1>2
<1>4. \A m \in T : n <= m
  <2>1. SUFFICES ASSUME NEW m \in T, m < n
                 PROVE  FALSE
    OBVIOUS
  <2>2. Upto(m) \subseteq Upto(n) /\ n \in Upto(n) /\ n \notin Upto(m)
    BY <2>1
  <2>3. <<Upto(m), Upto(n)>> \in R
    BY <2>2 DEF StrictSubsetOrdering
  <2> QED
    BY <1>3, <2>3
<1> QED
  BY <1>4 DEF Min

\* A set that has 0, and after each round the next number, has all of them.
LEMMA RoundByRound ==
  ASSUME NEW N \in Nat, NEW T, 0 \in T, \A k \in 1..N : k - 1 \in T => k \in T
  PROVE  \A k \in 0..N : k \in T
<1> DEFINE Missing == {k \in 0..N : k \notin T}
<1> SUFFICES ASSUME Missing # {}
             PROVE  FALSE
  OBVIOUS
<1>1. Missing \subseteq Nat
  OBVIOUS
<1> DEFINE m == Min(Missing)
<1>2. m \in Missing /\ \A k \in Missing : m <= k
  <2> HIDE DEF Missing
  <2> QED
    BY <1>1, LeastElement
<1> HIDE DEF m
<1>3. m \in 1..N /\ m \notin T
  BY <1>2
<1>4. m - 1 \in 0..N /\ ~(m <= m - 1)
  BY <1>3
<1>5. m - 1 \in T
  BY <1>2, <1>4
<1> QED
  BY <1>3, <1>5

\* What a loop has after each of N rounds, when it starts with a.
Runs(f, a, step, N) == f[0] = a /\ \A k \in 1..N : f[k] = step[k][f[k - 1]]

\* A loop that starts with a value of S and does not leave S in any of its rounds
\* has a value after each of them.
LEMMA LoopExists ==
  ASSUME NEW N \in Nat, NEW S, NEW a \in S, NEW step \in [1..N -> [S -> S]]
  PROVE  \E f \in [0..N -> S] : Runs(f, a, step, N)
<1> DEFINE Is(f, m) == f[0] = a /\ \A k \in 1..m : f[k] = step[k][f[k - 1]]
           T == {m \in 0..N : \E f \in [0..m -> S] : Is(f, m)}
<1>1. 0 \in T
  <2> DEFINE f == [k \in 0..0 |-> a]
  <2>1. f \in [0..0 -> S] /\ Is(f, 0)
    OBVIOUS
  <2> HIDE DEF f, Is
  <2> QED
    BY <2>1
<1>2. ASSUME NEW m \in 1..N, m - 1 \in T
      PROVE  m \in T
  <2>1. PICK f \in [0..m - 1 -> S] : Is(f, m - 1)
    BY <1>2
  <2> DEFINE g == [k \in 0..m |-> IF k = m THEN step[m][f[m - 1]] ELSE f[k]]
  <2>2. f[m - 1] \in S /\ step[m] \in [S -> S]
    OBVIOUS
  <2>3. g \in [0..m -> S]
    <3>1. ASSUME NEW k \in 0..m
          PROVE  (IF k = m THEN step[m][f[m - 1]] ELSE f[k]) \in S
      <4>1. k # m => k \in 0..m - 1
        OBVIOUS
      <4> QED
        BY <2>2, <4>1
    <3> QED
      BY <3>1
  <2>4. g[0] = a
    BY <2>1
  <2>5. ASSUME NEW k \in 1..m
        PROVE  g[k] = step[k][g[k - 1]]
    <3>1. g[k - 1] = f[k - 1]
      <4>1. k - 1 \in 0..m /\ k - 1 # m
        OBVIOUS
      <4> QED
        BY <4>1
    <3>2. CASE k = m
      BY <3>1, <3>2
    <3>3. CASE k # m
      <4>1. k \in 1..m - 1 /\ k \in 0..m
        BY <3>3
      <4>2. g[k] = f[k] /\ f[k] = step[k][f[k - 1]]
        BY <2>1, <3>3, <4>1
      <4> QED
        BY <3>1, <4>2
    <3> QED
      BY <3>2, <3>3
  <2> HIDE DEF g
  <2>6. Is(g, m)
    BY <2>4, <2>5
  <2> HIDE DEF Is
  <2> QED
    BY <2>3, <2>6
<1> HIDE DEF T
<1>3. N \in T
  <2>1. \A k \in 0..N : k \in T
    BY <1>1, <1>2, RoundByRound
  <2> QED
    BY <2>1
<1> QED
  BY <1>3 DEF T, Runs

-----------------------------------------------------------------------------
(* Ids *)

\* There are at least two ids besides kInvalidId.
LEMMA Constants ==
  /\ NumIds \in Nat /\ kInvalidId \in Nat /\ NumIds = kInvalidId + 1
  /\ kBots \in Nat /\ MaxCreated \in Nat /\ MaxInputs \in Nat
  /\ MinSize \in Nat /\ MinSize > 0 /\ VelSize \in Nat /\ Still \in Velocity
  /\ 1 <= kBots /\ kBots < MaxCreated /\ MaxCreated <= kInvalidId
  /\ GoodIds \subseteq Ids /\ kInvalidId \in Ids /\ kInvalidId \notin GoodIds
  /\ Speeds \subseteq Velocity /\ BotSpeeds \subseteq Velocity
  /\ Clamped \in [Velocity -> Velocity] /\ StartSizes \subseteq Nat
  /\ \A s \in StartSizes : s >= MinSize
BY ConstantsAssumption DEF kInvalidId, GoodIds, Ids, Velocity, Still

\* Ids go around, kInvalidId left out.
LEMMA NextIds ==
  ASSUME NEW id \in GoodIds
  PROVE  /\ NextId(id) = IF id + 1 = kInvalidId THEN 0 ELSE id + 1
         /\ NextId(id) \in GoodIds
<1>1. /\ NumIds \in Nat /\ kInvalidId \in Nat /\ NumIds = kInvalidId + 1
      /\ kInvalidId >= 2 /\ id \in 0..kInvalidId - 1
  BY Constants DEF GoodIds
<1>2. (id + 1) % NumIds = id + 1
  <2>1. id + 1 \in 0..NumIds - 1 /\ NumIds > 0
    BY <1>1
  <2> HIDE DEF kInvalidId
  <2> QED
    BY <1>1, <2>1
<1>3. (kInvalidId + 1) % NumIds = 0
  BY <1>1
<1> QED
  BY <1>1, <1>2, <1>3 DEF NextId, GoodIds

\* The id given out n entities after this one.
Later(id, n) == IF id + n < kInvalidId THEN id + n ELSE id + n - kInvalidId

\* The ids of one game's bots in closed form.
LEMMA NewIdsAre ==
  ASSUME NEW first \in GoodIds, NEW n \in 1..kInvalidId
  PROVE  NewIds(first, n) = [k \in 1..n |-> Later(first, k - 1)]
<1> DEFINE Ids1(f) == [k \in 1..n |-> IF k = 1 THEN first ELSE NextId(f[k - 1])]
           g == [k \in 1..n |-> Later(first, k - 1)]
           u == CHOOSE f : f = Ids1(f)
<1>1. /\ kInvalidId \in Nat /\ kInvalidId >= 2 /\ first \in 0..kInvalidId - 1
      /\ n \in Nat /\ n <= kInvalidId /\ n >= 1
  BY Constants DEF GoodIds
<1>2. NewIds(first, n) = u
  BY DEF NewIds
<1>3. g = Ids1(g)
  <2>1. ASSUME NEW k \in 1..n
        PROVE  g[k] = IF k = 1 THEN first ELSE NextId(g[k - 1])
    <3>1. CASE k = 1
      BY <1>1, <3>1 DEF Later
    <3>2. CASE k # 1
      <4>1. k - 1 \in 1..n /\ g[k - 1] = Later(first, k - 2) /\ g[k] = Later(first, k - 1)
        BY <1>1, <3>2
      <4>2. Later(first, k - 2) \in GoodIds
        BY <1>1, <3>2 DEF Later, GoodIds
      <4>3. NextId(Later(first, k - 2)) = Later(first, k - 1)
        BY <1>1, <3>2, <4>2, NextIds DEF Later
      <4> QED
        BY <3>2, <4>1, <4>3
    <3> QED
      BY <3>1, <3>2
  <2> QED
    BY <2>1
<1> HIDE DEF g
<1>4. u = Ids1(u)
  BY <1>3
<1> HIDE DEF u
<1>5. \A k \in 1..n : u[k] = g[k]
  <2> DEFINE T == {k \in 0..n : k = 0 \/ u[k] = g[k]}
  <2>1. 0 \in T
    BY <1>1
  <2>2. ASSUME NEW k \in 1..n, k - 1 \in T
        PROVE  k \in T
    <3>1. /\ u[k] = (IF k = 1 THEN first ELSE NextId(u[k - 1]))
          /\ g[k] = (IF k = 1 THEN first ELSE NextId(g[k - 1]))
      <4>1. u[k] = Ids1(u)[k] /\ g[k] = Ids1(g)[k]
        BY <1>3, <1>4
      <4> QED
        BY <4>1
    <3>2. k # 1 => u[k - 1] = g[k - 1]
      BY <2>2
    <3> QED
      BY <3>1, <3>2
  <2>3. \A k \in 0..n : k \in T
    <3> HIDE DEF T
    <3> QED
      BY <1>1, <2>1, <2>2, RoundByRound
  <2> QED
    BY <2>3
<1>6. u = [k \in 1..n |-> u[k]] /\ g = [k \in 1..n |-> g[k]]
  BY <1>3, <1>4, Zenon
<1>7. u = g
  BY <1>5, <1>6
<1> QED
  BY <1>2, <1>7 DEF g

-----------------------------------------------------------------------------
(* updateLogic *)

\* Entities as they are between the loops of updateLogic.
Sound(es) ==
    /\ es \in Seq(Body) /\ Distinct(es)
    /\ \A i \in 1..Len(es) : Own(es[i])
    /\ \E i \in 1..Len(es) : es[i].size >= MinSize

\* What is known of the entities between two steps.
LEMMA Entities ==
  ASSUME EntitiesOk
  PROVE  /\ Sound(entities_) /\ Len(entities_) \in Nat
         /\ DOMAIN entities_ = 1..Len(entities_)
         /\ LiveIds = {entities_[i].id : i \in 1..Len(entities_)}
<1>1. /\ entities_ \in Seq(Body) /\ entities_ # << >> /\ Distinct(entities_)
      /\ \A i \in DOMAIN entities_ : entities_[i].size >= MinSize
  BY DEF EntitiesOk, WorldIsAlive
<1>2. /\ DOMAIN entities_ = 1..Len(entities_) /\ Len(entities_) \in Nat
      /\ 1 \in 1..Len(entities_)
  BY <1>1, LenProperties, EmptySeq
<1>3. LiveIds = {entities_[i].id : i \in 1..Len(entities_)}
  BY <1>2 DEF LiveIds
<1>4. \A i \in 1..Len(entities_) : Own(entities_[i])
  BY DEF Own
<1>5. \E i \in 1..Len(entities_) : entities_[i].size >= MinSize
  BY <1>1, <1>2
<1> QED
  BY <1>1, <1>2, <1>3, <1>4, <1>5 DEF Sound

\* Entities with new sizes and velocities, where these are right, are sound.
LEMMA Resized ==
  ASSUME NEW es, Sound(es),
         NEW fs, DOMAIN fs = 1..Len(es), fs = [i \in 1..Len(es) |-> fs[i]],
         \A i \in 1..Len(es) : fs[i] \in Body /\ fs[i].id = es[i].id /\ Own(fs[i]),
         \E i \in 1..Len(es) : fs[i].size >= MinSize
  PROVE  Sound(fs) /\ Len(fs) = Len(es)
<1>1. Len(es) \in Nat
  BY LenProperties DEF Sound
<1>2. fs \in Seq(Body) /\ Len(fs) = Len(es)
  <2>1. fs \in Seq(Body)
    BY <1>1, IsASeq
  <2> QED
    BY <1>1, <2>1, LenProperties
<1>3. Distinct(fs)
  BY <1>2 DEF Sound, Distinct
<1> QED
  BY <1>2, <1>3 DEF Sound

\* The first loop: bots get the velocity of bots.
LEMMA SteeredIsSound ==
  ASSUME NEW es, Sound(es), NEW arrived, NEW course \in [botTargets_ -> BotSpeeds]
  PROVE  /\ Sound(Steered(es, arrived, course))
         /\ Len(Steered(es, arrived, course)) = Len(es)
<1> DEFINE fs == Steered(es, arrived, course)
<1>1. es \in Seq(Body) /\ Len(es) \in Nat /\ DOMAIN es = 1..Len(es)
  BY LenProperties DEF Sound
<1>2. fs = [i \in 1..Len(es) |-> IF es[i].id \in botTargets_ \ arrived
                                 THEN [es[i] EXCEPT !.vel = course[es[i].id]] ELSE es[i]]
  BY <1>1 DEF Steered
<1>3. ASSUME NEW i \in 1..Len(es)
      PROVE  fs[i] \in Body /\ fs[i].id = es[i].id /\ Own(fs[i]) /\ fs[i].size = es[i].size
  <2>1. es[i] \in Body /\ Own(es[i])
    BY <1>1, ElementOfSeq DEF Sound
  <2>2. CASE es[i].id \in botTargets_ \ arrived
    <3>1. fs[i] = [es[i] EXCEPT !.vel = course[es[i].id]]
      BY <1>2, <2>2
    <3>2. course[es[i].id] \in Velocity
      BY <2>2, Constants
    <3> QED
      BY <2>1, <2>2, <3>1, <3>2 DEF Body, Own
  <2>3. CASE es[i].id \notin botTargets_ \ arrived
    BY <1>2, <2>1, <2>3
  <2> QED
    BY <2>2, <2>3
<1>4. DOMAIN fs = 1..Len(es) /\ fs = [i \in 1..Len(es) |-> fs[i]]
  BY <1>2
<1> HIDE DEF fs
<1>5. \E i \in 1..Len(es) : fs[i].size >= MinSize
  BY <1>3 DEF Sound
<1>6. Sound(fs) /\ Len(fs) = Len(es)
  BY <1>3, <1>4, <1>5, Resized
<1> QED
  BY <1>6 DEF fs

\* Two of the entities meet: when the largest one is bitten, a larger one is left.
LEMMA BittenIsSound ==
  ASSUME NEW es, Sound(es), NEW p \in Pairs(Len(es))
  PROVE  Sound(Bitten(es, p)) /\ Len(Bitten(es, p)) = Len(es)
<1> DEFINE fs == Bitten(es, p)
           a == p[1]
           b == p[2]
           half == es[a].size \div 2
<1>1. es \in Seq(Body) /\ Len(es) \in Nat /\ DOMAIN es = 1..Len(es)
  BY LenProperties DEF Sound
<1>2. a \in 1..Len(es) /\ b \in 1..Len(es) /\ a # b
  BY DEF Pairs
<1>3. \A i \in 1..Len(es) : /\ es[i] \in Body /\ Own(es[i])
                            /\ es[i].size \in Nat
  <2>1. \A i \in 1..Len(es) : es[i] \in Body /\ Own(es[i])
    BY <1>1, ElementOfSeq DEF Sound
  <2> QED
    BY <2>1 DEF Body
<1>4. CASE ~(es[a].size < es[b].size)
  BY <1>4 DEF Bitten
<1>5. CASE es[a].size < es[b].size
  <2>1. fs = [i \in 1..Len(es) |->
                IF i = a THEN [es[i] EXCEPT !.size = half]
                ELSE IF i = b THEN [es[i] EXCEPT !.size = @ + half]
                ELSE es[i]]
    BY <1>1, <1>5 DEF Bitten
  <2>2. half \in Nat
    BY <1>2, <1>3
  <2> HIDE DEF a, b, half
  <2>3. DOMAIN fs = 1..Len(es) /\ fs = [i \in 1..Len(es) |-> fs[i]]
    BY <2>1
  <2>4. /\ fs[a] = [es[a] EXCEPT !.size = half]
        /\ fs[b] = [es[b] EXCEPT !.size = @ + half]
        /\ \A i \in 1..Len(es) : i # a /\ i # b => fs[i] = es[i]
    BY <1>2, <2>1
  <2> HIDE DEF fs
  <2>5. ASSUME NEW i \in 1..Len(es)
        PROVE  /\ fs[i] \in Body /\ fs[i].id = es[i].id /\ fs[i].vel = es[i].vel
               /\ i # a => fs[i].size >= es[i].size
    <3>1. CASE i = a
      BY <1>3, <2>2, <2>4, <3>1 DEF Body
    <3>2. CASE i = b
      <4>1. es[b] \in Body /\ es[b].size \in Nat
        BY <1>2, <1>3
      <4>2. es[b].size + half \in Nat /\ es[b].size + half >= es[b].size
        BY <2>2, <4>1
      <4>3. /\ fs[b] \in Body /\ fs[b].id = es[b].id /\ fs[b].vel = es[b].vel
            /\ fs[b].size = es[b].size + half
        BY <2>4, <4>1, <4>2 DEF Body
      <4> QED
        BY <3>2, <4>2, <4>3
    <3>3. CASE i # a /\ i # b
      BY <1>3, <2>4, <3>3
    <3> QED
      BY <3>1, <3>2, <3>3
  <2>6. \A i \in 1..Len(es) : Own(fs[i])
    BY <1>3, <2>5 DEF Own
  <2>7. \E i \in 1..Len(es) : fs[i].size >= MinSize
    <3>1. PICK i \in 1..Len(es) : es[i].size >= MinSize
      BY DEF Sound
    <3>2. \A j \in 1..Len(es) : fs[j].size \in Nat
      BY <2>5 DEF Body
    <3>3. CASE i = a
      <4>1. es[b].size > es[a].size /\ es[a].size >= MinSize
        BY <1>2, <1>3, <1>5, <3>1, <3>3 DEF a, b
      <4>2. fs[b].size >= es[b].size
        BY <1>2, <2>5
      <4>3. es[a].size \in Nat /\ es[b].size \in Nat /\ fs[b].size \in Nat
        BY <1>2, <1>3, <3>2
      <4>4. fs[b].size >= MinSize
        BY <4>1, <4>2, <4>3, Constants
      <4> QED
        BY <1>2, <4>4
    <3>4. CASE i # a
      BY <1>3, <2>5, <3>1, <3>2, <3>4, Constants
    <3> QED
      BY <3>3, <3>4
  <2>8. Sound(fs) /\ Len(fs) = Len(es)
    BY <2>3, <2>5, <2>6, <2>7, Resized
  <2> QED
    BY <2>8 DEF fs
<1> QED
  BY <1>4, <1>5

\* The second loop.
LEMMA FedIsSound ==
  ASSUME NEW es, Sound(es), NEW near \in SUBSET Pairs(Len(es))
  PROVE  Sound(Fed(es, near))
<1> DEFINE n == Len(es)
           N == n * n
           Pair(k) == <<1 + ((k - 1) \div n), 1 + ((k - 1) % n)>>
           F(f) == [k \in 0..N |->
                      IF k = 0 THEN es
                      ELSE IF Pair(k) \in near THEN Bitten(f[k - 1], Pair(k))
                      ELSE f[k - 1]]
           u == CHOOSE f : f = F(f)
           S == {fs \in Seq(Body) : Sound(fs) /\ Len(fs) = n}
           step == [k \in 1..N |-> [fs \in S |-> IF Pair(k) \in near
                                                 THEN Bitten(fs, Pair(k)) ELSE fs]]
<1>1. n \in Nat /\ es \in S
  BY LenProperties DEF Sound
<1>2. N \in Nat
  BY <1>1
<1>3. Fed(es, near) = u[N]
  BY DEF Fed
<1> HIDE DEF N, Pair
<1>4. ASSUME NEW fs \in S, NEW k
      PROVE  (IF Pair(k) \in near THEN Bitten(fs, Pair(k)) ELSE fs) \in S
  <2>1. CASE Pair(k) \in near
    <3>1. Pair(k) \in Pairs(Len(fs)) /\ Sound(fs)
      BY <2>1
    <3>2. Sound(Bitten(fs, Pair(k))) /\ Len(Bitten(fs, Pair(k))) = Len(fs)
      BY <3>1, BittenIsSound
    <3> QED
      BY <2>1, <3>2 DEF Sound
  <2>2. CASE Pair(k) \notin near
    BY <2>2
  <2> QED
    BY <2>1, <2>2
<1> HIDE DEF S, n
<1>5. step \in [1..N -> [S -> S]]
  BY <1>4
<1>6. PICK f \in [0..N -> S] : Runs(f, es, step, N)
  <2> HIDE DEF step
  <2> QED
    BY <1>1, <1>2, <1>5, LoopExists
<1>7. f = F(f)
  <2>1. ASSUME NEW k \in 1..N
        PROVE  f[k] = IF Pair(k) \in near THEN Bitten(f[k - 1], Pair(k)) ELSE f[k - 1]
    <3>1. k - 1 \in 0..N /\ f[k - 1] \in S
      BY <1>2
    <3> QED
      BY <1>6, <3>1 DEF Runs
  <2>2. \A k \in 0..N : k # 0 => k \in 1..N
    BY <1>2
  <2>3. \A k \in 0..N : f[k] = F(f)[k]
    BY <1>6, <2>1, <2>2 DEF Runs
  <2> QED
    BY <2>3
<1>8. u = F(u)
  BY <1>7
<1> HIDE DEF u
<1>9. \A k \in 0..N : u[k] \in S
  <2> DEFINE T == {k \in 0..N : u[k] \in S}
  <2>1. 0 \in T
    <3>1. 0 \in 0..N /\ u[0] = F(u)[0]
      BY <1>2, <1>8
    <3> QED
      BY <1>1, <3>1
  <2>2. ASSUME NEW k \in 1..N, k - 1 \in T
        PROVE  k \in T
    <3>1. k \in 0..N /\ k # 0 /\ u[k] = F(u)[k]
      BY <1>2, <1>8
    <3>2. u[k] = IF Pair(k) \in near THEN Bitten(u[k - 1], Pair(k)) ELSE u[k - 1]
      BY <3>1
    <3> QED
      BY <1>4, <2>2, <3>1, <3>2
  <2>3. \A k \in 0..N : k \in T
    <3> HIDE DEF T
    <3> QED
      BY <1>2, <2>1, <2>2, RoundByRound
  <2> QED
    BY <2>3
<1> QED
  BY <1>2, <1>3, <1>9 DEF S

\* An entity that is too small is not the last one, and its going leaves the others.
LEMMA ReplacedIsSound ==
  ASSUME NEW es, Sound(es), NEW i \in 1..Len(es), ~(es[i].size >= MinSize)
  PROVE  /\ Sound(Replaced(es, i)) /\ Len(Replaced(es, i)) = Len(es) - 1
         /\ \A j \in 1..i - 1 : Replaced(es, i)[j] = es[j]
<1> DEFINE n == Len(es)
           fs == Replaced(es, i)
           From(j) == IF j = i THEN n ELSE j
<1>1. es \in Seq(Body) /\ n \in Nat /\ n >= 1 /\ i \in Nat /\ i >= 1 /\ i <= n
  BY LenProperties DEF Sound
<1>2. fs = [j \in 1..n - 1 |-> es[From(j)]]
  BY DEF Replaced, Last
<1>3. \A j \in 1..n - 1 : From(j) \in 1..n
  BY <1>1
<1>4. \A j, k \in 1..n - 1 : From(j) = From(k) => j = k
  BY <1>1
<1>5. \A j \in 1..n : es[j] \in Body /\ Own(es[j])
  BY <1>1, ElementOfSeq DEF Sound
<1> HIDE DEF fs
<1>6. \A j \in 1..n - 1 : fs[j] = es[From(j)]
  BY <1>2
<1>7. fs \in Seq(Body) /\ Len(fs) = n - 1
  <2>1. n - 1 \in Nat
    BY <1>1
  <2>2. \A j \in 1..n - 1 : es[From(j)] \in Body
    BY <1>3, <1>5
  <2>3. fs \in Seq(Body)
    BY <1>2, <2>1, <2>2, IsASeq
  <2>4. DOMAIN fs = 1..n - 1
    BY <1>2
  <2> QED
    BY <2>1, <2>3, <2>4, LenProperties
<1>8. Distinct(fs)
  <2> SUFFICES ASSUME NEW j \in 1..n - 1, NEW k \in 1..n - 1, fs[j].id = fs[k].id
               PROVE  j = k
    BY <1>7 DEF Distinct
  <2>1. From(j) \in 1..n /\ From(k) \in 1..n /\ es[From(j)].id = es[From(k)].id
    BY <1>3, <1>6
  <2>2. From(j) = From(k)
    <3> HIDE DEF From
    <3> QED
      BY <2>1 DEF Sound, Distinct
  <2> QED
    BY <1>4, <2>2
<1>9. \A j \in 1..n - 1 : Own(fs[j])
  <2> HIDE DEF From
  <2> QED
    BY <1>3, <1>5, <1>6
<1>10. \E j \in 1..n - 1 : fs[j].size >= MinSize
  <2>1. PICK k \in 1..n : es[k].size >= MinSize
    BY DEF Sound
  <2>2. k # i
    BY <2>1
  <2>3. CASE k = n
    <3>1. i \in 1..n - 1 /\ fs[i] = es[k]
      BY <1>1, <1>6, <2>2, <2>3
    <3> QED
      BY <2>1, <3>1
  <2>4. CASE k # n
    <3>1. k \in 1..n - 1 /\ fs[k] = es[k]
      BY <1>1, <1>6, <2>2, <2>4
    <3> QED
      BY <2>1, <3>1
  <2> QED
    BY <2>3, <2>4
<1>11. \A j \in 1..i - 1 : j \in 1..n - 1 /\ fs[j] = es[j]
  BY <1>1, <1>6
<1>12. Sound(fs)
  BY <1>7, <1>8, <1>9, <1>10 DEF Sound
<1> QED
  BY <1>7, <1>11, <1>12 DEF fs

\* The loop that removes entities between two rounds: those before i are kept.
Sweep ==
    {w \in [i : Nat \ {0}, es : Seq(Body)] :
        /\ Sound(w.es) /\ w.i <= Len(w.es) + 1
        /\ \A j \in 1..w.i - 1 : w.es[j].size >= MinSize}

\* Every round of it either keeps an entity or removes one, until all are looked at.
LEMMA LookedGoesOn ==
  ASSUME NEW w \in Sweep
  PROVE  /\ Looked(w) \in Sweep /\ Len(w.es) \in Nat /\ Len(Looked(w).es) \in Nat
         /\ Len(Looked(w).es) - Looked(w).i <= Len(w.es) - w.i
         /\ w.i <= Len(w.es) => Len(Looked(w).es) - Looked(w).i < Len(w.es) - w.i
<1>1. /\ w.i \in Nat /\ w.i >= 1 /\ w.es \in Seq(Body) /\ Len(w.es) \in Nat
      /\ Sound(w.es) /\ w.i <= Len(w.es) + 1
      /\ \A j \in 1..w.i - 1 : w.es[j].size >= MinSize
  BY LenProperties DEF Sweep
<1>2. CASE w.i > Len(w.es)
  <2>1. Looked(w) = w
    BY <1>2 DEF Looked
  <2> QED
    BY <1>1, <1>2, <2>1
<1>3. CASE w.i <= Len(w.es) /\ w.es[w.i].size < MinSize
  <2> DEFINE fs == Replaced(w.es, w.i)
  <2>1. Looked(w) = [i |-> w.i, es |-> fs]
    BY <1>1, <1>3 DEF Looked
  <2>2. w.i \in 1..Len(w.es)
    BY <1>1, <1>3
  <2>3. ~(w.es[w.i].size >= MinSize)
    <3>1. w.es[w.i] \in Body
      BY <1>1, <2>2, ElementOfSeq
    <3>2. w.es[w.i].size \in Nat
      BY <3>1 DEF Body
    <3> QED
      BY <1>3, <3>2, Constants
  <2>4. /\ Sound(fs) /\ Len(fs) = Len(w.es) - 1
        /\ \A j \in 1..w.i - 1 : fs[j] = w.es[j]
    BY <1>1, <2>2, <2>3, ReplacedIsSound
  <2> HIDE DEF fs
  <2>5. fs \in Seq(Body) /\ Len(fs) \in Nat /\ w.i <= Len(fs) + 1
    BY <1>1, <1>3, <2>2, <2>4 DEF Sound
  <2>6. \A j \in 1..w.i - 1 : fs[j].size >= MinSize
    BY <1>1, <2>4
  <2>7. [i |-> w.i, es |-> fs] \in Sweep
    BY <1>1, <2>4, <2>5, <2>6 DEF Sweep
  <2> QED
    BY <1>1, <2>1, <2>4, <2>5, <2>7
<1>4. CASE w.i <= Len(w.es) /\ ~(w.es[w.i].size < MinSize)
  <2>1. Looked(w) = [i |-> w.i + 1, es |-> w.es]
    BY <1>1, <1>4 DEF Looked
  <2>2. w.es[w.i].size >= MinSize
    <3>1. w.es[w.i] \in Body
      BY <1>1, <1>4, ElementOfSeq
    <3>2. w.es[w.i].size \in Nat
      BY <3>1 DEF Body
    <3> QED
      BY <1>4, <3>2, Constants
  <2>3. \A j \in 1..(w.i + 1) - 1 : w.es[j].size >= MinSize
    <3>1. \A j \in 1..(w.i + 1) - 1 : j \in 1..w.i - 1 \/ j = w.i
      BY <1>1
    <3> QED
      BY <1>1, <2>2, <3>1
  <2>4. [i |-> w.i + 1, es |-> w.es] \in Sweep
    BY <1>1, <1>4, <2>3 DEF Sweep
  <2> QED
    BY <1>1, <2>1, <2>4
<1> QED
  BY <1>1, <1>2, <1>3, <1>4

\* The third loop leaves the entities that are large enough, and at least one.
LEMMA SweptIsSound ==
  ASSUME NEW es, Sound(es)
  PROVE  /\ Sound(Swept(es)) /\ Swept(es) # << >>
         /\ \A i \in 1..Len(Swept(es)) : Swept(es)[i].size >= MinSize
<1> DEFINE N == Len(es)
           a == [i |-> 1, es |-> es]
           F(f) == [k \in 0..N |-> IF k = 0 THEN a ELSE Looked(f[k - 1])]
           u == CHOOSE f : f = F(f)
           step == [k \in 1..N |-> [w \in Sweep |-> Looked(w)]]
<1>1. N \in Nat /\ es \in Seq(Body)
  BY LenProperties DEF Sound
<1>2. Swept(es) = u[N].es
  BY DEF Swept
<1>3. a \in Sweep /\ a.i = 1 /\ a.es = es
  <2>1. \A j \in 1..1 - 1 : es[j].size >= MinSize
    OBVIOUS
  <2> QED
    BY <1>1, <2>1 DEF Sweep
<1> HIDE DEF N, a
<1>4. step \in [1..N -> [Sweep -> Sweep]]
  BY LookedGoesOn
<1>5. PICK f \in [0..N -> Sweep] : Runs(f, a, step, N)
  <2> HIDE DEF step
  <2> QED
    BY <1>1, <1>3, <1>4, LoopExists
<1>6. f = F(f)
  <2>1. ASSUME NEW k \in 1..N
        PROVE  f[k] = Looked(f[k - 1])
    <3>1. k - 1 \in 0..N /\ f[k - 1] \in Sweep
      BY <1>1
    <3> QED
      BY <1>5, <3>1 DEF Runs
  <2>2. \A k \in 0..N : k # 0 => k \in 1..N
    BY <1>1
  <2>3. \A k \in 0..N : f[k] = F(f)[k]
    BY <1>5, <2>1, <2>2 DEF Runs
  <2> QED
    BY <2>3
<1>7. u = F(u)
  BY <1>6
<1> HIDE DEF u
<1> DEFINE Left(w) == Len(w.es) + 1 - w.i
           Far(w, k) == w \in Sweep /\ (Left(w) + k <= N \/ Left(w) = 0)
<1>8. \A w \in Sweep : /\ Looked(w) \in Sweep
                      /\ Left(w) \in Nat /\ Left(Looked(w)) \in Nat
                      /\ Left(Looked(w)) <= Left(w)
                      /\ Left(w) # 0 => Left(Looked(w)) < Left(w)
  <2> SUFFICES ASSUME NEW w \in Sweep
               PROVE  /\ Looked(w) \in Sweep
                      /\ Left(w) \in Nat /\ Left(Looked(w)) \in Nat
                      /\ Left(Looked(w)) <= Left(w)
                      /\ Left(w) # 0 => Left(Looked(w)) < Left(w)
    OBVIOUS
  <2> DEFINE v == Looked(w)
  <2>1. /\ v \in Sweep /\ Len(w.es) \in Nat /\ Len(v.es) \in Nat
        /\ Len(v.es) - v.i <= Len(w.es) - w.i
        /\ w.i <= Len(w.es) => Len(v.es) - v.i < Len(w.es) - w.i
    BY LookedGoesOn
  <2> HIDE DEF v
  <2>2. w.i \in Nat /\ w.i <= Len(w.es) + 1 /\ v.i \in Nat /\ v.i <= Len(v.es) + 1
    BY <2>1 DEF Sweep
  <2>3. /\ Left(w) \in Nat /\ Left(v) \in Nat /\ Left(v) <= Left(w)
        /\ Left(w) # 0 => Left(v) < Left(w)
    <3> DEFINE lw == Len(w.es)
               lv == Len(v.es)
               iw == w.i
               iv == v.i
    <3>1. /\ lw \in Nat /\ lv \in Nat /\ iw \in Nat /\ iv \in Nat
          /\ iw <= lw + 1 /\ iv <= lv + 1 /\ lv - iv <= lw - iw
          /\ iw <= lw => lv - iv < lw - iw
      BY <2>1, <2>2
    <3>2. Left(w) = lw + 1 - iw /\ Left(v) = lv + 1 - iv
      OBVIOUS
    <3> HIDE DEF lw, lv, iw, iv, Left
    <3> QED
      BY <3>1, <3>2
  <2> QED
    BY <2>1, <2>3 DEF v
<1>9. Far(a, 0)
  <2>1. Left(a) + 0 <= N
    BY <1>1, <1>3 DEF N
  <2> QED
    BY <1>3, <2>1
<1> HIDE DEF Left
<1>10. ASSUME NEW k \in 1..N, NEW w, Far(w, k - 1)
       PROVE  Far(Looked(w), k)
  BY <1>1, <1>8, <1>10
<1> HIDE DEF Far
<1>11. Far(u[N], N)
  <2> DEFINE T == {k \in 0..N : Far(u[k], k)}
  <2>1. 0 \in T
    <3>1. 0 \in 0..N /\ u[0] = F(u)[0]
      BY <1>1, <1>7
    <3> QED
      BY <1>9, <3>1
  <2>2. ASSUME NEW k \in 1..N, k - 1 \in T
        PROVE  k \in T
    <3>1. k \in 0..N /\ k # 0 /\ u[k] = F(u)[k]
      BY <1>1, <1>7
    <3>2. u[k] = Looked(u[k - 1]) /\ Far(u[k - 1], k - 1)
      BY <2>2, <3>1
    <3>3. Far(u[k], k)
      BY <1>10, <3>2
    <3> QED
      BY <3>1, <3>3
  <2>3. \A k \in 0..N : k \in T
    <3> HIDE DEF T
    <3> QED
      BY <1>1, <2>1, <2>2, RoundByRound
  <2>4. N \in T
    BY <1>1, <2>3
  <2> QED
    BY <2>4
<1>12. u[N] \in Sweep /\ u[N].i = Len(u[N].es) + 1
  <2> DEFINE w == u[N]
  <2>1. w \in Sweep /\ Left(w) = 0
    BY <1>1, <1>8, <1>11 DEF Far
  <2>2. w.i \in Nat /\ Len(w.es) \in Nat
    BY <2>1, LookedGoesOn DEF Sweep
  <2> HIDE DEF w
  <2>3. w \in Sweep /\ w.i = Len(w.es) + 1
    BY <2>1, <2>2 DEF Left
  <2> QED
    BY <2>3 DEF w
<1> DEFINE fs == u[N].es
<1>13. /\ fs \in Seq(Body) /\ Sound(fs) /\ Len(fs) \in Nat
       /\ \A j \in 1..Len(fs) : fs[j].size >= MinSize
  <2>1. /\ fs \in Seq(Body) /\ Sound(fs)
        /\ \A j \in 1..(Len(fs) + 1) - 1 : fs[j].size >= MinSize
    BY <1>12 DEF Sweep
  <2>2. Len(fs) \in Nat
    BY <2>1, LenProperties
  <2> HIDE DEF fs
  <2> QED
    BY <2>1, <2>2
<1> HIDE DEF fs
<1>14. fs # << >>
  <2>1. Len(fs) >= 1
    BY <1>13 DEF Sound
  <2>2. Len(<< >>) = 0
    OBVIOUS
  <2> QED
    BY <2>1, <2>2
<1> QED
  BY <1>2, <1>13, <1>14 DEF fs

\* The ids in use, when some are given up.
LEMMA IdsKept ==
  ASSUME IdsOk, LiveIds' \subseteq LiveIds, Playing' = Playing,
         UNCHANGED <<firstFreeId, botTargets_, entityId, created>>
  PROVE  IdsOk'
<1>1. Used' \subseteq Used
  BY DEF Used
<1>2. \A id : Age(id)' = Age(id)
  BY DEF Age, kInvalidId
<1>3. \A id \in Used' : Age(id)' <= created'
  BY <1>1, <1>2 DEF IdsOk
<1> QED
  BY <1>3 DEF IdsOk

\* Steps without input.
LEMMA InputsKept ==
  ASSUME InputsOk, UNCHANGED <<inputVars, inputs>>
  PROVE  InputsOk'
<1>1. UNCHANGED <<queue, to_server, to_client, chosen, got, inputs>>
  BY DEF inputVars
<1> QED
  BY <1>1 DEF InputsOk, InputTypes, Line, State, Packet, Velocity

\* The two action properties about inputs, as actions.
SteeredByOwner ==
    \A i \in DOMAIN entities_, j \in DOMAIN entities_' :
       LET id == entities_[i].id
       IN  /\ entities_'[j].id = id /\ id \notin botTargets_'
           /\ entities_'[j].vel # entities_[i].vel
           => \E c \in Playing : entityId[c] = id /\ got'[c] > got[c]

TakesEffect(c, i) ==
    /\ got'[c] # got[c] /\ c \in Playing'
    /\ entities_[i].id = entityId[c]
    => \E v \in Velocity : Mixed(c, entities_[i].vel, v) /\ entities_'[i].vel = Normalised(v)

Steering == SteeredByOwner /\ \A c \in Playing, i \in DOMAIN entities_ : TakesEffect(c, i)

\* Steps that leave everybody on course and apply no input.
LEMMA CoursesKept ==
  ASSUME EntitiesOk,
         \A j \in DOMAIN entities_' :
            \/ Own(entities_'[j]) /\ botTargets_' = botTargets_
            \/ entities_'[j].id \in botTargets_'
            \/ entities_'[j].id \notin LiveIds,
         \A c \in Playing : got'[c] # got[c] => c \notin Playing'
  PROVE  Steering
<1>1. Distinct(entities_) /\ DOMAIN entities_ = 1..Len(entities_)
      /\ \A i \in DOMAIN entities_ : entities_[i].id \in LiveIds
  BY Entities DEF EntitiesOk, LiveIds
<1>2. SteeredByOwner
  <2>1. SUFFICES ASSUME NEW i \in DOMAIN entities_, NEW j \in DOMAIN entities_',
                        entities_'[j].id = entities_[i].id,
                        entities_[i].id \notin botTargets_'
                 PROVE  entities_'[j].vel = entities_[i].vel
    BY DEF SteeredByOwner
  <2>2. Own(entities_'[j]) /\ botTargets_' = botTargets_
    BY <1>1, <2>1
  <2>3. PICK k \in 1..Len(entities_) : /\ entities_[k].id = entities_'[j].id
                                      /\ entities_[k].vel = entities_'[j].vel
    BY <2>1, <2>2 DEF Own
  <2>4. k = i
    BY <1>1, <2>1, <2>3 DEF Distinct
  <2> QED
    BY <2>3, <2>4
<1> QED
  BY <1>2 DEF Steering, TakesEffect

\* The same when the entities are the same.
LEMMA NobodyMoves ==
  ASSUME EntitiesOk, UNCHANGED <<entities_, botTargets_>>,
         \A c \in Playing : got'[c] # got[c] => c \notin Playing'
  PROVE  Steering
<1>1. \A j \in DOMAIN entities_' : Own(entities_'[j])
  BY Entities DEF Own
<1> QED
  BY <1>1, CoursesKept

\* updateLogic as a whole
LEMMA UpdatePreserves ==
  ASSUME IInv, updateLogic
  PROVE  IInv' /\ LiveIds' \subseteq LiveIds /\ Steering
<1>1. PICK arrived \in SUBSET (botTargets_ \intersect LiveIds),
           course \in [botTargets_ -> BotSpeeds],
           near \in SUBSET Pairs(Len(entities_)) :
              entities_' = Swept(Fed(Steered(entities_, arrived, course), near))
  BY DEF updateLogic
<1>2. UNCHANGED <<firstFreeId, botTargets_, entityId, inputVars, created, inputs>>
  BY DEF updateLogic
<1> DEFINE steered == Steered(entities_, arrived, course)
           fed == Fed(steered, near)
<1>3. Sound(steered) /\ Len(steered) = Len(entities_)
  BY Entities, SteeredIsSound DEF IInv
<1>4. Sound(fed)
  <2> HIDE DEF steered
  <2> QED
    BY <1>3, FedIsSound
<1>5. /\ Sound(entities_') /\ entities_' # << >>
      /\ \A i \in 1..Len(entities_') : entities_'[i].size >= MinSize
  <2> HIDE DEF fed
  <2>1. /\ Sound(Swept(fed)) /\ Swept(fed) # << >>
        /\ \A i \in 1..Len(Swept(fed)) : Swept(fed)[i].size >= MinSize
    BY <1>4, SweptIsSound
  <2>2. entities_' = Swept(fed)
    BY <1>1 DEF fed
  <2> QED
    BY <2>1, <2>2
<1>6. DOMAIN entities_' = 1..Len(entities_')
  BY <1>5, LenProperties DEF Sound
<1>7. EntitiesOk'
  <2>1. Body' = Body
    BY DEF Body, GoodIds, kInvalidId, Velocity
  <2> QED
    BY <1>5, <1>6, <2>1 DEF EntitiesOk, WorldIsAlive, Sound, Distinct
<1>8. LiveIds' \subseteq LiveIds
  <2>1. LiveIds = {entities_[i].id : i \in 1..Len(entities_)}
    BY Entities DEF IInv
  <2>2. \A j \in 1..Len(entities_') : Own(entities_'[j])
    BY <1>5 DEF Sound
  <2>3. \A j \in 1..Len(entities_') : entities_'[j].id \in LiveIds
    BY <2>1, <2>2 DEF Own
  <2> QED
    BY <1>6, <2>3 DEF LiveIds
<1>9. IdsOk'
  BY <1>2, <1>8, IdsKept DEF IInv, Playing
<1>10. InputsOk'
  BY <1>2, InputsKept DEF IInv
<1>11. Steering
  BY <1>2, <1>5, <1>6, CoursesKept DEF IInv, Sound, inputVars
<1> QED
  BY <1>7, <1>8, <1>9, <1>10, <1>11 DEF IInv

-----------------------------------------------------------------------------
(* Players *)

\* The next id is that of nobody: the last time it was given out is too long ago.
LEMMA NextIdIsFree ==
  ASSUME IdsOk, created < MaxCreated
  PROVE  firstFreeId \in GoodIds /\ firstFreeId \notin Used
<1>1. /\ firstFreeId \in GoodIds /\ created \in Nat /\ created < kInvalidId
      /\ kInvalidId \in Nat
  BY Constants DEF IdsOk
<1>2. ~(Age(firstFreeId) <= created)
  BY <1>1 DEF Age, GoodIds
<1> QED
  BY <1>1, <1>2 DEF IdsOk

\* With the next id given out, every other one is an entity older.
LEMMA Aging ==
  ASSUME firstFreeId \in GoodIds, firstFreeId' = NextId(firstFreeId),
         NEW id \in GoodIds
  PROVE  Age(id)' = IF id = firstFreeId THEN 1 ELSE Age(id) + 1
<1>1. /\ kInvalidId \in Nat /\ kInvalidId >= 2
      /\ firstFreeId \in 0..kInvalidId - 1 /\ id \in 0..kInvalidId - 1
      /\ firstFreeId' = IF firstFreeId + 1 = kInvalidId THEN 0 ELSE firstFreeId + 1
  BY Constants, NextIds DEF GoodIds
<1>2. Age(id)' = IF id < firstFreeId' THEN firstFreeId' - id
                 ELSE firstFreeId' - id + kInvalidId
  BY DEF Age, kInvalidId
<1> HIDE DEF kInvalidId
<1> QED
  BY <1>1, <1>2 DEF Age

\* All ids in use are good ones.
LEMMA UsedAreGood ==
  ASSUME EntitiesOk, IdsOk
  PROVE  Used \subseteq GoodIds
<1>1. LiveIds \subseteq GoodIds
  <2>1. \A i \in 1..Len(entities_) : entities_[i] \in Body
    BY ElementOfSeq DEF EntitiesOk
  <2>2. \A i \in 1..Len(entities_) : entities_[i].id \in GoodIds
    BY <2>1 DEF Body
  <2> QED
    BY <2>2, Entities
<1>2. \A c \in Playing : entityId[c] \in GoodIds
  <2>1. Ids = GoodIds \union {kInvalidId}
    BY Constants DEF Ids, GoodIds
  <2> QED
    BY <2>1 DEF IdsOk, Playing
<1> QED
  BY <1>1, <1>2 DEF Used, IdsOk

\* connected
LEMMA ConnectedPreserves ==
  ASSUME IInv, NEW c \in Clients, connected(c)
  PROVE  /\ IInv' /\ Steering
         /\ LiveIds' = LiveIds \union {firstFreeId} /\ firstFreeId \notin Used
<1>1. PICK size \in StartSizes :
         entities_' = Append(entities_, Entity(firstFreeId, size))
  BY DEF connected, NewId
<1>2. /\ c \notin Playing /\ created < MaxCreated /\ created' = created + 1
      /\ firstFreeId' = NextId(firstFreeId)
      /\ entityId' = [entityId EXCEPT ![c] = firstFreeId]
      /\ botTargets_' = botTargets_ /\ inputs' = inputs
      /\ inputVars' = inputVars /\ got' = got
  BY DEF connected, NewId, inputVars
<1>3. firstFreeId \in GoodIds /\ firstFreeId \notin Used /\ Used \subseteq GoodIds
  BY <1>2, NextIdIsFree, UsedAreGood DEF IInv
<1> DEFINE e == Entity(firstFreeId, size)
           n == Len(entities_)
<1>4. e \in Body /\ e.id = firstFreeId /\ e.size >= MinSize
  <2>1. size \in Nat /\ size >= MinSize
    BY Constants
  <2> QED
    BY <1>3, <2>1, Constants DEF Entity, Body
<1>5. /\ entities_ \in Seq(Body) /\ Distinct(entities_) /\ n \in Nat
      /\ \A i \in 1..n : Own(entities_[i]) /\ entities_[i].size >= MinSize
      /\ \A i \in 1..n : entities_[i].id \in LiveIds
      /\ LiveIds = {entities_[i].id : i \in 1..n}
  BY Entities DEF IInv, EntitiesOk, WorldIsAlive, Sound
<1> HIDE DEF e
<1>6. /\ entities_' \in Seq(Body) /\ Len(entities_') = n + 1
      /\ \A i \in 1..n : entities_'[i] = entities_[i]
      /\ entities_'[n + 1] = e /\ DOMAIN entities_' = 1..n + 1
  <2>1. entities_' = Append(entities_, e)
    BY <1>1 DEF e
  <2>2. /\ entities_' \in Seq(Body) /\ Len(entities_') = n + 1
        /\ \A i \in 1..n : entities_'[i] = entities_[i]
        /\ entities_'[n + 1] = e
    BY <1>4, <1>5, <2>1, AppendProperties
  <2> QED
    BY <2>2, LenProperties
<1> HIDE DEF n
<1>7. \A i \in 1..n + 1 : i \in 1..n \/ i = n + 1
  BY <1>5
<1>8. LiveIds' = LiveIds \union {firstFreeId}
  <2>1. LiveIds' = {entities_'[i].id : i \in 1..n + 1}
    BY <1>6 DEF LiveIds
  <2>2. n + 1 \in 1..n + 1 /\ 1..n \subseteq 1..n + 1
    BY <1>5
  <2> QED
    BY <1>4, <1>5, <1>6, <1>7, <2>1, <2>2
<1>9. firstFreeId \notin LiveIds /\ firstFreeId \notin botTargets_
      /\ \A d \in Playing : entityId[d] # firstFreeId
  BY <1>3 DEF Used
<1>10. EntitiesOk'
  <2>1. Distinct(entities_')
    <3> SUFFICES ASSUME NEW i \in 1..n + 1, NEW j \in 1..n + 1,
                        entities_'[i].id = entities_'[j].id
                 PROVE  i = j
      BY <1>6 DEF Distinct
    <3>1. CASE i \in 1..n /\ j \in 1..n
      <4>1. entities_[i].id = entities_[j].id
        BY <1>6, <3>1
      <4> QED
        BY <1>5, <3>1, <4>1 DEF Distinct, n
    <3>2. CASE i = n + 1 /\ j = n + 1
      BY <3>2
    <3>3. CASE i \in 1..n /\ j = n + 1
      BY <1>4, <1>5, <1>6, <1>9, <3>3
    <3>4. CASE i = n + 1 /\ j \in 1..n
      BY <1>4, <1>5, <1>6, <1>9, <3>4
    <3> QED
      BY <1>7, <3>1, <3>2, <3>3, <3>4
  <2>2. \A i \in 1..n + 1 : entities_'[i].size >= MinSize
    BY <1>4, <1>5, <1>6, <1>7
  <2>3. entities_' # << >>
    <3>1. Len(<< >>) = 0 /\ Len(entities_') # 0
      BY <1>5, <1>6
    <3> QED
      BY <3>1
  <2>4. Body' = Body
    BY DEF Body, GoodIds, kInvalidId, Velocity
  <2> QED
    BY <1>6, <2>1, <2>2, <2>3, <2>4 DEF EntitiesOk, WorldIsAlive, Distinct
<1>11. /\ Playing' = Playing \union {c}
       /\ entityId' \in [Clients -> Ids] /\ entityId'[c] = firstFreeId
       /\ \A d \in Playing : d \in Clients /\ d # c /\ entityId'[d] = entityId[d]
  <2>1. firstFreeId \in Ids /\ firstFreeId # kInvalidId
    BY <1>3, Constants
  <2>2. entityId \in [Clients -> Ids]
    BY DEF IInv, IdsOk
  <2> QED
    BY <1>2, <2>1, <2>2 DEF Playing, kInvalidId
<1>12. IdsOk'
  <2>1. created \in Nat /\ created' \in kBots..MaxCreated
    BY <1>2, Constants DEF IInv, IdsOk
  <2>2. Used' = Used \union {firstFreeId}
    BY <1>2, <1>8, <1>11 DEF Used
  <2>3. ASSUME NEW id \in Used'
        PROVE  Age(id)' <= created'
    <3>1. id \in GoodIds
      BY <1>3, <2>2, <2>3
    <3>2. Age(id)' = IF id = firstFreeId THEN 1 ELSE Age(id) + 1
      BY <1>2, <1>3, <3>1, Aging
    <3>3. CASE id = firstFreeId
      BY <1>2, <2>1, <3>2, <3>3
    <3>4. CASE id # firstFreeId
      <4>1. Age(id) <= created /\ Age(id) \in Int
        <5>1. Age(id) \in Int
          BY <1>3, <3>1, Constants DEF Age, GoodIds
        <5> QED
          BY <2>2, <3>4, <5>1 DEF IInv, IdsOk
      <4> QED
        BY <1>2, <2>1, <3>2, <3>4, <4>1
    <3> QED
      BY <3>3, <3>4
  <2>4. firstFreeId' \in GoodIds /\ GoodIds' = GoodIds /\ Ids' = Ids
    BY <1>2, <1>3, NextIds DEF GoodIds, Ids, kInvalidId
  <2>5. \A d1, d2 \in Playing' : entityId'[d1] = entityId'[d2] => d1 = d2
    BY <1>9, <1>11 DEF IInv, IdsOk
  <2>6. \A d \in Playing' : entityId'[d] \notin botTargets_'
    BY <1>2, <1>9, <1>11 DEF IInv, IdsOk
  <2>7. \A id \in Used' : Age(id)' <= created'
    BY <2>3
  <2> QED
    BY <1>2, <1>11, <2>1, <2>4, <2>5, <2>6, <2>7 DEF IInv, IdsOk
<1>13. InputsOk'
  BY <1>2, InputsKept DEF IInv
<1>14. Steering
  <2>1. \A j \in DOMAIN entities_' :
           Own(entities_'[j]) \/ entities_'[j].id \notin LiveIds
    BY <1>4, <1>5, <1>6, <1>7, <1>9
  <2> QED
    BY <1>2, <2>1, CoursesKept DEF IInv
<1> QED
  BY <1>3, <1>8, <1>10, <1>12, <1>13, <1>14 DEF IInv

\* The game made anew: the bots have the next kBots ids and nobody else has one.
LEMMA ResetMakes ==
  ASSUME IInv, NEW sizes \in [1..kBots -> StartSizes], resetGame(firstFreeId, sizes),
         entityId' \in [Clients -> Ids], Playing' = {}
  PROVE  /\ EntitiesOk' /\ IdsOk' /\ inputs' = 0
         /\ \A j \in DOMAIN entities_' : entities_'[j].id \in botTargets_'
<1> DEFINE ids == NewIds(firstFreeId, kBots)
           first == firstFreeId
           M == kInvalidId
<1>1. /\ M \in Nat /\ M >= 2 /\ first \in 0..M - 1 /\ first \in GoodIds
      /\ kBots \in 1..M /\ kBots \in Nat /\ kBots < MaxCreated
      /\ MaxCreated \in Nat
  BY Constants DEF IInv, IdsOk, GoodIds
<1>2. ids = [k \in 1..kBots |-> Later(first, k - 1)]
  BY <1>1, NewIdsAre
<1>3. /\ entities_' = [k \in 1..kBots |-> Entity(ids[k], sizes[k])]
      /\ botTargets_' = Targets(ids)
      /\ firstFreeId' = NextId(ids[kBots])
      /\ created' = kBots /\ inputs' = 0
  BY DEF resetGame
<1> HIDE DEF ids
<1>4. ASSUME NEW k \in 1..kBots
      PROVE  /\ ids[k] = Later(first, k - 1) /\ ids[k] \in GoodIds
             /\ k # kBots => ids[k] # ids[kBots]
             /\ \A j \in 1..kBots : ids[j] = ids[k] => j = k
  <2>1. ids[k] = Later(first, k - 1) /\ ids[kBots] = Later(first, kBots - 1)
    BY <1>1, <1>2
  <2>2. \A j \in 1..kBots : ids[j] = Later(first, j - 1)
    BY <1>2
  <2>3. \A j \in 1..kBots : Later(first, j - 1) = Later(first, k - 1) => j = k
    <3> HIDE DEF first
    <3> QED
      BY <1>1 DEF Later
  <2>4. Later(first, k - 1) \in GoodIds
    <3> HIDE DEF first
    <3> QED
      BY <1>1 DEF Later, GoodIds
  <2> QED
    BY <1>1, <2>1, <2>2, <2>3, <2>4
<1>5. \A k \in 1..kBots : Entity(ids[k], sizes[k]) \in Body
                          /\ sizes[k] >= MinSize
  BY <1>4, Constants DEF Entity, Body
<1>6. /\ entities_' \in Seq(Body) /\ Len(entities_') = kBots
      /\ DOMAIN entities_' = 1..kBots
      /\ \A k \in 1..kBots : /\ entities_'[k].id = ids[k]
                             /\ entities_'[k].size = sizes[k]
  <2>1. entities_' \in Seq(Body)
    BY <1>1, <1>3, <1>5, IsASeq
  <2>2. DOMAIN entities_' = 1..kBots
    BY <1>3
  <2>3. \A k \in 1..kBots : entities_'[k] = Entity(ids[k], sizes[k])
    BY <1>3
  <2> QED
    BY <1>1, <2>1, <2>2, <2>3, LenProperties DEF Entity
<1>7. EntitiesOk'
  <2>1. Distinct(entities_')
    BY <1>4, <1>6 DEF Distinct
  <2>2. entities_' # << >>
    <3>1. Len(<< >>) = 0 /\ Len(entities_') # 0
      BY <1>1, <1>6
    <3> QED
      BY <3>1
  <2>3. Body' = Body
    BY DEF Body, GoodIds, kInvalidId, Velocity
  <2> QED
    BY <1>5, <1>6, <2>1, <2>2, <2>3 DEF EntitiesOk, WorldIsAlive, Distinct
<1>8. LiveIds' \subseteq {ids[k] : k \in 1..kBots}
      /\ botTargets_' = {ids[k] : k \in 1..kBots}
  <2>1. DOMAIN ids = 1..kBots
    BY <1>2
  <2> QED
    BY <1>3, <1>6, <2>1 DEF LiveIds, Targets, Range
<1>9. ASSUME NEW id, NEW k \in 1..kBots, id = ids[k]
      PROVE  Age(id)' <= kBots
  <2>1. /\ id = Later(first, k - 1)
        /\ firstFreeId' = NextId(Later(first, kBots - 1))
        /\ Later(first, kBots - 1) \in GoodIds
    BY <1>1, <1>3, <1>4, <1>9
  <2>2. firstFreeId' = IF Later(first, kBots - 1) + 1 = M THEN 0
                       ELSE Later(first, kBots - 1) + 1
    BY <2>1, NextIds
  <2> DEFINE free == firstFreeId'
  <2>3. Age(id)' = IF id < free THEN free - id ELSE free - id + M
    BY DEF Age, kInvalidId
  <2> HIDE DEF first, M, free
  <2>4. free = IF Later(first, kBots - 1) + 1 = M THEN 0 ELSE Later(first, kBots - 1) + 1
    BY <2>2 DEF free
  <2>5. /\ Later(first, k - 1) = IF first + (k - 1) < M THEN first + (k - 1)
                                ELSE first + (k - 1) - M
        /\ Later(first, kBots - 1) = IF first + (kBots - 1) < M THEN first + (kBots - 1)
                                    ELSE first + (kBots - 1) - M
    BY DEF Later, M
  <2> QED
    BY <1>1, <2>1, <2>3, <2>4, <2>5
<1>10. Used' \subseteq {ids[k] : k \in 1..kBots}
  BY <1>8 DEF Used
<1>11. firstFreeId' \in GoodIds /\ GoodIds' = GoodIds /\ Ids' = Ids
  BY <1>1, <1>3, <1>4, NextIds DEF GoodIds, Ids, kInvalidId
<1>12. IdsOk'
  <2>1. \A id \in Used' : Age(id)' <= created'
    <3> SUFFICES ASSUME NEW id \in Used'
                 PROVE  Age(id)' <= created'
      OBVIOUS
    <3>1. PICK k \in 1..kBots : id = ids[k]
      BY <1>10
    <3>2. Age(id)' <= kBots
      BY <1>9, <3>1
    <3> QED
      BY <1>3, <3>2
  <2>2. created' \in kBots..MaxCreated /\ botTargets_' \subseteq GoodIds
    BY <1>1, <1>3, <1>4, <1>8
  <2> QED
    BY <1>11, <2>1, <2>2 DEF IdsOk
<1>13. \A j \in DOMAIN entities_' : entities_'[j].id \in botTargets_'
  BY <1>6, <1>8
<1> QED
  BY <1>3, <1>7, <1>12, <1>13

-----------------------------------------------------------------------------
(* One player's inputs *)

\* What is known of the sequences of a line.
LEMMA LineFacts ==
  ASSUME NEW q \in Seq(State), NEW hist \in Seq(Speeds), QueueOk(q, hist)
  PROVE  /\ Len(q) \in Nat /\ Len(hist) \in Nat /\ Len(q) \in 1..Len(q) /\ 1 \in 1..Len(q)
         /\ \A n \in 1..Len(q) : q[n] \in State /\ q[n].epoch \in Nat
         /\ \A e \in 1..Len(hist) : hist[e] \in Speeds /\ hist[e] \in Velocity
         /\ front(q) = q[Len(q)] /\ front(q).epoch = Len(hist) /\ back(q) = q[1]
         /\ q[1].data = At(hist, q[1].epoch)
<1>1. Len(q) \in Nat /\ Len(hist) \in Nat /\ Len(q) \in 1..Len(q) /\ 1 \in 1..Len(q)
  BY LenProperties DEF QueueOk
<1>2. \A n \in 1..Len(q) : q[n] \in State
  BY ElementOfSeq
<1>3. \A n \in 1..Len(q) : q[n].epoch \in Nat
  BY <1>2 DEF State
<1>4. \A e \in 1..Len(hist) : hist[e] \in Speeds /\ hist[e] \in Velocity
  <2>1. \A e \in 1..Len(hist) : hist[e] \in Speeds
    BY ElementOfSeq
  <2> QED
    BY <2>1, Constants
<1>5. front(q) = q[Len(q)] /\ back(q) = q[1]
  BY DEF front, Last, back
<1>6. q[Len(q)].epoch = Len(hist) - Len(q) + Len(q) /\ q[1].data = At(hist, q[1].epoch)
  BY <1>1 DEF QueueOk
<1> QED
  BY <1>1, <1>2, <1>3, <1>4, <1>5, <1>6

\* A player that has sent nothing.
LEMMA FreshLine ==
  /\ DeltaSendQueue \in Seq(State)
  /\ LineOk(DeltaSendQueue, << >>, 0, << >>, << >>)
<1> DEFINE s == [epoch |-> 0, data |-> << >>]
<1>1. s \in State /\ s.epoch = 0 /\ s.data = << >>
  BY DEF State
<1>2. DeltaSendQueue = << s >>
  BY DEF DeltaSendQueue
<1> HIDE DEF s
<1>3. DeltaSendQueue \in Seq(State) /\ Len(DeltaSendQueue) = 1 /\ DeltaSendQueue[1] = s
  BY <1>1, <1>2
<1>4. QueueOk(DeltaSendQueue, << >>)
  <2>1. \A n \in 1..1 : n = 1
    OBVIOUS
  <2> QED
    BY <1>1, <1>3, <2>1 DEF QueueOk, At
<1> QED
  BY <1>1, <1>3, <1>4 DEF LineOk

\* A sequence and one more of its kind.
LEMMA Appended ==
  ASSUME NEW S, NEW s \in Seq(S), NEW x \in S
  PROVE  /\ Append(s, x) \in Seq(S) /\ Len(Append(s, x)) = Len(s) + 1 /\ Len(s) \in Nat
         /\ \A k \in 1..Len(s) : Append(s, x)[k] = s[k]
         /\ Append(s, x)[Len(s) + 1] = x
         /\ \A k \in 1..Len(s) + 1 : k \in 1..Len(s) \/ k = Len(s) + 1
BY AppendProperties, LenProperties

\* What is left of a sequence from its n-th element on.
LEMMA Rest ==
  ASSUME NEW S, NEW s \in Seq(S), NEW n \in 1..Len(s) + 1
  PROVE  /\ SubSeq(s, n, Len(s)) \in Seq(S) /\ Len(s) \in Nat
         /\ Len(SubSeq(s, n, Len(s))) = Len(s) - n + 1
         /\ \A k \in 1..Len(s) - n + 1 : /\ SubSeq(s, n, Len(s))[k] = s[n + k - 1]
                                         /\ n + k - 1 \in 1..Len(s)
<1>1. Len(s) \in Nat
  BY LenProperties
<1>2. \A i \in n..Len(s) : s[i] \in S
  <2>1. \A i \in n..Len(s) : i \in 1..Len(s)
    BY <1>1
  <2> QED
    BY <2>1, ElementOfSeq
<1>3. /\ SubSeq(s, n, Len(s)) \in Seq(S)
      /\ Len(SubSeq(s, n, Len(s))) = IF n <= Len(s) THEN Len(s) - n + 1 ELSE 0
      /\ \A k \in 1..Len(s) - n + 1 : SubSeq(s, n, Len(s))[k] = s[n + k - 1]
  BY <1>1, <1>2, SubSeqProperties
<1>4. \A k \in 1..Len(s) - n + 1 : n + k - 1 \in 1..Len(s)
  BY <1>1
<1> QED
  BY <1>1, <1>3, <1>4

\* An input stays a good one while more inputs are sent and older ones applied.
LEMMA InputStaysOk ==
  ASSUME NEW hist \in Seq(Speeds), NEW hist2 \in Seq(Speeds),
         NEW applied \in Nat, NEW applied2 \in Nat, NEW p \in Packet,
         InputOk(p, hist, applied), applied <= applied2, applied2 < p.epoch,
         Len(hist) <= Len(hist2), \A e \in 1..Len(hist) : hist2[e] = hist[e]
  PROVE  InputOk(p, hist2, applied2)
<1>1. Len(hist) \in Nat /\ Len(hist2) \in Nat /\ p.epoch \in Nat
  BY LenProperties DEF Packet
<1>2. p.epoch \in 1..Len(hist) /\ p.epoch <= Len(hist2) /\ p.total_bytes = VelSize
  BY <1>1 DEF InputOk
<1>3. hist2[p.epoch] = hist[p.epoch]
  BY <1>2
<1>4. \A e \in 1..applied : e \in 1..applied2 /\ hist2[e] = hist[e]
  BY <1>1, <1>2
<1>5. ASSUME NEW i \in 1..VelSize
      PROVE  IF i \in DOMAIN p.cont THEN p.cont[i] = hist2[p.epoch][i]
             ELSE \E e \in 1..applied2 : hist2[e][i] = hist2[p.epoch][i]
  BY <1>3, <1>4 DEF InputOk
<1> QED
  BY <1>2, <1>5 DEF InputOk

\* The delta a player sends has the bytes of its velocity that differ from one which
\* has been applied.
LEMMA SentInput ==
  ASSUME NEW q \in Seq(State), NEW hist \in Seq(Speeds), QueueOk(q, hist),
         NEW applied \in Nat, q[1].epoch <= applied, applied <= Len(hist),
         NEW speed \in Speeds
  PROVE  /\ StateDelta(q, speed) \in Packet
         /\ StateDelta(q, speed).epoch = Len(hist) + 1
         /\ InputOk(StateDelta(q, speed), Append(hist, speed), applied)
<1> DEFINE packet == StateDelta(q, speed)
           base == back(q).data
           changed == Changed(base, speed)
           b == q[1].epoch
           hist2 == Append(hist, speed)
<1>1. /\ Len(hist) \in Nat /\ b \in Nat /\ front(q).epoch = Len(hist)
      /\ base = At(hist, b) /\ speed \in Velocity
      /\ \A e \in 1..Len(hist) : hist[e] \in Velocity
  BY LineFacts, Constants
<1>2. /\ Len(hist2) = Len(hist) + 1 /\ hist2[Len(hist) + 1] = speed
      /\ \A e \in 1..Len(hist) : hist2[e] = hist[e]
  BY Appended
<1> HIDE DEF hist2
<1>3. /\ Len(speed) = VelSize /\ DOMAIN speed = 1..VelSize
      /\ \A i \in 1..VelSize : speed[i] \in Byte
  <2>1. VelSize \in Nat
    BY Constants
  <2>2. speed \in Seq(Byte) /\ DOMAIN speed = 1..VelSize
    BY <1>1, <2>1 DEF Velocity
  <2> QED
    BY <1>1, <2>1, <2>2, LenProperties DEF Velocity
<1>4. changed \subseteq 1..VelSize
      /\ \A i \in 1..VelSize : i \notin changed => i \in DOMAIN base /\ base[i] = speed[i]
  BY <1>3 DEF Changed
<1> DEFINE cont == [i \in changed |-> speed[i]]
<1>5. packet = [epoch |-> Len(hist) + 1, total_bytes |-> VelSize, cont |-> cont]
  BY <1>1, <1>3 DEF StateDelta, delta_encode
<1> HIDE DEF packet, base, changed
<1>6. cont \in [changed -> Byte] /\ DOMAIN cont = changed
      /\ \A i \in changed : cont[i] = speed[i]
  BY <1>3, <1>4
<1> HIDE DEF cont
<1>7. /\ packet.epoch = Len(hist) + 1 /\ packet.total_bytes = VelSize /\ packet.cont = cont
      /\ packet \in Packet
  BY <1>1, <1>4, <1>5, <1>6, Constants DEF Packet
<1>8. ASSUME NEW i \in 1..VelSize, i \notin changed
      PROVE  \E e \in 1..applied : hist2[e][i] = speed[i]
  <2>1. i \in DOMAIN base /\ base[i] = speed[i]
    BY <1>4, <1>8
  <2>2. b # 0
    BY <1>1, <2>1 DEF At
  <2>3. b \in 1..applied /\ b \in 1..Len(hist) /\ base = hist[b]
    BY <1>1, <2>2 DEF At
  <2> QED
    BY <1>2, <2>1, <2>3
<1>9. \A i \in 1..VelSize :
         IF i \in DOMAIN packet.cont THEN packet.cont[i] = hist2[packet.epoch][i]
         ELSE \E e \in 1..applied : hist2[e][i] = hist2[packet.epoch][i]
  BY <1>2, <1>6, <1>7, <1>8
<1>10. applied < packet.epoch /\ packet.epoch <= Len(hist2)
  <2> HIDE DEF b
  <2> QED
    BY <1>1, <1>2, <1>7
<1> QED
  BY <1>7, <1>9, <1>10 DEF InputOk, packet, hist2

\* The player sends one more.
LEMMA SendLine ==
  ASSUME NEW q \in Seq(State), NEW hist \in Seq(Speeds), NEW applied \in Nat,
         NEW srv \in Seq(Packet), NEW cl \in Seq(Nat), LineOk(q, hist, applied, srv, cl),
         NEW speed \in Speeds
  PROVE  /\ PushState(q, speed) \in Seq(State) /\ Append(hist, speed) \in Seq(Speeds)
         /\ Append(srv, StateDelta(q, speed)) \in Seq(Packet)
         /\ LineOk(PushState(q, speed), Append(hist, speed), applied,
                   Append(srv, StateDelta(q, speed)), cl)
<1> DEFINE hist2 == Append(hist, speed)
           s == [epoch |-> Len(hist) + 1, data |-> speed]
           q2 == Append(q, s)
           p == StateDelta(q, speed)
           srv2 == Append(srv, p)
<1>1. /\ QueueOk(q, hist) /\ q[1].epoch <= applied /\ applied <= Len(hist)
      /\ \A k \in 1..Len(srv) : InputOk(srv[k], hist, applied)
      /\ \A j, k \in 1..Len(srv) : j < k => srv[j].epoch < srv[k].epoch
      /\ \A k \in 1..Len(cl) : cl[k] <= applied
  BY DEF LineOk
<1>2. /\ Len(q) \in Nat /\ Len(hist) \in Nat /\ Len(q) >= 1
      /\ \A n \in 1..Len(q) : q[n].epoch \in Nat
      /\ front(q).epoch = Len(hist)
  BY <1>1, LineFacts
<1>3. PushState(q, speed) = q2
  BY <1>2 DEF PushState
<1>4. s \in State /\ s.epoch = Len(hist) + 1 /\ s.data = speed
  BY <1>2, Constants DEF State
<1> HIDE DEF s
<1>5. /\ hist2 \in Seq(Speeds) /\ Len(hist2) = Len(hist) + 1
      /\ hist2[Len(hist) + 1] = speed
      /\ \A e \in 1..Len(hist) : hist2[e] = hist[e]
  BY Appended
<1>6. /\ q2 \in Seq(State) /\ Len(q2) = Len(q) + 1 /\ q2[Len(q) + 1] = s
      /\ \A n \in 1..Len(q) : q2[n] = q[n]
      /\ \A n \in 1..Len(q) + 1 : n \in 1..Len(q) \/ n = Len(q) + 1
  BY <1>4, Appended
<1>7. p \in Packet /\ p.epoch = Len(hist) + 1 /\ InputOk(p, hist2, applied)
  BY <1>1, SentInput
<1> HIDE DEF p, hist2, q2
<1>8. /\ srv2 \in Seq(Packet) /\ Len(srv2) = Len(srv) + 1 /\ srv2[Len(srv) + 1] = p
      /\ \A k \in 1..Len(srv) : srv2[k] = srv[k]
      /\ \A k \in 1..Len(srv) + 1 : k \in 1..Len(srv) \/ k = Len(srv) + 1
      /\ Len(srv) \in Nat
  BY <1>7, Appended
<1>9. \A k \in 1..Len(srv) : srv[k] \in Packet /\ srv[k].epoch \in Nat
                            /\ applied < srv[k].epoch /\ srv[k].epoch <= Len(hist)
  <2>1. \A k \in 1..Len(srv) : srv[k] \in Packet
    BY ElementOfSeq
  <2> QED
    BY <1>1, <2>1 DEF Packet, InputOk
<1> HIDE DEF srv2
<1>10. QueueOk(q2, hist2)
  <2>1. ASSUME NEW n \in 1..Len(q)
        PROVE  q2[n].epoch = Len(hist2) - Len(q2) + n /\ q2[n].data = At(hist2, q2[n].epoch)
    <3>1. /\ q[n].epoch = Len(hist) - Len(q) + n /\ q[n].data = At(hist, q[n].epoch)
          /\ q[n].epoch \in Nat /\ q2[n] = q[n]
      BY <1>1, <1>2, <1>6 DEF QueueOk
    <3>2. q[n].epoch <= Len(hist)
      BY <1>2, <3>1
    <3>3. At(hist2, q[n].epoch) = At(hist, q[n].epoch)
      BY <1>2, <1>5, <3>1, <3>2 DEF At
    <3> QED
      BY <1>2, <1>5, <1>6, <3>1, <3>3
  <2>2. /\ q2[Len(q) + 1].epoch = Len(hist2) - Len(q2) + (Len(q) + 1)
        /\ q2[Len(q) + 1].data = At(hist2, q2[Len(q) + 1].epoch)
    BY <1>2, <1>4, <1>5, <1>6 DEF At
  <2>3. \A n \in 1..Len(q2) :
           /\ q2[n].epoch = Len(hist2) - Len(q2) + n
           /\ q2[n].data = At(hist2, q2[n].epoch)
    BY <1>6, <2>1, <2>2
  <2>4. Len(q2) >= 1
    BY <1>2, <1>6
  <2> QED
    BY <2>3, <2>4 DEF QueueOk
<1>11. \A k \in 1..Len(srv2) : InputOk(srv2[k], hist2, applied)
  <2>1. ASSUME NEW k \in 1..Len(srv)
        PROVE  InputOk(srv[k], hist2, applied)
    <3>1. /\ srv[k] \in Packet /\ InputOk(srv[k], hist, applied)
          /\ applied < srv[k].epoch
      BY <1>1, <1>9
    <3>2. applied <= applied /\ Len(hist) <= Len(hist2)
      BY <1>2, <1>5
    <3> QED
      BY <1>5, <3>1, <3>2, InputStaysOk
  <2> QED
    BY <1>7, <1>8, <2>1
<1>12. \A j, k \in 1..Len(srv2) : j < k => srv2[j].epoch < srv2[k].epoch
  <2> SUFFICES ASSUME NEW j \in 1..Len(srv) + 1, NEW k \in 1..Len(srv) + 1, j < k
               PROVE  srv2[j].epoch < srv2[k].epoch
    BY <1>8
  <2>1. j \in 1..Len(srv)
    BY <1>8
  <2>2. CASE k \in 1..Len(srv)
    BY <1>1, <1>8, <2>1, <2>2
  <2>3. CASE k = Len(srv) + 1
    BY <1>2, <1>7, <1>8, <1>9, <2>1, <2>3
  <2> QED
    BY <1>8, <2>2, <2>3
<1>13. q2[1].epoch <= applied /\ applied <= Len(hist2)
  BY <1>1, <1>2, <1>5, <1>6
<1>14. LineOk(q2, hist2, applied, srv2, cl)
  BY <1>1, <1>10, <1>11, <1>12, <1>13 DEF LineOk
<1> QED
  BY <1>3, <1>5, <1>6, <1>8, <1>14 DEF hist2, q2, srv2, p

\* Whatever is left on its way to the server when the k-th input has arrived is newer.
LEMMA DeliverLine ==
  ASSUME NEW q \in Seq(State), NEW hist \in Seq(Speeds), NEW applied \in Nat,
         NEW srv \in Seq(Packet), NEW cl \in Seq(Nat), LineOk(q, hist, applied, srv, cl),
         NEW k \in DOMAIN srv
  PROVE  /\ Newer(srv, k) \in Seq(Packet) /\ Append(cl, srv[k].epoch) \in Seq(Nat)
         /\ srv[k] \in Packet /\ InputOk(srv[k], hist, applied)
         /\ srv[k].epoch \in Nat /\ applied < srv[k].epoch
         /\ LineOk(q, hist, applied, Newer(srv, k), cl)
         /\ LineOk(q, hist, srv[k].epoch, Newer(srv, k), Append(cl, srv[k].epoch))
<1> DEFINE srv2 == Newer(srv, k)
           e == srv[k].epoch
           cl2 == Append(cl, e)
<1>1. /\ QueueOk(q, hist) /\ q[1].epoch <= applied /\ applied <= Len(hist)
      /\ \A j \in 1..Len(srv) : InputOk(srv[j], hist, applied)
      /\ \A i, j \in 1..Len(srv) : i < j => srv[i].epoch < srv[j].epoch
      /\ \A j \in 1..Len(cl) : cl[j] <= applied
  BY DEF LineOk
<1>2. /\ k \in 1..Len(srv) /\ Len(srv) \in Nat /\ k + 1 \in 1..Len(srv) + 1
      /\ Len(hist) \in Nat /\ q[1].epoch \in Nat
  BY <1>1, LenProperties, LineFacts
<1>3. /\ srv2 \in Seq(Packet) /\ Len(srv2) = Len(srv) - k
      /\ \A j \in 1..Len(srv) - k : srv2[j] = srv[k + j] /\ k + j \in 1..Len(srv)
  <2>1. srv2 = SubSeq(srv, k + 1, Len(srv))
    BY DEF Newer
  <2>2. /\ srv2 \in Seq(Packet) /\ Len(srv2) = Len(srv) - (k + 1) + 1
        /\ \A j \in 1..Len(srv) - (k + 1) + 1 :
              srv2[j] = srv[(k + 1) + j - 1] /\ (k + 1) + j - 1 \in 1..Len(srv)
    BY <1>2, <2>1, Rest
  <2>3. Len(srv) \in Int /\ k \in Int
    BY <1>2
  <2>4. Len(srv) - (k + 1) + 1 = Len(srv) - k
    BY <2>3
  <2> HIDE DEF srv2
  <2>5. ASSUME NEW j \in 1..Len(srv) - k
        PROVE  srv2[j] = srv[k + j] /\ k + j \in 1..Len(srv)
    <3>1. (k + 1) + j - 1 = k + j
      BY <2>3
    <3>2. j \in 1..Len(srv) - (k + 1) + 1
      BY <2>4
    <3>3. srv2[j] = srv[(k + 1) + j - 1] /\ (k + 1) + j - 1 \in 1..Len(srv)
      BY <2>2, <3>2
    <3> QED
      BY <3>1, <3>3
  <2> QED
    BY <2>2, <2>4, <2>5
<1> HIDE DEF srv2
<1>4. \A j \in 1..Len(srv) : srv[j] \in Packet /\ srv[j].epoch \in Nat
                            /\ applied < srv[j].epoch /\ srv[j].epoch <= Len(hist)
  <2>1. \A j \in 1..Len(srv) : srv[j] \in Packet
    BY ElementOfSeq
  <2> QED
    BY <1>1, <2>1 DEF Packet, InputOk
<1>5. e \in Nat /\ applied < e /\ e <= Len(hist)
  BY <1>2, <1>4
<1> HIDE DEF e
<1>6. /\ cl2 \in Seq(Nat) /\ Len(cl2) = Len(cl) + 1 /\ cl2[Len(cl) + 1] = e
      /\ \A j \in 1..Len(cl) : cl2[j] = cl[j] /\ cl[j] \in Nat
      /\ \A j \in 1..Len(cl) + 1 : j \in 1..Len(cl) \/ j = Len(cl) + 1
  BY <1>5, Appended, ElementOfSeq
<1> HIDE DEF cl2
<1>7. \A i, j \in 1..Len(srv2) : i < j => srv2[i].epoch < srv2[j].epoch
  <2> SUFFICES ASSUME NEW i \in 1..Len(srv) - k, NEW j \in 1..Len(srv) - k, i < j
               PROVE  srv2[i].epoch < srv2[j].epoch
    BY <1>3
  <2>1. k + i < k + j
    BY <1>2
  <2> QED
    BY <1>1, <1>3, <2>1
<1>8. \A j \in 1..Len(srv2) : InputOk(srv2[j], hist, applied)
  BY <1>1, <1>3
<1>9. LineOk(q, hist, applied, srv2, cl)
  BY <1>1, <1>7, <1>8 DEF LineOk
<1>10. \A j \in 1..Len(srv2) : InputOk(srv2[j], hist, e)
  <2> SUFFICES ASSUME NEW j \in 1..Len(srv) - k
               PROVE  InputOk(srv2[j], hist, e)
    BY <1>3
  <2>1. srv2[j] = srv[k + j] /\ k + j \in 1..Len(srv) /\ k < k + j
    BY <1>2, <1>3
  <2>2. e < srv2[j].epoch
    BY <1>1, <1>2, <2>1 DEF e
  <2>3. InputOk(srv2[j], hist, applied) /\ srv2[j] \in Packet
    BY <1>1, <1>4, <2>1
  <2> QED
    BY <1>2, <1>5, <2>2, <2>3, InputStaysOk
<1>11. \A j \in 1..Len(cl2) : cl2[j] <= e
  <2>1. ASSUME NEW j \in 1..Len(cl) + 1
        PROVE  cl2[j] <= e
    <3>1. CASE j = Len(cl) + 1
      BY <1>5, <1>6, <3>1
    <3>2. CASE j \in 1..Len(cl)
      <4>1. cl2[j] = cl[j] /\ cl[j] \in Nat /\ cl[j] <= applied
        BY <1>1, <1>6, <3>2
      <4> QED
        BY <1>5, <4>1
    <3> QED
      BY <1>6, <3>1, <3>2
  <2> QED
    BY <1>6, <2>1
<1>12. LineOk(q, hist, e, srv2, cl2)
  <2>1. q[1].epoch <= e /\ e <= Len(hist)
    BY <1>1, <1>2, <1>5
  <2> QED
    BY <1>1, <1>7, <1>10, <1>11, <2>1 DEF LineOk
<1> QED
  BY <1>1, <1>2, <1>3, <1>4, <1>5, <1>6, <1>9, <1>12 DEF e, srv2, cl2

\* A confirmation leaves in the queue the epochs from the confirmed one on.
LEMMA ConfirmLine ==
  ASSUME NEW q \in Seq(State), NEW hist \in Seq(Speeds), NEW applied \in Nat,
         NEW srv \in Seq(Packet), NEW cl \in Seq(Nat), LineOk(q, hist, applied, srv, cl),
         NEW k \in DOMAIN cl
  PROVE  /\ ReceiveConfirmation(q, cl[k]) \in Seq(State) /\ Newer(cl, k) \in Seq(Nat)
         /\ LineOk(ReceiveConfirmation(q, cl[k]), hist, applied, srv, Newer(cl, k))
<1> DEFINE n == Len(q)
           I == {i \in 1..n : q[i].epoch >= cl[k]}
           m == Min(I)
           r == SubSeq(q, m, n)
           cl2 == Newer(cl, k)
<1>1. /\ QueueOk(q, hist) /\ q[1].epoch <= applied /\ applied <= Len(hist)
      /\ \A j \in 1..Len(cl) : cl[j] <= applied
  BY DEF LineOk
<1>2. /\ n \in Nat /\ n \in 1..n /\ 1 \in 1..n /\ Len(hist) \in Nat
      /\ \A i \in 1..n : q[i].epoch \in Nat /\ q[i].epoch = Len(hist) - n + i
                         /\ q[i].data = At(hist, q[i].epoch)
  BY <1>1, LineFacts DEF QueueOk
<1>3. k \in 1..Len(cl) /\ Len(cl) \in Nat /\ cl[k] \in Nat /\ cl[k] <= applied
  BY <1>1, LenProperties, ElementOfSeq
<1>4. n \in I
  <2>1. q[n].epoch = Len(hist)
    BY <1>2
  <2>2. cl[k] <= Len(hist)
    BY <1>1, <1>2, <1>3
  <2> QED
    BY <1>2, <2>1, <2>2
<1>5. I \subseteq 1..n /\ I \subseteq Nat
  OBVIOUS
<1>6. \A i \in 1..n : q[i].epoch >= cl[k] => i \in I
  OBVIOUS
<1> HIDE DEF I
<1>7. m \in I /\ \A i \in I : m <= i
  BY <1>4, <1>5, LeastElement
<1>8. ReceiveConfirmation(q, cl[k]) = r
  <2>1. ReceiveConfirmation(q, cl[k]) =
           IF (IF I # {} THEN m ELSE 0) = 0 THEN << >>
           ELSE SubSeq(q, IF I # {} THEN m ELSE 0, Len(q))
    BY DEF ReceiveConfirmation, SelectInSeq, I
  <2>2. I # {} /\ m # 0
    BY <1>5, <1>7
  <2> HIDE DEF m
  <2> QED
    BY <2>1, <2>2
<1> HIDE DEF m
<1>9. m \in 1..n /\ m \in 1..n + 1
  BY <1>2, <1>5, <1>7
<1>10. /\ r \in Seq(State) /\ Len(r) = n - m + 1
       /\ \A j \in 1..n - m + 1 : r[j] = q[m + j - 1] /\ m + j - 1 \in 1..n
  BY <1>9, Rest
<1> HIDE DEF r, n
<1>11. q[m].epoch <= applied
  <2>1. CASE m = 1
    BY <1>1, <2>1
  <2>2. CASE m # 1
    <3>1. m - 1 \in 1..n /\ ~(m <= m - 1)
      BY <1>2, <1>9, <2>2
    <3>2. ~(q[m - 1].epoch >= cl[k])
      BY <1>6, <1>7, <3>1
    <3>3. q[m].epoch = q[m - 1].epoch + 1 /\ q[m - 1].epoch \in Nat
      BY <1>2, <1>9, <3>1
    <3> QED
      BY <1>3, <3>2, <3>3
  <2> QED
    BY <2>1, <2>2
<1>12. QueueOk(r, hist) /\ r[1] = q[m]
  <2>1. Len(r) >= 1 /\ r[1] = q[m]
    BY <1>2, <1>9, <1>10
  <2>2. ASSUME NEW j \in 1..Len(r)
        PROVE  r[j].epoch = Len(hist) - Len(r) + j /\ r[j].data = At(hist, r[j].epoch)
    <3>1. r[j] = q[m + j - 1] /\ m + j - 1 \in 1..n
      BY <1>10
    <3>2. Len(hist) - n + (m + j - 1) = Len(hist) - Len(r) + j
      BY <1>2, <1>9, <1>10
    <3> QED
      BY <1>2, <3>1, <3>2
  <2> QED
    BY <2>1, <2>2 DEF QueueOk
<1>13. cl2 \in Seq(Nat) /\ \A j \in 1..Len(cl2) : cl2[j] <= applied
  <2>1. k + 1 \in 1..Len(cl) + 1
    BY <1>3
  <2>2. /\ cl2 \in Seq(Nat) /\ Len(cl2) = Len(cl) - (k + 1) + 1
        /\ \A j \in 1..Len(cl) - (k + 1) + 1 :
              cl2[j] = cl[(k + 1) + j - 1] /\ (k + 1) + j - 1 \in 1..Len(cl)
    BY <2>1, Rest DEF Newer
  <2> HIDE DEF cl2
  <2> QED
    BY <1>1, <2>2
<1> HIDE DEF cl2
<1>14. LineOk(r, hist, applied, srv, cl2)
  BY <1>1, <1>11, <1>12, <1>13 DEF LineOk
<1> QED
  BY <1>8, <1>10, <1>13, <1>14 DEF cl2

\* What comes out of a delta has the bytes of the input, and those of the old velocity
\* where an input that has been applied had the same.
LEMMA Applied ==
  ASSUME NEW hist \in Seq(Speeds), NEW applied \in Nat, NEW p \in Packet,
         InputOk(p, hist, applied), NEW old \in Velocity,
         NEW v, v = delta_apply(old, p.cont, p.total_bytes)
  PROVE  /\ v \in Velocity
         /\ \A i \in 1..VelSize :
               \/ v[i] = hist[p.epoch][i]
               \/ /\ v[i] = old[i]
                  /\ \E e \in 1..applied : hist[e][i] = hist[p.epoch][i]
<1>1. /\ p.total_bytes = VelSize
      /\ \A i \in 1..VelSize :
            IF i \in DOMAIN p.cont THEN p.cont[i] = hist[p.epoch][i]
            ELSE \E e \in 1..applied : hist[e][i] = hist[p.epoch][i]
  BY DEF InputOk
<1>2. \A i \in DOMAIN p.cont : p.cont[i] \in Byte
  BY DEF Packet
<1>3. DOMAIN old = 1..VelSize /\ \A i \in 1..VelSize : old[i] \in Byte
  BY DEF Velocity
<1>4. v = [i \in 1..VelSize |-> IF i \in DOMAIN p.cont THEN p.cont[i] ELSE old[i]]
  BY <1>1, <1>3 DEF delta_apply
<1>5. v \in Velocity
  BY <1>2, <1>3, <1>4 DEF Velocity
<1>6. ASSUME NEW i \in 1..VelSize
      PROVE  \/ v[i] = hist[p.epoch][i]
             \/ v[i] = old[i] /\ \E e \in 1..applied : hist[e][i] = hist[p.epoch][i]
  BY <1>1, <1>4
<1> QED
  BY <1>5, <1>6

-----------------------------------------------------------------------------
(* disconnected, and input *)

\* A step that touches one player's inputs only.
LEMMA OneLine ==
  ASSUME InputsOk, NEW c \in Clients, InputTypes', Line(c)', inputs' \in 0..MaxInputs,
         \A d \in Clients \ {c} :
            /\ queue'[d] = queue[d] /\ chosen'[d] = chosen[d] /\ got'[d] = got[d]
            /\ to_server'[d] = to_server[d] /\ to_client'[d] = to_client[d]
  PROVE  InputsOk'
<1>1. ASSUME NEW d \in Clients
      PROVE  Line(d)'
  <2>1. CASE d = c
    BY <2>1
  <2>2. CASE d # c
    BY <2>2 DEF InputsOk, Line
  <2> QED
    BY <2>1, <2>2
<1> QED
  BY <1>1 DEF InputsOk

\* Entities when they are as they were.
LEMMA EntitiesKept ==
  ASSUME EntitiesOk, UNCHANGED entities_
  PROVE  EntitiesOk' /\ LiveIds' = LiveIds
<1>1. WorldIsAlive' /\ Body' = Body /\ LiveIds' = LiveIds
  BY DEF EntitiesOk, WorldIsAlive, Body, GoodIds, kInvalidId, Velocity, LiveIds
<1> QED
  BY <1>1 DEF EntitiesOk, Distinct

\* disconnected
LEMMA DisconnectedPreserves ==
  ASSUME IInv, NEW c \in Clients, disconnected(c)
  PROVE  IInv' /\ (Playing' # {} => LiveIds' = LiveIds) /\ Steering
<1>1. /\ c \in Playing
      /\ entityId' = [entityId EXCEPT ![c] = kInvalidId]
      /\ queue' = [queue EXCEPT ![c] = DeltaSendQueue]
      /\ to_server' = [to_server EXCEPT ![c] = << >>]
      /\ to_client' = [to_client EXCEPT ![c] = << >>]
      /\ chosen' = [chosen EXCEPT ![c] = << >>] /\ got' = [got EXCEPT ![c] = 0]
  BY DEF disconnected
<1>2. entityId \in [Clients -> Ids] /\ kInvalidId \in Ids
  BY Constants DEF IInv, IdsOk
<1>3. /\ entityId' \in [Clients -> Ids] /\ Playing' = Playing \ {c}
      /\ \A d \in Playing' : d \in Clients /\ entityId'[d] = entityId[d]
  BY <1>1, <1>2 DEF Playing, kInvalidId
<1>4. ASSUME inputs' \in 0..MaxInputs
      PROVE  InputsOk'
  <2>1. InputTypes
    BY DEF IInv, InputsOk
  <2>2. /\ InputTypes' /\ queue'[c] = DeltaSendQueue /\ chosen'[c] = << >> /\ got'[c] = 0
        /\ to_server'[c] = << >> /\ to_client'[c] = << >>
    <3>1. << >> \in Seq(Packet) /\ << >> \in Seq(Nat) /\ << >> \in Seq(Speeds)
      OBVIOUS
    <3>2. State' = State /\ Packet' = Packet
      BY DEF State, Packet, Velocity
    <3> QED
      BY <1>1, <2>1, <3>1, <3>2, FreshLine DEF InputTypes
  <2>3. Line(c)'
    BY <2>2, FreshLine DEF Line
  <2> QED
    BY <1>1, <1>4, <2>1, <2>2, <2>3, OneLine DEF IInv, InputTypes
<1>5. \A d \in Playing : got'[d] # got[d] => d \notin Playing'
  <2>1. got \in [Clients -> Nat] /\ Playing \subseteq Clients
    BY DEF IInv, InputsOk, InputTypes, Playing
  <2> QED
    BY <1>1, <1>3, <2>1
<1>6. CASE Playing = {c}
  <2>1. PICK sizes \in [1..kBots -> StartSizes] : resetGame(firstFreeId, sizes)
    BY <1>6 DEF disconnected
  <2>2. Playing' = {}
    BY <1>3, <1>6
  <2>3. /\ EntitiesOk' /\ IdsOk' /\ inputs' = 0
        /\ \A j \in DOMAIN entities_' : entities_'[j].id \in botTargets_'
    BY <1>3, <2>1, <2>2, ResetMakes
  <2>4. 0 \in 0..MaxInputs
    BY Constants
  <2>5. Steering
    BY <1>5, <2>3, CoursesKept DEF IInv
  <2> QED
    BY <1>4, <2>2, <2>3, <2>4, <2>5 DEF IInv
<1>7. CASE Playing # {c}
  <2>1. UNCHANGED <<entities_, firstFreeId, botTargets_, created, inputs>>
    BY <1>7 DEF disconnected
  <2>2. EntitiesOk' /\ LiveIds' = LiveIds
    BY <2>1, EntitiesKept DEF IInv
  <2>3. IdsOk'
    <3>1. Used' \subseteq Used
      BY <1>3, <2>1, <2>2 DEF Used
    <3>2. \A id : Age(id)' = Age(id)
      BY <2>1 DEF Age, kInvalidId
    <3>3. GoodIds' = GoodIds /\ Ids' = Ids
      BY DEF GoodIds, Ids, kInvalidId
    <3>4. \A id \in Used' : Age(id)' <= created'
      BY <2>1, <3>1, <3>2 DEF IInv, IdsOk
    <3>5. /\ \A d1, d2 \in Playing' : entityId'[d1] = entityId'[d2] => d1 = d2
          /\ \A d \in Playing' : entityId'[d] \notin botTargets_'
      BY <1>3, <2>1 DEF IInv, IdsOk
    <3> QED
      BY <1>3, <2>1, <3>3, <3>4, <3>5 DEF IInv, IdsOk
  <2>4. InputsOk'
    BY <1>4, <2>1 DEF IInv, InputsOk
  <2>5. Steering
    BY <1>5, <2>1, NobodyMoves DEF IInv
  <2> QED
    BY <2>2, <2>3, <2>4, <2>5 DEF IInv
<1> QED
  BY <1>6, <1>7

\* SendInput
LEMMA SendInputPreserves ==
  ASSUME IInv, NEW c \in Clients, SendInput(c)
  PROVE  IInv' /\ LiveIds' = LiveIds /\ Steering
<1>1. /\ InputTypes /\ Line(c) /\ inputs \in 0..MaxInputs /\ MaxInputs \in Nat
  BY Constants DEF IInv, InputsOk
<1>2. PICK speed \in Speeds :
         /\ to_server' = [to_server EXCEPT ![c] = Append(to_server[c],
                                                        StateDelta(queue[c], speed))]
         /\ queue' = [queue EXCEPT ![c] = PushState(queue[c], speed)]
         /\ chosen' = [chosen EXCEPT ![c] = Append(chosen[c], speed)]
  BY <1>1 DEF SendInput, InputTypes
<1>3. /\ inputs < MaxInputs /\ inputs' = inputs + 1
      /\ UNCHANGED <<entities_, firstFreeId, botTargets_, entityId, to_client, got, created>>
  BY DEF SendInput
<1>4. /\ PushState(queue[c], speed) \in Seq(State) /\ Append(chosen[c], speed) \in Seq(Speeds)
      /\ Append(to_server[c], StateDelta(queue[c], speed)) \in Seq(Packet)
      /\ LineOk(PushState(queue[c], speed), Append(chosen[c], speed), got[c],
                Append(to_server[c], StateDelta(queue[c], speed)), to_client[c])
  BY <1>1, SendLine DEF InputTypes, Line
<1>5. InputTypes' /\ Line(c)'
  <2>1. State' = State /\ Packet' = Packet
    BY DEF State, Packet, Velocity
  <2>2. InputTypes'
    BY <1>1, <1>2, <1>3, <1>4, <2>1 DEF InputTypes
  <2>3. /\ queue'[c] = PushState(queue[c], speed) /\ chosen'[c] = Append(chosen[c], speed)
        /\ to_server'[c] = Append(to_server[c], StateDelta(queue[c], speed))
    BY <1>1, <1>2 DEF InputTypes
  <2> QED
    BY <1>3, <1>4, <2>2, <2>3 DEF Line
<1>6. inputs' \in 0..MaxInputs
  BY <1>1, <1>3
<1>7. InputsOk'
  BY <1>1, <1>2, <1>3, <1>5, <1>6, OneLine DEF IInv, InputTypes
<1>8. EntitiesOk' /\ LiveIds' = LiveIds /\ Playing' = Playing
  BY <1>3, EntitiesKept DEF IInv, Playing, kInvalidId
<1>9. IdsOk'
  BY <1>3, <1>8, IdsKept DEF IInv
<1>10. Steering
  BY <1>3, NobodyMoves DEF IInv
<1> QED
  BY <1>7, <1>8, <1>9, <1>10 DEF IInv

\* Where entityById finds an entity.
LEMMA Found ==
  ASSUME EntitiesOk, NEW id
  PROVE  LET at == entityById(id)
         IN  /\ at \in DOMAIN entities_ => at \in 1..Len(entities_) /\ entities_[at].id = id
             /\ at \notin DOMAIN entities_ => id \notin LiveIds
<1> DEFINE at == entityById(id)
           n == Len(entities_)
           I == {i \in 1..n : entities_[i].id = id}
<1>1. DOMAIN entities_ = 1..n /\ LiveIds = {entities_[i].id : i \in 1..n}
  BY Entities
<1>2. at = IF I # {} THEN Min(I) ELSE 0
  BY DEF entityById, SelectInSeq
<1>3. I # {} => Min(I) \in I
  <2>1. I \subseteq Nat
    OBVIOUS
  <2> HIDE DEF I
  <2> QED
    BY <2>1, LeastElement
<1>4. CASE I = {}
  <2>1. at = 0
    BY <1>2, <1>4
  <2>2. \A i \in 1..n : entities_[i].id # id
    BY <1>4
  <2> QED
    BY <1>1, <2>1, <2>2
<1>5. CASE I # {}
  <2>1. at \in I
    <3> HIDE DEF I
    <3> QED
      BY <1>2, <1>3, <1>5
  <2> QED
    BY <1>1, <2>1
<1> QED
  BY <1>4, <1>5

\* The server applies an input.
LEMMA HandleStateDeltaPreserves ==
  ASSUME IInv, NEW c \in Clients, NEW k \in DOMAIN to_server[c], HandleStateDelta(c, k)
  PROVE  IInv' /\ LiveIds' = LiveIds /\ Steering
<1> DEFINE at == entityById(entityId[c])
           n == Len(entities_)
           packet == to_server[c][k]
           left == Newer(to_server[c], k)
           confirmed == Append(to_client[c], packet.epoch)
<1>1. /\ InputTypes /\ Line(c) /\ inputs \in 0..MaxInputs
  BY DEF IInv, InputsOk
<1>2. /\ c \in Playing /\ to_server' = [to_server EXCEPT ![c] = left]
      /\ UNCHANGED <<firstFreeId, botTargets_, entityId, queue, chosen, created, inputs>>
  BY <1>1 DEF HandleStateDelta, InputTypes
<1>3. /\ left \in Seq(Packet) /\ confirmed \in Seq(Nat)
      /\ packet \in Packet /\ InputOk(packet, chosen[c], got[c])
      /\ packet.epoch \in Nat /\ got[c] < packet.epoch
      /\ LineOk(queue[c], chosen[c], got[c], left, to_client[c])
      /\ LineOk(queue[c], chosen[c], packet.epoch, left, confirmed)
  BY <1>1, DeliverLine DEF InputTypes, Line
<1>4. /\ entities_ \in Seq(Body) /\ n \in Nat /\ DOMAIN entities_ = 1..n
      /\ Distinct(entities_) /\ LiveIds = {entities_[i].id : i \in 1..n}
      /\ \A i \in 1..n : entities_[i].size >= MinSize /\ Own(entities_[i])
      /\ entities_ # << >>
  BY Entities DEF IInv, EntitiesOk, WorldIsAlive, Sound
<1>5. \A i \in 1..n : entities_[i] \in Body
  BY <1>4, ElementOfSeq
<1>6. Playing' = Playing /\ State' = State /\ Packet' = Packet
  BY <1>2 DEF Playing, kInvalidId, State, Packet, Velocity
<1>7. got \in [Clients -> Nat] /\ chosen[c] \in Seq(Speeds)
  BY <1>1 DEF InputTypes
<1>8. CASE at \notin DOMAIN entities_
  <2>1. UNCHANGED <<entities_, to_client, got>>
    BY <1>8 DEF HandleStateDelta
  <2>2. InputTypes'
    BY <1>1, <1>2, <1>3, <1>6, <2>1 DEF InputTypes
  <2>3. Line(c)'
    BY <1>1, <1>2, <1>3, <2>1 DEF Line, InputTypes
  <2>4. InputsOk'
    BY <1>1, <1>2, <2>1, <2>2, <2>3, OneLine DEF IInv, InputTypes
  <2>5. EntitiesOk' /\ LiveIds' = LiveIds
    BY <1>2, <2>1, EntitiesKept DEF IInv
  <2>6. IdsOk'
    BY <1>2, <1>6, <2>5, IdsKept DEF IInv
  <2>7. Steering
    BY <1>2, <2>1, NobodyMoves DEF IInv
  <2> QED
    BY <2>4, <2>5, <2>6, <2>7 DEF IInv
<1>9. CASE at \in DOMAIN entities_
  <2> DEFINE e == entities_[at]
             v == delta_apply(e.vel, packet.cont, packet.total_bytes)
             w == Normalised(v)
  <2>1. /\ entities_' = [entities_ EXCEPT ![at].vel = w]
        /\ to_client' = [to_client EXCEPT ![c] = confirmed]
        /\ got' = [got EXCEPT ![c] = packet.epoch]
    BY <1>1, <1>9 DEF HandleStateDelta, InputTypes
  <2>2. InputTypes'
    BY <1>1, <1>2, <1>3, <1>6, <2>1 DEF InputTypes
  <2>3. Line(c)'
    BY <1>1, <1>2, <1>3, <2>1 DEF Line, InputTypes
  <2>4. InputsOk'
    BY <1>1, <1>2, <2>1, <2>2, <2>3, OneLine DEF IInv, InputTypes
  <2>5. at \in 1..n /\ e.id = entityId[c] /\ e \in Body /\ e.vel \in Velocity
    <3>1. at \in 1..n /\ e.id = entityId[c]
      BY <1>9, Found DEF IInv
    <3> QED
      BY <1>5, <3>1 DEF Body
  <2>6. /\ v \in Velocity
        /\ \A i \in 1..VelSize :
              \/ v[i] = chosen[c][packet.epoch][i]
              \/ /\ v[i] = e.vel[i]
                 /\ \E x \in 1..got[c] : chosen[c][x][i] = chosen[c][packet.epoch][i]
    <3>1. v = delta_apply(e.vel, packet.cont, packet.total_bytes)
      OBVIOUS
    <3> HIDE DEF at, e, packet, v
    <3>2. packet \in Packet /\ InputOk(packet, chosen[c], got[c])
      BY <1>3
    <3>3. got[c] \in Nat /\ chosen[c] \in Seq(Speeds) /\ e.vel \in Velocity
      BY <1>7, <2>5
    <3> QED
      BY <3>1, <3>2, <3>3, Applied
  <2> HIDE DEF v
  <2>7. w \in Velocity
    BY <2>6, Constants DEF Normalised
  <2> HIDE DEF w, at, left, confirmed
  <2>8. /\ entities_' = [i \in 1..n |-> entities_'[i]] /\ DOMAIN entities_' = 1..n
        /\ entities_'[at] = [e EXCEPT !.vel = w]
        /\ \A i \in 1..n \ {at} : entities_'[i] = entities_[i]
    BY <1>4, <2>1, <2>5
  <2> HIDE DEF e
  <2>9. /\ entities_'[at] \in Body /\ entities_'[at].id = e.id
        /\ entities_'[at].size = e.size /\ entities_'[at].vel = w
    BY <2>5, <2>7, <2>8 DEF Body
  <2>10. \A i \in 1..n : /\ entities_'[i] \in Body
                         /\ entities_'[i].id = entities_[i].id
                         /\ entities_'[i].size = entities_[i].size
                         /\ i # at => entities_'[i] = entities_[i]
    BY <1>5, <2>8, <2>9 DEF e
  <2>11. entities_' \in Seq(Body) /\ Len(entities_') = n
    <3>1. entities_' \in Seq(Body)
      BY <1>4, <2>8, <2>10, IsASeq
    <3> QED
      BY <1>4, <2>8, <3>1, LenProperties
  <2>12. EntitiesOk'
    <3>1. Distinct(entities_')
      BY <1>4, <2>10, <2>11 DEF Distinct
    <3>2. entities_' # << >>
      <4>1. Len(<< >>) = 0 /\ Len(entities_') # 0
        BY <1>4, <2>5, <2>11
      <4> QED
        BY <4>1
    <3>3. WorldIsAlive'
      BY <1>4, <2>8, <2>10, <3>2 DEF WorldIsAlive
    <3>4. Body' = Body
      BY DEF Body, GoodIds, kInvalidId, Velocity
    <3> QED
      BY <2>11, <3>1, <3>3, <3>4 DEF EntitiesOk, Distinct
  <2>13. LiveIds' = LiveIds
    BY <1>4, <2>8, <2>10 DEF LiveIds
  <2>14. IdsOk'
    BY <1>2, <1>6, <2>13, IdsKept DEF IInv
  <2>15. got'[c] = packet.epoch /\ \A d \in Clients \ {c} : got'[d] = got[d]
    BY <1>7, <2>1
  <2>16. SteeredByOwner
    <3>1. SUFFICES ASSUME NEW i \in 1..n, NEW j \in 1..n,
                          entities_'[j].id = entities_[i].id,
                          entities_'[j].vel # entities_[i].vel
                   PROVE  entityId[c] = entities_[i].id /\ got'[c] > got[c]
      BY <1>2, <1>4, <2>8 DEF SteeredByOwner
    <3>2. i = j
      BY <1>4, <2>10, <3>1 DEF Distinct
    <3>3. i = at
      BY <2>10, <3>1, <3>2
    <3>4. packet.epoch > got[c] /\ got[c] \in Nat
      BY <1>3, <1>7
    <3> QED
      BY <2>5, <2>15, <3>3, <3>4 DEF e
  <2>17. ASSUME NEW d \in Playing, NEW i \in DOMAIN entities_
         PROVE  TakesEffect(d, i)
    <3>1. SUFFICES ASSUME got'[d] # got[d], entities_[i].id = entityId[d]
                   PROVE  \E x \in Velocity : /\ Mixed(d, entities_[i].vel, x)
                                              /\ entities_'[i].vel = Normalised(x)
      BY DEF TakesEffect
    <3>2. d = c
      BY <2>15, <3>1 DEF Playing
    <3>3. i = at /\ entities_[i] = e
      BY <1>4, <2>5, <3>1, <3>2 DEF Distinct, e
    <3>4. Mixed(c, e.vel, v)
      BY <2>6, <2>15 DEF Mixed
    <3>5. entities_'[i].vel = Normalised(v)
      BY <2>9, <3>3 DEF w
    <3> QED
      BY <2>6, <3>2, <3>3, <3>4, <3>5
  <2> QED
    BY <2>4, <2>12, <2>13, <2>14, <2>16, <2>17 DEF IInv, Steering
<1> QED
  BY <1>8, <1>9

\* The client takes a confirmation.
LEMMA ConfirmationPreserves ==
  ASSUME IInv, NEW c \in Clients, NEW k \in DOMAIN to_client[c],
         HandleStateDeltaConfirmation(c, k)
  PROVE  IInv' /\ LiveIds' = LiveIds /\ Steering
<1> DEFINE q == ReceiveConfirmation(queue[c], to_client[c][k])
           left == Newer(to_client[c], k)
<1>1. InputTypes /\ Line(c) /\ inputs \in 0..MaxInputs
  BY DEF IInv, InputsOk
<1>2. /\ queue' = [queue EXCEPT ![c] = q] /\ to_client' = [to_client EXCEPT ![c] = left]
      /\ UNCHANGED <<entities_, firstFreeId, botTargets_, entityId, to_server, chosen,
                     got, created, inputs>>
  BY <1>1 DEF HandleStateDeltaConfirmation, InputTypes
<1>3. /\ q \in Seq(State) /\ left \in Seq(Nat)
      /\ LineOk(q, chosen[c], got[c], to_server[c], left)
  BY <1>1, ConfirmLine DEF InputTypes, Line
<1> HIDE DEF q, left
<1>4. InputTypes' /\ Line(c)'
  <2>1. State' = State /\ Packet' = Packet
    BY DEF State, Packet, Velocity
  <2>2. InputTypes'
    BY <1>1, <1>2, <1>3, <2>1 DEF InputTypes
  <2>3. queue'[c] = q /\ to_client'[c] = left
    BY <1>1, <1>2 DEF InputTypes
  <2> QED
    BY <1>2, <1>3, <2>2, <2>3 DEF Line
<1>5. InputsOk'
  BY <1>1, <1>2, <1>4, OneLine DEF IInv, InputTypes
<1>6. EntitiesOk' /\ LiveIds' = LiveIds /\ Playing' = Playing
  BY <1>2, EntitiesKept DEF IInv, Playing, kInvalidId
<1>7. IdsOk'
  BY <1>2, <1>6, IdsKept DEF IInv
<1>8. Steering
  BY <1>2, NobodyMoves DEF IInv
<1> QED
  BY <1>5, <1>6, <1>7, <1>8 DEF IInv

-----------------------------------------------------------------------------
(* The specification *)

LEMMA InitEstablishes == Init => IInv
<1>1. SUFFICES ASSUME Init
               PROVE  IInv
  OBVIOUS
<1>2. PICK sizes \in [1..kBots -> StartSizes] :
         /\ entities_ = [k \in 1..kBots |-> Entity(k - 1, sizes[k])]
         /\ botTargets_ = 0..kBots - 1 /\ firstFreeId = NextId(kBots - 1)
  BY <1>1 DEF Init
<1>3. /\ entityId = [c \in Clients |-> kInvalidId]
      /\ queue = [c \in Clients |-> DeltaSendQueue]
      /\ to_server = [c \in Clients |-> << >>] /\ to_client = [c \in Clients |-> << >>]
      /\ chosen = [c \in Clients |-> << >>] /\ got = [c \in Clients |-> 0]
      /\ created = kBots /\ inputs = 0
  BY <1>1 DEF Init
<1>4. /\ kInvalidId \in Nat /\ kBots \in Nat /\ 1 <= kBots /\ kBots < kInvalidId
      /\ MaxCreated \in Nat /\ kBots < MaxCreated /\ MaxInputs \in Nat
      /\ kInvalidId \in Ids
  BY Constants
<1>5. \A k \in 1..kBots : /\ Entity(k - 1, sizes[k]) \in Body
                          /\ sizes[k] >= MinSize
  <2> HIDE DEF kInvalidId
  <2>1. \A k \in 1..kBots : k - 1 \in GoodIds
    BY <1>4 DEF GoodIds
  <2>2. \A k \in 1..kBots : sizes[k] \in Nat /\ sizes[k] >= MinSize
    BY Constants
  <2> QED
    BY <2>1, <2>2, Constants DEF Entity, Body
<1>6. /\ entities_ \in Seq(Body) /\ Len(entities_) = kBots
      /\ DOMAIN entities_ = 1..kBots
      /\ \A k \in 1..kBots : /\ entities_[k].id = k - 1
                             /\ entities_[k].size = sizes[k]
  <2>1. entities_ \in Seq(Body)
    BY <1>2, <1>4, <1>5, IsASeq
  <2>2. DOMAIN entities_ = 1..kBots
    BY <1>2
  <2>3. \A k \in 1..kBots : entities_[k] = Entity(k - 1, sizes[k])
    BY <1>2
  <2> QED
    BY <1>4, <2>1, <2>2, <2>3, LenProperties DEF Entity
<1>7. EntitiesOk
  <2>1. Distinct(entities_)
    BY <1>4, <1>6 DEF Distinct
  <2>2. entities_ # << >>
    <3>1. Len(<< >>) = 0 /\ Len(entities_) # 0
      BY <1>4, <1>6
    <3> QED
      BY <3>1
  <2> QED
    BY <1>5, <1>6, <2>1, <2>2 DEF EntitiesOk, WorldIsAlive
<1>8. Playing = {} /\ entityId \in [Clients -> Ids]
  BY <1>3, <1>4 DEF Playing
<1>9. firstFreeId = kBots /\ Used \subseteq 0..kBots - 1
  <2>1. kBots - 1 \in GoodIds
    BY <1>4 DEF GoodIds
  <2>2. firstFreeId = kBots
    BY <1>2, <1>4, <2>1, NextIds
  <2>3. LiveIds \subseteq 0..kBots - 1
    BY <1>4, <1>6 DEF LiveIds
  <2> QED
    BY <1>2, <1>8, <2>2, <2>3 DEF Used
<1>10. IdsOk
  <2>1. \A id \in Used : Age(id) <= created
    <3> HIDE DEF kInvalidId
    <3> QED
      BY <1>3, <1>4, <1>9 DEF Age
  <2>2. /\ firstFreeId \in GoodIds /\ botTargets_ \subseteq GoodIds
        /\ created \in kBots..MaxCreated
    <3> HIDE DEF kInvalidId
    <3> QED
      BY <1>2, <1>3, <1>4, <1>9 DEF GoodIds
  <2> QED
    BY <1>8, <2>1, <2>2 DEF IdsOk
<1>11. InputsOk
  <2>1. << >> \in Seq(Packet) /\ << >> \in Seq(Nat) /\ << >> \in Seq(Speeds)
    OBVIOUS
  <2>2. InputTypes
    BY <1>3, <2>1, FreshLine DEF InputTypes
  <2>3. \A c \in Clients : Line(c)
    BY <1>3, FreshLine DEF Line
  <2> QED
    BY <1>3, <1>4, <2>2, <2>3 DEF InputsOk
<1> QED
  BY <1>7, <1>10, <1>11 DEF IInv

\* What a step does to the entities there are.
LEMMA StepPreserves ==
  ASSUME IInv, [Next]_vars
  PROVE  /\ IInv' /\ Steering
         /\ \/ LiveIds' \subseteq LiveIds \/ Playing' = {}
            \/ /\ LiveIds' = LiveIds \union {firstFreeId}
               /\ firstFreeId \notin Used /\ firstFreeId \in GoodIds
<1>1. CASE updateLogic
  BY <1>1, UpdatePreserves
<1>2. ASSUME NEW c \in Clients, connected(c)
      PROVE  /\ IInv' /\ Steering /\ LiveIds' = LiveIds \union {firstFreeId}
             /\ firstFreeId \notin Used /\ firstFreeId \in GoodIds
  BY <1>2, ConnectedPreserves DEF IInv, IdsOk
<1>3. ASSUME NEW c \in Clients, disconnected(c)
      PROVE  IInv' /\ Steering /\ (Playing' = {} \/ LiveIds' = LiveIds)
  BY <1>3, DisconnectedPreserves
<1>4. ASSUME NEW c \in Clients, SendInput(c)
      PROVE  IInv' /\ Steering /\ LiveIds' = LiveIds
  BY <1>4, SendInputPreserves
<1>5. ASSUME NEW c \in Clients, ReceiveInput(c)
      PROVE  IInv' /\ Steering /\ LiveIds' = LiveIds
  BY <1>5, HandleStateDeltaPreserves DEF ReceiveInput
<1>6. ASSUME NEW c \in Clients, ReceiveConfirm(c)
      PROVE  IInv' /\ Steering /\ LiveIds' = LiveIds
  BY <1>6, ConfirmationPreserves DEF ReceiveConfirm
<1>7. CASE UNCHANGED vars
  <2>1. /\ UNCHANGED <<entities_, firstFreeId, botTargets_, entityId, created>>
        /\ UNCHANGED <<inputVars, inputs, got>>
    BY <1>7 DEF vars, inputVars
  <2>2. EntitiesOk' /\ LiveIds' = LiveIds /\ Playing' = Playing
    BY <2>1, EntitiesKept DEF IInv, Playing, kInvalidId
  <2>3. IdsOk' /\ InputsOk'
    BY <2>1, <2>2, IdsKept, InputsKept DEF IInv
  <2>4. Steering
    BY <2>1, NobodyMoves DEF IInv
  <2> QED
    BY <2>2, <2>3, <2>4 DEF IInv
<1> QED
  BY <1>1, <1>2, <1>3, <1>4, <1>5, <1>6, <1>7 DEF Next

\* The inductive invariant above.
THEOREM InductiveInvariant == Spec => []IInv
<1>1. Init => IInv
  BY InitEstablishes
<1>2. IInv /\ [Next]_vars => IInv'
  BY StepPreserves
<1> QED
  BY <1>1, <1>2, PTL DEF Spec

\* The types are right.
THEOREM TypeCorrect == Spec => []TypeOK
<1>1. IInv => TypeOK
  <2>1. SUFFICES ASSUME IInv
                 PROVE  TypeOK
    OBVIOUS
  <2> DEFINE T == [id : Ids, size : Nat, vel : Velocity]
  <2>2. \A b \in Body : b \in T
    BY Constants DEF Body
  <2>3. entities_ \in Seq(T)
    <3> HIDE DEF T
    <3>1. entities_ \in Seq(Body)
      BY <2>1 DEF IInv, EntitiesOk
    <3>2. \A i \in 1..Len(entities_) : entities_[i] \in T
      BY <2>2, <3>1, ElementOfSeq
    <3>3. /\ Len(entities_) \in Nat
          /\ entities_ = [i \in 1..Len(entities_) |-> entities_[i]]
      BY <3>1
    <3> QED
      BY <3>2, <3>3, IsASeq
  <2>4. \A c \in Clients : queue[c] # << >>
    <3>1. \A c \in Clients : Len(queue[c]) >= 1
      BY <2>1 DEF IInv, InputsOk, Line, LineOk, QueueOk
    <3>2. Len(<< >>) = 0
      OBVIOUS
    <3> QED
      BY <3>1, <3>2
  <2> QED
    BY <2>1, <2>3, <2>4, Constants DEF IInv, IdsOk, InputsOk, InputTypes, TypeOK
<1> QED
  BY <1>1, InductiveInvariant, PTL

\* However many entities were created before, none shares an id with another one that
\* is alive or referred to (Entity.cpp:24-29, server.cpp:23-36).
THEOREM EverybodyHasABody == Spec => []OneBodyEach
<1>1. IInv => OneBodyEach
  <2>1. SUFFICES ASSUME IInv
                 PROVE  OneBodyEach
    OBVIOUS
  <2>2. LiveIds \subseteq GoodIds /\ DOMAIN entities_ = 1..Len(entities_)
    BY <2>1, UsedAreGood, Entities DEF IInv, Used
  <2> QED
    BY <2>1, <2>2, Constants DEF IInv, EntitiesOk, Distinct, IdsOk, OneBodyEach
<1> QED
  BY <1>1, InductiveInvariant, PTL

\* Whatever has been swapped and swept away, an entity that is no bot changes its
\* course by an input of its own player only (server.cpp:143-153, :229-231).
THEOREM PlayersSteerTheirOwn == Spec => OwnersSteer
<1> DEFINE A == \A i \in DOMAIN entities_, j \in DOMAIN entities_' :
                   LET id == entities_[i].id
                   IN  /\ entities_'[j].id = id /\ id \notin botTargets_'
                       /\ entities_'[j].vel # entities_[i].vel
                       => \E c \in Playing : entityId[c] = id /\ got'[c] > got[c]
<1>1. IInv /\ [Next]_vars => [A]_vars
  BY StepPreserves DEF Steering, SteeredByOwner
<1> QED
  BY <1>1, InductiveInvariant, PTL DEF Spec, OwnersSteer

\* However inputs and confirmations are lost or late, each byte of the velocity that an
\* input leaves behind before scaling is the input's own or one held over, and then
\* the player has had the same byte applied before (server.cpp:151-163).
THEOREM InputsAreNotLost == Spec => InputsTakeEffect
<1> DEFINE A == \A c \in Playing, i \in DOMAIN entities_ :
                   /\ got'[c] # got[c] /\ c \in Playing'
                   /\ entities_[i].id = entityId[c]
                   => \E v \in Velocity : /\ Mixed(c, entities_[i].vel, v)
                                          /\ entities_'[i].vel = Normalised(v)
<1>1. IInv /\ [Next]_vars => [A]_vars
  BY StepPreserves DEF Steering, TakesEffect
<1> QED
  BY <1>1, InductiveInvariant, PTL DEF Spec, InputsTakeEffect

\* The loop that sweeps the entities away leaves none that is too small, and one
\* at least (server.cpp:227-235).
THEOREM WorldStaysAlive == Spec => []WorldIsAlive
<1>1. IInv => WorldIsAlive
  BY DEF IInv, EntitiesOk
<1> QED
  BY <1>1, InductiveInvariant, PTL

\* An id that players or bots still refer to does not come back to life
\* (server.cpp:143).
THEOREM IdsAreNotReused == Spec => GoneStaysGone
<1> DEFINE A == \A id \in (Range(entityId) \union botTargets_) \ LiveIds :
                   id \in LiveIds' => Playing' = {}
<1>1. IInv /\ [Next]_vars => [A]_vars
  <2>1. SUFFICES ASSUME IInv, [Next]_vars,
                        NEW id \in (Range(entityId) \union botTargets_) \ LiveIds,
                        id \in LiveIds'
                 PROVE  Playing' = {}
    OBVIOUS
  <2>2. id \in Used \/ id = kInvalidId
    BY <2>1 DEF IInv, IdsOk, Range, Used, Playing
  <2>3. kInvalidId \notin GoodIds
    BY Constants
  <2> QED
    BY <2>1, <2>2, <2>3, StepPreserves
<1> QED
  BY <1>1, InductiveInvariant, PTL DEF Spec, GoneStaysGone
=============================================================================
