-------------------------- MODULE FirstProgramsProofs --------------------------
(***************************************************************************)
(* Proofs about the two programs the course starts from: Keepalive, the    *)
(* chat of hw1, for all clients, times and bounds, and Hw2, the first      *)
(* lobby, for any number of clients, starts and failures.                  *)
(***************************************************************************)
EXTENDS Keepalive, Hw2, SequenceTheorems, FiniteSetTheorems, WellFoundedInduction,
        TLAPS

-----------------------------------------------------------------------------
(* Keepalive *)


\* Entries older than Timeout are gone after a round, and stalled counts the ticks
\* since one that found the socket empty; likewise for the address that fails.
Ages == \A a \in DOMAIN last_seen : last_seen[a] <= Timeout + stalled

Briefness ==
    NoAddress \in DOMAIN last_seen => last_seen[NoAddress] <= PingTime + stalled

\* A client has been heard of lately, or is about to be: a ping to it is under way,
\* or a datagram of its own is, or one is waiting to be read.
HeardSoon(c) ==
    \/ last_seen[c] <= PingTime + stalled
    \/ \E d \in net : /\ d.to = "client" /\ d.peer = c /\ d.text = "k"
                      /\ last_seen[c] <= PingTime + MaxStall + d.age
    \/ \E d \in net : /\ d.to = "server" /\ d.peer = c
                      /\ last_seen[c] <= PingTime + MaxStall + MaxDelay + d.age
    \/ \E i \in 1..Len(buffer) :
          /\ buffer[i].from = c
          /\ last_seen[c] <= PingTime + MaxStall + 2 * MaxDelay + stalled

Known == (ClientAddresses \intersect DOMAIN last_seen) \intersect alive

AnswerComes == \A c \in Known \ lost : HeardSoon(c)

IInv == TypeOK /\ Ages /\ Briefness /\ AnswerComes

-----------------------------------------------------------------------------
\* The parts of TypeOK in the form the steps below use.
LEMMA Times ==
  ASSUME TypeOK
  PROVE  /\ PingTime \in Nat /\ Timeout \in Nat /\ MaxDelay \in Nat
         /\ MaxStall \in Nat /\ stalled \in 0..MaxStall
         /\ \A a \in DOMAIN last_seen : a \in Addresses /\ last_seen[a] \in Nat
         /\ \A d \in net : d \in Datagram /\ d.age \in 0..MaxDelay
         /\ Len(buffer) \in Nat /\ \A i \in 1..Len(buffer) : buffer[i] \in Received
<1>1. buffer \in Seq(Received)
  BY DEF TypeOK
<1>2. Len(buffer) \in Nat /\ \A i \in 1..Len(buffer) : buffer[i] \in Received
  BY <1>1, ElementOfSeq
<1>3. \A d \in net : d \in Datagram /\ d.age \in 0..MaxDelay
  BY DEF TypeOK, Datagram
<1>4. \A a \in DOMAIN last_seen : a \in Addresses /\ last_seen[a] \in Nat
  <2>1. PICK A \in SUBSET Addresses : last_seen \in [A -> 0..Old - 1]
    BY DEF TypeOK
  <2>2. Old - 1 \in Nat
    BY TimeAssumption DEF Old
  <2> QED
    BY <2>1, <2>2
<1> QED
  BY <1>2, <1>3, <1>4, TimeAssumption DEF TypeOK

\* A function of ages that do not exceed Timeout + MaxStall is one TypeOK admits.
LEMMA AgesType ==
  ASSUME NEW A, A \subseteq Addresses, NEW f, f = [a \in A |-> f[a]],
         \A a \in A : f[a] \in Nat /\ f[a] <= Timeout + MaxStall
  PROVE  \E B \in SUBSET Addresses : f \in [B -> 0..Old - 1]
<1>1. Timeout + MaxStall = Old - 1 /\ Old \in Nat
  BY TimeAssumption DEF Old
<1>2. \A a \in A : f[a] \in 0..Old - 1
  BY <1>1, TimeAssumption
<1>3. f \in [A -> 0..Old - 1]
  BY <1>2
<1> QED
  BY <1>3

\* Every set of natural numbers has a least element.
LEMMA LeastElement ==
  ASSUME NEW T, T \subseteq Nat, T # {}
  PROVE  Min(T) \in T /\ \A y \in T : Min(T) <= y
<1> DEFINE Upto(n) == 0..n
           F == {S \in FiniteSubsetsOf(Nat) : \E n \in T : S = Upto(n)}
           R == StrictSubsetOrdering(Nat)
<1>1. \A n \in T : Upto(n) \in F
  BY FS_Interval DEF FiniteSubsetsOf
<1>2. \E S \in F : \A V \in F : ~(<<V, S>> \in R)
  <2>1. IsWellFoundedOn(R, FiniteSubsetsOf(Nat))
    BY FS_StrictSubsetOrderingWellFounded
  <2>2. F \subseteq FiniteSubsetsOf(Nat) /\ F # {}
    BY <1>1
  <2> HIDE DEF F, R
  <2> QED
    BY <2>1, <2>2, WFMin
<1>3. PICK n \in T : \A m \in T : ~(<<Upto(m), Upto(n)>> \in R)
  BY <1>1, <1>2
<1>4. \A m \in T : n <= m
  <2>1. SUFFICES ASSUME NEW m \in T, m < n
                 PROVE  FALSE
    OBVIOUS
  <2>2. Upto(m) \subseteq Upto(n) /\ n \in Upto(n) /\ n \notin Upto(m)
    BY <2>1
  <2>3. <<Upto(m), Upto(n)>> \in R
    BY <2>2 DEF StrictSubsetOrdering
  <2> QED
    BY <1>3, <2>3
<1> QED
  BY <1>4 DEF Min

\* What recvfrom returns: the first datagram of a client, or nothing.
LEMMA Received1 ==
  ASSUME TypeOK
  PROVE  /\ FirstGood \in 0..Len(buffer)
         /\ FirstGood = 0 => \A i \in 1..Len(buffer) : buffer[i].from = NoAddress
         /\ FirstGood # 0 => /\ recvfrom = buffer[FirstGood]
                             /\ recvfrom.from \in ClientAddresses
                             /\ \A i \in 1..FirstGood - 1 : buffer[i].from = NoAddress
         /\ recvfrom \in Received
         /\ recvfrom.from \in Addresses
         /\ recvfrom.text = "m" => recvfrom.from \in ClientAddresses
<1> DEFINE I == {i \in 1..Len(buffer) : buffer[i].from # NoAddress}
<1>1. Len(buffer) \in Nat /\ \A i \in 1..Len(buffer) : buffer[i] \in Received
  BY Times
<1>2. FirstGood = IF I # {} THEN Min(I) ELSE 0
  BY DEF FirstGood, SelectInSeq
<1>3. I # {} => Min(I) \in I /\ \A i \in I : Min(I) <= i
  <2>1. I \subseteq Nat
    OBVIOUS
  <2> HIDE DEF I
  <2> QED
    BY <2>1, LeastElement
<1>4. Nothing \in Received /\ Nothing.text = "" /\ Nothing.from = NoAddress
  BY DEF Nothing, Received, Addresses
<1>5. CASE I = {}
  <2>1. FirstGood = 0
    BY <1>2, <1>5
  <2>2. recvfrom = Nothing
    BY <2>1 DEF recvfrom
  <2>3. FirstGood \in 0..Len(buffer)
    BY <1>1, <2>1
  <2>4. \A i \in 1..Len(buffer) : buffer[i].from = NoAddress
    BY <1>5
  <2>5. recvfrom.text # "m" /\ recvfrom.from \in Addresses
    BY <1>4, <2>2 DEF Addresses
  <2> QED
    BY <1>4, <2>1, <2>2, <2>3, <2>4, <2>5
<1>6. CASE I # {}
  <2>1. FirstGood \in I /\ \A i \in I : FirstGood <= i
    BY <1>2, <1>3, <1>6
  <2>2. FirstGood \in 1..Len(buffer) /\ FirstGood # 0
    BY <1>1, <2>1
  <2>3. recvfrom = buffer[FirstGood] /\ recvfrom \in Received
    BY <1>1, <2>2 DEF recvfrom
  <2>4. recvfrom.from \in ClientAddresses
    BY <2>1, <2>3 DEF Received, Addresses
  <2>5. \A i \in 1..FirstGood - 1 : buffer[i].from = NoAddress
    BY <1>1, <2>1, <2>2
  <2> QED
    BY <2>2, <2>3, <2>4, <2>5 DEF Addresses
<1> QED
  BY <1>5, <1>6

\* What HeardSoon says in terms of ages, used to go from one step to the next.
LEMMA StillHeard ==
  ASSUME NEW c \in ClientAddresses, HeardSoon(c),
         c \in DOMAIN last_seen, last_seen'[c] = last_seen[c],
         buffer' = buffer, stalled' = stalled,
         \A d \in net : d.peer = c => d \in net'
  PROVE  HeardSoon(c)'
BY DEF HeardSoon

\* A round up to handle_keepalive keeps the invariant.
LEMMA RoundStep ==
  ASSUME IInv, handle_keepalive
  PROVE  IInv'
<1> USE Times DEF IInv
<1>1. PICK failing \in SUBSET (Quiet \intersect ClientAddresses) :
         /\ last_seen' = Restrict(last_seen,
                            DOMAIN last_seen \ (TimedOut \union Unreachable(failing)))
         /\ net' = net \union {To("client", c, "k") :
                                c \in (Quiet \ failing) \intersect ClientAddresses}
  BY DEF handle_keepalive
<1> DEFINE A == DOMAIN last_seen \ (TimedOut \union Unreachable(failing))
<1>2. /\ buffer' = buffer /\ alive' = alive /\ lost' = lost
      /\ stalled' = IF buffer = << >> THEN 0 ELSE stalled
      /\ readable' = (buffer # << >>)
  BY DEF handle_keepalive
<1>3. /\ last_seen' = [a \in A |-> last_seen[a]]
      /\ A \subseteq DOMAIN last_seen /\ DOMAIN last_seen' = A
      /\ \A a \in A : last_seen'[a] = last_seen[a] /\ last_seen[a] <= Timeout
  <2>1. last_seen' = [a \in A |-> last_seen[a]]
    BY <1>1 DEF Restrict
  <2>2. \A a \in A : last_seen[a] <= Timeout
    BY TimeAssumption DEF TimedOut
  <2> QED
    BY <2>1, <2>2
<1>4. stalled' \in 0..MaxStall
  BY <1>2
<1>5. TypeOK'
  <2>1. \E B \in SUBSET Addresses : last_seen' \in [B -> 0..Old - 1]
    <3>1. A \subseteq Addresses /\ last_seen' = [a \in A |-> last_seen'[a]]
      BY <1>3
    <3>2. \A a \in A : last_seen'[a] \in Nat /\ last_seen'[a] <= Timeout + MaxStall
      BY <1>3
    <3> QED
      BY <3>1, <3>2, AgesType
  <2>2. net' \subseteq Datagram
    BY <1>1 DEF TypeOK, Datagram, To
  <2> QED
    BY <1>2, <1>4, <2>1, <2>2 DEF TypeOK
<1>6. Ages'
  BY <1>3, <1>4 DEF Ages
<1>7. Briefness'
  <2>1. NoAddress \in A => last_seen[NoAddress] <= PingTime
    BY TimeAssumption DEF Quiet, Unreachable
  <2> QED
    BY <1>3, <1>4, <2>1 DEF Briefness
<1>8. AnswerComes'
  <2>1. SUFFICES ASSUME NEW c \in (Known \ lost)'
                 PROVE  HeardSoon(c)'
    BY DEF AnswerComes
  <2>2. /\ c \in ClientAddresses /\ c \in A /\ c \in Known \ lost
        /\ last_seen'[c] = last_seen[c] /\ HeardSoon(c)
    BY <1>2, <1>3 DEF Known, AnswerComes
  <2>3. CASE c \notin Quiet
    <3>1. last_seen'[c] <= PingTime
      BY <1>3, <2>2, <2>3 DEF Quiet
    <3> QED
      BY <1>4, <2>2, <3>1 DEF HeardSoon
  <2>4. CASE c \in Quiet /\ last_seen[c] <= PingTime + stalled
    <3>1. c \in (Quiet \ failing) \intersect ClientAddresses
      BY <2>2, <2>4 DEF Unreachable
    <3>2. To("client", c, "k") \in net'
      BY <1>1, <3>1
    <3>3. last_seen'[c] <= PingTime + MaxStall + 0
      BY <2>2, <2>4
    <3> QED
      BY <3>2, <3>3 DEF HeardSoon, To
  <2>5. CASE ~(last_seen[c] <= PingTime + stalled)
    <3>1. \A i \in 1..Len(buffer) : stalled' = stalled
      BY <1>2
    <3> QED
      BY <1>1, <1>2, <2>2, <2>5, <3>1 DEF HeardSoon
  <2> QED
    BY <2>3, <2>4, <2>5
<1> QED
  BY <1>5, <1>6, <1>7, <1>8

\* Reading a datagram keeps the invariant: the sender is seen, and what else
\* waits is still there.
LEMMA ReadStep ==
  ASSUME IInv, ReceiveDatagram
  PROVE  IInv'
<1> USE Times, Received1 DEF IInv
<1> DEFINE d == recvfrom
           A == DOMAIN last_seen \union {d.from}
<1>1. /\ last_seen' = [a \in A |-> IF a = d.from THEN 0 ELSE last_seen[a]]
      /\ lost' = lost \ {d.from}
      /\ readable' = FALSE /\ alive' = alive /\ stalled' = stalled
      /\ buffer' = IF FirstGood = 0 THEN << >>
                   ELSE SubSeq(buffer, FirstGood + 1, Len(buffer))
      /\ \/ d.text = "m" /\ net' = net \union {To("client", d.from, "m")}
         \/ net' = net
  BY DEF ReceiveDatagram, Seen
<1>2. /\ DOMAIN last_seen' = A /\ A \subseteq Addresses
      /\ \A a \in A : last_seen'[a] = IF a = d.from THEN 0 ELSE last_seen[a]
  BY <1>1
<1>3. net \subseteq net'
  BY <1>1
<1>4. /\ FirstGood # 0 => /\ Len(buffer') = Len(buffer) - FirstGood
                          /\ \A i \in FirstGood + 1..Len(buffer) :
                                buffer'[i - FirstGood] = buffer[i]
      /\ buffer' \in Seq(Received)
  <2>1. buffer \in Seq(Received)
    BY DEF TypeOK
  <2>2. CASE FirstGood = 0
    BY <1>1, <2>2, EmptySeq
  <2>3. CASE FirstGood # 0
    <3>1. /\ buffer' \in Seq(Received) /\ Len(buffer') = Len(buffer) - FirstGood
          /\ \A i \in 1..Len(buffer) - FirstGood : buffer'[i] = buffer[FirstGood + i]
      BY <1>1, <2>1, <2>3
    <3>2. \A i \in FirstGood + 1..Len(buffer) :
             i - FirstGood \in 1..Len(buffer) - FirstGood /\ FirstGood + (i - FirstGood) = i
      BY <2>3
    <3> QED
      BY <3>1, <3>2
  <2> QED
    BY <2>2, <2>3
<1>5. TypeOK'
  <2>1. \E B \in SUBSET Addresses : last_seen' \in [B -> 0..Old - 1]
    <3>1. last_seen' = [a \in A |-> last_seen'[a]]
      BY <1>1
    <3>2. \A a \in A : last_seen'[a] \in Nat /\ last_seen'[a] <= Timeout + MaxStall
      BY <1>2, TimeAssumption DEF Ages
    <3> QED
      BY <1>2, <3>1, <3>2, AgesType
  <2>2. net' \subseteq Datagram
    BY <1>1 DEF TypeOK, Datagram, To
  <2> QED
    BY <1>1, <1>4, <2>1, <2>2 DEF TypeOK
<1>6. Ages'
  BY <1>1, <1>2, TimeAssumption DEF Ages
<1>7. Briefness'
  BY <1>1, <1>2, TimeAssumption DEF Briefness
<1>8. AnswerComes'
  <2>1. SUFFICES ASSUME NEW c \in (Known \ lost)'
                 PROVE  HeardSoon(c)'
    BY DEF AnswerComes
  <2>2. CASE c = d.from
    BY <1>1, <1>2, <2>2, TimeAssumption DEF HeardSoon, Known
  <2>3. CASE c # d.from
    <3>1. /\ c \in ClientAddresses /\ c # NoAddress /\ last_seen'[c] = last_seen[c]
          /\ HeardSoon(c)
      BY <1>1, <1>2, <2>3, AddressAssumption DEF Known, AnswerComes
    <3>2. ASSUME NEW i \in 1..Len(buffer), buffer[i].from = c
          PROVE  \E j \in 1..Len(buffer') : buffer'[j] = buffer[i]
      <4>1. FirstGood # 0 /\ i # FirstGood /\ ~(i <= FirstGood - 1)
        BY <2>3, <3>1, <3>2
      <4>2. i \in FirstGood + 1..Len(buffer) /\ i - FirstGood \in 1..Len(buffer')
        BY <1>4, <4>1, SMTT(30)
      <4> QED
        BY <1>4, <4>1, <4>2
    <3> QED
      BY <1>1, <1>3, <3>1, <3>2 DEF HeardSoon
  <2> QED
    BY <2>2, <2>3
<1> QED
  BY <1>5, <1>6, <1>7, <1>8

\* A client's part keeps the invariant: a ping that is read is answered at once.
LEMMA DatagramStep ==
  ASSUME IInv, NEW d \in net, ClientReceive(d)
  PROVE  IInv'
<1> USE Times DEF IInv
<1>1. PICK rest \in Taken(d) :
         net' = rest \union IF d.peer \in alive THEN Answer(d.peer, d.text) ELSE {}
  BY DEF ClientReceive
<1>2. /\ serverVars' = serverVars /\ alive' = alive /\ stalled' = stalled
      /\ lost' = lost /\ d.to = "client"
  BY DEF ClientReceive
<1>3. /\ last_seen' = last_seen /\ readable' = readable /\ buffer' = buffer
  BY <1>2 DEF serverVars
<1>4. /\ rest \subseteq net /\ \A e \in net : e # d => e \in net'
      /\ d.peer \in alive /\ d.text = "k" => To("server", d.peer, "k") \in net'
  BY <1>1 DEF Taken, Answer
<1>5. net' \subseteq Datagram
  <2>1. Answer(d.peer, d.text) \subseteq Datagram
    BY DEF Answer, Datagram, To
  <2> QED
    BY <1>1, <1>4, <2>1 DEF TypeOK
<1>6. TypeOK' /\ Ages' /\ Briefness'
  BY <1>2, <1>3, <1>5 DEF TypeOK, Ages, Briefness
<1>7. AnswerComes'
  <2>1. SUFFICES ASSUME NEW c \in (Known \ lost)'
                 PROVE  HeardSoon(c)'
    BY DEF AnswerComes
  <2>2. c \in ClientAddresses /\ c \in alive /\ c \in DOMAIN last_seen /\ HeardSoon(c)
    BY <1>2, <1>3 DEF Known, AnswerComes
  <2>3. CASE /\ d.peer = c /\ d.text = "k"
             /\ last_seen[c] <= PingTime + MaxStall + d.age
    <3>1. To("server", c, "k") \in net'
      BY <1>4, <2>2, <2>3
    <3>2. last_seen'[c] <= PingTime + MaxStall + MaxDelay + 0
      BY <1>3, <2>2, <2>3
    <3> QED
      BY <3>1, <3>2 DEF HeardSoon, To
  <2>4. CASE ~(/\ d.peer = c /\ d.text = "k"
               /\ last_seen[c] <= PingTime + MaxStall + d.age)
    BY <1>2, <1>3, <1>4, <2>2, <2>4 DEF HeardSoon
  <2> QED
    BY <2>3, <2>4
<1> QED
  BY <1>6, <1>7

\* So does the network: what arrives waits to be read, and what is lost is noted.
LEMMA ArriveStep ==
  ASSUME IInv, NEW d \in net, Arrive(d)
  PROVE  IInv'
<1> USE Times DEF IInv
<1>1. PICK x \in Received :
         /\ buffer' = Append(buffer, x)
         /\ \/ x.from = d.peer /\ lost' = lost
            \/ lost' = lost \union {d.peer}
  <2>1. [from |-> d.peer, text |-> d.text] \in Received /\ Nothing \in Received
    BY DEF Received, Addresses, Datagram, Nothing
  <2>2. CASE /\ buffer' = Append(buffer, [from |-> d.peer, text |-> d.text])
             /\ lost' = lost
    BY <2>1, <2>2
  <2>3. CASE buffer' = Append(buffer, Nothing) /\ lost' = lost \union {d.peer}
    BY <2>1, <2>3
  <2> QED
    BY <2>2, <2>3 DEF Arrive
<1>2. /\ last_seen' = last_seen /\ readable' = readable /\ alive' = alive
      /\ stalled' = stalled /\ d.to = "server"
  BY DEF Arrive
<1>3. net' \subseteq net /\ \A e \in net : e # d => e \in net'
  BY DEF Arrive, Taken
<1>4. /\ buffer' \in Seq(Received) /\ Len(buffer') = Len(buffer) + 1
      /\ buffer'[Len(buffer) + 1] = x
      /\ \A i \in 1..Len(buffer) : buffer'[i] = buffer[i]
  <2>1. buffer \in Seq(Received)
    BY DEF TypeOK
  <2> QED
    BY <1>1, <2>1
<1>5. lost' \subseteq ClientAddresses /\ lost \subseteq lost'
  BY <1>1 DEF TypeOK, Datagram
<1>6. TypeOK' /\ Ages' /\ Briefness'
  BY <1>2, <1>3, <1>4, <1>5 DEF TypeOK, Ages, Briefness
<1>7. AnswerComes'
  <2>1. SUFFICES ASSUME NEW c \in (Known \ lost)'
                 PROVE  HeardSoon(c)'
    BY DEF AnswerComes
  <2>2. /\ c \in ClientAddresses /\ c \in DOMAIN last_seen /\ HeardSoon(c)
        /\ last_seen'[c] = last_seen[c] /\ last_seen[c] \in Nat
    BY <1>2, <1>5 DEF Known, AnswerComes
  <2>3. CASE /\ d.peer = c
             /\ last_seen[c] <= PingTime + MaxStall + MaxDelay + d.age
    <3>1. x.from = c
      BY <1>1, <2>1, <2>3
    <3>2. last_seen'[c] <= PingTime + MaxStall + 2 * MaxDelay + stalled
      BY <2>2, <2>3
    <3>3. Len(buffer) + 1 \in 1..Len(buffer')
      BY <1>4
    <3> QED
      BY <1>2, <1>4, <3>1, <3>2, <3>3 DEF HeardSoon
  <2>4. CASE ~(/\ d.peer = c
               /\ last_seen[c] <= PingTime + MaxStall + MaxDelay + d.age)
    <3>1. \A i \in 1..Len(buffer) : i \in 1..Len(buffer')
      BY <1>4
    <3> QED
      BY <1>2, <1>3, <1>4, <2>2, <2>4, <3>1 DEF HeardSoon
  <2> QED
    BY <2>3, <2>4
<1> QED
  BY <1>6, <1>7

LEMMA LoseStep ==
  ASSUME IInv, NEW d \in net, Lose(d)
  PROVE  IInv'
<1> USE Times DEF IInv
<1>1. /\ last_seen' = last_seen /\ readable' = readable /\ buffer' = buffer
      /\ alive' = alive /\ stalled' = stalled /\ net' = net \ {d}
      /\ lost' = IF d.to = "client" /\ d.text = "m" THEN lost ELSE lost \union {d.peer}
  BY DEF Lose, serverVars
<1>2. TypeOK' /\ Ages' /\ Briefness'
  BY <1>1 DEF TypeOK, Ages, Briefness, Datagram
<1>3. AnswerComes'
  <2>1. SUFFICES ASSUME NEW c \in (Known \ lost)'
                 PROVE  HeardSoon(c)'
    BY DEF AnswerComes
  <2>2. /\ c \in DOMAIN last_seen /\ HeardSoon(c) /\ c \notin lost'
    BY <1>1 DEF Known, AnswerComes
  <2>3. \A e \in net : e.peer = c /\ ~(e.to = "client" /\ e.text = "m") => e \in net'
    BY <1>1, <2>2
  <2> QED
    BY <1>1, <2>2, <2>3 DEF HeardSoon
<1> QED
  BY <1>2, <1>3

\* As time passes all ages rise together.
LEMMA TickStep ==
  ASSUME IInv, Tick
  PROVE  IInv'
<1> USE Times DEF IInv
<1> DEFINE older(d) == [d EXCEPT !.age = @ + 1]
           A == DOMAIN last_seen
<1>1. /\ stalled < MaxStall /\ stalled' = stalled + 1
      /\ \A d \in net : d.age < MaxDelay
      /\ net' = {older(d) : d \in net}
      /\ readable' = readable /\ buffer' = buffer /\ alive' = alive /\ lost' = lost
      /\ last_seen' = [a \in A |-> IF last_seen[a] < Old THEN last_seen[a] + 1 ELSE Old]
  BY DEF Tick
<1>2. /\ DOMAIN last_seen' = A
      /\ \A a \in A : last_seen'[a] = last_seen[a] + 1
  <2>1. \A a \in A : last_seen[a] < Old
    BY DEF Ages, Old
  <2> QED
    BY <1>1, <2>1
<1>3. \A d \in net : /\ older(d) \in Datagram /\ older(d) \in net'
                     /\ older(d).to = d.to /\ older(d).peer = d.peer
                     /\ older(d).text = d.text /\ older(d).age = d.age + 1
  <2>1. SUFFICES ASSUME NEW d \in net
                 PROVE  /\ older(d) \in Datagram
                        /\ older(d).to = d.to /\ older(d).peer = d.peer
                        /\ older(d).text = d.text /\ older(d).age = d.age + 1
    BY <1>1
  <2>2. d \in Datagram /\ d.age + 1 \in 0..MaxDelay
    BY <1>1
  <2> QED
    BY <2>2 DEF Datagram
<1>4. Ages' /\ Briefness'
  BY <1>1, <1>2, AddressAssumption DEF Ages, Briefness
<1>5. TypeOK'
  <2>1. \E B \in SUBSET Addresses : last_seen' \in [B -> 0..Old - 1]
    <3>1. A \subseteq Addresses /\ last_seen' = [a \in A |-> last_seen'[a]]
      BY <1>1
    <3>2. \A a \in A : last_seen'[a] \in Nat /\ last_seen'[a] <= Timeout + MaxStall
      BY <1>1, <1>2 DEF Ages
    <3> QED
      BY <3>1, <3>2, AgesType
  <2>2. net' \subseteq Datagram
    BY <1>1, <1>3
  <2>3. stalled' \in 0..MaxStall
    BY <1>1
  <2> QED
    BY <1>1, <2>1, <2>2, <2>3 DEF TypeOK
<1>6. AnswerComes'
  <2>1. SUFFICES ASSUME NEW c \in (Known \ lost)'
                 PROVE  HeardSoon(c)'
    BY DEF AnswerComes
  <2>2. /\ c \in A /\ HeardSoon(c) /\ last_seen[c] \in Nat
        /\ last_seen'[c] = last_seen[c] + 1
    BY <1>1, <1>2 DEF Known, AnswerComes
  <2>3. CASE last_seen[c] <= PingTime + stalled
    BY <1>1, <2>2, <2>3 DEF HeardSoon
  <2>4. ASSUME NEW d \in net, d.to = "client", d.peer = c, d.text = "k",
               last_seen[c] <= PingTime + MaxStall + d.age
        PROVE  HeardSoon(c)'
    <3>1. last_seen'[c] <= PingTime + MaxStall + older(d).age
      BY <1>3, <2>2, <2>4
    <3> QED
      BY <1>3, <2>4, <3>1 DEF HeardSoon
  <2>5. ASSUME NEW d \in net, d.to = "server", d.peer = c,
               last_seen[c] <= PingTime + MaxStall + MaxDelay + d.age
        PROVE  HeardSoon(c)'
    <3>1. last_seen'[c] <= PingTime + MaxStall + MaxDelay + older(d).age
      BY <1>3, <2>2, <2>5
    <3> QED
      BY <1>3, <2>5, <3>1 DEF HeardSoon
  <2>6. ASSUME NEW i \in 1..Len(buffer), buffer[i].from = c,
               last_seen[c] <= PingTime + MaxStall + 2 * MaxDelay + stalled
        PROVE  HeardSoon(c)'
    BY <1>1, <2>2, <2>6, SMTT(30) DEF HeardSoon
  <2> QED
    BY <2>2, <2>3, <2>4, <2>5, <2>6 DEF HeardSoon
<1> QED
  BY <1>4, <1>5, <1>6

-----------------------------------------------------------------------------
\* All of it always holds.
THEOREM InductiveInvariant == Spec => []IInv
<1>1. Init => IInv
  <2>1. SUFFICES ASSUME Init PROVE IInv
    OBVIOUS
  <2>2. /\ DOMAIN last_seen = {} /\ net = {} /\ buffer = << >> /\ stalled = 0
        /\ last_seen = [a \in {} |-> last_seen[a]]
    BY <2>1 DEF Init
  <2>3. \E B \in SUBSET Addresses : last_seen \in [B -> 0..Old - 1]
    BY <2>2, AgesType
  <2>4. TypeOK
    <3>1. /\ readable \in BOOLEAN
          /\ alive \subseteq ClientAddresses /\ lost \subseteq ClientAddresses
      BY <2>1 DEF Init
    <3>2. buffer \in Seq(Received) /\ net \subseteq Datagram
      BY <2>2
    <3>3. stalled \in 0..MaxStall
      BY <2>2, TimeAssumption
    <3> QED
      BY <2>3, <3>1, <3>2, <3>3 DEF TypeOK
  <2> QED
    BY <2>2, <2>4 DEF IInv, Ages, Briefness, AnswerComes, Known
<1>2. IInv /\ [Next]_vars => IInv'
  <2>1. SUFFICES ASSUME IInv, [Next]_vars
                 PROVE  IInv'
    OBVIOUS
  <2>2. CASE Server
    BY <2>1, <2>2, RoundStep, ReadStep DEF Server
  <2>3. ASSUME NEW c \in ClientAddresses, SendLine(c)
        PROVE  IInv'
    <3>1. /\ last_seen' = last_seen /\ readable' = readable /\ buffer' = buffer
          /\ alive' = alive /\ stalled' = stalled /\ lost' = lost
          /\ net \subseteq net' /\ net' \subseteq Datagram
      BY <2>1, <2>3, TimeAssumption DEF SendLine, serverVars, IInv, TypeOK, Datagram, To
    <3>2. TypeOK' /\ Ages' /\ Briefness'
      BY <2>1, <3>1 DEF IInv, TypeOK, Ages, Briefness
    <3> QED
      BY <2>1, <3>1, <3>2 DEF IInv, AnswerComes, Known, HeardSoon
  <2>4. ASSUME NEW c \in ClientAddresses, Crash(c)
        PROVE  IInv'
    BY <2>1, <2>4
       DEF Crash, serverVars, IInv, TypeOK, Ages, Briefness, AnswerComes, Known, HeardSoon
  <2>5. ASSUME NEW d \in net, Network(d)
        PROVE  IInv'
    BY <2>1, <2>5, DatagramStep, ArriveStep, LoseStep DEF Network
  <2>6. CASE Tick
    BY <2>1, <2>6, TickStep
  <2>7. CASE UNCHANGED vars
    BY <2>1, <2>7
       DEF vars, serverVars, IInv, TypeOK, Ages, Briefness, AnswerComes, Known, HeardSoon
  <2> QED
    BY <2>1, <2>2, <2>3, <2>4, <2>5, <2>6, <2>7 DEF Next
<1> QED
  BY <1>1, <1>2, PTL DEF Spec

\* The types are right.
THEOREM TypeCorrect == Spec => []TypeOK
<1>1. IInv => TypeOK
  BY DEF IInv
<1> QED
  BY <1>1, InductiveInvariant, PTL

\* The zeroed address of a failed recvfrom (hw1/server.cpp:122-131) does not stay.
THEOREM FailedReadIsBrief == Spec => []NobodyIsBrief
<1>1. IInv => NobodyIsBrief
  BY Times DEF IInv, Briefness, NobodyIsBrief
<1> QED
  BY <1>1, InductiveInvariant, PTL

\* A running client is forgotten as silent only when something was lost
\* (hw1/server.cpp:80-98), for every delay and stall that TIMEOUT leaves room for.
THEOREM AnsweringClientsStay == Spec => AnsweringStays
<1>1. IInv => ClientAddresses \intersect TimedOut \intersect alive \subseteq lost
  <2>1. SUFFICES ASSUME IInv,
                        NEW c \in ClientAddresses \intersect TimedOut \intersect alive,
                        c \notin lost
                 PROVE  FALSE
    OBVIOUS
  <2>2. c \in DOMAIN last_seen /\ last_seen[c] \in Nat /\ last_seen[c] > Timeout
    BY <2>1, Times DEF IInv, TimedOut
  <2>3. HeardSoon(c)
    BY <2>1, <2>2 DEF IInv, AnswerComes, Known
  <2>4. /\ PingTime \in Nat /\ MaxDelay \in Nat /\ MaxStall \in Nat
        /\ stalled \in 0..MaxStall /\ \A d \in net : d.age \in 0..MaxDelay
    BY <2>1, Times DEF IInv
  <2>5. \/ last_seen[c] <= PingTime + stalled
        \/ \E d \in net : last_seen[c] <= PingTime + MaxStall + d.age
        \/ \E d \in net : last_seen[c] <= PingTime + MaxStall + MaxDelay + d.age
        \/ last_seen[c] <= PingTime + MaxStall + 2 * MaxDelay + stalled
    BY <2>3 DEF HeardSoon
  <2>6. last_seen[c] <= PingTime + 2 * MaxStall + 2 * MaxDelay
    BY <2>2, <2>4, <2>5
  <2> QED
    BY <2>2, <2>4, <2>6, TimeAssumption
<1>2. IInv => (Dropped \intersect alive \subseteq lost)
  BY <1>1 DEF Dropped
<1> QED
  BY <1>2, InductiveInvariant, PTL DEF AnsweringStays, Spec

-----------------------------------------------------------------------------
(* Hw2 *)


\* The events that reach the near end of a connection, and its far end.
NearEvents == {Address, DISCONNECT}
FarEvents == {CONNECT, DISCONNECT, Address, Event("Start"), Event("Time")}

Links == [near : EndState, far : EndState, in : Seq(NearEvents), out : Seq(FarEvents)]

\* The address is on its way to the near end, or will be if the far end takes the
\* connection up.
Told(l) == \E n \in 1..Len(l.in) : l.in[n] = Address
Untaken(l) == l.far \in {"none", "accepting"}
Telling(l) == Told(l) \/ (l.near \notin {"none", "down"} /\ Untaken(l))

\* A connection is taken up with its first event, and told of the server at most
\* once, not before.
LinkOk(l) ==
    /\ l \in Links
    /\ l.near = "none" => l.far \in {"none", "down"}
    /\ \A n \in 1..Len(l.out) : l.out[n] = CONNECT => n = 1 /\ l.far = "accepting"
    /\ \A m, n \in 1..Len(l.in) : l.in[m] = Address /\ l.in[n] = Address => m = n
    /\ Untaken(l) => ~Told(l)

LinksOk ==
    /\ link \in [Connections -> Links]
    /\ \A k \in Connections : LinkOk(link[k])
    /\ ~started_ => \A k \in Connections : ~Told(link[k])

\* The peers of a client: the second is free until the client is told.
PeersOk ==
    /\ remote \in [Connections -> {"nobody", "lobby", "server"}]
    /\ remote[ToLobby] = "lobby"
    /\ \A k \in Connections :
          /\ remote[k] = "nobody" => k[2] = 2 /\ link[k].near = "none"
          /\ remote[k] = "lobby" => k[2] = 1
          /\ remote[k] = "server" => started_ /\ k[1] \in Clients /\ serverPeer[k[1]] # 0

Ending(l) == l.far \in {"closing", "down"}

\* While a client is told of the server over one connection, neither that one nor its
\* other one is in the server's hands.
ToldApart ==
    \A j, k \in Connections :
        j[1] = k[1] /\ remote[j] = "server"
        /\ (IF j = k THEN Told(link[k]) ELSE Telling(link[k])) => Ending(link[j])

\* The server's players, who go with its process.
PlayersOk ==
    /\ DOMAIN players = {k \in Connections : remote[k] = "server" /\ link[k].far = "up"}
    /\ players = [k \in DOMAIN players |-> players[k]]
    /\ next_id \in 0..MaxId
    /\ \A k \in DOMAIN players : players[k] \in Nat /\ players[k] < next_id
    /\ \A j, k \in DOMAIN players : players[j] = players[k] => j = k
    /\ ~running => DOMAIN players = {}

\* lobbyPeer points to the connection to the lobby until that is up.
RegisteringOk ==
    ~registrationFailed /\ lobbyPeer =>
        lobbySlot = ToLobby /\ (running => link[ToLobby].near = "connecting")

\* A client keeps its first peer for the lobby, and is told of the server by it alone.
LobbyTells ==
    ~registrationFailed =>
        /\ gaveUp = {}
        /\ \A c \in Clients :
              /\ remote[<<c, 1>>] = "lobby"
              /\ ~Told(link[<<c, 2>>])
              /\ Telling(link[<<c, 1>>]) => remote[<<c, 2>>] = "nobody"

\* The other variables, and the bounds.
CountsOk ==
    /\ clients_ \subseteq Connections
    /\ {started_, server_address_, running, lobbyPeer, registrationFailed} \subseteq BOOLEAN
    /\ lobbySlot \in Connections \union {<<"free">>}
    /\ lobbyConnected \union serverConnected \union gaveUp \subseteq Clients
    /\ \A c \in serverConnected : serverPeer[c] # 0
    /\ serverPeer \in [Clients -> 0..2] /\ typed \in [Clients -> Nat]
    /\ starts \in 0..MaxStarts /\ \A c \in Clients : typed[c] <= starts

Hw2Inv ==
    /\ LinksOk /\ PeersOk /\ ToldApart /\ PlayersOk
    /\ RegisteringOk /\ LobbyTells /\ CountsOk

-----------------------------------------------------------------------------
(* One connection *)

\* The address comes to the near end of m only if it does to that of l, in the same
\* order, and to its far end no CONNECT but that of l.
InLess(l, m) ==
    \E d \in Nat : \A n \in 1..Len(m.in) :
        m.in[n] = Address => n + d \in 1..Len(l.in) /\ l.in[n + d] = Address
OutLess(l, m) ==
    \A n \in 1..Len(m.out) :
        m.out[n] = CONNECT => n \in 1..Len(l.out) /\ l.out[n] = CONNECT

\* What may become of a connection without anything to tell the client.
Tame(l, m) ==
    /\ LinkOk(m)
    /\ Told(m) => Told(l)
    /\ Telling(m) => Telling(l)
    /\ l.near = "none" => m.near = "none"
    /\ m.far = l.far \/ Ending(m) \/ (Untaken(l) /\ Untaken(m))

\* The events differ.
LEMMA Events ==
  /\ CONNECT # DISCONNECT /\ CONNECT # Address /\ DISCONNECT # Address
  /\ CONNECT # Event("Start") /\ CONNECT # Event("Time")
  /\ CONNECT.type = "CONNECT" /\ DISCONNECT.type = "DISCONNECT"
  /\ Address.type = "ServerAddress"
  /\ Event("Start").type = "Start" /\ Event("Time").type = "Time"
BY DEF CONNECT, DISCONNECT, Address, Event

\* The first event of an inbox is taken.
LEMMA TakenInbox ==
  ASSUME NEW E, NEW inbox \in Seq(E), inbox # << >>
  PROVE  /\ Tail(inbox) \in Seq(E) /\ Head(inbox) = inbox[1] /\ 1 \in 1..Len(inbox)
         /\ \A n \in 1..Len(Tail(inbox)) :
               Tail(inbox)[n] = inbox[n + 1] /\ n + 1 \in 1..Len(inbox)
<1>1. /\ Len(inbox) \in Nat \ {0} /\ Tail(inbox) \in Seq(E)
      /\ Head(inbox) = inbox[1] /\ Len(Tail(inbox)) = Len(inbox) - 1
      /\ \A n \in 1..Len(Tail(inbox)) : Tail(inbox)[n] = inbox[n + 1]
  BY HeadTailProperties
<1>2. \A n \in 1..Len(Tail(inbox)) : n + 1 \in 1..Len(inbox)
  BY <1>1
<1> QED
  BY <1>1, <1>2

\* What is sent comes last, if at all.
LEMMA PutInbox ==
  ASSUME NEW E, NEW inbox \in Seq(E), NEW e \in E
  PROVE  /\ Put(inbox, e) \in Seq(E)
         /\ \A n \in 1..Len(Put(inbox, e)) :
               \/ n \in 1..Len(inbox) /\ Put(inbox, e)[n] = inbox[n]
               \/ n = Len(inbox) + 1 /\ Put(inbox, e)[n] = e
<1>1. CASE Ended(inbox)
  BY <1>1 DEF Put
<1>2. CASE ~Ended(inbox)
  <2>1. Put(inbox, e) = Append(inbox, e)
    BY <1>2 DEF Put
  <2>2. /\ Append(inbox, e) \in Seq(E) /\ Len(Append(inbox, e)) = Len(inbox) + 1
        /\ Len(inbox) \in Nat /\ Append(inbox, e)[Len(inbox) + 1] = e
        /\ \A n \in 1..Len(inbox) : Append(inbox, e)[n] = inbox[n]
    BY AppendProperties
  <2>3. \A n \in 1..(Len(inbox) + 1) : n \in 1..Len(inbox) \/ n = Len(inbox) + 1
    BY <2>2
  <2> QED
    BY <2>1, <2>2, <2>3
<1> QED
  BY <1>1, <1>2

\* Some of the events arrive, then a DISCONNECT.
LEMMA CutInbox ==
  ASSUME NEW E, NEW inbox \in Seq(E), DISCONNECT \in E, NEW cut \in CutShort(inbox)
  PROVE  /\ cut \in Seq(E)
         /\ \A n \in 1..Len(cut) : \/ n \in 1..Len(inbox) /\ cut[n] = inbox[n]
                                   \/ cut[n] = DISCONNECT
<1>1. PICK k \in 0..Len(inbox) : cut = Append(SubSeq(inbox, 1, k), DISCONNECT)
  BY DEF CutShort
<1>2. Len(inbox) \in Nat /\ k \in Nat /\ k <= Len(inbox)
  OBVIOUS
<1> DEFINE arrived == SubSeq(inbox, 1, k)
<1>3. /\ arrived \in Seq(E) /\ Len(arrived) = k
      /\ \A n \in 1..k : arrived[n] = inbox[n] /\ n \in 1..Len(inbox)
  BY <1>2
<1>4. cut = Append(arrived, DISCONNECT)
  BY <1>1
<1> HIDE DEF arrived
<1>5. /\ cut \in Seq(E) /\ Len(cut) = k + 1 /\ cut[k + 1] = DISCONNECT
      /\ \A n \in 1..k : cut[n] = arrived[n]
  BY <1>3, <1>4, AppendProperties
<1>6. \A n \in 1..(k + 1) : n \in 1..k \/ n = k + 1
  BY <1>2
<1> QED
  BY <1>3, <1>5, <1>6

\* A connection with no more in its inboxes, whose ends have not opened, is tame.
LEMMA LessIsTame ==
  ASSUME NEW l, LinkOk(l), NEW m \in Links, InLess(l, m), OutLess(l, m),
         m.near = l.near \/ (m.near = "down" /\ l.near # "none"),
         m.far = l.far \/ (m.far = "down" /\ m.out = << >>)
  PROVE  Tame(l, m)
<1>1. PICK d \in Nat : \A n \in 1..Len(m.in) :
         m.in[n] = Address => n + d \in 1..Len(l.in) /\ l.in[n + d] = Address
  BY DEF InLess
<1>2. Told(m) => Told(l)
  BY <1>1 DEF Told
<1>3. \A i, j \in 1..Len(m.in) : m.in[i] = Address /\ m.in[j] = Address => i = j
  <2>1. SUFFICES ASSUME NEW i \in 1..Len(m.in), NEW j \in 1..Len(m.in),
                        m.in[i] = Address, m.in[j] = Address
                 PROVE  i = j
    OBVIOUS
  <2>2. i + d = j + d
    BY <1>1, <2>1 DEF LinkOk
  <2> QED
    BY <2>2
<1>4. \A n \in 1..Len(m.out) : m.out[n] = CONNECT => n = 1 /\ m.far = "accepting"
  <2>1. CASE m.far = l.far
    BY <2>1 DEF OutLess, LinkOk
  <2>2. CASE m.out = << >>
    BY <2>2
  <2> QED
    BY <2>1, <2>2
<1>5. Untaken(m) => Untaken(l)
  BY DEF Untaken
<1>6. LinkOk(m)
  BY <1>2, <1>3, <1>4, <1>5 DEF LinkOk
<1>7. Telling(m) => Telling(l)
  BY <1>2, <1>5 DEF Telling
<1> QED
  BY <1>2, <1>6, <1>7 DEF Tame, Ending

\* A connection that stays as it is is tame.
LEMMA SameIsTame ==
  ASSUME NEW l, LinkOk(l)
  PROVE  Tame(l, l)
BY DEF Tame

\* An event is taken by the far end, or by the near one.
LEMMA TakenIsTame ==
  ASSUME NEW l, LinkOk(l)
  PROVE  /\ l.out # << >> => Tame(l, [l EXCEPT !.out = Tail(@)])
         /\ l.in # << >> => Tame(l, [l EXCEPT !.in = Tail(@)])
<1>1. l \in Links /\ l.out \in Seq(FarEvents) /\ l.in \in Seq(NearEvents)
  BY DEF LinkOk, Links
<1>2. ASSUME l.out # << >>
      PROVE  Tame(l, [l EXCEPT !.out = Tail(@)])
  <2> DEFINE m == [l EXCEPT !.out = Tail(@)]
  <2>1. /\ Tail(l.out) \in Seq(FarEvents)
        /\ \A n \in 1..Len(Tail(l.out)) :
              Tail(l.out)[n] = l.out[n + 1] /\ n + 1 \in 1..Len(l.out)
    BY <1>1, <1>2, TakenInbox
  <2>2. /\ m \in Links /\ m.near = l.near /\ m.far = l.far /\ m.in = l.in
        /\ m.out = Tail(l.out)
    BY <1>1, <2>1 DEF Links
  <2> HIDE DEF m
  <2>3. \A n \in 1..Len(m.out) : m.out[n] # CONNECT
    BY <2>1, <2>2 DEF LinkOk
  <2>4. InLess(l, m)
    <3>1. \A n \in 1..Len(l.in) : n + 0 = n
      OBVIOUS
    <3> QED
      BY <2>2, <3>1 DEF InLess
  <2>5. OutLess(l, m)
    BY <2>3 DEF OutLess
  <2>6. Tame(l, m)
    BY <2>2, <2>4, <2>5, LessIsTame
  <2> QED
    BY <2>6 DEF m
<1>3. ASSUME l.in # << >>
      PROVE  Tame(l, [l EXCEPT !.in = Tail(@)])
  <2> DEFINE m == [l EXCEPT !.in = Tail(@)]
  <2>1. /\ Tail(l.in) \in Seq(NearEvents)
        /\ \A n \in 1..Len(Tail(l.in)) :
              Tail(l.in)[n] = l.in[n + 1] /\ n + 1 \in 1..Len(l.in)
    BY <1>1, <1>3, TakenInbox
  <2>2. /\ m \in Links /\ m.near = l.near /\ m.far = l.far /\ m.out = l.out
        /\ m.in = Tail(l.in)
    BY <1>1, <2>1 DEF Links
  <2> HIDE DEF m
  <2>3. InLess(l, m)
    BY <2>1, <2>2 DEF InLess
  <2>4. OutLess(l, m)
    BY <2>2 DEF OutLess
  <2>5. Tame(l, m)
    BY <2>2, <2>3, <2>4, LessIsTame
  <2> QED
    BY <2>5 DEF m
<1> QED
  BY <1>2, <1>3

\* An inbox that is emptied, or holds a DISCONNECT or some of what it held before it.
LEMMA ShortInbox ==
  ASSUME NEW E, NEW inbox \in Seq(E), DISCONNECT \in E,
         NEW short \in {inbox, << >>, <<DISCONNECT>>} \union CutShort(inbox)
  PROVE  /\ short \in Seq(E)
         /\ \A n \in 1..Len(short) : \/ n \in 1..Len(inbox) /\ short[n] = inbox[n]
                                     \/ short[n] = DISCONNECT
<1>1. CASE short \in CutShort(inbox)
  BY <1>1, CutInbox
<1>2. CASE short = inbox
  BY <1>2
<1>3. CASE short = << >>
  BY <1>3
<1>4. CASE short = <<DISCONNECT>>
  BY <1>4
<1> QED
  BY <1>1, <1>2, <1>3, <1>4

\* A connection of which one or both ends have been closed, or have lost events.
Shortened(l) ==
    [near : {l.near, "down"}, far : {l.far, "down"},
     in  : {l.in, << >>, <<DISCONNECT>>} \union CutShort(l.in),
     out : {l.out, << >>, <<DISCONNECT>>} \union CutShort(l.out)]

\* It is tame, if the end that is closed was open and reads nothing any more.
LEMMA ShortIsTame ==
  ASSUME NEW l, LinkOk(l), NEW m \in Shortened(l),
         m.near = "down" => l.near # "none",
         m.far = l.far \/ m.out = << >>
  PROVE  Tame(l, m)
<1>1. /\ l.out \in Seq(FarEvents) /\ l.in \in Seq(NearEvents)
      /\ l.near \in EndState /\ l.far \in EndState /\ "down" \in EndState
  BY DEF LinkOk, Links, EndState
<1>2. DISCONNECT \in NearEvents /\ DISCONNECT \in FarEvents
  BY DEF NearEvents, FarEvents
<1>3. /\ m.near \in {l.near, "down"} /\ m.far \in {l.far, "down"}
      /\ m.in \in {l.in, << >>, <<DISCONNECT>>} \union CutShort(l.in)
      /\ m.out \in {l.out, << >>, <<DISCONNECT>>} \union CutShort(l.out)
  BY DEF Shortened
<1>4. /\ m.in \in Seq(NearEvents)
      /\ \A n \in 1..Len(m.in) : \/ n \in 1..Len(l.in) /\ m.in[n] = l.in[n]
                                 \/ m.in[n] = DISCONNECT
  BY <1>1, <1>2, <1>3, ShortInbox
<1>5. /\ m.out \in Seq(FarEvents)
      /\ \A n \in 1..Len(m.out) : \/ n \in 1..Len(l.out) /\ m.out[n] = l.out[n]
                                  \/ m.out[n] = DISCONNECT
  BY <1>1, <1>2, <1>3, ShortInbox
<1>6. m \in Links
  BY <1>1, <1>3, <1>4, <1>5 DEF Shortened, Links
<1>7. InLess(l, m)
  <2>1. \A n \in 1..Len(m.in) : n + 0 = n
    OBVIOUS
  <2> QED
    BY <1>4, <2>1, Events DEF InLess
<1>8. OutLess(l, m)
  BY <1>5, Events DEF OutLess
<1> QED
  BY <1>3, <1>6, <1>7, <1>8, LessIsTame

\* What the near end sends to the far one.
LEMMA SentIsTame ==
  ASSUME NEW l, LinkOk(l), NEW p \in {Event("Start"), Event("Time")}
  PROVE  /\ Tame(l, SendFar(l, p))
         /\ SendFar(l, p).near = l.near /\ SendFar(l, p).far = l.far
<1> DEFINE m == [l EXCEPT !.out = Put(@, p)]
<1>1. CASE SendFar(l, p) = l
  BY <1>1, SameIsTame
<1>2. CASE SendFar(l, p) = m
  <2>1. l \in Links /\ l.out \in Seq(FarEvents) /\ p \in FarEvents
    BY DEF LinkOk, Links, FarEvents
  <2>2. /\ Put(l.out, p) \in Seq(FarEvents)
        /\ \A n \in 1..Len(Put(l.out, p)) :
              \/ n \in 1..Len(l.out) /\ Put(l.out, p)[n] = l.out[n]
              \/ Put(l.out, p)[n] = p
    BY <2>1, PutInbox
  <2>3. /\ m \in Links /\ m.near = l.near /\ m.far = l.far /\ m.in = l.in
        /\ m.out = Put(l.out, p)
    BY <2>1, <2>2 DEF Links
  <2> HIDE DEF m
  <2>4. InLess(l, m)
    <3>1. \A n \in 1..Len(l.in) : n + 0 = n
      OBVIOUS
    <3> QED
      BY <2>3, <3>1 DEF InLess
  <2>5. OutLess(l, m)
    BY <2>2, <2>3, Events DEF OutLess
  <2>6. Tame(l, m)
    BY <2>3, <2>4, <2>5, LessIsTame
  <2> QED
    BY <1>2, <2>3, <2>6
<1> QED
  BY <1>1, <1>2 DEF SendFar

\* A connect, and one that is answered.
LEMMA EstablishedIsTame ==
  ASSUME NEW l, l = Connecting
  PROVE  /\ LinkOk(l) /\ ~Told(l) /\ l.near = "connecting" /\ l.far = "none"
         /\ Tame(l, Established(l)) /\ ~Told(Established(l))
         /\ Established(l).near = "up" /\ Established(l).far = "accepting"
         /\ Established(l).in = << >> /\ Established(l).out = <<CONNECT>>
<1> DEFINE m == Established(l)
<1>1. l = [near |-> "connecting", far |-> "none", in |-> << >>, out |-> << >>]
  BY DEF Connecting, NoLink
<1>2. << >> \in Seq(NearEvents) /\ << >> \in Seq(FarEvents) /\ <<CONNECT>> \in Seq(FarEvents)
  BY DEF FarEvents
<1>3. l \in Links
  <2>1. {"connecting", "none"} \subseteq EndState
    BY DEF EndState
  <2> QED
    BY <1>1, <1>2, <2>1 DEF Links
<1>4. /\ m \in Links /\ m.near = "up" /\ m.far = "accepting"
      /\ m.in = << >> /\ m.out = <<CONNECT>>
  <2>1. {"up", "accepting"} \subseteq EndState
    BY DEF EndState
  <2>2. l.in = << >>
    BY <1>1
  <2> QED
    BY <1>2, <1>3, <2>1, <2>2 DEF Links, Established
<1> HIDE DEF m
<1>5. ~Told(l) /\ ~Told(m)
  BY <1>1, <1>4 DEF Told
<1>6. LinkOk(l)
  BY <1>1, <1>3, <1>5 DEF LinkOk
<1>7. LinkOk(m)
  BY <1>4, <1>5 DEF LinkOk
<1>8. Tame(l, m)
  BY <1>1, <1>4, <1>5, <1>7 DEF Tame, Telling, Untaken
<1>9. l.near = "connecting" /\ l.far = "none"
  BY <1>1
<1> QED
  BY <1>4, <1>5, <1>6, <1>8, <1>9 DEF m

\* The far end takes a connection up, and may tell the near one of the server.
LEMMA TakenUp ==
  ASSUME NEW l, LinkOk(l), HeadIs(l.out, "CONNECT"),
         NEW up, up = [l EXCEPT !.far = "up", !.out = Tail(@)]
  PROVE  /\ LinkOk(up) /\ ~Told(up) /\ up.near = l.near /\ up.far = "up"
         /\ l.far = "accepting" /\ l.near # "none"
<1>1. /\ l \in Links /\ l.out \in Seq(FarEvents) /\ l.out # << >>
      /\ Head(l.out).type = "CONNECT"
  BY DEF LinkOk, Links, HeadIs
<1>2. /\ Tail(l.out) \in Seq(FarEvents) /\ Head(l.out) = l.out[1] /\ 1 \in 1..Len(l.out)
      /\ \A n \in 1..Len(Tail(l.out)) :
            Tail(l.out)[n] = l.out[n + 1] /\ n + 1 \in 1..Len(l.out)
  BY <1>1, TakenInbox
<1>3. l.out[1] = CONNECT
  <2>1. l.out[1] \in FarEvents
    BY <1>1, <1>2, ElementOfSeq
  <2> QED
    BY <1>1, <1>2, <2>1, Events DEF FarEvents
<1>4. l.far = "accepting" /\ l.near # "none" /\ ~Told(l)
  BY <1>2, <1>3 DEF LinkOk, Untaken
<1>5. /\ up \in Links /\ up.near = l.near /\ up.far = "up" /\ up.in = l.in
      /\ up.out = Tail(l.out)
  <2>1. "up" \in EndState
    BY DEF EndState
  <2> QED
    BY <1>1, <1>2, <2>1 DEF Links
<1>6. ~Told(up)
  BY <1>4, <1>5 DEF Told
<1>7. \A n \in 1..Len(up.out) : up.out[n] # CONNECT
  BY <1>2, <1>5 DEF LinkOk
<1>8. LinkOk(up)
  BY <1>4, <1>5, <1>6, <1>7 DEF LinkOk
<1> QED
  BY <1>4, <1>5, <1>6, <1>8

\* The address reaches an end that has not been told, of a connection that is up.
LEMMA AddressSent ==
  ASSUME NEW l, LinkOk(l), ~Told(l)
  PROVE  LET m == SendNear(l, Address)
         IN  /\ LinkOk(m) /\ m.near = l.near /\ m.far = l.far
             /\ Told(m) => l.far = "up" /\ l.near \notin {"none", "down"}
<1>1. CASE ~(l.far = "up" /\ l.near # "down")
  BY <1>1 DEF SendNear
<1>2. CASE l.far = "up" /\ l.near # "down"
  <2> DEFINE m == [l EXCEPT !.in = Put(@, Address)]
  <2>1. SendNear(l, Address) = m
    BY <1>2 DEF SendNear
  <2>2. l \in Links /\ l.in \in Seq(NearEvents) /\ Address \in NearEvents
    BY DEF LinkOk, Links, NearEvents
  <2>3. /\ Put(l.in, Address) \in Seq(NearEvents)
        /\ \A n \in 1..Len(Put(l.in, Address)) :
              \/ n \in 1..Len(l.in) /\ Put(l.in, Address)[n] = l.in[n]
              \/ n = Len(l.in) + 1 /\ Put(l.in, Address)[n] = Address
    BY <2>2, PutInbox
  <2>4. /\ m \in Links /\ m.near = l.near /\ m.far = l.far /\ m.out = l.out
        /\ m.in = Put(l.in, Address)
    BY <2>2, <2>3 DEF Links
  <2> HIDE DEF m
  <2>5. \A n \in 1..Len(m.in) : m.in[n] = Address => n = Len(l.in) + 1
    BY <2>3, <2>4 DEF Told
  <2>6. ~Untaken(m) /\ l.near # "none"
    BY <1>2, <2>4 DEF Untaken, LinkOk
  <2>7. LinkOk(m)
    BY <1>2, <2>4, <2>5, <2>6 DEF LinkOk
  <2> QED
    BY <1>2, <2>1, <2>4, <2>6, <2>7
<1> QED
  BY <1>1, <1>2

-----------------------------------------------------------------------------
(* All of them *)

\* What may become of connection k without a client being told that should not be.
Sound(k, m) ==
    /\ LinkOk(m)
    /\ Telling(m) => Telling(link[k])
    /\ link[k].near = "none" => m.near = "none"
    /\ Ending(link[k]) => Ending(m)
    /\ Told(m) => \/ Told(link[k])
                  \/ started_ /\ (remote[k] = "lobby" \/ (registrationFailed /\ Ending(m)))

\* A tame connection is sound.
LEMMA TameIsSound ==
  ASSUME NEW k, NEW m, Tame(link[k], m)
  PROVE  Sound(k, m)
BY DEF Tame, Sound, Ending, Untaken

\* A step that keeps all connections sound keeps their part of the invariant.
LEMMA SoundStep ==
  ASSUME Hw2Inv, link' \in [Connections -> Links],
         \A k \in Connections : Sound(k, link'[k]),
         UNCHANGED <<remote, serverPeer, started_>>,
         gaveUp' = gaveUp \/ registrationFailed,
         registrationFailed => registrationFailed'
  PROVE  LinksOk' /\ PeersOk' /\ ToldApart' /\ LobbyTells'
<1>1. LinksOk'
  BY DEF Hw2Inv, LinksOk, Sound
<1>2. PeersOk'
  BY DEF Hw2Inv, PeersOk, Sound
<1>3. ToldApart'
  <2>1. SUFFICES ASSUME NEW j \in Connections, NEW k \in Connections,
                        j[1] = k[1], remote[j] = "server",
                        IF j = k THEN Told(link'[k]) ELSE Telling(link'[k])
                 PROVE  Ending(link'[j])
    BY DEF ToldApart
  <2>2. CASE j = k
    <3>1. Told(link[k]) => Ending(link[k])
      BY <2>1, <2>2 DEF Hw2Inv, ToldApart
    <3> QED
      BY <2>1, <2>2, <3>1 DEF Sound
  <2>3. CASE j # k
    BY <2>1, <2>3 DEF Hw2Inv, ToldApart, Sound
  <2> QED
    BY <2>2, <2>3
<1>4. LobbyTells'
  <2>1. SUFFICES ASSUME ~registrationFailed'
                 PROVE  /\ gaveUp' = {}
                        /\ \A c \in Clients :
                              /\ remote'[<<c, 1>>] = "lobby"
                              /\ ~Told(link'[<<c, 2>>])
                              /\ Telling(link'[<<c, 1>>]) => remote'[<<c, 2>>] = "nobody"
    BY DEF LobbyTells
  <2>2. ~registrationFailed /\ LobbyTells
    BY <2>1 DEF Hw2Inv
  <2>3. ASSUME NEW c \in Clients
        PROVE  /\ remote'[<<c, 1>>] = "lobby"
               /\ ~Told(link'[<<c, 2>>])
               /\ Telling(link'[<<c, 1>>]) => remote'[<<c, 2>>] = "nobody"
    <3>1. <<c, 1>> \in Connections /\ <<c, 2>> \in Connections
      BY DEF Connections, Peers
    <3>2. remote[<<c, 2>>] # "lobby"
      BY <3>1 DEF Hw2Inv, PeersOk
    <3> QED
      BY <2>2, <3>1, <3>2 DEF LobbyTells, Sound
  <2> QED
    BY <2>2, <2>3 DEF LobbyTells
<1> QED
  BY <1>1, <1>2, <1>3, <1>4

\* A step of the connections that the server's clients_ have nothing to do with.
LEMMA PlayersKept ==
  ASSUME PlayersOk, UNCHANGED <<remote, players, next_id, running>>,
         \A k \in Connections :
            remote[k] = "server" => (link'[k].far = "up" <=> link[k].far = "up")
  PROVE  PlayersOk'
BY DEF PlayersOk

\* A step of one connection.
LEMMA OneSound ==
  ASSUME Hw2Inv, NEW k \in Connections, NEW m, link' = [link EXCEPT ![k] = m],
         Sound(k, m), UNCHANGED <<remote, serverPeer, started_, gaveUp>>,
         registrationFailed => registrationFailed'
  PROVE  /\ LinksOk' /\ PeersOk' /\ ToldApart' /\ LobbyTells'
         /\ link'[k] = m /\ \A j \in Connections \ {k} : link'[j] = link[j]
<1>1. /\ link \in [Connections -> Links] /\ m \in Links
      /\ \A j \in Connections : LinkOk(link[j])
  BY DEF Hw2Inv, LinksOk, Sound, LinkOk
<1>2. /\ link' \in [Connections -> Links] /\ link'[k] = m
      /\ \A j \in Connections \ {k} : link'[j] = link[j]
  BY <1>1
<1>3. \A j \in Connections : Sound(j, link'[j])
  <2>1. \A j \in Connections : Sound(j, link[j])
    BY <1>1, SameIsTame, TameIsSound
  <2> QED
    BY <1>2, <2>1
<1> QED
  BY <1>2, <1>3, SoundStep

\* ENet's peers change hands only where lobbyPeer is null or points to a stranger.
LEMMA RegisteringKept ==
  ASSUME RegisteringOk, UNCHANGED <<lobbyPeer, running, registrationFailed>>,
         link'[ToLobby].near = link[ToLobby].near,
         lobbySlot' = lobbySlot \/ registrationFailed \/ ~lobbyPeer
  PROVE  RegisteringOk'
BY DEF RegisteringOk

\* A step of one connection that neither players nor lobbyPeer have to do with.
LEMMA LinkStep ==
  ASSUME Hw2Inv, NEW k \in Connections, NEW m, link' = [link EXCEPT ![k] = m],
         Sound(k, m), k = ToLobby => m.near = link[k].near,
         remote[k] = "server" => (m.far = "up" <=> link[k].far = "up"),
         UNCHANGED <<remote, serverPeer, started_, gaveUp, registrationFailed, players,
                     next_id, running, lobbyPeer>>,
         lobbySlot' = lobbySlot \/ registrationFailed \/ ~lobbyPeer
  PROVE  /\ LinksOk' /\ PeersOk' /\ ToldApart' /\ LobbyTells'
         /\ PlayersOk' /\ RegisteringOk'
<1>1. /\ LinksOk' /\ PeersOk' /\ ToldApart' /\ LobbyTells'
      /\ link'[k] = m /\ \A j \in Connections \ {k} : link'[j] = link[j]
  BY OneSound
<1>2. PlayersOk'
  BY <1>1, PlayersKept DEF Hw2Inv
<1>3. RegisteringOk'
  <2>1. ToLobby \in Connections
    BY DEF Connections
  <2>2. link'[ToLobby].near = link[ToLobby].near
    BY <1>1, <2>1
  <2> QED
    BY <2>2, RegisteringKept DEF Hw2Inv
<1> QED
  BY <1>1, <1>2, <1>3

-----------------------------------------------------------------------------
(* The lobby *)

\* The rest of the invariant, when only its own variables change as they may.
LEMMA CountsKept ==
  ASSUME CountsOk, UNCHANGED <<started_, server_address_, gameVars, clientVars, bounds>>,
         clients_' \subseteq Connections
  PROVE  CountsOk'
BY DEF CountsOk, gameVars, clientVars, bounds

\* What the lobby does leaves the server and the clients alone.
LEMMA LobbyFrame ==
  ASSUME UNCHANGED <<gameVars, clientVars, bounds>>
  PROVE  /\ UNCHANGED <<remote, serverPeer, gaveUp, registrationFailed, players, next_id>>
         /\ UNCHANGED <<running, lobbyPeer, lobbySlot>>
BY DEF gameVars, clientVars, bounds

\* The link of a connection, and what its inboxes hold.
LEMMA LinkTypes ==
  ASSUME LinksOk, NEW k \in Connections
  PROVE  /\ link[k] \in Links /\ LinkOk(link[k])
         /\ link[k].in \in Seq(NearEvents) /\ link[k].out \in Seq(FarEvents)
         /\ link[k].near \in EndState /\ link[k].far \in EndState
BY DEF LinksOk, LinkOk, Links

\* A client that comes to the lobby is told of the server if it is late.
LEMMA LobbyConnectStep ==
  ASSUME Hw2Inv, NEW k \in Connections, LobbyConnect(k)
  PROVE  Hw2Inv'
<1> DEFINE up == [link[k] EXCEPT !.far = "up", !.out = Tail(@)]
           m == IF started_ THEN SendNear(up, Address) ELSE up
<1>1. /\ remote[k] = "lobby" /\ HeadIs(link[k].out, "CONNECT")
      /\ clients_' = clients_ \union {k} /\ link' = [link EXCEPT ![k] = m]
      /\ UNCHANGED <<started_, server_address_, gameVars, clientVars, bounds>>
  BY DEF LobbyConnect, LobbyHas
<1>2. LinkOk(link[k])
  BY LinkTypes DEF Hw2Inv
<1>3. /\ LinkOk(up) /\ ~Told(up) /\ up.near = link[k].near /\ up.far = "up"
      /\ link[k].far = "accepting" /\ link[k].near # "none"
  BY <1>1, <1>2, TakenUp
<1>4. /\ LinkOk(m) /\ m.near = link[k].near /\ m.far = "up"
      /\ Told(m) => started_ /\ link[k].near \notin {"none", "down"}
  <2> HIDE DEF up
  <2> QED
    BY <1>3, AddressSent
<1> HIDE DEF m
<1>5. Sound(k, m)
  BY <1>1, <1>3, <1>4 DEF Sound, Telling, Ending, Untaken
<1>6. /\ LinksOk' /\ PeersOk' /\ ToldApart' /\ LobbyTells'
      /\ PlayersOk' /\ RegisteringOk'
  BY <1>1, <1>4, <1>5, LobbyFrame, LinkStep
<1>7. CountsOk'
  BY <1>1, CountsKept DEF Hw2Inv, CountsOk
<1> QED
  BY <1>6, <1>7 DEF Hw2Inv

\* A client that leaves the lobby is erased.
LEMMA LobbyDisconnectStep ==
  ASSUME Hw2Inv, NEW k \in Connections, LobbyDisconnect(k)
  PROVE  Hw2Inv'
<1> DEFINE m == [link[k] EXCEPT !.far = "down", !.out = << >>]
<1>1. /\ remote[k] = "lobby" /\ clients_' = clients_ \ {k}
      /\ link' = [link EXCEPT ![k].far = "down", ![k].out = << >>]
      /\ UNCHANGED <<started_, server_address_, gameVars, clientVars, bounds>>
  BY DEF LobbyDisconnect, LobbyHas, Closed
<1>2. link[k] \in Links /\ LinkOk(link[k]) /\ link \in [Connections -> Links]
  BY LinkTypes DEF Hw2Inv, LinksOk
<1>3. m \in Shortened(link[k]) /\ m.near = link[k].near /\ m.far = "down" /\ m.out = << >>
  BY <1>2 DEF Links, Shortened
<1>4. link' = [link EXCEPT ![k] = m]
  BY <1>1, <1>2
<1> HIDE DEF m
<1>5. Sound(k, m)
  <2>1. m.near = "down" => link[k].near # "none"
    BY <1>3
  <2> QED
    BY <1>2, <1>3, <2>1, ShortIsTame, TameIsSound
<1>6. /\ LinksOk' /\ PeersOk' /\ ToldApart' /\ LobbyTells'
      /\ PlayersOk' /\ RegisteringOk'
  BY <1>1, <1>3, <1>4, <1>5, LobbyFrame, LinkStep
<1>7. CountsOk'
  BY <1>1, CountsKept DEF Hw2Inv, CountsOk
<1> QED
  BY <1>6, <1>7 DEF Hw2Inv

\* What the far end has handled is sound.
LEMMA HeadTakenIsSound ==
  ASSUME LinksOk, NEW k \in Connections, link[k].out # << >>,
         NEW m, m = [link[k] EXCEPT !.out = Tail(@)]
  PROVE  /\ HeadTaken(k) = [link EXCEPT ![k] = m]
         /\ Sound(k, m) /\ m.near = link[k].near /\ m.far = link[k].far /\ m.in = link[k].in
<1>1. link \in [Connections -> Links] /\ link[k] \in Links /\ LinkOk(link[k])
  BY LinkTypes DEF LinksOk
<1>2. Tame(link[k], m)
  BY <1>1, TakenIsTame
<1> QED
  BY <1>1, <1>2, TameIsSound DEF HeadTaken, Links

\* The server registers.
LEMMA LobbyServerAddressStep ==
  ASSUME Hw2Inv, NEW k \in Connections, LobbyServerAddress(k)
  PROVE  Hw2Inv'
<1> DEFINE m == [link[k] EXCEPT !.out = Tail(@)]
<1>1. /\ remote[k] = "lobby" /\ link[k].out # << >> /\ link' = HeadTaken(k)
      /\ server_address_' = TRUE
      /\ UNCHANGED <<clients_, started_, gameVars, clientVars, bounds>>
  BY DEF LobbyServerAddress, LobbyHas, HeadIs
<1>2. /\ link' = [link EXCEPT ![k] = m]
      /\ Sound(k, m) /\ m.near = link[k].near /\ m.far = link[k].far
  BY <1>1, HeadTakenIsSound DEF Hw2Inv
<1> HIDE DEF m
<1>3. /\ LinksOk' /\ PeersOk' /\ ToldApart' /\ LobbyTells'
      /\ PlayersOk' /\ RegisteringOk'
  BY <1>1, <1>2, LobbyFrame, LinkStep
<1>4. CountsOk'
  BY <1>1 DEF Hw2Inv, CountsOk, gameVars, clientVars, bounds
<1> QED
  BY <1>3, <1>4 DEF Hw2Inv

\* The first start: nobody has been told before, and nobody is with the server.
LEMMA LobbyStartStep ==
  ASSUME Hw2Inv, NEW k \in Connections, LobbyStart(k)
  PROVE  Hw2Inv'
<1> DEFINE m == [link[k] EXCEPT !.out = Tail(@)]
<1>1. /\ remote[k] = "lobby" /\ link[k].out # << >>
      /\ UNCHANGED <<clients_, server_address_, gameVars, clientVars, bounds>>
  BY DEF LobbyStart, LobbyHas, HeadIs
<1>2. /\ HeadTaken(k) = [link EXCEPT ![k] = m]
      /\ Sound(k, m) /\ m.near = link[k].near /\ m.far = link[k].far /\ m.in = link[k].in
  BY <1>1, HeadTakenIsSound DEF Hw2Inv
<1> HIDE DEF m
<1>3. CASE link' = HeadTaken(k) /\ started_' = started_
  <2>1. /\ LinksOk' /\ PeersOk' /\ ToldApart' /\ LobbyTells'
        /\ PlayersOk' /\ RegisteringOk'
    BY <1>1, <1>2, <1>3, LobbyFrame, LinkStep
  <2>2. CountsOk'
    BY <1>1, <1>3 DEF Hw2Inv, CountsOk, gameVars, clientVars, bounds
  <2> QED
    BY <2>1, <2>2 DEF Hw2Inv
<1>4. CASE ~started_ /\ started_' = TRUE
           /\ link' = [j \in Connections |->
                          IF j \in clients_ THEN SendNear(HeadTaken(k)[j], Address)
                          ELSE HeadTaken(k)[j]]
  <2>1. /\ link \in [Connections -> Links] /\ \A j \in Connections : remote[j] # "server"
        /\ \A j \in Connections : LinkOk(link[j]) /\ ~Told(link[j])
    BY <1>4 DEF Hw2Inv, LinksOk, PeersOk
  <2>2. ASSUME NEW j \in Connections
        PROVE  /\ LinkOk(HeadTaken(k)[j]) /\ ~Told(HeadTaken(k)[j])
               /\ HeadTaken(k)[j].near = link[j].near
               /\ HeadTaken(k)[j].far = link[j].far
    <3>1. ~Told(m)
      BY <1>2, <2>1 DEF Told
    <3> QED
      BY <1>2, <2>1, <3>1 DEF Sound
  <2>3. ASSUME NEW j \in Connections
        PROVE  /\ LinkOk(link'[j]) /\ link'[j].near = link[j].near
               /\ link'[j].far = link[j].far
               /\ Told(link'[j]) => link[j].near # "none"
    <3> DEFINE l == HeadTaken(k)[j]
    <3>1. LinkOk(l) /\ ~Told(l) /\ l.near = link[j].near /\ l.far = link[j].far
      BY <2>2
    <3>2. link'[j] = l \/ link'[j] = SendNear(l, Address)
      BY <1>4
    <3> HIDE DEF l
    <3> QED
      BY <3>1, <3>2, AddressSent
  <2>4. LinksOk'
    <3>1. \A j \in Connections : link'[j] \in Links
      BY <2>3 DEF LinkOk
    <3> QED
      BY <1>4, <2>3, <3>1 DEF LinksOk
  <2>5. PeersOk'
    BY <1>1, <2>1, <2>3, LobbyFrame DEF Hw2Inv, PeersOk
  <2>6. ToldApart'
    BY <1>1, <2>1, LobbyFrame DEF ToldApart
  <2>7. PlayersOk'
    BY <1>1, <2>1, LobbyFrame, PlayersKept DEF Hw2Inv
  <2>8. RegisteringOk'
    <3>1. ToLobby \in Connections
      BY DEF Connections
    <3> QED
      BY <1>1, <2>3, <3>1, LobbyFrame DEF Hw2Inv, RegisteringOk
  <2>9. LobbyTells'
    <3>1. ASSUME NEW c \in Clients
          PROVE  ~Told(link'[<<c, 2>>]) /\ remote[<<c, 2>>] = "nobody"
      <4>1. <<c, 2>> \in Connections
        BY DEF Connections, Peers
      <4>2. remote[<<c, 2>>] = "nobody" /\ link[<<c, 2>>].near = "none"
        BY <2>1, <4>1 DEF Hw2Inv, PeersOk
      <4> QED
        BY <2>3, <4>1, <4>2
    <3> QED
      BY <1>1, <3>1, LobbyFrame DEF Hw2Inv, LobbyTells
  <2>10. CountsOk'
    BY <1>1, <1>4 DEF Hw2Inv, CountsOk, gameVars, clientVars, bounds
  <2> QED
    BY <2>4, <2>5, <2>6, <2>7, <2>8, <2>9, <2>10 DEF Hw2Inv
<1> QED
  BY <1>3, <1>4 DEF LobbyStart, Started

-----------------------------------------------------------------------------
(* The server *)

\* What the server does leaves the lobby and the clients alone.
LEMMA ServerFrame ==
  ASSUME UNCHANGED <<lobbyVars, clientVars, starts, failures>>
  PROVE  /\ UNCHANGED <<clients_, started_, server_address_, starts, failures>>
         /\ UNCHANGED <<remote, lobbyConnected, serverConnected, serverPeer, typed, gaveUp>>
BY DEF lobbyVars, clientVars

\* The bounds of a step frame.
LEMMA BoundsFrame ==
  ASSUME UNCHANGED bounds
  PROVE  UNCHANGED <<starts, failures, registrationFailed>>
BY DEF bounds

\* The connection to the lobby is one of them, and no client's.
LEMMA ToLobbyIs ==
  /\ ToLobby \in Connections /\ ToLobby[1] = "server" /\ "server" \notin Clients
  /\ \A c \in Clients, i \in Peers : <<c, i>> \in Connections /\ <<c, i>> # ToLobby
  /\ \A k \in Connections : k # ToLobby => k[1] \in Clients /\ k[2] \in Peers
BY ConstantsAssumption DEF Connections, ToLobby

\* The server has registered, and leaves.
LEMMA ServerConnectStep ==
  ASSUME Hw2Inv, ServerConnect
  PROVE  Hw2Inv'
<1> DEFINE first == Established(link[ToLobby])
           sent == SendFar(first, Address)
           m == CloseNear(sent)
<1>1. /\ link[ToLobby] = Connecting /\ lobbyPeer' = FALSE
      /\ link' = [link EXCEPT ![ToLobby] = m]
      /\ UNCHANGED <<lobbyVars, running, lobbySlot, players, next_id, clientVars, bounds>>
  BY DEF ServerConnect
<1>2. /\ first.near = "up" /\ first.far = "accepting" /\ first.in = << >>
      /\ first.out = <<CONNECT>> /\ LinkOk(first)
      /\ link[ToLobby].near = "connecting" /\ link[ToLobby].far = "none"
      /\ ~Told(link[ToLobby])
  BY <1>1, EstablishedIsTame DEF Tame
<1> HIDE DEF first
<1>3. /\ sent.near = "up" /\ sent.far = "accepting" /\ sent.in = << >>
      /\ sent.out \in Seq(FarEvents) /\ sent \in Links
      /\ \A n \in 1..Len(sent.out) : sent.out[n] = CONNECT => n = 1
  <2>1. first \in Links /\ first.out \in Seq(FarEvents) /\ Address \in FarEvents
    BY <1>2 DEF LinkOk, Links, FarEvents
  <2>2. sent = [first EXCEPT !.out = Put(@, Address)]
    BY <1>2 DEF SendFar
  <2>3. /\ Put(first.out, Address) \in Seq(FarEvents)
        /\ \A n \in 1..Len(Put(first.out, Address)) :
              \/ n \in 1..Len(first.out) /\ Put(first.out, Address)[n] = first.out[n]
              \/ Put(first.out, Address)[n] = Address
    BY <2>1, PutInbox
  <2> HIDE DEF sent
  <2>4. /\ sent.out = Put(first.out, Address) /\ sent \in Links /\ sent.near = "up"
        /\ sent.far = "accepting" /\ sent.in = << >>
    BY <1>2, <2>1, <2>2, <2>3 DEF Links
  <2> QED
    BY <1>2, <2>3, <2>4, Events DEF LinkOk
<1> HIDE DEF sent
<1>4. /\ m.near = "closing" /\ m.far = "accepting" /\ m.in = <<DISCONNECT>> /\ m \in Links
      /\ \A n \in 1..Len(m.out) : m.out[n] = CONNECT => n = 1
  <2>1. m = [sent EXCEPT !.near = "closing", !.in = <<DISCONNECT>>,
                         !.out = Put(@, DISCONNECT)]
    BY <1>3 DEF CloseNear
  <2>2. /\ DISCONNECT \in NearEvents /\ DISCONNECT \in FarEvents /\ "closing" \in EndState
        /\ <<DISCONNECT>> \in Seq(NearEvents)
    BY DEF NearEvents, FarEvents, EndState
  <2>3. /\ Put(sent.out, DISCONNECT) \in Seq(FarEvents)
        /\ \A n \in 1..Len(Put(sent.out, DISCONNECT)) :
              \/ /\ n \in 1..Len(sent.out)
                 /\ Put(sent.out, DISCONNECT)[n] = sent.out[n]
              \/ Put(sent.out, DISCONNECT)[n] = DISCONNECT
    BY <1>3, <2>2, PutInbox
  <2> HIDE DEF m
  <2>4. /\ m.out = Put(sent.out, DISCONNECT) /\ m \in Links /\ m.near = "closing"
        /\ m.far = "accepting" /\ m.in = <<DISCONNECT>>
    BY <1>3, <2>1, <2>2, <2>3 DEF Links
  <2> QED
    BY <1>3, <2>3, <2>4, Events
<1> HIDE DEF m
<1>5. ~Told(m)
  BY <1>4, Events DEF Told
<1>6. LinkOk(m)
  BY <1>4, <1>5 DEF LinkOk, Told
<1>7. Sound(ToLobby, m)
  BY <1>2, <1>5, <1>6 DEF Sound, Telling, Ending, Untaken
<1>8. /\ LinksOk' /\ PeersOk' /\ ToldApart' /\ LobbyTells' /\ link'[ToLobby] = m
      /\ \A j \in Connections \ {ToLobby} : link'[j] = link[j]
  <2>1. UNCHANGED <<remote, serverPeer, started_, gaveUp, registrationFailed>>
    BY <1>1, ServerFrame, BoundsFrame
  <2>2. ToLobby \in Connections
    BY ToLobbyIs
  <2> QED
    BY <1>1, <1>7, <2>1, <2>2, OneSound
<1>9. PlayersOk'
  <2>1. remote[ToLobby] # "server"
    BY DEF Hw2Inv, PeersOk
  <2> QED
    BY <1>1, <1>8, <2>1, ServerFrame, BoundsFrame, PlayersKept DEF Hw2Inv
<1>10. RegisteringOk' /\ CountsOk'
  BY <1>1, ServerFrame, BoundsFrame DEF Hw2Inv, RegisteringOk, CountsOk
<1> QED
  BY <1>8, <1>9, <1>10 DEF Hw2Inv

\* The connection to the lobby is over; if it has never been up, lobbyPeer dangles.
LEMMA ServerDisconnectStep ==
  ASSUME Hw2Inv, ServerDisconnect
  PROVE  Hw2Inv'
<1> DEFINE m == [link[ToLobby] EXCEPT !.near = "down", !.in = << >>]
<1>1. /\ running /\ link[ToLobby].near \in {"connecting", "up", "closing"}
      /\ link' = [link EXCEPT ![ToLobby].near = "down", ![ToLobby].in = << >>]
      /\ lobbySlot' = <<"free">>
      /\ registrationFailed' = (registrationFailed \/ link[ToLobby].near = "connecting")
      /\ UNCHANGED <<lobbyVars, running, lobbyPeer, players, next_id, clientVars,
                     starts, failures>>
  BY DEF ServerDisconnect
<1>2. /\ link[ToLobby] \in Links /\ LinkOk(link[ToLobby])
      /\ link \in [Connections -> Links]
  BY LinkTypes, ToLobbyIs DEF Hw2Inv, LinksOk
<1>3. m \in Shortened(link[ToLobby]) /\ m.near = "down" /\ m.far = link[ToLobby].far
  BY <1>2 DEF Links, Shortened
<1>4. link' = [link EXCEPT ![ToLobby] = m]
  BY <1>1, <1>2, ToLobbyIs
<1> HIDE DEF m
<1>5. Sound(ToLobby, m)
  <2>1. Tame(link[ToLobby], m)
    BY <1>1, <1>2, <1>3, ShortIsTame
  <2> QED
    BY <2>1, TameIsSound
<1>6. /\ LinksOk' /\ PeersOk' /\ ToldApart' /\ LobbyTells' /\ link'[ToLobby] = m
      /\ \A j \in Connections \ {ToLobby} : link'[j] = link[j]
  BY <1>1, <1>4, <1>5, ServerFrame, ToLobbyIs, OneSound
<1>7. PlayersOk'
  <2>1. remote[ToLobby] # "server"
    BY DEF Hw2Inv, PeersOk
  <2> QED
    BY <1>1, <1>6, <2>1, ServerFrame, PlayersKept DEF Hw2Inv
<1>8. RegisteringOk'
  BY <1>1 DEF Hw2Inv, RegisteringOk
<1>9. CountsOk'
  <2>1. registrationFailed' \in BOOLEAN
    BY <1>1 DEF Hw2Inv, CountsOk
  <2> QED
    BY <1>1, <2>1, ServerFrame DEF Hw2Inv, CountsOk
<1> QED
  BY <1>6, <1>7, <1>8, <1>9 DEF Hw2Inv

\* The far end closes a connection that is up.
LEMMA FarClosed ==
  ASSUME NEW l, LinkOk(l), l.far = "up"
  PROVE  /\ LinkOk(CloseFar(l)) /\ CloseFar(l).far = "closing"
         /\ CloseFar(l).near = l.near
         /\ Told(CloseFar(l)) => Told(l)
<1> DEFINE m == CloseFar(l)
           in == IF l.near = "down" THEN l.in ELSE Put(l.in, DISCONNECT)
<1>1. m = [l EXCEPT !.far = "closing", !.out = <<DISCONNECT>>, !.in = in]
  BY DEF CloseFar
<1>2. /\ l \in Links /\ l.in \in Seq(NearEvents) /\ DISCONNECT \in NearEvents
      /\ <<DISCONNECT>> \in Seq(FarEvents) /\ "closing" \in EndState
  BY DEF LinkOk, Links, NearEvents, FarEvents, EndState
<1>3. /\ in \in Seq(NearEvents)
      /\ \A n \in 1..Len(in) :
            in[n] = Address => n \in 1..Len(l.in) /\ l.in[n] = Address
  BY <1>2, PutInbox, Events
<1> HIDE DEF in, m
<1>4. /\ m \in Links /\ m.near = l.near /\ m.far = "closing" /\ m.in = in
      /\ m.out = <<DISCONNECT>>
  BY <1>1, <1>2, <1>3 DEF Links
<1>5. Told(m) => Told(l)
  BY <1>3, <1>4 DEF Told
<1>6. LinkOk(m)
  BY <1>3, <1>4, Events DEF LinkOk, Untaken
<1> QED
  BY <1>4, <1>5, <1>6 DEF m

\* A player comes; taken for the lobby it can only be if registering has failed.
LEMMA PlayerConnectStep ==
  ASSUME Hw2Inv, NEW k \in Connections, PlayerConnect(k)
  PROVE  Hw2Inv'
<1> DEFINE up == [link[k] EXCEPT !.far = "up", !.out = Tail(@)]
           told == SendNear(up, Address)
           closed == CloseFar(told)
<1>1. /\ running /\ remote[k] = "server" /\ HeadIs(link[k].out, "CONNECT")
      /\ UNCHANGED <<lobbyVars, running, lobbySlot, clientVars, bounds>>
  BY DEF PlayerConnect, ServerHas
<1>2. /\ LinkOk(link[k]) /\ k # ToLobby /\ started_
      /\ players = [j \in DOMAIN players |-> players[j]]
  BY <1>1, LinkTypes DEF Hw2Inv, PeersOk, PlayersOk
<1>3. /\ LinkOk(up) /\ ~Told(up) /\ up.near = link[k].near /\ up.far = "up"
      /\ link[k].far = "accepting" /\ link[k].near # "none"
  BY <1>1, <1>2, TakenUp
<1>4. UNCHANGED <<remote, serverPeer, started_, gaveUp, registrationFailed>>
  BY <1>1, ServerFrame, BoundsFrame DEF bounds
<1>5. CASE lobbyPeer /\ lobbySlot = k
  <2>1. /\ link' = [link EXCEPT ![k] = closed] /\ lobbyPeer' = FALSE
        /\ players' = players /\ next_id' = next_id
    BY <1>5 DEF PlayerConnect
  <2>2. registrationFailed
    BY <1>2, <1>5 DEF Hw2Inv, RegisteringOk
  <2> HIDE DEF up
  <2>3. /\ LinkOk(told) /\ told.near = link[k].near /\ told.far = "up"
        /\ Told(told) => link[k].near \notin {"none", "down"}
    BY <1>3, AddressSent
  <2> HIDE DEF told
  <2>4. /\ LinkOk(closed) /\ closed.near = link[k].near /\ closed.far = "closing"
        /\ Told(closed) => link[k].near \notin {"none", "down"}
    BY <2>3, FarClosed
  <2> HIDE DEF closed
  <2>5. Sound(k, closed)
    BY <1>2, <1>3, <2>2, <2>4 DEF Sound, Telling, Ending, Untaken
  <2>6. /\ LinksOk' /\ PeersOk' /\ ToldApart' /\ LobbyTells' /\ link'[k] = closed
        /\ \A j \in Connections \ {k} : link'[j] = link[j]
    BY <1>4, <2>1, <2>5, OneSound
  <2>7. PlayersOk'
    BY <1>1, <1>3, <1>4, <2>1, <2>4, <2>6, PlayersKept DEF Hw2Inv
  <2>8. RegisteringOk' /\ CountsOk'
    BY <1>1, <2>1, ServerFrame, BoundsFrame DEF Hw2Inv, RegisteringOk, CountsOk
  <2> QED
    BY <2>6, <2>7, <2>8 DEF Hw2Inv
<1>6. CASE ~(lobbyPeer /\ lobbySlot = k)
  <2>1. /\ link' = [link EXCEPT ![k] = up] /\ lobbyPeer' = lobbyPeer
        /\ players' = PlayersWith(k, next_id) /\ next_id' = next_id + 1
        /\ next_id < MaxId
    BY <1>6 DEF PlayerConnect
  <2> HIDE DEF up
  <2>2. Sound(k, up)
    BY <1>3 DEF Sound, Telling, Ending, Untaken
  <2>3. /\ LinksOk' /\ PeersOk' /\ ToldApart' /\ LobbyTells' /\ link'[k] = up
        /\ \A j \in Connections \ {k} : link'[j] = link[j]
    BY <1>4, <2>1, <2>2, OneSound
  <2>4. PlayersOk'
    <3>1. k \notin DOMAIN players
      BY <1>3 DEF Hw2Inv, PlayersOk
    <3>2. /\ DOMAIN players' = DOMAIN players \union {k} /\ players'[k] = next_id
          /\ \A j \in DOMAIN players : players'[j] = players[j]
          /\ players' = [j \in DOMAIN players' |-> players'[j]]
      BY <2>1, <3>1 DEF PlayersWith
    <3>3. DOMAIN players' =
             {j \in Connections : remote'[j] = "server" /\ link'[j].far = "up"}
      BY <1>1, <1>3, <1>4, <2>3, <3>2 DEF Hw2Inv, PlayersOk
    <3>4. /\ next_id \in 0..MaxId /\ next_id' \in 0..MaxId /\ MaxId \in Nat
          /\ next_id' = next_id + 1 /\ running'
      <4>1. next_id \in 0..MaxId /\ running
        BY <1>1 DEF Hw2Inv, PlayersOk
      <4> QED
        BY <1>1, <2>1, <4>1, ConstantsAssumption
    <3>5. \A j \in DOMAIN players : players[j] \in Nat /\ players[j] < next_id
      BY DEF Hw2Inv, PlayersOk
    <3>6. \A j \in DOMAIN players' : players'[j] \in Nat /\ players'[j] < next_id'
      BY <3>2, <3>4, <3>5
    <3>7. \A i, j \in DOMAIN players' : players'[i] = players'[j] => i = j
      <4>1. \A i, j \in DOMAIN players : players[i] = players[j] => i = j
        BY DEF Hw2Inv, PlayersOk
      <4>2. \A j \in DOMAIN players : players[j] # next_id
        BY <3>4, <3>5
      <4> QED
        BY <3>2, <4>1, <4>2
    <3> QED
      BY <3>2, <3>3, <3>4, <3>6, <3>7 DEF PlayersOk
  <2>5. RegisteringOk'
    <3>1. link'[ToLobby] = link[ToLobby]
      BY <1>2, <2>3, ToLobbyIs
    <3> QED
      BY <1>1, <1>4, <2>1, <3>1, RegisteringKept DEF Hw2Inv
  <2>6. CountsOk'
    BY <1>1, <2>1, ServerFrame, BoundsFrame DEF Hw2Inv, CountsOk
  <2> QED
    BY <2>3, <2>4, <2>5, <2>6 DEF Hw2Inv
<1> QED
  BY <1>5, <1>6

\* A player leaves and is erased.
LEMMA PlayerDisconnectStep ==
  ASSUME Hw2Inv, NEW k \in Connections, PlayerDisconnect(k)
  PROVE  Hw2Inv'
<1> DEFINE m == [link[k] EXCEPT !.far = "down", !.out = << >>]
<1>1. /\ running /\ remote[k] = "server"
      /\ players' = [j \in DOMAIN players \ {k} |-> players[j]]
      /\ link' = [link EXCEPT ![k].far = "down", ![k].out = << >>]
      /\ lobbySlot' = IF lobbySlot = k THEN <<"free">> ELSE lobbySlot
      /\ UNCHANGED <<lobbyVars, running, lobbyPeer, next_id, clientVars, bounds>>
  BY DEF PlayerDisconnect, ServerHas, PlayersWithout, Restrict, Closed
<1>2. /\ link[k] \in Links /\ LinkOk(link[k]) /\ k # ToLobby
      /\ link \in [Connections -> Links]
  BY <1>1, LinkTypes DEF Hw2Inv, LinksOk, PeersOk
<1>3. m \in Shortened(link[k]) /\ m.near = link[k].near /\ m.far = "down" /\ m.out = << >>
  BY <1>2 DEF Links, Shortened
<1>4. link' = [link EXCEPT ![k] = m]
  BY <1>1, <1>2
<1> HIDE DEF m
<1>5. Sound(k, m)
  <2>1. m.near = "down" => link[k].near # "none"
    BY <1>3
  <2> QED
    BY <1>2, <1>3, <2>1, ShortIsTame, TameIsSound
<1>6. UNCHANGED <<remote, serverPeer, started_, gaveUp, registrationFailed>>
  BY <1>1, ServerFrame, BoundsFrame DEF bounds
<1>7. /\ LinksOk' /\ PeersOk' /\ ToldApart' /\ LobbyTells' /\ link'[k] = m
      /\ \A j \in Connections \ {k} : link'[j] = link[j]
  BY <1>4, <1>5, <1>6, OneSound
<1>8. PlayersOk'
  <2>1. /\ DOMAIN players' = DOMAIN players \ {k}
        /\ \A j \in DOMAIN players' : players'[j] = players[j]
        /\ players' = [j \in DOMAIN players' |-> players'[j]]
    BY <1>1
  <2>2. DOMAIN players' =
           {j \in Connections : remote'[j] = "server" /\ link'[j].far = "up"}
    BY <1>3, <1>6, <1>7, <2>1 DEF Hw2Inv, PlayersOk
  <2> QED
    BY <1>1, <2>1, <2>2 DEF Hw2Inv, PlayersOk
<1>9. RegisteringOk'
  <2>1. link'[ToLobby] = link[ToLobby]
    BY <1>2, <1>7, ToLobbyIs
  <2>2. lobbySlot' = lobbySlot \/ registrationFailed \/ ~lobbyPeer
    BY <1>1, <1>2 DEF Hw2Inv, RegisteringOk
  <2> QED
    BY <1>1, <1>6, <2>1, <2>2, RegisteringKept DEF Hw2Inv
<1>10. CountsOk'
  <2>1. lobbySlot' \in Connections \union {<<"free">>}
    BY <1>1 DEF Hw2Inv, CountsOk
  <2> QED
    BY <1>1, <2>1, ServerFrame, BoundsFrame DEF Hw2Inv, CountsOk
<1> QED
  BY <1>7, <1>8, <1>9, <1>10 DEF Hw2Inv

\* A packet comes from a connection that is up, so that its sender has an entry.
LEMMA PlayerPacketStep ==
  ASSUME Hw2Inv, NEW k \in Connections, PlayerPacket(k)
  PROVE  Hw2Inv'
<1> DEFINE m == [link[k] EXCEPT !.out = Tail(@)]
<1>1. /\ remote[k] = "server" /\ link[k].out # << >> /\ link[k].far = "up"
      /\ players' = PlayersWith(k, 0) \/ players' = players
      /\ link' = HeadTaken(k)
      /\ UNCHANGED <<lobbyVars, running, lobbyPeer, lobbySlot, next_id, clientVars, bounds>>
  BY DEF PlayerPacket, ServerHas, HeadIs
<1>2. players' = players
  <2>1. k \in DOMAIN players /\ players = [j \in DOMAIN players |-> players[j]]
    BY <1>1 DEF Hw2Inv, PlayersOk
  <2>2. DOMAIN players \union {k} = DOMAIN players
    BY <2>1
  <2>3. PlayersWith(k, 0) = players
    BY <2>1, <2>2 DEF PlayersWith
  <2> QED
    BY <1>1, <2>3
<1>3. /\ link' = [link EXCEPT ![k] = m]
      /\ Sound(k, m) /\ m.near = link[k].near /\ m.far = link[k].far
  BY <1>1, HeadTakenIsSound DEF Hw2Inv
<1> HIDE DEF m
<1>4. UNCHANGED <<remote, serverPeer, started_, gaveUp, registrationFailed>>
  BY <1>1, ServerFrame, BoundsFrame DEF bounds
<1>5. /\ LinksOk' /\ PeersOk' /\ ToldApart' /\ LobbyTells'
      /\ PlayersOk' /\ RegisteringOk'
  BY <1>1, <1>2, <1>3, <1>4, LinkStep
<1>6. CountsOk'
  BY <1>1, ServerFrame, BoundsFrame DEF Hw2Inv, CountsOk
<1> QED
  BY <1>5, <1>6 DEF Hw2Inv

\* The server's process dies, and its players with it.
LEMMA ServerCrashStep ==
  ASSUME Hw2Inv, ServerCrash
  PROVE  Hw2Inv'
<1>1. /\ running' = FALSE /\ players' = << >> /\ next_id' = 0
      /\ link' = [k \in Connections |->
                     IF k = ToLobby THEN DestroyNear(link[k])
                     ELSE IF remote[k] = "server" /\ link[k].far # "none"
                     THEN Closed(k)[k] ELSE link[k]]
      /\ UNCHANGED <<lobbyVars, lobbyPeer, lobbySlot, clientVars, starts,
                     registrationFailed>>
      /\ failures' = failures + 1
  BY DEF ServerCrash
<1>2. UNCHANGED <<clients_, started_, server_address_, remote, lobbyConnected,
                  serverConnected, serverPeer, typed, gaveUp>>
  BY <1>1 DEF lobbyVars, clientVars
<1>3. ASSUME NEW k \in Connections
      PROVE  /\ link'[k] \in Links /\ Sound(k, link'[k])
             /\ remote[k] = "server" => link'[k].far # "up"
  <2> DEFINE m == [link[k] EXCEPT !.far = "down", !.out = << >>]
             d == [link[k] EXCEPT !.near = "down", !.in = << >>]
  <2>1. /\ link[k] \in Links /\ LinkOk(link[k]) /\ link \in [Connections -> Links]
        /\ remote[ToLobby] = "lobby"
    BY LinkTypes DEF Hw2Inv, LinksOk, PeersOk
  <2>2. Closed(k)[k] = m
    BY <2>1 DEF Closed
  <2>3. link'[k] = IF k = ToLobby THEN DestroyNear(link[k])
                   ELSE IF remote[k] = "server" /\ link[k].far # "none"
                   THEN m ELSE link[k]
    BY <1>1, <2>2
  <2>4. /\ m \in Shortened(link[k]) /\ d \in Shortened(link[k])
        /\ m.near = link[k].near /\ m.far = "down" /\ m.out = << >>
        /\ d.near = "down" /\ d.far = link[k].far
    BY <2>1 DEF Links, Shortened
  <2> HIDE DEF m
  <2>5. CASE link'[k] = m
    <3>1. m.near = "down" => link[k].near # "none"
      BY <2>4
    <3>2. Tame(link[k], m)
      BY <2>1, <2>4, <3>1, ShortIsTame
    <3> QED
      BY <2>4, <2>5, <3>2, TameIsSound DEF Tame, LinkOk
  <2>6. CASE link'[k] = d /\ link[k].near # "none" /\ remote[k] # "server"
    <3> HIDE DEF d
    <3>1. Tame(link[k], d)
      BY <2>1, <2>4, <2>6, ShortIsTame
    <3> QED
      BY <2>6, <3>1, TameIsSound DEF Tame, LinkOk
  <2>7. CASE link'[k] = link[k] /\ (remote[k] = "server" => link[k].far = "none")
    BY <2>1, <2>7, SameIsTame, TameIsSound
  <2> QED
    BY <2>1, <2>3, <2>5, <2>6, <2>7 DEF DestroyNear
<1>4. link' \in [Connections -> Links]
  BY <1>1, <1>3
<1>5. LinksOk' /\ PeersOk' /\ ToldApart' /\ LobbyTells'
  BY <1>1, <1>2, <1>3, <1>4, SoundStep
<1>6. PlayersOk'
  <2>1. DOMAIN players' = {} /\ players' = [k \in {} |-> players'[k]]
    BY <1>1
  <2>2. {k \in Connections : remote'[k] = "server" /\ link'[k].far = "up"} = {}
    BY <1>2, <1>3
  <2>3. next_id' \in 0..MaxId
    BY <1>1, ConstantsAssumption
  <2> QED
    BY <2>1, <2>2, <2>3 DEF PlayersOk
<1>7. RegisteringOk' /\ CountsOk'
  BY <1>1, <1>2 DEF Hw2Inv, RegisteringOk, CountsOk
<1> QED
  BY <1>5, <1>6, <1>7 DEF Hw2Inv

\* It is started again, and connects to the lobby.
LEMMA ServerRestartStep ==
  ASSUME Hw2Inv, ServerRestart
  PROVE  Hw2Inv'
<1> DEFINE m == Connecting
<1>1. /\ ~running /\ running' = TRUE /\ lobbyPeer' = TRUE /\ lobbySlot' = ToLobby
      /\ link' = [link EXCEPT ![ToLobby] = m]
      /\ UNCHANGED <<lobbyVars, players, next_id, clientVars, bounds>>
  BY DEF ServerRestart
<1>2. /\ LinkOk(m) /\ ~Told(m) /\ m.near = "connecting"
  BY EstablishedIsTame
<1> HIDE DEF m
<1>3. /\ UNCHANGED <<clients_, started_, server_address_, remote, lobbyConnected,
                     serverConnected, serverPeer, typed, gaveUp>>
      /\ UNCHANGED <<players, next_id, starts, failures, registrationFailed>>
  BY <1>1 DEF lobbyVars, clientVars, bounds
<1>4. /\ link' \in [Connections -> Links] /\ link'[ToLobby] = m
      /\ \A j \in Connections \ {ToLobby} : link'[j] = link[j]
  BY <1>1, <1>2, ToLobbyIs DEF Hw2Inv, LinksOk, LinkOk
<1>5. LinksOk'
  BY <1>2, <1>3, <1>4 DEF Hw2Inv, LinksOk
<1>6. PeersOk'
  BY <1>3, <1>4 DEF Hw2Inv, PeersOk
<1>7. ToldApart'
  <2>1. SUFFICES ASSUME NEW j \in Connections, NEW k \in Connections,
                        j[1] = k[1], remote[j] = "server",
                        IF j = k THEN Told(link'[k]) ELSE Telling(link'[k])
                 PROVE  Ending(link'[j])
    BY <1>3 DEF ToldApart
  <2>2. j # ToLobby /\ k # ToLobby
    BY <2>1, ToLobbyIs DEF Hw2Inv, PeersOk
  <2> QED
    BY <1>4, <2>1, <2>2 DEF Hw2Inv, ToldApart
<1>8. PlayersOk'
  <2>1. remote[ToLobby] # "server"
    BY DEF Hw2Inv, PeersOk
  <2>2. DOMAIN players' =
           {k \in Connections : remote'[k] = "server" /\ link'[k].far = "up"}
    BY <1>3, <1>4, <2>1 DEF Hw2Inv, PlayersOk
  <2> QED
    BY <1>1, <1>3, <2>2 DEF Hw2Inv, PlayersOk
<1>9. LobbyTells'
  <2>1. 1 \in Peers /\ 2 \in Peers
    BY DEF Peers
  <2>2. \A c \in Clients : /\ link'[<<c, 1>>] = link[<<c, 1>>]
                           /\ link'[<<c, 2>>] = link[<<c, 2>>]
    BY <1>4, <2>1, ToLobbyIs
  <2> QED
    BY <1>3, <2>2 DEF Hw2Inv, LobbyTells
<1>10. RegisteringOk' /\ CountsOk'
  BY <1>1, <1>2, <1>3, <1>4, ToLobbyIs DEF Hw2Inv, RegisteringOk, CountsOk
<1> QED
  BY <1>5, <1>6, <1>7, <1>8, <1>9, <1>10 DEF Hw2Inv

-----------------------------------------------------------------------------
(* The clients *)

\* What the clients do leaves the lobby and the server alone.
LEMMA ClientFrame ==
  ASSUME UNCHANGED <<lobbyVars, running, lobbyPeer, players, next_id>>
  PROVE  /\ UNCHANGED <<clients_, started_, server_address_>>
         /\ UNCHANGED <<running, lobbyPeer, players, next_id>>
BY DEF lobbyVars

\* A client's connection is up.
LEMMA ClientConnectStep ==
  ASSUME Hw2Inv, NEW k \in Connections, ClientConnect(k)
  PROVE  Hw2Inv'
<1> DEFINE m == Established(link[k])
<1>1. /\ k[1] \in Clients /\ link[k] = Connecting /\ link' = [link EXCEPT ![k] = m]
      /\ lobbySlot' = IF remote[k] = "server" /\ lobbySlot = <<"free">> THEN k
                      ELSE lobbySlot
      /\ UNCHANGED <<lobbyVars, running, lobbyPeer, players, next_id, remote,
                     serverPeer, typed, gaveUp, bounds>>
      /\ \/ k[2] = 1 /\ lobbyConnected' = lobbyConnected \union {k[1]}
            /\ serverConnected' = serverConnected
         \/ k[2] # 1 /\ serverConnected' = serverConnected \union {k[1]}
            /\ lobbyConnected' = lobbyConnected
  BY DEF ClientConnect
<1>2. /\ k # ToLobby /\ link[k].near = "connecting" /\ link[k].far = "none"
      /\ m.far = "accepting" /\ Tame(link[k], m)
  BY <1>1, ToLobbyIs, EstablishedIsTame
<1> HIDE DEF m
<1>3. /\ UNCHANGED <<clients_, started_, server_address_>>
      /\ UNCHANGED <<starts, failures, registrationFailed>>
  BY <1>1, BoundsFrame DEF lobbyVars
<1>4. Sound(k, m)
  BY <1>2, TameIsSound
<1>5. lobbySlot' = lobbySlot \/ registrationFailed \/ ~lobbyPeer
  <2>1. lobbySlot = <<"free">> => lobbySlot # ToLobby
    BY DEF ToLobby
  <2> QED
    BY <1>1, <2>1 DEF Hw2Inv, RegisteringOk
<1>6. /\ LinksOk' /\ PeersOk' /\ ToldApart' /\ LobbyTells'
      /\ PlayersOk' /\ RegisteringOk'
  BY <1>1, <1>2, <1>3, <1>4, <1>5, LinkStep
<1>7. CountsOk'
  <2>1. lobbySlot' \in Connections \union {<<"free">>}
    BY <1>1 DEF Hw2Inv, CountsOk
  <2>2. k[2] # 1 => serverPeer[k[1]] # 0
    BY <1>2 DEF Hw2Inv, PeersOk
  <2>3. \A c \in serverConnected' : serverPeer[c] # 0
    BY <1>1, <2>2 DEF Hw2Inv, CountsOk
  <2>4. lobbyConnected' \union serverConnected' \union gaveUp' \subseteq Clients
    BY <1>1 DEF Hw2Inv, CountsOk
  <2> QED
    BY <1>1, <1>3, <2>1, <2>3, <2>4 DEF Hw2Inv, CountsOk
<1> QED
  BY <1>6, <1>7 DEF Hw2Inv

\* The connections of a client are those of its two peers.
LEMMA TwoPeers ==
  ASSUME NEW c \in Clients, NEW k \in Connections, k[1] = c
  PROVE  k = <<c, 1>> \/ k = <<c, 2>>
BY ConstantsAssumption DEF Connections, Peers, ToLobby

\* A connection over which the client has just been told has no more to tell.
LEMMA ToldIsOver ==
  ASSUME NEW l, LinkOk(l), HeadIs(l.in, "ServerAddress"),
         NEW m, m = [l EXCEPT !.in = Tail(@)]
  PROVE  /\ Told(l) /\ ~Told(m) /\ ~Telling(m) /\ ~Untaken(l)
         /\ Tame(l, m) /\ m.near = l.near /\ m.far = l.far
<1>1. l \in Links /\ l.in \in Seq(NearEvents) /\ l.in # << >>
  BY DEF LinkOk, Links, HeadIs
<1>2. /\ Head(l.in) = l.in[1] /\ 1 \in 1..Len(l.in)
      /\ \A n \in 1..Len(Tail(l.in)) :
            Tail(l.in)[n] = l.in[n + 1] /\ n + 1 \in 1..Len(l.in)
  BY <1>1, TakenInbox
<1>3. l.in[1] = Address
  <2>1. l.in[1] \in NearEvents
    BY <1>1, <1>2, ElementOfSeq
  <2> QED
    BY <1>2, <2>1, Events DEF HeadIs, NearEvents
<1>4. Told(l) /\ ~Untaken(l)
  BY <1>2, <1>3 DEF Told, LinkOk
<1>5. m.near = l.near /\ m.far = l.far /\ m.in = Tail(l.in)
  BY <1>1 DEF Links
<1>6. ~Told(m)
  <2>1. SUFFICES ASSUME NEW n \in 1..Len(m.in), m.in[n] = Address
                 PROVE  FALSE
    BY DEF Told
  <2>2. n + 1 \in 1..Len(l.in) /\ l.in[n + 1] = Address
    BY <1>2, <1>5, <2>1
  <2>3. n + 1 = 1
    BY <1>2, <1>3, <2>2 DEF LinkOk
  <2> QED
    BY <2>3
<1>7. ~Telling(m)
  BY <1>4, <1>5, <1>6 DEF Telling, Untaken
<1> QED
  BY <1>1, <1>4, <1>5, <1>6, <1>7, TakenIsTame

\* A client that is told and has no peer left gives up.
LEMMA GiveUpStep ==
  ASSUME Hw2Inv, NEW k \in Connections, ClientServerAddress(k),
         NEW l, l = [link EXCEPT ![k].in = Tail(@)], FreePeers(k[1], l) = {}
  PROVE  Hw2Inv'
<1> DEFINE c == k[1]
           m == [link[k] EXCEPT !.in = Tail(@)]
<1>1. /\ c \in Clients /\ link[k].near = "up" /\ HeadIs(link[k].in, "ServerAddress")
      /\ link' = [j \in Connections |-> IF j[1] = c THEN DestroyNear(l[j]) ELSE l[j]]
      /\ gaveUp' = gaveUp \union {c} /\ remote' = remote /\ serverPeer' = serverPeer
      /\ UNCHANGED <<lobbyVars, gameVars, lobbyConnected, serverConnected, typed, bounds>>
  BY DEF ClientServerAddress, ConnectToServer
<1>2. /\ UNCHANGED <<clients_, started_, server_address_, running, lobbyPeer, lobbySlot,
                     players, next_id>>
      /\ UNCHANGED <<starts, failures, registrationFailed>>
  BY <1>1 DEF lobbyVars, gameVars, bounds
<1>3. /\ link \in [Connections -> Links] /\ \A j \in Connections : LinkOk(link[j])
      /\ l = [link EXCEPT ![k] = m]
  BY DEF Hw2Inv, LinksOk
<1>4. /\ Told(link[k]) /\ m.near = "up" /\ m.far = link[k].far /\ m.out = link[k].out
      /\ m \in Links
  <2>1. Told(link[k]) /\ Tame(link[k], m) /\ m.near = link[k].near /\ m.far = link[k].far
    BY <1>1, <1>3, ToldIsOver
  <2> QED
    BY <1>1, <1>3, <2>1 DEF Tame, LinkOk, Links
<1> HIDE DEF m
<1>5. registrationFailed
  <2>1. SUFFICES ASSUME ~registrationFailed
                 PROVE  FALSE
    OBVIOUS
  <2>2. <<c, 1>> \in Connections /\ <<c, 2>> \in Connections
    BY <1>1, ToLobbyIs DEF Peers
  <2>3. k = <<c, 1>>
    BY <1>1, <1>4, <2>1, TwoPeers DEF Hw2Inv, LobbyTells
  <2>4. remote[<<c, 2>>] = "nobody"
    BY <1>1, <1>4, <2>1, <2>3 DEF Hw2Inv, LobbyTells, Telling
  <2>5. link[<<c, 2>>].near = "none"
    BY <2>2, <2>4 DEF Hw2Inv, PeersOk
  <2>6. l[<<c, 2>>].near = "none"
    BY <1>1, <1>3, <2>2, <2>5
  <2> QED
    BY <2>6 DEF FreePeers, Peers
<1>6. ASSUME NEW j \in Connections
      PROVE  /\ link'[j] \in Links /\ Sound(j, link'[j]) /\ link'[j].far = link[j].far
             /\ j[1] # c => link'[j] = link[j]
  <2> DEFINE was == link[j]
             now == l[j]
             d == [now EXCEPT !.near = "down", !.in = << >>]
  <2>1. was \in Links /\ LinkOk(was)
    BY <1>3
  <2>2. /\ now \in Links /\ now.near = was.near /\ now.far = was.far
        /\ now.out = was.out
        /\ j # k => now = was
        /\ j = k => now.near # "none"
    BY <1>1, <1>3, <1>4
  <2>3. link'[j] = IF j[1] = c THEN DestroyNear(now) ELSE now
    BY <1>1
  <2>4. \/ link'[j] = d /\ now.near # "none" /\ j[1] = c
        \/ link'[j] = was
    BY <2>2, <2>3 DEF DestroyNear
  <2> HIDE DEF now
  <2>5. CASE link'[j] = d /\ now.near # "none" /\ j[1] = c
    <3>1. d \in Shortened(was) /\ d.far = was.far /\ d.near = "down"
      <4> HIDE DEF was
      <4> QED
        BY <2>2 DEF Links, Shortened
    <3> HIDE DEF d
    <3>2. Tame(was, d)
      <4> HIDE DEF was
      <4> QED
        BY <2>1, <2>2, <2>5, <3>1, ShortIsTame
    <3> QED
      BY <2>5, <3>1, <3>2, TameIsSound DEF Tame, LinkOk
  <2>6. CASE link'[j] = was
    BY <2>1, <2>6, SameIsTame, TameIsSound
  <2> QED
    BY <2>4, <2>5, <2>6
<1>7. link' \in [Connections -> Links]
  BY <1>1, <1>6
<1>8. LinksOk' /\ PeersOk' /\ ToldApart' /\ LobbyTells'
  BY <1>1, <1>2, <1>5, <1>6, <1>7, SoundStep
<1>9. PlayersOk'
  BY <1>1, <1>2, <1>6, PlayersKept DEF Hw2Inv
<1>10. RegisteringOk'
  BY <1>2, <1>5 DEF RegisteringOk
<1>11. CountsOk'
  BY <1>1, <1>2 DEF Hw2Inv, CountsOk
<1> QED
  BY <1>8, <1>9, <1>10, <1>11 DEF Hw2Inv

\* A client that is told connects its lowest free peer to the server: that one is not
\* among the server's players, and nothing more comes over the other.
LEMMA ConnectStep ==
  ASSUME Hw2Inv, NEW k \in Connections, ClientServerAddress(k),
         NEW l, l = [link EXCEPT ![k].in = Tail(@)], FreePeers(k[1], l) # {}
  PROVE  Hw2Inv'
<1> DEFINE c == k[1]
           m == [link[k] EXCEPT !.in = Tail(@)]
           i == CHOOSE i \in FreePeers(c, l) : \A j \in FreePeers(c, l) : i <= j
           n == <<c, i>>
<1>1. /\ c \in Clients /\ link[k].near = "up" /\ HeadIs(link[k].in, "ServerAddress")
      /\ link' = [l EXCEPT ![n] = Connecting]
      /\ remote' = [remote EXCEPT ![n] = "server"]
      /\ serverPeer' = [serverPeer EXCEPT ![c] = i] /\ gaveUp' = gaveUp
      /\ UNCHANGED <<lobbyVars, gameVars, lobbyConnected, serverConnected, typed, bounds>>
  BY DEF ClientServerAddress, ConnectToServer
<1>2. /\ UNCHANGED <<clients_, started_, server_address_, running, lobbyPeer, lobbySlot,
                     players, next_id>>
      /\ UNCHANGED <<starts, failures, registrationFailed>>
  BY <1>1 DEF lobbyVars, gameVars, bounds
<1>3. /\ link \in [Connections -> Links] /\ \A j \in Connections : LinkOk(link[j])
      /\ l = [link EXCEPT ![k] = m]
  BY DEF Hw2Inv, LinksOk
<1>4. /\ Told(link[k]) /\ ~Told(m) /\ ~Telling(m) /\ LinkOk(m)
      /\ m.near = "up" /\ m.far = link[k].far /\ ~Untaken(link[k])
  <2>1. LinkOk(link[k])
    BY <1>3
  <2>2. /\ Told(link[k]) /\ ~Told(m) /\ ~Telling(m) /\ ~Untaken(link[k])
        /\ Tame(link[k], m) /\ m.near = link[k].near /\ m.far = link[k].far
    BY <1>1, <2>1, ToldIsOver
  <2> QED
    BY <1>1, <2>2 DEF Tame
<1> HIDE DEF m
<1>5. i \in FreePeers(c, l)
  <2>1. FreePeers(c, l) \subseteq {1, 2}
    BY DEF FreePeers, Peers
  <2> DEFINE F == FreePeers(c, l)
  <2>2. F # {} /\ F \subseteq {1, 2}
    BY <2>1
  <2> HIDE DEF F
  <2>3. \E x \in F : \A y \in F : x <= y
    BY <2>2
  <2>4. (CHOOSE x \in F : \A y \in F : x <= y) \in F
    BY <2>3
  <2> QED
    BY <2>4 DEF F
<1> HIDE DEF i
<1>6. /\ i \in {1, 2} /\ n \in Connections /\ n # ToLobby /\ n[1] = c /\ n[2] = i
      /\ l[n].near \in {"none", "down"}
  BY <1>1, <1>5, ToLobbyIs DEF FreePeers, Peers
<1>7. n # k
  BY <1>3, <1>4, <1>6
<1> HIDE DEF n
<1>8. /\ link' \in [Connections -> Links] /\ link'[n] = Connecting /\ link'[k] = m
      /\ \A j \in Connections \ {k, n} : link'[j] = link[j]
  <2>1. Connecting \in Links /\ m \in Links
    BY <1>4, EstablishedIsTame DEF LinkOk
  <2> QED
    BY <1>1, <1>3, <1>6, <1>7, <2>1
<1>9. /\ remote'[n] = "server" /\ \A j \in Connections \ {n} : remote'[j] = remote[j]
      /\ remote' \in [Connections -> {"nobody", "lobby", "server"}]
  BY <1>1, <1>6 DEF Hw2Inv, PeersOk
<1>10. \A j \in Connections : j[1] = c => j \in {k, n}
  <2>1. \A j \in Connections : j[1] = c => j = <<c, 1>> \/ j = <<c, 2>>
    BY <1>1, TwoPeers
  <2> QED
    BY <1>6, <1>7, <2>1
<1>11. /\ remote[n] = "server" => Ending(link[n])
       /\ remote[k] = "server" => Ending(link[k])
  BY <1>4, <1>6, <1>7 DEF Hw2Inv, ToldApart, Telling
<1>12. started_
  BY <1>4 DEF Hw2Inv, LinksOk
<1>13. /\ LinkOk(Connecting) /\ ~Told(Connecting) /\ Connecting.near = "connecting"
       /\ Connecting.far = "none"
  BY EstablishedIsTame
<1>14. LinksOk'
  BY <1>2, <1>3, <1>4, <1>8, <1>12, <1>13 DEF LinksOk
<1>15. PeersOk'
  <2>1. remote'[ToLobby] = "lobby"
    BY <1>6, <1>9, ToLobbyIs DEF Hw2Inv, PeersOk
  <2>2. ASSUME NEW j \in Connections
        PROVE  /\ remote'[j] = "nobody" => j[2] = 2 /\ link'[j].near = "none"
               /\ remote'[j] = "lobby" => j[2] = 1
               /\ remote'[j] = "server" =>
                     started_' /\ j[1] \in Clients /\ serverPeer'[j[1]] # 0
    <3>1. /\ remote[j] = "nobody" => j[2] = 2 /\ link[j].near = "none"
          /\ remote[j] = "lobby" => j[2] = 1
          /\ remote[j] = "server" => started_ /\ j[1] \in Clients /\ serverPeer[j[1]] # 0
      BY DEF Hw2Inv, PeersOk
    <3>2. j[1] \in Clients => serverPeer'[j[1]] = IF j[1] = c THEN i ELSE serverPeer[j[1]]
      BY <1>1 DEF Hw2Inv, CountsOk
    <3>3. j # n => remote'[j] = remote[j]
      BY <1>9
    <3>4. j # n /\ remote[j] = "nobody" => link'[j] = link[j]
      BY <1>1, <1>8, <3>1
    <3>5. started_' = started_
      BY <1>2
    <3>6. CASE j = n
      BY <1>1, <1>6, <1>9, <1>12, <3>2, <3>5, <3>6
    <3>7. CASE j # n
      BY <1>6, <3>1, <3>2, <3>3, <3>4, <3>5, <3>7
    <3> QED
      BY <3>6, <3>7
  <2> QED
    BY <1>9, <2>1, <2>2 DEF PeersOk
<1>16. ToldApart'
  <2>1. SUFFICES ASSUME NEW j \in Connections, NEW o \in Connections,
                        j[1] = o[1], remote'[j] = "server",
                        IF j = o THEN Told(link'[o]) ELSE Telling(link'[o])
                 PROVE  Ending(link'[j])
    BY DEF ToldApart
  <2>2. o # k
    BY <1>4, <1>8, <2>1
  <2>3. CASE o = n
    <3>1. j = k
      BY <1>6, <1>8, <1>10, <1>13, <2>1, <2>3
    <3> QED
      BY <1>4, <1>7, <1>8, <1>9, <1>11, <2>1, <3>1 DEF Ending
  <2>4. CASE o # n
    <3>1. j \notin {k, n}
      BY <1>6, <1>10, <2>1, <2>2, <2>4
    <3> QED
      BY <1>8, <1>9, <2>1, <2>2, <2>4, <3>1 DEF Hw2Inv, ToldApart
  <2> QED
    BY <2>3, <2>4
<1>17. PlayersOk'
  <2>1. \A j \in Connections : remote'[j] = "server" /\ link'[j].far = "up"
                                  <=> remote[j] = "server" /\ link[j].far = "up"
    <3>1. ~(remote[n] = "server" /\ link[n].far = "up") /\ link'[n].far # "up"
      BY <1>8, <1>11, <1>13 DEF Ending
    <3>2. link'[k].far = link[k].far
      BY <1>4, <1>8
    <3> QED
      BY <1>8, <1>9, <3>1, <3>2
  <2>2. DOMAIN players' =
           {j \in Connections : remote'[j] = "server" /\ link'[j].far = "up"}
    BY <1>2, <2>1 DEF Hw2Inv, PlayersOk
  <2> QED
    BY <1>2, <2>2 DEF Hw2Inv, PlayersOk
<1>18. RegisteringOk'
  <2>1. link'[ToLobby] = link[ToLobby]
    BY <1>1, <1>6, <1>8, ToLobbyIs
  <2> QED
    BY <1>2, <2>1, RegisteringKept DEF Hw2Inv
<1>19. LobbyTells'
  <2>1. SUFFICES ASSUME ~registrationFailed
                 PROVE  /\ gaveUp' = {}
                        /\ \A d \in Clients :
                              /\ remote'[<<d, 1>>] = "lobby"
                              /\ ~Told(link'[<<d, 2>>])
                              /\ Telling(link'[<<d, 1>>]) => remote'[<<d, 2>>] = "nobody"
    BY <1>2 DEF LobbyTells
  <2>2. /\ gaveUp = {}
        /\ \A d \in Clients :
              /\ remote[<<d, 1>>] = "lobby"
              /\ ~Told(link[<<d, 2>>])
              /\ Telling(link[<<d, 1>>]) => remote[<<d, 2>>] = "nobody"
    BY <2>1 DEF Hw2Inv, LobbyTells
  <2>3. k = <<c, 1>> /\ n = <<c, 2>>
    <3>1. k # <<c, 2>>
      BY <1>1, <1>4, <2>2
    <3>2. k = <<c, 1>>
      BY <1>1, <3>1, TwoPeers
    <3> QED
      BY <1>1, <1>6, <1>7, <3>2, TwoPeers
  <2>4. ASSUME NEW d \in Clients
        PROVE  /\ remote'[<<d, 1>>] = "lobby"
               /\ ~Told(link'[<<d, 2>>])
               /\ Telling(link'[<<d, 1>>]) => remote'[<<d, 2>>] = "nobody"
    <3>1. <<d, 1>> \in Connections /\ <<d, 2>> \in Connections
      BY ToLobbyIs DEF Peers
    <3>2. CASE d = c
      BY <1>4, <1>7, <1>8, <1>9, <1>13, <2>2, <2>3, <3>1, <3>2
    <3>3. CASE d # c
      <4>1. <<d, 1>> \notin {k, n} /\ <<d, 2>> \notin {k, n}
        BY <2>3, <3>3
      <4> QED
        BY <1>8, <1>9, <2>2, <3>1, <4>1
    <3> QED
      BY <3>2, <3>3
  <2> QED
    BY <1>1, <2>2, <2>4
<1>20. CountsOk'
  <2>1. /\ serverPeer' \in [Clients -> 0..2]
        /\ \A d \in serverConnected' : serverPeer'[d] # 0
    <3>1. /\ serverPeer \in [Clients -> 0..2] /\ serverConnected \subseteq Clients
          /\ \A d \in serverConnected : serverPeer[d] # 0
      BY DEF Hw2Inv, CountsOk
    <3> QED
      BY <1>1, <1>6, <3>1
  <2> QED
    BY <1>1, <1>2, <2>1 DEF Hw2Inv, CountsOk
<1> QED
  BY <1>14, <1>15, <1>16, <1>17, <1>18, <1>19, <1>20 DEF Hw2Inv

\* A client has no case for a DISCONNECT.
LEMMA ClientDisconnectStep ==
  ASSUME Hw2Inv, NEW k \in Connections, ClientDisconnect(k)
  PROVE  Hw2Inv'
<1> DEFINE m == [link[k] EXCEPT !.near = "down", !.in = << >>]
<1>1. /\ k[1] \in Clients /\ link[k].near \in {"connecting", "up"}
      /\ link' = [link EXCEPT ![k].near = "down", ![k].in = << >>]
      /\ UNCHANGED <<lobbyVars, gameVars, clientVars, bounds>>
  BY DEF ClientDisconnect
<1>2. /\ link[k] \in Links /\ LinkOk(link[k]) /\ k # ToLobby
      /\ link \in [Connections -> Links]
  BY <1>1, LinkTypes, ToLobbyIs DEF Hw2Inv, LinksOk
<1>3. m \in Shortened(link[k]) /\ m.near = "down" /\ m.far = link[k].far
  BY <1>2 DEF Links, Shortened
<1>4. link' = [link EXCEPT ![k] = m]
  BY <1>1, <1>2
<1> HIDE DEF m
<1>5. Sound(k, m)
  BY <1>1, <1>2, <1>3, ShortIsTame, TameIsSound
<1>6. /\ LinksOk' /\ PeersOk' /\ ToldApart' /\ LobbyTells'
      /\ PlayersOk' /\ RegisteringOk'
  BY <1>1, <1>2, <1>3, <1>4, <1>5, LobbyFrame, LinkStep DEF lobbyVars
<1>7. CountsOk'
  BY <1>1 DEF Hw2Inv, CountsOk, lobbyVars, gameVars, clientVars, bounds
<1> QED
  BY <1>6, <1>7 DEF Hw2Inv

\* A line "start" is typed.
LEMMA TypeStartStep ==
  ASSUME Hw2Inv, NEW c \in Clients, TypeStart(c)
  PROVE  Hw2Inv'
<1>1. /\ starts < MaxStarts /\ starts' = starts + 1 /\ typed' = [typed EXCEPT ![c] = @ + 1]
      /\ UNCHANGED <<clients_, started_, server_address_, running, lobbyPeer, lobbySlot,
                     players, next_id>>
      /\ UNCHANGED <<remote, lobbyConnected, serverConnected, serverPeer, gaveUp, link,
                     registrationFailed>>
  BY DEF TypeStart, lobbyVars, gameVars
<1>2. CountsOk'
  <2>1. /\ starts \in 0..MaxStarts /\ MaxStarts \in Nat /\ typed \in [Clients -> Nat]
        /\ \A d \in Clients : typed[d] <= starts
    BY ConstantsAssumption DEF Hw2Inv, CountsOk
  <2>2. starts' \in 0..MaxStarts
    BY <1>1, <2>1
  <2>3. typed' \in [Clients -> Nat] /\ \A d \in Clients : typed'[d] <= starts'
    BY <1>1, <2>1
  <2> QED
    BY <1>1, <2>2, <2>3 DEF Hw2Inv, CountsOk
<1>3. LinksOk' /\ PeersOk' /\ ToldApart'
  BY <1>1 DEF Hw2Inv, LinksOk, PeersOk, ToldApart
<1>4. PlayersOk' /\ RegisteringOk' /\ LobbyTells'
  BY <1>1 DEF Hw2Inv, PlayersOk, RegisteringOk, LobbyTells
<1> QED
  BY <1>2, <1>3, <1>4 DEF Hw2Inv

\* A packet of a client's is sent over one of its connections.
LEMMA SentStep ==
  ASSUME Hw2Inv, NEW c \in Clients, NEW i \in Peers,
         NEW p \in {Event("Start"), Event("Time")},
         link' = [link EXCEPT ![<<c, i>>] = SendFar(@, p)],
         UNCHANGED <<lobbyVars, gameVars, bounds>>,
         UNCHANGED <<remote, serverPeer, gaveUp>>
  PROVE  /\ LinksOk' /\ PeersOk' /\ ToldApart' /\ LobbyTells'
         /\ PlayersOk' /\ RegisteringOk'
<1> DEFINE k == <<c, i>>
           m == SendFar(link[k], p)
<1>1. k \in Connections /\ k # ToLobby
  BY ToLobbyIs
<1>2. link' = [link EXCEPT ![k] = m]
  OBVIOUS
<1>3. LinkOk(link[k])
  BY <1>1, LinkTypes DEF Hw2Inv
<1> HIDE DEF k
<1>4. Sound(k, m) /\ m.far = link[k].far
  BY <1>3, SentIsTame, TameIsSound
<1>5. /\ UNCHANGED <<started_, running, lobbyPeer, lobbySlot, players, next_id>>
      /\ registrationFailed' = registrationFailed
  BY DEF lobbyVars, gameVars, bounds
<1> HIDE DEF m
<1> QED
  BY <1>1, <1>2, <1>4, <1>5, LinkStep

\* The lines go to the first peer.
LEMMA SendStartStep ==
  ASSUME Hw2Inv, NEW c \in Clients, SendStart(c)
  PROVE  Hw2Inv'
<1>1. /\ typed[c] > 0 /\ typed' = [typed EXCEPT ![c] = @ - 1]
      /\ link' = [link EXCEPT ![<<c, 1>>] = SendFar(@, Event("Start"))]
      /\ UNCHANGED <<lobbyVars, gameVars, remote, lobbyConnected, serverConnected,
                     serverPeer, gaveUp, bounds>>
  BY DEF SendStart
<1>2. /\ LinksOk' /\ PeersOk' /\ ToldApart' /\ LobbyTells'
      /\ PlayersOk' /\ RegisteringOk'
  <2>1. 1 \in Peers
    BY DEF Peers
  <2> QED
    BY <1>1, <2>1, SentStep
<1>3. CountsOk'
  <2>1. /\ starts \in 0..MaxStarts /\ typed \in [Clients -> Nat]
        /\ \A d \in Clients : typed[d] <= starts
    BY DEF Hw2Inv, CountsOk
  <2>2. typed' \in [Clients -> Nat] /\ \A d \in Clients : typed'[d] <= starts
    BY <1>1, <2>1
  <2>3. UNCHANGED <<clients_, started_, server_address_, running, lobbyPeer, lobbySlot,
                    starts, registrationFailed>>
    BY <1>1 DEF lobbyVars, gameVars, bounds
  <2> QED
    BY <1>1, <2>2, <2>3 DEF Hw2Inv, CountsOk
<1> QED
  BY <1>2, <1>3 DEF Hw2Inv

\* The time goes to serverPeer, which has been set.
LEMMA SendTimeStep ==
  ASSUME Hw2Inv, NEW c \in Clients, SendTime(c)
  PROVE  Hw2Inv'
<1>1. /\ c \in serverConnected
      /\ link' = [link EXCEPT ![<<c, serverPeer[c]>>] = SendFar(@, Event("Time"))]
      /\ UNCHANGED <<lobbyVars, gameVars, clientVars, bounds>>
  BY DEF SendTime
<1>2. serverPeer[c] \in Peers
  BY <1>1 DEF Hw2Inv, CountsOk, Peers
<1>3. /\ LinksOk' /\ PeersOk' /\ ToldApart' /\ LobbyTells'
      /\ PlayersOk' /\ RegisteringOk'
  <2>1. UNCHANGED <<remote, serverPeer, gaveUp>>
    BY <1>1 DEF clientVars
  <2> QED
    BY <1>1, <1>2, <2>1, SentStep
<1>4. CountsOk'
  BY <1>1 DEF Hw2Inv, CountsOk, lobbyVars, gameVars, clientVars, bounds
<1> QED
  BY <1>3, <1>4 DEF Hw2Inv

-----------------------------------------------------------------------------
(* Time-outs *)

\* A time-out changes a connection only in what its inboxes hold.
LEMMA TimedOutStep ==
  ASSUME Hw2Inv, NEW k \in Connections, NEW m, Tame(link[k], m),
         m.near = link[k].near, m.far = link[k].far, link' = [link EXCEPT ![k] = m],
         UNCHANGED <<lobbyVars, gameVars, clientVars, starts, registrationFailed>>
  PROVE  Hw2Inv'
<1>1. /\ UNCHANGED <<clients_, started_, server_address_, running, lobbyPeer, lobbySlot,
                     players, next_id>>
      /\ UNCHANGED <<remote, lobbyConnected, serverConnected, serverPeer, typed, gaveUp,
                     starts, registrationFailed>>
  BY DEF lobbyVars, gameVars, clientVars
<1>2. Sound(k, m)
  BY TameIsSound
<1>3. /\ LinksOk' /\ PeersOk' /\ ToldApart' /\ LobbyTells'
      /\ PlayersOk' /\ RegisteringOk'
  BY <1>1, <1>2, LinkStep
<1>4. CountsOk'
  BY <1>1 DEF Hw2Inv, CountsOk
<1> QED
  BY <1>3, <1>4 DEF Hw2Inv

\* The ways a connection can be cut short.
LEMMA BrokenIsTame ==
  ASSUME NEW l, LinkOk(l)
  PROVE  /\ \A m \in Broken(l) \union Abandoned(l) :
               Tame(l, m) /\ m.near = l.near /\ m.far = l.far
         /\ \A in \in CutShort(l.in) \union {<<DISCONNECT>>} :
               LET m == [l EXCEPT !.in = in]
               IN  Tame(l, m) /\ m.near = l.near /\ m.far = l.far
<1>1. l \in Links
  BY DEF LinkOk
<1>2. ASSUME NEW m \in Shortened(l), m.near = l.near, m.far = l.far,
             l.near = "none" => m.near = "none"
      PROVE  Tame(l, m)
  BY <1>2, ShortIsTame
<1>3. ASSUME NEW in \in {l.in} \union CutShort(l.in),
             NEW out \in {l.out} \union CutShort(l.out)
      PROVE  LET m == WithInboxes(l, in, out)
             IN  Tame(l, m) /\ m.near = l.near /\ m.far = l.far
  <2> DEFINE m == WithInboxes(l, in, out)
  <2>1. m \in Shortened(l) /\ m.near = l.near /\ m.far = l.far
    BY <1>1 DEF Links, Shortened, WithInboxes
  <2> HIDE DEF m
  <2>2. Tame(l, m)
    BY <1>2, <2>1
  <2> QED
    BY <2>1, <2>2 DEF m
<1>4. ASSUME NEW m \in Broken(l)
      PROVE  Tame(l, m) /\ m.near = l.near /\ m.far = l.far
  <2>1. PICK in \in {l.in} \union CutShort(l.in), out \in {l.out} \union CutShort(l.out) :
           m = WithInboxes(l, in, out)
    BY DEF Broken
  <2> QED
    BY <1>3, <2>1
<1>5. ASSUME NEW m \in Abandoned(l)
      PROVE  Tame(l, m) /\ m.near = l.near /\ m.far = l.far
  <2>1. PICK out \in CutShort(l.out) : m = [l EXCEPT !.out = out]
    BY DEF Abandoned
  <2>2. m \in Shortened(l) /\ m.near = l.near /\ m.far = l.far
    BY <1>1, <2>1 DEF Links, Shortened
  <2> QED
    BY <1>2, <2>2
<1>6. ASSUME NEW in \in CutShort(l.in) \union {<<DISCONNECT>>}
      PROVE  LET m == [l EXCEPT !.in = in]
             IN  Tame(l, m) /\ m.near = l.near /\ m.far = l.far
  <2> DEFINE m == [l EXCEPT !.in = in]
  <2>1. m \in Shortened(l) /\ m.near = l.near /\ m.far = l.far
    BY <1>1 DEF Links, Shortened
  <2> HIDE DEF m
  <2>2. Tame(l, m)
    BY <1>2, <2>1
  <2> QED
    BY <2>1, <2>2 DEF m
<1> QED
  BY <1>4, <1>5, <1>6

\* The network fails between the ends.
LEMMA LinkFailsStep ==
  ASSUME Hw2Inv, NEW k \in Connections, LinkFails(k)
  PROVE  Hw2Inv'
<1>1. PICK m \in Broken(link[k]) : link' = [link EXCEPT ![k] = m]
  BY DEF LinkFails
<1>2. UNCHANGED <<lobbyVars, gameVars, clientVars, starts, registrationFailed>>
  BY DEF LinkFails
<1>3. Tame(link[k], m) /\ m.near = link[k].near /\ m.far = link[k].far
  BY LinkTypes, BrokenIsTame DEF Hw2Inv
<1> QED
  BY <1>1, <1>2, <1>3, TimedOutStep

\* An end notices that the other one is dead, or does not answer.
LEMMA TimeOutStep ==
  ASSUME Hw2Inv, NEW k \in Connections, TimeOut(k)
  PROVE  Hw2Inv'
<1>1. UNCHANGED <<lobbyVars, gameVars, clientVars, starts, registrationFailed>>
  BY DEF TimeOut, bounds
<1>2. LinkOk(link[k]) /\ link \in [Connections -> Links]
  BY LinkTypes DEF Hw2Inv, LinksOk
<1>3. ASSUME NEW m \in Abandoned(link[k]), link' = [link EXCEPT ![k] = m]
      PROVE  Hw2Inv'
  <2>1. Tame(link[k], m) /\ m.near = link[k].near /\ m.far = link[k].far
    BY <1>2, BrokenIsTame
  <2> QED
    BY <1>1, <1>3, <2>1, TimedOutStep
<1>4. ASSUME NEW in \in CutShort(link[k].in) \union {<<DISCONNECT>>},
             link' = [link EXCEPT ![k].in = in]
      PROVE  Hw2Inv'
  <2> DEFINE m == [link[k] EXCEPT !.in = in]
  <2>1. Tame(link[k], m) /\ m.near = link[k].near /\ m.far = link[k].far
    BY <1>2, BrokenIsTame
  <2>2. link' = [link EXCEPT ![k] = m]
    BY <1>2, <1>4
  <2> HIDE DEF m
  <2> QED
    BY <1>1, <2>1, <2>2, TimedOutStep
<1> QED
  BY <1>3, <1>4 DEF TimeOut

-----------------------------------------------------------------------------
\* All of it always holds.
THEOREM Hw2InductiveInvariant == Hw2Spec => []Hw2Inv
<1>1. Hw2Init => Hw2Inv
  <2>1. SUFFICES ASSUME Hw2Init PROVE Hw2Inv
    OBVIOUS
  <2>2. /\ clients_ = {} /\ started_ = FALSE /\ server_address_ = FALSE
        /\ running = TRUE /\ lobbyPeer = TRUE /\ lobbySlot = ToLobby
        /\ players = << >> /\ next_id = 0
        /\ remote = [k \in Connections |-> IF k[2] = 1 THEN "lobby" ELSE "nobody"]
        /\ lobbyConnected = {} /\ serverConnected = {} /\ gaveUp = {}
        /\ serverPeer = [c \in Clients |-> 0] /\ typed = [c \in Clients |-> 0]
        /\ link = [k \in Connections |-> IF k[2] = 1 THEN Connecting ELSE NoLink]
        /\ starts = 0 /\ registrationFailed = FALSE
    BY <2>1 DEF Hw2Init
  <2>3. /\ LinkOk(Connecting) /\ ~Told(Connecting) /\ Connecting.near = "connecting"
        /\ Connecting.far = "none"
    BY EstablishedIsTame
  <2>4. LinkOk(NoLink) /\ ~Told(NoLink) /\ NoLink.near = "none" /\ NoLink.far = "none"
    <3>1. NoLink = [near |-> "none", far |-> "none", in |-> << >>, out |-> << >>]
      BY DEF NoLink
    <3>2. << >> \in Seq(NearEvents) /\ << >> \in Seq(FarEvents) /\ "none" \in EndState
      BY DEF EndState
    <3> HIDE DEF NoLink
    <3>3. NoLink \in Links /\ ~Told(NoLink)
      BY <3>1, <3>2 DEF Links, Told
    <3> QED
      BY <3>1, <3>3 DEF LinkOk
  <2>5. \A k \in Connections : k[2] = 1 \/ k[2] = 2
    BY DEF Connections, Peers, ToLobby
  <2>6. /\ ToLobby \in Connections /\ ToLobby[2] = 1
        /\ \A c \in Clients : /\ <<c, 1>> \in Connections /\ <<c, 1>>[2] = 1
                              /\ <<c, 2>> \in Connections /\ <<c, 2>>[2] = 2
    BY DEF Connections, Peers, ToLobby
  <2>7. LinksOk
    <3>1. Connecting \in Links /\ NoLink \in Links
      BY <2>3, <2>4 DEF LinkOk
    <3> QED
      BY <2>2, <2>3, <2>4, <3>1 DEF LinksOk
  <2>8. PeersOk
    BY <2>2, <2>4, <2>5, <2>6 DEF PeersOk
  <2>9. ToldApart /\ PlayersOk
    <3>1. \A k \in Connections : remote[k] # "server"
      BY <2>2
    <3>2. DOMAIN players = {} /\ players = [k \in {} |-> players[k]]
      BY <2>2
    <3>3. next_id \in 0..MaxId
      BY <2>2, ConstantsAssumption
    <3> QED
      BY <2>2, <3>1, <3>2, <3>3 DEF ToldApart, PlayersOk
  <2>10. RegisteringOk
    BY <2>2, <2>3, <2>6 DEF RegisteringOk
  <2>11. LobbyTells
    BY <2>2, <2>4, <2>6 DEF LobbyTells
  <2>12. CountsOk
    <3>1. /\ starts \in 0..MaxStarts /\ lobbySlot \in Connections
          /\ {started_, server_address_, running, lobbyPeer, registrationFailed}
                \subseteq BOOLEAN
      <4>1. MaxStarts \in Nat
        BY ConstantsAssumption
      <4>2. starts \in 0..MaxStarts
        BY <2>2, <4>1
      <4> QED
        BY <2>2, <2>6, <4>2
    <3>2. /\ serverPeer \in [Clients -> 0..2] /\ typed \in [Clients -> Nat]
          /\ \A c \in Clients : typed[c] <= starts
      BY <2>2
    <3> QED
      BY <2>2, <3>1, <3>2 DEF CountsOk
  <2> QED
    BY <2>7, <2>8, <2>9, <2>10, <2>11, <2>12 DEF Hw2Inv
<1>2. Hw2Inv /\ [Hw2Next]_hw2Vars => Hw2Inv'
  <2>1. SUFFICES ASSUME Hw2Inv, [Hw2Next]_hw2Vars
                 PROVE  Hw2Inv'
    OBVIOUS
  <2>2. ASSUME NEW k \in Connections, LobbyStep(k)
        PROVE  Hw2Inv'
    BY <2>1, <2>2, LobbyConnectStep, LobbyDisconnectStep, LobbyServerAddressStep,
       LobbyStartStep DEF LobbyStep
  <2>3. ASSUME NEW k \in Connections, ServerStep(k)
        PROVE  Hw2Inv'
    BY <2>1, <2>3, ServerConnectStep, ServerDisconnectStep, PlayerConnectStep,
       PlayerDisconnectStep, PlayerPacketStep DEF ServerStep
  <2>4. ASSUME NEW k \in Connections, LinkFails(k) \/ TimeOut(k)
        PROVE  Hw2Inv'
    BY <2>1, <2>4, LinkFailsStep, TimeOutStep
  <2>5. CASE ServerCrash \/ ServerRestart
    BY <2>1, <2>5, ServerCrashStep, ServerRestartStep
  <2>6. ASSUME NEW c \in Clients, NEW k \in {c} \X Peers, ClientServerAddress(k)
        PROVE  Hw2Inv'
    <3> DEFINE l == [link EXCEPT ![k].in = Tail(@)]
    <3>1. k \in Connections
      BY DEF Connections
    <3>2. FreePeers(k[1], l) = {} \/ FreePeers(k[1], l) # {}
      OBVIOUS
    <3> HIDE DEF l
    <3>3. l = [link EXCEPT ![k].in = Tail(@)]
      BY DEF l
    <3> QED
      BY <2>1, <2>6, <3>1, <3>2, <3>3, GiveUpStep, ConnectStep
  <2>7. ASSUME NEW c \in Clients, ClientStep(c) \/ TypeStart(c) \/ SendTime(c)
        PROVE  Hw2Inv'
    <3>1. \A k \in {c} \X Peers : k \in Connections
      BY DEF Connections
    <3> QED
      BY <2>1, <2>6, <2>7, <3>1, ClientConnectStep, ClientDisconnectStep, TypeStartStep,
         SendStartStep, SendTimeStep DEF ClientStep
  <2>8. CASE UNCHANGED hw2Vars
    <3>1. /\ UNCHANGED <<clients_, started_, server_address_, running, lobbyPeer,
                         lobbySlot, players, next_id, link>>
          /\ UNCHANGED <<remote, lobbyConnected, serverConnected, serverPeer, typed,
                         gaveUp, starts, registrationFailed>>
      BY <2>8 DEF hw2Vars, lobbyVars, gameVars, clientVars, bounds
    <3>2. LinksOk' /\ PeersOk' /\ ToldApart'
      BY <2>1, <3>1 DEF Hw2Inv, LinksOk, PeersOk, ToldApart
    <3>3. PlayersOk' /\ RegisteringOk' /\ LobbyTells' /\ CountsOk'
      BY <2>1, <3>1 DEF Hw2Inv, PlayersOk, RegisteringOk, LobbyTells, CountsOk
    <3> QED
      BY <3>2, <3>3 DEF Hw2Inv
  <2> QED
    BY <2>1, <2>2, <2>3, <2>4, <2>5, <2>7, <2>8 DEF Hw2Next
<1> QED
  BY <1>1, <1>2, PTL DEF Hw2Spec

\* The types are right.
THEOREM Hw2TypesCorrect == Hw2Spec => []Hw2TypeOK
<1>1. Hw2Inv => Hw2TypeOK
  <2>1. SUFFICES ASSUME Hw2Inv PROVE Hw2TypeOK
    OBVIOUS
  <2>2. /\ starts \in 0..MaxStarts /\ MaxStarts \in Nat /\ typed \in [Clients -> Nat]
        /\ \A c \in Clients : typed[c] <= starts
    BY <2>1, ConstantsAssumption DEF Hw2Inv, CountsOk
  <2>3. typed \in [Clients -> 0..MaxStarts]
    BY <2>2
  <2>4. \A k \in Connections : link[k].near \in EndState /\ link[k].far \in EndState
    BY <2>1, LinkTypes DEF Hw2Inv
  <2>5. /\ DOMAIN players \subseteq Connections /\ next_id \in 0..MaxId
        /\ \A k \in DOMAIN players : players[k] \in 0..MaxId
    <3>1. /\ DOMAIN players \subseteq Connections /\ next_id \in 0..MaxId
          /\ \A k \in DOMAIN players : players[k] \in Nat /\ players[k] < next_id
      BY <2>1 DEF Hw2Inv, PlayersOk
    <3> QED
      BY <3>1, ConstantsAssumption
  <2> QED
    BY <2>1, <2>3, <2>4, <2>5 DEF Hw2Inv, PeersOk, CountsOk, Hw2TypeOK
<1> QED
  BY <1>1, Hw2InductiveInvariant, PTL

\* No client runs out of peers, unless the server has failed to register
\* (hw2/client.cpp:112).
THEOREM ClientsDoNotGiveUp == Hw2Spec => []NobodyGivesUp
<1>1. Hw2Inv => NobodyGivesUp
  BY DEF Hw2Inv, LobbyTells, NobodyGivesUp
<1> QED
  BY <1>1, Hw2InductiveInvariant, PTL

\* The server's clients_ are its players, by ids that differ (hw2/server.cpp:81-101).
THEOREM PlayersStayLive == Hw2Spec => []PlayersAreLive
<1>1. Hw2Inv => PlayersAreLive
  BY DEF Hw2Inv, PlayersOk, PlayersAreLive
<1> QED
  BY <1>1, Hw2InductiveInvariant, PTL

\* The time is sent to a peer: serverPeer, which has no initial value, is set before
\* serverConnected is (hw2/client.cpp:86-148).
THEOREM ServerPeerIsSet == Hw2Spec => [](\A c \in serverConnected : serverPeer[c] # 0)
<1>1. Hw2Inv => \A c \in serverConnected : serverPeer[c] # 0
  BY DEF Hw2Inv, CountsOk
<1> QED
  BY <1>1, Hw2InductiveInvariant, PTL
=============================================================================
