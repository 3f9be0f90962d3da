----------------------------- MODULE MainLoopProofs -----------------------------
(***************************************************************************)
(* Proofs about what a main loop waits for: AsyncInput, the console that   *)
(* it polls, for every set of lines and every bound, and Pacing, the time  *)
(* it spends in Service::poll, for all clients, rates and delays.          *)
(***************************************************************************)
EXTENDS AsyncInput, Pacing, SequenceTheorems, TLAPS

-----------------------------------------------------------------------------
(* AsyncInput *)


\* The inductive invariant: who holds the mutex is in its critical section and
\* nobody else, so lines_ does not change between the two halves of the move;
\* poll starts with nothing left over; the loop runs only until shouldStop_;
\* and once past the store, stopped_ stays true.
Locking ==
    /\ main \in {"move", "clear"} <=> mtx_ = "main"
    /\ worker = "push" <=> mtx_ = "worker"

Moving ==
    /\ main = "clear" => stolen = lines_
    /\ main \notin {"clear", "lines"} => stolen = << >>

Stopping ==
    /\ main \in {"construct", "lock", "move", "clear", "lines"} => ~shouldStop_
    /\ main \in {"join", "exited"} => stopped_
    /\ main = "exited" => worker = "returned"

IInv == TypeOK /\ Locking /\ Moving /\ Stopping

-----------------------------------------------------------------------------
\* The loop and the worker start with the mutex free and nothing taken.
LEMMA InitEstablishes == Init => IInv
<1> SUFFICES ASSUME Init PROVE IInv
  OBVIOUS
<1>1. TypeOK
  <2>1. << >> \in Seq(Line) /\ 0 \in Nat
    OBVIOUS
  <2> QED
    BY <2>1, LineAssumption, Zenon DEF Init, TypeOK
<1>2. Locking /\ Moving /\ Stopping
  BY DEF Init, Locking, Moving, Stopping
<1> QED
  BY <1>1, <1>2 DEF IInv

\* No step changes the type of a variable.
LEMMA TypesPreserved ==
  ASSUME TypeOK, [Next]_vars
  PROVE  TypeOK'
<1> USE DEF TypeOK
<1>1. CASE Type
  BY <1>1 DEF Type
<1>2. CASE EndInput
  BY <1>2 DEF EndInput
<1>3. CASE Main
  <2>1. CASE HandleLine
    <3>1. Head(stolen) \in Line /\ Tail(stolen) \in Seq(Line)
      BY <2>1, HeadTailProperties DEF HandleLine
    <3>2. <<Head(stolen)>> \in Seq(Line)
      BY <3>1
    <3> QED
      BY <2>1, <3>1, <3>2 DEF HandleLine, workerVars, userVars
  <2>2. CASE MoveLines
    BY <2>2, Zenon DEF MoveLines, workerVars, userVars
  <2>3. CASE ClearMoved
    <3>1. << >> \in Seq(Line)
      OBVIOUS
    <3> QED
      BY <2>3, <3>1, Zenon DEF ClearMoved, workerVars, userVars, Released
  <2>4. CASE Construct \/ TestShouldStop \/ LockForPoll \/ Serve
    BY <2>4 DEF Construct, TestShouldStop, LockForPoll, Serve, workerVars,
                userVars
  <2>5. CASE ShowMessage \/ StoreStopped \/ JoinWorker
    BY <2>5 DEF ShowMessage, StoreStopped, JoinWorker, Stopped, workerVars,
                userVars
  <2> QED
    BY <1>3, <2>1, <2>2, <2>3, <2>4, <2>5 DEF Main
<1>4. CASE Work
  <2>1. CASE Getline
    <3>1. tty # << >> => Head(tty) \in Line /\ Tail(tty) \in Seq(Line)
      BY HeadTailProperties
    <3> QED
      BY <2>1, <3>1, LineAssumption DEF Getline, AtEnd, mainVars
  <2>2. CASE PushLine
    BY <2>2 DEF PushLine, Released, mainVars, userVars
  <2>3. CASE TestStopped \/ LockLines
    BY <2>3 DEF TestStopped, LockLines, mainVars, userVars
  <2> QED
    BY <1>4, <2>1, <2>2, <2>3 DEF Work
<1>5. CASE UNCHANGED vars
  BY <1>5 DEF vars
<1> QED
  BY <1>1, <1>2, <1>3, <1>4, <1>5 DEF Next

\* The invariant is preserved by each step of the user and the two threads.
LEMMA StepPreserves ==
  ASSUME IInv, [Next]_vars
  PROVE  IInv'
<1>1. TypeOK'
  BY TypesPreserved DEF IInv
<1> USE DEF IInv, Locking, Moving, Stopping
<1>2. CASE Type \/ EndInput
  BY <1>1, <1>2 DEF Type, EndInput
<1>3. CASE Construct \/ TestShouldStop \/ Serve
  BY <1>1, <1>3 DEF Construct, TestShouldStop, Serve, workerVars, userVars
<1>4. CASE LockForPoll \/ MoveLines \/ ClearMoved \/ HandleLine
  BY <1>1, <1>4 DEF LockForPoll, MoveLines, ClearMoved, HandleLine, Available,
                    Released, workerVars, userVars, TypeOK
<1>5. CASE ShowMessage \/ StoreStopped \/ JoinWorker
  BY <1>1, <1>5 DEF ShowMessage, StoreStopped, JoinWorker, Stopped, workerVars,
                    userVars
<1>6. CASE TestStopped \/ Getline
  BY <1>1, <1>6 DEF TestStopped, Getline, mainVars, userVars
<1>7. CASE LockLines \/ PushLine
  BY <1>1, <1>7 DEF LockLines, PushLine, Available, Released, mainVars, userVars
<1>8. CASE UNCHANGED vars
  BY <1>1, <1>8 DEF vars
<1> QED
  BY <1>2, <1>3, <1>4, <1>5, <1>6, <1>7, <1>8 DEF Next, Main, Work

\* The inductive invariant holds in every reachable state.
THEOREM InductiveInvariant == Spec => []IInv
<1>1. Init => IInv
  BY InitEstablishes
<1>2. IInv /\ [Next]_vars => IInv'
  BY StepPreserves
<1> QED
  BY <1>1, <1>2, PTL DEF Spec

\* The variables keep their types.
THEOREM TypeCorrect == Spec => []TypeOK
<1>1. IInv => TypeOK
  BY DEF IInv
<1> QED
  BY <1>1, InductiveInvariant, PTL

-----------------------------------------------------------------------------
(* Sequences one behind the other *)

\* A sequence is its head in front of its tail.
LEMMA HeadAndTail ==
  ASSUME NEW S, NEW s \in Seq(S), s # << >>
  PROVE  /\ Head(s) \in S /\ Tail(s) \in Seq(S)
         /\ s = <<Head(s)>> \o Tail(s)
<1>1. Head(s) \in S /\ Tail(s) \in Seq(S) /\ Len(Tail(s)) = Len(s) - 1
      /\ \A i \in 1..Len(Tail(s)) : Tail(s)[i] = s[i + 1]
  BY HeadTailProperties
<1>2. <<Head(s)>> \in Seq(S) /\ Len(<<Head(s)>>) = 1
  BY <1>1
<1>3. /\ <<Head(s)>> \o Tail(s) \in Seq(S)
      /\ Len(<<Head(s)>> \o Tail(s)) = Len(s)
      /\ \A i \in 1..Len(s) : (<<Head(s)>> \o Tail(s))[i] =
            IF i <= 1 THEN <<Head(s)>>[i] ELSE Tail(s)[i - 1]
  <2>1. Len(s) \in Nat
    BY LenProperties
  <2> QED
    BY <1>1, <1>2, <2>1, ConcatProperties
<1>4. \A i \in 1..Len(s) : (<<Head(s)>> \o Tail(s))[i] = s[i]
  <2> SUFFICES ASSUME NEW i \in 1..Len(s)
               PROVE  (<<Head(s)>> \o Tail(s))[i] = s[i]
    OBVIOUS
  <2>1. CASE i = 1
    BY <1>3, <2>1
  <2>2. CASE i # 1
    <3>1. i - 1 \in 1..Len(Tail(s)) /\ ~(i <= 1)
      BY <1>1, <2>2, LenProperties
    <3> QED
      BY <1>1, <1>3, <3>1
  <2> QED
    BY <2>1, <2>2
<1> QED
  BY <1>1, <1>3, <1>4, SeqEqual

\* Appending to the last of two is appending to both.
LEMMA AppendBehind ==
  ASSUME NEW S, NEW s \in Seq(S), NEW t \in Seq(S), NEW e \in S
  PROVE  s \o Append(t, e) = Append(s \o t, e)
<1>1. Append(t, e) = t \o <<e>> /\ <<e>> \in Seq(S) /\ s \o t \in Seq(S)
  BY AppendIsConcat, ConcatProperties
<1>2. Append(s \o t, e) = (s \o t) \o <<e>>
  BY <1>1, AppendIsConcat
<1> QED
  BY <1>1, <1>2, ConcatAssociative

\* The head of the first of two is the head of both.
LEMMA HeadInFront ==
  ASSUME NEW S, NEW s \in Seq(S), NEW t \in Seq(S), s # << >>
  PROVE  /\ s \o t # << >>
         /\ Head(s \o t) = Head(s)
         /\ Tail(s \o t) = Tail(s) \o t
<1> DEFINE h == <<Head(s)>>
           r == Tail(s) \o t
<1>1. Head(s) \in S /\ Tail(s) \in Seq(S) /\ s = h \o Tail(s)
  BY HeadAndTail
<1>2. h \in Seq(S) /\ r \in Seq(S) /\ Len(h) = 1 /\ h[1] = Head(s)
  BY <1>1, ConcatProperties
<1>3. s \o t = h \o r
  <2>1. (h \o Tail(s)) \o t = h \o r
    BY <1>1, <1>2, ConcatAssociative
  <2> QED
    BY <1>1, <2>1
<1>4. /\ h \o r \in Seq(S) /\ Len(h \o r) = 1 + Len(r) /\ Len(r) \in Nat
      /\ \A i \in 1..1 + Len(r) :
            (h \o r)[i] = IF i <= 1 THEN h[i] ELSE r[i - 1]
  <2> HIDE DEF h, r
  <2>1. Len(r) \in Nat
    BY <1>2, LenProperties
  <2>2. /\ h \o r \in Seq(S) /\ Len(h \o r) = Len(h) + Len(r)
        /\ \A i \in 1..Len(h) + Len(r) :
              (h \o r)[i] = IF i <= Len(h) THEN h[i] ELSE r[i - Len(h)]
    BY <1>2, ConcatProperties
  <2> QED
    BY <1>2, <2>1, <2>2
<1>5. h \o r # << >> /\ Head(h \o r) = Head(s)
  <2>1. Head(h \o r) = (h \o r)[1] /\ (h \o r)[1] = h[1]
    BY <1>4
  <2> QED
    BY <1>2, <1>4, <2>1
<1>6. Tail(h \o r) = r
  <2> HIDE DEF h, r
  <2>1. /\ Tail(h \o r) \in Seq(S) /\ Len(Tail(h \o r)) = Len(r)
        /\ \A i \in 1..Len(r) : Tail(h \o r)[i] = (h \o r)[i + 1]
    BY <1>4, <1>5, HeadTailProperties
  <2>2. \A i \in 1..Len(r) : Tail(h \o r)[i] = r[i]
    BY <1>4, <2>1
  <2> QED
    BY <1>2, <2>1, <2>2, SeqEqual
<1> QED
  BY <1>3, <1>5, <1>6
-----------------------------------------------------------------------------
(* AsyncInput implements LineQueue *)

\* The queue that LineQueue sees.
Queue == stolen \o Shared \o Held \o tty

\* The parts of the queue are sequences of lines.
LEMMA PartsAreSequences ==
  ASSUME TypeOK
  PROVE  /\ Shared \in Seq(Line) /\ Held \in Seq(Line)
         /\ stolen \in Seq(Line) /\ tty \in Seq(Line) /\ result \in Line
         /\ stolen \o Shared \in Seq(Line)
         /\ (stolen \o Shared) \o Held \in Seq(Line)
<1>1. << >> \in Seq(Line) /\ (result \in Line => <<result>> \in Seq(Line))
  OBVIOUS
<1>2. /\ Shared \in Seq(Line) /\ Held \in Seq(Line)
      /\ stolen \in Seq(Line) /\ tty \in Seq(Line) /\ result \in Line
  BY <1>1 DEF TypeOK, Shared, Held
<1> QED
  BY <1>2, ConcatProperties

\* A line typed goes to the end.
LEMMA TypeRefines ==
  ASSUME IInv, Type
  PROVE  /\ \E line \in Line : Queue' = Append(Queue, line)
         /\ UNCHANGED <<last, Listening>>
<1>1. PICK line \in Line : tty' = Append(tty, line)
  BY DEF Type
<1>2. /\ stolen' = stolen /\ Shared' = Shared /\ Held' = Held
      /\ UNCHANGED <<last, Listening>>
  BY DEF Type, Shared, Held, Listening
<1>3. Queue' = Append(Queue, line)
  BY <1>1, <1>2, PartsAreSequences, AppendBehind DEF IInv, Queue
<1> QED
  BY <1>2, <1>3

\* What getline reads is still the next to the last part; at the end of the
\* input, an empty line is added.
LEMMA GetlineRefines ==
  ASSUME IInv, Getline
  PROVE  /\ Queue' = Queue \/ \E line \in Line : Queue' = Append(Queue, line)
         /\ UNCHANGED <<last, Listening>>
<1> DEFINE before == stolen \o Shared
<1>1. /\ stolen' = stolen /\ Shared' = Shared /\ UNCHANGED <<last, Listening>>
      /\ Held = << >> /\ Held' = <<result'>>
  BY DEF Getline, Shared, Held, Listening, mainVars
<1>2. before \in Seq(Line) /\ before \o << >> = before /\ tty \in Seq(Line)
  BY PartsAreSequences, ConcatEmptySeq DEF IInv
<1>3. Queue = before \o tty /\ Queue' = (before \o <<result'>>) \o tty'
  BY <1>1, <1>2 DEF Queue
<1> HIDE DEF before
<1>4. CASE tty # << >> /\ result' = Head(tty) /\ tty' = Tail(tty)
  <2>1. /\ Head(tty) \in Line /\ Tail(tty) \in Seq(Line)
        /\ tty = <<Head(tty)>> \o Tail(tty)
    BY <1>2, <1>4, HeadAndTail
  <2>2. <<Head(tty)>> \in Seq(Line)
    BY <2>1
  <2>3. (before \o <<Head(tty)>>) \o Tail(tty) = before \o (<<Head(tty)>> \o Tail(tty))
    BY <1>2, <2>1, <2>2, ConcatAssociative
  <2> QED
    BY <1>1, <1>3, <1>4, <2>1, <2>3, Zenon
<1>5. CASE tty = << >> /\ result' = Empty /\ tty' = tty
  <2>1. before \o <<Empty>> = Append(before, Empty)
        /\ Append(before, Empty) \in Seq(Line)
    BY <1>2, AppendIsConcat, AppendProperties, LineAssumption
  <2>2. Append(before, Empty) \o << >> = Append(before, Empty)
    BY <2>1, ConcatEmptySeq
  <2> QED
    BY <1>1, <1>2, <1>3, <1>5, <2>1, <2>2, LineAssumption, Zenon
<1> QED
  BY <1>4, <1>5 DEF Getline, AtEnd

\* The worker's line goes to the end of lines_, which main is not moving.
LEMMA PushLineRefines ==
  ASSUME IInv, PushLine
  PROVE  UNCHANGED <<Queue, last, Listening>>
<1>1. Shared = lines_ /\ Shared' = Append(lines_, result)
  BY DEF IInv, Locking, PushLine, Shared, mainVars
<1>2. /\ stolen' = stolen /\ tty' = tty /\ UNCHANGED <<last, Listening>>
      /\ Held = <<result>> /\ Held' = << >>
  BY DEF PushLine, Held, Listening, mainVars, userVars
<1>3. /\ stolen \in Seq(Line) /\ lines_ \in Seq(Line) /\ result \in Line
      /\ stolen \o lines_ \in Seq(Line)
  BY <1>1, PartsAreSequences DEF IInv
<1>4. stolen \o Append(lines_, result) = (stolen \o lines_) \o <<result>>
  BY <1>3, AppendBehind, AppendIsConcat
<1>5. ((stolen \o lines_) \o <<result>>) \o << >> = (stolen \o lines_) \o <<result>>
  <2>1. (stolen \o lines_) \o <<result>> \in Seq(Line)
    BY <1>1, <1>2, PartsAreSequences DEF IInv
  <2> QED
    BY <2>1, ConcatEmptySeq
<1> QED
  BY <1>1, <1>2, <1>4, <1>5, Zenon DEF Queue

\* The move takes all the lines, to where there are none.
LEMMA MoveLinesRefines ==
  ASSUME IInv, MoveLines
  PROVE  UNCHANGED <<Queue, last, Listening>>
<1>1. /\ stolen = << >> /\ Shared = lines_
      /\ stolen' = lines_ /\ Shared' = << >>
  BY DEF IInv, Moving, MoveLines, Shared
<1>2. Held' = Held /\ tty' = tty /\ UNCHANGED <<last, Listening>>
  BY DEF MoveLines, Held, Listening, workerVars, userVars
<1>3. << >> \o lines_ = lines_ /\ lines_ \o << >> = lines_
  BY ConcatEmptySeq DEF IInv, TypeOK
<1> QED
  BY <1>1, <1>2, <1>3, Zenon DEF Queue

\* handleLine gets the oldest line.
LEMMA HandleLineRefines ==
  ASSUME IInv, HandleLine
  PROVE  /\ Queue # << >> /\ last' = <<Head(Queue)>> /\ Queue' = Tail(Queue)
         /\ UNCHANGED Listening
<1> DEFINE ahead == stolen \o Shared
           most == ahead \o Held
<1>1. /\ stolen # << >> /\ stolen' = Tail(stolen) /\ last' = <<Head(stolen)>>
      /\ Shared' = Shared /\ Held' = Held /\ tty' = tty /\ UNCHANGED Listening
  BY DEF HandleLine, Shared, Held, Listening, workerVars, userVars
<1>2. /\ stolen \in Seq(Line) /\ Shared \in Seq(Line) /\ Held \in Seq(Line)
      /\ tty \in Seq(Line) /\ ahead \in Seq(Line) /\ most \in Seq(Line)
  BY PartsAreSequences DEF IInv
<1>3. /\ ahead # << >> /\ Head(ahead) = Head(stolen)
      /\ Tail(ahead) = Tail(stolen) \o Shared
  BY <1>1, <1>2, HeadInFront
<1>4. /\ most # << >> /\ Head(most) = Head(ahead)
      /\ Tail(most) = Tail(ahead) \o Held
  <2> HIDE DEF ahead
  <2> QED
    BY <1>2, <1>3, HeadInFront
<1>5. /\ most \o tty # << >> /\ Head(most \o tty) = Head(most)
      /\ Tail(most \o tty) = Tail(most) \o tty
  <2> HIDE DEF most
  <2> QED
    BY <1>2, <1>4, HeadInFront
<1>6. Queue = most \o tty
      /\ Queue' = ((Tail(stolen) \o Shared) \o Held) \o tty
  BY <1>1 DEF Queue
<1> HIDE DEF ahead, most
<1> QED
  BY <1>1, <1>3, <1>4, <1>5, <1>6, Zenon

\* The other steps leave the lines where they are; one that ends the loop, or
\* the worker, closes the console.
LEMMA OthersRefine ==
  ASSUME IInv, \/ EndInput \/ TestStopped \/ LockLines \/ Construct
               \/ TestShouldStop \/ LockForPoll \/ ClearMoved \/ Serve
               \/ ShowMessage \/ StoreStopped \/ JoinWorker \/ UNCHANGED vars
  PROVE  /\ UNCHANGED <<Queue, last>>
         /\ Listening' = Listening \/ Listening' = FALSE
<1>1. stolen' = stolen /\ tty' = tty /\ last' = last
  BY DEF EndInput, TestStopped, LockLines, Construct, TestShouldStop,
         LockForPoll, ClearMoved, Serve, ShowMessage, StoreStopped, JoinWorker,
         vars, mainVars, workerVars, userVars
<1>2. Shared' = Shared
  BY DEF Shared, EndInput, TestStopped, LockLines, Construct, TestShouldStop,
         LockForPoll, ClearMoved, Serve, ShowMessage, StoreStopped, JoinWorker,
         vars, mainVars, workerVars, userVars
<1>3. Held' = Held
  BY DEF Held, EndInput, TestStopped, LockLines, Construct, TestShouldStop,
         LockForPoll, ClearMoved, Serve, ShowMessage, StoreStopped, JoinWorker,
         vars, mainVars, workerVars, userVars
<1>4. Listening' = Listening \/ Listening' = FALSE
  BY DEF IInv, Stopping, Listening, EndInput, TestStopped, LockLines, Construct,
         TestShouldStop, LockForPoll, ClearMoved, Serve, ShowMessage,
         StoreStopped, JoinWorker, vars, mainVars, workerVars, userVars
<1> QED
  BY <1>1, <1>2, <1>3, <1>4 DEF Queue

\* Nothing has been typed at first.
LEMMA InitRefines == Init => LQ!Init
<1> SUFFICES ASSUME Init PROVE LQ!Init
  OBVIOUS
<1>1. << >> \in Seq(Line) /\ Shared = << >> /\ Held = << >>
      /\ stolen = << >> /\ tty = << >> /\ last = << >>
  BY DEF Init, Shared, Held
<1>2. << >> \o << >> = << >>
  BY <1>1, ConcatEmptySeq
<1>3. Listening \in BOOLEAN
  BY DEF Init, Listening
<1> QED
  BY <1>1, <1>2, <1>3, Zenon DEF LQ!Init

\* Every step is a step of LineQueue or leaves its queue alone.
LEMMA StepRefines ==
  ASSUME IInv, [Next]_vars
  PROVE  [LQ!Next]_(LQ!vars)
<1>1. CASE Type
  BY <1>1, TypeRefines DEF Queue, LQ!Next, LQ!Put
<1>2. CASE Getline
  BY <1>2, GetlineRefines DEF Queue, LQ!Next, LQ!Put, LQ!vars
<1>3. CASE PushLine
  BY <1>3, PushLineRefines DEF Queue, LQ!vars
<1>4. CASE MoveLines
  BY <1>4, MoveLinesRefines DEF Queue, LQ!vars
<1>5. CASE HandleLine
  BY <1>5, HandleLineRefines DEF Queue, LQ!Next, LQ!Take
<1>6. CASE \/ EndInput \/ TestStopped \/ LockLines \/ Construct
           \/ TestShouldStop \/ LockForPoll \/ ClearMoved \/ Serve
           \/ ShowMessage \/ StoreStopped \/ JoinWorker \/ UNCHANGED vars
  BY <1>6, OthersRefine, Zenon DEF Queue, LQ!Next, LQ!Close, LQ!vars
<1> QED
  BY <1>1, <1>2, <1>3, <1>4, <1>5, <1>6 DEF Next, Main, Work

\* The lines stay one queue, from the terminal to handleLine: AsyncInput, with
\* its thread, its mutex and its moved deque, implements LineQueue.
THEOREM ImplementsLineQueue == Spec => LinesInOrder
<1>1. Init => LQ!Init
  BY InitRefines
<1>2. IInv /\ [Next]_vars => [LQ!Next]_(LQ!vars)
  BY StepRefines
<1> QED
  BY <1>1, <1>2, InductiveInvariant, PTL DEF Spec, LinesInOrder, LQ!Spec

-----------------------------------------------------------------------------
(* Pacing *)


IsDelta(d) == d.to = "client" /\ ~d.confirms

\* A delta under way is the last that was sent.
DeltasAreNew == \A d \in net : IsDelta(d) => d.age = sinceDeltas

\* Inputs under way were sent before the present poll began, and confirmations answer
\* such inputs.
InputsAreOlder ==
    \A d \in net :
        /\ d.to = "server" /\ ~d.confirms => clientPoll[d.peer] <= d.age
        /\ d.to = "client" /\ d.confirms => clientPoll[d.peer] <= MaxDelay + d.age

\* Nothing but confirmations has kept client c, or one delta has, after which there
\* is none under way and the server is not due to send one.
Kept(c) ==
    \/ clientPoll[c] <= 2 * MaxDelay + clientQuiet[c]
    \/ /\ clientPoll[c] <= 2 * MaxDelay + PollTimeout + clientQuiet[c]
       /\ sinceDeltas <= MaxDelay + clientQuiet[c]
       /\ \A d \in net : IsDelta(d) => d.peer # c

PacingInv == PacingTypeOK /\ DeltasAreNew /\ InputsAreOlder /\ \A c \in Clients : Kept(c)

-----------------------------------------------------------------------------
\* The parts of TypeOK in the form the steps below use.
LEMMA Types ==
  ASSUME PacingTypeOK
  PROVE  /\ PollTimeout \in Nat /\ InputRate \in Nat /\ DeltaRate \in Nat
         /\ MaxDelay \in Nat /\ MaxTime \in Nat
         /\ MaxDelay + PollTimeout <= DeltaRate
         /\ serverQuiet \in Nat /\ sinceDeltas \in Nat
         /\ \A c \in Clients : /\ clientPoll[c] \in Nat /\ sinceInput[c] \in Nat
                               /\ clientQuiet[c] \in Nat /\ clientQuiet[c] <= PollTimeout
         /\ \A d \in net : /\ d \in Packet /\ d.peer \in Clients
                           /\ d.age \in Nat /\ d.age <= MaxDelay
<1>1. /\ PollTimeout \in Nat /\ InputRate \in Nat /\ DeltaRate \in Nat
      /\ MaxDelay \in Nat /\ MaxDelay + PollTimeout <= DeltaRate
  BY ConstantsAssumption
<1>2. MaxTime \in Nat
  BY <1>1 DEF MaxTime
<1>3. serverQuiet \in Nat /\ sinceDeltas \in Nat
  BY <1>1 DEF PacingTypeOK
<1>4. ASSUME NEW c \in Clients
      PROVE  /\ clientPoll[c] \in Nat /\ sinceInput[c] \in Nat
             /\ clientQuiet[c] \in Nat /\ clientQuiet[c] <= PollTimeout
  <2>1. /\ clientPoll[c] \in 0..MaxTime /\ clientQuiet[c] \in 0..PollTimeout
        /\ sinceInput[c] \in 0..InputRate + 1
    BY <1>4 DEF PacingTypeOK
  <2> QED
    BY <1>1, <1>2, <2>1
<1>5. ASSUME NEW d \in net
      PROVE  d \in Packet /\ d.peer \in Clients /\ d.age \in Nat /\ d.age <= MaxDelay
  BY <1>1, <1>5 DEF PacingTypeOK, Packet
<1> QED
  BY <1>1, <1>2, <1>3, <1>4, <1>5

\* A time that stops at a bound stays below it, and does not run ahead.
LEMMA TimesStop ==
  ASSUME NEW bound \in Nat, NEW time \in Nat
  PROVE  AtMost(bound, time) \in 0..bound /\ AtMost(bound, time) <= time
BY DEF AtMost

LEMMA ServerRoundStep ==
  ASSUME PacingInv, ServerRound
  PROVE  PacingInv'
<1> USE Types DEF PacingInv
<1>1. /\ serverQuiet' = 0 /\ clientPoll' = clientPoll /\ clientQuiet' = clientQuiet
      /\ sinceInput' = sinceInput
  BY DEF ServerRound, clientVars
<1>2. CASE ~DeltasDue
  <2>1. sinceDeltas' = sinceDeltas /\ net' = net
    BY <1>2 DEF ServerRound
  <2> QED
    BY <1>1, <2>1 DEF PacingTypeOK, DeltasAreNew, InputsAreOlder, Kept
<1>3. CASE DeltasDue
  <2>1. /\ sinceDeltas' = 0 /\ sinceDeltas > DeltaRate
        /\ net' = net \union {Delta("client", c) : c \in Clients}
    BY <1>3 DEF ServerRound, DeltasDue
  <2>2. \A d \in net : ~IsDelta(d)
    BY <2>1 DEF DeltasAreNew
  <2>3. \A c \in Clients : /\ Delta("client", c) \in Packet /\ IsDelta(Delta("client", c))
                           /\ Delta("client", c).age = 0
    <3>1. 0 \in 0..MaxDelay
      OBVIOUS
    <3> QED
      BY <3>1 DEF Delta, Packet, IsDelta
  <2>4. PacingTypeOK'
    BY <1>1, <2>1, <2>3 DEF PacingTypeOK
  <2>5. DeltasAreNew'
    BY <2>1, <2>2, <2>3 DEF DeltasAreNew
  <2>6. InputsAreOlder'
    BY <1>1, <2>1, <2>3 DEF InputsAreOlder, IsDelta
  <2>7. ASSUME NEW c \in Clients
        PROVE  Kept(c)'
    <3>1. ~(sinceDeltas <= MaxDelay + clientQuiet[c])
      BY <2>1
    <3>2. clientPoll[c] <= 2 * MaxDelay + clientQuiet[c]
      BY <3>1 DEF Kept
    <3> QED
      BY <1>1, <3>2 DEF Kept
  <2> QED
    BY <2>4, <2>5, <2>6, <2>7
<1> QED
  BY <1>2, <1>3

LEMMA ClientRoundStep ==
  ASSUME PacingInv, NEW k \in Clients, ClientRound(k)
  PROVE  PacingInv'
<1> USE Types DEF PacingInv
<1> DEFINE since == IF InputDue(k) THEN clientPoll[k] ELSE sinceInput[k] + clientPoll[k]
<1>1. /\ serverQuiet' = serverQuiet /\ sinceDeltas' = sinceDeltas
      /\ clientPoll' = [clientPoll EXCEPT ![k] = 0]
      /\ clientQuiet' = [clientQuiet EXCEPT ![k] = 0]
      /\ sinceInput' = [sinceInput EXCEPT ![k] = AtMost(InputRate + 1, since)]
      /\ net' = net \union IF InputDue(k) THEN {Delta("server", k)} ELSE {}
  BY DEF ClientRound, serverVars
<1>2. /\ clientPoll \in [Clients -> 0..MaxTime]
      /\ clientQuiet \in [Clients -> 0..PollTimeout]
      /\ sinceInput \in [Clients -> 0..InputRate + 1]
  BY DEF PacingTypeOK
<1>3. /\ clientPoll'[k] = 0 /\ clientQuiet'[k] = 0
      /\ \A c \in Clients : c # k => /\ clientPoll'[c] = clientPoll[c]
                                     /\ clientQuiet'[c] = clientQuiet[c]
  BY <1>1, <1>2
<1>4. \A d \in net' : d \in net \/ d = Delta("server", k)
  BY <1>1
<1>5. /\ Delta("server", k) \in Packet /\ ~IsDelta(Delta("server", k))
      /\ Delta("server", k).age = 0 /\ Delta("server", k).peer = k
      /\ Delta("server", k).to = "server"
  BY DEF Delta, Packet, IsDelta
<1>6. PacingTypeOK'
  <2>1. AtMost(InputRate + 1, since) \in 0..InputRate + 1
    <3>1. since \in Nat /\ InputRate + 1 \in Nat
      OBVIOUS
    <3> HIDE DEF since
    <3> QED
      BY <3>1, TimesStop
  <2>2. sinceInput' \in [Clients -> 0..InputRate + 1]
    <3> HIDE DEF since
    <3> QED
      BY <1>1, <1>2, <2>1
  <2>3. /\ clientPoll' \in [Clients -> 0..MaxTime]
        /\ clientQuiet' \in [Clients -> 0..PollTimeout]
    BY <1>1, <1>2
  <2>4. net' \subseteq Packet
    BY <1>4, <1>5
  <2> QED
    BY <1>1, <2>2, <2>3, <2>4 DEF PacingTypeOK
<1>7. DeltasAreNew'
  BY <1>1, <1>4, <1>5 DEF DeltasAreNew
<1>8. InputsAreOlder'
  <2>1. SUFFICES ASSUME NEW d \in net'
                 PROVE  /\ d.to = "server" /\ ~d.confirms => clientPoll'[d.peer] <= d.age
                        /\ d.to = "client" /\ d.confirms =>
                              clientPoll'[d.peer] <= MaxDelay + d.age
    BY DEF InputsAreOlder
  <2>2. CASE d.peer = k
    BY <1>3, <1>4, <1>5, <2>2
  <2>3. CASE d.peer # k
    BY <1>3, <1>4, <1>5, <2>3 DEF InputsAreOlder
  <2> QED
    BY <2>2, <2>3
<1>9. ASSUME NEW c \in Clients
      PROVE  Kept(c)'
  <2>1. CASE c = k
    BY <1>3, <2>1 DEF Kept
  <2>2. CASE c # k
    BY <1>1, <1>3, <1>4, <1>5, <2>2 DEF Kept
  <2> QED
    BY <2>1, <2>2
<1> QED
  BY <1>6, <1>7, <1>8, <1>9

\* A confirmation is as old as nothing, and its input has spent at most MaxDelay.
LEMMA ServerReceiveStep ==
  ASSUME PacingInv, NEW d \in net, ServerReceive(d)
  PROVE  PacingInv'
<1> USE Types DEF PacingInv
<1> DEFINE reply == Confirmation("client", d.peer)
<1>1. /\ serverQuiet' = 0 /\ sinceDeltas' = sinceDeltas /\ clientPoll' = clientPoll
      /\ clientQuiet' = clientQuiet /\ sinceInput' = sinceInput /\ d.to = "server"
  BY DEF ServerReceive, clientVars
<1>2. \A e \in net' : e \in net \/ (e = reply /\ ~d.confirms)
  BY DEF ServerReceive, Without
<1>3. /\ reply \in Packet /\ ~IsDelta(reply) /\ reply.to = "client" /\ reply.confirms
      /\ reply.peer = d.peer /\ reply.age = 0
  BY DEF Confirmation, Packet, IsDelta
<1>4. PacingTypeOK'
  BY <1>1, <1>2, <1>3 DEF PacingTypeOK
<1>5. DeltasAreNew'
  BY <1>1, <1>2, <1>3 DEF DeltasAreNew
<1>6. InputsAreOlder'
  <2>1. ~d.confirms => clientPoll[d.peer] <= MaxDelay + 0
    BY <1>1 DEF InputsAreOlder
  <2> QED
    BY <1>1, <1>2, <1>3, <2>1 DEF InputsAreOlder
<1>7. \A c \in Clients : Kept(c)'
  BY <1>1, <1>2, <1>3 DEF Kept
<1> QED
  BY <1>4, <1>5, <1>6, <1>7

\* A delta that is received is the only one under way to its client.
LEMMA ClientReceiveStep ==
  ASSUME PacingInv, NEW d \in net, ClientReceive(d)
  PROVE  PacingInv'
<1> USE Types DEF PacingInv
<1> DEFINE reply == Confirmation("server", d.peer)
<1>1. /\ serverQuiet' = serverQuiet /\ sinceDeltas' = sinceDeltas
      /\ clientPoll' = clientPoll /\ sinceInput' = sinceInput /\ d.to = "client"
      /\ clientQuiet' = [clientQuiet EXCEPT ![d.peer] = 0]
  BY DEF ClientReceive, serverVars
<1>2. \A e \in net' : e \in net \ {d} \/ e = reply
  BY DEF ClientReceive, Without
<1>3. /\ reply \in Packet /\ ~IsDelta(reply) /\ reply.to = "server" /\ reply.confirms
  BY DEF Confirmation, Packet, IsDelta
<1>4. /\ clientQuiet'[d.peer] = 0
      /\ clientQuiet' \in [Clients -> 0..PollTimeout]
      /\ \A c \in Clients : c # d.peer => clientQuiet'[c] = clientQuiet[c]
  BY <1>1 DEF PacingTypeOK
<1>5. PacingTypeOK'
  BY <1>1, <1>2, <1>3, <1>4 DEF PacingTypeOK
<1>6. DeltasAreNew'
  BY <1>1, <1>2, <1>3 DEF DeltasAreNew
<1>7. InputsAreOlder'
  BY <1>1, <1>2, <1>3 DEF InputsAreOlder
<1>8. ASSUME NEW c \in Clients
      PROVE  Kept(c)'
  <2>1. CASE c # d.peer
    BY <1>1, <1>2, <1>3, <1>4, <2>1 DEF Kept
  <2>2. CASE c = d.peer /\ d.confirms
    <3>1. clientPoll[c] <= 2 * MaxDelay + 0
      BY <1>1, <2>2 DEF InputsAreOlder
    <3> QED
      BY <1>1, <1>4, <2>2, <3>1 DEF Kept
  <2>3. CASE c = d.peer /\ ~d.confirms
    <3>1. IsDelta(d) /\ sinceDeltas <= MaxDelay
      BY <1>1, <2>3 DEF IsDelta, DeltasAreNew
    <3>2. clientPoll[c] <= 2 * MaxDelay + PollTimeout + 0
      BY <2>3, <3>1 DEF Kept
    <3>3. \A e \in net : IsDelta(e) /\ e.peer = c => e = d
      BY <2>3, <3>1 DEF DeltasAreNew, IsDelta, Packet
    <3>4. \A e \in net' : IsDelta(e) => e.peer # c
      BY <1>2, <1>3, <3>3
    <3> QED
      BY <1>1, <1>4, <2>3, <3>1, <3>2, <3>4 DEF Kept
  <2> QED
    BY <2>1, <2>2, <2>3
<1> QED
  BY <1>5, <1>6, <1>7, <1>8

LEMMA TickStep ==
  ASSUME PacingInv, Tick
  PROVE  PacingInv'
<1> USE Types DEF PacingInv
<1> DEFINE older(d) == [d EXCEPT !.age = @ + 1]
<1>1. /\ serverQuiet < PollTimeout /\ serverQuiet' = serverQuiet + 1
      /\ \A c \in Clients : clientQuiet[c] < PollTimeout
      /\ clientQuiet' = [c \in Clients |-> clientQuiet[c] + 1]
      /\ clientPoll' = [c \in Clients |-> AtMost(MaxTime, clientPoll[c] + 1)]
      /\ sinceDeltas' = AtMost(DeltaRate + 1, sinceDeltas + 1)
      /\ \A d \in net : d.age < MaxDelay
      /\ net' = {older(d) : d \in net}
      /\ sinceInput' = sinceInput
  BY DEF Tick
<1>2. \A c \in Clients : /\ clientPoll'[c] \in 0..MaxTime
                         /\ clientPoll'[c] <= clientPoll[c] + 1
                         /\ clientQuiet'[c] = clientQuiet[c] + 1
  BY <1>1, TimesStop
<1>3. sinceDeltas' \in 0..DeltaRate + 1 /\ sinceDeltas' <= sinceDeltas + 1
  BY <1>1, TimesStop
<1>4. ASSUME NEW e \in net'
      PROVE  \E d \in net : /\ e = older(d) /\ e \in Packet /\ e.to = d.to
                            /\ e.peer = d.peer /\ e.confirms = d.confirms
                            /\ e.age = d.age + 1
  <2>1. PICK d \in net : e = older(d)
    BY <1>1, <1>4
  <2>2. d \in Packet /\ d.age + 1 \in 0..MaxDelay
    BY <1>1
  <2>3. /\ e \in Packet /\ e.to = d.to /\ e.peer = d.peer
        /\ e.confirms = d.confirms /\ e.age = d.age + 1
    BY <2>1, <2>2 DEF Packet
  <2> QED
    BY <2>1, <2>3
<1>5. PacingTypeOK'
  <2>1. /\ clientPoll' \in [Clients -> 0..MaxTime]
        /\ clientQuiet' \in [Clients -> 0..PollTimeout]
    BY <1>1, <1>2
  <2>2. net' \subseteq Packet
    BY <1>4
  <2> QED
    BY <1>1, <1>3, <2>1, <2>2 DEF PacingTypeOK
<1>6. DeltasAreNew'
  <2>1. SUFFICES ASSUME NEW e \in net', IsDelta(e)
                 PROVE  e.age = sinceDeltas'
    BY DEF DeltasAreNew
  <2>2. PICK d \in net : e.age = d.age + 1 /\ IsDelta(d)
    BY <1>4, <2>1 DEF IsDelta
  <2>3. d.age = sinceDeltas /\ sinceDeltas < MaxDelay
    BY <1>1, <2>2 DEF DeltasAreNew
  <2> QED
    BY <1>1, <2>2, <2>3 DEF AtMost
<1>7. InputsAreOlder'
  <2>1. SUFFICES ASSUME NEW e \in net'
                 PROVE  /\ e.to = "server" /\ ~e.confirms => clientPoll'[e.peer] <= e.age
                        /\ e.to = "client" /\ e.confirms =>
                              clientPoll'[e.peer] <= MaxDelay + e.age
    BY DEF InputsAreOlder
  <2>2. PICK d \in net : /\ e.to = d.to /\ e.peer = d.peer /\ e.confirms = d.confirms
                         /\ e.age = d.age + 1
    BY <1>4
  <2>3. d.peer \in Clients /\ clientPoll'[d.peer] <= clientPoll[d.peer] + 1
        /\ clientPoll'[d.peer] \in Nat
    BY <1>2
  <2> QED
    BY <2>2, <2>3 DEF InputsAreOlder
<1>8. ASSUME NEW c \in Clients
      PROVE  Kept(c)'
  <2>1. \A e \in net' : \E d \in net : e.peer = d.peer /\ (IsDelta(e) <=> IsDelta(d))
    BY <1>4 DEF IsDelta
  <2>2. clientPoll'[c] \in Nat /\ sinceDeltas' \in Nat
    BY <1>2, <1>3
  <2> QED
    BY <1>2, <1>3, <2>1, <2>2 DEF Kept
<1> QED
  BY <1>5, <1>6, <1>7, <1>8

-----------------------------------------------------------------------------
\* All of it always holds.
THEOREM PacingInductiveInvariant == PacingSpec => []PacingInv
<1>1. PacingInit => PacingInv
  <2>1. SUFFICES ASSUME PacingInit PROVE PacingInv
    OBVIOUS
  <2>2. PollTimeout \in Nat /\ MaxDelay \in Nat /\ MaxTime \in Nat /\ PollTimeout <= MaxTime
    BY ConstantsAssumption DEF MaxTime
  <2>3. \A c \in Clients : clientQuiet[c] \in 0..PollTimeout /\ clientPoll[c] = clientQuiet[c]
    BY <2>1 DEF PacingInit
  <2>4. clientPoll \in [Clients -> 0..MaxTime]
    BY <2>1, <2>2, <2>3 DEF PacingInit
  <2>5. PacingTypeOK
    BY <2>1, <2>4 DEF PacingInit, PacingTypeOK
  <2>6. ASSUME NEW c \in Clients
        PROVE  Kept(c)
    <3>1. clientPoll[c] = clientQuiet[c] /\ clientQuiet[c] \in Nat
      BY <2>2, <2>3
    <3>2. clientPoll[c] <= 2 * MaxDelay + clientQuiet[c]
      BY <2>2, <3>1
    <3> QED
      BY <3>2 DEF Kept
  <2> QED
    BY <2>1, <2>5, <2>6 DEF PacingInit, PacingInv, DeltasAreNew, InputsAreOlder
<1>2. PacingInv /\ [PacingNext]_pacingVars => PacingInv'
  <2>1. SUFFICES ASSUME PacingInv, [PacingNext]_pacingVars
                 PROVE  PacingInv'
    OBVIOUS
  <2>2. CASE ServerRound
    BY <2>1, <2>2, ServerRoundStep
  <2>3. CASE Tick
    BY <2>1, <2>3, TickStep
  <2>4. ASSUME NEW c \in Clients, ClientRound(c)
        PROVE  PacingInv'
    BY <2>1, <2>4, ClientRoundStep
  <2>5. ASSUME NEW d \in net, ServerReceive(d)
        PROVE  PacingInv'
    BY <2>1, <2>5, ServerReceiveStep
  <2>6. ASSUME NEW d \in net, ClientReceive(d)
        PROVE  PacingInv'
    BY <2>1, <2>6, ClientReceiveStep
  <2>7. ASSUME NEW d \in net, Lose(d)
        PROVE  PacingInv'
    BY <2>1, <2>7 DEF Lose, serverVars, clientVars, PacingInv, PacingTypeOK, DeltasAreNew,
                      InputsAreOlder, Kept
  <2>8. CASE UNCHANGED pacingVars
    BY <2>1, <2>8 DEF pacingVars, serverVars, clientVars, PacingInv, PacingTypeOK, DeltasAreNew,
                      InputsAreOlder, Kept
  <2> QED
    BY <2>1, <2>2, <2>3, <2>4, <2>5, <2>6, <2>7, <2>8 DEF PacingNext
<1> QED
  BY <1>1, <1>2, PTL DEF PacingSpec

\* The types are right.
THEOREM PacingTypesCorrect == PacingSpec => []PacingTypeOK
<1>1. PacingInv => PacingTypeOK
  BY DEF PacingInv
<1> QED
  BY <1>1, PacingInductiveInvariant, PTL

\* A client comes round in time, however many clients there are, and whether the
\* server does or not (client.cpp:359-361).
THEOREM ClientsAreResponsive == PacingSpec => []ClientsComeRound
<1>1. PacingInv => ClientsComeRound
  <2>1. SUFFICES ASSUME PacingInv, NEW c \in Clients
                 PROVE  clientPoll[c] <= 2 * MaxDelay + 2 * PollTimeout
    BY DEF ClientsComeRound
  <2>2. /\ PollTimeout \in Nat /\ MaxDelay \in Nat /\ clientPoll[c] \in Nat
        /\ clientQuiet[c] \in Nat /\ clientQuiet[c] <= PollTimeout
    BY <2>1, Types DEF PacingInv
  <2>3. clientPoll[c] <= 2 * MaxDelay + PollTimeout + clientQuiet[c]
    BY <2>1, <2>2 DEF PacingInv, Kept
  <2> QED
    BY <2>2, <2>3
<1> QED
  BY <1>1, PacingInductiveInvariant, PTL
=============================================================================
