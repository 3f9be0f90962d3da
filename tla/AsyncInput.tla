------------------------------ MODULE AsyncInput ------------------------------
(***************************************************************************)
(* The console of the client: hw5/common/AsyncInput.hpp, a thread that     *)
(* reads lines, and the part of ClientService::run (hw5/client.cpp) that   *)
(* takes them, asks for a last ENTER and joins the thread.                 *)
(*                                                                         *)
(* Two processes, the main thread and the worker, share lines_ under mtx_, *)
(* and stopped_, an atomic.  worker_ is declared before stopped_, so the   *)
(* thread starts before stopped_ has its initial value: until main has     *)
(* run that initialiser the worker reads whatever was in memory.           *)
(***************************************************************************)
EXTENDS Naturals, Sequences

CONSTANTS Line,         \* what can be typed
          Empty,        \* the empty line
          MaxTyped,     \* bound on the lines the user types
          MaxPending    \* bound on lines_ when getline returns at once

ASSUME LineAssumption == Empty \in Line
ASSUME BoundsAssumption == MaxTyped \in Nat /\ MaxPending \in Nat \ {0}

VARIABLES
    main,         \* where the main thread is
    worker,       \* where Work() is
    stopped_,
    shouldStop_,
    mtx_,         \* who holds the mutex: "main", "worker" or "free"
    lines_,
    result,       \* Work(): the line read by getline
    stolen,       \* poll(): the lines taken and not yet handled
    tty,          \* lines typed that getline has not returned yet
    eof,          \* whether the user has closed the input
    typed,        \* history: how many lines have been typed
    last          \* history: the line given to handleLine last

mainVars == <<main, shouldStop_, stolen, last>>
workerVars == <<worker, result>>
userVars == <<tty, eof, typed>>
vars == <<main, worker, stopped_, shouldStop_, mtx_, lines_, result, stolen,
          tty, eof, typed, last>>

Init ==
    /\ main = "construct" /\ worker = "test"
    /\ stopped_ \in BOOLEAN
    /\ shouldStop_ = FALSE
    /\ mtx_ = "free" /\ lines_ = << >>
    /\ result = Empty /\ stolen = << >>
    /\ tty = << >> /\ eof = FALSE /\ typed = 0
    /\ last = << >>

-----------------------------------------------------------------------------
(* The user *)

Type ==
    /\ typed < MaxTyped /\ ~eof
    /\ \E line \in Line : tty' = Append(tty, line)
    /\ typed' = typed + 1
    /\ UNCHANGED <<main, worker, stopped_, shouldStop_, mtx_, lines_, result,
                   stolen, eof, last>>

EndInput ==
    /\ ~eof
    /\ eof' = TRUE
    /\ UNCHANGED <<main, worker, stopped_, shouldStop_, mtx_, lines_, result,
                   stolen, tty, typed, last>>

-----------------------------------------------------------------------------
(* The worker thread: Work() *)

TestStopped ==
    /\ worker = "test"
    /\ worker' = IF stopped_ THEN "returned" ELSE "getline"
    /\ UNCHANGED <<mainVars, userVars, stopped_, mtx_, lines_, result>>

AtEnd == Empty

\* getline waits for a line; at the end of the input it fails at once and
\* leaves result empty, which nobody tests.
Getline ==
    /\ worker = "getline"
    /\ \/ /\ tty # << >>
          /\ result' = Head(tty) /\ tty' = Tail(tty)
       \/ /\ tty = << >> /\ eof
          /\ Len(lines_) < MaxPending \/ stopped_
          /\ result' = AtEnd /\ UNCHANGED tty
    /\ worker' = "lock"
    /\ UNCHANGED <<mainVars, stopped_, mtx_, lines_, eof, typed>>

\* Mutation of the next definition: poll and Work without the lock.
Available_always == TRUE

Available == mtx_ = "free"

\* Mutation of the next definition: the mutex is not unlocked.
Released_not == mtx_

Released == "free"

LockLines ==
    /\ worker = "lock" /\ Available
    /\ mtx_' = "worker"
    /\ worker' = "push"
    /\ UNCHANGED <<mainVars, userVars, stopped_, lines_, result>>

PushLine ==
    /\ worker = "push"
    /\ lines_' = Append(lines_, result)
    /\ mtx_' = Released
    /\ worker' = "test"
    /\ UNCHANGED <<mainVars, userVars, stopped_, result>>

-----------------------------------------------------------------------------
(* The main thread *)

\* The rest of AsyncInput's constructor and of the client's.
Construct ==
    /\ main = "construct"
    /\ stopped_' = FALSE
    /\ main' = "loop"
    /\ UNCHANGED <<workerVars, userVars, shouldStop_, mtx_, lines_, stolen, last>>

TestShouldStop ==
    /\ main = "loop"
    /\ main' = IF shouldStop_ THEN "message" ELSE "lock"
    /\ UNCHANGED <<workerVars, userVars, stopped_, shouldStop_, mtx_, lines_,
                   stolen, last>>

\* poll: { lock_guard; stolen = std::move(lines_) }
LockForPoll ==
    /\ main = "lock" /\ Available
    /\ mtx_' = "main"
    /\ main' = "move"
    /\ UNCHANGED <<workerVars, userVars, stopped_, shouldStop_, lines_, stolen, last>>

MoveLines ==
    /\ main = "move"
    /\ stolen' = lines_
    /\ main' = "clear"
    /\ UNCHANGED <<workerVars, userVars, stopped_, shouldStop_, mtx_, lines_, last>>

ClearMoved ==
    /\ main = "clear"
    /\ lines_' = << >>
    /\ mtx_' = Released
    /\ main' = "lines"
    /\ UNCHANGED <<workerVars, userVars, stopped_, shouldStop_, stolen, last>>

HandleLine ==
    /\ main = "lines" /\ stolen # << >>
    /\ last' = <<Head(stolen)>>
    /\ stolen' = Tail(stolen)
    /\ UNCHANGED <<workerVars, userVars, main, stopped_, shouldStop_, mtx_, lines_>>

\* The rest of the iteration, Allegro::poll, Service::poll and the frame.  If
\* the disconnect that close() asked for is complete, its callback is run.
Serve ==
    /\ main = "lines" /\ stolen = << >>
    /\ shouldStop_' \in BOOLEAN
    /\ main' = "loop"
    /\ UNCHANGED <<workerVars, userVars, stopped_, mtx_, lines_, stolen, last>>

\* "Press ENTER to exit..."
ShowMessage ==
    /\ main = "message"
    /\ main' = "stop"
    /\ UNCHANGED <<workerVars, userVars, stopped_, shouldStop_, mtx_, lines_,
                   stolen, last>>

\* Mutation of the next definition: the flag is not stored.
Stopped_not == stopped_

Stopped == TRUE

StoreStopped ==
    /\ main = "stop"
    /\ stopped_' = Stopped
    /\ main' = "join"
    /\ UNCHANGED <<workerVars, userVars, shouldStop_, mtx_, lines_, stolen, last>>

JoinWorker ==
    /\ main = "join" /\ worker = "returned"
    /\ main' = "exited"
    /\ UNCHANGED <<workerVars, userVars, stopped_, shouldStop_, mtx_, lines_,
                   stolen, last>>

-----------------------------------------------------------------------------
Main == \/ Construct \/ TestShouldStop \/ LockForPoll \/ MoveLines
        \/ ClearMoved \/ HandleLine \/ Serve \/ ShowMessage
        \/ StoreStopped \/ JoinWorker

Work == TestStopped \/ Getline \/ LockLines \/ PushLine

Next == Type \/ EndInput \/ Main \/ Work

Spec == Init /\ [][Next]_vars

\* Both threads run.  Main leaves the lock alone for the 30 ms, at least, of
\* Service::poll in every iteration, so a worker that waits for it gets it.
FairSpec ==
    /\ Spec
    /\ WF_vars(Main) /\ WF_vars(TestStopped \/ Getline \/ PushLine)
    /\ SF_vars(LockLines)

-----------------------------------------------------------------------------
TypeOK ==
    /\ main \in {"construct", "loop", "lock", "move", "clear", "lines",
                 "message", "stop", "join", "exited"}
    /\ worker \in {"test", "getline", "lock", "push", "returned"}
    /\ stopped_ \in BOOLEAN /\ shouldStop_ \in BOOLEAN /\ eof \in BOOLEAN
    /\ mtx_ \in {"free", "main", "worker"}
    /\ lines_ \in Seq(Line) /\ stolen \in Seq(Line) /\ tty \in Seq(Line)
    /\ result \in Line
    /\ typed \in Nat
    /\ last \in Seq(Line)

\* The lines under way, oldest first: what poll has taken, what is shared
\* (between the two halves of the move stolen has it already), what the worker
\* holds, and what it has not read.
Shared == IF main = "clear" THEN << >> ELSE lines_
Held == IF worker \in {"lock", "push"} THEN <<result>> ELSE << >>

\* While the loop runs the console is listened to, unless the worker took the
\* uninitialised stopped_ for true.
Listening == ~shouldStop_ /\ worker # "returned"

LQ == INSTANCE LineQueue
        WITH queue <- stolen \o Shared \o Held \o tty, open <- Listening

\* Through the terminal, the worker, the shared deque and poll's copy of it,
\* the lines stay one queue: none is lost, repeated or overtaken, whatever the
\* two threads do to lines_.
LinesInOrder == LQ!Spec

\* And none waits for ever while the console is listened to.
LinesAreHandled == LQ!FairSpec

\* Once stopped_ is stored one more line, the ENTER that "Press ENTER to exit..."
\* asks for, is enough to end the program, wherever the worker was.  (One typed
\* between the message and the store may not be: the worker can be back in
\* getline by then.)
EnterWhileJoiningExits ==
    \A n \in 0..MaxTyped :
        [](main = "join" /\ typed = n => [](typed > n => <>(main = "exited")))
=============================================================================
