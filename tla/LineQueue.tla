------------------------------ MODULE LineQueue ------------------------------
(***************************************************************************)
(* What AsyncInput promises to the client: the lines typed on the console  *)
(* are handled one at a time, each once, in the order they were typed, and *)
(* as long as the console is listened to none of them waits for ever.      *)
(***************************************************************************)
EXTENDS Sequences

CONSTANT Line

VARIABLES
    queue,      \* the lines typed and not yet handled, oldest first
    last,       \* the line handled last, as a sequence of length 0 or 1
    open        \* whether the console is still listened to

vars == <<queue, last, open>>

Init == queue = << >> /\ last = << >> /\ open \in BOOLEAN

Put ==
    /\ \E line \in Line : queue' = Append(queue, line)
    /\ UNCHANGED <<last, open>>

Take ==
    /\ queue # << >>
    /\ last' = <<Head(queue)>>
    /\ queue' = Tail(queue)
    /\ UNCHANGED open

Close ==
    /\ open' = FALSE
    /\ UNCHANGED <<queue, last>>

Next == Put \/ Take \/ Close

Spec == Init /\ [][Next]_vars

FairSpec == Spec /\ WF_vars(open /\ Take)
=============================================================================
