------------------------------- MODULE Replica -------------------------------
(***************************************************************************)
(* What replication promises to the client, without packets, queue or      *)
(* confirmations: of the states the server sends it gets from one to a     *)
(* later one, maybe past some.  A cell of its snapshot is then that of the *)
(* state it got to, or it is left as it was; but this only where the cell  *)
(* had the right value in a state that the client had got to, or past.     *)
(***************************************************************************)
EXTENDS Integers, Sequences

CONSTANTS Fresh,     \* a cell that was not there
          States

VARIABLES
    sent,         \* the states, oldest first
    applied,      \* how many of them the client has got to
    snapshot      \* its copy of the last of these

vars == <<sent, applied, snapshot>>

Init == sent = << >> /\ applied = 0 /\ snapshot = << >>

Publish ==
    /\ \E state \in States : sent' = Append(sent, state)
    /\ UNCHANGED <<applied, snapshot>>

Held(i) == IF i \in DOMAIN snapshot THEN snapshot[i] ELSE Fresh

SeenBefore(i, value) ==
    \E e \in 1..applied : i \in DOMAIN sent[e] /\ sent[e][i] = value

CatchUp(e) ==
    /\ applied < e
    /\ applied' = e
    /\ DOMAIN snapshot' = DOMAIN sent[e]
    /\ \A i \in DOMAIN sent[e] :
          \/ snapshot'[i] = sent[e][i]
          \/ snapshot'[i] = Held(i) /\ SeenBefore(i, sent[e][i])
    /\ UNCHANGED sent

Next == Publish \/ \E e \in 1..Len(sent) : CatchUp(e)

Spec == Init /\ [][Next]_vars
=============================================================================
