------------------------------ MODULE Channel ------------------------------
(***************************************************************************)
(* What a subscriber channel promises, whatever its back-pressure policy:  *)
(* a FIFO queue of at most Capacity samples which loses a sample only when *)
(* it is full, and into which, once it is closed, only the pushes that had *)
(* already been admitted can still put a sample (at most one each).        *)
(*                                                                         *)
(* It is the abstract specification that SubQueue implements.  The flags,  *)
(* wake-ups and program counters of the implementation are hidden; what is *)
(* left of a push in progress is its membership in admitted.               *)
(***************************************************************************)
EXTENDS Naturals, Sequences

CONSTANTS
    Pushers,    \* the callers of push, one push in progress each
    Samples,    \* the samples
    Capacity    \* the bound on the queue

VARIABLES
    queue,      \* the samples waiting to be received, oldest first
    closed,     \* close has happened; never undone
    admitted    \* pushes that passed the closed check and have not finished

vars == <<queue, closed, admitted>>

Init ==
    /\ queue = <<>>
    /\ closed = FALSE
    /\ admitted = {}

Admit(p) ==
    /\ ~closed
    /\ p \notin admitted
    /\ admitted' = admitted \cup {p}
    /\ UNCHANGED <<queue, closed>>

\* A sample goes to the back; when the queue is full either it or the oldest
\* sample is lost.
Put(p, x) ==
    /\ p \in admitted
    /\ admitted' = admitted \ {p}
    /\ \/ Len(queue) < Capacity /\ queue' = Append(queue, x)
       \/ Len(queue) >= Capacity /\ queue' = queue
       \/ Len(queue) >= Capacity /\ queue' = Append(Tail(queue), x)
    /\ UNCHANGED closed

Take ==
    /\ queue # <<>>
    /\ queue' = Tail(queue)
    /\ UNCHANGED <<closed, admitted>>

Close ==
    /\ closed' = TRUE
    /\ UNCHANGED <<queue, admitted>>

Next ==
    \/ \E p \in Pushers : Admit(p)
    \/ \E p \in Pushers, x \in Samples : Put(p, x)
    \/ Take
    \/ Close

Spec == Init /\ [][Next]_vars
=============================================================================
