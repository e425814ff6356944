----------------------------- MODULE PeerTable -----------------------------
(***************************************************************************)
(* What SPDP promises SEDP: participants start and stop, and each keeps a  *)
(* table of peers that have started.  When peers enter and leave it is up  *)
(* to announcements, leases and the network; Spdp implements this          *)
(* specification and Discovery is built on it.                             *)
(***************************************************************************)
CONSTANT Participants   \* GuidPrefix values, one per run of a process

VARIABLES
    status,     \* "off", "up" or "closed"
    peers       \* the peers each participant knows

vars == <<status, peers>>

Init ==
    /\ status = [p \in Participants |-> "off"]
    /\ peers = [p \in Participants |-> {}]

Start(p) ==
    /\ status[p] = "off"
    /\ status' = [status EXCEPT ![p] = "up"]
    /\ UNCHANGED peers

\* Nothing leaves the closed state: a process that starts again is another
\* participant.
Close(p) ==
    /\ status[p] = "up"
    /\ status' = [status EXCEPT ![p] = "closed"]
    /\ UNCHANGED peers

\* An announcement of q arrives, possibly a late one or not the first.
Store(p, q) ==
    /\ p # q
    /\ status[p] = "up"
    /\ status[q] # "off"
    /\ peers' = [peers EXCEPT ![p] = @ \cup {q}]
    /\ UNCHANGED status

\* Leases run out.
Drop(p, gone) ==
    /\ status[p] = "up"
    /\ gone # {}
    /\ gone \subseteq peers[p]
    /\ peers' = [peers EXCEPT ![p] = @ \ gone]
    /\ UNCHANGED status

Next ==
    \E p \in Participants :
      \/ Start(p)
      \/ Close(p)
      \/ \E q \in Participants : Store(p, q)
      \/ \E gone \in SUBSET Participants : Drop(p, gone)

Spec == Init /\ [][Next]_vars
=============================================================================
