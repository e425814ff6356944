-------------------------------- MODULE Spdp -------------------------------
(***************************************************************************)
(* Participant discovery (rtps/spdp.rs) as RtpsUdpParticipant runs it      *)
(* (rtps/dds_participant.rs): the announce loop, the receive loops and the *)
(* eviction loop of every participant, over a network that loses, delays   *)
(* and reorders datagrams.  Time is counted in ticks of EVICT_PERIOD.      *)
(*                                                                         *)
(* Announcements of one participant are alike to the table, so net holds   *)
(* one copy of each; the sequence number of an announcement is never read. *)
(***************************************************************************)
EXTENDS Integers

CONSTANTS
    Participants,   \* GuidPrefix values, one per run of a process
    Period,         \* ticks between two announcements (announce_period)
    Jitter,         \* bound of the random delay before one (jitter)
    Lease           \* ticks an announcement is good for (lease_duration)

ASSUME TimesType == Period \in Nat \ {0} /\ Jitter \in 0 .. Period - 1 /\ Lease \in Nat

VARIABLES
    status,     \* "off", "up" or "closed"
    due,        \* ticks until the announce loop sends again
    peers,      \* the known peers of each participant
    age,        \* age[p][q]: ticks since p stored an announcement of q
    net,        \* announcements in flight, as <<sender, receiver>>
    unheard     \* history: announcements sent since the last one was stored

vars == <<status, due, peers, age, net, unheard>>

Others(p) == Participants \ {p}

\* The longest time between two announcements, and how many of them may be
\* missed in a row before the lease runs out.
MaxInterval == Period + Jitter
Tolerance == Lease \div MaxInterval

AtMost(n, bound) == IF n > bound THEN bound ELSE n

Init ==
    /\ status = [p \in Participants |-> "off"]
    /\ due = [p \in Participants |-> 0]
    /\ peers = [p \in Participants |-> {}]
    /\ age = [p \in Participants |-> [q \in Participants |-> 0]]
    /\ net = {}
    /\ unheard = [p \in Participants |-> [q \in Participants |-> 0]]

\* Mutant: a closed participant starts again under the same prefix.
StartAgain(p) ==
    /\ status[p] # "up"
    /\ status' = [status EXCEPT ![p] = "up"]
    /\ UNCHANGED <<due, peers, age, net, unheard>>

\* new_with_config binds the sockets and spawns the loops; the announce loop
\* sends at once.
Start(p) ==
    /\ status[p] = "off"
    /\ status' = [status EXCEPT ![p] = "up"]
    /\ UNCHANGED <<due, peers, age, net, unheard>>

\* close aborts the loops and leaves the table as it is; a crash looks the same
\* to the peers.
Close(p) ==
    /\ status[p] = "up"
    /\ status' = [status EXCEPT ![p] = "closed"]
    /\ UNCHANGED <<due, peers, age, net, unheard>>

\* Mutant: announcements stop once the peer is known.
AnnounceUnknown(p) ==
    /\ status[p] = "up"
    /\ due[p] = 0
    /\ net' = net \cup {<<p, q>> : q \in Others(p) \ peers[p]}
    /\ due' = [due EXCEPT ![p] = Period]
    /\ UNCHANGED <<status, peers, age, unheard>>

\* send_announcement, to the multicast group or to every configured peer.  The
\* copy that multicast brings back, which handle_packet ignores, is left out.
\* The interval keeps its schedule under jitter, so two sends may be closer
\* than Period as well as further apart.
Announce(p) ==
    /\ status[p] = "up"
    /\ due[p] = 0
    /\ net' = net \cup {<<p, q>> : q \in Others(p)}
    /\ unheard' = [q \in Participants |->
                     IF p \in peers[q]
                     THEN [unheard[q] EXCEPT ![p] = AtMost(@ + 1, Tolerance)]
                     ELSE unheard[q]]
    /\ \E wait \in (Period - Jitter) .. MaxInterval : due' = [due EXCEPT ![p] = wait]
    /\ UNCHANGED <<status, peers, age>>

\* Mutant: the announce loop sleeps through its deadline.
TickLate ==
    /\ due' = [p \in Participants |-> IF status[p] = "up" THEN due[p] - 1 ELSE due[p]]
    /\ UNCHANGED <<status, peers, age, net, unheard>>

\* Time passes; the announce loops are not late.  Ages beyond the lease are
\* alike.  Tables of closed participants do not matter any more.
Tick ==
    /\ \E p \in Participants : status[p] = "up"
    /\ \A p \in Participants : status[p] = "up" => due[p] > 0
    /\ due' = [p \in Participants |-> IF status[p] = "up" THEN due[p] - 1 ELSE due[p]]
    /\ age' = [p \in Participants |-> [q \in Participants |->
                 IF status[p] = "up" /\ q \in peers[p]
                 THEN AtMost(age[p][q] + 1, Lease + 1) ELSE age[p][q]]]
    /\ UNCHANGED <<status, peers, net, unheard>>

\* handle_packet and store_peer.
Store(p, q) ==
    /\ status[p] = "up"
    /\ <<q, p>> \in net
    /\ net' = net \ {<<q, p>>}
    /\ peers' = [peers EXCEPT ![p] = @ \cup {q}]
    /\ age' = [age EXCEPT ![p][q] = 0]
    /\ unheard' = [unheard EXCEPT ![p][q] = 0]
    /\ UNCHANGED <<status, due>>

\* Mutant: >= instead of >.
ExpiredEarly(p) == {q \in peers[p] : age[p][q] >= Lease}

\* Mutant: the comparison with the lease the wrong way round.
ExpiredYoung(p) == {q \in peers[p] : age[p][q] < Lease}

\* The peers whose lease has run out.
Expired(p) == {q \in peers[p] : age[p][q] > Lease}

\* evict_expired: only the table of SPDP changes.
Evict(p) ==
    LET reset(f) == [f EXCEPT ![p] = [q \in Participants |->
                                        IF q \in Expired(p) THEN 0 ELSE f[p][q]]] IN
    /\ status[p] = "up"
    /\ Expired(p) # {}
    /\ peers' = [peers EXCEPT ![p] = @ \ Expired(p)]
    /\ age' = reset(age)
    /\ unheard' = reset(unheard)
    /\ UNCHANGED <<status, due, net>>

\* The network loses an announcement.
Lose(m) ==
    /\ m \in net
    /\ net' = net \ {m}
    /\ UNCHANGED <<status, due, peers, age, unheard>>

Next ==
    \/ Tick
    \/ \E p \in Participants :
         \/ Start(p) \/ Close(p) \/ Announce(p) \/ Evict(p)
         \/ \E q \in Others(p) : Store(p, q)
    \/ \E m \in net : Lose(m)

Spec == Init /\ [][Next]_vars

\* Timers fire and tasks are scheduled.  An announcement that is sent again and
\* again arrives in the end, which is all UDP gives.
Fairness ==
    /\ WF_vars(Tick)
    /\ \A p \in Participants :
         /\ WF_vars(Announce(p))
         /\ WF_vars(Evict(p))
         /\ \A q \in Others(p) : SF_vars(Store(p, q))

FairSpec == Spec /\ Fairness

-----------------------------------------------------------------------------

\* Every variable has its type.
TypeOK ==
    /\ status \in [Participants -> {"off", "up", "closed"}]
    /\ due \in [Participants -> 0 .. MaxInterval]
    /\ peers \in [Participants -> SUBSET Participants]
    /\ age \in [Participants -> [Participants -> 0 .. Lease + 1]]
    /\ net \subseteq Participants \X Participants
    /\ unheard \in [Participants -> [Participants -> 0 .. Tolerance]]

\* A running peer is evicted (evict_expired) only after as many announcements of
\* it were missed in a row as fit in its lease: with the defaults of SpdpConfig,
\* one announcement every 2 s and a lease of 10 s, at least five.
EvictionJustified ==
    [][\A p, q \in Participants :
         (q \in peers[p] /\ q \notin peers'[p] /\ status[q] = "up")
           => unheard[p][q] >= Tolerance]_vars

\* A participant that stopped leaves the tables of the running ones for good,
\* even when a delayed announcement brings it back once more.
DeadPeersLeave ==
    \A p, q \in Participants :
      (p # q /\ status[q] = "closed") ~> [](status[p] = "up" => q \notin peers[p])

\* Two participants that keep running hear of each other again and again, which
\* is what SEDP relies on to repair lost endpoint announcements.
PeersHeard ==
    \A p, q \in Participants :
      (p # q /\ status[p] = "up" /\ status[q] = "up")
        ~> \/ q \in peers[p] /\ age[p][q] = 0
           \/ status[p] = "closed" \/ status[q] = "closed"

Table == INSTANCE PeerTable

\* The loops of SPDP keep the peer table that SEDP is written against.
ImplementsPeerTable == Table!Spec
=============================================================================
