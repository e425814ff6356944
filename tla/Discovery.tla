----------------------------- MODULE Discovery -----------------------------
(***************************************************************************)
(* Discovery and matching of endpoints: SedpService (rtps/sedp.rs) and the *)
(* two listener tasks of RtpsParticipant that connect it with SPDP and     *)
(* with the readers (rtps/participant.rs).  SPDP itself is the abstract    *)
(* PeerTable, which Spdp implements: every step of the table is a step of  *)
(* that module, joined with what it triggers in SEDP.                      *)
(*                                                                         *)
(* The receive loop, the listeners and the application threads that create *)
(* endpoints run concurrently.  Reads and writes of tables behind different*)
(* locks are different steps wherever another task can act in between and  *)
(* see the difference.  Datagrams are lost and reordered; announcements of *)
(* one endpoint are alike, so net holds one copy of each, and so do the    *)
(* channels of the listeners.  A locator is the participant that owns it.  *)
(***************************************************************************)
CONSTANTS
    Participants,   \* GuidPrefix values, one per run of a process
    Writers,        \* endpoints that publish
    Readers,        \* endpoints that subscribe
    Owner,          \* the participant of each endpoint
    Topic,          \* the topic name of each endpoint
    NoWriter        \* nothing left to match in the SEDP receive loop

Endpoints == Writers \cup Readers

ASSUME EndpointsDisjoint == Writers \cap Readers = {}
ASSUME OwnerType == Owner \in [Endpoints -> Participants]
ASSUME NoWriterFresh == NoWriter \notin Writers

VARIABLES
    status,     \* "off", "up" or "closed"
    peers,      \* the peers each participant knows from SPDP
    greet,      \* proxies in the channel to the peer listener
    pc,         \* how far the creation of an endpoint has come
    matched,    \* what register_reader found, until it is added to sources
    sources,    \* the writers each reader accepts samples from
    remoteWriters,  \* the endpoints of others each participant knows
    remoteReaders,
    scan,       \* the writer the SEDP receive loop has inserted and not matched
    matches,    \* WriterMatch events in the channel to the match listener
    net,        \* endpoint announcements in flight, as <<endpoint, receiver>>
    told        \* history: the participants an endpoint was announced to

tableVars == <<status, peers>>
userVars == <<pc, matched>>
remoteVars == <<remoteWriters, remoteReaders, scan>>
vars == <<tableVars, greet, userVars, sources, remoteVars, matches, net, told>>

Table == INSTANCE PeerTable

-----------------------------------------------------------------------------

\* Mutant: readers enter the SEDP table after their announcement.
LocalLate(p) == {e \in Endpoints : Owner[e] = p /\ pc[e] \notin {"none", "inserted", "scanned"}}

\* Mutant: readers enter the SEDP table when new_reader returns.
LocalReady(p) == {e \in Endpoints : Owner[e] = p /\ pc[e] = "ready"}

\* local_writers and local_readers: nothing ever leaves them.
Local(p) == {e \in Endpoints : Owner[e] = p /\ pc[e] # "none"}

\* The dispatch table `readers` of a participant: unsubscribed readers leave it.
Dispatched(r) == pc[r] \notin {"none", "gone"}

\* The readers that a writer of p on this topic sends its samples to.
MatchedReaders(p, topic) == {r \in remoteReaders[p] : Topic[r] = topic}

Init ==
    /\ Table!Init
    /\ greet = [p \in Participants |-> {}]
    /\ pc = [e \in Endpoints |-> "none"]
    /\ matched = [r \in Readers |-> {}]
    /\ sources = [r \in Readers |-> {}]
    /\ remoteWriters = [p \in Participants |-> {}]
    /\ remoteReaders = [p \in Participants |-> {}]
    /\ scan = [p \in Participants |-> NoWriter]
    /\ matches = [p \in Participants |-> {}]
    /\ net = {}
    /\ told = [e \in Endpoints |-> {}]

-----------------------------------------------------------------------------
(* The steps of SPDP *)

Start(p) ==
    /\ Table!Start(p)
    /\ UNCHANGED <<greet, userVars, sources, remoteVars, matches, net, told>>

\* close aborts the tasks; the creation of an endpoint that has passed the check
\* of `closed` may go on.
Close(p) ==
    /\ Table!Close(p)
    /\ UNCHANGED <<greet, userVars, sources, remoteVars, matches, net, told>>

\* Mutant: the listener hears of new peers only.
StorePeerNew(p, q) ==
    /\ Table!Store(p, q)
    /\ greet' = [greet EXCEPT ![p] = IF q \in peers[p] THEN @ ELSE @ \cup {q}]
    /\ UNCHANGED <<userVars, sources, remoteVars, matches, net, told>>

\* store_peer tells the peer listener of every announcement, the first or not.
StorePeer(p, q) ==
    /\ Table!Store(p, q)
    /\ greet' = [greet EXCEPT ![p] = @ \cup {q}]
    /\ UNCHANGED <<userVars, sources, remoteVars, matches, net, told>>

\* evict_expired changes the table of SPDP only.
EvictPeers(p, gone) ==
    /\ Table!Drop(p, gone)
    /\ UNCHANGED <<greet, userVars, sources, remoteVars, matches, net, told>>

-----------------------------------------------------------------------------
(* SEDP: local endpoints *)

\* broadcast to the participants in qs of the endpoints in es.
Tell(es, qs) ==
    /\ net' = net \cup (es \X qs)
    /\ told' = [e \in Endpoints |-> IF e \in es THEN told[e] \cup qs ELSE told[e]]

\* new_publisher and new_subscriber refuse once the participant is closed.
Insert(e) ==
    /\ status[Owner[e]] = "up"
    /\ pc[e] = "none"
    /\ pc' = [pc EXCEPT ![e] = "inserted"]
    /\ UNCHANGED <<tableVars, greet, matched, sources, remoteVars, matches, net, told>>

\* new_writer_impl and new_reader_impl up to the insertion into the tables: the
\* entity is inserted into the participant before SEDP knows of it, and nobody
\* can name it in between.
NewWriter(w) == Insert(w)
NewReader(r) == Insert(r)

\* register_reader looks for the remote writers that are known already.
ScanWriters(r) ==
    /\ pc[r] = "inserted"
    /\ matched' = [matched EXCEPT ![r] =
                     {w \in remoteWriters[Owner[r]] : Topic[w] = Topic[r]}]
    /\ pc' = [pc EXCEPT ![r] = "scanned"]
    /\ UNCHANGED <<tableVars, greet, sources, remoteVars, matches, net, told>>

\* announce_writer and announce_reader, to every known peer.
Announce(e, before, after) ==
    /\ pc[e] = before
    /\ Tell({e}, peers[Owner[e]])
    /\ pc' = [pc EXCEPT ![e] = after]
    /\ UNCHANGED <<tableVars, greet, matched, sources, remoteVars, matches>>

\* The last step of register_writer, and of register_reader.
AnnounceWriter(w) == Announce(w, "inserted", "ready")
AnnounceReader(r) == Announce(r, "scanned", "announced")

\* new_reader_impl accepts the writers register_reader returned.
AddSources(r) ==
    /\ pc[r] = "announced"
    /\ sources' = [sources EXCEPT ![r] = @ \cup matched[r]]
    /\ matched' = [matched EXCEPT ![r] = {}]
    /\ pc' = [pc EXCEPT ![r] = "ready"]
    /\ UNCHANGED <<tableVars, greet, remoteVars, matches, net, told>>

\* RtpsReader::unsubscribe: SEDP keeps the reader and goes on announcing it.
Unsubscribe(r) ==
    /\ pc[r] = "ready"
    /\ pc' = [pc EXCEPT ![r] = "gone"]
    /\ UNCHANGED <<tableVars, greet, matched, sources, remoteVars, matches, net, told>>

\* The peer listener calls on_new_peer, which announces a snapshot of the
\* local endpoints to one peer.
Greet(p, q) ==
    /\ status[p] = "up"
    /\ q \in greet[p]
    /\ greet' = [greet EXCEPT ![p] = @ \ {q}]
    /\ Tell(Local(p), {q})
    /\ UNCHANGED <<tableVars, userVars, sources, remoteVars, matches>>

-----------------------------------------------------------------------------
(* SEDP: remote endpoints *)

\* on_remote_writer inserts the writer and then, in another step, matches it.
RecvWriter(p, w) ==
    /\ status[p] = "up"
    /\ scan[p] = NoWriter
    /\ <<w, p>> \in net
    /\ net' = net \ {<<w, p>>}
    /\ remoteWriters' = [remoteWriters EXCEPT ![p] = @ \cup {w}]
    /\ scan' = [scan EXCEPT ![p] = w]
    /\ UNCHANGED <<tableVars, greet, userVars, sources, remoteReaders, matches, told>>

\* The readers of p that on_remote_writer finds for the writer it inserted.
ReadersFor(p, w) == {r \in Local(p) \cap Readers : Topic[r] = Topic[w]}

\* The second half of on_remote_writer: scan of the local readers, and an event
\* for each match.
MatchReaders(p) ==
    /\ status[p] = "up"
    /\ scan[p] # NoWriter
    /\ matches' = [matches EXCEPT ![p] =
                     @ \cup {<<r, scan[p]>> : r \in ReadersFor(p, scan[p])}]
    /\ scan' = [scan EXCEPT ![p] = NoWriter]
    /\ UNCHANGED <<tableVars, greet, userVars, sources, remoteWriters,
                   remoteReaders, net, told>>

\* Mutant: both kinds of announcement end in the table of writers.
RecvReaderAsWriter(p, r) ==
    /\ status[p] = "up"
    /\ scan[p] = NoWriter
    /\ <<r, p>> \in net
    /\ net' = net \ {<<r, p>>}
    /\ remoteWriters' = [remoteWriters EXCEPT ![p] = @ \cup {r}]
    /\ UNCHANGED <<tableVars, greet, userVars, sources, remoteReaders, scan,
                   matches, told>>

\* on_remote_reader.
RecvReader(p, r) ==
    /\ status[p] = "up"
    /\ scan[p] = NoWriter
    /\ <<r, p>> \in net
    /\ net' = net \ {<<r, p>>}
    /\ remoteReaders' = [remoteReaders EXCEPT ![p] = @ \cup {r}]
    /\ UNCHANGED <<tableVars, greet, userVars, sources, remoteWriters, scan,
                   matches, told>>

\* The match listener: an event for a reader that is gone is dropped.
ApplyMatch(p, r, w) ==
    /\ status[p] = "up"
    /\ <<r, w>> \in matches[p]
    /\ matches' = [matches EXCEPT ![p] = @ \ {<<r, w>>}]
    /\ sources' = [sources EXCEPT ![r] = IF Dispatched(r) THEN @ \cup {w} ELSE @]
    /\ UNCHANGED <<tableVars, greet, userVars, remoteVars, net, told>>

\* The network loses a datagram.
Lose(m) ==
    /\ m \in net
    /\ net' = net \ {m}
    /\ UNCHANGED <<tableVars, greet, userVars, sources, remoteVars, matches, told>>

-----------------------------------------------------------------------------

Next ==
    \/ \E p \in Participants :
         \/ Start(p) \/ Close(p) \/ MatchReaders(p)
         \/ \E q \in Participants : StorePeer(p, q) \/ Greet(p, q)
         \/ \E gone \in SUBSET Participants : EvictPeers(p, gone)
         \/ \E w \in Writers : RecvWriter(p, w)
         \/ \E r \in Readers : RecvReader(p, r)
         \/ \E r \in Readers, w \in Writers : ApplyMatch(p, r, w)
    \/ \E w \in Writers : NewWriter(w) \/ AnnounceWriter(w)
    \/ \E r \in Readers :
         \/ NewReader(r) \/ ScanWriters(r) \/ AnnounceReader(r) \/ AddSources(r)
         \/ Unsubscribe(r)
    \/ \E m \in net : Lose(m)

Spec == Init /\ [][Next]_vars

\* The tasks of a running participant are scheduled, and it hears of a running
\* peer again and again (PeersHeard of Spdp).  Of a datagram that is sent for
\* ever, UDP delivers a copy in the end: hence strong fairness of deliveries.
Fairness ==
    /\ \A p \in Participants :
         /\ WF_vars(MatchReaders(p))
         /\ \A q \in Participants :
              /\ WF_vars(status[q] = "up" /\ StorePeer(p, q))
              /\ WF_vars(Greet(p, q))
         /\ \A w \in Writers : SF_vars(RecvWriter(p, w))
         /\ \A r \in Readers : SF_vars(RecvReader(p, r))
         /\ \A r \in Readers, w \in Writers : WF_vars(ApplyMatch(p, r, w))
    /\ \A w \in Writers : WF_vars(status[Owner[w]] = "up" /\ AnnounceWriter(w))
    /\ \A r \in Readers :
         WF_vars(/\ status[Owner[r]] = "up"
                 /\ ScanWriters(r) \/ AnnounceReader(r) \/ AddSources(r))

FairSpec == Spec /\ Fairness

-----------------------------------------------------------------------------
(* Properties *)

\* Every variable has its type.
TypeOK ==
    /\ status \in [Participants -> {"off", "up", "closed"}]
    /\ peers \in [Participants -> SUBSET Participants]
    /\ greet \in [Participants -> SUBSET Participants]
    /\ pc \in [Endpoints -> {"none", "inserted", "scanned", "announced", "ready", "gone"}]
    /\ matched \in [Readers -> SUBSET Writers]
    /\ sources \in [Readers -> SUBSET Writers]
    /\ remoteWriters \in [Participants -> SUBSET Writers]
    /\ remoteReaders \in [Participants -> SUBSET Readers]
    /\ scan \in [Participants -> Writers \cup {NoWriter}]
    /\ matches \in [Participants -> SUBSET (Readers \X Writers)]
    /\ net \subseteq Endpoints \X Participants
    /\ told \in [Endpoints -> SUBSET Participants]

\* A remote writer that a participant knows and a reader of it on the same topic
\* find each other: once the reader exists, the writer is among its sources, or
\* an event or the scan that will add it is still to come.  register_reader and
\* on_remote_writer run at the same time, and each inserts before it looks.
NoMissedMatch ==
    \A r \in Readers, w \in Writers :
      LET p == Owner[r] IN
      /\ pc[r] = "ready"
      /\ w \in remoteWriters[p]
      /\ Topic[w] = Topic[r]
      => w \in sources[r] \/ <<r, w>> \in matches[p] \/ scan[p] = w

\* An endpoint that exists has been announced to every peer its participant
\* knows, or the listener is about to: register_* broadcasts to the peers known
\* at that time, on_new_peer announces the endpoints registered at that time.
NoMissedAnnouncement ==
    \A e \in Endpoints :
      pc[e] \in {"announced", "ready", "gone"} =>
        \A q \in peers[Owner[e]] : q \in told[e] \/ q \in greet[Owner[e]]

\* A reader and a writer on one topic, in two participants that keep running,
\* find each other however many datagrams are lost, whichever came first: the
\* reader accepts the writer, and the writer sends to the reader.
Discovered ==
    \A w \in Writers, r \in Readers :
      (Topic[w] = Topic[r] /\ Owner[w] # Owner[r] /\ pc[w] = "ready" /\ pc[r] = "ready")
        ~> \/ w \in sources[r] /\ r \in MatchedReaders(Owner[w], Topic[w])
           \/ status[Owner[w]] = "closed" \/ status[Owner[r]] = "closed" \/ pc[r] = "gone"

=============================================================================
