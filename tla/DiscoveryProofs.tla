-------------------------- MODULE DiscoveryProofs --------------------------
(***************************************************************************)
(* Proofs for Discovery: type correctness, and that neither a match nor an *)
(* announcement falls between two tasks, for any number of participants,   *)
(* writers, readers and topics.                                            *)
(***************************************************************************)
EXTENDS Discovery, TLAPS

\* Every variable keeps its type through every step of discovery.
THEOREM TypeCorrect == Spec => []TypeOK
<1>1. Init => TypeOK
  BY DEF Init, TypeOK, Table!Init, Endpoints
<1>2. TypeOK /\ [Next]_vars => TypeOK'
  <2> SUFFICES ASSUME TypeOK, [Next]_vars PROVE TypeOK'
    OBVIOUS
  <2> USE OwnerType DEF Endpoints
  <2>1. ASSUME NEW p \in Participants, Start(p) \/ Close(p) PROVE TypeOK'
    BY <2>1 DEF TypeOK, Start, Close, Table!Start, Table!Close, userVars, remoteVars
  <2>2. ASSUME NEW p \in Participants, MatchReaders(p) PROVE TypeOK'
    <3>1. scan[p] \in Writers /\ ReadersFor(p, scan[p]) \subseteq Readers
      BY <2>2 DEF TypeOK, MatchReaders, ReadersFor
    <3>2. {<<r, scan[p]>> : r \in ReadersFor(p, scan[p])} \in SUBSET (Readers \X Writers)
      BY <3>1
    <3> QED
      BY <2>2, <3>1, <3>2 DEF TypeOK, MatchReaders, tableVars, userVars
  <2>3. ASSUME NEW p \in Participants, NEW q \in Participants, StorePeer(p, q) PROVE TypeOK'
    BY <2>3 DEF TypeOK, StorePeer, Table!Store, userVars, remoteVars
  <2>4. ASSUME NEW p \in Participants, NEW q \in Participants, Greet(p, q) PROVE TypeOK'
    <3>1. Local(p) \subseteq Endpoints
      BY DEF Local
    <3> QED
      BY <2>4, <3>1 DEF TypeOK, Greet, Tell, tableVars, userVars, remoteVars
  <2>5. ASSUME NEW p \in Participants, NEW gone \in SUBSET Participants, EvictPeers(p, gone)
        PROVE TypeOK'
    BY <2>5 DEF TypeOK, EvictPeers, Table!Drop, userVars, remoteVars
  <2>6. ASSUME NEW p \in Participants, NEW w \in Writers, RecvWriter(p, w) PROVE TypeOK'
    BY <2>6 DEF TypeOK, RecvWriter, tableVars, userVars
  <2>7. ASSUME NEW p \in Participants, NEW r \in Readers, RecvReader(p, r) PROVE TypeOK'
    BY <2>7 DEF TypeOK, RecvReader, tableVars, userVars
  <2>8. ASSUME NEW p \in Participants, NEW r \in Readers, NEW w \in Writers,
               ApplyMatch(p, r, w)
        PROVE TypeOK'
    BY <2>8 DEF TypeOK, ApplyMatch, tableVars, userVars, remoteVars
  <2>9. ASSUME NEW e \in Endpoints, Insert(e) PROVE TypeOK'
    BY <2>9 DEF TypeOK, Insert, tableVars, remoteVars
  <2>10. ASSUME NEW e \in Endpoints, NEW before, NEW after \in {"announced", "ready"},
                Announce(e, before, after)
         PROVE TypeOK'
    BY <2>10 DEF TypeOK, Announce, Tell, tableVars, remoteVars
  <2>11. ASSUME NEW r \in Readers, ScanWriters(r) \/ AddSources(r) \/ Unsubscribe(r)
         PROVE TypeOK'
    <3>1. CASE ScanWriters(r)
      BY <3>1 DEF TypeOK, ScanWriters, tableVars, remoteVars
    <3>2. CASE AddSources(r)
      BY <3>2 DEF TypeOK, AddSources, tableVars, remoteVars
    <3>3. CASE Unsubscribe(r)
      BY <3>3 DEF TypeOK, Unsubscribe, tableVars, remoteVars
    <3> QED
      BY <2>11, <3>1, <3>2, <3>3
  <2>12. ASSUME NEW m \in net, Lose(m) PROVE TypeOK'
    BY <2>12 DEF TypeOK, Lose, tableVars, userVars, remoteVars
  <2>13. CASE UNCHANGED vars
    BY <2>13 DEF TypeOK, vars, tableVars, userVars, remoteVars
  <2> QED
    BY <2>1, <2>2, <2>3, <2>4, <2>5, <2>6, <2>7, <2>8, <2>9, <2>10, <2>11, <2>12, <2>13
    DEF Next, NewWriter, NewReader, AnnounceWriter, AnnounceReader
<1> QED
  BY <1>1, <1>2, PTL DEF Spec

-----------------------------------------------------------------------------

\* The inductive form of NoMissedMatch.  From the moment register_reader has
\* looked at the remote writers, every writer on the topic that is known is on
\* its way to the sources in one of four places; what register_reader returned
\* has been used up when the reader is ready.
OnItsWay(r, w) ==
    \/ w \in sources[r]
    \/ w \in matched[r]
    \/ <<r, w>> \in matches[Owner[r]]
    \/ scan[Owner[r]] = w

MatchInv ==
    /\ \A r \in Readers : pc[r] = "ready" => matched[r] = {}
    /\ \A r \in Readers, w \in Writers :
         (/\ pc[r] \in {"scanned", "announced", "ready"}
          /\ w \in remoteWriters[Owner[r]]
          /\ Topic[w] = Topic[r]) => OnItsWay(r, w)

\* No interleaving of register_reader, on_remote_writer and the match listener
\* loses the match of a reader with a known writer on its topic.
THEOREM MatchNotMissed == Spec => []NoMissedMatch
<1> USE OwnerType, NoWriterFresh DEF Endpoints
<1>1. Init => MatchInv
  BY DEF Init, MatchInv
<1>2. TypeOK /\ MatchInv /\ [Next]_vars => MatchInv'
  <2> SUFFICES ASSUME TypeOK, MatchInv, [Next]_vars PROVE MatchInv'
    OBVIOUS
  <2>1. ASSUME UNCHANGED <<userVars, sources, remoteVars, matches>> PROVE MatchInv'
    BY <2>1 DEF MatchInv, OnItsWay, userVars, remoteVars
  <2>2. ASSUME NEW p \in Participants,
               \/ Start(p) \/ Close(p)
               \/ \E q \in Participants : StorePeer(p, q) \/ Greet(p, q)
               \/ \E gone \in SUBSET Participants : EvictPeers(p, gone)
        PROVE MatchInv'
    BY <2>1, <2>2 DEF Start, Close, StorePeer, Greet, EvictPeers, userVars, remoteVars
  <2>3. ASSUME NEW p \in Participants, MatchReaders(p) PROVE MatchInv'
    <3> SUFFICES ASSUME NEW r \in Readers, NEW w \in Writers,
                        pc[r] \in {"scanned", "announced", "ready"},
                        w \in remoteWriters[Owner[r]], Topic[w] = Topic[r]
                 PROVE OnItsWay(r, w)'
      BY <2>3 DEF MatchReaders, MatchInv, userVars
    <3>1. OnItsWay(r, w)
      BY DEF MatchInv
    <3>2. CASE Owner[r] = p /\ scan[p] = w
      <4>1. r \in ReadersFor(p, scan[p])
        BY <3>2 DEF ReadersFor, Local
      <4> QED
        BY <2>3, <3>2, <4>1 DEF MatchReaders, OnItsWay, TypeOK
    <3>3. CASE ~(Owner[r] = p /\ scan[p] = w)
      BY <2>3, <3>1, <3>3 DEF MatchReaders, OnItsWay, TypeOK, userVars
    <3> QED
      BY <3>2, <3>3
  <2>4. ASSUME NEW p \in Participants, NEW w \in Writers, RecvWriter(p, w) PROVE MatchInv'
    BY <2>4 DEF RecvWriter, MatchInv, OnItsWay, TypeOK, userVars
  <2>5. ASSUME NEW p \in Participants, NEW r \in Readers, RecvReader(p, r) PROVE MatchInv'
    BY <2>1, <2>5 DEF RecvReader, MatchInv, OnItsWay, userVars
  <2>6. ASSUME NEW p \in Participants, NEW r \in Readers, NEW w \in Writers,
               ApplyMatch(p, r, w)
        PROVE MatchInv'
    <3> SUFFICES ASSUME NEW s \in Readers, NEW v \in Writers,
                        pc[s] \in {"scanned", "announced", "ready"},
                        v \in remoteWriters[Owner[s]], Topic[v] = Topic[s]
                 PROVE OnItsWay(s, v)'
      BY <2>6 DEF ApplyMatch, MatchInv, userVars, remoteVars
    <3>1. OnItsWay(s, v)
      BY DEF MatchInv
    <3>2. CASE s = r /\ v = w
      BY <2>6, <3>2 DEF ApplyMatch, OnItsWay, Dispatched, TypeOK
    <3>3. CASE ~(s = r /\ v = w)
      <4>1. <<s, v>> \in matches[Owner[s]] => <<s, v>> \in matches'[Owner[s]]
        BY <2>6, <3>3 DEF ApplyMatch, TypeOK
      <4>2. v \in sources[s] => v \in sources'[s]
        BY <2>6 DEF ApplyMatch, TypeOK
      <4> QED
        BY <2>6, <3>1, <4>1, <4>2 DEF ApplyMatch, OnItsWay, userVars, remoteVars
    <3> QED
      BY <3>2, <3>3
  <2>7. ASSUME NEW e \in Endpoints, Insert(e) PROVE MatchInv'
    BY <2>7 DEF Insert, MatchInv, OnItsWay, TypeOK, remoteVars
  <2>8. ASSUME NEW w \in Writers, AnnounceWriter(w) PROVE MatchInv'
    BY <2>8, EndpointsDisjoint
    DEF AnnounceWriter, Announce, MatchInv, OnItsWay, TypeOK, remoteVars
  <2>9. ASSUME NEW r \in Readers, AnnounceReader(r) PROVE MatchInv'
    BY <2>9 DEF AnnounceReader, Announce, MatchInv, OnItsWay, TypeOK, remoteVars
  <2>10. ASSUME NEW r \in Readers, ScanWriters(r) PROVE MatchInv'
    BY <2>10 DEF ScanWriters, MatchInv, OnItsWay, TypeOK, remoteVars
  <2>11. ASSUME NEW r \in Readers, AddSources(r) PROVE MatchInv'
    BY <2>11 DEF AddSources, MatchInv, OnItsWay, TypeOK, remoteVars
  <2>12. ASSUME NEW r \in Readers, Unsubscribe(r) PROVE MatchInv'
    BY <2>12 DEF Unsubscribe, MatchInv, OnItsWay, TypeOK, remoteVars
  <2>13. ASSUME NEW m \in net, Lose(m) PROVE MatchInv'
    BY <2>1, <2>13 DEF Lose
  <2>14. CASE UNCHANGED vars
    BY <2>1, <2>14 DEF vars
  <2> QED
    BY <2>2, <2>3, <2>4, <2>5, <2>6, <2>7, <2>8, <2>9, <2>10, <2>11, <2>12, <2>13, <2>14
    DEF Next, NewWriter, NewReader
<1>3. TypeOK /\ MatchInv => NoMissedMatch
  BY DEF MatchInv, NoMissedMatch, OnItsWay
<1> QED
  BY <1>1, <1>2, <1>3, TypeCorrect, PTL DEF Spec

-----------------------------------------------------------------------------

\* No interleaving of the registration of an endpoint with store_peer and the
\* peer listener leaves a known peer that is never told of the endpoint.
THEOREM AnnouncementNotMissed == Spec => []NoMissedAnnouncement
<1> USE OwnerType DEF Endpoints
<1>1. Init => NoMissedAnnouncement
  BY DEF Init, NoMissedAnnouncement
<1>2. TypeOK /\ NoMissedAnnouncement /\ [Next]_vars => NoMissedAnnouncement'
  <2> SUFFICES ASSUME TypeOK, NoMissedAnnouncement, [Next]_vars PROVE NoMissedAnnouncement'
    OBVIOUS
  <2>1. ASSUME UNCHANGED <<peers, greet, pc, told>> PROVE NoMissedAnnouncement'
    BY <2>1 DEF NoMissedAnnouncement
  <2>2. ASSUME NEW p \in Participants, Start(p) \/ Close(p) PROVE NoMissedAnnouncement'
    BY <2>1, <2>2 DEF Start, Close, Table!Start, Table!Close, userVars
  <2>3. ASSUME NEW p \in Participants, NEW q \in Participants, StorePeer(p, q)
        PROVE NoMissedAnnouncement'
    BY <2>3 DEF StorePeer, Table!Store, NoMissedAnnouncement, TypeOK, userVars
  <2>4. ASSUME NEW p \in Participants, NEW gone \in SUBSET Participants, EvictPeers(p, gone)
        PROVE NoMissedAnnouncement'
    BY <2>4 DEF EvictPeers, Table!Drop, NoMissedAnnouncement, TypeOK, userVars
  <2>5. ASSUME NEW p \in Participants, NEW q \in Participants, Greet(p, q)
        PROVE NoMissedAnnouncement'
    BY <2>5 DEF Greet, Tell, Local, NoMissedAnnouncement, TypeOK, userVars, tableVars
  <2>6. ASSUME NEW e \in Endpoints, NEW before, NEW after, Announce(e, before, after)
        PROVE NoMissedAnnouncement'
    BY <2>6 DEF Announce, Tell, NoMissedAnnouncement, TypeOK, tableVars
  <2>7. ASSUME NEW e \in Endpoints, Insert(e) PROVE NoMissedAnnouncement'
    BY <2>7 DEF Insert, NoMissedAnnouncement, TypeOK, tableVars
  <2>8. ASSUME NEW r \in Readers, ScanWriters(r) \/ AddSources(r) \/ Unsubscribe(r)
        PROVE NoMissedAnnouncement'
    BY <2>8 DEF ScanWriters, AddSources, Unsubscribe, NoMissedAnnouncement, TypeOK, tableVars
  <2>9. ASSUME \/ \E p \in Participants :
                    \/ MatchReaders(p)
                    \/ \E w \in Writers : RecvWriter(p, w)
                    \/ \E r \in Readers : RecvReader(p, r)
                    \/ \E r \in Readers, w \in Writers : ApplyMatch(p, r, w)
               \/ \E m \in net : Lose(m)
               \/ UNCHANGED vars
        PROVE NoMissedAnnouncement'
    BY <2>1, <2>9
    DEF MatchReaders, RecvWriter, RecvReader, ApplyMatch, Lose, vars, tableVars, userVars
  <2> QED
    BY <2>2, <2>3, <2>4, <2>5, <2>6, <2>7, <2>8, <2>9
    DEF Next, NewWriter, NewReader, AnnounceWriter, AnnounceReader
<1> QED
  BY <1>1, <1>2, TypeCorrect, PTL DEF Spec
=============================================================================
