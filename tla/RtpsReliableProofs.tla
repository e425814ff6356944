------------------------- MODULE RtpsReliableProofs -------------------------
(***************************************************************************)
(* Proofs about RtpsReliable for any numbers of readers, receive loops and *)
(* samples, any history depth, reorder limit and ACKNACK window, with and  *)
(* without multicast, over a network that loses, duplicates and reorders.  *)
(* Any number of calls of write may be inside at once; what is proved of   *)
(* the history holds as long as they have followed one another.            *)
(***************************************************************************)
EXTENDS RtpsReliable, WellFoundedInduction, TLAPS

-----------------------------------------------------------------------------
(* Numbers                                                                 *)

\* A set of numbers that is not empty has a least one.
LEMMA LeastNumber ==
    ASSUME NEW T, T \subseteq Nat, T # {}
    PROVE  \E n \in T : \A k \in T : n <= k
  <1> DEFINE R == OpToRel(<, Nat)
  <1>1. R = {ss \in Nat \X Nat : ss[1] < ss[2]}
    BY Zenon DEF OpToRel
  <1>2. PICK n \in T : \A k \in T : ~(<<k, n>> \in R)
    BY WFMin, NatLessThanWellFounded
  <1>3. ASSUME NEW k \in T PROVE n <= k
    <2> HIDE DEF R
    <2>1. <<k, n>> \notin {ss \in Nat \X Nat : ss[1] < ss[2]}
      BY <1>1, <1>2
    <2> QED BY <2>1
  <1> QED BY <1>3

\* Every number has a slot of the ring.
LEMMA SlotInRing ==
    ASSUME NEW n \in Nat PROVE n % HistoryDepth \in 0..(HistoryDepth - 1)
  BY HistoryDepthAssumption

\* Numbers less than the depth of the ring apart have different slots.
LEMMA SlotsDistinct ==
    ASSUME NEW a \in Nat, NEW b \in Nat, a < b, b - a < HistoryDepth
    PROVE  a % HistoryDepth # b % HistoryDepth
  <1> DEFINE D == HistoryDepth
             k == (b \div D) - (a \div D)
  <1>1. D \in Nat /\ D > 0
    BY HistoryDepthAssumption
  <1>2. a \div D \in Int /\ b \div D \in Int /\ a % D \in Int /\ b % D \in Int
    BY <1>1
  <1>3. a = D * (a \div D) + (a % D) /\ b = D * (b \div D) + (b % D)
    BY <1>1
  <1>4. SUFFICES ASSUME a % D = b % D PROVE FALSE
    OBVIOUS
  <1>5. b - a = D * k
    BY <1>1, <1>2, <1>3, <1>4
  <1>6. k \in Int
    BY <1>2
  <1> HIDE DEF k, D
  <1>7. CASE k >= 1
    <2>1. D * k >= D
      BY <1>1, <1>6, <1>7
    <2> QED BY <2>1, <1>5, <1>1 DEF D
  <1>8. CASE k <= 0
    <2>1. D * k <= 0
      BY <1>1, <1>6, <1>8
    <2> QED BY <2>1, <1>5, <1>1
  <1> QED BY <1>6, <1>7, <1>8

-----------------------------------------------------------------------------
(* RecvTracker                                                             *)

\* A tracker before its first contact is empty, and what it buffers lies
\* between its watermark and MAX_REORDER_AHEAD above it.
TrackerOK(t) ==
    /\ t \in Tracker
    /\ ~t.init => t = NewTracker
    /\ \A n \in t.ahead : t.expected < n /\ n <= t.expected + MaxReorderAhead

\* The watermark stops within MAX_REORDER_AHEAD of where it was: the CHOOSE of
\* Advance has a witness, the least number from start on that is not buffered.
LEMMA AdvanceStops ==
    ASSUME NEW ahead \in SUBSET Nat, NEW start \in Nat,
           \A n \in ahead : n <= start - 1 + MaxReorderAhead
    PROVE  Advance(ahead, start) \in Nat /\ StopsAt(ahead, start, Advance(ahead, start))
  <1> DEFINE T == {n \in Nat : n >= start /\ n \notin ahead}
  <1>1. start + MaxReorderAhead \in T
    BY MaxReorderAheadAssumption
  <1>2. PICK n \in T : \A k \in T : n <= k
    <2> HIDE DEF T
    <2>1. T \subseteq Nat BY DEF T
    <2> QED BY <1>1, <2>1, LeastNumber
  <1>3. n \in start..(start + MaxReorderAhead + 1)
    BY <1>1, <1>2, MaxReorderAheadAssumption
  <1>4. StopsAt(ahead, start, n)
    BY <1>2 DEF StopsAt
  <1>5. \E m \in start..(start + MaxReorderAhead + 1) : StopsAt(ahead, start, m)
    BY <1>3, <1>4
  <1>6. Advance(ahead, start) \in start..(start + MaxReorderAhead + 1)
        /\ StopsAt(ahead, start, Advance(ahead, start))
    BY <1>5, Zenon DEF Advance
  <1> QED BY <1>6, MaxReorderAheadAssumption

\* init_expected anchors a tracker once, with nothing buffered.
LEMMA InitExpectedOK ==
    ASSUME NEW t, TrackerOK(t), NEW first \in Nat
    PROVE  LET s == InitExpected(t, first) IN
           /\ TrackerOK(s) /\ s.init /\ s.ahead = t.ahead
           /\ s.expected = IF t.init THEN t.expected ELSE first
  <1> DEFINE s == InitExpected(t, first)
  <1>1. CASE t.init
    BY <1>1 DEF InitExpected, TrackerOK
  <1>2. CASE ~t.init
    <2>1. s = [t EXCEPT !.expected = first, !.init = TRUE]
      BY <1>2 DEF InitExpected
    <2>2. t \in Tracker /\ t.ahead = {}
      BY <1>2 DEF TrackerOK, NewTracker
    <2> HIDE DEF s
    <2>3. s \in Tracker /\ s.expected = first /\ s.init /\ s.ahead = {}
      BY <2>1, <2>2 DEF Tracker
    <2>4. TrackerOK(s)
      BY <2>3 DEF TrackerOK
    <2> QED BY <1>2, <2>2, <2>3, <2>4 DEF s
  <1> QED BY <1>1, <1>2

\* record keeps a tracker well formed, never moves the watermark back, and
\* accounts for no number but the recorded one that it did not account for.
LEMMA RecordOK ==
    ASSUME NEW t, TrackerOK(t), NEW n \in Nat
    PROVE  LET u == Record(t, n)
               w == IF t.init THEN t.expected ELSE n IN
           /\ TrackerOK(u) /\ u.init
           /\ u.expected >= w
           /\ \A k \in Nat : k >= w /\ k < u.expected => k = n \/ k \in t.ahead
           /\ u.ahead \subseteq t.ahead \cup {n}
  <1> DEFINE s == InitExpected(t, n)
             e == Advance(s.ahead, s.expected + 1)
             u == Record(t, n)
  <1>1. /\ TrackerOK(s) /\ s.init /\ s.ahead = t.ahead
        /\ s.expected = IF t.init THEN t.expected ELSE n
    BY InitExpectedOK
  <1>2. /\ s \in Tracker /\ s.expected \in Nat /\ s.ahead \in SUBSET Nat
        /\ \A k \in s.ahead : s.expected < k /\ k <= s.expected + MaxReorderAhead
    BY <1>1 DEF TrackerOK, Tracker
  <1>3. u = IF n = s.expected
            THEN [s EXCEPT !.expected = e, !.ahead = s.ahead \ ((s.expected + 1)..(e - 1))]
            ELSE IF n > s.expected /\ n - s.expected <= MaxReorderAhead
                 THEN [s EXCEPT !.ahead = s.ahead \cup {n}]
                 ELSE s
    BY DEF Record
  <1>4. e \in Nat /\ StopsAt(s.ahead, s.expected + 1, e)
    BY <1>2, AdvanceStops, MaxReorderAheadAssumption
  <1> HIDE DEF s, e, u
  <1>5. CASE n = s.expected
    <2>1. u \in Tracker /\ u.expected = e /\ u.init
          /\ u.ahead = s.ahead \ ((s.expected + 1)..(e - 1))
      BY <1>1, <1>2, <1>3, <1>4, <1>5 DEF Tracker
    <2>2. e > s.expected /\ e \notin s.ahead
          /\ \A k \in (s.expected + 1)..(e - 1) : k \in s.ahead
      BY <1>2, <1>4 DEF StopsAt
    <2>3. \A k \in u.ahead : e < k /\ k <= e + MaxReorderAhead
      BY <1>2, <1>4, <2>1, <2>2, MaxReorderAheadAssumption
    <2>4. TrackerOK(u)
      BY <2>1, <2>3 DEF TrackerOK
    <2> QED BY <1>1, <1>2, <1>4, <1>5, <2>1, <2>2, <2>4 DEF u
  <1>6. CASE n > s.expected /\ n - s.expected <= MaxReorderAhead
    <2>1. u \in Tracker /\ u.expected = s.expected /\ u.init /\ u.ahead = s.ahead \cup {n}
      BY <1>1, <1>2, <1>3, <1>6 DEF Tracker
    <2>2. TrackerOK(u)
      BY <1>2, <1>6, <2>1, MaxReorderAheadAssumption DEF TrackerOK
    <2> QED BY <1>1, <1>2, <1>6, <2>1, <2>2 DEF u
  <1>7. CASE n # s.expected /\ ~(n > s.expected /\ n - s.expected <= MaxReorderAhead)
    <2>1. u = s
      BY <1>3, <1>7
    <2> QED BY <1>1, <1>2, <1>7, <2>1 DEF u
  <1> QED BY <1>5, <1>6, <1>7

-----------------------------------------------------------------------------
(* Type correctness                                                        *)

DataMsgs      == [type : {"DATA"}, rd : Readers, sn : Nat]
HeartbeatMsgs == [type : {"HEARTBEAT"}, rd : Readers, first : Nat, last : Nat]
AckNackMsgs   == [type : {"ACKNACK"}, rd : Readers, base : Nat, missing : SUBSET Nat]
GapMsgs       == [type : {"GAP"}, rd : Readers, start : Nat, end : Int]

WritePcs == {"idle", "store", "remember", "flush", "send", "beat"}
LoopPcs  == {"idle", "nackData", "nackBeat", "dispatch"}

WriterType ==
    /\ seq \in Nat /\ acked \in Nat /\ lastSample \in Nat /\ disk \in Nat
    /\ hist \in SendHistory
    /\ wpc \in [Calls -> WritePcs] /\ wseq \in [Calls -> Nat]
    /\ overlapped \in BOOLEAN
    /\ asked \subseteq [ack : AckNackMsgs, first : Nat]

MatchType == matched \subseteq Readers /\ accepts \subseteq Readers

ReaderType ==
    /\ \A r \in Readers : TrackerOK(tracker[r])
    /\ tracker \in [Readers -> Tracker]
    /\ anchor \in [Readers -> Nat]
    /\ lpc \in [Readers -> [Loops -> LoopPcs]]
    /\ hand \in [Readers -> [Loops -> Nat]]
    /\ given \in [Readers -> SUBSET Nat]

NetType == net \subseteq DataMsgs \cup HeartbeatMsgs \cup AckNackMsgs \cup GapMsgs

TypeInv == WriterType /\ MatchType /\ ReaderType /\ NetType

LEMMA TypeInit == Init => TypeInv
  <1> SUFFICES ASSUME Init PROVE TypeInv
    OBVIOUS
  <1>1. NewSendHistory \in SendHistory
    BY DEF NewSendHistory, SendHistory
  <1>2. WriterType
    BY <1>1 DEF Init, WriterType, WritePcs
  <1>3. TrackerOK(NewTracker) /\ NewTracker \in Tracker
    BY DEF TrackerOK, NewTracker, Tracker
  <1>4. ReaderType
    BY <1>3 DEF Init, ReaderType, LoopPcs
  <1> QED BY <1>2, <1>4 DEF Init, TypeInv, MatchType, NetType

\* Storing a sample keeps the ring a ring.
LEMMA StoreType ==
    ASSUME NEW h \in SendHistory, NEW n \in Nat PROVE Store(h, n) \in SendHistory
  <1>1. StoredHighest(h, n) \in Nat
    BY DEF StoredHighest, SendHistory
  <1>2. StoredLowest(h, n) \in Nat
    BY <1>1, HistoryDepthAssumption DEF StoredLowest, SendHistory
  <1>3. [h.sn EXCEPT ![n % HistoryDepth] = n] \in [0..(HistoryDepth - 1) -> Nat]
    BY SlotInRing DEF SendHistory
  <1> QED BY <1>1, <1>2, <1>3 DEF Store, SendHistory

\* The calls of write, and the HEARTBEAT task.
LEMMA WriteTypes ==
    ASSUME TypeInv, NEW c \in Calls, Write(c) PROVE TypeInv'
  <1> USE DEF TypeInv, WriterType, MatchType, ReaderType, NetType,
              CallVars, PastVars, WriterVars, ReaderVars, MatchVars, At, Goto, WritePcs
  <1>1. CASE WriteClaim(c)
    BY <1>1 DEF WriteClaim
  <1>2. CASE WriteStore(c)
    <2>1. hist' \in SendHistory
      BY <1>2, StoreType DEF WriteStore
    <2> QED BY <1>2, <2>1 DEF WriteStore
  <1>3. CASE WriteRemember(c)
    BY <1>3 DEF WriteRemember
  <1>4. CASE WriteFlush(c)
    BY <1>4 DEF WriteFlush
  <1>5. CASE WriteSend(c)
    <2>1. {Data(r, wseq[c]) : r \in SendTargets} \subseteq DataMsgs
      BY DEF SendTargets, Data, DataMsgs
    <2> QED BY <1>5, <2>1 DEF WriteSend
  <1>6. CASE WriteBeat(c)
    <2>1. {Heartbeat(r, hist) : r \in matched} \subseteq HeartbeatMsgs
      BY DEF Heartbeat, HeartbeatMsgs, SendHistory
    <2> QED BY <1>6, <2>1 DEF WriteBeat, SendHeartbeat
  <1> QED BY <1>1, <1>2, <1>3, <1>4, <1>5, <1>6 DEF Write

LEMMA TickTypes ==
    ASSUME TypeInv, HeartbeatTick PROVE TypeInv'
  <1> USE DEF TypeInv, WriterType, MatchType, ReaderType, NetType,
              CallVars, PastVars, WriterVars, ReaderVars, MatchVars
  <1>1. {Heartbeat(r, hist) : r \in matched} \subseteq HeartbeatMsgs
    BY DEF Heartbeat, HeartbeatMsgs, SendHistory
  <1> QED BY <1>1 DEF HeartbeatTick, SendHeartbeat

\* What a reader does with a tracker keeps it well formed.
LEMMA TrackTypes ==
    ASSUME ReaderType, NEW r \in Readers, NEW t, TrackerOK(t), NEW n \in Nat, Track(r, t, n)
    PROVE  /\ \A q \in Readers : TrackerOK(tracker'[q])
           /\ tracker' \in [Readers -> Tracker]
           /\ anchor' \in [Readers -> Nat]
  <1>1. t \in Tracker
    BY DEF TrackerOK
  <1> QED BY <1>1 DEF Track, ReaderType

LEMMA LoopTypes ==
    ASSUME ReaderType, NEW r \in Readers, NEW l \in Loops, NEW pc \in LoopPcs,
           NEW n \in Nat, LoopGoto(r, l, pc, n)
    PROVE  lpc' \in [Readers -> [Loops -> LoopPcs]] /\ hand' \in [Readers -> [Loops -> Nat]]
  BY DEF LoopGoto, ReaderType

LEMMA LeftType == ASSUME NEW m PROVE Left(m) \subseteq net
  BY DEF Left

LEMMA ReceiveTypes ==
    ASSUME TypeInv, NEW r \in Readers, NEW l \in Loops, NEW m \in net, Receive(r, l, m)
    PROVE  TypeInv'
  <1> USE DEF TypeInv, CallVars, PastVars, WriterVars, ReaderVars, MatchVars
  <1>1. CASE RecvData(r, l, m)
    <2>1. m \in DataMsgs
      BY <1>1 DEF RecvData, NetType, DataMsgs, HeartbeatMsgs, AckNackMsgs, GapMsgs
    <2>2. m.sn \in Nat /\ TrackerOK(tracker[r])
      BY <2>1 DEF DataMsgs, ReaderType
    <2>3. TrackerOK(Record(tracker[r], m.sn))
      BY <2>2, RecordOK
    <2>4. ReaderType'
      <3>1. CASE r \in accepts
        <4>1. Track(r, Record(tracker[r], m.sn), m.sn) /\ LoopGoto(r, l, "nackData", m.sn)
          BY <1>1, <3>1 DEF RecvData
        <4> QED BY <1>1, <2>2, <2>3, <4>1, TrackTypes, LoopTypes DEF ReaderType, RecvData, LoopPcs
      <3>2. CASE r \notin accepts
        <4>1. UNCHANGED <<tracker, anchor>> /\ LoopGoto(r, l, "dispatch", m.sn)
          BY <1>1, <3>2 DEF RecvData
        <4> QED BY <1>1, <2>2, <4>1, LoopTypes DEF ReaderType, RecvData, LoopPcs
      <3> QED BY <3>1, <3>2
    <2> QED BY <1>1, <2>4, LeftType DEF RecvData, WriterType, MatchType, NetType
  <1>2. CASE RecvHeartbeat(r, l, m)
    <2>1. m \in HeartbeatMsgs
      BY <1>2 DEF RecvHeartbeat, NetType, DataMsgs, HeartbeatMsgs, AckNackMsgs, GapMsgs
    <2>2. m.first \in Nat /\ m.last \in Nat /\ TrackerOK(tracker[r])
      BY <2>1 DEF HeartbeatMsgs, ReaderType
    <2>3. TrackerOK(InitExpected(tracker[r], m.first))
      BY <2>2, InitExpectedOK
    <2>4. ReaderType' /\ net' = Left(m)
      <3>1. CASE r \in accepts
        <4>1. /\ Track(r, InitExpected(tracker[r], m.first), m.first)
              /\ LoopGoto(r, l, "nackBeat", m.last) /\ net' = Left(m) /\ given' = given
          BY <1>2, <3>1 DEF RecvHeartbeat
        <4> QED BY <2>2, <2>3, <4>1, TrackTypes, LoopTypes DEF ReaderType, LoopPcs
      <3>2. CASE r \notin accepts
        BY <1>2, <3>2 DEF RecvHeartbeat, Ignore, ReaderType
      <3> QED BY <3>1, <3>2
    <2> QED BY <1>2, <2>4, LeftType DEF RecvHeartbeat, WriterType, MatchType, NetType
  <1>3. CASE RecvGap(r, l, m)
    BY <1>3, LeftType DEF RecvGap, Ignore, WriterType, MatchType, NetType, ReaderType
  <1> QED BY <1>1, <1>2, <1>3 DEF Receive

\* An ACKNACK names the watermark and numbers that the tracker is missing.
LEMMA ReplyType ==
    ASSUME NEW r \in Readers, NEW t, TrackerOK(t), NEW last \in Nat
    PROVE  /\ Reply(r, t, last) \subseteq AckNackMsgs
           /\ \A m \in Reply(r, t, last) :
                  /\ m.type = "ACKNACK" /\ m.rd = r /\ t.init /\ m.base = t.expected
                  /\ \A n \in m.missing : n >= t.expected /\ n <= last
  <1>1. t.expected \in Nat
    BY DEF TrackerOK, Tracker
  <1>2. Missing(t, last) \in SUBSET Nat /\ (Missing(t, last) # {} => t.init)
        /\ \A n \in Missing(t, last) : n >= t.expected /\ n <= last
    BY <1>1, AckWindowAssumption DEF Missing
  <1> QED BY <1>1, <1>2 DEF Reply, AckNack, AckNackMsgs

LEMMA LoopStepTypes ==
    ASSUME TypeInv, NEW r \in Readers, NEW l \in Loops, SendAckNack(r, l) \/ Dispatch(r, l)
    PROVE  TypeInv'
  <1> USE DEF TypeInv, CallVars, PastVars, WriterVars, ReaderVars, MatchVars
  <1>1. hand[r][l] \in Nat /\ TrackerOK(tracker[r])
    BY DEF ReaderType
  <1>2. CASE SendAckNack(r, l)
    <2>1. lpc' \in [Readers -> [Loops -> LoopPcs]] /\ hand' \in [Readers -> [Loops -> Nat]]
      BY <1>1, <1>2, LoopTypes DEF SendAckNack, LoopPcs
    <2>2. NetType'
      BY <1>1, <1>2, ReplyType DEF SendAckNack, NetType
    <2> QED BY <1>2, <2>1, <2>2 DEF SendAckNack, WriterType, MatchType, ReaderType
  <1>3. CASE Dispatch(r, l)
    <2>1. lpc' \in [Readers -> [Loops -> LoopPcs]] /\ hand' \in [Readers -> [Loops -> Nat]]
      BY <1>1, <1>3, LoopTypes DEF Dispatch, LoopPcs
    <2>2. given' \in [Readers -> SUBSET Nat]
      BY <1>1, <1>3 DEF Dispatch, ReaderType
    <2> QED BY <1>3, <2>1, <2>2 DEF Dispatch, WriterType, MatchType, ReaderType, NetType
  <1> QED BY <1>2, <1>3

LEMMA AckTypes ==
    ASSUME TypeInv, (\E m \in net : RecvAckNack(m)) \/ AnswerAckNack PROVE TypeInv'
  <1> USE DEF TypeInv, CallVars, PastVars, WriterVars, ReaderVars, MatchVars
  <1>1. ASSUME NEW m \in net, RecvAckNack(m) PROVE TypeInv'
    <2>1. m \in AckNackMsgs
      BY <1>1 DEF RecvAckNack, NetType, DataMsgs, HeartbeatMsgs, AckNackMsgs, GapMsgs
    <2>2. acked' \in Nat
      BY <1>1, <2>1 DEF RecvAckNack, AdvanceAcked, AckNackMsgs, WriterType
    <2>3. asked' \subseteq [ack : AckNackMsgs, first : Nat]
      BY <1>1, <2>1 DEF RecvAckNack, WriterType, SendHistory
    <2> QED BY <1>1, <2>2, <2>3, LeftType
            DEF RecvAckNack, WriterType, MatchType, ReaderType, NetType
  <1>2. CASE AnswerAckNack
    <2>1. PICK q \in asked : net' = net \cup Retransmits(q.ack) \cup GapReplies(q.ack, q.first)
      BY <1>2 DEF AnswerAckNack
    <2>2. q.ack \in AckNackMsgs /\ q.first \in Nat
      BY <2>1 DEF WriterType
    <2>3. Retransmits(q.ack) \subseteq DataMsgs
      BY <2>2 DEF Retransmits, Data, DataMsgs, AckNackMsgs, MatchType
    <2>4. GapReplies(q.ack, q.first) \subseteq GapMsgs
      <3>1. q.ack.base \in Nat /\ q.ack.rd \in Readers
        BY <2>2 DEF AckNackMsgs
      <3>2. GapEnd(q.ack.base, q.first) \in Int
        BY <2>2, <3>1, AckWindowAssumption DEF GapEnd
      <3> QED BY <3>1, <3>2 DEF GapReplies, Gap, GapMsgs, MatchType
    <2> QED BY <1>2, <2>1, <2>3, <2>4
            DEF AnswerAckNack, WriterType, MatchType, ReaderType, NetType
  <1> QED BY <1>1, <1>2

LEMMA TypeStep == TypeInv /\ [Next]_vars => TypeInv'
  <1> SUFFICES ASSUME TypeInv, [Next]_vars PROVE TypeInv'
    OBVIOUS
  <1>1. ASSUME NEW r \in Readers, MatchReader(r) \/ MatchWriter(r) PROVE TypeInv'
    BY <1>1 DEF MatchReader, MatchWriter, TypeInv, WriterType, MatchType, ReaderType,
                NetType, CallVars, PastVars, WriterVars, ReaderVars, MatchVars
  <1>2. ASSUME NEW m \in net, Lose(m) PROVE TypeInv'
    BY <1>2 DEF Lose, TypeInv, WriterType, MatchType, ReaderType, NetType, CallVars,
                PastVars, WriterVars, ReaderVars, MatchVars
  <1>3. CASE UNCHANGED vars
    BY <1>3 DEF vars, TypeInv, WriterType, MatchType, ReaderType, NetType, CallVars,
                PastVars, WriterVars, ReaderVars, MatchVars
  <1> QED
    BY <1>1, <1>2, <1>3, WriteTypes, TickTypes, ReceiveTypes, LoopStepTypes, AckTypes DEF Next

\* However DATA and HEARTBEATs arrive, at whichever of a reader's receive loops,
\* the out-of-order buffer of its tracker lies strictly above the watermark and
\* within MAX_REORDER_AHEAD of it.
THEOREM ReorderBufferBounded == Spec => []ReorderBounded
  <1>1. TypeInv => ReorderBounded
    BY DEF TypeInv, ReaderType, ReorderBounded, TrackerOK
  <1> QED BY <1>1, TypeInit, TypeStep, PTL DEF Spec

-----------------------------------------------------------------------------
(* The watermark and what is acknowledged                                  *)

\* Only a reader that has matched the writer touches its tracker, and one that
\* is about to answer DATA has matched it; an anchor is set with the tracker.
ContactInv ==
    \A r \in Readers :
        /\ tracker[r].init => r \in accepts
        /\ ~tracker[r].init => anchor[r] = 0
        /\ \A l \in Loops : lpc[r][l] = "nackData" => r \in accepts

\* An ACKNACK in flight was sent by a tracker that has not gone back since, and
\* what is acknowledged lies below the watermark of some reader.
AckInv ==
    /\ \A m \in net : m.type = "ACKNACK" =>
          tracker[m.rd].init /\ m.base <= tracker[m.rd].expected
    /\ acked # 0 => \E r \in Readers : tracker[r].init /\ acked < tracker[r].expected

WatermarkInv == TypeInv /\ ContactInv /\ WatermarkSound /\ AckInv

\* What a step may do to a tracker: it never loses contact, and its watermark
\* never moves back.
TrackersGrow ==
    \A r \in Readers : tracker[r].init =>
        tracker'[r].init /\ tracker[r].expected <= tracker'[r].expected

LEMMA WatermarkInit == Init => WatermarkInv
  <1> SUFFICES ASSUME Init PROVE WatermarkInv
    OBVIOUS
  <1>1. ContactInv /\ WatermarkSound /\ AckInv
    BY DEF Init, ContactInv, WatermarkSound, AckInv, NewTracker, Received
  <1> QED BY <1>1, TypeInit DEF WatermarkInv

\* A step that leaves the readers alone and sends no ACKNACK.
LEMMA OtherStepInv ==
    ASSUME WatermarkInv, TypeInv', UNCHANGED ReaderVars, accepts \subseteq accepts',
           \A m \in net' : m \in net \/ m.type # "ACKNACK",
           acked' = acked
    PROVE  WatermarkInv' /\ TrackersGrow
  <1> USE DEF WatermarkInv, ReaderVars
  <1>1. ContactInv'
    BY DEF ContactInv
  <1>2. WatermarkSound'
    BY DEF WatermarkSound, Received
  <1>3. AckInv'
    BY DEF AckInv
  <1>4. TrackersGrow
    BY DEF TrackersGrow, TypeInv, ReaderType, Tracker
  <1> QED BY <1>1, <1>2, <1>3, <1>4

LEMMA WriteStepInv ==
    ASSUME WatermarkInv, TypeInv', (\E c \in Calls : Write(c)) \/ HeartbeatTick
    PROVE  WatermarkInv' /\ TrackersGrow
  <1> USE DEF WriterVars, CallVars, MatchVars
  <1>1. UNCHANGED ReaderVars /\ accepts' = accepts /\ acked' = acked
    BY DEF Write, WriteClaim, WriteStore, WriteRemember, WriteFlush, WriteSend, WriteBeat,
           HeartbeatTick
  <1>2. ASSUME NEW m \in net' PROVE m \in net \/ m.type # "ACKNACK"
    BY DEF Write, WriteClaim, WriteStore, WriteRemember, WriteFlush, WriteSend, WriteBeat,
           HeartbeatTick, SendHeartbeat, Data, Heartbeat
  <1> QED BY <1>1, <1>2, OtherStepInv

LEMMA MatchStepInv ==
    ASSUME WatermarkInv, TypeInv', NEW r \in Readers, MatchReader(r) \/ MatchWriter(r)
    PROVE  WatermarkInv' /\ TrackersGrow
  BY OtherStepInv DEF MatchReader, MatchWriter, WriterVars

LEMMA AnswerStepInv ==
    ASSUME WatermarkInv, TypeInv', AnswerAckNack \/ \E m \in net : Lose(m)
    PROVE  WatermarkInv' /\ TrackersGrow
  <1>1. CASE AnswerAckNack
    <2>1. ASSUME NEW m \in net' PROVE m \in net \/ m.type # "ACKNACK"
      BY <1>1 DEF AnswerAckNack, Retransmits, GapReplies, Data, Gap
    <2> QED BY <1>1, <2>1, OtherStepInv DEF AnswerAckNack, MatchVars
  <1>2. CASE \E m \in net : Lose(m)
    BY <1>2, OtherStepInv DEF Lose, WriterVars, MatchVars
  <1> QED BY <1>1, <1>2

\* advance_acked takes the number below a base that is no higher than the
\* watermark of the reader that sent it.
LEMMA RecvAckNackInv ==
    ASSUME WatermarkInv, TypeInv', NEW m \in net, RecvAckNack(m)
    PROVE  WatermarkInv' /\ TrackersGrow
  <1> USE DEF WatermarkInv
  <1>1. UNCHANGED <<MatchVars, ReaderVars>> /\ net' \subseteq net
    BY LeftType DEF RecvAckNack
  <1>2. m \in AckNackMsgs
    BY DEF RecvAckNack, TypeInv, NetType, DataMsgs, HeartbeatMsgs, AckNackMsgs, GapMsgs
  <1>3. /\ m.base \in Nat /\ m.rd \in Readers /\ tracker[m.rd].init
        /\ m.base <= tracker[m.rd].expected /\ tracker[m.rd].expected \in Nat
    BY <1>2 DEF AckNackMsgs, AckInv, TypeInv, ReaderType, Tracker
  <1>4. acked' = acked \/ (acked' = m.base - 1 /\ m.base # 0)
    BY DEF RecvAckNack, AdvanceAcked
  <1>5. AckInv'
    <2>1. acked' # 0 => \E r \in Readers : tracker[r].init /\ acked' < tracker[r].expected
      BY <1>3, <1>4 DEF AckInv
    <2> QED BY <1>1, <2>1 DEF AckInv, ReaderVars
  <1>6. ContactInv' /\ WatermarkSound'
    BY <1>1 DEF ContactInv, WatermarkSound, Received, ReaderVars, MatchVars
  <1>7. TrackersGrow
    BY <1>1 DEF TrackersGrow, TypeInv, ReaderType, Tracker, ReaderVars
  <1> QED BY <1>5, <1>6, <1>7

\* What follows from a step of one receive loop for the trackers and acked.
LEMMA AckKept ==
    ASSUME WatermarkInv, TypeInv', TrackersGrow, acked' = acked,
           \A m \in net' : m \in net \/
               (m.type = "ACKNACK" => tracker'[m.rd].init /\ m.base = tracker'[m.rd].expected)
    PROVE  AckInv'
  <1> USE DEF WatermarkInv, TypeInv, ReaderType, Tracker
  <1>1. ASSUME NEW m \in net', m.type = "ACKNACK"
        PROVE  tracker'[m.rd].init /\ m.base <= tracker'[m.rd].expected
    <2>1. m \in AckNackMsgs
      BY <1>1 DEF NetType, DataMsgs, HeartbeatMsgs, AckNackMsgs, GapMsgs
    <2>2. m.rd \in Readers /\ m.base \in Nat
      BY <2>1 DEF AckNackMsgs
    <2>3. tracker[m.rd].expected \in Nat /\ tracker'[m.rd].expected \in Nat
      BY <2>2
    <2> QED BY <1>1, <2>2, <2>3 DEF TrackersGrow, AckInv
  <1>2. ASSUME NEW r \in Readers, tracker[r].init, acked < tracker[r].expected
        PROVE  tracker'[r].init /\ acked' < tracker'[r].expected
    <2>1. tracker[r].expected \in Nat /\ tracker'[r].expected \in Nat /\ acked \in Nat
      BY DEF WriterType
    <2> QED BY <1>2, <2>1 DEF TrackersGrow
  <1> QED BY <1>1, <1>2 DEF AckInv

\* A loop that takes up a sample forgets none, and has received that one; one
\* that has none to dispatch may go on to anything.
LEMMA TakeUp ==
    ASSUME ReaderType, NEW r \in Readers, NEW l \in Loops, NEW n,
           lpc[r][l] \notin {"nackData", "dispatch"}, NEW pc, LoopGoto(r, l, pc, n),
           given' = given
    PROVE  /\ \A q \in Readers : Received(q) \subseteq Received(q)'
           /\ pc \in {"nackData", "dispatch"} => n \in Received(r)'
  <1> USE DEF ReaderType, LoopGoto
  <1>1. lpc'[r][l] = pc /\ hand'[r][l] = n
    OBVIOUS
  <1>2. ASSUME NEW q \in Readers, NEW k \in Loops, lpc[q][k] \in {"nackData", "dispatch"}
        PROVE  lpc'[q][k] = lpc[q][k] /\ hand'[q][k] = hand[q][k]
    BY <1>2
  <1>3. ASSUME NEW q \in Readers, NEW x \in Received(q) PROVE x \in Received(q)'
    <2>1. CASE x \in given[q]
      BY <2>1 DEF Received
    <2>2. ASSUME NEW k \in Loops, lpc[q][k] \in {"nackData", "dispatch"}, x = hand[q][k]
          PROVE  x \in Received(q)'
      BY <1>2, <2>2 DEF Received
    <2> QED BY <2>1, <2>2 DEF Received
  <1> QED BY <1>1, <1>3 DEF Received

\* A tracker that accounts for no more than before and for sample n.
LEMMA WatermarkMoves ==
    ASSUME WatermarkInv, NEW r \in Readers, NEW t, TrackerOK(t), NEW n \in Nat, Track(r, t, n),
           \A q \in Readers : Received(q) \subseteq Received(q)',
           LET w == IF tracker[r].init THEN tracker[r].expected ELSE n IN
           /\ \A k \in Nat : k >= w /\ k < t.expected => k \in tracker[r].ahead \cup Received(r)'
           /\ t.ahead \subseteq tracker[r].ahead \cup Received(r)'
    PROVE  WatermarkSound'
  <1> USE DEF WatermarkInv, TypeInv, ReaderType, Track
  <1>1. ASSUME NEW q \in Readers, q # r
        PROVE  anchor'[q]..(tracker'[q].expected - 1) \cup tracker'[q].ahead \subseteq Received(q)'
    BY <1>1 DEF WatermarkSound
  <1>2. tracker[r].ahead \subseteq Received(r)' /\ tracker'[r] = t
        /\ tracker[r].expected \in Nat /\ t.expected \in Nat /\ anchor[r] \in Nat
    BY DEF WatermarkSound, TrackerOK, Tracker
  <1>3. ASSUME NEW k \in anchor'[r]..(t.expected - 1) PROVE k \in Received(r)'
    <2>1. CASE tracker[r].init
      <3>1. anchor'[r] = anchor[r]
        BY <2>1
      <3>2. k \in Nat /\ k < t.expected /\ anchor[r] <= k
        BY <1>2, <3>1
      <3>3. CASE k < tracker[r].expected
        <4>1. k \in anchor[r]..(tracker[r].expected - 1)
          BY <1>2, <3>2, <3>3
        <4> QED BY <4>1 DEF WatermarkSound
      <3>4. CASE k >= tracker[r].expected
        BY <1>2, <2>1, <3>2, <3>4
      <3> QED BY <1>2, <3>2, <3>3, <3>4
    <2>2. CASE ~tracker[r].init
      <3>1. anchor'[r] = n
        BY <2>2
      <3> QED BY <1>2, <2>2, <3>1
    <2> QED BY <2>1, <2>2
  <1>4. anchor'[r]..(tracker'[r].expected - 1) \cup tracker'[r].ahead \subseteq Received(r)'
    BY <1>2, <1>3
  <1> QED BY <1>1, <1>4 DEF WatermarkSound

LEMMA RecvDataInv ==
    ASSUME WatermarkInv, TypeInv', NEW r \in Readers, NEW l \in Loops, NEW m \in net,
           RecvData(r, l, m)
    PROVE  WatermarkInv' /\ TrackersGrow
  <1> USE DEF WatermarkInv, TypeInv
  <1>1. m \in DataMsgs
    BY DEF RecvData, NetType, DataMsgs, HeartbeatMsgs, AckNackMsgs, GapMsgs
  <1>2. m.sn \in Nat /\ TrackerOK(tracker[r])
    BY <1>1 DEF DataMsgs, ReaderType
  <1>3. lpc[r][l] = "idle" /\ given' = given /\ accepts' = accepts /\ acked' = acked
        /\ net' \subseteq net
    BY LeftType DEF RecvData, LoopAt, WriterVars, MatchVars
  <1>4. CASE r \in accepts
    <2> DEFINE u == Record(tracker[r], m.sn)
    <2>1. Track(r, u, m.sn) /\ LoopGoto(r, l, "nackData", m.sn)
      BY <1>4 DEF RecvData
    <2>2. /\ TrackerOK(u) /\ u.init
          /\ LET w == IF tracker[r].init THEN tracker[r].expected ELSE m.sn IN
             /\ u.expected >= w
             /\ \A k \in Nat : k >= w /\ k < u.expected => k = m.sn \/ k \in tracker[r].ahead
             /\ u.ahead \subseteq tracker[r].ahead \cup {m.sn}
      BY <1>2, RecordOK
    <2> HIDE DEF u
    <2>3. (\A q \in Readers : Received(q) \subseteq Received(q)') /\ m.sn \in Received(r)'
      BY <1>3, <2>1, TakeUp
    <2>4. WatermarkSound'
      BY <1>2, <2>1, <2>2, <2>3, WatermarkMoves
    <2>5. TrackersGrow
      BY <2>1, <2>2 DEF Track, TrackersGrow, ReaderType, Tracker
    <2>6. ContactInv'
      BY <1>3, <1>4, <2>1, <2>2 DEF ContactInv, Track, LoopGoto, ReaderType
    <2>7. AckInv'
      BY <1>3, <2>5, AckKept
    <2> QED BY <2>4, <2>5, <2>6, <2>7
  <1>5. CASE r \notin accepts
    <2>1. UNCHANGED <<tracker, anchor>> /\ LoopGoto(r, l, "dispatch", m.sn)
      BY <1>5 DEF RecvData
    <2>2. \A q \in Readers : Received(q) \subseteq Received(q)'
      BY <1>3, <2>1, TakeUp
    <2>3. WatermarkSound'
      BY <2>1, <2>2 DEF WatermarkSound
    <2>4. TrackersGrow
      BY <2>1 DEF TrackersGrow, ReaderType, Tracker
    <2>5. ContactInv'
      BY <1>3, <2>1 DEF ContactInv, LoopGoto, ReaderType
    <2>6. AckInv'
      BY <1>3, <2>4, AckKept
    <2> QED BY <2>3, <2>4, <2>5, <2>6
  <1> QED BY <1>4, <1>5

LEMMA RecvHeartbeatInv ==
    ASSUME WatermarkInv, TypeInv', NEW r \in Readers, NEW l \in Loops, NEW m \in net,
           RecvHeartbeat(r, l, m)
    PROVE  WatermarkInv' /\ TrackersGrow
  <1> USE DEF WatermarkInv, TypeInv
  <1>1. m \in HeartbeatMsgs
    BY DEF RecvHeartbeat, NetType, DataMsgs, HeartbeatMsgs, AckNackMsgs, GapMsgs
  <1>2. m.first \in Nat /\ TrackerOK(tracker[r])
    BY <1>1 DEF HeartbeatMsgs, ReaderType
  <1>3. CASE r \in accepts
    <2> DEFINE u == InitExpected(tracker[r], m.first)
    <2>1. /\ Track(r, u, m.first) /\ LoopGoto(r, l, "nackBeat", m.last)
          /\ lpc[r][l] = "idle" /\ given' = given /\ accepts' = accepts /\ acked' = acked
          /\ net' \subseteq net
      BY <1>3, LeftType DEF RecvHeartbeat, LoopAt, WriterVars, MatchVars
    <2>2. /\ TrackerOK(u) /\ u.init /\ u.ahead = tracker[r].ahead
          /\ u.expected = IF tracker[r].init THEN tracker[r].expected ELSE m.first
      BY <1>2, InitExpectedOK
    <2> HIDE DEF u
    <2>3. \A q \in Readers : Received(q) \subseteq Received(q)'
      BY <2>1, TakeUp
    <2>4. tracker[r].expected \in Nat
      BY <1>2 DEF TrackerOK, Tracker
    <2>5. WatermarkSound'
      <3>1. LET w == IF tracker[r].init THEN tracker[r].expected ELSE m.first IN
            /\ \A k \in Nat : k >= w /\ k < u.expected
                                => k \in tracker[r].ahead \cup Received(r)'
            /\ u.ahead \subseteq tracker[r].ahead \cup Received(r)'
        BY <1>2, <2>2, <2>4
      <3> QED BY <1>2, <2>1, <2>2, <2>3, <3>1, WatermarkMoves
    <2>6. TrackersGrow
      BY <2>1, <2>2 DEF Track, TrackersGrow, ReaderType, Tracker
    <2>7. ContactInv'
      BY <1>3, <2>1, <2>2 DEF ContactInv, Track, LoopGoto, ReaderType
    <2>8. AckInv'
      BY <2>1, <2>6, AckKept
    <2> QED BY <2>5, <2>6, <2>7, <2>8
  <1>4. CASE r \notin accepts
    BY <1>4, LeftType, OtherStepInv DEF RecvHeartbeat, Ignore, WriterVars, MatchVars
  <1> QED BY <1>3, <1>4

LEMMA LoopStepInv ==
    ASSUME WatermarkInv, TypeInv', NEW r \in Readers, NEW l \in Loops,
           SendAckNack(r, l) \/ Dispatch(r, l)
    PROVE  WatermarkInv' /\ TrackersGrow
  <1> USE DEF WatermarkInv, TypeInv
  <1>1. UNCHANGED <<tracker, anchor, accepts, acked>>
    BY DEF SendAckNack, Dispatch, WriterVars, MatchVars
  <1>2. TrackersGrow
    BY <1>1 DEF TrackersGrow, ReaderType, Tracker
  <1>3. CASE SendAckNack(r, l)
    <2>1. hand[r][l] \in Nat /\ TrackerOK(tracker[r])
      BY DEF ReaderType
    <2>2. \A m \in net' : m \in net \/
               (m.type = "ACKNACK" => tracker'[m.rd].init /\ m.base = tracker'[m.rd].expected)
      BY <1>1, <1>3, <2>1, ReplyType DEF SendAckNack
    <2>3. AckInv'
      BY <1>1, <1>2, <2>2, AckKept
    <2>4. /\ given' = given
          /\ \A q \in Readers, k \in Loops :
                /\ lpc[q][k] \in {"nackData", "dispatch"} =>
                      lpc'[q][k] \in {"nackData", "dispatch"} /\ hand'[q][k] = hand[q][k]
                /\ lpc'[q][k] = "nackData" => lpc[q][k] = "nackData"
      <3>1. CASE LoopAt(r, l, "nackData") /\ LoopGoto(r, l, "dispatch", hand[r][l])
        BY <1>3, <3>1 DEF SendAckNack, LoopAt, LoopGoto, ReaderType
      <3>2. CASE LoopAt(r, l, "nackBeat") /\ LoopGoto(r, l, "idle", 0)
        BY <1>3, <3>2 DEF SendAckNack, LoopAt, LoopGoto, ReaderType
      <3> QED BY <1>3, <3>1, <3>2 DEF SendAckNack
    <2>5. \A q \in Readers : Received(q) \subseteq Received(q)'
      BY <2>4 DEF Received
    <2>6. WatermarkSound'
      BY <1>1, <2>5 DEF WatermarkSound
    <2>7. ContactInv'
      BY <1>1, <2>4 DEF ContactInv
    <2> QED BY <1>2, <2>3, <2>6, <2>7
  <1>4. CASE Dispatch(r, l)
    <2>1. lpc[r][l] = "dispatch" /\ LoopGoto(r, l, "idle", 0) /\ net' = net
      BY <1>4 DEF Dispatch, LoopAt
    <2>2. AckInv'
      BY <1>1, <1>2, <2>1, AckKept
    <2>3. ContactInv'
      BY <1>1, <2>1 DEF ContactInv, LoopGoto, ReaderType
    <2>4. ASSUME NEW q \in Readers, q # r \/ r \in accepts
          PROVE  Received(q) \subseteq Received(q)'
      <3>1. given[q] \subseteq given'[q]
        BY <1>4, <2>4 DEF Dispatch, ReaderType
      <3>2. ASSUME NEW k \in Loops, lpc[q][k] \in {"nackData", "dispatch"}, q # r \/ k # l
            PROVE  lpc'[q][k] = lpc[q][k] /\ hand'[q][k] = hand[q][k]
        BY <2>1, <3>2 DEF LoopGoto, ReaderType
      <3>3. q = r => hand[r][l] \in given'[q]
        BY <1>4, <2>4 DEF Dispatch, ReaderType
      <3> QED BY <3>1, <3>2, <3>3 DEF Received
    <2>5. ASSUME NEW q \in Readers
          PROVE  anchor'[q]..(tracker'[q].expected - 1) \cup tracker'[q].ahead
                     \subseteq Received(q)'
      <3>1. CASE q # r \/ r \in accepts
        BY <1>1, <2>4, <3>1 DEF WatermarkSound
      <3>2. CASE r \notin accepts
        <4>1. ~tracker[r].init /\ anchor[r] = 0
          BY <3>2 DEF ContactInv
        <4>2. tracker[r] = NewTracker
          BY <4>1 DEF ReaderType, TrackerOK
        <4>3. q = r => anchor'[q]..(tracker'[q].expected - 1) \cup tracker'[q].ahead = {}
          BY <1>1, <4>1, <4>2 DEF NewTracker
        <4> QED BY <3>1, <4>3
      <3> QED BY <3>1, <3>2
    <2>6. WatermarkSound'
      BY <2>5 DEF WatermarkSound
    <2> QED BY <1>2, <2>2, <2>3, <2>6
  <1> QED BY <1>3, <1>4

LEMMA WatermarkStep == WatermarkInv /\ [Next]_vars => WatermarkInv' /\ TrackersGrow
  <1> SUFFICES ASSUME WatermarkInv, [Next]_vars PROVE WatermarkInv' /\ TrackersGrow
    OBVIOUS
  <1>1. TypeInv'
    BY TypeStep DEF WatermarkInv
  <1>2. ASSUME NEW r \in Readers, NEW l \in Loops, NEW m \in net, Receive(r, l, m)
        PROVE  WatermarkInv' /\ TrackersGrow
    <2>1. CASE RecvGap(r, l, m)
      BY <1>1, <2>1, LeftType, OtherStepInv DEF RecvGap, Ignore, WriterVars, MatchVars
    <2> QED BY <1>1, <1>2, <2>1, RecvDataInv, RecvHeartbeatInv DEF Receive
  <1>3. CASE UNCHANGED vars
    BY <1>1, <1>3, OtherStepInv DEF vars, WriterVars, MatchVars, ReaderVars
  <1> QED
    BY <1>1, <1>2, <1>3, WriteStepInv, MatchStepInv, AnswerStepInv, RecvAckNackInv, LoopStepInv
       DEF Next

\* However datagrams are lost, repeated and reordered, and however the receive
\* loops of a reader interleave, record never counts a sample as received that
\* has not been dispatched and is not about to be.
THEOREM WatermarkIsSound == Spec => []WatermarkSound
  <1>1. WatermarkInv => WatermarkSound
    BY DEF WatermarkInv
  <1> QED BY <1>1, WatermarkInit, WatermarkStep, PTL DEF Spec

\* advance_acked never acknowledges what no reader has: some reader has
\* received everything from its anchor up to the writer's acked number, however
\* old the ACKNACKs are that arrive.
THEOREM AcknowledgedIsReceived == Spec => []AckedSound
  <1>1. ASSUME WatermarkInv PROVE AckedSound
    <2> USE <1>1 DEF WatermarkInv, TypeInv
    <2>1. SUFFICES ASSUME acked # 0
          PROVE  \E r \in Readers : /\ tracker[r].init /\ acked < tracker[r].expected
                                   /\ anchor[r]..acked \subseteq Received(r)
      BY DEF AckedSound
    <2>2. PICK r \in Readers : tracker[r].init /\ acked < tracker[r].expected
      BY <2>1 DEF AckInv
    <2>3. tracker[r].expected \in Nat /\ anchor[r] \in Nat /\ acked \in Nat
      BY DEF ReaderType, Tracker, WriterType
    <2>4. anchor[r]..acked \subseteq anchor[r]..(tracker[r].expected - 1)
      BY <2>2, <2>3
    <2> QED BY <2>2, <2>4 DEF WatermarkSound
  <1> QED BY <1>1, WatermarkInit, WatermarkStep, PTL DEF Spec

\* The watermark of a tracker never moves back and its contact is never undone,
\* whatever late or repeated DATA and HEARTBEATs it sees: InitExpected anchors
\* once, record only advances.
THEOREM WatermarkNeverMovesBack == Spec => [][TrackersGrow]_vars
  <1> QED BY WatermarkInit, WatermarkStep, PTL DEF Spec

-----------------------------------------------------------------------------
(* Calls of write that follow one another: the history and what readers    *)
(* ask for.                                                                *)

\* A ring that holds exactly its last HistoryDepth numbers.
WindowOK(h) ==
    /\ h.any <=> h.highest > 0
    /\ h.any => h.lowest = IF h.highest > HistoryDepth
                           THEN h.highest - HistoryDepth + 1 ELSE 1
    /\ h.any => \A n \in h.lowest..h.highest : Retrievable(h, n)

\* Storing the next number evicts the oldest one and no other: the slot that is
\* overwritten is the one that falls out of the window.
LEMMA StoreNext ==
    ASSUME NEW h \in SendHistory, WindowOK(h)
    PROVE  LET g == Store(h, h.highest + 1) IN
           WindowOK(g) /\ g.any /\ g.highest = h.highest + 1
  <1> DEFINE n == h.highest + 1
             g == Store(h, n)
             D == HistoryDepth
  <1>1. /\ h.highest \in Nat /\ h.lowest \in Nat /\ h.any \in BOOLEAN
        /\ h.sn \in [0..(D - 1) -> Nat] /\ D \in Nat /\ D > 0
    BY HistoryDepthAssumption DEF SendHistory
  <1>2. g.highest = n /\ g.any
    BY <1>1 DEF Store, StoredHighest
  <1>3. g.lowest = IF n > D THEN n - D + 1 ELSE 1
    <2>1. StoredHighest(h, n) = n
      BY <1>1 DEF StoredHighest
    <2>2. CASE h.any
      BY <1>1, <2>1, <2>2 DEF Store, StoredLowest, WindowOK
    <2>3. CASE ~h.any
      <3>1. n = 1
        BY <1>1, <2>3 DEF WindowOK
      <3> QED BY <1>1, <2>1, <2>3, <3>1 DEF Store, StoredLowest
    <2> QED BY <2>2, <2>3
  <1>4. g.sn = [h.sn EXCEPT ![n % D] = n]
    BY DEF Store
  <1> HIDE DEF g
  <1>5. g.lowest \in Nat /\ g.lowest >= 1
    BY <1>1, <1>3
  <1>6. ASSUME NEW k \in g.lowest..n PROVE g.sn[k % D] = k
    <2>1. k \in Nat /\ n \in Nat /\ k >= g.lowest
      BY <1>1, <1>5
    <2>2. k % D \in 0..(D - 1) /\ n % D \in 0..(D - 1)
      BY <2>1, SlotInRing
    <2>3. CASE k = n
      BY <1>1, <1>4, <2>1, <2>2, <2>3
    <2>4. CASE k < n
      <3>1. n - k < D
        BY <1>1, <1>3, <2>1, <2>4
      <3>2. k % D # n % D
        BY <2>1, <2>4, <3>1, SlotsDistinct
      <3>3. g.sn[k % D] = h.sn[k % D]
        BY <1>1, <1>4, <2>2, <3>2
      <3>4. h.any
        <4>1. h.highest > 0
          BY <1>1, <1>5, <2>1, <2>4
        <4> QED BY <4>1 DEF WindowOK
      <3>5. h.lowest = IF h.highest > D THEN h.highest - D + 1 ELSE 1
        BY <3>4 DEF WindowOK
      <3>6. k \in h.lowest..h.highest
        BY <1>1, <1>3, <1>5, <2>1, <2>4, <3>5
      <3> QED BY <3>3, <3>4, <3>6 DEF WindowOK, Retrievable
    <2> QED BY <1>1, <1>5, <2>3, <2>4
  <1>7. ASSUME NEW k \in g.lowest..n PROVE Retrievable(g, k)
    BY <1>1, <1>2, <1>5, <1>6, <1>7 DEF Retrievable
  <1> QED BY <1>1, <1>2, <1>3, <1>7 DEF WindowOK, g

\* At most one call is inside, it has the last number, and where it is decides
\* whether that number is stored.
WriteInv ==
    /\ \A c \in Calls : wpc[c] # "idle" => wseq[c] = seq /\ seq > 0
    /\ \A c, d \in Calls : wpc[c] # "idle" /\ wpc[d] # "idle" => c = d
    /\ \A c \in Calls : wpc[c] = "store" => hist.highest = seq - 1
    /\ (\A c \in Calls : wpc[c] # "store") => hist.highest = seq
    /\ WindowOK(hist)

\* The numbers in a datagram are those of samples stored up to top.
NamesStored(m, top) ==
    /\ m.type = "DATA" => 1 <= m.sn /\ m.sn <= top
    /\ m.type = "HEARTBEAT" => 1 <= m.first /\ m.last <= top
    /\ m.type = "ACKNACK" => \A n \in m.missing : 1 <= n /\ n <= top

\* Every number in a datagram, in the hands of a receive loop or in a request is
\* that of a stored sample, and a watermark with contact is not 0.
RequestInv ==
    /\ \A m \in net : NamesStored(m, hist.highest)
    /\ \A r \in Readers :
          /\ tracker[r].init => 1 <= tracker[r].expected
          /\ \A l \in Loops : hand[r][l] <= hist.highest

SerialInv == TypeInv /\ WriteInv /\ RequestInv

LEMMA SerialInit == ASSUME Init PROVE SerialInv
  <1>1. WriteInv
    BY DEF Init, WriteInv, WindowOK, NewSendHistory
  <1>2. RequestInv
    BY DEF Init, RequestInv, NewTracker, NewSendHistory
  <1> QED BY <1>1, <1>2, TypeInit DEF SerialInv

\* What is stored stays stored: a later end of the history names no less.
LEMMA StillStored ==
    ASSUME TypeInv, NEW m \in net, NEW a \in Nat, NEW b \in Nat, a <= b, NamesStored(m, a)
    PROVE  NamesStored(m, b)
  <1>1. m \in DataMsgs \cup HeartbeatMsgs \cup AckNackMsgs \cup GapMsgs
    BY DEF TypeInv, NetType
  <1>2. CASE m.type = "DATA"
    BY <1>1, <1>2 DEF NamesStored, DataMsgs, HeartbeatMsgs, AckNackMsgs, GapMsgs
  <1>3. CASE m.type = "HEARTBEAT"
    BY <1>1, <1>3 DEF NamesStored, DataMsgs, HeartbeatMsgs, AckNackMsgs, GapMsgs
  <1>4. CASE m.type = "ACKNACK"
    BY <1>1, <1>4 DEF NamesStored, DataMsgs, HeartbeatMsgs, AckNackMsgs, GapMsgs
  <1> QED BY <1>2, <1>3, <1>4 DEF NamesStored

\* Only the write call changes what WriteInv is about.
LEMMA WriteFrame ==
    ASSUME SerialInv, UNCHANGED CallVars PROVE WriteInv'
  BY DEF SerialInv, WriteInv, CallVars, WindowOK, Retrievable

LEMMA SerialWrite ==
    ASSUME NEW c \in Calls, SerialInv, TypeInv', Write(c), ~overlapped' PROVE SerialInv'
  <1> USE DEF SerialInv, WriteInv
  <1>1. /\ seq \in Nat /\ hist \in SendHistory
        /\ wpc \in [Calls -> WritePcs] /\ wseq \in [Calls -> Nat] /\ hist.highest \in Nat
    BY DEF TypeInv, WriterType, SendHistory
  <1>2. ASSUME UNCHANGED ReaderVars,
               hist'.highest = hist.highest \/ hist'.highest = hist.highest + 1,
               \A m \in net' : m \in net \/ NamesStored(m, hist'.highest)
        PROVE  RequestInv'
    <2>1. ASSUME NEW m \in net' PROVE NamesStored(m, hist'.highest)
      BY <1>1, <1>2, StillStored DEF RequestInv
    <2>2. ASSUME NEW r \in Readers, NEW l \in Loops PROVE hand'[r][l] <= hist'.highest
      <3>1. hand[r][l] \in Nat
        BY DEF TypeInv, ReaderType
      <3> QED BY <1>1, <1>2, <3>1 DEF RequestInv, ReaderVars
    <2>3. \A m \in net' : NamesStored(m, hist.highest)'
      BY <2>1 DEF NamesStored
    <2> QED BY <1>2, <2>2, <2>3 DEF RequestInv, ReaderVars
  <1>3. CASE WriteClaim(c)
    <2>1. \A d \in Calls : wpc[d] = "idle"
      BY <1>3, Zenon DEF WriteClaim, At
    <2>2. /\ seq' = seq + 1 /\ wseq' = [wseq EXCEPT ![c] = seq + 1]
          /\ wpc' = [wpc EXCEPT ![c] = "store"] /\ hist' = hist /\ UNCHANGED ReaderVars
          /\ net' = net
      BY <1>3 DEF WriteClaim, Goto
    <2>3. WindowOK(hist)'
      BY <2>2 DEF WindowOK, Retrievable
    <2>4. hist.highest = seq
      BY <2>1
    <2>5. \A d \in Calls : wpc'[d] # "idle" => d = c /\ wpc'[d] = "store" /\ wseq'[d] = seq'
      BY <1>1, <2>1, <2>2
    <2>6. wpc'[c] = "store"
      BY <1>1, <2>2
    <2>7. WriteInv'
      BY <1>1, <2>2, <2>3, <2>4, <2>5, <2>6
    <2> QED BY <1>2, <2>2, <2>7
  <1>31. ASSUME NEW pc \in WritePcs \ {"idle"}, At(c, pc), NEW next \in WritePcs \ {"store"},
                Goto(c, next)
         PROVE  /\ wseq[c] = seq /\ seq > 0 /\ wpc'[c] = next
                /\ \A d \in Calls : d # c => wpc[d] = "idle" /\ wpc'[d] = "idle"
                /\ hist.highest = IF pc = "store" THEN seq - 1 ELSE seq
    BY <1>1, <1>31 DEF At, Goto
  <1>32. ASSUME NEW pc \in {"remember", "flush", "send", "beat"}, At(c, pc),
                NEW next \in WritePcs \ {"store"}, Goto(c, next),
                UNCHANGED <<seq, hist>>, next # "idle" => wseq' = wseq
         PROVE  WriteInv'
    <2>1. /\ wseq[c] = seq /\ seq > 0 /\ wpc'[c] = next
          /\ \A d \in Calls : d # c => wpc'[d] = "idle"
          /\ hist.highest = seq
      BY <1>31, <1>32 DEF WritePcs
    <2>2. WindowOK(hist)'
      BY <1>32 DEF WindowOK, Retrievable
    <2> QED BY <1>32, <2>1, <2>2
  <1>4. CASE WriteStore(c)
    <2>1. At(c, "store") /\ Goto(c, "remember") /\ hist' = Store(hist, wseq[c])
          /\ UNCHANGED <<seq, wseq>> /\ UNCHANGED ReaderVars /\ net' = net
      BY <1>4 DEF WriteStore
    <2>2. /\ wseq[c] = seq /\ seq > 0 /\ wpc'[c] = "remember"
          /\ \A d \in Calls : d # c => wpc'[d] = "idle"
          /\ hist.highest = seq - 1
      BY <1>31, <2>1 DEF WritePcs
    <2>3. hist' = Store(hist, hist.highest + 1) /\ hist.highest + 1 = seq
      BY <1>1, <2>1, <2>2
    <2>4. WindowOK(hist') /\ hist'.highest = seq
      BY <1>1, <2>3, StoreNext
    <2>5. WindowOK(hist)'
      BY <2>4 DEF WindowOK, Retrievable
    <2>6. WriteInv'
      BY <2>1, <2>2, <2>4, <2>5
    <2> QED BY <1>1, <1>2, <2>1, <2>3, <2>4, <2>6
  <1>5. CASE WriteRemember(c)
    <2>1. WriteInv'
      BY <1>5, <1>32 DEF WriteRemember, WritePcs
    <2> QED BY <1>2, <1>5, <2>1 DEF WriteRemember
  <1>6. CASE WriteFlush(c)
    <2>1. WriteInv'
      BY <1>6, <1>32 DEF WriteFlush, WritePcs
    <2> QED BY <1>2, <1>6, <2>1 DEF WriteFlush
  <1>7. CASE WriteSend(c)
    <2>1. WriteInv'
      BY <1>7, <1>32 DEF WriteSend, WritePcs
    <2>2. 1 <= wseq[c] /\ wseq[c] <= hist.highest
      BY <1>1, <1>7, <1>31 DEF WriteSend, WritePcs
    <2>3. RequestInv'
      BY <1>2, <1>7, <2>2 DEF WriteSend, Data, NamesStored
    <2> QED BY <2>1, <2>3
  <1>8. CASE WriteBeat(c)
    <2>1. WriteInv'
      BY <1>8, <1>32 DEF WriteBeat, WritePcs
    <2>2. hist.any => 1 <= hist.lowest
      BY <1>1, HistoryDepthAssumption DEF WindowOK
    <2>3. RequestInv'
      BY <1>1, <1>2, <1>8, <2>2 DEF WriteBeat, SendHeartbeat, Heartbeat, NamesStored
    <2> QED BY <2>1, <2>3
  <1> QED BY <1>3, <1>4, <1>5, <1>6, <1>7, <1>8 DEF Write

\* A step of another task: it leaves the write call alone.
LEMMA SerialOther ==
    ASSUME SerialInv, TypeInv', UNCHANGED CallVars,
           \A m \in net' : m \in net \/ NamesStored(m, hist.highest),
           \A r \in Readers :
               /\ tracker'[r].init => 1 <= tracker'[r].expected
               /\ \A l \in Loops : hand'[r][l] <= hist.highest
    PROVE  SerialInv'
  <1> USE DEF SerialInv
  <1>1. WriteInv'
    BY WriteFrame
  <1>2. hist' = hist
    BY DEF CallVars
  <1>3. \A m \in net' : NamesStored(m, hist.highest)'
    BY <1>2 DEF RequestInv, NamesStored
  <1>4. RequestInv'
    BY <1>2, <1>3 DEF RequestInv
  <1> QED BY <1>1, <1>4

LEMMA SerialAnswer ==
    ASSUME SerialInv, TypeInv',
           HeartbeatTick \/ AnswerAckNack \/ (\E m \in net : RecvAckNack(m) \/ Lose(m))
             \/ \E r \in Readers : MatchReader(r) \/ MatchWriter(r)
    PROVE  SerialInv'
  <1>1. UNCHANGED CallVars /\ UNCHANGED ReaderVars
    BY DEF HeartbeatTick, AnswerAckNack, RecvAckNack, Lose, MatchReader, MatchWriter, WriterVars
  <1>2. hist.any => 1 <= hist.lowest /\ hist.lowest \in Nat /\ hist.highest \in Nat
    BY HistoryDepthAssumption
       DEF SerialInv, WriteInv, WindowOK, TypeInv, WriterType, SendHistory
  <1>3. ASSUME NEW m \in net' PROVE m \in net \/ NamesStored(m, hist.highest)
    <2>1. CASE HeartbeatTick
      <3>1. CASE hist.any
        BY <1>2, <2>1, <3>1 DEF HeartbeatTick, SendHeartbeat, Heartbeat, NamesStored
      <3>2. CASE ~hist.any
        BY <2>1, <3>2 DEF HeartbeatTick, SendHeartbeat
      <3> QED BY <3>1, <3>2
    <2>2. CASE AnswerAckNack
      <3>1. PICK q \in asked : net' = net \cup Retransmits(q.ack) \cup GapReplies(q.ack, q.first)
        BY <2>2 DEF AnswerAckNack
      <3>2. CASE m \in Retransmits(q.ack)
        <4>1. PICK r \in matched, n \in q.ack.missing : m = Data(r, n) /\ Retrievable(hist, n)
          BY <3>2 DEF Retransmits
        <4>2. n \in Nat
          BY <4>1, <3>1 DEF SerialInv, TypeInv, WriterType, AckNackMsgs
        <4> QED BY <1>2, <4>1, <4>2 DEF Retrievable, Data, NamesStored
      <3>3. CASE m \in GapReplies(q.ack, q.first)
        BY <3>3 DEF GapReplies, Gap, NamesStored
      <3> QED BY <3>1, <3>2, <3>3
    <2>3. CASE (\E q \in net : RecvAckNack(q) \/ Lose(q))
               \/ \E r \in Readers : MatchReader(r) \/ MatchWriter(r)
      BY <2>3, LeftType DEF RecvAckNack, Lose, MatchReader, MatchWriter
    <2> QED BY <2>1, <2>2, <2>3
  <1> QED BY <1>1, <1>3, SerialOther DEF SerialInv, RequestInv, ReaderVars

LEMMA SerialReader ==
    ASSUME SerialInv, TypeInv', NEW r \in Readers, NEW l \in Loops,
           SendAckNack(r, l) \/ Dispatch(r, l) \/ \E m \in net : Receive(r, l, m)
    PROVE  SerialInv'
  <1> USE DEF SerialInv, TypeInv
  <1>1. UNCHANGED CallVars
    BY DEF SendAckNack, Dispatch, Receive, RecvData, RecvHeartbeat, RecvGap, WriterVars
  <1>2. hist.highest \in Nat /\ hand[r][l] \in Nat /\ TrackerOK(tracker[r])
        /\ tracker[r].expected \in Nat
    BY DEF WriterType, SendHistory, ReaderType, Tracker
  <1>3. ASSUME NEW n \in Nat, n <= hist.highest, NEW pc, LoopGoto(r, l, pc, n)
        PROVE  \A q \in Readers, k \in Loops : hand'[q][k] <= hist.highest
    BY <1>3 DEF LoopGoto, ReaderType, RequestInv
  <1>4. CASE SendAckNack(r, l)
    <2>1. \A q \in Readers, k \in Loops : hand'[q][k] <= hist.highest
      <3>1. hand[r][l] <= hist.highest
        BY DEF RequestInv
      <3> QED BY <1>2, <1>3, <1>4, <3>1 DEF SendAckNack
    <2>2. ASSUME NEW m \in Reply(r, tracker[r], hand[r][l]) PROVE NamesStored(m, hist.highest)
      <3>1. /\ m.type = "ACKNACK" /\ tracker[r].init /\ m.missing \in SUBSET Nat
            /\ \A n \in m.missing : n >= tracker[r].expected /\ n <= hand[r][l]
        BY <1>2, ReplyType DEF AckNackMsgs
      <3>2. 1 <= tracker[r].expected /\ hand[r][l] <= hist.highest
        BY <3>1 DEF RequestInv
      <3>3. \A n \in m.missing : 1 <= n /\ n <= hist.highest
        BY <1>2, <3>1, <3>2
      <3> QED BY <3>1, <3>3 DEF NamesStored
    <2>3. \A m \in net' : m \in net \/ NamesStored(m, hist.highest)
      BY <1>4, <2>2 DEF SendAckNack
    <2> QED BY <1>1, <1>4, <2>1, <2>3, SerialOther DEF SendAckNack, RequestInv
  <1>5. CASE Dispatch(r, l)
    <2>1. \A q \in Readers, k \in Loops : hand'[q][k] <= hist.highest
      BY <1>2, <1>3, <1>5 DEF Dispatch
    <2> QED BY <1>1, <1>5, <2>1, SerialOther DEF Dispatch, RequestInv
  <1>6. ASSUME NEW m \in net, RecvData(r, l, m) PROVE SerialInv'
    <2>1. m \in DataMsgs /\ m.type = "DATA"
      BY <1>6 DEF RecvData, NetType, DataMsgs, HeartbeatMsgs, AckNackMsgs, GapMsgs
    <2>2. m.sn \in Nat /\ 1 <= m.sn /\ m.sn <= hist.highest
      BY <2>1 DEF DataMsgs, RequestInv, NamesStored
    <2>3. \A q \in Readers, k \in Loops : hand'[q][k] <= hist.highest
      BY <1>3, <1>6, <2>2 DEF RecvData
    <2>4. Record(tracker[r], m.sn).expected \in Nat
          /\ Record(tracker[r], m.sn).expected >=
                 IF tracker[r].init THEN tracker[r].expected ELSE m.sn
      BY <1>2, <2>2, RecordOK DEF TrackerOK, Tracker
    <2>5. \A q \in Readers : tracker'[q].init => 1 <= tracker'[q].expected
      <3>1. 1 <= Record(tracker[r], m.sn).expected
        BY <1>2, <2>2, <2>4 DEF RequestInv
      <3>2. tracker' = tracker \/ tracker' = [tracker EXCEPT ![r] = Record(tracker[r], m.sn)]
        BY <1>6 DEF RecvData, Track
      <3> QED BY <3>1, <3>2 DEF ReaderType, RequestInv
    <2> QED BY <1>1, <1>6, <2>3, <2>5, LeftType, SerialOther DEF RecvData
  <1>7. ASSUME NEW m \in net, RecvHeartbeat(r, l, m), r \in accepts PROVE SerialInv'
    <2>1. m \in HeartbeatMsgs /\ m.type = "HEARTBEAT"
      BY <1>7 DEF RecvHeartbeat, NetType, DataMsgs, HeartbeatMsgs, AckNackMsgs, GapMsgs
    <2>2. m.first \in Nat /\ m.last \in Nat /\ 1 <= m.first /\ m.last <= hist.highest
      BY <2>1 DEF HeartbeatMsgs, RequestInv, NamesStored
    <2>3. \A q \in Readers, k \in Loops : hand'[q][k] <= hist.highest
      BY <1>3, <1>7, <2>2 DEF RecvHeartbeat
    <2>4. InitExpected(tracker[r], m.first).expected =
              IF tracker[r].init THEN tracker[r].expected ELSE m.first
      BY <1>2, <2>2, InitExpectedOK DEF InitExpected, TrackerOK, Tracker
    <2>5. \A q \in Readers : tracker'[q].init => 1 <= tracker'[q].expected
      BY <1>2, <1>7, <2>2, <2>4 DEF RecvHeartbeat, Track, ReaderType, RequestInv
    <2> QED BY <1>1, <1>7, <2>3, <2>5, LeftType, SerialOther DEF RecvHeartbeat
  <1>8. ASSUME NEW m \in net, RecvGap(r, l, m) \/ (RecvHeartbeat(r, l, m) /\ r \notin accepts)
        PROVE  SerialInv'
    <2>1. net' \subseteq net /\ UNCHANGED ReaderVars
      BY <1>8, LeftType DEF RecvGap, RecvHeartbeat, Ignore
    <2> QED BY <1>1, <2>1, SerialOther DEF ReaderVars, RequestInv
  <1> QED BY <1>4, <1>5, <1>6, <1>7, <1>8 DEF Receive

\* While no two calls have overlapped, the invariant of calls that follow one
\* another holds.
OverlapInv == TypeInv /\ (overlapped \/ SerialInv)

LEMMA OverlapStep == ASSUME OverlapInv, [Next]_vars PROVE OverlapInv'
  <1>1. TypeInv'
    BY TypeStep DEF OverlapInv
  <1>2. overlapped => overlapped'
    <2>1. (\E c \in Calls : Write(c)) \/ UNCHANGED CallVars
      BY DEF Next, vars, HeartbeatTick, AnswerAckNack, RecvAckNack, Lose, MatchReader, MatchWriter,
             SendAckNack, Dispatch, Receive, RecvData, RecvHeartbeat, RecvGap, WriterVars
    <2>2. UNCHANGED CallVars => overlapped' = overlapped
      BY DEF CallVars, PastVars
    <2>3. ASSUME NEW c \in Calls, WriteClaim(c) PROVE overlapped => overlapped'
      BY <2>3, Zenon DEF WriteClaim
    <2>4. ASSUME NEW c \in Calls, Write(c), ~WriteClaim(c) PROVE overlapped' = overlapped
      <3>1. CASE WriteBeat(c)
        BY <3>1 DEF WriteBeat
      <3>2. CASE WriteStore(c) \/ WriteRemember(c) \/ WriteFlush(c) \/ WriteSend(c)
        BY <3>2 DEF WriteStore, WriteRemember, WriteFlush, WriteSend, PastVars
      <3> QED BY <2>4, <3>1, <3>2 DEF Write
    <2> QED BY <2>1, <2>2, <2>3, <2>4
  <1>3. SUFFICES ASSUME SerialInv, ~overlapped' PROVE SerialInv'
    BY <1>1, <1>2 DEF OverlapInv
  <1>4. CASE UNCHANGED vars
    <2>1. UNCHANGED CallVars /\ UNCHANGED ReaderVars /\ net' = net
      BY <1>4 DEF vars, WriterVars
    <2> QED BY <1>1, <1>3, <2>1, SerialOther DEF SerialInv, RequestInv, ReaderVars
  <1>5. CASE \E d \in Calls : Write(d)
    BY <1>1, <1>3, <1>5, SerialWrite
  <1>6. CASE HeartbeatTick \/ AnswerAckNack \/ (\E m \in net : RecvAckNack(m) \/ Lose(m))
             \/ \E r \in Readers : MatchReader(r) \/ MatchWriter(r)
    BY <1>1, <1>3, <1>6, SerialAnswer
  <1>7. ASSUME NEW r \in Readers, NEW l \in Loops,
               SendAckNack(r, l) \/ Dispatch(r, l) \/ \E m \in net : Receive(r, l, m)
        PROVE  SerialInv'
    BY <1>1, <1>3, <1>7, SerialReader
  <1> QED BY <1>4, <1>5, <1>6, <1>7 DEF Next

LEMMA OverlapAlways == Spec => []OverlapInv
  <1>1. Init => OverlapInv
    BY SerialInit DEF OverlapInv, SerialInv
  <1>2. OverlapInv /\ [Next]_vars => OverlapInv'
    BY OverlapStep
  <1> QED BY <1>1, <1>2, PTL DEF Spec

\* As long as calls of write have followed one another, SendHistory holds exactly
\* the last HistoryDepth samples and get finds each of them: the ring never
\* overwrites a slot whose sample it still advertises.
THEOREM HistoryIsWindow == Spec => []HistoryWindow
  <1>1. OverlapInv => HistoryWindow
    BY DEF OverlapInv, SerialInv, WriteInv, WindowOK, HistoryWindow
  <1> QED BY <1>1, OverlapAlways, PTL

\* Because write stores before it sends, no ACKNACK in flight, however old, names
\* a sample that the writer has neither retained nor evicted, as long as calls of
\* write have followed one another.
THEOREM RequestsAreAnswerable == Spec => []RequestsAnswerable
  <1>1. ASSUME SerialInv PROVE RequestsAnswerable
    <2> USE <1>1 DEF SerialInv, TypeInv
    <2>1. SUFFICES ASSUME NEW m \in net, m.type = "ACKNACK", NEW n \in m.missing,
                          ~(n < hist.lowest)
          PROVE  Retrievable(hist, n)
      BY DEF RequestsAnswerable
    <2>2. 1 <= n /\ n <= hist.highest
      BY <2>1 DEF RequestInv, NamesStored
    <2>3. m \in AckNackMsgs
      BY <2>1 DEF NetType, DataMsgs, HeartbeatMsgs, AckNackMsgs, GapMsgs
    <2>4. n \in Nat /\ hist.highest \in Nat /\ hist.lowest \in Nat
      BY <2>3 DEF AckNackMsgs, WriterType, SendHistory
    <2>5. hist.highest > 0 /\ n \in hist.lowest..hist.highest
      BY <2>1, <2>2, <2>4
    <2> QED BY <2>5 DEF WriteInv, WindowOK
  <1>2. OverlapInv => RequestsAnswerable
    BY <1>1 DEF OverlapInv, RequestsAnswerable
  <1> QED BY <1>2, OverlapAlways, PTL

-----------------------------------------------------------------------------
(* Calls of write that overlap: the last sample                            *)

\* The calls inside have numbers of their own, none of which has returned, and
\* what was superseded has returned.
PastInv ==
    /\ \A n \in returned : n \in Nat /\ n <= seq
    /\ superseded \subseteq returned
    /\ \A c \in Calls : wpc[c] # "idle" => wseq[c] <= seq /\ wseq[c] \notin returned
    /\ \A c, d \in Calls : wpc[c] # "idle" /\ wpc[d] # "idle" /\ c # d => wseq[c] # wseq[d]
    /\ LastSampleIsLatest

LEMMA PastWrite ==
    ASSUME TypeInv, PastInv, NEW c \in Calls, Write(c) PROVE PastInv'
  <1> USE DEF PastInv, At, Goto, PastVars
  <1>1. seq \in Nat /\ wpc \in [Calls -> WritePcs] /\ wseq \in [Calls -> Nat]
    BY DEF TypeInv, WriterType
  <1>2. CASE WriteClaim(c)
    <2>1. /\ seq' = seq + 1 /\ wseq' = [wseq EXCEPT ![c] = seq + 1]
          /\ wpc' = [wpc EXCEPT ![c] = "store"] /\ superseded' = returned
          /\ returned' = returned
      BY <1>2 DEF WriteClaim
    <2>2. wpc'[c] = "store"
      BY <1>1, <2>1
    <2>3. LastSampleIsLatest'
      BY <2>2 DEF LastSampleIsLatest
    <2> QED BY <1>1, <2>1, <2>3
  <1>3. CASE WriteStore(c)
    <2>1. LastSampleIsLatest'
      BY <1>1, <1>3 DEF WriteStore, LastSampleIsLatest, WritePcs
    <2> QED BY <1>1, <1>3, <2>1 DEF WriteStore
  <1>4. CASE WriteRemember(c)
    <2>1. /\ wpc' = [wpc EXCEPT ![c] = "flush"] /\ lastSample' = wseq[c] /\ disk' = disk
          /\ wseq[c] \notin superseded /\ superseded' = superseded /\ wpc[c] = "remember"
      BY <1>4 DEF WriteRemember
    <2>2. LastSampleIsLatest'
      BY <1>1, <2>1 DEF LastSampleIsLatest
    <2> QED BY <1>1, <1>4, <2>2 DEF WriteRemember
  <1>5. CASE WriteFlush(c)
    <2>1. /\ wpc' = [wpc EXCEPT ![c] = "send"] /\ disk' = wseq[c] /\ lastSample' = lastSample
          /\ wseq[c] \notin superseded /\ superseded' = superseded /\ wpc[c] = "flush"
      BY <1>5 DEF WriteFlush
    <2>2. LastSampleIsLatest'
      BY <1>1, <2>1 DEF LastSampleIsLatest
    <2> QED BY <1>1, <1>5, <2>2 DEF WriteFlush
  <1>6. CASE WriteSend(c)
    <2>1. LastSampleIsLatest'
      BY <1>1, <1>6 DEF WriteSend, LastSampleIsLatest
    <2> QED BY <1>1, <1>6, <2>1 DEF WriteSend
  <1>7. CASE WriteBeat(c)
    <2>1. /\ wpc' = [wpc EXCEPT ![c] = "idle"] /\ wpc[c] = "beat"
          /\ returned' = returned \cup {wseq[c]} /\ wseq' = [wseq EXCEPT ![c] = 0]
          /\ UNCHANGED <<seq, lastSample, disk, superseded>>
      BY <1>7 DEF WriteBeat
    <2>2. LastSampleIsLatest'
      BY <1>1, <2>1 DEF LastSampleIsLatest
    <2> QED BY <1>1, <2>1, <2>2
  <1> QED BY <1>2, <1>3, <1>4, <1>5, <1>6, <1>7 DEF Write

LEMMA PastStep == ASSUME TypeInv, PastInv, [Next]_vars PROVE PastInv'
  <1>1. CASE UNCHANGED CallVars
    BY <1>1 DEF PastInv, LastSampleIsLatest, CallVars, PastVars
  <1>2. (\E c \in Calls : Write(c)) \/ UNCHANGED CallVars
    BY DEF Next, vars, HeartbeatTick, AnswerAckNack, RecvAckNack, Lose, MatchReader, MatchWriter,
           SendAckNack, Dispatch, Receive, RecvData, RecvHeartbeat, RecvGap, WriterVars
  <1> QED BY <1>1, <1>2, PastWrite

\* However many calls of write are inside at once: neither the sample kept for
\* TransientLocal readers nor the one in the persistence file is left to be that
\* of a call that had returned before another one began.
THEOREM LastSampleKept == Spec => []LastSampleIsLatest
  <1>1. Init => TypeInv /\ PastInv
    BY TypeInit DEF Init, PastInv, LastSampleIsLatest
  <1>2. TypeInv /\ PastInv /\ [Next]_vars => (TypeInv /\ PastInv)'
    BY TypeStep, PastStep
  <1>3. PastInv => LastSampleIsLatest
    BY DEF PastInv
  <1> QED BY <1>1, <1>2, <1>3, PTL DEF Spec
=============================================================================
