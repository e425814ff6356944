---------------------------- MODULE RtpsReliable ---------------------------
(***************************************************************************)
(* One reliable RTPS writer and its remote reliable readers over UDP       *)
(* (src/rtps/participant.rs): RtpsWriter::write, the HEARTBEAT ticker,     *)
(* handle_data_packet with notify_reliable_readers, handle_heartbeat and   *)
(* handle_acknack.                                                         *)
(*                                                                         *)
(* Each reader is the only reader of its own participant, which runs one   *)
(* receive loop per data socket (unicast, multicast).  The writer's        *)
(* participant has no local readers.  write takes &self, so several calls  *)
(* may be inside it at once; a step ends where a call awaits or releases a *)
(* lock, except that a HEARTBEAT is put together and sent, and the answers *)
(* to one ACKNACK are looked up and sent, to all readers in one step.  The *)
(* writer hears ACKNACKs on one socket, so one loop handles them.          *)
(* The network loses, reorders and duplicates datagrams: net is the set of *)
(* those that may still arrive.                                            *)
(*                                                                         *)
(* Payloads, wire encodings, entity ids, the HEARTBEAT and ACKNACK counts  *)
(* (which no handler reads) and the metrics counters are left out.         *)
(***************************************************************************)
EXTENDS Reliable, FiniteSets

CONSTANTS
    Calls,      \* concurrent RtpsWriter::write calls
    Readers,    \* remote reader participants
    Loops,      \* receive loops of a reader participant
    Multicast,  \* user_data_multicast_addr is set
    Keep,       \* the kind of network, see Left
    MaxSeq,     \* bound: samples written in a behaviour
    MaxOverlap  \* bound: samples written in one where calls of write overlap

ASSUME MulticastAssumption == Multicast \in BOOLEAN
ASSUME KeepAssumption == Keep \in BOOLEAN
ASSUME MaxSeqAssumption == MaxSeq \in Nat /\ MaxOverlap \in Nat

VARIABLES
    seq,        \* WriterState.seq
    hist,       \* WriterState.history
    acked,      \* WriterState.acked
    lastSample, \* RtpsParticipant.last_sample for the topic, by its number
    disk,       \* the persisted sample of the topic, by its number
    asked,      \* the ACKNACK being answered, if any, with what first_last gave
    wpc, wseq,  \* per write call: where it is, the number it was given
    returned,   \* history: numbers whose call has returned, 0 for none at all
    superseded, \* history: those of calls that returned before another one began
    overlapped, \* history: a call began while another was inside
    matched,    \* readers whose locator the writer's SEDP has matched
    accepts,    \* readers whose sources contain the writer
    tracker,    \* per reader, its RecvTracker for the writer
    anchor,     \* per reader, the first watermark its tracker ever had
    lpc, hand,  \* per reader and loop: where it is, the number it works on
    given,      \* per reader, the samples handed to SubInner::push
    net         \* the datagrams in flight

PastVars   == <<returned, superseded, overlapped>>
CallVars   == <<seq, hist, lastSample, disk, wpc, wseq, PastVars>>
WriterVars == <<CallVars, acked, asked>>
ReaderVars == <<tracker, anchor, lpc, hand, given>>
MatchVars  == <<matched, accepts>>
vars == <<WriterVars, MatchVars, ReaderVars, net>>

Data(r, n)       == [type |-> "DATA", rd |-> r, sn |-> n]
Heartbeat(r, h)  == [type |-> "HEARTBEAT", rd |-> r,
                     first |-> h.lowest, last |-> h.highest]
AckNack(r, b, m) == [type |-> "ACKNACK", rd |-> r, base |-> b, missing |-> m]
Gap(r, s, e)     == [type |-> "GAP", rd |-> r, start |-> s, end |-> e]

Init ==
    /\ seq = 0 /\ acked = 0 /\ lastSample = 0 /\ disk = 0
    /\ asked = {}
    /\ hist = NewSendHistory
    /\ wpc = [c \in Calls |-> "idle"]
    /\ wseq = [c \in Calls |-> 0]
    /\ returned = {0} /\ superseded = {} /\ overlapped = FALSE
    /\ matched = {} /\ accepts = {}
    /\ tracker = [r \in Readers |-> NewTracker]
    /\ anchor = [r \in Readers |-> 0]
    /\ lpc = [r \in Readers |-> [l \in Loops |-> "idle"]]
    /\ hand = [r \in Readers |-> [l \in Loops |-> 0]]
    /\ given = [r \in Readers |-> {}]
    /\ net = {}

-----------------------------------------------------------------------------
(* The network                                                             *)

\* With Keep, net is everything ever sent, and any of it arrives at any moment,
\* any number of times or never: every loss, duplication and reordering.
\* Without, a datagram arrives at most once and is lost explicitly, so that
\* fairness can say which of them cannot be lost for ever.
Left(m) == IF Keep THEN net ELSE net \ {m}

\* A datagram is lost at a moment when it could have been received: losing it
\* while every receive loop is busy is the same as losing it afterwards.
Lose(m) ==
    /\ ~Keep
    /\ IF m.type = "ACKNACK" THEN asked = {}
       ELSE \E l \in Loops : lpc[m.rd][l] = "idle"
    /\ net' = net \ {m}
    /\ UNCHANGED <<WriterVars, MatchVars, ReaderVars>>

-----------------------------------------------------------------------------
(* SEDP matches the two ends independently of each other.                  *)

MatchReader(r) ==
    /\ r \notin matched
    /\ matched' = matched \cup {r}
    /\ UNCHANGED <<WriterVars, accepts, ReaderVars, net>>

MatchWriter(r) ==
    /\ r \notin accepts
    /\ accepts' = accepts \cup {r}
    /\ UNCHANGED <<WriterVars, matched, ReaderVars, net>>

-----------------------------------------------------------------------------
(* RtpsWriter::write                                                       *)

At(c, pc)   == wpc[c] = pc
Goto(c, pc) == wpc' = [wpc EXCEPT ![c] = pc]

WriteClaim(c) ==
    /\ At(c, "idle")
    /\ overlapped' = (overlapped \/ \E d \in Calls : ~At(d, "idle"))
    /\ seq < IF overlapped' THEN MaxOverlap ELSE MaxSeq
    /\ seq' = seq + 1
    /\ wseq' = [wseq EXCEPT ![c] = seq + 1]
    /\ Goto(c, "store")
    /\ superseded' = returned
    /\ UNCHANGED <<hist, lastSample, disk, returned, acked, asked, MatchVars, ReaderVars, net>>

WriteStore(c) ==
    /\ At(c, "store")
    /\ hist' = Store(hist, wseq[c])
    /\ Goto(c, "remember")
    /\ UNCHANGED <<seq, lastSample, disk, wseq, PastVars, acked, asked, MatchVars, ReaderVars, net>>

\* Mutant: entry().or_insert keeps the first sample instead of the last.
WriteRememberFirst(c) ==
    /\ At(c, "remember")
    /\ lastSample' = IF lastSample = 0 THEN wseq[c] ELSE lastSample
    /\ Goto(c, "flush")
    /\ UNCHANGED <<seq, hist, disk, wseq, PastVars, acked, asked, MatchVars, ReaderVars, net>>

WriteRemember(c) ==
    /\ At(c, "remember")
    /\ lastSample' = wseq[c]
    /\ Goto(c, "flush")
    /\ UNCHANGED <<seq, hist, disk, wseq, PastVars, acked, asked, MatchVars, ReaderVars, net>>

WriteFlush(c) ==
    /\ At(c, "flush")
    /\ disk' = wseq[c]
    /\ Goto(c, "send")
    /\ UNCHANGED <<seq, hist, lastSample, wseq, PastVars, acked, asked, MatchVars, ReaderVars, net>>

\* One multicast send reaches every reader, matched or not; otherwise one
\* send per matched locator.
SendTargets ==
    IF matched # {} /\ Multicast THEN Readers ELSE matched

WriteSend(c) ==
    /\ At(c, "send")
    /\ net' = net \cup {Data(r, wseq[c]) : r \in SendTargets}
    /\ Goto(c, "beat")
    /\ UNCHANGED <<seq, hist, lastSample, disk, wseq, PastVars, acked, asked, MatchVars, ReaderVars>>

\* Mutant: the HEARTBEAT advertises the claimed number, stored or not.
SendHeartbeatClaimed ==
    net' = IF hist.any
           THEN net \cup {Heartbeat(r, [hist EXCEPT !.highest = seq]) : r \in matched}
           ELSE net

\* send_heartbeat: nothing to advertise before the first store.
SendHeartbeat ==
    net' = IF hist.any THEN net \cup {Heartbeat(r, hist) : r \in matched} ELSE net

WriteBeat(c) ==
    /\ At(c, "beat")
    /\ SendHeartbeat
    /\ Goto(c, "idle")
    /\ returned' = returned \cup {wseq[c]}
    /\ wseq' = [wseq EXCEPT ![c] = 0]
    /\ UNCHANGED <<seq, hist, lastSample, disk, superseded, overlapped, acked, asked, MatchVars, ReaderVars>>

\* The periodic task of new_reliable_writer.
HeartbeatTick ==
    /\ SendHeartbeat
    /\ UNCHANGED <<WriterVars, MatchVars, ReaderVars>>

-----------------------------------------------------------------------------
(* handle_data_packet at a reader                                          *)

LoopAt(r, l, pc) == lpc[r][l] = pc

LoopGoto(r, l, pc, n) ==
    /\ lpc' = [lpc EXCEPT ![r][l] = pc]
    /\ hand' = [hand EXCEPT ![r][l] = n]

Ignore(m) == net' = Left(m) /\ UNCHANGED ReaderVars

\* A new tracker state; first is where a tracker without contact is anchored.
Track(r, t, first) ==
    /\ tracker' = [tracker EXCEPT ![r] = t]
    /\ anchor' = [anchor EXCEPT ![r] = IF tracker[r].init THEN @ ELSE first]

\* DATA: notify_reliable_readers up to record; a reader that has not matched
\* the writer leaves its tracker alone.
RecvData(r, l, m) ==
    /\ m.type = "DATA" /\ m.rd = r
    /\ LoopAt(r, l, "idle")
    /\ IF r \in accepts
       THEN Track(r, Record(tracker[r], m.sn), m.sn) /\ LoopGoto(r, l, "nackData", m.sn)
       ELSE UNCHANGED <<tracker, anchor>> /\ LoopGoto(r, l, "dispatch", m.sn)
    /\ net' = Left(m)
    /\ UNCHANGED <<WriterVars, MatchVars, given>>

\* HEARTBEAT: handle_heartbeat up to init_expected.
RecvHeartbeat(r, l, m) ==
    /\ m.type = "HEARTBEAT" /\ m.rd = r
    /\ LoopAt(r, l, "idle")
    /\ IF r \in accepts
       THEN /\ Track(r, InitExpected(tracker[r], m.first), m.first)
            /\ LoopGoto(r, l, "nackBeat", m.last)
            /\ net' = Left(m)
            /\ UNCHANGED given
       ELSE Ignore(m)
    /\ UNCHANGED <<WriterVars, MatchVars>>

\* The ACKNACK a tracker answers with, if it misses anything up to last.
Reply(r, t, last) ==
    IF Missing(t, last) = {} THEN {}
    ELSE {AckNack(r, t.expected, Missing(t, last))}

\* Mutant: only DATA is answered.
SendAckNackForDataOnly(r, l) ==
    /\ \/ LoopAt(r, l, "nackData") /\ LoopGoto(r, l, "dispatch", hand[r][l])
          /\ net' = net \cup Reply(r, tracker[r], hand[r][l])
       \/ LoopAt(r, l, "nackBeat") /\ LoopGoto(r, l, "idle", 0) /\ UNCHANGED net
    /\ UNCHANGED <<WriterVars, MatchVars, tracker, anchor, given>>

\* The rest of both: missing, on what the tracker has become, and send_acknack.
SendAckNack(r, l) ==
    /\ \/ LoopAt(r, l, "nackData") /\ LoopGoto(r, l, "dispatch", hand[r][l])
       \/ LoopAt(r, l, "nackBeat") /\ LoopGoto(r, l, "idle", 0)
    /\ net' = net \cup Reply(r, tracker[r], hand[r][l])
    /\ UNCHANGED <<WriterVars, MatchVars, tracker, anchor, given>>

\* dispatch_to_readers, at the end of DATA.
Dispatch(r, l) ==
    /\ LoopAt(r, l, "dispatch")
    /\ LoopGoto(r, l, "idle", 0)
    /\ given' = IF r \in accepts
                THEN [given EXCEPT ![r] = @ \cup {hand[r][l]}]
                ELSE given
    /\ UNCHANGED <<WriterVars, MatchVars, tracker, anchor, net>>

\* handle_data_packet has no case for GAP: the datagram is ignored.
RecvGap(r, l, m) ==
    /\ m.type = "GAP" /\ m.rd = r
    /\ LoopAt(r, l, "idle")
    /\ Ignore(m)
    /\ UNCHANGED <<WriterVars, MatchVars>>

-----------------------------------------------------------------------------
(* handle_acknack at the writer                                            *)

\* Mutant: the base of an ACKNACK is taken as acknowledged.
AdvanceAckedToBase(base) == acked' = IF base > acked THEN base ELSE acked

AdvanceAcked(base) ==
    acked' = IF base # 0 /\ base - 1 > acked THEN base - 1 ELSE acked

Retransmits(m) ==
    {Data(r, n) : r \in matched, n \in {k \in m.missing : Retrievable(hist, k)}}

\* The leading part of the request that was evicted, capped to one window.
GapEnd(base, first) ==
    IF first - 1 > base + AckWindow - 1 THEN base + AckWindow - 1 ELSE first - 1

GapReplies(m, first) ==
    IF m.base < first
    THEN {Gap(r, m.base, GapEnd(m.base, first)) : r \in matched \cup {m.rd}}
    ELSE {}

\* advance_acked and first_last, which gives 0 here when nothing is stored.
RecvAckNack(m) ==
    /\ m.type = "ACKNACK"
    /\ asked = {}
    /\ AdvanceAcked(m.base)
    /\ asked' = {[ack |-> m, first |-> hist.lowest]}
    /\ net' = Left(m)
    /\ UNCHANGED <<CallVars, MatchVars, ReaderVars>>

\* The rest: get and send what is still retained, then the GAP.
AnswerAckNack ==
    /\ \E q \in asked : net' = net \cup Retransmits(q.ack) \cup GapReplies(q.ack, q.first)
    /\ asked' = {}
    /\ UNCHANGED <<CallVars, acked, MatchVars, ReaderVars>>

-----------------------------------------------------------------------------
Write(c) ==
    \/ WriteClaim(c) \/ WriteStore(c) \/ WriteRemember(c)
    \/ WriteFlush(c) \/ WriteSend(c) \/ WriteBeat(c)

Receive(r, l, m) == RecvData(r, l, m) \/ RecvHeartbeat(r, l, m) \/ RecvGap(r, l, m)

Next ==
    \/ \E c \in Calls : Write(c)
    \/ HeartbeatTick
    \/ \E r \in Readers : MatchReader(r) \/ MatchWriter(r)
    \/ \E r \in Readers, l \in Loops :
          SendAckNack(r, l) \/ Dispatch(r, l) \/ \E m \in net : Receive(r, l, m)
    \/ \E m \in net : RecvAckNack(m) \/ Lose(m)
    \/ AnswerAckNack

Spec == Init /\ [][Next]_vars

\* A write that has begun finishes, the HEARTBEAT task ticks, SEDP matches the
\* two ends in the end, a receive loop finishes what it has received; and the
\* network, however lossy, delivers some copy of what is sent over and over.
Fairness ==
    /\ \A c \in Calls : WF_vars(~At(c, "idle") /\ Write(c))
    /\ WF_vars(HeartbeatTick) /\ WF_vars(AnswerAckNack)
    /\ \A r \in Readers :
          /\ WF_vars(MatchReader(r)) /\ WF_vars(MatchWriter(r))
          /\ \A l \in Loops : WF_vars(SendAckNack(r, l)) /\ WF_vars(Dispatch(r, l))
          /\ SF_vars(\E l \in Loops, m \in net : RecvHeartbeat(r, l, m))
          /\ \A n \in 1..MaxSeq :
                SF_vars(\E l \in Loops : Data(r, n) \in net /\ RecvData(r, l, Data(r, n)))
    /\ SF_vars(\E m \in net : RecvAckNack(m))

FairSpec == Spec /\ Fairness

-----------------------------------------------------------------------------
(* Properties                                                              *)

\* What a reader has received: handed to its queue, or on the way there.
Received(r) ==
    given[r] \cup {hand[r][l] : l \in {k \in Loops : lpc[r][k] \in {"nackData", "dispatch"}}}

\* The watermark of record advances over received samples only: everything
\* from the anchor up to it, and everything buffered ahead of it, has been or
\* is being dispatched.
WatermarkSound ==
    \A r \in Readers :
        (anchor[r]..(tracker[r].expected - 1)) \cup tracker[r].ahead \subseteq Received(r)

\* The out-of-order buffer lies strictly above the watermark and within
\* MAX_REORDER_AHEAD of it; missing relies on the former.
ReorderBounded ==
    \A r \in Readers : \A n \in tracker[r].ahead :
        tracker[r].expected < n /\ n <= tracker[r].expected + MaxReorderAhead

\* advance_acked never runs ahead of every reader: some reader's watermark is
\* past acked, and it has received what lies between its anchor and acked.
AckedSound ==
    acked # 0 =>
        \E r \in Readers :
            /\ tracker[r].init /\ acked < tracker[r].expected
            /\ anchor[r]..acked \subseteq Received(r)

\* As long as calls of write follow one another, SendHistory retains exactly the
\* last HistoryDepth samples, and get finds each of them.
HistoryWindow ==
    ~overlapped /\ hist.any =>
        /\ hist.lowest = IF hist.highest > HistoryDepth
                         THEN hist.highest - HistoryDepth + 1 ELSE 1
        /\ \A n \in hist.lowest..hist.highest : Retrievable(hist, n)

\* What the store-before-send comment of write says, as long as calls follow one
\* another: a request never names a sample that is not stored yet, only one that
\* is retained or was evicted.
RequestsAnswerable ==
    ~overlapped => \A m \in net : m.type = "ACKNACK" =>
        \A n \in m.missing : n < hist.lowest \/ Retrievable(hist, n)

\* However the calls of write overlap, the last sample in memory and the one on
\* disk are of no call that had returned before another one began, once that one
\* is past the step: a call may lose against one beside it, never against one
\* before it (last_sample, persist_flush).
LastSampleIsLatest ==
    /\ lastSample \in superseded => \E c \in Calls : wpc[c] \in {"store", "remember"}
    /\ disk \in superseded => \E c \in Calls : wpc[c] \in {"store", "remember", "flush"}

\* Recovery: when writing stops, every matched reader's watermark passes the
\* writer's last sample and stays there, whatever was lost on the way.
CatchesUp ==
    <>[](\A r \in Readers :
            hist.any => tracker[r].init /\ tracker[r].expected = hist.highest + 1)

\* What the comments of handle_acknack say: a reader whose next sample was
\* evicted is moved past it by GAP instead of asking for it for ever.
GapAdvancesReader ==
    \A r \in Readers :
        (tracker[r].init /\ tracker[r].expected < hist.lowest)
            ~> (tracker[r].expected >= hist.lowest)
=============================================================================
