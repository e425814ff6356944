------------------------------ MODULE DataPath -----------------------------
(***************************************************************************)
(* BestEffort data of several participants (rtps/participant.rs):          *)
(* RtpsWriter::write with fragmentation and persistence (rtps/persist.rs), *)
(* handle_data_packet with reassembly, delivery to local and remote        *)
(* readers, TransientLocal late joiners, and a process that dies and is    *)
(* started again with the same directory.                                  *)
(*                                                                         *)
(* A topic is a sequence of characters, a payload a sequence of octets.    *)
(* The reliable protocol is in RtpsReliable, matching in Discovery: here a *)
(* reader knows the writers that Matched gives it, by their current GUID.  *)
(* A datagram is the decoded form of the octets that Codecs is about.      *)
(***************************************************************************)
EXTENDS Fragment, Wildcard, Functions, TLC

CONSTANTS
    Nodes,          \* participants, each a process
    Writers, Readers,
    NodeOf,         \* the participant of a writer or reader
    EntityOf,       \* a writer's EntityId: each participant counts from 1
    TopicOf,        \* a writer's topic, a reader's topic or pattern
    Matched,        \* per reader, the remote writers that SEDP matches to it
    Transient,      \* the TransientLocal readers
    Durable,        \* the participants with persistent history
    Payloads,       \* per writer, what it may write
    Multicast,      \* user_data_multicast_addr is set
    Depth,          \* chan_depth of the readers
    MaxPersistedPayload,    \* MAX_PERSISTED_PAYLOAD_BYTES, 64 MiB
    Missing,        \* bound: octets that a failing write_all may leave out; 0 is a success
    MaxWritten,     \* bound: writes in a behaviour
    MaxRestarts,    \* bound: restarts in a behaviour
    MaxTime         \* bound: the clock

ASSUME NodeAssumption == NodeOf \in [Writers \cup Readers -> Nodes]
ASSUME EntityAssumption ==
    \A v, w \in Writers : NodeOf[v] = NodeOf[w] /\ EntityOf[v] = EntityOf[w] => v = w
ASSUME PayloadsAssumption ==
    \A w \in Writers : \A p \in Payloads[w] : p \in Seq(0..(Base - 1)) /\ Len(p) < U32
ASSUME MaxWrittenAssumption == MaxWritten \in Nat

VARIABLES
    life,           \* per node, how often it was started; it is in the GUID prefix
    loop,           \* per node, the receive loop task runs
    seq,            \* per writer, WriterState.seq
    call,           \* per writer, its write call: [at, payload]
    last_sample,    \* per node, from topics to samples
    disk,           \* per node, from file names to contents
    pos,            \* per writer, the position in the file that its call has open
    joining,        \* per reader, its new_reader call: [at, len], "no" if there is none
    readers,        \* registered readers
    queue,          \* per reader, the samples pushed to it
    frag_assembler, \* per node, from FragKey to FragBuffer
    net,            \* every datagram sent; any may arrive, at any time, any number of times
    now,            \* the clock that ages the reassembly buffers
    written,        \* history: the samples written
    spoiled         \* history: <<node, file>> flushed while also flushed or loaded, or
                    \* given some of a payload without the length before it

WriteVars == <<seq, call, net, written>>
DiskVars  == <<disk, pos, spoiled>>
JoinVars  == <<joining, readers>>
vars == <<life, loop, WriteVars, last_sample, DiskVars, JoinVars, queue,
          frag_assembler, now>>

Nothing == <<>>
Prefix(n) == <<n, life[n]>>
GuidOf(w) == [prefix |-> Prefix(NodeOf[w]), entity |-> EntityOf[w]]
ZeroGuid == [prefix |-> <<>>, entity |-> ENTITYID_UNKNOWN]

Sample(topic, payload, n, guid) ==
    [topic |-> topic, payload |-> payload, sequence_number |-> n, writer_guid |-> guid]

Init ==
    /\ life = [n \in Nodes |-> 1]
    /\ loop = [n \in Nodes |-> TRUE]
    /\ seq = [w \in Writers |-> 0]
    /\ call = [w \in Writers |-> [at |-> "idle", payload |-> <<>>]]
    /\ last_sample = [n \in Nodes |-> Nothing]
    /\ disk = [n \in Nodes |-> Nothing]
    /\ pos = [w \in Writers |-> 0]
    /\ joining = [r \in Readers |-> [at |-> "no", len |-> 0]]
    /\ readers = {}
    /\ queue = [r \in Readers |-> <<>>]
    /\ frag_assembler = [n \in Nodes |-> Nothing]
    /\ net = {} /\ now = 0 /\ written = {} /\ spoiled = {}

-----------------------------------------------------------------------------
(* Files of topics                                                         *)

\* Separators become underscores: a/b and a_b share a file.
persist_path(topic) == [i \in DOMAIN topic |-> IF topic[i] \in {"/", "\\", ":"} THEN "_" ELSE topic[i]]

\* Octets written at a position of a file that others may have truncated meanwhile.
WriteAt(file, at, b) ==
    IF b = <<>> THEN file
    ELSE [i \in 1..(IF Len(file) > at + Len(b) THEN Len(file) ELSE at + Len(b)) |->
             IF i > at /\ i <= at + Len(b) THEN b[i - at]
             ELSE IF i <= Len(file) THEN file[i] ELSE 0]

-----------------------------------------------------------------------------
(* Dispatch                                                                *)

accepts_source(r, guid) ==
    \/ guid.prefix = Prefix(NodeOf[r])
    \/ guid \in {GuidOf(w) : w \in Matched[r]}

\* The readers of node n that get a sample: topic is Nothing for one that came
\* over the network, which names no topic.
Targets(n, guid, topic) ==
    {r \in readers : /\ NodeOf[r] = n
                     /\ topic # Nothing => TopicOf[r] = topic \/ topic_matches(TopicOf[r], topic)
                     /\ accepts_source(r, guid)}

Push(q, s) == IF Len(q) < Depth THEN Append(q, s) ELSE q

dispatch_to_readers(n, guid, topic, payload, num) ==
    queue' = [r \in Readers |-> IF r \in Targets(n, guid, topic)
                                THEN Push(queue[r], Sample(TopicOf[r], payload, num, guid))
                                ELSE queue[r]]

-----------------------------------------------------------------------------
(* RtpsWriter::write                                                       *)

CallAt(w, pc) == call[w].at = pc
Goto(w, pc) == call' = [call EXCEPT ![w].at = pc]
FileOf(w) == persist_path(TopicOf[w])

WriteClaim(w, payload) ==
    LET t == TopicOf[w]
    IN  /\ CallAt(w, "idle") /\ Cardinality(written) < MaxWritten
        /\ seq' = [seq EXCEPT ![w] = @ + 1]
        /\ call' = [call EXCEPT ![w] = [at |-> "remember", payload |-> payload]]
        /\ written' = written \cup {Sample(t, payload, seq[w] + 1, GuidOf(w))}
        /\ UNCHANGED <<life, loop, net, last_sample, DiskVars, JoinVars, queue, frag_assembler, now>>

WriteRemember(w) ==
    /\ CallAt(w, "remember")
    /\ last_sample' = [last_sample EXCEPT ![NodeOf[w]] =
          Insert(@, TopicOf[w], Sample(TopicOf[w], call[w].payload, seq[w], GuidOf(w)))]
    /\ Goto(w, IF NodeOf[w] \in Durable THEN "create" ELSE "dispatch")
    /\ UNCHANGED <<life, loop, seq, net, written, DiskVars, JoinVars, queue,
                   frag_assembler, now>>

\* The calls that are in the middle of a file.
Flushing(n, file) == {w \in Writers : NodeOf[w] = n /\ FileOf(w) = file
                                      /\ call[w].at \in {"length", "payload"}}
Loading(n, file) == {r \in Readers : NodeOf[r] = n /\ persist_path(TopicOf[r]) = file
                                     /\ joining[r].at \in {"length", "payload"}}

Spoil(w) == spoiled \cup {<<NodeOf[w], FileOf(w)>>}

\* persist_flush: File::create truncates, then the length, then the payload.  If
\* the file cannot be created the call returns; write goes on all the same.
FlushCreate(w) ==
    LET n == NodeOf[w] IN
    /\ CallAt(w, "create")
    /\ disk' = [disk EXCEPT ![n] = Insert(@, FileOf(w), <<>>)]
    /\ pos' = [pos EXCEPT ![w] = 0]
    /\ spoiled' = IF Flushing(n, FileOf(w)) \cup Loading(n, FileOf(w)) = {} THEN spoiled
                  ELSE Spoil(w)
    /\ Goto(w, "length")
    /\ UNCHANGED <<life, loop, seq, net, written, last_sample, JoinVars, queue,
                   frag_assembler, now>>

FlushCreateFails(w) ==
    /\ CallAt(w, "create")
    /\ Goto(w, "dispatch")
    /\ UNCHANGED <<life, loop, seq, net, written, last_sample, DiskVars, JoinVars, queue,
                   frag_assembler, now>>

\* How many of len octets write_all gets into a file.
WriteAll(len) == {k \in 0..len : len - k \in Missing}

\* The length, and the payload: all octets, or fewer and then an error that is
\* ignored.  After one in the length the payload follows all the same,
\* from where the length was broken off.
FlushLength(w) ==
    \E k \in WriteAll(4) :
        /\ CallAt(w, "length")
        /\ disk' = [disk EXCEPT ![NodeOf[w]][FileOf(w)] =
                      WriteAt(@, 0, SubSeq(LE(Len(call[w].payload), 4), 1, k))]
        /\ pos' = [pos EXCEPT ![w] = k]
        /\ Goto(w, "payload")
        /\ UNCHANGED <<life, loop, seq, net, written, last_sample, spoiled, JoinVars, queue,
                       frag_assembler, now>>

FlushPayload(w) ==
    \E k \in WriteAll(Len(call[w].payload)) :
        /\ CallAt(w, "payload")
        /\ disk' = [disk EXCEPT ![NodeOf[w]][FileOf(w)] =
                      WriteAt(@, pos[w], SubSeq(call[w].payload, 1, k))]
        /\ spoiled' = IF pos[w] = 4 \/ k = 0 THEN spoiled ELSE Spoil(w)
        /\ pos' = [pos EXCEPT ![w] = 0]
        /\ Goto(w, "dispatch")
        /\ UNCHANGED <<life, loop, seq, net, written, last_sample, JoinVars, queue,
                       frag_assembler, now>>

WriteDispatch(w) ==
    /\ CallAt(w, "dispatch")
    /\ dispatch_to_readers(NodeOf[w], GuidOf(w), TopicOf[w], call[w].payload, seq[w])
    /\ Goto(w, "send")
    /\ UNCHANGED <<life, loop, seq, net, written, last_sample, DiskVars, JoinVars, frag_assembler, now>>

\* The message, or one message for each fragment, that write puts together, for
\* the participant n.
Messages(w, n) ==
    LET wrapped == wrap_payload(call[w].payload)
        sn == from_u64(seq[w])
    IN  IF Len(wrapped) > MaxFragmentPayload
        THEN {[to |-> n, prefix |-> Prefix(NodeOf[w]), id |-> SUBMSG_DATA_FRAG, sub |-> f] :
                f \in ToSet(split_into_fragments(EntityOf[w], sn, wrapped))}
        ELSE {[to |-> n, prefix |-> Prefix(NodeOf[w]), id |-> SUBMSG_DATA,
               sub |-> [writer_entity_id |-> EntityOf[w], seq_num |-> sn, payload |-> wrapped]]}

\* Nothing is sent without a matched reader; a multicast group reaches everyone.
Destinations(w) ==
    LET at == {NodeOf[r] : r \in {q \in Readers : w \in Matched[q]}}
    IN  IF at # {} /\ Multicast THEN Nodes ELSE at

WriteSend(w) ==
    /\ CallAt(w, "send")
    /\ net' = net \cup UNION {Messages(w, n) : n \in Destinations(w)}
    /\ Goto(w, "idle")
    /\ UNCHANGED <<life, loop, seq, written, last_sample, DiskVars, JoinVars, queue,
                   frag_assembler, now>>

-----------------------------------------------------------------------------
(* handle_data_packet in the receive loop of node d.to                     *)

FromPeer(d) == loop[d.to] /\ d.prefix # Prefix(d.to)

RecvData(d) ==
    LET payload == unwrap_payload(d.sub.payload) IN
    /\ d.id = SUBMSG_DATA /\ FromPeer(d) /\ payload # <<>>
    /\ dispatch_to_readers(d.to, [prefix |-> d.prefix, entity |-> d.sub.writer_entity_id],
                           Nothing, payload[1], to_u64(d.sub.seq_num))
    /\ UNCHANGED <<life, loop, WriteVars, last_sample, DiskVars, JoinVars, frag_assembler, now>>

\* A panic in the assembler ends the task of the loop.
RecvFrag(d) ==
    /\ d.id = SUBMSG_DATA_FRAG /\ FromPeer(d)
    /\ LET got == receive(frag_assembler[d.to], d.sub, now)
           payload == IF got.payload = <<>> THEN <<>> ELSE unwrap_payload(got.payload[1])
       IN  /\ frag_assembler' = [frag_assembler EXCEPT ![d.to] = got.buffers]
           /\ loop' = [loop EXCEPT ![d.to] = ~got.panic]
           /\ IF payload = <<>> THEN UNCHANGED queue
              ELSE dispatch_to_readers(d.to,
                       [prefix |-> d.prefix, entity |-> d.sub.writer_entity_id], Nothing,
                       payload[1], to_u64(d.sub.writer_seq_num))
    /\ UNCHANGED <<life, WriteVars, last_sample, DiskVars, JoinVars, now>>

\* Time matters only while some sample is being put together.
Tick ==
    /\ now < MaxTime /\ \E n \in Nodes : frag_assembler[n] # Nothing
    /\ now' = now + 1
    /\ UNCHANGED <<life, loop, WriteVars, last_sample, DiskVars, JoinVars, queue,
                   frag_assembler>>

-----------------------------------------------------------------------------
(* Readers                                                                 *)

JoinStep(r, pc) == joining' = [joining EXCEPT ![r].at = pc]

\* new_reader_impl up to the registration.
Register(r) ==
    /\ r \notin readers /\ joining[r].at = "no"
    /\ readers' = readers \cup {r}
    /\ queue' = [queue EXCEPT ![r] = <<>>]
    /\ JoinStep(r, IF r \in Transient THEN "recall" ELSE "no")
    /\ UNCHANGED <<life, loop, WriteVars, last_sample, DiskVars, frag_assembler, now>>

\* deliver_transient_local: the sample in memory, or what the disk has.
Recall(r) ==
    LET n == NodeOf[r]
        t == TopicOf[r]
        known == t \in DOMAIN last_sample[n]
    IN  /\ joining[r].at = "recall"
        /\ queue' = IF known THEN [queue EXCEPT ![r] = Push(@, last_sample[n][t])] ELSE queue
        /\ JoinStep(r, IF ~known /\ n \in Durable /\ persist_path(t) \in DOMAIN disk[n]
                       THEN "length" ELSE "no")
        /\ spoiled' = IF ~known /\ Flushing(n, persist_path(t)) # {}
                      THEN spoiled \cup {<<n, persist_path(t)>>} ELSE spoiled
        /\ UNCHANGED <<life, loop, WriteVars, last_sample, disk, pos, readers,
                       frag_assembler, now>>

\* persist_load: the length, then as many octets; a short read or a length beyond
\* the limit is an error, which leaves the reader without a sample.
LoadLength(r) ==
    LET file == disk[NodeOf[r]][persist_path(TopicOf[r])]
        length == UnLE(Slice(file, 0, 4))
    IN
    /\ joining[r].at = "length"
    /\ joining' = [joining EXCEPT ![r] =
                     IF Len(file) < 4 \/ length > MaxPersistedPayload THEN [at |-> "no", len |-> 0]
                     ELSE [at |-> "payload", len |-> length]]
    /\ UNCHANGED <<life, loop, WriteVars, last_sample, DiskVars, readers, queue,
                   frag_assembler, now>>

\* Mutant: a payload that is too short is taken as it is.
ReadPayloadShort(file, len) == <<From(file, 4)>>

ReadPayload(file, len) == IF Len(file) < 4 + len THEN <<>> ELSE <<Slice(file, 4, len)>>

LoadPayload(r) ==
    LET payload == ReadPayload(disk[NodeOf[r]][persist_path(TopicOf[r])], joining[r].len) IN
    /\ joining[r].at = "payload"
    /\ joining' = [joining EXCEPT ![r] = [at |-> IF payload = <<>> THEN "no" ELSE "backfill",
                                          len |-> IF payload = <<>> THEN 0 ELSE payload[1]]]
    /\ UNCHANGED <<life, loop, WriteVars, last_sample, DiskVars, readers, queue,
                   frag_assembler, now>>

\* What was loaded becomes the last sample of the topic, even if a newer one was
\* written meanwhile.
Backfill(r) ==
    LET s == Sample(TopicOf[r], joining[r].len, 0, ZeroGuid) IN
    /\ joining[r].at = "backfill"
    /\ last_sample' = [last_sample EXCEPT ![NodeOf[r]] = Insert(@, TopicOf[r], s)]
    /\ queue' = [queue EXCEPT ![r] = Push(@, s)]
    /\ joining' = [joining EXCEPT ![r] = [at |-> "no", len |-> 0]]
    /\ UNCHANGED <<life, loop, WriteVars, DiskVars, readers, frag_assembler, now>>

remove_reader(r) ==
    /\ r \in readers /\ joining[r].at = "no"
    /\ readers' = readers \ {r}
    /\ UNCHANGED <<life, loop, WriteVars, last_sample, DiskVars, joining, queue,
                   frag_assembler, now>>

-----------------------------------------------------------------------------
(* The process of node n dies and is started again: only its files and what*)
(* it sent remain.                                                         *)

Restart(n) ==
    /\ FoldFunction(+, 0, life) < Cardinality(Nodes) + MaxRestarts
    /\ life' = [life EXCEPT ![n] = @ + 1]
    /\ loop' = [loop EXCEPT ![n] = TRUE]
    /\ seq' = [w \in Writers |-> IF NodeOf[w] = n THEN 0 ELSE seq[w]]
    /\ call' = [w \in Writers |-> IF NodeOf[w] = n THEN [at |-> "idle", payload |-> <<>>] ELSE call[w]]
    /\ last_sample' = [last_sample EXCEPT ![n] = Nothing]
    /\ joining' = [r \in Readers |-> IF NodeOf[r] = n THEN [at |-> "no", len |-> 0] ELSE joining[r]]
    /\ readers' = {r \in readers : NodeOf[r] # n}
    /\ queue' = [r \in Readers |-> IF NodeOf[r] = n THEN <<>> ELSE queue[r]]
    /\ frag_assembler' = [frag_assembler EXCEPT ![n] = Nothing]
    /\ UNCHANGED <<net, written, DiskVars, now>>

Next ==
    \/ \E w \in Writers : \E p \in Payloads[w] : WriteClaim(w, p)
    \/ \E w \in Writers : \/ WriteRemember(w) \/ FlushCreate(w) \/ FlushLength(w)
                          \/ FlushPayload(w) \/ FlushCreateFails(w) \/ WriteDispatch(w) \/ WriteSend(w)
    \/ \E d \in net : RecvData(d) \/ RecvFrag(d)
    \/ \E r \in Readers : \/ Register(r) \/ Recall(r) \/ LoadLength(r) \/ LoadPayload(r)
                          \/ Backfill(r) \/ remove_reader(r)
    \/ \E n \in Nodes : Restart(n)
    \/ Tick

Spec == Init /\ [][Next]_vars

-----------------------------------------------------------------------------
(* Properties                                                              *)

\* Two writers whose fragments the assembler takes for those of one sample: it
\* does not look at the participant (fragment.rs, module documentation).
Confused(guid, num) ==
    \E s \in written : /\ s.writer_guid # guid
                       /\ s.writer_guid.entity = guid.entity
                       /\ s.sequence_number = num

\* Whatever the network does and whoever crashes, a reader gets from a writer
\* only payloads that it wrote under that number, however it was fragmented and
\* delivered (dispatch_to_readers, FragmentAssembler::receive).  The known
\* exception are two participants with an EntityId and a number in common.
DeliveredWasWritten ==
    \A r \in Readers : \A i \in DOMAIN queue[r] :
        LET s == queue[r][i] IN
        s.writer_guid # ZeroGuid =>
            \/ \E x \in written : /\ x.writer_guid = s.writer_guid /\ x.payload = s.payload
                                  /\ x.sequence_number = s.sequence_number
            \/ Confused(s.writer_guid, s.sequence_number)

\* What a late joiner is given from disk is a whole sample written to that file,
\* wherever the process died and whatever persist_flush could not write, with two
\* exceptions: a flush of the file overlapped another one or the load, or the
\* length could not be written and some of the payload, which persist_flush writes
\* all the same, stands where persist_load looks for the length.
LoadedWhole ==
    \A r \in Readers : \A i \in DOMAIN queue[r] :
        LET file == persist_path(TopicOf[r]) IN
        /\ queue[r][i].writer_guid = ZeroGuid
        /\ <<NodeOf[r], file>> \notin spoiled
        => \E x \in written : persist_path(x.topic) = file /\ x.payload = queue[r][i].payload

\* Of the fragments that the writers of this library send, however they are lost,
\* repeated and mixed, none ends the receive loop of a participant, unless two
\* participants have an EntityId and a number in common: only then does a fragment
\* meet a buffer made for another data size (FragmentAssembler::receive,
\* spawn_receive_loop).  Fragments that none of them would send are not in net.
LoopEndsOnlyConfused ==
    \A n \in Nodes :
        ~loop[n] => \E x \in written : Confused(x.writer_guid, x.sequence_number)
=============================================================================
