------------------------------- MODULE Shmem -------------------------------
(***************************************************************************)
(* The shared-memory transport (src/shmem/) for one domain and one topic:  *)
(* the broker of each process, the rendezvous file that the publishers of  *)
(* all processes write and the pollers of all subscribers read, loans from *)
(* a publisher's buffer pool, and processes that die at any moment.        *)
(*                                                                         *)
(* write_sample creates and truncates data.bin.tmp, fills it and renames   *)
(* it to data.bin.  The path of the temporary file is shared by all        *)
(* writers, so the file system is modelled by its inodes: a path names an  *)
(* inode, an open file keeps its inode when the path is renamed away.  A   *)
(* sample is the pair of its writer and its sequence number; a restarted   *)
(* process draws a new process_origin_id and is another process.           *)
(***************************************************************************)
EXTENDS Naturals, Sequences, FiniteSets, SequencesExt, FiniteSetsExt

CONSTANTS
    Procs,              \* operating-system processes, one participant each
    Publishers, Subscribers,
    Calls,              \* the calls of write_payload that may be inside at once
    Home,               \* the process of each endpoint
    DurablePublishers,  \* the publishers whose QoS is TransientLocal
    Loaners,            \* the publishers that are ShmemLoaningPublishers
    Capacity,           \* channel depth of the subscribers
    Policy,             \* back-pressure policy of the subscribers
    BufSize,            \* BytePool.size
    MaxPooled,          \* BytePool::MAX_POOLED
    MaxWrites,          \* bound: samples written in a behaviour
    MaxOverlap          \* bound: the same once calls of one publisher have overlapped

Endpoints == Publishers \cup Subscribers

ASSUME HomeAssumption == Home \in [Endpoints -> Procs]
ASSUME FiniteAssumption == IsFiniteSet(Publishers) /\ IsFiniteSet(Calls)
ASSUME DurableAssumption == DurablePublishers \subseteq Publishers
ASSUME LoanersAssumption == Loaners \subseteq Publishers
ASSUME CapacityAssumption == Capacity \in Nat \ {0}
ASSUME PolicyAssumption == Policy \in {"DropNewest", "DropOldest", "Block"}
ASSUME PoolAssumption == BufSize \in Nat \ {0} /\ MaxPooled \in Nat
ASSUME BoundsAssumption == MaxWrites \in Nat /\ MaxOverlap \in Nat

Samples == Publishers \X (1..MaxWrites)
Nothing == <<>>                         \* no sample, or an empty file

\* One inode for each open file and one for each of the two paths.
Inodes == 1..(Cardinality(Calls) + 2)
NoInode == 0

Capacities == 1..BufSize                \* capacities of the callers' buffers

VARIABLES
    alive,      \* per process: "open", "closed" (ShmemParticipant) or "dead"
    pub,        \* per publisher: "none", "open" or "closed"
    seq,        \* per publisher: ShmemPublisher.seq
    wpc,        \* per call of write_payload: where it is
    writing,    \* per call: its sample
    free,       \* per publisher: BytePool.free, as capacities
    last,       \* per process: TopicState.last_sample of its broker
    registered, \* per process: TopicState.subscribers of its broker
    sub,        \* per subscriber: "none", "open" or "closed" (SubInner.closed)
    durable,    \* the subscribers whose QoS is TransientLocal
    poll,       \* per subscriber: its poller: "none", "seed", "tick" or "ended"
    lastSeq,    \* per subscriber: last_seq of its poller
    unread,     \* per subscriber: length of SubInner.queue
    given,      \* per subscriber: samples its queue accepted, in order
    tmp, data,  \* the inodes of data.bin.tmp and data.bin
    content,    \* per inode: the sample in it
    fd,         \* per call: the inode it has open
    written,    \* history: samples whose write_sample has returned
    before,     \* history: per subscriber, what was written when it was made
    overlapped, \* history: <<x, y>> of one publisher, y claimed while x was being written
    raced       \* history: two calls of write_sample have overlapped

EndVars  == <<alive, pub, seq, last, registered>>
SubVars  == <<sub, durable, poll, lastSeq, unread, given, before>>
FileVars == <<tmp, data, content, fd, written, raced>>
CallVars == <<wpc, writing, overlapped>>
vars == <<EndVars, CallVars, free, SubVars, FileVars>>

Init ==
    /\ alive = [p \in Procs |-> "open"]
    /\ pub = [p \in Publishers |-> "none"]
    /\ seq = [p \in Publishers |-> 0]
    /\ wpc = [c \in Calls |-> "idle"]
    /\ writing = [c \in Calls |-> Nothing]
    /\ overlapped = {}
    /\ free = [p \in Publishers |-> <<>>]
    /\ last = [p \in Procs |-> Nothing]
    /\ registered = [p \in Procs |-> {}]
    /\ sub = [s \in Subscribers |-> "none"]
    /\ durable = {}
    /\ poll = [s \in Subscribers |-> "none"]
    /\ lastSeq = [s \in Subscribers |-> 0]
    /\ unread = [s \in Subscribers |-> 0]
    /\ given = [s \in Subscribers |-> <<>>]
    /\ tmp = NoInode /\ data = NoInode
    /\ content = [i \in Inodes |-> Nothing]
    /\ fd = [c \in Calls |-> NoInode]
    /\ written = {}
    /\ before = [s \in Subscribers |-> {}]
    /\ raced = FALSE

-----------------------------------------------------------------------------
(* SubInner::push: sample x is offered to the subscribers S.  The queue is *)
(* the last unread[s] samples of given[s] under every policy.              *)

Takes(s) == sub[s] = "open" /\ (Policy = "DropOldest" \/ unread[s] < Capacity)

Push(S, x) ==
    /\ given' = [s \in Subscribers |->
                    IF s \in S /\ Takes(s) THEN Append(given[s], x) ELSE given[s]]
    /\ unread' = [s \in Subscribers |->
                    IF s \in S /\ Takes(s) THEN Min({unread[s] + 1, Capacity})
                    ELSE unread[s]]

-----------------------------------------------------------------------------
(* BytePool: put keeps a buffer unless it is too small or the list full    *)

\* Mutant: undersized buffers are pooled as well.
PutAny(list, c) == IF Len(list) >= MaxPooled THEN list ELSE Append(list, c)

Put(list, c) ==
    IF c < BufSize \/ Len(list) >= MaxPooled THEN list ELSE Append(list, c)

\* The capacity of the buffer that get returns.
Got(list) == IF list = <<>> THEN BufSize ELSE Last(list)

\* loan: the buffer leaves the pool with the caller, or it is put back because it
\* is too small, even if it did not come from there.
Loan(p, size) ==
    LET rest == IF free[p] = <<>> THEN <<>> ELSE Front(free[p]) IN
    /\ p \in Loaners /\ pub[p] = "open"
    /\ free' = [free EXCEPT ![p] = IF Got(@) < size THEN Put(rest, Got(@)) ELSE rest]
    /\ UNCHANGED <<EndVars, CallVars, SubVars, FileVars>>

-----------------------------------------------------------------------------
(* Publishers                                                              *)

NewPublisher(p) ==
    /\ alive[Home[p]] = "open"
    /\ pub[p] = "none"
    /\ pub' = [pub EXCEPT ![p] = "open"]
    /\ UNCHANGED <<alive, seq, last, registered, CallVars, free, SubVars, FileVars>>

ClosePublisher(p) ==
    /\ pub[p] = "open"
    /\ pub' = [pub EXCEPT ![p] = "closed"]
    /\ UNCHANGED <<alive, seq, last, registered, CallVars, free, SubVars, FileVars>>

Running(p) == {c \in Calls : wpc[c] # "idle" /\ writing[c][1] = p}

\* write_payload begins; a write that is refused changes nothing.  Calls of one
\* publisher may overlap: nothing is locked between fetch_add and publish.
WriteClaim(c, p) ==
    LET x == <<p, seq[p] + 1>> IN
    /\ wpc[c] = "idle" /\ pub[p] = "open"
    /\ overlapped' = overlapped \cup {<<writing[d], x>> : d \in Running(p)}
    /\ MapThenSumSet(LAMBDA q : seq[q], Publishers)
          < IF overlapped' = {} THEN MaxWrites ELSE MaxOverlap
    /\ seq' = [seq EXCEPT ![p] = @ + 1]
    /\ wpc' = [wpc EXCEPT ![c] = "publish"]
    /\ writing' = [writing EXCEPT ![c] = x]
    /\ UNCHANGED <<alive, pub, last, registered, free, SubVars, FileVars>>

\* commit on a closed publisher: the error is returned after the put.
CommitClosed(p, size) ==
    /\ pub[p] = "closed" /\ p \in Loaners /\ alive[Home[p]] # "dead"
    /\ free' = [free EXCEPT ![p] = Put(@, size)]
    /\ UNCHANGED <<EndVars, CallVars, SubVars, FileVars>>

\* Broker::publish, under the mutex of the process's topic table.
Publish(c) ==
    LET x == writing[c]  h == Home[x[1]] IN
    /\ wpc[c] = "publish"
    /\ last' = IF x[1] \in DurablePublishers THEN [last EXCEPT ![h] = x] ELSE last
    /\ registered' = [registered EXCEPT ![h] = {s \in @ : sub[s] # "closed"}]
    /\ Push(registered[h], x)
    /\ wpc' = [wpc EXCEPT ![c] = "create"]
    /\ UNCHANGED <<alive, pub, seq, writing, overlapped, free, sub, durable, poll, lastSeq,
                   before, FileVars>>

\* write_payload returns: to write, or to commit, which gives the buffer it
\* was called with to the pool, whatever the outcome of the write.
Return(c) ==
    LET p == writing[c][1] IN
    /\ wpc' = [wpc EXCEPT ![c] = "idle"]
    /\ writing' = [writing EXCEPT ![c] = Nothing]
    /\ \/ UNCHANGED free
       \/ /\ p \in Loaners
          /\ \E size \in Capacities : free' = [free EXCEPT ![p] = Put(@, size)]

-----------------------------------------------------------------------------
(* write_sample                                                            *)

Unused == Inodes \ ({tmp, data} \cup Range(fd))

\* File::create: the file is truncated if the path exists.
CreateTmp(c) ==
    LET i == IF tmp = NoInode THEN Min(Unused) ELSE tmp IN
    /\ wpc[c] = "create"
    /\ tmp' = i
    /\ fd' = [fd EXCEPT ![c] = i]
    /\ content' = [content EXCEPT ![i] = Nothing]
    /\ raced' = (raced \/ \E d \in Calls : wpc[d] \in {"fill", "rename"})
    /\ wpc' = [wpc EXCEPT ![c] = "fill"]
    /\ UNCHANGED <<EndVars, writing, overlapped, free, SubVars, data, written>>

\* write_all: what the file decodes to is the sample written last.
FillTmp(c) ==
    /\ wpc[c] = "fill"
    /\ content' = [content EXCEPT ![fd[c]] = writing[c]]
    /\ fd' = [fd EXCEPT ![c] = NoInode]
    /\ wpc' = [wpc EXCEPT ![c] = "rename"]
    /\ UNCHANGED <<EndVars, writing, overlapped, free, SubVars, tmp, data, written, raced>>

\* create_dir_all, File::create or write_all fails: the sample is given up.
WriteFails(c) ==
    /\ wpc[c] \in {"create", "fill"}
    /\ Return(c)
    /\ fd' = [fd EXCEPT ![c] = NoInode]
    /\ UNCHANGED <<EndVars, overlapped, SubVars, tmp, data, content, written, raced>>

\* Mutant: the file is put in place before it is filled.
RenameEarly(c) ==
    /\ wpc[c] = "fill"
    /\ data' = tmp
    /\ tmp' = NoInode
    /\ Return(c)
    /\ fd' = [fd EXCEPT ![c] = NoInode]
    /\ written' = written \cup {writing[c]}
    /\ UNCHANGED <<EndVars, overlapped, SubVars, content, raced>>

\* rename: an error (somebody renamed the file already) is ignored.
Rename(c) ==
    /\ wpc[c] = "rename"
    /\ data' = IF tmp = NoInode THEN data ELSE tmp
    /\ tmp' = NoInode
    /\ Return(c)
    /\ written' = written \cup {writing[c]}
    /\ UNCHANGED <<EndVars, overlapped, SubVars, content, fd, raced>>

-----------------------------------------------------------------------------
(* Subscribers and their pollers                                           *)

\* new_subscriber: Broker::subscribe replays the cached sample of this process
\* and registers the queue; the poller task is spawned.
NewSubscriber(s, durability) ==
    LET h == Home[s]
        replay == durability = "TransientLocal" /\ last[h] # Nothing IN
    /\ alive[h] = "open"
    /\ sub[s] = "none"
    /\ sub' = [sub EXCEPT ![s] = "open"]
    /\ durable' = IF durability = "TransientLocal" THEN durable \cup {s} ELSE durable
    /\ given' = IF replay THEN [given EXCEPT ![s] = <<last[h]>>] ELSE given
    /\ unread' = IF replay THEN [unread EXCEPT ![s] = 1] ELSE unread
    /\ registered' = [registered EXCEPT ![h] = @ \cup {s}]
    /\ poll' = [poll EXCEPT ![s] = "seed"]
    /\ before' = [before EXCEPT ![s] = written]
    /\ UNCHANGED <<alive, pub, seq, last, CallVars, free, lastSeq, FileVars>>

\* read_current and decode: the sample in data.bin; no file, or one that is
\* shorter than it says, is an error.
Current == IF data = NoInode THEN Nothing ELSE content[data]

Foreign(s, x) == Home[x[1]] # Home[s]

\* Mutant: the content found at the start is not remembered.
SeedForgets(s) ==
    /\ poll[s] = "seed"
    /\ poll' = [poll EXCEPT ![s] = "tick"]
    /\ UNCHANGED <<EndVars, CallVars, free, sub, durable, given, unread, lastSeq, before, FileVars>>

\* The start of the poller task.
Seed(s) ==
    /\ poll[s] = "seed"
    /\ poll' = [poll EXCEPT ![s] = "tick"]
    /\ lastSeq' = [lastSeq EXCEPT ![s] = IF Current = Nothing THEN 0 ELSE Current[2]]
    /\ IF Current # Nothing /\ s \in durable /\ Foreign(s, Current)
       THEN Push({s}, Current) ELSE UNCHANGED <<given, unread>>
    /\ UNCHANGED <<EndVars, CallVars, free, sub, durable, before, FileVars>>

\* Mutant: the poller delivers this process's own samples too.
TickEchoes(s) ==
    /\ poll[s] = "tick" /\ sub[s] = "open"
    /\ Current # Nothing /\ Current[2] > lastSeq[s]
    /\ lastSeq' = [lastSeq EXCEPT ![s] = Current[2]]
    /\ Push({s}, Current)
    /\ UNCHANGED <<EndVars, CallVars, free, sub, durable, poll, before, FileVars>>

\* A tick that finds a newer sample of another process.
Tick(s) ==
    /\ poll[s] = "tick" /\ sub[s] = "open"
    /\ Current # Nothing /\ Foreign(s, Current) /\ Current[2] > lastSeq[s]
    /\ lastSeq' = [lastSeq EXCEPT ![s] = Current[2]]
    /\ Push({s}, Current)
    /\ UNCHANGED <<EndVars, CallVars, free, sub, durable, poll, before, FileVars>>

\* A tick that finds the subscriber unsubscribed.
TickEnds(s) ==
    /\ poll[s] = "tick" /\ sub[s] = "closed"
    /\ poll' = [poll EXCEPT ![s] = "ended"]
    /\ UNCHANGED <<EndVars, CallVars, free, sub, durable, lastSeq, unread, given, before, FileVars>>

Receive(s) ==
    /\ unread[s] > 0
    /\ unread' = [unread EXCEPT ![s] = @ - 1]
    /\ UNCHANGED <<EndVars, CallVars, free, sub, durable, poll, lastSeq, given, before, FileVars>>

Deregister(s) == [registered EXCEPT ![Home[s]] = @ \ {s}]

Unsubscribe(s) ==
    /\ sub[s] = "open"
    /\ sub' = [sub EXCEPT ![s] = "closed"]
    /\ registered' = Deregister(s)
    /\ UNCHANGED <<alive, pub, seq, last, CallVars, free, durable, poll, lastSeq, unread,
                   given, before, FileVars>>

\* close: as unsubscribe, and the poller is aborted.
CloseSubscriber(s) ==
    /\ sub[s] # "none"
    /\ sub' = [sub EXCEPT ![s] = "closed"]
    /\ registered' = Deregister(s)
    /\ poll' = [poll EXCEPT ![s] = "ended"]
    /\ UNCHANGED <<alive, pub, seq, last, CallVars, free, durable, lastSeq, unread,
                   given, before, FileVars>>

-----------------------------------------------------------------------------
(* Participants and processes                                              *)

\* ShmemParticipant::close sets its flag and nothing else.
CloseParticipant(h) ==
    /\ alive[h] = "open"
    /\ alive' = [alive EXCEPT ![h] = "closed"]
    /\ UNCHANGED <<pub, seq, last, registered, CallVars, free, SubVars, FileVars>>

\* The process dies: its memory is gone, its files stay as they are.
Crash(h) ==
    LET mine(e) == Home[e] = h
        ends(c) == wpc[c] # "idle" /\ mine(writing[c][1]) IN
    /\ alive[h] # "dead"
    /\ alive' = [alive EXCEPT ![h] = "dead"]
    /\ pub' = [p \in Publishers |-> IF mine(p) THEN "closed" ELSE pub[p]]
    /\ wpc' = [c \in Calls |-> IF ends(c) THEN "idle" ELSE wpc[c]]
    /\ writing' = [c \in Calls |-> IF ends(c) THEN Nothing ELSE writing[c]]
    /\ fd' = [c \in Calls |-> IF ends(c) THEN NoInode ELSE fd[c]]
    /\ free' = [p \in Publishers |-> IF mine(p) THEN <<>> ELSE free[p]]
    /\ last' = [last EXCEPT ![h] = Nothing]
    /\ registered' = [registered EXCEPT ![h] = {}]
    /\ sub' = [s \in Subscribers |-> IF mine(s) THEN "closed" ELSE sub[s]]
    /\ poll' = [s \in Subscribers |-> IF mine(s) THEN "ended" ELSE poll[s]]
    /\ unread' = [s \in Subscribers |-> IF mine(s) THEN 0 ELSE unread[s]]
    /\ UNCHANGED <<seq, overlapped, durable, lastSeq, given, before, tmp, data, content, written,
                   raced>>

-----------------------------------------------------------------------------
Write(c) ==
    \/ \E p \in Publishers : WriteClaim(c, p)
    \/ Publish(c) \/ CreateTmp(c) \/ FillTmp(c) \/ WriteFails(c) \/ Rename(c)

Poll(s) == Seed(s) \/ Tick(s) \/ TickEnds(s)

Next ==
    \/ \E p \in Publishers : NewPublisher(p) \/ ClosePublisher(p)
    \/ \E c \in Calls : Write(c)
    \/ \E p \in Publishers, size \in 1..(BufSize + 1) : Loan(p, size)
    \/ \E p \in Publishers, size \in Capacities : CommitClosed(p, size)
    \/ \E s \in Subscribers, d \in {"Volatile", "TransientLocal"} : NewSubscriber(s, d)
    \/ \E s \in Subscribers :
          Poll(s) \/ Receive(s) \/ Unsubscribe(s) \/ CloseSubscriber(s)
    \/ \E h \in Procs : CloseParticipant(h) \/ Crash(h)

Spec == Init /\ [][Next]_vars

-----------------------------------------------------------------------------
(* Properties                                                              *)

\* Subscriber s may be given x and later y.
Follows(s, x, y) ==
    \/ x[1] # y[1] \/ x[2] < y[2]
    \/ x[2] > y[2] /\ ~Foreign(s, x) /\ <<y, x>> \in overlapped

\* Over both delivery paths, the replay of the broker's cache and what the
\* poller finds on disk included, a subscriber is given no sample twice and those
\* of each writer in the order of their numbers, with one exception: of two
\* calls on one publisher that overlap, either may reach Broker::publish first,
\* so that a subscriber of the same process is given the later number before the
\* earlier one.  A write that began after another had returned is never given
\* before it, and across processes the order holds without exception.
WriterOrder ==
    \A s \in Subscribers : \A i, j \in 1..Len(given[s]) :
        i < j => Follows(s, given[s][i], given[s][j])

\* A Volatile subscriber is never given a sample that had been written before
\* it was created, by any process (the seeding of last_seq in spawn_poller).
VolatileFresh ==
    \A s \in Subscribers \ durable : ToSet(given[s]) \cap before[s] = {}

\* A reader finds the previous sample or the new one, never a part of one,
\* wherever writers fail or die in write_sample, unless a second writer has
\* truncated the temporary file of one that had not renamed it yet.
WholeUnlessRaced == (data # NoInode /\ ~raced) => content[data] # Nothing

\* Whatever buffers callers commit, a loan of up to the pool's buffer size is
\* served (REQ-LOAN-002): loan fails only on larger ones.
LoanServed == \A p \in Loaners : Got(free[p]) >= BufSize

=============================================================================
