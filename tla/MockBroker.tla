----------------------------- MODULE MockBroker ----------------------------
(***************************************************************************)
(* The in-process broker of MockParticipant (src/mock/mod.rs) for one      *)
(* topic: publishers' write calls, Broker::publish and Broker::subscribe   *)
(* under the mutex of the topic table, subscribers that receive and close, *)
(* and MockParticipant::close.                                             *)
(*                                                                         *)
(* publish holds the table's mutex while it pushes to one subscriber after *)
(* the other; receivers and closers of the subscribers do not take that    *)
(* mutex and run in between.  A subscriber's SubInner is its bounded queue *)
(* and its closed flag: SubQueue has the steps inside push and close.  A   *)
(* sample is the pair of its writer and its sequence number; the payload,  *)
(* the byte counters and the log of RecordingPublisher are left out.       *)
(***************************************************************************)
EXTENDS Naturals, Sequences, FiniteSets, SequencesExt, FiniteSetsExt

CONSTANTS
    Publishers, Subscribers,
    Calls,          \* tasks that call Publisher::write
    Owner,          \* the publisher each of them writes to
    Durable,        \* the endpoints whose QoS is TransientLocal
    QosDepth,       \* QoS.history_depth of each endpoint
    Capacity,       \* channel depth of the subscribers
    Policy,         \* back-pressure policy of the subscribers
    MaxWrites       \* bound: samples written in a behaviour

Endpoints == Publishers \cup Subscribers

ASSUME CallsAssumption == "free" \notin Calls
ASSUME OwnerAssumption == Owner \in [Calls -> Publishers]
ASSUME DurableAssumption == Durable \subseteq Endpoints
ASSUME QosDepthAssumption == QosDepth \in [Endpoints -> Nat]
ASSUME CapacityAssumption == Capacity \in Nat \ {0}
ASSUME PolicyAssumption == Policy \in {"DropNewest", "DropOldest", "Block"}
ASSUME MaxWritesAssumption == MaxWrites \in Nat

Samples == Publishers \X (1..MaxWrites)
Free == "free"
NoSample == <<>>

VARIABLES
    shut,       \* MockParticipant::close: "open", "sweep" or "done"
    pubs,       \* the publishers that exist
    pubClosed,  \* per publisher, MockPublisher.closed
    pubSeq,     \* per publisher, MockPublisher.seq
    holder,     \* the write call that holds the mutex of Broker.topics
    depth,      \* TopicState.history_depth; 0 while there is no TopicState
    cache,      \* TopicState.cache
    registered, \* TopicState.subscribers
    delivers, drops,    \* TopicState.metrics; writes is Len(log)
    wpc,        \* per call: where it is
    sample,     \* per call: the sample it writes
    todo,       \* per call: the subscribers it has not pushed to yet
    spc,        \* per subscriber: "none", "joining" or "open"
    queue,      \* per subscriber: SubInner.queue
    subClosed,  \* per subscriber: SubInner.closed
    log,        \* the samples, in the order publish took the mutex
    taken,      \* per subscriber: the samples its application received
    joined      \* per subscriber: how many samples were published before it

PubVars     == <<pubs, pubClosed, pubSeq>>
TopicVars   == <<depth, cache, registered, log>>
MetricVars  == <<delivers, drops>>
CallVars    == <<wpc, sample, todo>>
SubVars     == <<spc, queue, subClosed, taken, joined>>
vars == <<shut, PubVars, holder, TopicVars, MetricVars, CallVars, SubVars>>

Init ==
    /\ shut = "open"
    /\ pubs = {}
    /\ pubClosed = [p \in Publishers |-> FALSE]
    /\ pubSeq = [p \in Publishers |-> 0]
    /\ holder = Free
    /\ depth = 0 /\ cache = <<>> /\ registered = <<>>
    /\ delivers = 0 /\ drops = 0
    /\ wpc = [c \in Calls |-> "idle"]
    /\ sample = [c \in Calls |-> NoSample]
    /\ todo = [c \in Calls |-> <<>>]
    /\ spc = [s \in Subscribers |-> "none"]
    /\ queue = [s \in Subscribers |-> <<>>]
    /\ subClosed = [s \in Subscribers |-> FALSE]
    /\ log = <<>>
    /\ taken = [s \in Subscribers |-> <<>>]
    /\ joined = [s \in Subscribers |-> 0]

-----------------------------------------------------------------------------
(* SubInner::push on a queue, and the cache of the topic                   *)

Accepts(q) == Policy = "DropOldest" \/ Len(q) < Capacity

Pushed(q, x) ==
    IF Len(q) < Capacity THEN Append(q, x)
    ELSE IF Policy = "DropOldest" THEN Append(Tail(q), x) ELSE q

\* or_insert_with: the first endpoint to touch the topic fixes its depth.
TopicDepth(e) == IF depth # 0 THEN depth ELSE Max({QosDepth[e], 1})

\* Mutant: the cache holds one sample more than history_depth.
CachedTooMany(d, x) ==
    IF Len(cache) > d THEN Append(Tail(cache), x) ELSE Append(cache, x)

\* push_to_cache
Cached(d, x) ==
    IF Len(cache) >= d THEN Append(Tail(cache), x) ELSE Append(cache, x)

-----------------------------------------------------------------------------
(* Publishers                                                              *)

NewPublisher(p) ==
    /\ shut = "open"
    /\ p \notin pubs
    /\ pubs' = pubs \cup {p}
    /\ UNCHANGED <<shut, pubClosed, pubSeq, holder, TopicVars, MetricVars,
                   CallVars, SubVars>>

ClosePublisher(p) ==
    /\ p \in pubs
    /\ pubClosed' = [pubClosed EXCEPT ![p] = TRUE]
    /\ UNCHANGED <<shut, pubs, pubSeq, holder, TopicVars, MetricVars,
                   CallVars, SubVars>>

\* A write that finds its publisher closed or its payload too large returns an
\* error and changes nothing.
WriteCheck(c) ==
    /\ wpc[c] = "idle"
    /\ Owner[c] \in pubs /\ ~pubClosed[Owner[c]]
    /\ wpc' = [wpc EXCEPT ![c] = "claim"]
    /\ UNCHANGED <<shut, PubVars, holder, TopicVars, MetricVars, sample, todo, SubVars>>

WriteClaim(c) ==
    LET p == Owner[c] IN
    /\ wpc[c] = "claim"
    /\ MapThenSumSet(LAMBDA q : pubSeq[q], Publishers) < MaxWrites
    /\ pubSeq' = [pubSeq EXCEPT ![p] = @ + 1]
    /\ sample' = [sample EXCEPT ![c] = <<p, pubSeq[p] + 1>>]
    /\ wpc' = [wpc EXCEPT ![c] = "lock"]
    /\ UNCHANGED <<shut, pubs, pubClosed, holder, TopicVars, MetricVars, todo, SubVars>>

-----------------------------------------------------------------------------
(* Broker::publish                                                         *)

\* The elements of q that are in S, in order.
Only(q, S) == FoldLeft(LAMBDA kept, x : IF x \in S THEN Append(kept, x) ELSE kept, <<>>, q)

\* retain: the subscribers of the list that are not closed.
StillOpen == Only(registered, {s \in Subscribers : ~subClosed[s]})

\* Mutant: the mutex is released before the subscribers are pushed to.
PublishLockReleased(c) ==
    LET p == Owner[c] IN
    /\ wpc[c] = "lock"
    /\ holder = Free
    /\ wpc' = [wpc EXCEPT ![c] = "push"]
    /\ depth' = TopicDepth(p)
    /\ cache' = IF p \in Durable THEN Cached(TopicDepth(p), sample[c]) ELSE cache
    /\ registered' = StillOpen
    /\ todo' = [todo EXCEPT ![c] = StillOpen]
    /\ log' = Append(log, sample[c])
    /\ UNCHANGED <<shut, PubVars, holder, MetricVars, sample, SubVars>>

\* The mutex is taken; the cache and the list of subscribers are updated.
PublishLock(c) ==
    LET p == Owner[c] IN
    /\ wpc[c] = "lock"
    /\ holder = Free
    /\ holder' = c
    /\ wpc' = [wpc EXCEPT ![c] = "push"]
    /\ depth' = TopicDepth(p)
    /\ cache' = IF p \in Durable THEN Cached(TopicDepth(p), sample[c]) ELSE cache
    /\ registered' = StillOpen
    /\ todo' = [todo EXCEPT ![c] = StillOpen]
    /\ log' = Append(log, sample[c])
    /\ UNCHANGED <<shut, PubVars, MetricVars, sample, SubVars>>

\* Mutant: every push counts as a delivery.
PublishPushAllCounted(c) ==
    LET s == Head(todo[c]) IN
    /\ wpc[c] = "push"
    /\ todo[c] # <<>>
    /\ todo' = [todo EXCEPT ![c] = Tail(@)]
    /\ queue' = IF subClosed[s] THEN queue
                ELSE [queue EXCEPT ![s] = Pushed(@, sample[c])]
    /\ delivers' = delivers + 1
    /\ UNCHANGED <<shut, PubVars, holder, TopicVars, drops, wpc, sample,
                   spc, subClosed, taken, joined>>

\* One turn of the loop: push to the next subscriber and count the outcome.
PublishPush(c) ==
    LET s  == Head(todo[c])
        ok == ~subClosed[s] /\ Accepts(queue[s]) IN
    /\ wpc[c] = "push"
    /\ todo[c] # <<>>
    /\ todo' = [todo EXCEPT ![c] = Tail(@)]
    /\ IF ok
       THEN /\ queue' = [queue EXCEPT ![s] = Pushed(@, sample[c])]
            /\ delivers' = delivers + 1
            /\ UNCHANGED drops
       ELSE /\ drops' = drops + 1
            /\ UNCHANGED <<queue, delivers>>
    /\ UNCHANGED <<shut, PubVars, holder, TopicVars, wpc, sample,
                   spc, subClosed, taken, joined>>

\* The mutex guard is dropped and write returns.
PublishUnlock(c) ==
    /\ wpc[c] = "push"
    /\ todo[c] = <<>>
    /\ holder' = Free
    /\ wpc' = [wpc EXCEPT ![c] = "idle"]
    /\ UNCHANGED <<shut, PubVars, TopicVars, MetricVars, sample, todo, SubVars>>

-----------------------------------------------------------------------------
(* Subscribers                                                             *)

NewSubscriber(s) ==
    /\ spc[s] = "none"
    /\ shut = "open"
    /\ spc' = [spc EXCEPT ![s] = "joining"]
    /\ UNCHANGED <<shut, PubVars, holder, TopicVars, MetricVars, CallVars,
                   queue, subClosed, taken, joined>>

\* What a new subscriber finds in its queue.
Replay(s) == IF s \in Durable THEN FoldLeft(Pushed, <<>>, cache) ELSE <<>>

\* Broker::subscribe: nobody else knows the SubInner before the mutex is
\* released, so the replay of the cache is part of the same step.
Subscribe(s) ==
    /\ spc[s] = "joining"
    /\ holder = Free
    /\ depth' = TopicDepth(s)
    /\ queue' = [queue EXCEPT ![s] = Replay(s)]
    /\ registered' = Append(registered, s)
    /\ spc' = [spc EXCEPT ![s] = "open"]
    /\ joined' = [joined EXCEPT ![s] = Len(log)]
    /\ UNCHANGED <<shut, PubVars, holder, cache, log, MetricVars, CallVars,
                   subClosed, taken>>

\* recv or try_recv returns a sample.
Receive(s) ==
    /\ queue[s] # <<>>
    /\ queue' = [queue EXCEPT ![s] = Tail(@)]
    /\ taken' = [taken EXCEPT ![s] = Append(@, Head(queue[s]))]
    /\ UNCHANGED <<shut, PubVars, holder, TopicVars, MetricVars, CallVars,
                   spc, subClosed, joined>>

\* MockSubscriber::close or unsubscribe.
CloseSubscriber(s) ==
    /\ spc[s] = "open"
    /\ subClosed' = [subClosed EXCEPT ![s] = TRUE]
    /\ UNCHANGED <<shut, PubVars, holder, TopicVars, MetricVars, CallVars,
                   spc, queue, taken, joined>>

-----------------------------------------------------------------------------
(* MockParticipant::close: the flag, then every subscriber in the table    *)

CloseParticipant ==
    /\ shut = "open"
    /\ shut' = "sweep"
    /\ UNCHANGED <<PubVars, holder, TopicVars, MetricVars, CallVars, SubVars>>

CloseSweep ==
    /\ shut = "sweep"
    /\ holder = Free
    /\ shut' = "done"
    /\ subClosed' = [s \in Subscribers |-> subClosed[s] \/ s \in ToSet(registered)]
    /\ UNCHANGED <<PubVars, holder, TopicVars, MetricVars, CallVars,
                   spc, queue, taken, joined>>

-----------------------------------------------------------------------------
(* MetricsProvider: a topic nobody has published on is left out            *)

snapshot == [write_count |-> Len(log), deliver_count |-> delivers, drop_count |-> drops]

topic_metrics == {m \in {snapshot} : m.write_count > 0}

-----------------------------------------------------------------------------
Write(c) == \/ WriteCheck(c) \/ WriteClaim(c)
            \/ PublishLock(c) \/ PublishPush(c) \/ PublishUnlock(c)

Next ==
    \/ \E p \in Publishers : NewPublisher(p) \/ ClosePublisher(p)
    \/ \E c \in Calls : Write(c)
    \/ \E s \in Subscribers :
          NewSubscriber(s) \/ Subscribe(s) \/ Receive(s) \/ CloseSubscriber(s)
    \/ CloseParticipant \/ CloseSweep

Spec == Init /\ [][Next]_vars

-----------------------------------------------------------------------------
(* Properties                                                              *)

\* Every sample subscriber s was ever given and did not lose, oldest first.
Stream(s) == taken[s] \o queue[s]

Position(x) == SelectInSeq(log, LAMBDA y : y = x)

\* All subscribers of a topic see its samples in one order, that in which the
\* writes took the broker's mutex, and none twice, the replay of the cache to
\* a late joiner included.
OneOrder ==
    \A s \in Subscribers : \A i, j \in 1..Len(Stream(s)) :
        i < j => Position(Stream(s)[i]) < Position(Stream(s)[j])

DurableSamples == (Publishers \cap Durable) \X Nat

\* The last n elements of q, or all of them.
LastOf(q, n) == SubSeq(q, Max({1, Len(q) - n + 1}), Len(q))

\* What subscriber s must have been given while none of it was lost.
Expected(s) ==
    LET before == Only(SubSeq(log, 1, joined[s]), DurableSamples)
        since  == SubSeq(log, joined[s] + 1, Len(log))
    IN  IF s \in Durable THEN LastOf(before, depth) \o since ELSE since

\* Between the replay of the cache and the first live sample nothing is missing
\* and nothing is repeated, wherever in a concurrent publish the subscriber
\* joins, as long as no sample has been dropped.
NoGapOnJoin ==
    (holder = Free /\ drops = 0 /\ depth <= Capacity /\ Policy # "DropOldest") =>
        \A s \in Subscribers :
            (spc[s] = "open" /\ ~subClosed[s]) => Stream(s) = Expected(s)

Replayed(s) ==
    IF s \notin Durable THEN 0
    ELSE Min({Capacity, depth,
              Len(Only(SubSeq(log, 1, joined[s]), DurableSamples))})

\* What REQ-MON-006 says of deliver_count: it is the number of samples that
\* subscribers received or still have queued, the replayed ones not counted.
DeliveriesCounted ==
    \A m \in topic_metrics :
        m.deliver_count + MapThenSumSet(Replayed, {s \in Subscribers : spc[s] = "open"})
            = MapThenSumSet(LAMBDA s : Len(Stream(s)), Subscribers)
=============================================================================
