------------------------------- MODULE Adapter -----------------------------
(***************************************************************************)
(* The relay node (adapt.rs) on top of an RTPS participant                 *)
(* (rtps/dds_participant.rs): send with its publishers created on demand,  *)
(* subscribe with its forwarder task between the subscriber channel and    *)
(* the mpsc channel of the caller, and close of both.                      *)
(*                                                                         *)
(* One subscription, of topic Topic, with a policy of the caller's choice. *)
(* Messages are numbered in the order in which they reach the subscriber   *)
(* channel; what happens inside RtpsWriter::write and SubInner is in       *)
(* DataPath and SubQueue.  A tokio mutex or channel is external: one that  *)
(* is locked or full makes the caller wait.                                *)
(***************************************************************************)
EXTENDS Naturals, Sequences, FiniteSets, SequencesExt

CONSTANTS
    Senders,        \* callers of send, one call at a time each
    Topic,          \* the subscribed topic
    EmptyTopic,     \* ""
    ChannelDepth,   \* SubscriberOptions.channel_depth
    DefaultDepth,   \* 64 in the code
    MaxMessages     \* bound: messages that reach the subscriber channel

ASSUME AdapterAssumption ==
    ChannelDepth \in Nat /\ DefaultDepth \in Nat \ {0} /\ Topic # EmptyTopic

VARIABLES
    closed,         \* DdsNode.closed
    publishers,     \* DdsNode.publishers: topics
    lock,           \* who holds its mutex, {} or one sender
    made,           \* history: per topic, publishers the participant made for the node
    send,           \* per sender: [at, topic, result]
    closing,        \* where close is
    pclosed,        \* RtpsUdpParticipant.closed
    subscribers,    \* the subscriber channel is in RtpsUdpParticipant.subscribers
    reader,         \* it is in the table that dispatch_to_readers goes through
    policy,         \* back_pressure of the subscription
    subscribing,    \* where subscribe is
    queue, qclosed, \* SubInner
    task,           \* the forwarder: "none", "running", "ended"
    hand,           \* a message it waits to send, <<>> or one (Block)
    backlog,        \* its backlog (DropOldest)
    tx,             \* messages in the mpsc channel
    attached,       \* the caller still has the Receiver
    pushed,         \* messages numbered so far
    accepted,       \* history: those that the subscriber channel took
    got,            \* history: those that the caller received
    lost            \* history: those dropped for want of room

NodeVars == <<closed, publishers, lock, made, send, closing>>
PartVars == <<pclosed, subscribers, reader>>
SubVars  == <<policy, subscribing, task, hand, backlog, tx, attached>>
MsgVars  == <<queue, pushed, accepted, got, lost>>
vars == <<NodeVars, PartVars, SubVars, MsgVars, qclosed>>

Policies == {"DropNewest", "DropOldest", "Block"}

\* Error::as_relay, and what the node makes of an error without a counterpart.
as_relay(e) ==
    CASE e \in {"Closed", "LoanBuffer"} -> "Closed"
      [] e \in {"Timeout", "DeadlineMissed"} -> "Timeout"
      [] e \in {"PayloadTooLarge", "SampleRejected", "ResourceLimits"} -> "PayloadTooLarge"
      [] OTHER -> "NotConnected"

chan_depth == IF ChannelDepth > 0 THEN ChannelDepth ELSE DefaultDepth

\* The capacity of the mpsc channel.
TxDepth == IF policy = "DropOldest" THEN 1 ELSE chan_depth

Init ==
    /\ closed = FALSE /\ publishers = {} /\ lock = {} /\ made = [t \in {Topic, EmptyTopic} |-> 0]
    /\ send = [s \in Senders |-> [at |-> "idle", topic |-> Topic, result |-> "Ok"]]
    /\ closing = "no" /\ pclosed = FALSE /\ subscribers = FALSE /\ reader = FALSE
    /\ policy \in Policies /\ subscribing = "no"
    /\ queue = <<>> /\ qclosed = FALSE
    /\ task = "none" /\ hand = <<>> /\ backlog = <<>> /\ tx = <<>> /\ attached = FALSE
    /\ pushed = 0 /\ accepted = {} /\ got = <<>> /\ lost = {}

-----------------------------------------------------------------------------
(* DdsNode::send                                                           *)

Sends(s, at) == send[s].at = at
SendStep(s, at) == send' = [send EXCEPT ![s].at = at]
SendReturns(s, result) == send' = [send EXCEPT ![s].at = "idle", ![s].result = result]

\* ctx.done() may already be true when the call is made.
SendStart(s, topic, done) ==
    /\ Sends(s, "idle") /\ pushed < MaxMessages
    /\ send' = [send EXCEPT ![s] =
          [at |-> IF closed \/ done THEN "idle" ELSE "lock", topic |-> topic,
           result |-> IF closed THEN "Closed" ELSE IF done THEN as_relay("Timeout") ELSE "Ok"]]
    /\ UNCHANGED <<closed, publishers, lock, made, closing, PartVars, SubVars, MsgVars, qclosed>>

\* Mutant: the mutex is given up while the publisher is created.
SendLockShort(s) ==
    /\ Sends(s, "lock")
    /\ SendStep(s, IF send[s].topic \in publishers THEN "write" ELSE "create")
    /\ UNCHANGED <<closed, publishers, lock, made, closing, PartVars, SubVars, MsgVars, qclosed>>

\* The mutex is kept while new_publisher awaits.
SendLock(s) ==
    /\ Sends(s, "lock") /\ lock = {}
    /\ SendStep(s, IF send[s].topic \in publishers THEN "write" ELSE "create")
    /\ lock' = IF send[s].topic \in publishers THEN {} ELSE {s}
    /\ UNCHANGED <<closed, publishers, made, closing, PartVars, SubVars, MsgVars, qclosed>>

\* RtpsUdpParticipant::new_publisher
SendCreate(s) ==
    LET topic == send[s].topic IN
    /\ Sends(s, "create")
    /\ lock' = lock \ {s}
    /\ IF pclosed \/ topic = EmptyTopic
       THEN /\ SendReturns(s, as_relay(IF pclosed THEN "Closed" ELSE "TopicEmpty"))
            /\ UNCHANGED <<publishers, made>>
       ELSE /\ SendStep(s, "write")
            /\ publishers' = publishers \cup {topic}
            /\ made' = [made EXCEPT ![topic] = @ + 1]
    /\ UNCHANGED <<closed, closing, PartVars, SubVars, MsgVars, qclosed>>

\* RtpsPublisher::write, up to where SubInner::push of the local reader has tested
\* the flags.  No one closes the publishers of the node, so a call that is here
\* goes through.
SendWrite(s) ==
    /\ Sends(s, "write")
    /\ IF reader /\ ~qclosed THEN SendStep(s, "push") ELSE SendReturns(s, "Ok")
    /\ UNCHANGED <<closed, publishers, lock, made, closing, PartVars, SubVars, MsgVars, qclosed>>

\* The rest of SubInner::push, under the mutex of the queue, with the next message;
\* the flags may have changed since.
Push ==
    LET full == Len(queue) >= chan_depth
        n == pushed + 1
    IN  /\ pushed' = n
        /\ IF full /\ policy # "DropOldest"
           THEN UNCHANGED <<queue, accepted, lost>>
           ELSE /\ accepted' = accepted \cup {n}
                /\ queue' = Append(IF full THEN Tail(queue) ELSE queue, n)
                /\ lost' = IF full THEN lost \cup {queue[1]} ELSE lost

SendPush(s) ==
    /\ Sends(s, "push") /\ pushed < MaxMessages
    /\ Push
    /\ SendReturns(s, "Ok")
    /\ UNCHANGED <<closed, publishers, lock, made, closing, PartVars, SubVars, got, qclosed>>

-----------------------------------------------------------------------------
(* DdsNode::subscribe and RtpsUdpParticipant::new_subscriber               *)

SubscribeStep(at) == subscribing' = at

\* The checks of both, a subscription without a topic being an error as well.
SubscribeStart ==
    /\ subscribing = "no" /\ ~closed
    /\ SubscribeStep(IF pclosed THEN "failed" ELSE "register")
    /\ UNCHANGED <<NodeVars, PartVars, policy, task, hand, backlog, tx, attached, MsgVars, qclosed>>

SubscribeRefused ==
    /\ subscribing = "no"
    /\ SubscribeStep("failed")
    /\ UNCHANGED <<NodeVars, PartVars, policy, task, hand, backlog, tx, attached, MsgVars, qclosed>>

SubscribeRegister ==
    /\ subscribing = "register"
    /\ reader' = TRUE
    /\ SubscribeStep("list")
    /\ UNCHANGED <<NodeVars, pclosed, subscribers, policy, task, hand, backlog, tx, attached,
                   MsgVars, qclosed>>

SubscribeList ==
    /\ subscribing = "list"
    /\ subscribers' = TRUE
    /\ SubscribeStep("done")
    /\ task' = "running" /\ attached' = TRUE
    /\ UNCHANGED <<NodeVars, pclosed, reader, policy, hand, backlog, tx, MsgVars, qclosed>>

-----------------------------------------------------------------------------
(* The forwarder.  Its end drops the sender of the mpsc channel, and with  *)
(* it what it holds.                                                       *)

Ends ==
    /\ task' = "ended" /\ hand' = <<>> /\ backlog' = <<>>

\* DropNewest: try_send.
ForwardTry ==
    /\ task = "running" /\ policy = "DropNewest" /\ queue # <<>>
    /\ queue' = Tail(queue)
    /\ IF ~attached THEN Ends /\ UNCHANGED <<tx, lost>>
       ELSE /\ tx' = IF Len(tx) < TxDepth THEN Append(tx, queue[1]) ELSE tx
            /\ lost' = IF Len(tx) < TxDepth THEN lost ELSE lost \cup {queue[1]}
            /\ UNCHANGED <<task, hand, backlog>>
    /\ UNCHANGED <<NodeVars, PartVars, policy, subscribing, attached, pushed, accepted, got, qclosed>>

\* Block: recv, then send, which waits for room or for the end of the receiver.
ForwardTake ==
    /\ task = "running" /\ policy = "Block" /\ hand = <<>> /\ queue # <<>>
    /\ hand' = <<queue[1]>> /\ queue' = Tail(queue)
    /\ UNCHANGED <<NodeVars, PartVars, policy, subscribing, task, backlog, tx, attached, pushed,
                   accepted, got, lost, qclosed>>

\* Mutant: a message that does not fit is dropped.
ForwardSendDrops ==
    /\ task = "running" /\ hand # <<>>
    /\ tx' = IF Len(tx) < TxDepth THEN tx \o hand ELSE tx
    /\ hand' = <<>>
    /\ UNCHANGED <<NodeVars, PartVars, policy, subscribing, task, backlog, attached, MsgVars, qclosed>>

ForwardSend ==
    /\ task = "running" /\ hand # <<>>
    /\ \/ ~attached /\ Ends /\ UNCHANGED tx
       \/ /\ attached /\ Len(tx) < TxDepth
          /\ tx' = tx \o hand /\ hand' = <<>>
          /\ UNCHANGED <<task, backlog>>
    /\ UNCHANGED <<NodeVars, PartVars, policy, subscribing, attached, MsgVars, qclosed>>

\* Mutant: the backlog is handed over only once there are two messages in it.
ForwardReserveLate ==
    /\ task = "running" /\ policy = "DropOldest" /\ Len(backlog) > 1
    /\ attached /\ Len(tx) < TxDepth
    /\ tx' = Append(tx, backlog[1]) /\ backlog' = Tail(backlog)
    /\ UNCHANGED <<NodeVars, PartVars, policy, subscribing, task, hand, attached, MsgVars, qclosed>>

\* DropOldest: the branches of the select, a permit for the head of the backlog
\* and the arrival of a sample.
ForwardReserve ==
    /\ task = "running" /\ policy = "DropOldest" /\ backlog # <<>>
    /\ \/ ~attached /\ Ends /\ UNCHANGED tx
       \/ /\ attached /\ Len(tx) < TxDepth
          /\ tx' = Append(tx, backlog[1]) /\ backlog' = Tail(backlog)
          /\ UNCHANGED <<task, hand>>
    /\ UNCHANGED <<NodeVars, PartVars, policy, subscribing, attached, MsgVars, qclosed>>

ForwardArrive ==
    LET full == Len(backlog) >= chan_depth IN
    /\ task = "running" /\ policy = "DropOldest" /\ queue # <<>>
    /\ queue' = Tail(queue)
    /\ backlog' = Append(IF full THEN Tail(backlog) ELSE backlog, queue[1])
    /\ lost' = IF full THEN lost \cup {backlog[1]} ELSE lost
    /\ UNCHANGED <<NodeVars, PartVars, policy, subscribing, task, hand, tx, attached, pushed,
                   accepted, got, qclosed>>

\* recv returns None: the loop ends, and a backlog with it.
ForwardEnd ==
    /\ task = "running" /\ hand = <<>> /\ queue = <<>> /\ qclosed
    /\ Ends
    /\ UNCHANGED <<NodeVars, PartVars, policy, subscribing, tx, attached, MsgVars, qclosed>>

-----------------------------------------------------------------------------
(* The caller                                                              *)

CallerReceives ==
    /\ attached /\ tx # <<>>
    /\ got' = Append(got, tx[1]) /\ tx' = Tail(tx)
    /\ UNCHANGED <<NodeVars, PartVars, policy, subscribing, task, hand, backlog, attached, queue,
                   pushed, accepted, lost, qclosed>>

CallerDrops ==
    /\ attached
    /\ attached' = FALSE /\ tx' = <<>>
    /\ UNCHANGED <<NodeVars, PartVars, policy, subscribing, task, hand, backlog, MsgVars, qclosed>>

\* DdsNode::close, then RtpsUdpParticipant::close; a second call does nothing.
CloseNode ==
    /\ ~closed
    /\ closed' = TRUE /\ closing' = "participant"
    /\ UNCHANGED <<publishers, lock, made, send, PartVars, SubVars, MsgVars, qclosed>>

CloseParticipant ==
    /\ closing = "participant"
    /\ pclosed' = TRUE /\ closing' = "subscribers"
    /\ UNCHANGED <<closed, publishers, lock, made, send, subscribers, reader, SubVars, MsgVars, qclosed>>

\* The listed channels are closed, then the tasks of the participant aborted; the
\* forwarder is not one of them.
CloseSubscribers ==
    /\ closing = "subscribers"
    /\ qclosed' = (qclosed \/ subscribers) /\ closing' = "done"
    /\ UNCHANGED <<closed, publishers, lock, made, send, PartVars, SubVars, MsgVars>>

Next ==
    \/ \E s \in Senders : \/ \E t \in {Topic, EmptyTopic}, d \in BOOLEAN : SendStart(s, t, d)
                          \/ SendLock(s) \/ SendCreate(s) \/ SendWrite(s) \/ SendPush(s)
    \/ SubscribeStart \/ SubscribeRefused \/ SubscribeRegister \/ SubscribeList
    \/ ForwardTry \/ ForwardTake \/ ForwardSend \/ ForwardReserve \/ ForwardArrive \/ ForwardEnd
    \/ CallerReceives \/ CallerDrops
    \/ CloseNode \/ CloseParticipant \/ CloseSubscribers

\* The runtime polls the forwarder when a sample or a permit is there.  That it
\* is woken by close is not assumed: see RecvReturnsAfterClose of SubQueue.
Fairness ==
    /\ WF_vars(ForwardTry) /\ WF_vars(ForwardTake) /\ WF_vars(ForwardSend)
    /\ WF_vars(ForwardReserve) /\ WF_vars(ForwardArrive)
    /\ WF_vars(CallerReceives)

Spec == Init /\ [][Next]_vars /\ Fairness

-----------------------------------------------------------------------------
(* Properties                                                              *)

\* All that has been accepted and is neither lost nor thrown away, oldest first.
Held == got \o tx \o hand \o backlog \o queue

\* Whatever the interleaving of the forwarder with the channel on either side of
\* it, messages keep their order and none is repeated.  With Block nothing that
\* the channel accepted is lost as long as the caller keeps the receiver; with
\* DropOldest the newest one never is, as long as the forwarder runs (adapt.rs,
\* subscribe).
KeptByPolicy ==
    /\ \A i, j \in DOMAIN Held : i < j => Held[i] < Held[j]
    /\ policy = "Block" /\ attached => accepted = ToSet(Held)
    /\ policy = "DropOldest" /\ task # "ended" /\ (task = "running" => attached) =>
          \A n \in accepted : (\A m \in accepted : m <= n) => n \in ToSet(Held)

\* However many calls of send there are at once, the node has the participant
\* make one publisher for a topic (DdsNode.publishers).
OnePublisher == \A t \in DOMAIN made : made[t] <= 1

\* A message that the subscriber channel accepts while the forwarder runs reaches a
\* caller that goes on receiving, whatever the policy, unless it is dropped for want
\* of room or, with DropOldest, close comes first (adapt.rs:176).  One that comes
\* later, of a push that tested the flags before close and got the mutex after recv
\* had returned None, stays in the channel.
EventuallyReceived ==
    \A n \in 1..MaxMessages :
        n \in ToSet(queue) /\ attached /\ task = "running" ~>
            \/ n \in ToSet(got) \/ n \in lost \/ ~attached
            \/ policy = "DropOldest" /\ qclosed
=============================================================================
