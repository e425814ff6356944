---------------------------- MODULE AdapterProofs ---------------------------
(***************************************************************************)
(* Proofs about Adapter for any number of senders and messages, any        *)
(* channel depth and each of the three policies.                           *)
(***************************************************************************)
EXTENDS Adapter, SequenceTheorems, TLAPS

-----------------------------------------------------------------------------
(* Sequences of message numbers                                            *)

Increasing(s) == \A i, j \in DOMAIN s : i < j => s[i] < s[j]

Precedes(s, t) == \A x \in ToSet(s), y \in ToSet(t) : x < y

LEMMA SetOfEmpty == ToSet(<<>>) = {} /\ Increasing(<<>>)
  BY DEF ToSet, Increasing

\* A message that is newer than all of a sequence goes to its end.
LEMMA AppendNewest ==
    ASSUME NEW s \in Seq(Nat), NEW x \in Nat
    PROVE  /\ Append(s, x) \in Seq(Nat)
           /\ ToSet(Append(s, x)) = ToSet(s) \cup {x}
           /\ Increasing(s) /\ (\A y \in ToSet(s) : y < x) => Increasing(Append(s, x))
  <1>1. /\ Append(s, x) \in Seq(Nat) /\ Len(Append(s, x)) = Len(s) + 1
        /\ DOMAIN s = 1..Len(s) /\ DOMAIN Append(s, x) = 1..(Len(s) + 1)
        /\ \A i \in 1..Len(s) : Append(s, x)[i] = s[i]
        /\ Append(s, x)[Len(s) + 1] = x /\ Len(s) \in Nat
    BY AppendProperties, LenProperties
  <1>2. ToSet(Append(s, x)) = ToSet(s) \cup {x}
    BY <1>1 DEF ToSet
  <1>3. ASSUME Increasing(s), \A y \in ToSet(s) : y < x PROVE Increasing(Append(s, x))
    BY <1>1, <1>3 DEF Increasing, ToSet
  <1> QED BY <1>1, <1>2, <1>3

\* The first message of a sequence is older than all others.
LEMMA TakeOldest ==
    ASSUME NEW s \in Seq(Nat), s # <<>>
    PROVE  /\ s[1] \in Nat /\ s[1] \in ToSet(s)
           /\ Tail(s) \in Seq(Nat)
           /\ ToSet(s) = ToSet(Tail(s)) \cup {s[1]}
           /\ Increasing(s) => Increasing(Tail(s)) /\ \A y \in ToSet(Tail(s)) : s[1] < y
  <1>1. /\ Tail(s) \in Seq(Nat) /\ Len(Tail(s)) = Len(s) - 1
        /\ \A i \in 1..Len(Tail(s)) : Tail(s)[i] = s[i + 1]
        /\ Len(s) \in Nat \ {0} /\ DOMAIN s = 1..Len(s)
        /\ DOMAIN Tail(s) = 1..(Len(s) - 1)
    BY HeadTailProperties, EmptySeq, LenProperties
  <1>2. s[1] \in Nat /\ s[1] \in ToSet(s)
    BY <1>1, ElementOfSeq DEF ToSet
  <1>3. ToSet(s) = ToSet(Tail(s)) \cup {s[1]}
    <2>1. ASSUME NEW i \in DOMAIN s PROVE s[i] \in ToSet(Tail(s)) \cup {s[1]}
      <3>1. CASE i = 1
        BY <3>1
      <3>2. CASE i > 1
        <4>1. i - 1 \in DOMAIN Tail(s) /\ Tail(s)[i - 1] = s[i]
          BY <1>1, <3>2
        <4> QED BY <4>1 DEF ToSet
      <3> QED BY <1>1, <3>1, <3>2
    <2>2. ASSUME NEW i \in DOMAIN Tail(s) PROVE Tail(s)[i] \in ToSet(s)
      <3>1. i + 1 \in DOMAIN s /\ Tail(s)[i] = s[i + 1]
        BY <1>1
      <3> QED BY <3>1 DEF ToSet
    <2> QED BY <1>2, <2>1, <2>2 DEF ToSet
  <1>4. ASSUME Increasing(s) PROVE Increasing(Tail(s)) /\ \A y \in ToSet(Tail(s)) : s[1] < y
    <2>1. Increasing(Tail(s))
      BY <1>1, <1>4 DEF Increasing
    <2>2. \A i \in DOMAIN Tail(s) : s[1] < Tail(s)[i]
      BY <1>1, <1>4 DEF Increasing
    <2> QED BY <2>1, <2>2 DEF ToSet
  <1> QED BY <1>1, <1>2, <1>3, <1>4

LEMMA ConcatInOrder ==
    ASSUME NEW s \in Seq(Nat), NEW t \in Seq(Nat)
    PROVE  /\ s \o t \in Seq(Nat)
           /\ ToSet(s \o t) = ToSet(s) \cup ToSet(t)
           /\ Increasing(s) /\ Increasing(t) /\ Precedes(s, t) => Increasing(s \o t)
  <1>1. /\ s \o t \in Seq(Nat) /\ Len(s \o t) = Len(s) + Len(t)
        /\ \A i \in 1..(Len(s) + Len(t)) :
              (s \o t)[i] = IF i <= Len(s) THEN s[i] ELSE t[i - Len(s)]
        /\ Len(s) \in Nat /\ Len(t) \in Nat
        /\ DOMAIN s = 1..Len(s) /\ DOMAIN t = 1..Len(t)
        /\ DOMAIN (s \o t) = 1..(Len(s) + Len(t))
    BY ConcatProperties, LenProperties
  <1>2. ToSet(s \o t) = ToSet(s) \cup ToSet(t)
    <2>1. \A f : ToSet(f) = Range(f)
      BY DEF Range, ToSet
    <2>2. Range(s \o t) = Range(s) \cup Range(t)
      BY RangeConcatenation
    <2> QED BY <2>1, <2>2
  <1>3. ASSUME Increasing(s), Increasing(t), Precedes(s, t) PROVE Increasing(s \o t)
    <2>1. SUFFICES ASSUME NEW i \in 1..(Len(s) + Len(t)), NEW j \in 1..(Len(s) + Len(t)), i < j
          PROVE  (s \o t)[i] < (s \o t)[j]
      BY <1>1 DEF Increasing
    <2>2. CASE j <= Len(s)
      <3>1. (s \o t)[i] = s[i] /\ (s \o t)[j] = s[j] /\ i \in DOMAIN s /\ j \in DOMAIN s
        BY <1>1, <2>1, <2>2
      <3> QED BY <1>3, <2>1, <3>1 DEF Increasing
    <2>3. CASE i <= Len(s) /\ j > Len(s)
      <3>1. (s \o t)[i] = s[i] /\ i \in DOMAIN s
        BY <1>1, <2>3
      <3>2. (s \o t)[j] = t[j - Len(s)] /\ j - Len(s) \in DOMAIN t
        BY <1>1, <2>1, <2>3
      <3> QED BY <1>3, <3>1, <3>2 DEF Precedes, ToSet
    <2>4. CASE i > Len(s)
      <3>1. (s \o t)[i] = t[i - Len(s)] /\ i - Len(s) \in DOMAIN t
        BY <1>1, <2>1, <2>4
      <3>2. (s \o t)[j] = t[j - Len(s)] /\ j - Len(s) \in DOMAIN t
        BY <1>1, <2>1, <2>4
      <3>3. i - Len(s) < j - Len(s)
        BY <1>1, <2>1
      <3> QED BY <1>3, <3>1, <3>2, <3>3 DEF Increasing
    <2> QED BY <1>1, <2>2, <2>3, <2>4
  <1> QED BY <1>1, <1>2, <1>3

-----------------------------------------------------------------------------
(* One publisher for a topic                                               *)

Topics  == {Topic, EmptyTopic}
Results == {"Ok", "Closed", "Timeout", "PayloadTooLarge", "NotConnected"}
SendPcs == {"idle", "lock", "create", "write", "push"}
SendRecords == [at : SendPcs, topic : Topics, result : Results]

\* The table and what the participant made agree; a sender that creates a
\* publisher holds the mutex, and the topic is not in the table meanwhile.
PublisherInv ==
    /\ send \in [Senders -> SendRecords]
    /\ publishers \subseteq Topics
    /\ made = [t \in Topics |-> IF t \in publishers THEN 1 ELSE 0]
    /\ \A s \in Senders : send[s].at = "create" =>
          lock = {s} /\ send[s].topic \notin publishers

\* The two ways in which a step of send changes the record of its caller.
LEMMA SendStepType ==
    ASSUME send \in [Senders -> SendRecords], NEW s \in Senders, NEW at \in SendPcs,
           SendStep(s, at)
    PROVE  /\ send' \in [Senders -> SendRecords]
           /\ send'[s].at = at /\ send'[s].topic = send[s].topic
           /\ \A q \in Senders : q # s => send'[q] = send[q]
  BY DEF SendStep, SendRecords

LEMMA SendReturnsType ==
    ASSUME send \in [Senders -> SendRecords], NEW s \in Senders, NEW e \in Results,
           SendReturns(s, e)
    PROVE  /\ send' \in [Senders -> SendRecords]
           /\ send'[s].at = "idle"
           /\ \A q \in Senders : q # s => send'[q] = send[q]
  BY DEF SendReturns, SendRecords, SendPcs

LEMMA PublisherStep ==
    ASSUME PublisherInv, [Next]_vars PROVE PublisherInv'
  <1> USE DEF PublisherInv
  <1>1. ASSUME NEW s \in Senders, NEW t \in Topics, NEW d \in BOOLEAN, SendStart(s, t, d)
        PROVE  PublisherInv'
    <2> DEFINE rec == [at |-> IF closed \/ d THEN "idle" ELSE "lock", topic |-> t,
                       result |-> IF closed THEN "Closed"
                                  ELSE IF d THEN as_relay("Timeout") ELSE "Ok"]
    <2>1. as_relay("Timeout") = "Timeout"
      BY DEF as_relay
    <2>2. rec \in [at : {"idle", "lock"}, topic : Topics, result : Results]
      BY <2>1 DEF Results
    <2>3. UNCHANGED <<publishers, lock, made>> /\ send' = [send EXCEPT ![s] = rec]
      BY <1>1 DEF SendStart
    <2> HIDE DEF rec
    <2> QED BY <2>2, <2>3 DEF SendRecords, SendPcs
  <1>2. ASSUME NEW s \in Senders, SendLock(s) PROVE PublisherInv'
    <2>1. lock = {} /\ UNCHANGED <<publishers, made>>
      BY <1>2 DEF SendLock
    <2>2. CASE send[s].topic \in publishers
      <3>1. SendStep(s, "write") /\ lock' = {}
        BY <1>2, <2>2 DEF SendLock
      <3> QED BY <2>1, <3>1, SendStepType DEF SendPcs
    <2>3. CASE send[s].topic \notin publishers
      <3>1. SendStep(s, "create") /\ lock' = {s}
        BY <1>2, <2>3 DEF SendLock
      <3>2. \A q \in Senders : send[q].at # "create"
        BY <2>1
      <3> QED BY <2>1, <2>3, <3>1, <3>2, SendStepType DEF SendPcs
    <2> QED BY <2>2, <2>3
  <1>3. ASSUME NEW s \in Senders, SendCreate(s) PROVE PublisherInv'
    <2>1. lock = {s} /\ send[s].topic \notin publishers /\ send[s].topic \in Topics
      BY <1>3 DEF SendCreate, Sends, SendRecords
    <2>2. \A q \in Senders : q # s => send[q].at # "create"
      BY <2>1
    <2>3. CASE pclosed \/ send[s].topic = EmptyTopic
      <3>1. as_relay("Closed") \in Results /\ as_relay("TopicEmpty") \in Results
        BY DEF as_relay, Results
      <3>2. PICK e \in Results : SendReturns(s, e)
        BY <1>3, <2>3, <3>1 DEF SendCreate
      <3>3. UNCHANGED <<publishers, made>>
        BY <1>3, <2>3 DEF SendCreate
      <3> QED BY <2>2, <3>2, <3>3, SendReturnsType
    <2>4. CASE ~(pclosed \/ send[s].topic = EmptyTopic)
      <3>1. /\ SendStep(s, "write")
            /\ publishers' = publishers \cup {send[s].topic}
            /\ made' = [made EXCEPT ![send[s].topic] = @ + 1]
        BY <1>3, <2>4 DEF SendCreate
      <3>2. made' = [t \in Topics |-> IF t \in publishers' THEN 1 ELSE 0]
        BY <2>1, <3>1
      <3> QED BY <2>1, <2>2, <3>1, <3>2, SendStepType DEF SendPcs
    <2> QED BY <2>3, <2>4
  <1>4. ASSUME NEW s \in Senders, SendWrite(s) \/ SendPush(s) PROVE PublisherInv'
    <2>1. UNCHANGED <<publishers, lock, made>>
          /\ (SendReturns(s, "Ok") \/ SendStep(s, "push"))
      BY <1>4 DEF SendWrite, SendPush
    <2> QED BY <2>1, SendReturnsType, SendStepType DEF Results, SendPcs
  <1>5. CASE UNCHANGED <<publishers, lock, made, send>>
    BY <1>5
  <1>6. SubscribeStart \/ SubscribeRefused \/ SubscribeRegister \/ SubscribeList
        \/ ForwardTry \/ ForwardTake \/ ForwardSend \/ ForwardReserve \/ ForwardArrive
        \/ ForwardEnd \/ CallerReceives \/ CallerDrops
        \/ CloseNode \/ CloseParticipant \/ CloseSubscribers \/ UNCHANGED vars
            => UNCHANGED <<publishers, lock, made, send>>
    BY DEF SubscribeStart, SubscribeRefused, SubscribeRegister, SubscribeList, ForwardTry,
           ForwardTake, ForwardSend, ForwardReserve, ForwardArrive, ForwardEnd,
           CallerReceives, CallerDrops, CloseNode, CloseParticipant, CloseSubscribers,
           vars, NodeVars
  <1> QED BY <1>1, <1>2, <1>3, <1>4, <1>5, <1>6 DEF Next, Topics

\* However many calls of send are inside at once, the node has the participant
\* make at most one publisher for a topic: new_publisher runs under the mutex
\* of the table that was found without the topic.
THEOREM OnePublisherMade == Spec => []OnePublisher
  <1>1. Init => PublisherInv
    BY DEF Init, PublisherInv, Topics, Results, SendRecords, SendPcs
  <1>2. PublisherInv /\ [Next]_vars => PublisherInv'
    BY PublisherStep
  <1>3. PublisherInv => OnePublisher
    BY DEF PublisherInv, OnePublisher
  <1> QED BY <1>1, <1>2, <1>3, PTL DEF Spec

-----------------------------------------------------------------------------
(* What the forwarder keeps                                                *)

\* The five places a message may be in.
PlacesType ==
    /\ got \in Seq(Nat) /\ tx \in Seq(Nat) /\ hand \in Seq(Nat)
    /\ backlog \in Seq(Nat) /\ queue \in Seq(Nat)
    /\ pushed \in Nat /\ accepted \subseteq 1..pushed
    /\ attached \in BOOLEAN /\ policy \in Policies
    /\ task \in {"none", "running", "ended"}

InPlaces == ToSet(got) \cup ToSet(tx) \cup ToSet(hand) \cup ToSet(backlog) \cup ToSet(queue)

\* Each place is in order, and so is each with those that come after it.
PlacesOrder ==
    /\ Increasing(got) /\ Increasing(tx) /\ Increasing(hand)
    /\ Increasing(backlog) /\ Increasing(queue)
    /\ Precedes(got, tx) /\ Precedes(got, hand) /\ Precedes(got, backlog) /\ Precedes(got, queue)
    /\ Precedes(tx, hand) /\ Precedes(tx, backlog) /\ Precedes(tx, queue)
    /\ Precedes(hand, backlog) /\ Precedes(hand, queue)
    /\ Precedes(backlog, queue)

\* What each policy of the forwarder uses, and what there is before it starts.
PlacesUse ==
    /\ hand # <<>> => policy = "Block"
    /\ backlog # <<>> => policy = "DropOldest"
    /\ subscribing # "done" => task = "none"
    /\ task = "none" =>
          ~attached /\ got = <<>> /\ tx = <<>> /\ hand = <<>> /\ backlog = <<>>

\* Block loses nothing before the caller goes, DropOldest not the newest before
\* the forwarder or the caller goes.
PlacesKeep ==
    /\ InPlaces \subseteq accepted
    /\ policy = "Block" /\ (task = "none" \/ attached) => accepted \subseteq InPlaces
    /\ policy = "DropOldest" /\ task # "ended" /\ (task = "running" => attached) =>
          \A n \in accepted : (\A m \in accepted : m <= n) => n \in InPlaces

KeepInv == PlacesType /\ PlacesOrder /\ PlacesUse /\ PlacesKeep

LEMMA KeepInit == Init => KeepInv
  <1> SUFFICES ASSUME Init PROVE KeepInv
    OBVIOUS
  <1>1. PlacesType
    BY EmptySeq DEF Init, PlacesType
  <1>2. PlacesOrder
    BY SetOfEmpty DEF Init, PlacesOrder, Precedes
  <1>3. PlacesUse
    BY DEF Init, PlacesUse
  <1>4. PlacesKeep
    BY SetOfEmpty DEF Init, PlacesKeep, InPlaces
  <1> QED BY <1>1, <1>2, <1>3, <1>4 DEF KeepInv

\* A queue that is full is not empty.
LEMMA FullNotEmpty ==
    ASSUME NEW s \in Seq(Nat), Len(s) >= chan_depth PROVE s # <<>>
  BY AdapterAssumption, EmptySeq DEF chan_depth

\* A step that leaves all places alone.
LEMMA KeepFrame ==
    ASSUME KeepInv, UNCHANGED <<got, tx, hand, backlog, queue, pushed, accepted, policy>>,
           \/ UNCHANGED <<attached, task>> /\ (subscribing = "done" => subscribing' = "done")
           \/ subscribing = "list" /\ task' = "running" /\ attached' = TRUE /\ subscribing' = "done"
    PROVE  KeepInv'
  <1> USE DEF KeepInv
  <1>1. PlacesType'
    BY DEF PlacesType
  <1>2. PlacesOrder'
    BY DEF PlacesOrder, Increasing, Precedes
  <1>3. PlacesUse'
    BY DEF PlacesUse
  <1>4. PlacesKeep'
    <2>1. InPlaces' = InPlaces
      BY DEF InPlaces
    <2>2. CASE UNCHANGED <<attached, task>>
      BY <2>1, <2>2 DEF PlacesKeep
    <2>3. CASE subscribing = "list" /\ task' = "running" /\ attached' = TRUE
      <3>1. task = "none"
        BY <2>3 DEF PlacesUse
      <3> QED BY <2>1, <2>3, <3>1 DEF PlacesKeep
    <2> QED BY <2>2, <2>3
  <1> QED BY <1>1, <1>2, <1>3, <1>4

\* SubInner::push, past its test: the new message is the newest; DropOldest makes room for it
\* with the oldest of the queue, which is then not the newest.
LEMMA KeepPush ==
    ASSUME KeepInv, Push, UNCHANGED SubVars, UNCHANGED got PROVE KeepInv'
  <1> USE DEF KeepInv, SubVars
  <1> DEFINE n == pushed + 1
             full == Len(queue) >= chan_depth
             rest == IF full THEN Tail(queue) ELSE queue
  <1>1. n \in Nat /\ pushed' = n /\ \A x \in accepted : x < n /\ x \in Nat
    BY DEF Push, PlacesType
  <1>2. CASE UNCHANGED <<queue, accepted>>
    <2>1. PlacesType'
      BY <1>1, <1>2 DEF PlacesType
    <2>2. PlacesOrder' /\ PlacesUse' /\ PlacesKeep'
      BY <1>2 DEF PlacesOrder, Increasing, Precedes, PlacesUse, PlacesKeep, InPlaces
    <2> QED BY <2>1, <2>2
  <1>3. CASE /\ accepted' = accepted \cup {n} /\ queue' = Append(rest, n)
             /\ full => policy = "DropOldest"
    <2>1. /\ rest \in Seq(Nat) /\ ToSet(rest) \subseteq ToSet(queue) /\ Increasing(rest)
          /\ full \/ rest = queue
      <3>1. CASE full
        BY <3>1, FullNotEmpty, TakeOldest DEF PlacesType, PlacesOrder
      <3>2. CASE ~full
        BY <3>2 DEF PlacesType, PlacesOrder
      <3> QED BY <3>1, <3>2
    <2>2. /\ queue' \in Seq(Nat) /\ ToSet(queue') = ToSet(rest) \cup {n}
          /\ Increasing(queue')
      <3>1. \A y \in ToSet(rest) : y < n
        BY <1>1, <2>1 DEF PlacesKeep, InPlaces
      <3> HIDE DEF rest, n
      <3> QED BY <1>1, <1>3, <2>1, <3>1, AppendNewest
    <2> HIDE DEF rest, n
    <2>3. PlacesType'
      BY <1>1, <1>3, <2>2 DEF PlacesType, n
    <2>4. \A x \in InPlaces : x < n
      BY <1>1 DEF PlacesKeep
    <2>5. PlacesOrder'
      <3>1. /\ Precedes(got, queue') /\ Precedes(tx, queue')
            /\ Precedes(hand, queue') /\ Precedes(backlog, queue')
        BY <2>1, <2>2, <2>4 DEF PlacesOrder, Precedes, InPlaces
      <3> QED BY <2>2, <3>1 DEF PlacesOrder, Precedes, Increasing
    <2>6. PlacesUse'
      BY DEF PlacesUse
    <2>7. PlacesKeep'
      <3>1. InPlaces' \subseteq accepted'
        BY <1>3, <2>1, <2>2 DEF PlacesKeep, InPlaces
      <3>2. policy = "Block" /\ (task = "none" \/ attached) => accepted' \subseteq InPlaces'
        BY <1>3, <2>1, <2>2 DEF PlacesKeep, InPlaces
      <3>3. \A k \in accepted' : (\A m \in accepted' : m <= k) => k \in InPlaces'
        <4>1. n \in InPlaces'
          BY <2>2 DEF InPlaces
        <4> QED BY <1>1, <1>3, <4>1
      <3> QED BY <3>1, <3>2, <3>3 DEF PlacesKeep
    <2> QED BY <2>3, <2>5, <2>6, <2>7
  <1> QED BY <1>2, <1>3 DEF Push

\* DropNewest: the head of the queue goes to the channel or is dropped.
LEMMA KeepTry == ASSUME KeepInv, ForwardTry PROVE KeepInv'
  <1> USE DEF KeepInv
  <1>1. /\ policy = "DropNewest" /\ queue # <<>> /\ queue' = Tail(queue)
        /\ task = "running" /\ UNCHANGED <<policy, subscribing, attached, pushed, accepted, got>>
    BY DEF ForwardTry
  <1>2. /\ queue[1] \in Nat /\ queue' \in Seq(Nat)
        /\ ToSet(queue) = ToSet(queue') \cup {queue[1]} /\ Increasing(queue')
        /\ \A y \in ToSet(queue') : queue[1] < y
    BY <1>1, TakeOldest DEF PlacesType, PlacesOrder
  <1>3. hand = <<>> /\ backlog = <<>> /\ hand' = <<>> /\ backlog' = <<>>
        /\ task' \in {"running", "ended"}
    BY <1>1 DEF PlacesUse, ForwardTry, Ends
  <1>4. ToSet(hand') = {} /\ ToSet(backlog') = {}
    BY <1>3, SetOfEmpty
  <1>5. CASE tx' = tx
    <2>1. PlacesType'
      BY <1>1, <1>2, <1>3, <1>5, EmptySeq DEF PlacesType
    <2>2. PlacesOrder'
      BY <1>1, <1>2, <1>3, <1>4, <1>5, SetOfEmpty DEF PlacesOrder, Precedes, Increasing
    <2>3. PlacesUse'
      BY <1>1, <1>3 DEF PlacesUse
    <2>4. PlacesKeep'
      BY <1>1, <1>2, <1>4, <1>5 DEF PlacesKeep, InPlaces
    <2> QED BY <2>1, <2>2, <2>3, <2>4
  <1>6. CASE tx' = Append(tx, queue[1])
    <2>1. /\ tx' \in Seq(Nat) /\ ToSet(tx') = ToSet(tx) \cup {queue[1]}
          /\ Increasing(tx')
      BY <1>2, <1>6, AppendNewest DEF PlacesType, PlacesOrder, Precedes
    <2>2. PlacesType'
      BY <1>1, <1>2, <1>3, <2>1, EmptySeq DEF PlacesType
    <2>3. PlacesOrder'
      BY <1>1, <1>2, <1>3, <1>4, <2>1, SetOfEmpty DEF PlacesOrder, Precedes, Increasing
    <2>4. PlacesUse'
      BY <1>1, <1>3 DEF PlacesUse
    <2>5. PlacesKeep'
      BY <1>1, <1>2, <1>4, <2>1 DEF PlacesKeep, InPlaces
    <2> QED BY <2>2, <2>3, <2>4, <2>5
  <1> QED BY <1>5, <1>6 DEF ForwardTry

\* Block: the head of the queue is taken in hand.
LEMMA KeepTake == ASSUME KeepInv, ForwardTake PROVE KeepInv'
  <1> USE DEF KeepInv
  <1>1. /\ policy = "Block" /\ queue # <<>> /\ queue' = Tail(queue)
        /\ hand = <<>> /\ hand' = <<queue[1]>> /\ task = "running"
        /\ UNCHANGED <<policy, subscribing, task, backlog, tx, attached, pushed, accepted, got>>
    BY DEF ForwardTake
  <1>2. /\ queue[1] \in Nat /\ queue' \in Seq(Nat)
        /\ ToSet(queue) = ToSet(queue') \cup {queue[1]} /\ Increasing(queue')
        /\ \A y \in ToSet(queue') : queue[1] < y
    BY <1>1, TakeOldest DEF PlacesType, PlacesOrder
  <1>3. ToSet(hand) = {} /\ backlog = <<>> /\ ToSet(backlog) = {}
    BY <1>1, SetOfEmpty DEF PlacesUse
  <1>4. hand' \in Seq(Nat) /\ ToSet(hand') = {queue[1]} /\ Increasing(hand')
    <2>1. hand' = Append(<<>>, queue[1]) /\ <<>> \in Seq(Nat)
      BY <1>1, <1>2, EmptySeq
    <2> QED BY <1>2, <2>1, SetOfEmpty, AppendNewest
  <1>5. PlacesType'
    BY <1>1, <1>2, <1>4 DEF PlacesType
  <1>6. PlacesOrder'
    BY <1>1, <1>2, <1>3, <1>4 DEF PlacesOrder, Precedes, Increasing
  <1>7. PlacesUse'
    BY <1>1 DEF PlacesUse
  <1>8. PlacesKeep'
    BY <1>1, <1>2, <1>3, <1>4 DEF PlacesKeep, InPlaces
  <1> QED BY <1>5, <1>6, <1>7, <1>8

\* The forwarder ends, and what it holds is gone.
LEMMA KeepEnds ==
    ASSUME KeepInv, task = "running", Ends,
           UNCHANGED <<policy, subscribing, attached, pushed, accepted, got, tx, queue>>,
           policy = "Block" /\ attached => hand = <<>>
    PROVE  KeepInv'
  <1> USE DEF KeepInv, Ends
  <1>1. ToSet(hand') = {} /\ ToSet(backlog') = {} /\ Increasing(<<>>) /\ <<>> \in Seq(Nat)
    BY SetOfEmpty, EmptySeq
  <1>2. PlacesType'
    BY <1>1 DEF PlacesType
  <1>3. PlacesOrder'
    BY <1>1 DEF PlacesOrder, Precedes, Increasing
  <1>4. PlacesUse'
    BY DEF PlacesUse
  <1>5. PlacesKeep'
    <2>1. InPlaces' \subseteq InPlaces
      BY <1>1 DEF InPlaces
    <2>2. policy = "Block" /\ attached => InPlaces' = InPlaces
      BY <1>1 DEF InPlaces, PlacesUse
    <2> QED BY <2>1, <2>2 DEF PlacesKeep
  <1> QED BY <1>2, <1>3, <1>4, <1>5

\* Block: what is in hand goes to the channel.
LEMMA KeepSend == ASSUME KeepInv, ForwardSend PROVE KeepInv'
  <1> USE DEF KeepInv
  <1>1. CASE ~attached /\ Ends /\ UNCHANGED tx
    BY <1>1, KeepEnds DEF ForwardSend, MsgVars
  <1>2. CASE ~(~attached /\ Ends /\ UNCHANGED tx)
    <2>1. /\ tx' = tx \o hand /\ hand' = <<>> /\ hand # <<>>
          /\ UNCHANGED <<policy, subscribing, task, backlog, attached, got, pushed, accepted, queue>>
      BY <1>2 DEF ForwardSend, MsgVars
    <2>2. /\ tx' \in Seq(Nat) /\ ToSet(tx') = ToSet(tx) \cup ToSet(hand) /\ Increasing(tx')
      BY <2>1, ConcatInOrder DEF PlacesType, PlacesOrder
    <2>3. ToSet(hand') = {} /\ hand' \in Seq(Nat) /\ Increasing(hand')
      BY <2>1, SetOfEmpty, EmptySeq
    <2>4. PlacesType'
      BY <2>1, <2>2, <2>3 DEF PlacesType
    <2>5. PlacesOrder'
      BY <2>1, <2>2, <2>3 DEF PlacesOrder, Precedes, Increasing
    <2>6. PlacesUse'
      BY <2>1 DEF PlacesUse
    <2>7. PlacesKeep'
      <3>1. InPlaces' = InPlaces
        BY <2>1, <2>2, <2>3 DEF InPlaces
      <3> QED BY <2>1, <3>1 DEF PlacesKeep
    <2> QED BY <2>4, <2>5, <2>6, <2>7
  <1> QED BY <1>1, <1>2

\* DropOldest: the head of the backlog goes to the channel.
LEMMA KeepReserve == ASSUME KeepInv, ForwardReserve PROVE KeepInv'
  <1> USE DEF KeepInv
  <1>1. CASE ~attached /\ Ends /\ UNCHANGED tx
    BY <1>1, KeepEnds DEF ForwardReserve, MsgVars
  <1>2. CASE ~(~attached /\ Ends /\ UNCHANGED tx)
    <2>1. /\ tx' = Append(tx, backlog[1]) /\ backlog' = Tail(backlog) /\ backlog # <<>>
          /\ policy = "DropOldest" /\ task = "running"
          /\ UNCHANGED <<policy, subscribing, task, hand, attached, got, pushed, accepted, queue>>
      BY <1>2 DEF ForwardReserve, MsgVars
    <2>2. /\ backlog[1] \in Nat /\ backlog' \in Seq(Nat)
          /\ ToSet(backlog) = ToSet(backlog') \cup {backlog[1]} /\ Increasing(backlog')
          /\ \A y \in ToSet(backlog') : backlog[1] < y
      BY <2>1, TakeOldest DEF PlacesType, PlacesOrder
    <2>3. /\ tx' \in Seq(Nat) /\ ToSet(tx') = ToSet(tx) \cup {backlog[1]} /\ Increasing(tx')
      BY <2>1, <2>2, AppendNewest DEF PlacesType, PlacesOrder, Precedes
    <2>4. hand = <<>> /\ ToSet(hand) = {}
      BY <2>1, SetOfEmpty DEF PlacesUse
    <2>5. PlacesType'
      BY <2>1, <2>2, <2>3 DEF PlacesType
    <2>6. PlacesOrder'
      BY <2>1, <2>2, <2>3, <2>4 DEF PlacesOrder, Precedes, Increasing
    <2>7. PlacesUse'
      BY <2>1 DEF PlacesUse
    <2>8. PlacesKeep'
      <3>1. InPlaces' = InPlaces
        BY <2>1, <2>2, <2>3 DEF InPlaces
      <3> QED BY <2>1, <3>1 DEF PlacesKeep
    <2> QED BY <2>5, <2>6, <2>7, <2>8
  <1> QED BY <1>1, <1>2

\* DropOldest: the head of the queue goes to the backlog, whose head makes room
\* for it and is older, so that it is not the newest that is lost.
LEMMA KeepArrive == ASSUME KeepInv, ForwardArrive PROVE KeepInv'
  <1> USE DEF KeepInv
  <1> DEFINE full == Len(backlog) >= chan_depth
             rest == IF full THEN Tail(backlog) ELSE backlog
             x == queue[1]
  <1>1. /\ policy = "DropOldest" /\ task = "running" /\ queue # <<>> /\ queue' = Tail(queue)
        /\ backlog' = Append(rest, x)
        /\ UNCHANGED <<policy, subscribing, task, hand, tx, attached, got, pushed, accepted>>
    BY DEF ForwardArrive
  <1>2. /\ x \in Nat /\ x \in ToSet(queue) /\ queue' \in Seq(Nat)
        /\ ToSet(queue) = ToSet(queue') \cup {x} /\ Increasing(queue')
        /\ \A y \in ToSet(queue') : x < y
    BY <1>1, TakeOldest DEF PlacesType, PlacesOrder
  <1>3. /\ rest \in Seq(Nat) /\ ToSet(rest) \subseteq ToSet(backlog) /\ Increasing(rest)
        /\ \A y \in ToSet(backlog) : y \in ToSet(rest) \/ y < x
    <2>1. CASE full
      <3>1. backlog # <<>>
        BY <2>1, FullNotEmpty DEF PlacesType
      <3>2. /\ rest \in Seq(Nat) /\ ToSet(backlog) = ToSet(rest) \cup {backlog[1]}
            /\ Increasing(rest) /\ backlog[1] \in ToSet(backlog)
        BY <2>1, <3>1, TakeOldest DEF PlacesType, PlacesOrder
      <3>3. backlog[1] < x
        BY <1>2, <3>2 DEF PlacesOrder, Precedes
      <3> QED BY <3>2, <3>3
    <2>2. CASE ~full
      BY <2>2 DEF PlacesType, PlacesOrder
    <2> QED BY <2>1, <2>2
  <1> HIDE DEF rest, x
  <1>4. \A y \in ToSet(rest) : y < x
    BY <1>2, <1>3 DEF PlacesOrder, Precedes
  <1>5. /\ backlog' \in Seq(Nat) /\ ToSet(backlog') = ToSet(rest) \cup {x} /\ Increasing(backlog')
    BY <1>1, <1>2, <1>3, <1>4, AppendNewest
  <1>6. hand = <<>> /\ ToSet(hand) = {}
    BY <1>1, SetOfEmpty DEF PlacesUse
  <1>7. PlacesType'
    BY <1>1, <1>2, <1>5 DEF PlacesType
  <1>8. PlacesOrder'
    BY <1>1, <1>2, <1>3, <1>5, <1>6 DEF PlacesOrder, Precedes, Increasing
  <1>9. PlacesUse'
    BY <1>1 DEF PlacesUse
  <1>10. PlacesKeep'
    <2>1. InPlaces' \subseteq InPlaces /\ \A y \in InPlaces : y \in InPlaces' \/ y < x
      BY <1>1, <1>2, <1>3, <1>5 DEF InPlaces
    <2>2. x \in accepted /\ \A y \in accepted : y \in Nat
      BY <1>2 DEF PlacesKeep, InPlaces, PlacesType
    <2> QED BY <1>1, <1>2, <2>1, <2>2 DEF PlacesKeep
  <1> QED BY <1>7, <1>8, <1>9, <1>10

LEMMA KeepCaller == ASSUME KeepInv, CallerReceives \/ CallerDrops PROVE KeepInv'
  <1> USE DEF KeepInv
  <1>1. CASE CallerReceives
    <2>1. /\ attached /\ tx # <<>> /\ got' = Append(got, tx[1]) /\ tx' = Tail(tx)
          /\ UNCHANGED <<policy, subscribing, task, hand, backlog, attached, queue, pushed, accepted>>
      BY <1>1 DEF CallerReceives
    <2>2. /\ tx[1] \in Nat /\ tx' \in Seq(Nat) /\ tx[1] \in ToSet(tx)
          /\ ToSet(tx) = ToSet(tx') \cup {tx[1]} /\ Increasing(tx')
          /\ \A y \in ToSet(tx') : tx[1] < y
      BY <2>1, TakeOldest DEF PlacesType, PlacesOrder
    <2>3. /\ got' \in Seq(Nat) /\ ToSet(got') = ToSet(got) \cup {tx[1]} /\ Increasing(got')
      BY <2>1, <2>2, AppendNewest DEF PlacesType, PlacesOrder, Precedes
    <2>4. PlacesType'
      BY <2>1, <2>2, <2>3 DEF PlacesType
    <2>5. PlacesOrder'
      BY <2>1, <2>2, <2>3 DEF PlacesOrder, Precedes, Increasing
    <2>6. PlacesUse'
      BY <2>1 DEF PlacesUse
    <2>7. PlacesKeep'
      <3>1. InPlaces' = InPlaces
        BY <2>1, <2>2, <2>3 DEF InPlaces
      <3> QED BY <2>1, <3>1 DEF PlacesKeep
    <2> QED BY <2>4, <2>5, <2>6, <2>7
  <1>2. CASE CallerDrops
    <2>1. /\ attached /\ attached' = FALSE /\ tx' = <<>>
          /\ UNCHANGED <<policy, subscribing, task, hand, backlog, got, queue, pushed, accepted>>
      BY <1>2 DEF CallerDrops, MsgVars
    <2>2. ToSet(tx') = {} /\ tx' \in Seq(Nat) /\ Increasing(tx') /\ task # "none"
      BY <2>1, SetOfEmpty, EmptySeq DEF PlacesUse
    <2>3. PlacesType'
      BY <2>1, <2>2 DEF PlacesType
    <2>4. PlacesOrder'
      BY <2>1, <2>2 DEF PlacesOrder, Precedes, Increasing
    <2>5. PlacesUse'
      BY <2>1, <2>2 DEF PlacesUse
    <2>6. PlacesKeep'
      BY <2>1, <2>2 DEF PlacesKeep, InPlaces, PlacesType
    <2> QED BY <2>3, <2>4, <2>5, <2>6
  <1> QED BY <1>1, <1>2

LEMMA KeepStep == ASSUME KeepInv, [Next]_vars PROVE KeepInv'
  <1>1. ASSUME NEW s \in Senders, SendPush(s) PROVE KeepInv'
    BY <1>1, KeepPush DEF SendPush
  <1>2. CASE ForwardEnd
    BY <1>2, KeepEnds DEF ForwardEnd, MsgVars
  <1>3. ASSUME NEW s \in Senders,
               (\E t \in {Topic, EmptyTopic}, d \in BOOLEAN : SendStart(s, t, d))
                 \/ SendLock(s) \/ SendCreate(s) \/ SendWrite(s)
        PROVE  KeepInv'
    BY <1>3, KeepFrame DEF SendStart, SendLock, SendCreate, SendWrite, SubVars, MsgVars
  <1>4. CASE \/ SubscribeStart \/ SubscribeRefused \/ SubscribeRegister \/ SubscribeList
             \/ CloseNode \/ CloseParticipant \/ CloseSubscribers \/ UNCHANGED vars
    BY <1>4, KeepFrame
       DEF SubscribeStart, SubscribeRefused, SubscribeRegister, SubscribeList, SubscribeStep,
           CloseNode, CloseParticipant, CloseSubscribers, vars, SubVars, MsgVars
  <1> QED
    BY <1>1, <1>2, <1>3, <1>4, KeepTry, KeepTake, KeepSend, KeepReserve, KeepArrive, KeepCaller
       DEF Next

\* What KeepInv says of the five places, for Held, their concatenation.
LEMMA HeldInOrder == ASSUME KeepInv PROVE ToSet(Held) = InPlaces /\ Increasing(Held)
  <1> USE DEF KeepInv, PlacesType, PlacesOrder
  <1> DEFINE s1 == got \o tx
             s2 == s1 \o hand
             s3 == s2 \o backlog
  <1>1. s1 \in Seq(Nat) /\ ToSet(s1) = ToSet(got) \cup ToSet(tx) /\ Increasing(s1)
    BY ConcatInOrder
  <1> HIDE DEF s1
  <1>2. s2 \in Seq(Nat) /\ ToSet(s2) = ToSet(s1) \cup ToSet(hand) /\ Increasing(s2)
    <2>1. Precedes(s1, hand)
      BY <1>1 DEF Precedes
    <2> QED BY <1>1, <2>1, ConcatInOrder
  <1> HIDE DEF s2
  <1>3. s3 \in Seq(Nat) /\ ToSet(s3) = ToSet(s2) \cup ToSet(backlog) /\ Increasing(s3)
    <2>1. Precedes(s2, backlog)
      BY <1>1, <1>2 DEF Precedes
    <2> QED BY <1>2, <2>1, ConcatInOrder
  <1> HIDE DEF s3
  <1>4. ToSet(s3 \o queue) = ToSet(s3) \cup ToSet(queue) /\ Increasing(s3 \o queue)
    <2>1. Precedes(s3, queue)
      BY <1>1, <1>2, <1>3 DEF Precedes
    <2> QED BY <1>3, <2>1, ConcatInOrder
  <1>5. Held = s3 \o queue
    BY DEF Held, s1, s2, s3
  <1> QED BY <1>1, <1>2, <1>3, <1>4, <1>5 DEF InPlaces

\* Whatever the forwarder, the channels on either side of it, the caller and
\* close do in between: messages reach the caller in order and none twice; with
\* Block none that was accepted is lost while the caller keeps its receiver, and
\* with DropOldest never the newest while the forwarder runs.
THEOREM ForwarderKeepsByPolicy == Spec => []KeptByPolicy
  <1>1. KeepInv /\ [Next]_vars => KeepInv'
    BY KeepStep
  <1>2. KeepInv => KeptByPolicy
    BY HeldInOrder DEF KeepInv, PlacesKeep, KeptByPolicy, Increasing
  <1> QED BY KeepInit, <1>1, <1>2, PTL DEF Spec
=============================================================================
