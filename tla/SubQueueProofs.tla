--------------------------- MODULE SubQueueProofs --------------------------
(***************************************************************************)
(* Proofs about SubQueue for any number of pushers, closers and samples,   *)
(* any capacity and policy, with or without a deadline watcher.            *)
(***************************************************************************)
EXTENDS SubQueue, SequenceTheorems, FiniteSetTheorems, TLAPS

USE DEF Samples

\* Appending to, or taking from, the queue keeps it a sequence of samples.
LEMMA QueueOps ==
    ASSUME NEW S, NEW q \in Seq(S)
    PROVE  /\ Len(q) \in Nat
           /\ \A x \in S : Append(q, x) \in Seq(S) /\ Len(Append(q, x)) = Len(q) + 1
           /\ q # <<>> => Tail(q) \in Seq(S) /\ Len(Tail(q)) = Len(q) - 1 /\ Len(q) > 0
  <1>1. Len(q) \in Nat
    BY LenProperties
  <1>2. \A x \in S : Append(q, x) \in Seq(S) /\ Len(Append(q, x)) = Len(q) + 1
    BY AppendProperties
  <1>3. q # <<>> => Tail(q) \in Seq(S) /\ Len(Tail(q)) = Len(q) - 1 /\ Len(q) > 0
    BY HeadTailProperties, EmptySeq, LenProperties
  <1> QED BY <1>1, <1>2, <1>3

\* A pusher between the flag check and the lock holds a sample.
ItemsPushed == \A p \in Pushers : ppc[p] = "enqueue" => item[p] \in Samples

TypeInv == TypeOK /\ ItemsPushed

LEMMA TypeInit == Init => TypeInv
  <1> SUFFICES ASSUME Init PROVE TypeInv
    OBVIOUS
  <1>1. queue \in Seq(Samples) /\ Len(queue) <= Capacity
    BY CapacityAssumption, EmptySeq DEF Init
  <1>2. /\ closed \in BOOLEAN /\ unsubscribed \in BOOLEAN
        /\ permit \in BOOLEAN /\ dpermit \in BOOLEAN
        /\ ended \in [Receivers -> BOOLEAN]
    BY DEF Init
  <1>3. /\ pushed \in 0..MaxPush
        /\ item \in [Pushers -> 0..MaxPush]
        /\ ppc \in [Pushers -> {"idle", "enqueue"}]
    BY MaxPushAssumption DEF Init
  <1>4. /\ rpc \in [Receivers -> RecvPcs]
        /\ cpc \in [Closers -> ClosePcs]
        /\ wpc \in WatcherPcs
    BY DEF Init, RecvPcs, ClosePcs, WatcherPcs
  <1>5. ItemsPushed
    BY DEF Init, ItemsPushed
  <1> QED BY <1>1, <1>2, <1>3, <1>4, <1>5 DEF TypeInv, TypeOK

-----------------------------------------------------------------------------
(* Type correctness: one lemma per kind of task.                           *)

LEMMA PushCheckType ==
    ASSUME TypeInv, NEW p \in Pushers, PushCheck(p) PROVE TypeInv'
  <1> USE DEF TypeInv, TypeOK, ItemsPushed, PushCheck, FlagVars, ReceiverVars
  <1>1. pushed' \in 0..MaxPush /\ pushed + 1 \in Samples
    BY MaxPushAssumption
  <1>2. /\ ppc' \in [Pushers -> {"idle", "enqueue"}]
        /\ item' \in [Pushers -> 0..MaxPush]
    BY <1>1
  <1>3. ItemsPushed'
    BY <1>1
  <1> QED BY <1>1, <1>2, <1>3

\* What notify_one may do to the receivers and the stored permit.
LEMMA NotifyOneType ==
    ASSUME NEW pc \in [Receivers -> RecvPcs], permit \in BOOLEAN, NotifyOneFrom(pc)
    PROVE  rpc' \in [Receivers -> RecvPcs] /\ permit' \in BOOLEAN
  BY DEF NotifyOneFrom, RecvPcs, Parked

LEMMA DeadlineNotifyOneType ==
    ASSUME wpc \in WatcherPcs, dpermit \in BOOLEAN, DeadlineNotifyOne
    PROVE  wpc' \in WatcherPcs /\ dpermit' \in BOOLEAN
  BY DEF DeadlineNotifyOne, WatcherPcs

LEMMA PushEnqueueType ==
    ASSUME TypeInv, NEW p \in Pushers, PushEnqueue(p) PROVE TypeInv'
  <1> USE DEF TypeInv, TypeOK, ItemsPushed, PushEnqueue, FlagVars
  <1>1. item[p] \in Samples
    OBVIOUS
  <1>2. ppc' \in [Pushers -> {"idle", "enqueue"}] /\ ItemsPushed'
    OBVIOUS
  <1>3. CASE PushAccept(p)
    <2>1. queue' \in Seq(Samples) /\ Len(queue') <= Capacity
      <3>1. CASE ~Full /\ queue' = Append(queue, item[p])
        BY <1>1, <3>1, QueueOps, CapacityAssumption DEF Full
      <3>2. CASE Full /\ queue' = Append(Tail(queue), item[p])
        <4>1. queue # <<>>
          BY <3>2, EmptySeq, CapacityAssumption DEF Full
        <4>2. Tail(queue) \in Seq(Samples) /\ Len(Tail(queue)) = Len(queue) - 1
          BY <4>1, QueueOps
        <4>3. queue' \in Seq(Samples) /\ Len(queue') = Len(Tail(queue)) + 1
          BY <1>1, <3>2, <4>2, QueueOps
        <4> QED BY <4>2, <4>3, QueueOps, CapacityAssumption
      <3> QED BY <1>3, <3>1, <3>2 DEF PushAccept
    <2>2. rpc' \in [Receivers -> RecvPcs] /\ permit' \in BOOLEAN
      BY <1>3, NotifyOneType DEF PushAccept
    <2>3. wpc' \in WatcherPcs /\ dpermit' \in BOOLEAN
      BY <1>3, DeadlineNotifyOneType DEF PushAccept
    <2> QED BY <1>2, <2>1, <2>2, <2>3
  <1>4. CASE PushDrop
    BY <1>2, <1>4 DEF PushDrop
  <1> QED BY <1>3, <1>4

LEMMA ReceiverType ==
    ASSUME TypeInv, NEW r \in Receivers,
           RecvStart(r) \/ Recv(r) \/ RecvCancel(r) \/ TryRecv(r)
    PROVE  TypeInv'
  <1> USE DEF TypeInv, TypeOK, ItemsPushed, ReceiverFrame, ReceiverVars,
              FlagVars, PusherVars
  <1>1. queue # <<>> => Tail(queue) \in Seq(Samples) /\ Len(Tail(queue)) <= Capacity
    BY QueueOps, CapacityAssumption
  <1>2. CASE RecvStart(r)
    BY <1>2 DEF RecvStart, RecvPcs
  <1>3. CASE RecvPop(r)
    BY <1>1, <1>3 DEF RecvPop, RecvPcs
  <1>4. CASE RecvCheckClosed(r)
    BY <1>4 DEF RecvCheckClosed, RecvPcs
  <1>5. CASE RecvFinalPop(r)
    <2>1. ended' \in [Receivers -> BOOLEAN]
      BY <1>5 DEF RecvFinalPop
    <2> QED BY <1>1, <1>5, <2>1 DEF RecvFinalPop, RecvPcs
  <1>6. CASE RecvPark(r)
    BY <1>6 DEF RecvPark, RecvPcs, Parked
  <1>7. CASE RecvResume(r)
    BY <1>7 DEF RecvResume, RecvPcs
  <1>8. CASE RecvCancel(r)
    <2>1. [rpc EXCEPT ![r] = "idle"] \in [Receivers -> RecvPcs]
      BY DEF RecvPcs
    <2>2. rpc' \in [Receivers -> RecvPcs] /\ permit' \in BOOLEAN
      BY <1>8, <2>1, NotifyOneType DEF RecvCancel
    <2> QED BY <1>8, <2>2 DEF RecvCancel
  <1>9. CASE TryRecv(r)
    BY <1>1, <1>9 DEF TryRecv
  <1> QED BY <1>2, <1>3, <1>4, <1>5, <1>6, <1>7, <1>8, <1>9 DEF Recv

LEMMA CloserType ==
    ASSUME TypeInv, NEW c \in Closers, Unsubscribe(c) \/ Close(c) PROVE TypeInv'
  <1> USE DEF TypeInv, TypeOK, ItemsPushed, CloserFrame, FlagVars, PusherVars, ClosePcs
  <1>1. CASE Unsubscribe(c)
    BY <1>1 DEF Unsubscribe
  <1>2. CASE CloseStore(c)
    BY <1>2 DEF CloseStore
  <1>3. CASE CloseWake(c)
    BY <1>3 DEF CloseWake, NotifyWaiters, RecvPcs, Parked
  <1>4. CASE CloseWakeDeadline(c)
    BY <1>4 DEF CloseWakeDeadline, DeadlineNotifyWaiters, WatcherPcs
  <1> QED BY <1>1, <1>2, <1>3, <1>4 DEF Close

LEMMA WatcherType ==
    ASSUME TypeInv, Watch PROVE TypeInv'
  <1>1. wpc' \in WatcherPcs
    BY DEF TypeInv, TypeOK, Watch, WatchArm, WatchNotified, WatchExpire,
           WatchCheck, WatchFire, WatcherPcs
  <1>2. dpermit' \in BOOLEAN
    BY DEF TypeInv, TypeOK, Watch, WatchArm, WatchNotified, WatchExpire,
           WatchCheck, WatchFire
  <1>3. WatcherFrame
    BY DEF Watch, WatchArm, WatchNotified, WatchExpire, WatchCheck, WatchFire
  <1> QED
    BY <1>1, <1>2, <1>3 DEF TypeInv, TypeOK, ItemsPushed, WatcherFrame, FlagVars,
                            PusherVars, ReceiverVars

LEMMA TypeStep == TypeInv /\ [Next]_vars => TypeInv'
  <1> SUFFICES ASSUME TypeInv, [Next]_vars PROVE TypeInv'
    OBVIOUS
  <1>1. ASSUME NEW p \in Pushers, Push(p) PROVE TypeInv'
    BY <1>1, PushCheckType, PushEnqueueType DEF Push
  <1>2. ASSUME NEW r \in Receivers,
               RecvStart(r) \/ Recv(r) \/ RecvCancel(r) \/ TryRecv(r)
        PROVE  TypeInv'
    BY <1>2, ReceiverType
  <1>3. ASSUME NEW c \in Closers, Unsubscribe(c) \/ Close(c) PROVE TypeInv'
    BY <1>3, CloserType
  <1>4. CASE Watch
    BY <1>4, WatcherType
  <1>5. CASE UNCHANGED vars
    BY <1>5 DEF vars, TypeInv, TypeOK, ItemsPushed
  <1> QED BY <1>1, <1>2, <1>3, <1>4, <1>5 DEF Next

\* The queue of a subscriber never exceeds its capacity, whatever the policy
\* and however push, recv and close interleave, and every task is always at a
\* point of its code.
THEOREM TypeCorrect == Spec => []TypeOK
  <1>1. TypeInv => TypeOK
    BY DEF TypeInv
  <1> QED BY <1>1, TypeInit, TypeStep, PTL DEF Spec

-----------------------------------------------------------------------------
(* No missed wake-up, for one receiver.                                    *)

\* Between the pop that found the queue empty and the await, a sample that
\* arrives leaves a permit; and a parked receiver has nothing to fetch.
PermitKept ==
    \A r \in Receivers :
        /\ rpc[r] \in {"check", "park"} /\ queue # <<>> => permit = TRUE
        /\ rpc[r] = "wait" => queue = <<>>

WakeupInv == TypeInv /\ PermitKept

\* A sample that is pushed wakes the receiver or leaves the permit.
LEMMA PushWakes ==
    ASSUME NEW r, Receivers = {r}, WakeupInv, NEW p \in Pushers, PushEnqueue(p)
    PROVE  PermitKept'
  <1> USE DEF WakeupInv, TypeInv, TypeOK, PermitKept, PushEnqueue
  <1>1. CASE PushAccept(p)
    <2>1. CASE rpc[r] = "wait"
      <3>1. rpc'[r] = "wokenOne"
        BY <1>1, <2>1 DEF PushAccept, NotifyOneFrom
      <3> QED BY <3>1
    <2>2. CASE rpc[r] # "wait"
      <3>1. rpc' = rpc /\ permit' = TRUE
        BY <1>1, <2>2 DEF PushAccept, NotifyOneFrom
      <3> QED BY <2>2, <3>1
    <2> QED BY <2>1, <2>2
  <1>2. CASE PushDrop
    BY <1>2 DEF PushDrop
  <1> QED BY <1>1, <1>2

\* The receiver's own steps: it parks without a permit only on an empty queue.
LEMMA RecvKeepsPermit ==
    ASSUME NEW r, Receivers = {r}, WakeupInv,
           RecvStart(r) \/ Recv(r) \/ RecvCancel(r) \/ TryRecv(r)
    PROVE  PermitKept'
  <1> USE DEF WakeupInv, TypeInv, TypeOK, PermitKept
  <1>1. CASE RecvStart(r)
    BY <1>1 DEF RecvStart
  <1>2. CASE RecvPop(r)
    BY <1>2 DEF RecvPop
  <1>3. CASE RecvCheckClosed(r)
    BY <1>3 DEF RecvCheckClosed
  <1>4. CASE RecvFinalPop(r)
    BY <1>4 DEF RecvFinalPop
  <1>5. CASE RecvPark(r)
    <2>1. CASE permit
      BY <1>5, <2>1 DEF RecvPark
    <2>2. CASE ~permit
      BY <1>5, <2>2 DEF RecvPark
    <2> QED BY <2>1, <2>2
  <1>6. CASE RecvResume(r)
    BY <1>6 DEF RecvResume
  <1>7. CASE RecvCancel(r)
    <2>1. rpc'[r] = "idle"
      BY <1>7 DEF RecvCancel, NotifyOneFrom
    <2> QED BY <2>1
  <1>8. CASE TryRecv(r)
    BY <1>8 DEF TryRecv, ReceiverVars
  <1> QED BY <1>1, <1>2, <1>3, <1>4, <1>5, <1>6, <1>7, <1>8 DEF Recv

LEMMA WakeupStep ==
    ASSUME NEW r, Receivers = {r}, WakeupInv, [Next]_vars
    PROVE  WakeupInv'
  <1>1. TypeInv'
    BY TypeStep DEF WakeupInv
  <1>2. PermitKept'
    <2>1. ASSUME NEW p \in Pushers, PushCheck(p) PROVE PermitKept'
      BY <2>1 DEF WakeupInv, PermitKept, PushCheck, ReceiverVars
    <2>2. ASSUME NEW p \in Pushers, PushEnqueue(p) PROVE PermitKept'
      BY <2>2, PushWakes
    <2>3. CASE RecvStart(r) \/ Recv(r) \/ RecvCancel(r) \/ TryRecv(r)
      BY <2>3, RecvKeepsPermit
    <2>4. ASSUME NEW c \in Closers, Unsubscribe(c) \/ CloseStore(c) \/ CloseWakeDeadline(c)
          PROVE  PermitKept'
      BY <2>4 DEF WakeupInv, PermitKept, Unsubscribe, CloseStore,
                  CloseWakeDeadline, CloserFrame
    <2>5. ASSUME NEW c \in Closers, CloseWake(c) PROVE PermitKept'
      BY <2>5 DEF WakeupInv, TypeInv, TypeOK, PermitKept, CloseWake,
                  NotifyWaiters, CloserFrame
    <2>6. CASE Watch
      BY <2>6 DEF WakeupInv, PermitKept, Watch, WatchArm, WatchNotified,
                  WatchExpire, WatchCheck, WatchFire, WatcherFrame, ReceiverVars
    <2>7. CASE UNCHANGED vars
      BY <2>7 DEF WakeupInv, PermitKept, vars
    <2> QED BY <2>1, <2>2, <2>3, <2>4, <2>5, <2>6, <2>7 DEF Next, Push, Close
  <1> QED BY <1>1, <1>2 DEF WakeupInv

\* recv of a subscriber with one receiving task never sleeps on a non-empty
\* queue: the comment in recv that a push between its pop and its await is not
\* missed holds for every interleaving, cancelled recv calls included.
THEOREM RecvNotMissed ==
    ASSUME NEW r, Receivers = {r}
    PROVE  Spec => []NoMissedWakeup
  <1>1. Init => WakeupInv
    BY TypeInit DEF Init, WakeupInv, PermitKept
  <1>2. WakeupInv /\ [Next]_vars => WakeupInv'
    BY WakeupStep
  <1>3. WakeupInv => NoMissedWakeup
    BY DEF WakeupInv, PermitKept, NoMissedWakeup
  <1> QED BY <1>1, <1>2, <1>3, PTL DEF Spec

-----------------------------------------------------------------------------
(* SubInner implements the bounded channel.                                *)

\* Steps that touch neither the queue, nor closed, nor an admitted push.
LEMMA HiddenStep ==
    ASSUME UNCHANGED <<queue, closed, ppc>>
    PROVE  UNCHANGED Chan!vars
  BY DEF Chan!vars, Admitted

\* A sample leaves the front of the queue.
LEMMA TakeStep ==
    ASSUME queue # <<>>, queue' = Tail(queue), UNCHANGED <<closed, ppc>>
    PROVE  Chan!Next
  BY DEF Chan!Next, Chan!Take, Admitted

LEMMA PushRefines ==
    ASSUME TypeInv, NEW p \in Pushers, Push(p) PROVE [Chan!Next]_(Chan!vars)
  <1> USE DEF TypeInv, TypeOK
  <1>1. CASE PushCheck(p) /\ Refuses
    BY <1>1, HiddenStep DEF PushCheck, FlagVars
  <1>2. CASE PushCheck(p) /\ ~Refuses
    <2>1. ~closed /\ p \notin Admitted
      BY <1>2 DEF PushCheck, Refuses, Admitted
    <2>2. Admitted' = Admitted \cup {p}
      BY <1>2 DEF PushCheck, Admitted
    <2>3. UNCHANGED <<queue, closed>>
      BY <1>2 DEF PushCheck, FlagVars
    <2> QED BY <2>1, <2>2, <2>3 DEF Chan!Next, Chan!Admit
  <1>3. CASE PushEnqueue(p)
    <2>1. p \in Admitted /\ Admitted' = Admitted \ {p}
      BY <1>3 DEF PushEnqueue, Admitted
    <2>2. item[p] \in Samples
      BY <1>3 DEF PushEnqueue, ItemsPushed
    <2>3. \/ Len(queue) < Capacity /\ queue' = Append(queue, item[p])
          \/ Len(queue) >= Capacity /\ queue' = queue
          \/ Len(queue) >= Capacity /\ queue' = Append(Tail(queue), item[p])
      BY <1>3, QueueOps, CapacityAssumption DEF PushEnqueue, PushAccept, PushDrop, Full
    <2>4. UNCHANGED closed
      BY <1>3 DEF PushEnqueue, FlagVars
    <2>5. Chan!Put(p, item[p])
      BY <2>1, <2>3, <2>4 DEF Chan!Put
    <2> QED BY <2>2, <2>5 DEF Chan!Next
  <1> QED BY <1>1, <1>2, <1>3 DEF Push

LEMMA RecvRefines ==
    ASSUME NEW r \in Receivers, RecvStart(r) \/ Recv(r) \/ RecvCancel(r) \/ TryRecv(r)
    PROVE  [Chan!Next]_(Chan!vars)
  <1> USE DEF ReceiverFrame, FlagVars, PusherVars
  <1>1. CASE RecvStart(r) \/ RecvCheckClosed(r) \/ RecvPark(r) \/ RecvResume(r)
             \/ RecvCancel(r)
    BY <1>1, HiddenStep DEF RecvStart, RecvCheckClosed, RecvPark, RecvResume, RecvCancel
  <1>2. CASE RecvPop(r)
    BY <1>2, HiddenStep, TakeStep DEF RecvPop
  <1>3. CASE RecvFinalPop(r)
    BY <1>3, HiddenStep, TakeStep DEF RecvFinalPop
  <1>4. CASE TryRecv(r)
    BY <1>4, TakeStep DEF TryRecv
  <1> QED BY <1>1, <1>2, <1>3, <1>4 DEF Recv

LEMMA CloseRefines ==
    ASSUME NEW c \in Closers, Unsubscribe(c) \/ Close(c)
    PROVE  [Chan!Next]_(Chan!vars)
  <1> USE DEF CloserFrame, FlagVars, PusherVars
  <1>1. CASE Unsubscribe(c) \/ CloseWake(c) \/ CloseWakeDeadline(c)
    BY <1>1, HiddenStep DEF Unsubscribe, CloseWake, CloseWakeDeadline
  <1>2. CASE CloseStore(c)
    BY <1>2 DEF CloseStore, Chan!Next, Chan!Close, Admitted
  <1> QED BY <1>1, <1>2 DEF Close

\* However pushes, receives and closes interleave, a subscriber's queue is the
\* bounded FIFO channel of Channel: no sample is lost unless the queue is full,
\* none is reordered, and after close only pushes already past the flag check
\* still arrive.
THEOREM ChannelImplemented == Spec => ImplementsChannel
  <1>1. Init => Chan!Init
    BY DEF Init, Chan!Init, Admitted
  <1>2. TypeInv /\ [Next]_vars => [Chan!Next]_(Chan!vars)
    <2> SUFFICES ASSUME TypeInv, [Next]_vars PROVE [Chan!Next]_(Chan!vars)
      OBVIOUS
    <2>1. ASSUME NEW p \in Pushers, Push(p) PROVE [Chan!Next]_(Chan!vars)
      BY <2>1, PushRefines
    <2>2. ASSUME NEW r \in Receivers,
                 RecvStart(r) \/ Recv(r) \/ RecvCancel(r) \/ TryRecv(r)
          PROVE  [Chan!Next]_(Chan!vars)
      BY <2>2, RecvRefines
    <2>3. ASSUME NEW c \in Closers, Unsubscribe(c) \/ Close(c)
          PROVE  [Chan!Next]_(Chan!vars)
      BY <2>3, CloseRefines
    <2>4. CASE Watch
      BY <2>4, HiddenStep DEF Watch, WatchArm, WatchNotified, WatchExpire,
             WatchCheck, WatchFire, WatcherFrame, FlagVars, PusherVars
    <2>5. CASE UNCHANGED vars
      BY <2>5, HiddenStep DEF vars
    <2> QED BY <2>1, <2>2, <2>3, <2>4, <2>5 DEF Next
  <1> QED
    BY <1>1, <1>2, TypeInit, TypeStep, PTL DEF Spec, ImplementsChannel, Chan!Spec

-----------------------------------------------------------------------------
(* What can be left behind after recv has returned None.                   *)

\* recv takes its last look, and returns None, only after closed is set.
EndsClosed ==
    \A r \in Receivers : (rpc[r] = "final" \/ ended[r]) => closed = TRUE

StrandedInv == TypeInv /\ EndsClosed /\ StrandedBound

LEMMA EndsClosedStep ==
    ASSUME TypeInv, EndsClosed, [Next]_vars PROVE EndsClosed'
  <1> USE DEF TypeInv, TypeOK, EndsClosed
  <1>1. ASSUME NEW p \in Pushers, PushCheck(p) PROVE EndsClosed'
    BY <1>1 DEF PushCheck, FlagVars, ReceiverVars
  <1>2. ASSUME NEW p \in Pushers, PushEnqueue(p) PROVE EndsClosed'
    BY <1>2 DEF PushEnqueue, PushAccept, PushDrop, NotifyOneFrom, FlagVars
  <1>3. ASSUME NEW r \in Receivers, RecvStart(r) \/ RecvPop(r) \/ RecvPark(r)
                                    \/ RecvResume(r) \/ TryRecv(r)
        PROVE  EndsClosed'
    BY <1>3 DEF RecvStart, RecvPop, RecvPark, RecvResume, TryRecv,
                ReceiverFrame, FlagVars, ReceiverVars
  <1>4. ASSUME NEW r \in Receivers, RecvCheckClosed(r) PROVE EndsClosed'
    <2>1. rpc'[r] = "final" => closed = TRUE
      BY <1>4 DEF RecvCheckClosed
    <2>2. \A q \in Receivers \ {r} : rpc'[q] = rpc[q]
      BY <1>4 DEF RecvCheckClosed
    <2>3. UNCHANGED <<closed, ended>>
      BY <1>4 DEF RecvCheckClosed, ReceiverFrame, FlagVars
    <2> QED BY <2>1, <2>2, <2>3
  <1>5. ASSUME NEW r \in Receivers, RecvFinalPop(r) PROVE EndsClosed'
    <2>1. closed = TRUE /\ closed' = closed
      BY <1>5 DEF RecvFinalPop, ReceiverFrame, FlagVars
    <2> QED BY <2>1
  <1>6. ASSUME NEW r \in Receivers, RecvCancel(r) PROVE EndsClosed'
    BY <1>6 DEF RecvCancel, NotifyOneFrom, ReceiverFrame, FlagVars
  <1>7. ASSUME NEW c \in Closers, Unsubscribe(c) \/ Close(c) PROVE EndsClosed'
    <2>1. CASE Unsubscribe(c) \/ CloseWakeDeadline(c)
      BY <2>1 DEF Unsubscribe, CloseWakeDeadline, CloserFrame, FlagVars
    <2>2. CASE CloseStore(c)
      BY <2>2 DEF CloseStore
    <2>3. CASE CloseWake(c)
      BY <2>3 DEF CloseWake, NotifyWaiters, CloserFrame, FlagVars
    <2> QED BY <1>7, <2>1, <2>2, <2>3 DEF Close
  <1>8. CASE Watch
    BY <1>8 DEF Watch, WatchArm, WatchNotified, WatchExpire, WatchCheck,
                WatchFire, WatcherFrame, FlagVars, ReceiverVars
  <1>9. CASE UNCHANGED vars
    BY <1>9 DEF vars
  <1> QED BY <1>1, <1>2, <1>3, <1>4, <1>5, <1>6, <1>7, <1>8, <1>9 DEF Next, Push, Recv

\* The two quantities of StrandedBound under the steps that move them.
LEMMA AdmittedCount ==
    ASSUME IsFiniteSet(Pushers)
    PROVE  /\ Cardinality(Admitted) \in Nat /\ Cardinality(Pushers) \in Nat
           /\ Cardinality(Admitted) <= Cardinality(Pushers)
  <1>1. Admitted \subseteq Pushers
    BY DEF Admitted
  <1> QED BY <1>1, FS_Subset, FS_CardinalityType

LEMMA EnqueueCount ==
    ASSUME IsFiniteSet(Pushers), TypeInv, NEW p \in Pushers, PushEnqueue(p)
    PROVE  /\ Cardinality(Admitted') = Cardinality(Admitted) - 1
           /\ Len(queue') <= Len(queue) + 1
           /\ Len(queue') \in Nat
  <1> USE DEF TypeInv, TypeOK
  <1>1. p \in Admitted /\ Admitted' = Admitted \ {p}
    BY DEF PushEnqueue, Admitted
  <1>2. IsFiniteSet(Admitted)
    BY FS_Subset DEF Admitted
  <1>3. Cardinality(Admitted') = Cardinality(Admitted) - 1
    BY <1>1, <1>2, FS_RemoveElement
  <1>4. item[p] \in Samples
    BY DEF PushEnqueue, ItemsPushed
  <1>5. CASE queue' = Append(queue, item[p]) \/ queue' = queue
    BY <1>3, <1>4, <1>5, QueueOps
  <1>6. CASE Full /\ queue' = Append(Tail(queue), item[p])
    <2>1. queue # <<>>
      BY <1>6, EmptySeq, CapacityAssumption DEF Full
    <2>2. Tail(queue) \in Seq(Samples) /\ Len(Tail(queue)) = Len(queue) - 1
      BY <2>1, QueueOps
    <2>3. Len(queue') = Len(Tail(queue)) + 1
      BY <1>4, <1>6, <2>2, QueueOps
    <2> QED BY <1>3, <2>2, <2>3, QueueOps
  <1> QED BY <1>5, <1>6 DEF PushEnqueue, PushAccept, PushDrop

LEMMA StrandedStep ==
    ASSUME IsFiniteSet(Pushers), StrandedInv, [Next]_vars PROVE StrandedBound'
  <1> DEFINE n == Len(queue)
             a == Cardinality(Admitted)
             bound == Cardinality(Pushers)
  <1> USE DEF StrandedInv
  <1>0. n \in Nat /\ a \in Nat /\ bound \in Nat /\ a <= bound
    BY QueueOps, AdmittedCount DEF TypeInv, TypeOK
  <1>1. \A r \in Receivers : ended[r] => n + a <= bound
    BY DEF StrandedBound
  <1>2. ASSUME n' \in Nat, a' \in Nat, n' + a' <= n + a, UNCHANGED ended
        PROVE  StrandedBound'
    BY <1>0, <1>1, <1>2 DEF StrandedBound
  <1>3. ASSUME UNCHANGED <<queue, ppc, ended>> PROVE StrandedBound'
    <2>1. n' = n /\ a' = a
      BY <1>3 DEF Admitted
    <2> QED BY <1>0, <1>2, <1>3, <2>1
  <1>4. ASSUME queue # <<>>, queue' = Tail(queue), UNCHANGED <<ppc, ended>>
        PROVE  StrandedBound'
    <2>1. n' \in Nat /\ n' <= n
      BY <1>4, QueueOps DEF TypeInv, TypeOK
    <2>2. a' = a
      BY <1>4 DEF Admitted
    <2> QED BY <1>0, <1>2, <1>4, <2>1, <2>2
  <1>5. ASSUME NEW p \in Pushers, PushCheck(p) PROVE StrandedBound'
    <2>1. CASE Refuses
      BY <1>3, <1>5, <2>1 DEF PushCheck, ReceiverVars
    <2>2. CASE ~Refuses
      \* closed is not set, so no recv has returned None
      BY <1>5, <2>2 DEF EndsClosed, PushCheck, Refuses, ReceiverVars,
                        StrandedBound, TypeInv, TypeOK
    <2> QED BY <2>1, <2>2
  <1>6. ASSUME NEW p \in Pushers, PushEnqueue(p) PROVE StrandedBound'
    <2>1. a' = a - 1 /\ n' <= n + 1 /\ n' \in Nat
      BY <1>6, EnqueueCount
    <2>2. a' \in Nat
      <3>1. Admitted' \subseteq Pushers
        BY DEF Admitted
      <3> QED BY <3>1, FS_Subset, FS_CardinalityType
    <2>3. UNCHANGED ended
      BY <1>6 DEF PushEnqueue
    <2> QED BY <1>0, <1>2, <2>1, <2>2, <2>3
  <1>7. ASSUME NEW r \in Receivers, RecvStart(r) \/ Recv(r) \/ RecvCancel(r) \/ TryRecv(r)
        PROVE  StrandedBound'
    <2> USE DEF ReceiverFrame, PusherVars
    <2>1. CASE RecvStart(r) \/ RecvCheckClosed(r) \/ RecvPark(r) \/ RecvResume(r)
               \/ RecvCancel(r)
      BY <1>3, <2>1 DEF RecvStart, RecvCheckClosed, RecvPark, RecvResume, RecvCancel
    <2>2. CASE RecvPop(r)
      BY <1>3, <1>4, <2>2 DEF RecvPop
    <2>3. CASE RecvFinalPop(r) /\ queue # <<>>
      BY <1>4, <2>3 DEF RecvFinalPop
    <2>4. CASE RecvFinalPop(r) /\ queue = <<>>
      <3>1. n' = 0 /\ a' = a
        BY <2>4, EmptySeq DEF RecvFinalPop, Admitted
      <3> QED BY <1>0, <3>1 DEF StrandedBound
    <2>5. CASE TryRecv(r)
      BY <1>4, <2>5 DEF TryRecv, ReceiverVars
    <2> QED BY <1>7, <2>1, <2>2, <2>3, <2>4, <2>5 DEF Recv
  <1>8. ASSUME NEW c \in Closers, Unsubscribe(c) \/ Close(c) PROVE StrandedBound'
    BY <1>3, <1>8 DEF Unsubscribe, Close, CloseStore, CloseWake,
                      CloseWakeDeadline, CloserFrame, PusherVars
  <1>9. CASE Watch
    BY <1>3, <1>9 DEF Watch, WatchArm, WatchNotified, WatchExpire, WatchCheck,
                      WatchFire, WatcherFrame, PusherVars, ReceiverVars
  <1>10. CASE UNCHANGED vars
    BY <1>3, <1>10 DEF vars
  <1> QED BY <1>5, <1>6, <1>7, <1>8, <1>9, <1>10 DEF Next, Push

\* Once recv has reported the end of the stream, at most one sample per pusher
\* can be stranded in the queue: that of a push that was past the flag check.
THEOREM StrandedBounded ==
    ASSUME IsFiniteSet(Pushers)
    PROVE  Spec => []StrandedBound
  <1>1. Init => StrandedInv
    BY TypeInit DEF Init, StrandedInv, EndsClosed, StrandedBound
  <1>2. StrandedInv /\ [Next]_vars => StrandedInv'
    BY TypeStep, EndsClosedStep, StrandedStep DEF StrandedInv
  <1>3. StrandedInv => StrandedBound
    BY DEF StrandedInv
  <1> QED BY <1>1, <1>2, <1>3, PTL DEF Spec
=============================================================================
