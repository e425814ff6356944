------------------------------ MODULE SubQueue -----------------------------
(***************************************************************************)
(* SubInner, the sample queue behind every subscriber of the crate, with   *)
(* the tasks that share it (src/participant.rs):                           *)
(*                                                                         *)
(*   pushers    threads inside SubInner::push                              *)
(*   receivers  tasks inside SampleReceiver::recv or try_recv              *)
(*   closers    threads inside SubInner::close or SubInner::unsubscribe    *)
(*   watcher    the Deadline QoS task of spawn_deadline_watcher            *)
(*                                                                         *)
(* A step is a critical section of the queue mutex or an access to one of  *)
(* the atomics, so every interleaving of the tasks is a behaviour.  push   *)
(* holds the mutex guard until it returns: the policy, the push_back and   *)
(* both notify_one calls are one step; the flag checks come before the     *)
(* lock and are a step of their own.                                       *)
(***************************************************************************)
EXTENDS Naturals, Sequences, FiniteSets, Functions

CONSTANTS
    Pushers, Receivers, Closers,
    Capacity,       \* SubInner.capacity
    Policy,         \* SubInner.policy
    WatcherOn,      \* deadline_ns # 0 and a callback is registered
    MaxPush         \* bound: push calls in a behaviour

ASSUME CapacityAssumption == Capacity \in Nat \ {0}
ASSUME PolicyAssumption == Policy \in {"DropNewest", "DropOldest", "Block"}
ASSUME WatcherAssumption == WatcherOn \in BOOLEAN
ASSUME MaxPushAssumption == MaxPush \in Nat

Samples == 1..MaxPush

VARIABLES
    queue,          \* SubInner.queue
    closed,         \* SubInner.closed
    unsubscribed,   \* SubInner.unsubscribed
    permit,         \* the permit stored in SubInner.notify
    dpermit,        \* the permit stored in SubInner.deadline_notify
    pushed,         \* push calls so far; the argument of each is its number
    ppc, item,      \* per pusher: where it is, the sample it is pushing
    rpc, ended,     \* per receiver: where it is, recv has returned None
    cpc,            \* per closer: where it is
    wpc             \* where the watcher is

vars == <<queue, closed, unsubscribed, permit, dpermit, pushed,
          ppc, item, rpc, ended, cpc, wpc>>

PusherVars   == <<pushed, ppc, item>>
ReceiverVars == <<rpc, ended>>
FlagVars     == <<closed, unsubscribed>>

\* A recv call that is parked on notified(), or was and has been woken by
\* notify_one or by notify_waiters without having run yet.
Parked  == {"wait", "wokenOne", "wokenAll"}
RecvPcs == {"idle", "pop", "check", "final", "park"} \cup Parked
WatcherPcs == {"off", "top", "armed", "wokenOne", "wokenAll",
               "check", "fire", "done"}
ClosePcs == {"idle", "store", "wake", "deadline", "done"}

TypeOK ==
    /\ queue \in Seq(Samples) /\ Len(queue) <= Capacity
    /\ closed \in BOOLEAN /\ unsubscribed \in BOOLEAN
    /\ permit \in BOOLEAN /\ dpermit \in BOOLEAN
    /\ pushed \in 0..MaxPush
    /\ ppc \in [Pushers -> {"idle", "enqueue"}]
    /\ item \in [Pushers -> 0..MaxPush]
    /\ rpc \in [Receivers -> RecvPcs]
    /\ ended \in [Receivers -> BOOLEAN]
    /\ cpc \in [Closers -> ClosePcs]
    /\ wpc \in WatcherPcs

Init ==
    /\ queue = <<>>
    /\ closed = FALSE /\ unsubscribed = FALSE
    /\ permit = FALSE /\ dpermit = FALSE
    /\ pushed = 0
    /\ ppc = [p \in Pushers |-> "idle"]
    /\ item = [p \in Pushers |-> 0]
    /\ rpc = [r \in Receivers |-> "idle"]
    /\ ended = [r \in Receivers |-> FALSE]
    /\ cpc = [c \in Closers |-> "idle"]
    /\ wpc = IF WatcherOn THEN "top" ELSE "off"

-----------------------------------------------------------------------------
(* tokio::sync::Notify, as this file uses it.  notify_one wakes one parked *)
(* task, or stores a single permit when none is parked; notify_waiters     *)
(* wakes every parked task and stores nothing.                             *)

NotifyOneFrom(pc) ==
    \/ \E r \in Receivers :
          /\ pc[r] = "wait"
          /\ rpc' = [pc EXCEPT ![r] = "wokenOne"]
          /\ UNCHANGED permit
    \/ /\ \A r \in Receivers : pc[r] # "wait"
       /\ rpc' = pc
       /\ permit' = TRUE

DeadlineNotifyOne ==
    /\ wpc' = IF wpc = "armed" THEN "wokenOne" ELSE wpc
    /\ dpermit' = (dpermit \/ wpc # "armed")

NotifyWaiters ==
    rpc' = [r \in Receivers |-> IF rpc[r] = "wait" THEN "wokenAll" ELSE rpc[r]]

DeadlineNotifyWaiters ==
    wpc' = IF wpc = "armed" THEN "wokenAll" ELSE wpc

-----------------------------------------------------------------------------
(* SubInner::push                                                          *)

\* Mutant: push and the watcher overlook a close without unsubscribe.
RefusesUnsubscribedOnly == unsubscribed

Refuses == unsubscribed \/ closed

\* The call, and the check of the flags before the queue is locked.
PushCheck(p) ==
    /\ ppc[p] = "idle"
    /\ pushed < MaxPush
    /\ pushed' = pushed + 1
    /\ IF Refuses
       THEN UNCHANGED <<ppc, item>>
       ELSE /\ ppc' = [ppc EXCEPT ![p] = "enqueue"]
            /\ item' = [item EXCEPT ![p] = pushed + 1]
    /\ UNCHANGED <<queue, FlagVars, permit, dpermit, ReceiverVars, cpc, wpc>>

\* Mutant: q.len() > self.capacity.
FullTooLate == Len(queue) > Capacity

Full == Len(queue) >= Capacity

\* Mutant: push wakes with notify_waiters, which leaves no permit.
PushAcceptNoPermit(p) ==
    /\ \/ ~Full /\ queue' = Append(queue, item[p])
       \/ Full /\ Policy = "DropOldest" /\ queue' = Append(Tail(queue), item[p])
    /\ NotifyWaiters /\ UNCHANGED permit
    /\ DeadlineNotifyOne

\* Mutant: DropOldest pops the back of the queue.
PushAcceptDropsBack(p) ==
    /\ \/ ~Full /\ queue' = Append(queue, item[p])
       \/ /\ Full /\ Policy = "DropOldest"
          /\ queue' = Append(SubSeq(queue, 1, Len(queue) - 1), item[p])
    /\ NotifyOneFrom(rpc)
    /\ DeadlineNotifyOne

PushAccept(p) ==
    /\ \/ ~Full /\ queue' = Append(queue, item[p])
       \/ Full /\ Policy = "DropOldest" /\ queue' = Append(Tail(queue), item[p])
    /\ NotifyOneFrom(rpc)
    /\ DeadlineNotifyOne

PushDrop ==
    /\ Full
    /\ Policy \in {"DropNewest", "Block"}
    /\ UNCHANGED <<queue, permit, dpermit, rpc, wpc>>

\* The critical section of the queue mutex, to the end of push.
PushEnqueue(p) ==
    /\ ppc[p] = "enqueue"
    /\ ppc' = [ppc EXCEPT ![p] = "idle"]
    /\ PushAccept(p) \/ PushDrop
    /\ UNCHANGED <<FlagVars, pushed, item, ended, cpc>>

-----------------------------------------------------------------------------
(* SampleReceiver::recv and try_recv                                       *)

ReceiverFrame == UNCHANGED <<FlagVars, dpermit, PusherVars, cpc, wpc>>

\* An application stops receiving once recv has returned None.
RecvStart(r) ==
    /\ rpc[r] = "idle"
    /\ ~ended[r]
    /\ rpc' = [rpc EXCEPT ![r] = "pop"]
    /\ UNCHANGED <<queue, permit, ended>> /\ ReceiverFrame

RecvPop(r) ==
    /\ rpc[r] = "pop"
    /\ IF queue # <<>>
       THEN /\ queue' = Tail(queue)
            /\ rpc' = [rpc EXCEPT ![r] = "idle"]
       ELSE /\ rpc' = [rpc EXCEPT ![r] = "check"]
            /\ UNCHANGED queue
    /\ UNCHANGED <<permit, ended>> /\ ReceiverFrame

RecvCheckClosed(r) ==
    /\ rpc[r] = "check"
    /\ rpc' = [rpc EXCEPT ![r] = IF closed THEN "final" ELSE "park"]
    /\ UNCHANGED <<queue, permit, ended>> /\ ReceiverFrame

\* The last drain attempt; what it pops is what recv returns.
RecvFinalPop(r) ==
    /\ rpc[r] = "final"
    /\ rpc' = [rpc EXCEPT ![r] = "idle"]
    /\ IF queue # <<>>
       THEN queue' = Tail(queue) /\ UNCHANGED ended
       ELSE ended' = [ended EXCEPT ![r] = TRUE] /\ UNCHANGED queue
    /\ UNCHANGED permit /\ ReceiverFrame

\* notify.notified().await: a stored permit is consumed at once.
RecvPark(r) ==
    /\ rpc[r] = "park"
    /\ rpc' = [rpc EXCEPT ![r] = IF permit THEN "pop" ELSE "wait"]
    /\ permit' = FALSE
    /\ UNCHANGED <<queue, ended>> /\ ReceiverFrame

RecvResume(r) ==
    /\ rpc[r] \in {"wokenOne", "wokenAll"}
    /\ rpc' = [rpc EXCEPT ![r] = "pop"]
    /\ UNCHANGED <<queue, permit, ended>> /\ ReceiverFrame

\* The caller drops the recv future at its only await (a timeout, a select):
\* tokio passes an unused notify_one on, and nothing else.
RecvCancel(r) ==
    /\ rpc[r] \in Parked
    /\ LET dropped == [rpc EXCEPT ![r] = "idle"]
       IN  IF rpc[r] = "wokenOne"
           THEN NotifyOneFrom(dropped)
           ELSE rpc' = dropped /\ UNCHANGED permit
    /\ UNCHANGED <<queue, ended>> /\ ReceiverFrame

TryRecv(r) ==
    /\ rpc[r] = "idle"
    /\ queue # <<>>
    /\ queue' = Tail(queue)
    /\ UNCHANGED <<permit, ReceiverVars>> /\ ReceiverFrame

-----------------------------------------------------------------------------
(* SubInner::close and SubInner::unsubscribe                               *)

CloserFrame == UNCHANGED <<queue, permit, dpermit, PusherVars, ended>>

Unsubscribe(c) ==
    /\ cpc[c] = "idle"
    /\ unsubscribed' = TRUE
    /\ cpc' = [cpc EXCEPT ![c] = "store"]
    /\ UNCHANGED <<closed, rpc, wpc>> /\ CloserFrame

\* close called directly, or by unsubscribe after it set its own flag.
CloseStore(c) ==
    /\ cpc[c] \in {"idle", "store"}
    /\ closed' = TRUE
    /\ cpc' = [cpc EXCEPT ![c] = "wake"]
    /\ UNCHANGED <<unsubscribed, rpc, wpc>> /\ CloserFrame

CloseWake(c) ==
    /\ cpc[c] = "wake"
    /\ NotifyWaiters
    /\ cpc' = [cpc EXCEPT ![c] = "deadline"]
    /\ UNCHANGED <<FlagVars, wpc>> /\ CloserFrame

CloseWakeDeadline(c) ==
    /\ cpc[c] = "deadline"
    /\ DeadlineNotifyWaiters
    /\ cpc' = [cpc EXCEPT ![c] = "done"]
    /\ UNCHANGED <<FlagVars, rpc>> /\ CloserFrame

-----------------------------------------------------------------------------
(* The task of spawn_deadline_watcher.  The timer of a window may expire   *)
(* at any moment after it is armed.                                        *)

WatcherFrame == UNCHANGED <<queue, FlagVars, permit, PusherVars,
                            ReceiverVars, cpc>>

\* A new turn of the loop: a permit stored meanwhile restarts the window.
WatchArm ==
    /\ wpc = "top"
    /\ wpc' = IF dpermit THEN "top" ELSE "armed"
    /\ dpermit' = FALSE
    /\ WatcherFrame

\* The notified branch of the select: continue.
WatchNotified ==
    /\ wpc \in {"wokenOne", "wokenAll"}
    /\ wpc' = "top"
    /\ UNCHANGED dpermit /\ WatcherFrame

\* The sleep branch.  When both branches are ready the select takes either;
\* dropping the other future gives an unused notify_one back.
WatchExpire ==
    /\ wpc \in {"armed", "wokenOne", "wokenAll"}
    /\ wpc' = "check"
    /\ dpermit' = (dpermit \/ wpc = "wokenOne")
    /\ WatcherFrame

\* Mutant: the watcher stops on unsubscribe and not on close.
WatchCheckUnsubscribedOnly ==
    /\ wpc = "check"
    /\ wpc' = IF unsubscribed THEN "done" ELSE "fire"
    /\ UNCHANGED dpermit /\ WatcherFrame

WatchCheck ==
    /\ wpc = "check"
    /\ wpc' = IF Refuses THEN "done" ELSE "fire"
    /\ UNCHANGED dpermit /\ WatcherFrame

\* The deadline-missed callback runs.
WatchFire ==
    /\ wpc = "fire"
    /\ wpc' = "top"
    /\ UNCHANGED dpermit /\ WatcherFrame

-----------------------------------------------------------------------------
Push(p) == PushCheck(p) \/ PushEnqueue(p)

Recv(r) == \/ RecvPop(r) \/ RecvCheckClosed(r) \/ RecvFinalPop(r)
           \/ RecvPark(r) \/ RecvResume(r)

Close(c) == CloseStore(c) \/ CloseWake(c) \/ CloseWakeDeadline(c)

Watch == WatchArm \/ WatchNotified \/ WatchExpire \/ WatchCheck \/ WatchFire

Next ==
    \/ \E p \in Pushers : Push(p)
    \/ \E r \in Receivers : RecvStart(r) \/ Recv(r) \/ RecvCancel(r) \/ TryRecv(r)
    \/ \E c \in Closers : Unsubscribe(c) \/ Close(c)
    \/ Watch

Spec == Init /\ [][Next]_vars

\* A call that has begun runs to its end; the runtime polls a woken task, and
\* a timer expires.  Nothing obliges anybody to push, close or cancel.
Fairness ==
    /\ \A p \in Pushers : WF_vars(PushEnqueue(p))
    /\ \A r \in Receivers : WF_vars(RecvStart(r)) /\ WF_vars(Recv(r))
    /\ \A c \in Closers : WF_vars(cpc[c] # "idle" /\ Close(c))
    /\ WF_vars(Watch)

FairSpec == Spec /\ Fairness

-----------------------------------------------------------------------------
(* Properties                                                              *)

\* recv never sleeps on a non-empty queue: a task parked on notified(), with
\* no wake-up on its way, found the queue empty and nothing was pushed since.
\* This is what the comment in recv claims of push; it is about one receiver
\* (two concurrent recv calls share a single stored permit).
NoMissedWakeup == \A r \in Receivers : rpc[r] = "wait" => queue = <<>>

\* The pushes that passed the flag check of push and not yet its lock.
Admitted == {p \in Pushers : ppc[p] = "enqueue"}

\* After recv has reported the end of the stream, the pushes that were already
\* past the flag check can still leave samples behind, one each, and no other
\* push can.
StrandedBound ==
    (\E r \in Receivers : ended[r])
        => Len(queue) + Cardinality(Admitted) <= Cardinality(Pushers)

\* SubInner is a bounded FIFO channel in the sense of Channel.
Chan == INSTANCE Channel WITH admitted <- Admitted
ImplementsChannel == Chan!Spec

\* A queued sample does not stay queued while the channel is open: push wakes
\* the receiver whatever the point its recv has reached, a cancelled recv
\* included.
SamplesLeaveQueue ==
    \A x \in Samples : (x \in Range(queue)) ~> (x \notin Range(queue) \/ closed)

\* The deadline watcher ends by itself once the subscriber is closed, without
\* anybody aborting its task.
WatcherEnds == closed ~> (wpc \in {"off", "done"})

\* What REQ-HAZ-005 and the comment in unsubscribe say: recv returns after a
\* close instead of blocking for ever.
RecvReturnsAfterClose ==
    \A r \in Receivers : (closed /\ rpc[r] # "idle") ~> (rpc[r] = "idle")
=============================================================================
