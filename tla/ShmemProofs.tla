----------------------------- MODULE ShmemProofs ----------------------------
(***************************************************************************)
(* Proofs about Shmem for any processes and publishers, finitely many      *)
(* calls of write_payload at once, any subscribers, capacities, policies   *)
(* and buffer sizes, with writers that fail and processes that die         *)
(* anywhere.                                                               *)
(***************************************************************************)
EXTENDS Shmem, SequenceTheorems, FiniteSetTheorems, WellFoundedInduction, TLAPS

\* A set of numbers that is not empty has a least one.
LEMMA LeastNumber ==
    ASSUME NEW T, T \subseteq Nat, T # {}
    PROVE  \E n \in T : \A k \in T : n <= k
  <1> DEFINE R == OpToRel(<, Nat)
  <1>1. R = {ss \in Nat \X Nat : ss[1] < ss[2]}
    BY Zenon DEF OpToRel
  <1>2. PICK n \in T : \A k \in T : ~(<<k, n>> \in R)
    BY WFMin, NatLessThanWellFounded
  <1>3. ASSUME NEW k \in T PROVE n <= k
    <2> HIDE DEF R
    <2>1. <<k, n>> \notin {ss \in Nat \X Nat : ss[1] < ss[2]}
      BY <1>1, <1>2
    <2> QED BY <2>1
  <1> QED BY <1>3

\* Min chooses it.
LEMMA MinLeast ==
    ASSUME NEW T, T \subseteq Nat, T # {}
    PROVE  Min(T) \in T /\ \A k \in T : Min(T) <= k
  <1>1. \E x \in T : \A y \in T : x <= y
    BY LeastNumber
  <1> QED BY <1>1, Zenon DEF Min

-----------------------------------------------------------------------------
(* The buffer pool                                                         *)

\* What put keeps: buffers that a loan of the pool's size fits into.
Pooled == {c \in Nat : c >= BufSize}

PoolInv == free \in [Publishers -> Seq(Pooled)]

LEMMA PutPooled ==
    ASSUME NEW s \in Seq(Pooled), NEW c \in Nat PROVE Put(s, c) \in Seq(Pooled)
  <1>1. CASE c < BufSize \/ Len(s) >= MaxPooled
    BY <1>1 DEF Put
  <1>2. CASE ~(c < BufSize \/ Len(s) >= MaxPooled)
    <2>1. c \in Pooled
      BY <1>2, PoolAssumption DEF Pooled
    <2> QED BY <1>2, <2>1, AppendProperties DEF Put
  <1> QED BY <1>1, <1>2

\* get returns a buffer of the pool or a new one; the rest stays in the pool.
LEMMA GotPooled ==
    ASSUME NEW s \in Seq(Pooled)
    PROVE  /\ Got(s) \in Pooled
           /\ s # <<>> => Front(s) \in Seq(Pooled)
  <1>1. CASE s = <<>>
    BY <1>1, PoolAssumption DEF Got, Pooled
  <1>2. CASE s # <<>>
    <2>1. Len(s) \in Nat \ {0} /\ \A i \in 1..Len(s) : s[i] \in Pooled
      BY <1>2, EmptySeq, ElementOfSeq
    <2>2. s[Len(s)] \in Pooled /\ \A i \in 1..(Len(s) - 1) : s[i] \in Pooled
      BY <2>1
    <2>3. SubSeq(s, 1, Len(s) - 1) \in Seq(Pooled)
      BY <2>1, <2>2, SubSeqProperties
    <2> QED BY <1>2, <2>2, <2>3 DEF Got, Last, Front
  <1> QED BY <1>1, <1>2

LEMMA PoolReturn ==
    ASSUME PoolInv, NEW c \in Calls, Return(c) PROVE PoolInv'
  <1>1. CASE UNCHANGED free
    BY <1>1 DEF PoolInv
  <1>2. ASSUME NEW p \in Loaners, NEW size \in Capacities,
               free' = [free EXCEPT ![p] = Put(@, size)]
        PROVE  PoolInv'
    <2>1. p \in Publishers
      BY LoanersAssumption
    <2>2. Put(free[p], size) \in Seq(Pooled)
      BY <2>1, PutPooled, PoolAssumption DEF PoolInv, Capacities
    <2> QED BY <1>2, <2>1, <2>2 DEF PoolInv
  <1> QED BY <1>1, <1>2 DEF Return

LEMMA PoolStep == ASSUME PoolInv, [Next]_vars PROVE PoolInv'
  <1>1. ASSUME NEW p \in Publishers, NEW size \in 1..(BufSize + 1), Loan(p, size) PROVE PoolInv'
    <2> DEFINE rest == IF free[p] = <<>> THEN <<>> ELSE Front(free[p])
    <2>1. free[p] \in Seq(Pooled) /\ Got(free[p]) \in Pooled /\ Got(free[p]) \in Nat
      BY GotPooled DEF PoolInv, Pooled
    <2>2. rest \in Seq(Pooled)
      BY <2>1, GotPooled, EmptySeq
    <2> HIDE DEF rest
    <2>3. Put(rest, Got(free[p])) \in Seq(Pooled)
      BY <2>1, <2>2, PutPooled
    <2>4. free' = [free EXCEPT ![p] = IF Got(free[p]) < size THEN Put(rest, Got(free[p])) ELSE rest]
      BY <1>1 DEF Loan, rest
    <2> QED BY <2>2, <2>3, <2>4 DEF PoolInv
  <1>2. ASSUME NEW p \in Publishers, NEW c \in Capacities, CommitClosed(p, c) PROVE PoolInv'
    <2>1. Put(free[p], c) \in Seq(Pooled)
      BY PutPooled, PoolAssumption DEF PoolInv, Capacities
    <2> QED BY <1>2, <2>1 DEF CommitClosed, PoolInv
  <1>3. ASSUME NEW c \in Calls, WriteFails(c) \/ Rename(c) PROVE PoolInv'
    BY <1>3, PoolReturn DEF WriteFails, Rename
  <1>4. ASSUME NEW h \in Procs, Crash(h) PROVE PoolInv'
    BY <1>4, EmptySeq DEF Crash, PoolInv
  <1>5. CASE UNCHANGED free
    BY <1>5 DEF PoolInv
  <1>6. ASSUME \/ \E p \in Publishers : NewPublisher(p) \/ ClosePublisher(p)
               \/ \E c \in Calls : (\E p \in Publishers : WriteClaim(c, p))
                                    \/ Publish(c) \/ CreateTmp(c) \/ FillTmp(c)
        PROVE  UNCHANGED free
    BY <1>6 DEF NewPublisher, ClosePublisher, WriteClaim, Publish, CreateTmp, FillTmp
  <1>7. ASSUME NEW s \in Subscribers,
               (\E d \in {"Volatile", "TransientLocal"} : NewSubscriber(s, d))
                 \/ Poll(s) \/ Receive(s) \/ Unsubscribe(s) \/ CloseSubscriber(s)
        PROVE  UNCHANGED free
    BY <1>7 DEF NewSubscriber, Poll, Seed, Tick, TickEnds, Receive, Unsubscribe, CloseSubscriber
  <1>8. ASSUME NEW h \in Procs, CloseParticipant(h) PROVE UNCHANGED free
    BY <1>8 DEF CloseParticipant
  <1>9. CASE UNCHANGED vars
    BY <1>5, <1>9 DEF vars
  <1> QED BY <1>1, <1>2, <1>3, <1>4, <1>5, <1>6, <1>7, <1>8, <1>9 DEF Next, Write

\* Whatever buffers callers commit and however often, a loan of up to the pool's
\* buffer size is served: put keeps no buffer that is too small.
THEOREM LoansAreServed == Spec => []LoanServed
  <1>1. Init => PoolInv
    BY EmptySeq DEF Init, PoolInv
  <1>2. PoolInv /\ [Next]_vars => PoolInv'
    BY PoolStep
  <1>3. ASSUME PoolInv PROVE LoanServed
    <2>1. ASSUME NEW p \in Loaners PROVE Got(free[p]) >= BufSize
      BY <1>3, GotPooled, LoanersAssumption DEF PoolInv, Pooled
    <2> QED BY <2>1 DEF LoanServed
  <1> QED BY <1>1, <1>2, <1>3, PTL DEF Spec

-----------------------------------------------------------------------------
(* Inodes                                                                  *)

\* With no temporary file there is always an inode that is neither data.bin nor
\* open: File::create finds one.
LEMMA FreshInode ==
    ASSUME tmp = NoInode, fd \in [Calls -> Inodes \cup {NoInode}]
    PROVE  Min(Unused) \in Unused
  <1> DEFINE N == Cardinality(Calls)
             Busy == Range(fd) \cup {data}
  <1>1. N \in Nat
    BY FiniteAssumption, FS_CardinalityType
  <1>2. IsFiniteSet(Range(fd)) /\ Cardinality(Range(fd)) <= N
    <2>1. fd \in Surjection(Calls, Range(fd))
      BY DEF Surjection, Range
    <2> QED BY <2>1, FiniteAssumption, FS_Surjection
  <1>3. IsFiniteSet(Busy) /\ Cardinality(Busy) <= N + 1 /\ Cardinality(Busy) \in Nat
    <2>1. IsFiniteSet(Busy) /\ Cardinality(Busy) =
              IF data \in Range(fd) THEN Cardinality(Range(fd)) ELSE Cardinality(Range(fd)) + 1
      BY <1>2, FS_AddElement
    <2>2. Cardinality(Range(fd)) \in Nat
      BY <1>2, FS_CardinalityType
    <2> HIDE DEF Busy
    <2> QED BY <1>1, <1>2, <2>1, <2>2
  <1>4. Cardinality(Inodes) = N + 2
    BY <1>1, FS_Interval DEF Inodes
  <1>5. Unused # {}
    <2>1. SUFFICES ASSUME Unused = {} PROVE FALSE
      OBVIOUS
    <2>2. NoInode \notin Inodes
      BY <1>1 DEF NoInode, Inodes
    <2>3. Inodes \in SUBSET Busy
      BY <2>1, <2>2 DEF Unused
    <2>4. Cardinality(Inodes) <= Cardinality(Busy)
      BY <1>3, <2>3, FS_Subset
    <2> HIDE DEF Busy
    <2> QED BY <1>1, <1>3, <1>4, <2>4
  <1>6. Unused \subseteq Nat
    BY <1>1 DEF Unused, Inodes
  <1> QED BY <1>5, <1>6, MinLeast

-----------------------------------------------------------------------------
(* Type correctness                                                        *)

AnySample == Publishers \X Nat
Contents  == AnySample \cup {Nothing}
Paths     == Inodes \cup {NoInode}
WritePcs  == {"idle", "publish", "create", "fill", "rename"}
PollPcs   == {"none", "seed", "tick", "ended"}
SubStates == {"none", "open", "closed"}

TypeInv ==
    /\ seq \in [Publishers -> Nat] /\ wpc \in [Calls -> WritePcs]
    /\ writing \in [Calls -> Contents]
    /\ \A c \in Calls : wpc[c] # "idle" => writing[c] \in AnySample
    /\ last \in [Procs -> Contents] /\ registered \in [Procs -> SUBSET Subscribers]
    /\ sub \in [Subscribers -> SubStates] /\ poll \in [Subscribers -> PollPcs]
    /\ lastSeq \in [Subscribers -> Nat] /\ given \in [Subscribers -> Seq(AnySample)]
    /\ before \in [Subscribers -> SUBSET AnySample] /\ written \in SUBSET AnySample
    /\ tmp \in Paths /\ data \in Paths /\ fd \in [Calls -> Paths]
    /\ content \in [Inodes -> Contents] /\ raced \in BOOLEAN

\* All that this and the invariants below speak of.
ModelVars == <<seq, wpc, writing, overlapped, last, registered, sub, durable, poll, lastSeq, given, before, written,
               tmp, data, fd, content, raced>>

LEMMA NothingIsNoSample == Nothing \notin AnySample
  BY DEF Nothing, AnySample

LEMMA CurrentType == ASSUME TypeInv PROVE Current \in Contents
  BY DEF TypeInv, Current, Paths, Contents

LEMMA PushType ==
    ASSUME TypeInv, NEW S, NEW x \in AnySample, Push(S, x)
    PROVE  given' \in [Subscribers -> Seq(AnySample)]
  <1>1. \A s \in Subscribers : Append(given[s], x) \in Seq(AnySample)
    BY AppendProperties DEF TypeInv
  <1> QED BY <1>1 DEF Push, TypeInv

LEMMA TypeInit == Init => TypeInv
  <1> SUFFICES ASSUME Init PROVE TypeInv
    OBVIOUS
  <1>1. given \in [Subscribers -> Seq(AnySample)]
    <2>1. <<>> \in Seq(AnySample)
      BY EmptySeq
    <2> QED BY <2>1 DEF Init
  <1>2. /\ last \in [Procs -> Contents] /\ content \in [Inodes -> Contents]
        /\ tmp \in Paths /\ data \in Paths /\ fd \in [Calls -> Paths]
    BY DEF Init, Contents, Paths
  <1>3. /\ wpc \in [Calls -> WritePcs] /\ writing \in [Calls -> Contents]
        /\ \A c \in Calls : wpc[c] = "idle"
        /\ poll \in [Subscribers -> PollPcs]
        /\ sub \in [Subscribers -> SubStates]
    BY DEF Init, WritePcs, PollPcs, SubStates, Contents
  <1>4. /\ seq \in [Publishers -> Nat] /\ lastSeq \in [Subscribers -> Nat]
        /\ registered \in [Procs -> SUBSET Subscribers]
        /\ before \in [Subscribers -> SUBSET AnySample] /\ written \in SUBSET AnySample
        /\ raced \in BOOLEAN
    BY DEF Init
  <1> QED BY <1>1, <1>2, <1>3, <1>4 DEF TypeInv

\* Calls that change nothing of this.
LEMMA OtherSteps ==
    ASSUME \/ \E p \in Publishers : NewPublisher(p) \/ ClosePublisher(p)
           \/ \E p \in Publishers, size \in 1..(BufSize + 1) : Loan(p, size)
           \/ \E p \in Publishers, c \in Capacities : CommitClosed(p, c)
           \/ \E s \in Subscribers : Receive(s)
           \/ \E h \in Procs : CloseParticipant(h)
           \/ UNCHANGED vars
    PROVE  UNCHANGED ModelVars
  BY DEF NewPublisher, ClosePublisher, Loan, CommitClosed, Receive, CloseParticipant, vars,
         ModelVars, EndVars, CallVars, SubVars, FileVars

\* The inode that File::create opens.
Created == IF tmp = NoInode THEN Min(Unused) ELSE tmp

LEMMA CreatedInode ==
    ASSUME TypeInv, tmp # NoInode => tmp # data
    PROVE  Created \in Inodes /\ Created # data
  <1>1. CASE tmp = NoInode
    BY <1>1, FreshInode DEF TypeInv, Created, Unused, Paths
  <1>2. CASE tmp # NoInode
    BY <1>2 DEF TypeInv, Created, Paths
  <1> QED BY <1>1, <1>2

\* What fetch_add does.
LEMMA ClaimEffect ==
    ASSUME NEW c \in Calls, NEW p \in Publishers, WriteClaim(c, p)
    PROVE  /\ wpc[c] = "idle" /\ wpc' = [wpc EXCEPT ![c] = "publish"]
           /\ seq' = [seq EXCEPT ![p] = @ + 1]
           /\ writing' = [writing EXCEPT ![c] = <<p, seq[p] + 1>>]
           /\ overlapped' = overlapped \cup {<<writing[d], <<p, seq[p] + 1>>>> : d \in Running(p)}
           /\ UNCHANGED <<last, registered>> /\ UNCHANGED SubVars /\ UNCHANGED FileVars
  BY Zenon DEF WriteClaim

LEMMA WriteTypes ==
    ASSUME TypeInv, tmp # NoInode => tmp # data, NEW c \in Calls, Write(c) PROVE TypeInv'
  <1> USE DEF TypeInv, WritePcs, EndVars, SubVars, FileVars
  <1>1. wpc[c] # "idle" => writing[c] \in AnySample /\ Home[writing[c][1]] \in Procs
    BY HomeAssumption DEF AnySample, Endpoints
  <1>2. ASSUME NEW p \in Publishers, WriteClaim(c, p) PROVE TypeInv'
    <2>1. <<p, seq[p] + 1>> \in AnySample
      BY DEF AnySample
    <2>2. PICK x \in AnySample : writing' = [writing EXCEPT ![c] = x]
      BY <1>2, <2>1, ClaimEffect
    <2>3. wpc' = [wpc EXCEPT ![c] = "publish"] /\ seq' \in [Publishers -> Nat]
      BY <1>2, ClaimEffect
    <2>4. wpc' \in [Calls -> WritePcs] /\ writing' \in [Calls -> Contents]
      BY <2>2, <2>3 DEF Contents
    <2>5. \A d \in Calls : wpc'[d] # "idle" => writing'[d] \in AnySample
      BY <2>2, <2>3
    <2>6. UNCHANGED <<last, registered, sub, poll, lastSeq, given, before, written, tmp, data, fd,
                      content, raced>>
      BY <1>2, ClaimEffect
    <2> QED BY <2>3, <2>4, <2>5, <2>6
  <1>3. CASE Publish(c)
    <2>1. given' \in [Subscribers -> Seq(AnySample)]
      BY <1>1, <1>3, PushType DEF Publish
    <2>2. last' \in [Procs -> Contents] /\ registered' \in [Procs -> SUBSET Subscribers]
      BY <1>1, <1>3 DEF Publish, Contents
    <2> QED BY <1>3, <2>1, <2>2 DEF Publish
  <1>4. CASE CreateTmp(c)
    <2>1. /\ tmp' = Created /\ fd' = [fd EXCEPT ![c] = Created]
          /\ content' = [content EXCEPT ![Created] = Nothing] /\ raced' \in BOOLEAN
      BY <1>4 DEF CreateTmp, Created
    <2>2. Created \in Inodes
      BY CreatedInode
    <2>3. tmp' \in Paths /\ fd' \in [Calls -> Paths] /\ content' \in [Inodes -> Contents]
      BY <2>1, <2>2 DEF Paths, Contents
    <2> QED BY <1>4, <2>1, <2>3 DEF CreateTmp
  <1>5. CASE FillTmp(c)
    BY <1>1, <1>5 DEF FillTmp, Contents, Paths
  <1>6. CASE WriteFails(c)
    BY <1>6 DEF WriteFails, Return, Paths, Contents
  <1>7. CASE Rename(c)
    BY <1>1, <1>7 DEF Rename, Return, Paths, Contents
  <1> QED BY <1>2, <1>3, <1>4, <1>5, <1>6, <1>7 DEF Write

LEMMA SubscriberTypes ==
    ASSUME TypeInv, NEW s \in Subscribers,
           (\E d \in {"Volatile", "TransientLocal"} : NewSubscriber(s, d))
             \/ Poll(s) \/ Unsubscribe(s) \/ CloseSubscriber(s)
    PROVE  TypeInv'
  <1> USE DEF TypeInv, PollPcs, SubStates, EndVars, CallVars, FileVars
  <1>1. Home[s] \in Procs
    BY HomeAssumption DEF Endpoints
  <1>2. ASSUME NEW d \in {"Volatile", "TransientLocal"}, NewSubscriber(s, d) PROVE TypeInv'
    <2>1. given' \in [Subscribers -> Seq(AnySample)]
      <3>1. CASE d = "TransientLocal" /\ last[Home[s]] # Nothing
        <4>1. last[Home[s]] \in AnySample
          BY <1>1, <3>1 DEF Contents
        <4>2. <<last[Home[s]]>> \in Seq(AnySample)
          BY <4>1
        <4> QED BY <1>2, <3>1, <4>2 DEF NewSubscriber
      <3>2. CASE ~(d = "TransientLocal" /\ last[Home[s]] # Nothing)
        BY <1>2, <3>2 DEF NewSubscriber
      <3> QED BY <3>1, <3>2
    <2> QED BY <1>1, <1>2, <2>1 DEF NewSubscriber
  <1>3. Current # Nothing => Current \in AnySample /\ Current[2] \in Nat
    BY CurrentType DEF Contents, AnySample
  <1>4. CASE Seed(s)
    <2>1. given' \in [Subscribers -> Seq(AnySample)]
      BY <1>3, <1>4, PushType DEF Seed
    <2> QED BY <1>3, <1>4, <2>1 DEF Seed
  <1>5. CASE Tick(s)
    <2>1. given' \in [Subscribers -> Seq(AnySample)]
      BY <1>3, <1>5, PushType DEF Tick
    <2> QED BY <1>3, <1>5, <2>1 DEF Tick
  <1>6. CASE TickEnds(s)
    BY <1>6 DEF TickEnds
  <1>7. CASE Unsubscribe(s) \/ CloseSubscriber(s)
    <2>1. registered' \in [Procs -> SUBSET Subscribers]
      <3>1. registered' = [registered EXCEPT ![Home[s]] = @ \ {s}]
        BY <1>7, Zenon DEF Unsubscribe, CloseSubscriber, Deregister
      <3> QED BY <1>1, <3>1
    <2>2. sub' \in [Subscribers -> SubStates] /\ poll' \in [Subscribers -> PollPcs]
      BY <1>7 DEF Unsubscribe, CloseSubscriber
    <2> QED BY <1>7, <2>1, <2>2 DEF Unsubscribe, CloseSubscriber
  <1> QED BY <1>2, <1>4, <1>5, <1>6, <1>7 DEF Poll

LEMMA CrashTypes == ASSUME TypeInv, NEW h \in Procs, Crash(h) PROVE TypeInv'
  <1>1. /\ wpc' \in [Calls -> WritePcs] /\ writing' \in [Calls -> Contents]
        /\ \A c \in Calls : wpc'[c] # "idle" => writing'[c] \in AnySample
    <2> DEFINE ends(c) == wpc[c] # "idle" /\ Home[writing[c][1]] = h
    <2>1. /\ wpc' = [c \in Calls |-> IF ends(c) THEN "idle" ELSE wpc[c]]
          /\ writing' = [c \in Calls |-> IF ends(c) THEN Nothing ELSE writing[c]]
      BY DEF Crash
    <2> HIDE DEF ends
    <2> QED BY <2>1 DEF TypeInv, WritePcs, Contents
  <1>2. fd' \in [Calls -> Paths] /\ last' \in [Procs -> Contents]
    BY DEF Crash, TypeInv, Contents, Paths
  <1> QED BY <1>1, <1>2 DEF Crash, TypeInv, PollPcs, SubStates

LEMMA TypeStep ==
    ASSUME TypeInv, tmp # NoInode => tmp # data, [Next]_vars PROVE TypeInv'
  <1>1. CASE UNCHANGED ModelVars
    BY <1>1 DEF ModelVars, TypeInv
  <1> QED BY <1>1, OtherSteps, WriteTypes, SubscriberTypes, CrashTypes DEF Next

-----------------------------------------------------------------------------
(* The rendezvous file                                                     *)

\* As long as no two writers have been in write_sample at once: the one that is
\* has the temporary file open until it has filled it, and the file at either
\* path is whole when it should be.
FileInv ==
    /\ tmp # NoInode => tmp # data
    /\ \A c \in Calls : wpc[c] = "fill" => fd[c] \in Inodes
    /\ ~raced =>
          /\ \A c, d \in Calls :
                wpc[c] \in {"fill", "rename"} /\ wpc[d] \in {"fill", "rename"} => c = d
          /\ \A c \in Calls : wpc[c] = "fill" => fd[c] = tmp
          /\ \A c \in Calls : wpc[c] = "rename" => tmp # NoInode /\ content[tmp] # Nothing
          /\ data # NoInode => content[data] # Nothing

LEMMA FileWrite ==
    ASSUME TypeInv, FileInv, NEW c \in Calls, Write(c) PROVE FileInv'
  <1> USE DEF FileInv, TypeInv
  <1>1. CASE (\E p \in Publishers : WriteClaim(c, p)) \/ Publish(c)
    <2>1. /\ UNCHANGED FileVars
          /\ \E pc \in {"publish", "create"} : wpc' = [wpc EXCEPT ![c] = pc]
      BY <1>1, ClaimEffect DEF Publish
    <2> QED BY <2>1 DEF FileVars
  <1>2. CASE CreateTmp(c)
    <2>1. /\ tmp' = Created /\ fd' = [fd EXCEPT ![c] = Created]
          /\ content' = [content EXCEPT ![Created] = Nothing]
          /\ raced' = (raced \/ \E d \in Calls : wpc[d] \in {"fill", "rename"})
          /\ wpc' = [wpc EXCEPT ![c] = "fill"] /\ data' = data
      BY <1>2 DEF CreateTmp, Created
    <2>2. Created \in Inodes /\ Created # data
      BY CreatedInode
    <2> QED BY <2>1, <2>2 DEF Paths
  <1>3. CASE FillTmp(c)
    <2>1. writing[c] # Nothing
      BY <1>3, NothingIsNoSample DEF FillTmp
    <2>2. /\ content' = [content EXCEPT ![fd[c]] = writing[c]]
          /\ fd' = [fd EXCEPT ![c] = NoInode] /\ wpc' = [wpc EXCEPT ![c] = "rename"]
          /\ wpc[c] = "fill" /\ fd[c] \in Inodes
          /\ UNCHANGED <<tmp, data, raced>>
      BY <1>3 DEF FillTmp
    <2>3. NoInode \notin Inodes
      BY FiniteAssumption, FS_CardinalityType DEF NoInode, Inodes
    <2> QED BY <2>1, <2>2, <2>3 DEF Paths
  <1>4. CASE WriteFails(c)
    BY <1>4 DEF WriteFails, Return
  <1>5. CASE Rename(c)
    BY <1>5 DEF Rename, Return
  <1> QED BY <1>1, <1>2, <1>3, <1>4, <1>5 DEF Write

LEMMA FileStep == ASSUME TypeInv, FileInv, [Next]_vars PROVE TypeInv' /\ FileInv'
  <1>1. TypeInv'
    BY TypeStep DEF FileInv
  <1>2. CASE UNCHANGED ModelVars
    BY <1>1, <1>2 DEF ModelVars, FileInv
  <1>3. ASSUME NEW s \in Subscribers,
               (\E d \in {"Volatile", "TransientLocal"} : NewSubscriber(s, d))
                 \/ Poll(s) \/ Unsubscribe(s) \/ CloseSubscriber(s)
        PROVE  FileInv'
    BY <1>3 DEF NewSubscriber, Poll, Seed, Tick, TickEnds, Unsubscribe, CloseSubscriber,
                CallVars, FileVars, FileInv
  <1>4. ASSUME NEW h \in Procs, Crash(h) PROVE FileInv'
    BY <1>4 DEF Crash, FileInv, TypeInv
  <1> QED BY <1>1, <1>2, <1>3, <1>4, OtherSteps, FileWrite DEF Next

LEMMA FileInit == Init => TypeInv /\ FileInv
  BY TypeInit DEF Init, FileInv

\* Wherever writers fail or die in write_sample, data.bin holds a whole sample,
\* unless a second writer has truncated the temporary file of one that had not
\* renamed it yet.
THEOREM FileIsWhole == Spec => []WholeUnlessRaced
  <1>1. FileInv => WholeUnlessRaced
    BY DEF FileInv, WholeUnlessRaced
  <1>2. TypeInv /\ FileInv /\ [Next]_vars => (TypeInv /\ FileInv)'
    BY FileStep
  <1> QED BY FileInit, <1>1, <1>2, PTL DEF Spec

-----------------------------------------------------------------------------
(* Samples and their numbers                                               *)

\* The samples that subscriber s is given come in an order that WriterOrder allows.
Ordered(s, g) == \A i, j \in 1..Len(g) : i < j => Follows(s, g[i], g[j])

LEMMA EmptyGiven == ToSet(<<>>) = {} /\ \A s : Ordered(s, <<>>)
  BY DEF ToSet, Ordered

LEMMA AppendSample ==
    ASSUME NEW s, NEW g \in Seq(AnySample), NEW x \in AnySample
    PROVE  /\ ToSet(Append(g, x)) = ToSet(g) \cup {x}
           /\ Ordered(s, g) /\ (\A y \in ToSet(g) : Follows(s, y, x)) => Ordered(s, Append(g, x))
  <1>1. /\ Len(Append(g, x)) = Len(g) + 1
        /\ DOMAIN g = 1..Len(g) /\ DOMAIN Append(g, x) = 1..(Len(g) + 1)
        /\ \A i \in 1..Len(g) : Append(g, x)[i] = g[i]
        /\ Append(g, x)[Len(g) + 1] = x /\ Len(g) \in Nat
    BY AppendProperties, LenProperties
  <1>2. ToSet(Append(g, x)) = ToSet(g) \cup {x}
    BY <1>1 DEF ToSet
  <1>3. ASSUME Ordered(s, g), \A y \in ToSet(g) : Follows(s, y, x)
        PROVE  Ordered(s, Append(g, x))
    <2> DEFINE t == Append(g, x)
    <2>1. SUFFICES ASSUME NEW i \in 1..(Len(g) + 1), NEW j \in 1..(Len(g) + 1), i < j
          PROVE  Follows(s, t[i], t[j])
      BY <1>1 DEF Ordered
    <2>2. i \in 1..Len(g) /\ t[i] = g[i]
      BY <1>1, <2>1
    <2>3. CASE j \in 1..Len(g)
      BY <1>1, <1>3, <2>1, <2>2, <2>3 DEF Ordered
    <2>4. CASE j = Len(g) + 1
      BY <1>1, <1>3, <2>1, <2>2, <2>4 DEF ToSet
    <2> QED BY <1>1, <2>3, <2>4
  <1> QED BY <1>2, <1>3

\* What SubInner::push does to what a subscriber has been given.
LEMMA PushGives ==
    ASSUME TypeInv, NEW S, NEW x \in AnySample, Push(S, x), NEW s \in Subscribers
    PROVE  \/ given'[s] = given[s]
           \/ /\ s \in S /\ sub[s] = "open" /\ given'[s] = Append(given[s], x)
              /\ ToSet(given'[s]) = ToSet(given[s]) \cup {x}
  BY AppendSample DEF Push, Takes, TypeInv

\* No call that is at one of the stages pcs has sample x.
NotAt(x, pcs) == \A c \in Calls : wpc[c] \in pcs => writing[c] # x

Active == WritePcs \ {"idle"}

\* A number that its writer has claimed, and whose call has published it.
Used(x) == x[2] <= seq[x[1]] /\ NotAt(x, {"publish"})

\* Each call has a number of its own; what its publisher has claimed since then
\* has been claimed while the call was running.
CallInv ==
    \A c \in Calls : wpc[c] # "idle" =>
        /\ writing[c][2] <= seq[writing[c][1]]
        /\ \A d \in Calls : wpc[d] # "idle" /\ writing[d] = writing[c] => d = c
        /\ \A n \in Nat : writing[c][2] < n /\ n <= seq[writing[c][1]]
              => <<writing[c], <<writing[c][1], n>>>> \in overlapped

\* What has been given, cached or put into a file has been published; a sample
\* counts as written only after its write_sample has returned, until when it may
\* be in the temporary file.
SampleInv ==
    /\ CallInv
    /\ \A x \in written : x[2] <= seq[x[1]] /\ NotAt(x, Active)
    /\ \A h \in Procs : last[h] # Nothing => Home[last[h][1]] = h /\ Used(last[h])
    /\ \A i \in Inodes : content[i] # Nothing => Used(content[i])
    /\ \A s \in Subscribers : \A x \in ToSet(given[s]) : Used(x)
    /\ tmp # NoInode => content[tmp] \notin written

\* Elements of what a subscriber has been given are samples.
LEMMA GivenSamples ==
    ASSUME TypeInv, NEW s \in Subscribers PROVE ToSet(given[s]) \subseteq AnySample
  BY LenProperties, ElementOfSeq DEF TypeInv, ToSet

\* A number that has been claimed and whose call has returned.
Settled(x) == x[2] <= seq[x[1]] /\ NotAt(x, Active)

\* fetch_add takes a number that no call has had.
LEMMA ClaimCalls ==
    ASSUME TypeInv, TypeInv', CallInv, NEW c \in Calls, NEW p \in Publishers, WriteClaim(c, p)
    PROVE  /\ CallInv'
           /\ \A x \in AnySample : (Used(x) => Used(x)') /\ (Settled(x) => Settled(x)')
  <1> DEFINE n == seq[p] + 1
  <1>1. /\ n \in Nat /\ wpc[c] = "idle" /\ wpc' = [wpc EXCEPT ![c] = "publish"]
        /\ seq' = [seq EXCEPT ![p] = n] /\ writing' = [writing EXCEPT ![c] = <<p, n>>]
        /\ overlapped' = overlapped \cup {<<writing[d], <<p, n>>>> : d \in Running(p)}
    BY ClaimEffect DEF TypeInv
  <1>2. wpc'[c] = "publish" /\ writing'[c] = <<p, n>> /\ seq'[p] = n
    BY <1>1 DEF TypeInv
  <1>3. ASSUME NEW d \in Calls, d # c PROVE wpc'[d] = wpc[d] /\ writing'[d] = writing[d]
    BY <1>1, <1>3 DEF TypeInv
  <1>4. ASSUME NEW q \in Publishers PROVE seq[q] \in Nat /\ seq[q] <= seq'[q] /\ (q # p => seq'[q] = seq[q])
    BY <1>1 DEF TypeInv
  <1>5. ASSUME NEW x \in AnySample, x[2] <= seq[x[1]]
        PROVE  /\ x # <<p, n>> /\ x[2] <= seq'[x[1]]
    <2>1. x[1] \in Publishers /\ x[2] \in Nat
      BY DEF AnySample
    <2>2. seq[x[1]] \in Nat /\ seq[x[1]] <= seq'[x[1]] /\ seq'[x[1]] \in Nat
      BY <2>1, <1>4 DEF TypeInv
    <2>3. x # <<p, n>>
      BY <1>5, <2>1 DEF TypeInv
    <2> QED BY <1>5, <2>1, <2>2, <2>3
  <1>6. ASSUME NEW x \in AnySample PROVE (Used(x) => Used(x)') /\ (Settled(x) => Settled(x)')
    BY <1>2, <1>3, <1>5, Zenon DEF Used, Settled, NotAt
  <1>7. ASSUME NEW d \in Calls, d # c, wpc[d] # "idle"
        PROVE  /\ writing[d] \in AnySample /\ writing[d][1] \in Publishers /\ writing[d][2] \in Nat
               /\ writing[d][2] <= seq[writing[d][1]] /\ writing[d] # <<p, n>>
               /\ writing[d][2] <= seq'[writing[d][1]]
    <2>1. writing[d] \in AnySample /\ writing[d][2] <= seq[writing[d][1]]
      BY <1>7 DEF TypeInv, CallInv
    <2> QED BY <1>5, <2>1 DEF AnySample
  <1>8. ASSUME NEW d \in Calls, d # c, wpc[d] # "idle", NEW k \in Nat,
               writing[d][2] < k, k <= seq'[writing[d][1]]
        PROVE  <<writing[d], <<writing[d][1], k>>>> \in overlapped'
    <2>1. CASE k <= seq[writing[d][1]]
      BY <1>1, <1>8, <2>1 DEF CallInv
    <2>2. CASE ~(k <= seq[writing[d][1]])
      <3>1. writing[d][1] \in Publishers
        BY <1>7, <1>8
      <3>2. writing[d][1] = p
        BY <1>4, <1>8, <2>2, <3>1
      <3>3. k = n
        BY <1>1, <1>2, <1>4, <1>8, <2>2, <3>2
      <3>4. d \in Running(p)
        BY <1>8, <3>2 DEF Running
      <3> QED BY <1>1, <3>2, <3>3, <3>4
    <2> QED BY <2>1, <2>2
  <1>9. ASSUME NEW d \in Calls, wpc'[d] # "idle"
        PROVE  /\ writing'[d][2] <= seq'[writing'[d][1]]
               /\ \A e \in Calls : wpc'[e] # "idle" /\ writing'[e] = writing'[d] => e = d
               /\ \A k \in Nat : writing'[d][2] < k /\ k <= seq'[writing'[d][1]]
                     => <<writing'[d], <<writing'[d][1], k>>>> \in overlapped'
    <2>1. CASE d = c
      <3>1. writing'[d][1] = p /\ writing'[d][2] = n
        BY <1>2, <2>1
      <3>2. \A k \in Nat : ~(n < k /\ k <= n)
        BY <1>1
      <3>3. \A e \in Calls : wpc'[e] # "idle" /\ writing'[e] = writing'[d] => e = d
        BY <1>2, <1>3, <1>7, <2>1
      <3> QED BY <1>1, <1>2, <3>1, <3>2, <3>3
    <2>2. CASE d # c
      <3>1. wpc[d] # "idle" /\ writing'[d] = writing[d]
        BY <1>3, <1>9, <2>2
      <3>2. \A e \in Calls : wpc'[e] # "idle" /\ writing'[e] = writing'[d] => e = d
        BY <1>2, <1>3, <1>7, <2>2, <3>1 DEF CallInv
      <3> QED BY <1>7, <1>8, <2>2, <3>1, <3>2
    <2> QED BY <2>1, <2>2
  <1> QED BY <1>6, <1>9 DEF CallInv

\* Calls that move on or end; none goes back to before its publish.
LEMMA CallsGoOn ==
    ASSUME TypeInv, CallInv, seq' = seq, overlapped' = overlapped,
           \A d \in Calls : \/ wpc'[d] = "idle"
                            \/ /\ wpc[d] # "idle" /\ wpc'[d] # "idle" /\ writing'[d] = writing[d]
                               /\ wpc'[d] = "publish" => wpc[d] = "publish"
    PROVE  /\ CallInv'
           /\ \A x \in AnySample : (Used(x) => Used(x)') /\ (Settled(x) => Settled(x)')
  <1>1. CallInv'
    BY Zenon DEF CallInv
  <1>2. \A d \in Calls : wpc'[d] \in Active => wpc[d] \in Active /\ writing'[d] = writing[d]
    BY DEF Active, TypeInv
  <1>3. \A d \in Calls : wpc'[d] \in {"publish"} => wpc[d] \in {"publish"} /\ writing'[d] = writing[d]
    OBVIOUS
  <1>4. ASSUME NEW x \in AnySample PROVE (Used(x) => Used(x)') /\ (Settled(x) => Settled(x)')
    BY <1>2, <1>3, Zenon DEF Used, Settled, NotAt
  <1> QED BY <1>1, <1>4

\* One call moves on to a later stage: its sample has been published.
LEMMA CallMoves ==
    ASSUME TypeInv, CallInv, NEW c \in Calls, wpc[c] # "idle", NEW pc \in {"create", "fill", "rename"},
           wpc' = [wpc EXCEPT ![c] = pc], UNCHANGED <<seq, writing, overlapped>>
    PROVE  /\ CallInv' /\ Used(writing[c])'
           /\ \A x \in AnySample : (Used(x) => Used(x)') /\ (Settled(x) => Settled(x)')
  <1>1. wpc'[c] = pc /\ \A d \in Calls : d # c => wpc'[d] = wpc[d]
    BY DEF TypeInv
  <1>2. /\ CallInv'
        /\ \A x \in AnySample : (Used(x) => Used(x)') /\ (Settled(x) => Settled(x)')
    BY <1>1, CallsGoOn
  <1>3. writing'[c][2] <= seq'[writing'[c][1]]
    BY DEF CallInv
  <1>4. ASSUME NEW d \in Calls, wpc'[d] = "publish" PROVE writing'[d] # writing'[c]
    <2>1. d # c /\ wpc[d] # "idle"
      BY <1>1, <1>4
    <2> QED BY <2>1 DEF CallInv
  <1> QED BY <1>2, <1>3, <1>4 DEF Used, NotAt

\* A step after which every sample in memory or in a file was there before, or
\* is one that has been used.
LEMMA SampleKept ==
    ASSUME TypeInv, TypeInv', SampleInv, CallInv',
           \A x \in AnySample : Used(x) => Used(x)',
           \A h \in Procs : \/ last'[h] \in {last[h], Nothing}
                            \/ Home[last'[h][1]] = h /\ Used(last[h])',
           \A i \in Inodes : content'[i] \in {content[i], Nothing} \/ Used(content[i])',
           \A s \in Subscribers : \A x \in ToSet(given'[s]) : x \in ToSet(given[s]) \/ Used(x)',
           \A x \in written' : Settled(x)',
           tmp' # NoInode => content'[tmp'] \notin written'
    PROVE  SampleInv'
  <1>1. ASSUME NEW h \in Procs, last'[h] # Nothing
        PROVE  Home[last'[h][1]] = h /\ Used(last[h])'
    <2>1. CASE last'[h] = last[h]
      <3>1. Used(last[h]) /\ Home[last[h][1]] = h /\ last[h] \in AnySample
        BY <1>1, <2>1 DEF SampleInv, TypeInv, Contents
      <3>2. PICK x \in AnySample : x = last[h]
        BY <3>1
      <3>3. Used(x)'
        BY <3>1, <3>2
      <3> QED BY <2>1, <3>1, <3>2, <3>3 DEF Used
    <2>2. CASE last'[h] # last[h]
      BY <1>1, <2>2
    <2> QED BY <2>1, <2>2
  <1>2. ASSUME NEW i \in Inodes, content'[i] # Nothing PROVE Used(content[i])'
    <2>1. CASE content'[i] = content[i]
      <3>1. Used(content[i]) /\ content[i] \in AnySample
        BY <1>2, <2>1 DEF SampleInv, TypeInv, Contents
      <3>2. PICK x \in AnySample : x = content[i]
        BY <3>1
      <3>3. Used(x)'
        BY <3>1, <3>2
      <3> QED BY <2>1, <3>2, <3>3 DEF Used
    <2>2. CASE content'[i] # content[i]
      BY <1>2, <2>2
    <2> QED BY <2>1, <2>2
  <1>3. ASSUME NEW s \in Subscribers, NEW x \in ToSet(given'[s]) PROVE Used(x)'
    <2>1. CASE x \in ToSet(given[s])
      <3>1. x \in AnySample
        BY <2>1, GivenSamples
      <3>2. Used(x)
        BY <2>1 DEF SampleInv
      <3> QED BY <3>1, <3>2
    <2>2. CASE Used(x)'
      BY <2>2
    <2> QED BY <1>3, <2>1, <2>2
  <1> QED BY <1>1, <1>2, <1>3, Zenon DEF SampleInv, Settled

LEMMA SampleWrite ==
    ASSUME TypeInv, TypeInv', FileInv, SampleInv, NEW c \in Calls, Write(c)
    PROVE  SampleInv'
  <1>1. CallInv /\ \A x \in written : x \in AnySample /\ Settled(x)
    BY Zenon DEF SampleInv, Settled, TypeInv
  <1>2. ASSUME NEW p \in Publishers, WriteClaim(c, p) PROVE SampleInv'
    <2>1. UNCHANGED <<last, given, content, written, tmp>>
      BY <1>2, ClaimEffect DEF SubVars, FileVars
    <2>2. CallInv' /\ \A x \in AnySample : (Used(x) => Used(x)') /\ (Settled(x) => Settled(x)')
      BY <1>1, <1>2, ClaimCalls
    <2>3. \A x \in written' : Settled(x)'
      BY <1>1, <2>1, <2>2
    <2> QED BY <2>1, <2>2, <2>3, SampleKept DEF SampleInv
  <1>3. wpc[c] # "idle" => writing[c] \in AnySample /\ writing[c] \notin written
    <2>1. wpc[c] # "idle" => wpc[c] \in Active
      BY DEF TypeInv, Active
    <2> QED BY <1>1, <2>1 DEF TypeInv, Settled, NotAt
  <1>4. CASE Publish(c)
    <2>1. PICK x \in AnySample : x = writing[c]
      BY <1>3, <1>4 DEF Publish
    <2>2. /\ wpc[c] = "publish" /\ wpc' = [wpc EXCEPT ![c] = "create"]
          /\ last' = (IF x[1] \in DurablePublishers THEN [last EXCEPT ![Home[x[1]]] = x] ELSE last)
          /\ Push(registered[Home[x[1]]], x)
          /\ UNCHANGED <<seq, writing, overlapped, content, written, tmp>>
      BY <1>4, <2>1 DEF Publish, FileVars
    <2>3. /\ CallInv' /\ Used(writing[c])'
          /\ \A y \in AnySample : (Used(y) => Used(y)') /\ (Settled(y) => Settled(y)')
      BY <1>1, <2>2, CallMoves
    <2>4. Used(x)'
      BY <2>1, <2>2, <2>3 DEF Used
    <2>5. \A h \in Procs : \/ last'[h] \in {last[h], Nothing}
                           \/ Home[last'[h][1]] = h /\ Used(last[h])'
      <3>1. \A h \in Procs : last'[h] = last[h] \/ (last'[h] = x /\ h = Home[x[1]])
        BY <2>2 DEF TypeInv
      <3> QED BY <2>4, <3>1 DEF Used
    <2>6. \A s \in Subscribers : \A y \in ToSet(given'[s]) : y \in ToSet(given[s]) \/ Used(y)'
      <3>1. ASSUME NEW s \in Subscribers, NEW y \in ToSet(given'[s])
            PROVE  y \in ToSet(given[s]) \/ y = x
        <4>1. \/ given'[s] = given[s]
              \/ ToSet(given'[s]) = ToSet(given[s]) \cup {x}
          BY <2>2, PushGives
        <4> QED BY <3>1, <4>1
      <3> QED BY <2>4, <3>1
    <2>7. \A y \in written' : Settled(y)'
      BY <1>1, <2>2, <2>3
    <2> QED BY <2>2, <2>3, <2>5, <2>6, <2>7, SampleKept DEF SampleInv
  <1>5. CASE CreateTmp(c)
    <2>1. /\ tmp' = Created /\ content' = [content EXCEPT ![Created] = Nothing]
          /\ wpc[c] = "create" /\ wpc' = [wpc EXCEPT ![c] = "fill"]
          /\ UNCHANGED <<seq, writing, overlapped, last, given, written>>
      BY <1>5 DEF CreateTmp, Created, EndVars, SubVars
    <2>2. CallInv' /\ \A y \in AnySample : (Used(y) => Used(y)') /\ (Settled(y) => Settled(y)')
      BY <1>1, <2>1, CallMoves
    <2>3. content'[tmp'] = Nothing
      BY <2>1, CreatedInode DEF FileInv, TypeInv
    <2>4. content'[tmp'] \notin written'
      BY <2>3, NothingIsNoSample DEF TypeInv
    <2>5. \A y \in written' : Settled(y)'
      BY <1>1, <2>1, <2>2
    <2>6. \A i \in Inodes : content'[i] \in {content[i], Nothing}
      BY <2>1 DEF TypeInv
    <2> QED BY <2>1, <2>2, <2>4, <2>5, <2>6, SampleKept
  <1>6. CASE FillTmp(c)
    <2>1. PICK x \in AnySample : x = writing[c]
      BY <1>3, <1>6 DEF FillTmp
    <2>2. /\ content' = [content EXCEPT ![fd[c]] = x]
          /\ wpc[c] = "fill" /\ wpc' = [wpc EXCEPT ![c] = "rename"]
          /\ UNCHANGED <<seq, writing, overlapped, last, given, written, tmp>>
      BY <1>6, <2>1 DEF FillTmp, EndVars, SubVars
    <2>3. /\ CallInv' /\ Used(writing[c])'
          /\ \A y \in AnySample : (Used(y) => Used(y)') /\ (Settled(y) => Settled(y)')
      BY <1>1, <2>2, CallMoves
    <2>4. Used(x)'
      BY <2>1, <2>2, <2>3 DEF Used
    <2>5. tmp' # NoInode => content'[tmp'] \notin written'
      <3>1. x \notin written
        BY <1>3, <2>1, <2>2
      <3>2. tmp # NoInode => tmp \in Inodes /\ content'[tmp] \in {content[tmp], x}
        BY <2>2 DEF TypeInv, Paths
      <3> QED BY <2>2, <3>1, <3>2 DEF SampleInv
    <2>6. \A y \in written' : Settled(y)'
      BY <1>1, <2>2, <2>3
    <2>7. \A i \in Inodes : content'[i] \in {content[i], Nothing} \/ Used(content[i])'
      <3>1. \A i \in Inodes : content'[i] = content[i] \/ content'[i] = x
        BY <2>2 DEF TypeInv
      <3> QED BY <2>4, <3>1 DEF Used
    <2> QED BY <2>2, <2>3, <2>5, <2>6, <2>7, SampleKept
  <1>7. CASE WriteFails(c) \/ Rename(c)
    <2>1. PICK x \in AnySample : x = writing[c]
      BY <1>3, <1>7 DEF WriteFails, Rename
    <2>2. /\ wpc[c] # "idle" /\ wpc' = [wpc EXCEPT ![c] = "idle"]
          /\ writing' = [writing EXCEPT ![c] = Nothing]
          /\ UNCHANGED <<seq, overlapped, last, given, content>>
          /\ UNCHANGED <<written, tmp>> \/ (written' = written \cup {x} /\ tmp' = NoInode)
      BY <1>7, <2>1 DEF WriteFails, Rename, Return, EndVars, SubVars
    <2>3. wpc'[c] = "idle" /\ \A d \in Calls : d # c => wpc'[d] = wpc[d] /\ writing'[d] = writing[d]
      BY <2>2 DEF TypeInv
    <2>4. CallInv' /\ \A y \in AnySample : (Used(y) => Used(y)') /\ (Settled(y) => Settled(y)')
      BY <1>1, <2>2, <2>3, CallsGoOn
    <2>5. Settled(x)'
      <3>1. x[2] <= seq'[x[1]]
        BY <1>1, <2>1, <2>2 DEF CallInv
      <3>2. ASSUME NEW d \in Calls, wpc'[d] \in Active PROVE writing'[d] # x
        <4>1. d # c /\ wpc[d] # "idle" /\ writing'[d] = writing[d]
          BY <2>3, <3>2 DEF Active
        <4> QED BY <1>1, <2>1, <2>2, <4>1 DEF CallInv
      <3> QED BY <3>1, <3>2 DEF Settled, NotAt
    <2>6. \A y \in written' : Settled(y)'
      BY <1>1, <2>2, <2>4, <2>5
    <2> QED BY <2>2, <2>4, <2>6, SampleKept DEF SampleInv
  <1> QED BY <1>2, <1>4, <1>5, <1>6, <1>7 DEF Write

LEMMA SampleSubscriber ==
    ASSUME TypeInv, TypeInv', SampleInv, NEW s \in Subscribers,
           (\E d \in {"Volatile", "TransientLocal"} : NewSubscriber(s, d))
             \/ Poll(s) \/ Unsubscribe(s) \/ CloseSubscriber(s)
    PROVE  SampleInv'
  <1>1. UNCHANGED <<seq, wpc, writing, overlapped, last, content, written, tmp, data>>
    BY DEF NewSubscriber, Poll, Seed, Tick, TickEnds, Unsubscribe, CloseSubscriber,
           EndVars, CallVars, FileVars
  <1>2. Current # Nothing => Current \in AnySample /\ Used(Current)
    BY CurrentType DEF Contents, Current, SampleInv, TypeInv, Paths
  <1>3. ASSUME NEW q \in Subscribers, NEW x \in ToSet(given'[q])
        PROVE  x \in ToSet(given[q]) \/ Used(x)
    <2>1. ASSUME NEW d \in {"Volatile", "TransientLocal"}, NewSubscriber(s, d)
          PROVE  x \in ToSet(given[q]) \/ Used(x)
      <3>1. Home[s] \in Procs
        BY HomeAssumption DEF Endpoints
      <3>2. CASE d = "TransientLocal" /\ last[Home[s]] # Nothing
        <4>1. given' = [given EXCEPT ![s] = <<last[Home[s]]>>]
          BY <2>1, <3>2 DEF NewSubscriber
        <4>2. q # s \/ x = last[Home[s]]
          BY <4>1 DEF TypeInv, ToSet
        <4> QED BY <3>1, <3>2, <4>1, <4>2 DEF SampleInv, TypeInv
      <3>3. CASE ~(d = "TransientLocal" /\ last[Home[s]] # Nothing)
        BY <2>1, <3>3 DEF NewSubscriber
      <3> QED BY <3>2, <3>3
    <2>2. CASE Seed(s) \/ Tick(s)
      BY <1>2, <2>2, PushGives DEF Seed, Tick
    <2>3. CASE TickEnds(s) \/ Unsubscribe(s) \/ CloseSubscriber(s)
      BY <2>3 DEF TickEnds, Unsubscribe, CloseSubscriber
    <2> QED BY <2>1, <2>2, <2>3 DEF Poll
  <1>4. /\ CallInv' /\ \A x : (Used(x) <=> Used(x)') /\ (Settled(x) <=> Settled(x)')
    BY <1>1, Zenon DEF SampleInv, CallInv, Used, Settled, NotAt
  <1>5. \A x \in written' : Settled(x)'
    BY <1>1, <1>4, Zenon DEF SampleInv, Settled
  <1>6. \A q \in Subscribers : \A x \in ToSet(given'[q]) : x \in ToSet(given[q]) \/ Used(x)'
    BY <1>3, <1>4
  <1> QED BY <1>1, <1>4, <1>5, <1>6, SampleKept DEF SampleInv

LEMMA SampleCrash ==
    ASSUME TypeInv, TypeInv', SampleInv, NEW h \in Procs, Crash(h) PROVE SampleInv'
  <1>1. /\ UNCHANGED <<seq, overlapped, given, content, written, tmp>>
        /\ last' = [last EXCEPT ![h] = Nothing]
    BY DEF Crash
  <1>2. \A d \in Calls : wpc'[d] = "idle" \/ (wpc'[d] = wpc[d] /\ writing'[d] = writing[d])
    BY DEF Crash
  <1>3. CallInv' /\ \A x \in AnySample : (Used(x) => Used(x)') /\ (Settled(x) => Settled(x)')
    BY <1>1, <1>2, CallsGoOn DEF SampleInv
  <1>4. \A x \in written' : Settled(x)'
    <2>1. \A x \in written : x \in AnySample /\ Settled(x)
      BY Zenon DEF SampleInv, Settled, TypeInv
    <2> QED BY <1>1, <1>3, <2>1
  <1>5. \A k \in Procs : last'[k] \in {last[k], Nothing}
    BY <1>1 DEF TypeInv
  <1> QED BY <1>1, <1>3, <1>4, <1>5, SampleKept DEF SampleInv

LEMMA SampleStep ==
    ASSUME TypeInv, FileInv, SampleInv, [Next]_vars
    PROVE  TypeInv' /\ FileInv' /\ SampleInv'
  <1>1. TypeInv' /\ FileInv'
    BY FileStep
  <1>2. CASE UNCHANGED ModelVars
    <2>1. UNCHANGED <<seq, wpc, writing, overlapped, last, content, given, written, tmp>>
      BY <1>2 DEF ModelVars
    <2> QED BY <1>1, <2>1, Zenon DEF SampleInv, CallInv, Used, NotAt
  <1> QED BY <1>1, <1>2, OtherSteps, SampleWrite, SampleSubscriber, SampleCrash DEF Next

LEMMA SampleInit == ASSUME Init PROVE SampleInv
  <1>1. \A s \in Subscribers : ToSet(given[s]) = {}
    BY EmptyGiven DEF Init
  <1> QED BY <1>1 DEF Init, SampleInv, CallInv

-----------------------------------------------------------------------------
(* The two delivery paths                                                  *)

\* What the path through the broker gives a subscriber is of its own process;
\* what the poller gives it is of others, with growing numbers.  Until the
\* poller has read the file for the first time nothing has come from it, and
\* from then on what was written before the subscriber existed is not newer than
\* last_seq.
PathsOf(s) ==
    /\ poll[s] \in {"none", "seed"} => \A x \in ToSet(given[s]) : ~Foreign(s, x)
    /\ poll[s] = "tick" =>
          /\ \A x \in ToSet(given[s]) : Foreign(s, x) => x[2] <= lastSeq[s]
          /\ Current \in before[s] => Current[2] <= lastSeq[s]

Fresh(s) == s \in durable \/ ToSet(given[s]) \cap before[s] = {}

DeliverOf(s) ==
    /\ before[s] \subseteq written
    /\ sub[s] = "none" => given[s] = <<>> /\ s \notin durable /\ poll[s] = "none"
    /\ Ordered(s, given[s]) /\ Fresh(s) /\ PathsOf(s)

DeliverInv ==
    /\ \A h \in Procs : \A s \in registered[h] : Home[s] = h
    /\ \A s \in Subscribers : DeliverOf(s)

LEMMA DeliverInit == ASSUME Init PROVE DeliverInv
  <1>1. ASSUME NEW s \in Subscribers PROVE DeliverOf(s)
    BY EmptyGiven DEF Init, DeliverOf, Fresh, PathsOf
  <1>2. \A h \in Procs : registered[h] = {}
    BY DEF Init
  <1> QED BY <1>1, <1>2 DEF DeliverInv, DeliverOf

\* A step that gives the subscriber nothing; the file may get a sample that was
\* not written when the subscriber was made.
LEMMA DeliverKept ==
    ASSUME NEW s \in Subscribers, DeliverOf(s),
           given'[s] = given[s], before'[s] = before[s], lastSeq'[s] = lastSeq[s],
           written \subseteq written', overlapped \subseteq overlapped',
           s \in durable <=> s \in durable',
           sub'[s] \in {sub[s], "closed"},
           poll'[s] = poll[s] \/ (poll'[s] = "ended" /\ sub'[s] = "closed"),
           Current' = Current \/ Current' \notin before[s]
    PROVE  DeliverOf(s)'
  <1>1. Fresh(s)'
    BY DEF DeliverOf, Fresh
  <1>2. PathsOf(s)'
    BY DEF DeliverOf, PathsOf, Foreign
  <1>3. Ordered(s, given[s])'
    BY Zenon DEF DeliverOf, Ordered, Follows, Foreign
  <1>4. sub'[s] = "none" => given'[s] = <<>> /\ s \notin durable' /\ poll'[s] = "none"
    BY DEF DeliverOf, PathsOf
  <1> QED BY <1>1, <1>2, <1>3, <1>4 DEF DeliverOf

\* A step that gives it a sample.
LEMMA DeliverNext ==
    ASSUME TypeInv, NEW s \in Subscribers, DeliverOf(s), NEW x \in AnySample,
           sub[s] = "open", sub'[s] = sub[s], given'[s] = Append(given[s], x),
           before'[s] = before[s], written' = written, durable' = durable,
           overlapped' = overlapped, \A y \in ToSet(given[s]) : Follows(s, y, x),
           s \in durable \/ x \notin before[s], PathsOf(s)'
    PROVE  DeliverOf(s)'
  <1>1. given[s] \in Seq(AnySample)
    BY DEF TypeInv
  <1>2. ToSet(given'[s]) = ToSet(given[s]) \cup {x}
    BY <1>1, AppendSample
  <1>3. Ordered(s, given[s])'
    <2>1. Ordered(s, Append(given[s], x))
      BY <1>1, AppendSample DEF DeliverOf
    <2> QED BY <2>1, Zenon DEF Ordered, Follows, Foreign
  <1>4. Fresh(s)'
    BY <1>2 DEF DeliverOf, Fresh
  <1> QED BY <1>3, <1>4 DEF DeliverOf

\* write_sample puts into data.bin what was not written before, or nothing new.
LEMMA DeliverFile ==
    ASSUME TypeInv, FileInv, SampleInv, NEW c \in Calls,
           CreateTmp(c) \/ FillTmp(c) \/ WriteFails(c) \/ Rename(c)
    PROVE  Current' = Current \/ Current' \notin written
  <1> DEFINE x == writing[c]
  <1>1. wpc[c] # "idle" => x \notin written
    <2>1. wpc[c] # "idle" => wpc[c] \in Active
      BY DEF TypeInv, Active
    <2> QED BY <2>1 DEF SampleInv, NotAt
  <1>2. NoInode \notin Inodes
    BY FiniteAssumption, FS_CardinalityType DEF NoInode, Inodes
  <1>3. CASE CreateTmp(c)
    <2>1. data' = data /\ content' = [content EXCEPT ![Created] = Nothing]
      BY <1>3 DEF CreateTmp, Created
    <2>2. Created # data
      BY CreatedInode DEF FileInv
    <2> QED BY <2>1, <2>2 DEF Current, TypeInv, Paths
  <1>4. CASE FillTmp(c)
    <2>1. data' = data /\ content' = [content EXCEPT ![fd[c]] = x] /\ x \notin written
      BY <1>1, <1>4 DEF FillTmp
    <2> HIDE DEF x
    <2> QED BY <2>1 DEF Current, TypeInv, Paths
  <1>5. CASE WriteFails(c)
    BY <1>5 DEF WriteFails, Current
  <1>6. CASE Rename(c)
    <2>1. data' = (IF tmp = NoInode THEN data ELSE tmp) /\ content' = content
      BY <1>6 DEF Rename
    <2> QED BY <2>1 DEF Current, SampleInv
  <1> QED BY <1>3, <1>4, <1>5, <1>6

LEMMA DeliverWrite ==
    ASSUME TypeInv, FileInv, SampleInv, DeliverInv, NEW c \in Calls, Write(c)
    PROVE  DeliverInv'
  <1>1. ASSUME NEW s \in Subscribers PROVE DeliverOf(s) /\ before[s] \subseteq written
    BY <1>1 DEF DeliverInv, DeliverOf
  <1>2. ASSUME NEW p \in Publishers, WriteClaim(c, p) PROVE DeliverInv'
    <2>1. /\ UNCHANGED <<registered, sub, durable, poll, lastSeq, given, before, data, content, written>>
          /\ overlapped \subseteq overlapped'
      BY <1>2, ClaimEffect DEF SubVars, FileVars
    <2>2. \A s \in Subscribers : DeliverOf(s)'
      BY <1>1, <2>1, DeliverKept DEF Current
    <2> QED BY <2>1, <2>2 DEF DeliverInv
  <1>3. CASE Publish(c)
    <2>1. PICK x \in AnySample : x = writing[c]
      BY <1>3 DEF Publish, TypeInv
    <2> DEFINE h == Home[x[1]]
    <2>2. /\ wpc[c] = "publish" /\ Push(registered[h], x)
          /\ registered' = [registered EXCEPT ![h] = {s \in @ : sub[s] # "closed"}]
          /\ UNCHANGED <<sub, durable, poll, lastSeq, before, data, content, written, overlapped>>
      BY <1>3, <2>1 DEF Publish, FileVars
    <2>3. h \in Procs /\ x[1] \in Publishers /\ x[2] \in Nat
      BY HomeAssumption DEF AnySample, Endpoints
    <2>4. x \notin written
      <3>1. wpc[c] \in Active
        BY <2>2 DEF Active, WritePcs
      <3> QED BY <2>1, <3>1 DEF SampleInv, NotAt
    <2>5. Current' = Current
      BY <2>2 DEF Current
    <2>6. ASSUME NEW s \in Subscribers PROVE DeliverOf(s)'
      <3>1. CASE given'[s] = given[s]
        BY <1>1, <2>2, <2>5, <3>1, DeliverKept
      <3>2. CASE /\ s \in registered[h] /\ sub[s] = "open" /\ given'[s] = Append(given[s], x)
                 /\ ToSet(given'[s]) = ToSet(given[s]) \cup {x}
        <4>1. ~Foreign(s, x)
          <5>1. Home[s] = h
            BY <2>3, <3>2 DEF DeliverInv
          <5> QED BY <5>1 DEF Foreign
        <4>2. ASSUME NEW y \in ToSet(given[s]) PROVE Follows(s, y, x)
          <5>1. y \in AnySample
            BY GivenSamples
          <5>2. y[1] \in Publishers /\ y[2] \in Nat /\ y = <<y[1], y[2]>> /\ x = <<x[1], x[2]>>
            BY <5>1 DEF AnySample
          <5>3. y[2] <= seq[y[1]] /\ y # x
            BY <2>1, <2>2 DEF SampleInv, Used, NotAt
          <5>4. ASSUME y[1] = x[1], x[2] < y[2] PROVE <<x, y>> \in overlapped
            <6>1. <<x, <<x[1], y[2]>>>> \in overlapped
              BY <2>1, <2>2, <5>2, <5>3, <5>4 DEF SampleInv, CallInv
            <6> QED BY <5>2, <5>4, <6>1
          <5>5. ASSUME y[1] = x[1] PROVE ~Foreign(s, y) /\ y[2] # x[2]
            BY <4>1, <5>2, <5>3, <5>5 DEF Foreign
          <5>6. y[1] # x[1] \/ y[2] < x[2] \/ (y[1] = x[1] /\ y[2] > x[2])
            BY <2>3, <5>2, <5>5
          <5> QED BY <5>4, <5>5, <5>6 DEF Follows
        <4>3. PathsOf(s)'
          <5>1. PathsOf(s) /\ poll'[s] = poll[s] /\ lastSeq'[s] = lastSeq[s] /\ before'[s] = before[s]
            BY <1>1, <2>2 DEF DeliverOf
          <5> QED BY <2>5, <3>2, <4>1, <5>1 DEF PathsOf, Foreign
        <4>4. x \notin before[s]
          BY <1>1, <2>4
        <4> QED BY <1>1, <2>2, <3>2, <4>2, <4>3, <4>4, DeliverNext
      <3>3. \/ given'[s] = given[s]
            \/ /\ s \in registered[h] /\ sub[s] = "open" /\ given'[s] = Append(given[s], x)
               /\ ToSet(given'[s]) = ToSet(given[s]) \cup {x}
        BY <2>2, PushGives
      <3> QED BY <3>1, <3>2, <3>3
    <2>7. \A k \in Procs : registered'[k] \subseteq registered[k]
      BY <2>2 DEF TypeInv
    <2> QED BY <2>6, <2>7 DEF DeliverInv
  <1>4. CASE CreateTmp(c) \/ FillTmp(c) \/ WriteFails(c) \/ Rename(c)
    <2>1. /\ UNCHANGED <<registered, sub, durable, poll, lastSeq, given, before>>
          /\ written \subseteq written' /\ overlapped' = overlapped
      BY <1>4 DEF CreateTmp, FillTmp, WriteFails, Rename, EndVars, SubVars
    <2>2. Current' = Current \/ Current' \notin written
      BY <1>4, DeliverFile
    <2>3. ASSUME NEW s \in Subscribers PROVE DeliverOf(s)'
      BY <1>1, <2>1, <2>2, DeliverKept
    <2> QED BY <2>1, <2>3 DEF DeliverInv
  <1> QED BY <1>2, <1>3, <1>4 DEF Write

LEMMA DeliverNewSubscriber ==
    ASSUME TypeInv, SampleInv, DeliverInv, NEW s \in Subscribers,
           NEW d \in {"Volatile", "TransientLocal"}, NewSubscriber(s, d)
    PROVE  DeliverInv'
  <1> DEFINE h == Home[s]  replay == d = "TransientLocal" /\ last[h] # Nothing
  <1>1. /\ h \in Procs /\ sub[s] = "none"
        /\ sub' = [sub EXCEPT ![s] = "open"]
        /\ durable' = IF d = "TransientLocal" THEN durable \cup {s} ELSE durable
        /\ given' = IF replay THEN [given EXCEPT ![s] = <<last[h]>>] ELSE given
        /\ registered' = [registered EXCEPT ![h] = @ \cup {s}]
        /\ poll' = [poll EXCEPT ![s] = "seed"]
        /\ before' = [before EXCEPT ![s] = written]
        /\ UNCHANGED <<lastSeq, data, content, written, overlapped>>
    BY HomeAssumption DEF NewSubscriber, CallVars, FileVars, Endpoints
  <1>2. Current' = Current
    BY <1>1 DEF Current
  <1>3. ASSUME NEW q \in Subscribers, q # s PROVE DeliverOf(q)'
    <2>1. /\ sub'[q] = sub[q] /\ poll'[q] = poll[q] /\ before'[q] = before[q]
          /\ lastSeq'[q] = lastSeq[q] /\ (q \in durable <=> q \in durable') /\ written' = written
      BY <1>1, <1>3 DEF TypeInv
    <2>2. given'[q] = given[q]
      BY <1>1, <1>3 DEF TypeInv
    <2>3. DeliverOf(q)
      BY DEF DeliverInv
    <2>4. overlapped' = overlapped
      BY <1>1
    <2> QED BY <1>2, <2>1, <2>2, <2>3, <2>4, DeliverKept
  <1>4. DeliverOf(s)'
    <2>1. /\ sub'[s] = "open" /\ poll'[s] = "seed" /\ before'[s] = written /\ written' = written
      BY <1>1 DEF TypeInv
    <2>2. given[s] = <<>>
      BY <1>1 DEF DeliverInv, DeliverOf
    <2>3. CASE replay
      <3>1. given'[s] = <<last[h]>> /\ s \in durable'
        BY <1>1, <2>3 DEF TypeInv
      <3>2. ToSet(given'[s]) = {last[h]} /\ Ordered(s, given[s])'
        BY <3>1 DEF ToSet, Ordered
      <3>3. ~Foreign(s, last[h])
        BY <1>1, <2>3 DEF SampleInv, Foreign
      <3>4. Fresh(s)'
        BY <3>1 DEF Fresh
      <3>5. PathsOf(s)'
        BY <2>1, <3>2, <3>3 DEF PathsOf, Foreign
      <3> QED BY <2>1, <3>2, <3>4, <3>5 DEF DeliverOf
    <2>4. CASE ~replay
      <3>1. given'[s] = <<>>
        BY <1>1, <2>2, <2>4
      <3>2. ToSet(given'[s]) = {} /\ Ordered(s, given[s])'
        BY <3>1, EmptyGiven DEF Ordered
      <3> QED BY <2>1, <3>2 DEF DeliverOf, Fresh, PathsOf
    <2> QED BY <2>3, <2>4
  <1>5. \A k \in Procs : \A q \in registered'[k] : Home[q] = k
    BY <1>1 DEF DeliverInv, TypeInv
  <1> QED BY <1>3, <1>4, <1>5 DEF DeliverInv

\* The order of what has been given stays as it is.
LEMMA OrderKept ==
    ASSUME NEW s \in Subscribers, Ordered(s, given[s]), given'[s] = given[s],
           overlapped' = overlapped
    PROVE  Ordered(s, given[s])'
  BY Zenon DEF Ordered, Follows, Foreign

\* The poller gives its own subscriber the sample in the file, or nothing.
LEMMA DeliverPoll ==
    ASSUME TypeInv, DeliverInv, NEW s \in Subscribers, Seed(s) \/ Tick(s)
    PROVE  DeliverInv'
  <1> DEFINE Gives == sub[s] = "open" /\ given'[s] = Append(given[s], Current)
                       /\ ToSet(given'[s]) = ToSet(given[s]) \cup {Current}
  <1>1. /\ UNCHANGED <<registered, sub, durable, before, data, content, written, overlapped>>
        /\ \A q \in Subscribers \ {s} : poll'[q] = poll[q] /\ lastSeq'[q] = lastSeq[q]
    BY DEF Seed, Tick, EndVars, CallVars, FileVars, TypeInv
  <1>2. Current' = Current
    BY <1>1 DEF Current
  <1>3. Current # Nothing => Current \in AnySample /\ Current[2] \in Nat
    BY CurrentType DEF Contents, AnySample
  <1>4. \A q \in Subscribers : DeliverOf(q)
    BY DEF DeliverInv
  <1>5. ASSUME NEW q \in Subscribers, q # s PROVE DeliverOf(q)'
    <2>1. given'[q] = given[q]
      BY <1>5 DEF Seed, Tick, Push
    <2> QED BY <1>1, <1>2, <1>4, <1>5, <2>1, DeliverKept
  <1>6. ASSUME Seed(s) PROVE DeliverOf(s)'
    <2>1. /\ poll[s] = "seed" /\ poll'[s] = "tick"
          /\ lastSeq'[s] = IF Current = Nothing THEN 0 ELSE Current[2]
      BY <1>6 DEF Seed, TypeInv
    <2>2. \A y \in ToSet(given[s]) : ~Foreign(s, y)
      BY <1>4, <2>1 DEF DeliverOf, PathsOf
    <2>3. Current \in before[s] => Current[2] <= lastSeq'[s]
      <3>1. Current \in before[s] => Current # Nothing
        BY NothingIsNoSample DEF TypeInv
      <3> QED BY <1>3, <2>1, <3>1
    <2>4. CASE given'[s] = given[s]
      <3>1. PathsOf(s)'
        BY <1>1, <1>2, <2>1, <2>2, <2>3, <2>4 DEF PathsOf, Foreign
      <3>2. sub[s] # "none"
        BY <1>4, <2>1 DEF DeliverOf
      <3>3. Ordered(s, given[s])'
        BY <1>1, <1>4, <2>4, OrderKept DEF DeliverOf
      <3> QED BY <1>1, <1>4, <2>4, <3>1, <3>2, <3>3 DEF DeliverOf, Fresh
    <2>5. CASE Gives /\ Current # Nothing /\ s \in durable /\ Foreign(s, Current)
      <3>1. PathsOf(s)'
        BY <1>1, <1>2, <1>3, <2>1, <2>2, <2>3, <2>5 DEF PathsOf, Foreign
      <3>2. \A y \in ToSet(given[s]) : Follows(s, y, Current)
        BY <2>2, <2>5 DEF Foreign, Follows
      <3> QED BY <1>1, <1>3, <1>4, <2>5, <3>1, <3>2, DeliverNext
    <2>6. \/ given'[s] = given[s]
          \/ Gives /\ Current # Nothing /\ s \in durable /\ Foreign(s, Current)
      BY <1>3, <1>6, PushGives DEF Seed
    <2> QED BY <2>4, <2>5, <2>6
  <1>7. ASSUME Tick(s) PROVE DeliverOf(s)'
    <2>1. /\ poll[s] = "tick" /\ poll'[s] = "tick" /\ lastSeq'[s] = Current[2]
          /\ Current # Nothing /\ Foreign(s, Current) /\ Current[2] > lastSeq[s]
          /\ lastSeq[s] \in Nat
      BY <1>7 DEF Tick, TypeInv
    <2>2. /\ \A y \in ToSet(given[s]) : Foreign(s, y) => y[2] <= lastSeq[s]
          /\ Current \in before[s] => Current[2] <= lastSeq[s]
      BY <1>4, <2>1 DEF DeliverOf, PathsOf
    <2>3. Current \notin before[s]
      BY <1>3, <2>1, <2>2
    <2>4. \A y \in ToSet(given[s]) : y[2] \in Nat
      BY GivenSamples DEF AnySample
    <2>5. \A y \in ToSet(given[s]) : Foreign(s, y) => y[2] < Current[2]
      BY <1>3, <2>1, <2>2, <2>4
    <2>6. CASE given'[s] = given[s]
      <3>1. PathsOf(s)'
        BY <1>1, <1>2, <2>1, <2>3, <2>4, <2>5, <2>6, <1>3 DEF PathsOf, Foreign
      <3>2. sub[s] # "none"
        BY <1>4, <2>1 DEF DeliverOf
      <3>3. Ordered(s, given[s])'
        BY <1>1, <1>4, <2>6, OrderKept DEF DeliverOf
      <3> QED BY <1>1, <1>4, <2>6, <3>1, <3>2, <3>3 DEF DeliverOf, Fresh
    <2>7. CASE Gives
      <3>1. PathsOf(s)'
        BY <1>1, <1>2, <1>3, <2>1, <2>3, <2>4, <2>5, <2>7 DEF PathsOf, Foreign
      <3>2. \A y \in ToSet(given[s]) : Follows(s, y, Current)
        BY <2>1, <2>5 DEF Foreign, Follows
      <3> QED BY <1>1, <1>3, <1>4, <2>1, <2>3, <2>7, <3>1, <3>2, DeliverNext
    <2>8. given'[s] = given[s] \/ Gives
      BY <1>3, <1>7, PushGives DEF Tick
    <2> QED BY <2>6, <2>7, <2>8
  <1>8. DeliverOf(s)'
    BY <1>6, <1>7
  <1> QED BY <1>1, <1>5, <1>8 DEF DeliverInv

LEMMA DeliverEnds ==
    ASSUME TypeInv, DeliverInv,
           \/ \E s \in Subscribers : TickEnds(s) \/ Unsubscribe(s) \/ CloseSubscriber(s)
           \/ \E h \in Procs : Crash(h)
    PROVE  DeliverInv'
  <1>1. UNCHANGED <<durable, lastSeq, given, before, data, content, written, overlapped>>
    BY DEF TickEnds, Unsubscribe, CloseSubscriber, Crash, EndVars, CallVars, FileVars
  <1>2. ASSUME NEW q \in Subscribers
        PROVE  /\ sub'[q] \in {sub[q], "closed"}
               /\ poll'[q] = poll[q] \/ (poll'[q] = "ended" /\ sub'[q] = "closed")
    BY <1>2 DEF TickEnds, Unsubscribe, CloseSubscriber, Crash, EndVars, TypeInv
  <1>3. ASSUME NEW q \in Subscribers PROVE DeliverOf(q)'
    <2>1. DeliverOf(q) /\ Current' = Current
      BY <1>1 DEF DeliverInv, Current
    <2> QED BY <1>1, <1>2, <2>1, DeliverKept
  <1>4. \A k \in Procs : registered'[k] \subseteq registered[k]
    <2>1. ASSUME NEW s \in Subscribers, TickEnds(s) \/ Unsubscribe(s) \/ CloseSubscriber(s)
          PROVE  registered' = registered \/ registered' = [registered EXCEPT ![Home[s]] = @ \ {s}]
      BY <2>1 DEF TickEnds, Unsubscribe, CloseSubscriber, Deregister, EndVars
    <2>2. ASSUME NEW h \in Procs, Crash(h) PROVE registered' = [registered EXCEPT ![h] = {}]
      BY <2>2 DEF Crash
    <2>3. \A h \in Procs : \A S : (registered' = [registered EXCEPT ![h] = S] /\ S \subseteq registered[h])
              => \A k \in Procs : registered'[k] \subseteq registered[k]
      BY DEF TypeInv
    <2>4. \A s \in Subscribers : Home[s] \in Procs
      BY HomeAssumption DEF Endpoints
    <2> QED BY <2>1, <2>2, <2>3, <2>4
  <1> QED BY <1>3, <1>4 DEF DeliverInv

DeliveryInv == TypeInv /\ FileInv /\ SampleInv /\ DeliverInv

LEMMA DeliverStep == ASSUME DeliveryInv, [Next]_vars PROVE DeliveryInv'
  <1>1. TypeInv' /\ FileInv' /\ SampleInv'
    BY SampleStep DEF DeliveryInv
  <1>2. CASE UNCHANGED ModelVars
    <2>1. UNCHANGED <<registered, sub, durable, poll, lastSeq, given, before, written, data, content,
                      overlapped>>
      BY <1>2 DEF ModelVars
    <2>2. ASSUME NEW s \in Subscribers PROVE DeliverOf(s)'
      <3>1. DeliverOf(s) /\ Current' = Current
        BY <2>1 DEF DeliveryInv, DeliverInv, Current
      <3> QED BY <2>1, <3>1, DeliverKept
    <2>3. DeliverInv'
      BY <2>1, <2>2 DEF DeliveryInv, DeliverInv
    <2> QED BY <1>1, <2>3 DEF DeliveryInv
  <1>3. ASSUME ~UNCHANGED ModelVars PROVE DeliverInv'
    BY <1>3, OtherSteps, DeliverWrite, DeliverNewSubscriber, DeliverPoll, DeliverEnds
    DEF DeliveryInv, Next, Poll
  <1> QED BY <1>1, <1>2, <1>3 DEF DeliveryInv

LEMMA DeliveryAlways == Spec => []DeliveryInv
  <1>1. Init => DeliveryInv
    BY FileInit, SampleInit, DeliverInit DEF DeliveryInv
  <1>2. DeliveryInv /\ [Next]_vars => DeliveryInv'
    BY DeliverStep
  <1> QED BY <1>1, <1>2, PTL DEF Spec

\* Over both delivery paths a subscriber is given no sample twice and those of
\* each writer in the order of their numbers, whatever writers fail or die and
\* however many calls of write_payload are inside at once, on one publisher or on
\* several: only two calls of one publisher that overlap can be turned round, and
\* only for a subscriber of the same process.
THEOREM WritersAreInOrder == Spec => []WriterOrder
  <1>1. DeliveryInv => WriterOrder
    BY DEF DeliveryInv, DeliverInv, DeliverOf, Ordered, WriterOrder
  <1> QED BY <1>1, DeliveryAlways, PTL

\* A Volatile subscriber is never given a sample that had been written before it
\* was made: spawn_poller's first read sets last_seq to the sample in the file,
\* and what gets into the file later had not been written then.
THEOREM VolatileIsFresh == Spec => []VolatileFresh
  <1>1. DeliveryInv => VolatileFresh
    BY DEF DeliveryInv, DeliverInv, DeliverOf, Fresh, VolatileFresh
  <1> QED BY <1>1, DeliveryAlways, PTL
=============================================================================
