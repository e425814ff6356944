--------------------------- MODULE DataPathProofs --------------------------
(***************************************************************************)
(* Proofs about DataPath for any participants, writers, readers, topics    *)
(* and payloads, any size of fragments and any limits, with processes that *)
(* die and restart anywhere and a network that loses, repeats and reorders *)
(* what it is given.                                                       *)
(***************************************************************************)
EXTENDS DataPath, SequenceTheorems, FiniteSetTheorems, TLAPS

-----------------------------------------------------------------------------
(* Sequences                                                               *)

LEMMA InSeq ==
    ASSUME NEW S, NEW b \in Seq(S), NEW i \in 1..Len(b) PROVE b[i] \in S
  OBVIOUS

LEMMA IsSeqOf ==
    ASSUME NEW S, NEW n \in Nat, NEW b \in [1..n -> S] PROVE b \in Seq(S) /\ Len(b) = n
  OBVIOUS

-----------------------------------------------------------------------------
(* Integers in octets                                                      *)

OctetSet == 0..(Base - 1)

LEMMA BaseNat == Base \in Nat /\ Base >= 64
  BY BaseAssumption

LEMMA BaseFacts ==
    /\ U16 \in Nat /\ U32 \in Nat /\ U16 >= 4096
    /\ U32 = Base * (Base * (Base * Base)) /\ U32 >= U16
  <1>2. PICK s \in Nat : s = Base * Base /\ s >= 4096
    <2>1. Base * Base >= 64 * 64
      BY BaseNat
    <2> QED BY BaseNat, <2>1
  <1>3. s * s >= s /\ s * s \in Nat
    BY <1>2
  <1>4. s * s = Base * (Base * (Base * Base))
    BY BaseNat, <1>2
  <1> QED BY <1>2, <1>3, <1>4 DEF U16, U32

LEMMA Remainder ==
    ASSUME NEW n \in Nat
    PROVE  /\ n % Base \in 0..(Base - 1) /\ n % Base \in Nat /\ n \div Base \in Nat
           /\ n = (n % Base) + Base * (n \div Base)
  BY BaseNat

\* The quotients that to_le_bytes takes the octets from.
IsQuotients(q, n, w) == q = [i \in 1..w |-> IF i = 1 THEN n ELSE q[i - 1] \div Base]

LEMMA QuotientsOf ==
    ASSUME NEW n, NEW w, NEW Q, IsQuotients(Q, n, w)
    PROVE  IsQuotients(Quotients(n, w), n, w)
  BY Zenon DEF Quotients, IsQuotients

\* The octets of an integer of four, and of one of two.
LEMMA FourOctets ==
    ASSUME NEW n \in Nat
    PROVE  \E q \in [1..4 -> Nat] :
             /\ q[1] = n /\ q[2] = n \div Base /\ q[3] = q[2] \div Base /\ q[4] = q[3] \div Base
             /\ LE(n, 4) = [i \in 1..4 |-> q[i] % Base]
  <1>1. PICK b \in Nat, c \in Nat, d \in Nat :
            b = n \div Base /\ c = b \div Base /\ d = c \div Base
    BY Remainder
  <1> DEFINE Q == [i \in 1..4 |-> IF i = 1 THEN n ELSE IF i = 2 THEN b ELSE IF i = 3 THEN c ELSE d]
  <1>2. IsQuotients(Q, n, 4)
    <2>1. ASSUME NEW i \in 1..4 PROVE Q[i] = IF i = 1 THEN n ELSE Q[i - 1] \div Base
      BY <1>1
    <2> QED BY <2>1 DEF IsQuotients
  <1> HIDE DEF Q
  <1>3. PICK q : q = Quotients(n, 4)
    OBVIOUS
  <1>4. IsQuotients(q, n, 4)
    BY <1>2, <1>3, QuotientsOf
  <1>5. LE(n, 4) = [i \in 1..4 |-> q[i] % Base]
    BY <1>3 DEF LE
  <1>6. q[1] = n /\ q[2] = b /\ q[3] = c /\ q[4] = d
    BY <1>1, <1>4 DEF IsQuotients
  <1>7. q \in [1..4 -> Nat]
    BY <1>4, <1>6 DEF IsQuotients
  <1> QED BY <1>1, <1>5, <1>6, <1>7

LEMMA TwoOctets ==
    ASSUME NEW n \in Nat
    PROVE  LE(n, 2) = [i \in 1..2 |-> IF i = 1 THEN n % Base ELSE (n \div Base) % Base]
  <1> DEFINE Q == [i \in 1..2 |-> IF i = 1 THEN n ELSE n \div Base]
  <1>2. IsQuotients(Q, n, 2)
    BY DEF IsQuotients
  <1> HIDE DEF Q
  <1>3. PICK q : q = Quotients(n, 2)
    OBVIOUS
  <1>4. IsQuotients(q, n, 2)
    BY <1>2, <1>3, QuotientsOf
  <1>5. LE(n, 2) = [i \in 1..2 |-> q[i] % Base]
    BY <1>3 DEF LE
  <1>6. q[1] = n /\ q[2] = n \div Base
    BY <1>4 DEF IsQuotients
  <1> QED BY <1>5, <1>6

\* The partial sums of from_le_bytes.
IsHorner(v, b) ==
    v = [i \in 1..(Len(b) + 1) |-> IF i > Len(b) THEN 0 ELSE b[i] + Base * v[i + 1]]

LEMMA FourValue ==
    ASSUME NEW b \in Seq(Nat), Len(b) = 4
    PROVE  UnLE(b) = b[1] + Base * (b[2] + Base * (b[3] + Base * b[4]))
  <1>1. b[1] \in Nat /\ b[2] \in Nat /\ b[3] \in Nat /\ b[4] \in Nat
    <2>1. 1 \in 1..Len(b) /\ 2 \in 1..Len(b) /\ 3 \in 1..Len(b) /\ 4 \in 1..Len(b)
      OBVIOUS
    <2> QED BY <2>1, InSeq, Zenon
  <1>2. PICK e \in Nat, d \in Nat, c \in Nat, a \in Nat :
            e = b[4] + Base * 0 /\ d = b[3] + Base * e /\ c = b[2] + Base * d /\ a = b[1] + Base * c
    <2>1. PICK e \in Nat : e = b[4] + Base * 0
      BY <1>1, BaseNat
    <2>2. PICK d \in Nat : d = b[3] + Base * e
      BY <1>1, BaseNat
    <2>3. PICK c \in Nat : c = b[2] + Base * d
      BY <1>1, BaseNat
    <2>4. PICK a \in Nat : a = b[1] + Base * c
      BY <1>1, BaseNat
    <2> QED BY <2>1, <2>2, <2>3, <2>4
  <1> DEFINE V == [i \in 1..5 |-> IF i = 5 THEN 0 ELSE IF i = 4 THEN e ELSE IF i = 3 THEN d
                                  ELSE IF i = 2 THEN c ELSE a]
  <1>3. IsHorner(V, b)
    <2>1. ASSUME NEW i \in 1..5 PROVE V[i] = IF i > 4 THEN 0 ELSE b[i] + Base * V[i + 1]
      BY <1>2
    <2> QED BY <2>1 DEF IsHorner
  <1>4. PICK v : IsHorner(v, b) /\ UnLE(b) = v[1]
    <2> HIDE DEF V
    <2> QED BY <1>3, Zenon DEF UnLE, IsHorner
  <1>5. /\ v[5] = 0 /\ v[4] = b[4] + Base * v[5] /\ v[3] = b[3] + Base * v[4]
        /\ v[2] = b[2] + Base * v[3] /\ v[1] = b[1] + Base * v[2]
    BY <1>4 DEF IsHorner
  <1>6. v[4] = b[4]
    BY <1>1, <1>5, BaseNat
  <1> QED BY <1>4, <1>5, <1>6

LEMMA TwoValue ==
    ASSUME NEW b \in Seq(Nat), Len(b) = 2
    PROVE  UnLE(b) = b[1] + Base * b[2]
  <1>1. b[1] \in Nat /\ b[2] \in Nat
    <2>1. 1 \in 1..Len(b) /\ 2 \in 1..Len(b)
      OBVIOUS
    <2> QED BY <2>1, InSeq, Zenon
  <1>2. PICK e \in Nat, a \in Nat : e = b[2] + Base * 0 /\ a = b[1] + Base * e
    <2>1. PICK e \in Nat : e = b[2] + Base * 0
      BY <1>1, BaseNat
    <2>2. PICK a \in Nat : a = b[1] + Base * e
      BY <1>1, BaseNat
    <2> QED BY <2>1, <2>2
  <1> DEFINE V == [i \in 1..3 |-> IF i = 3 THEN 0 ELSE IF i = 2 THEN e ELSE a]
  <1>3. IsHorner(V, b)
    <2>1. ASSUME NEW i \in 1..3 PROVE V[i] = IF i > 2 THEN 0 ELSE b[i] + Base * V[i + 1]
      BY <1>2
    <2> QED BY <2>1 DEF IsHorner
  <1>4. PICK v : IsHorner(v, b) /\ UnLE(b) = v[1]
    <2> HIDE DEF V
    <2> QED BY <1>3, Zenon DEF UnLE, IsHorner
  <1>5. v[3] = 0 /\ v[2] = b[2] + Base * v[3] /\ v[1] = b[1] + Base * v[2]
    BY <1>4 DEF IsHorner
  <1>6. v[2] = b[2]
    BY <1>1, <1>5, BaseNat
  <1> QED BY <1>4, <1>5, <1>6

\* An integer of four octets comes back as it was, if it fits.
LEMMA LengthComesBack ==
    ASSUME NEW n \in Nat, n < U32
    PROVE  /\ LE(n, 4) \in Seq(OctetSet) /\ LE(n, 4) \in Seq(Nat)
           /\ Len(LE(n, 4)) = 4 /\ UnLE(LE(n, 4)) = n
  <1>1. PICK q \in [1..4 -> Nat] :
             /\ q[1] = n /\ q[2] = n \div Base /\ q[3] = q[2] \div Base /\ q[4] = q[3] \div Base
             /\ LE(n, 4) = [i \in 1..4 |-> q[i] % Base]
    BY FourOctets
  <1>2. PICK b : b = LE(n, 4)
    OBVIOUS
  <1>3. \A i \in 1..4 : q[i] % Base \in 0..(Base - 1) /\ q[i] % Base \in Nat
    BY <1>1, Remainder
  <1>4. b \in Seq(OctetSet) /\ b \in Seq(Nat) /\ Len(b) = 4
    <2>1. b \in [1..4 -> OctetSet]
      BY <1>1, <1>2, <1>3 DEF OctetSet
    <2>2. b \in [1..4 -> Nat]
      BY <1>1, <1>2, <1>3
    <2>3. 4 \in Nat
      OBVIOUS
    <2>4. b \in Seq(OctetSet)
      BY <2>1, <2>3, IsSeqOf, Zenon
    <2>5. b \in Seq(Nat)
      BY <2>2, <2>3, IsSeqOf, Zenon
    <2>6. Len(b) = 4
      BY <2>2, IsSeqOf
    <2> QED BY <2>4, <2>5, <2>6
  <1>5. PICK q2 \in Nat, q3 \in Nat, q4 \in Nat : q2 = q[2] /\ q3 = q[3] /\ q4 = q[4]
    OBVIOUS
  <1>6. PICK b1 \in 0..(Base - 1), b2 \in 0..(Base - 1), b3 \in 0..(Base - 1), b4 \in 0..(Base - 1) :
            b1 = b[1] /\ b2 = b[2] /\ b3 = b[3] /\ b4 = b[4]
    BY <1>1, <1>2, <1>3
  <1>7. n = b1 + Base * q2 /\ q2 = b2 + Base * q3 /\ q3 = b3 + Base * q4
    <2>1. b1 = n % Base /\ b2 = q2 % Base /\ b3 = q3 % Base
      BY <1>1, <1>2, <1>5, <1>6
    <2>2. q2 = n \div Base /\ q3 = q2 \div Base /\ q4 = q3 \div Base
      BY <1>1, <1>5
    <2> QED BY <2>1, <2>2, Remainder
  <1>8. n < Base * (Base * (Base * Base))
    BY BaseFacts
  <1>9. q2 < Base * (Base * Base)
    BY BaseNat, <1>6, <1>7, <1>8
  <1>10. q3 < Base * Base
    BY BaseNat, <1>6, <1>7, <1>9
  <1>11. q4 < Base
    BY BaseNat, <1>6, <1>7, <1>10
  <1>12. b4 = q4
    <2>1. b4 = q4 % Base
      BY <1>1, <1>2, <1>5, <1>6
    <2> QED BY BaseNat, <1>11, <2>1
  <1>13. UnLE(b) = b1 + Base * (b2 + Base * (b3 + Base * b4))
    BY <1>4, <1>6, FourValue
  <1> QED BY <1>2, <1>4, <1>7, <1>12, <1>13

-----------------------------------------------------------------------------
(* The shape of the state.  Samples and what a file holds have no common   *)
(* type, so that of a queue says only that it is a sequence.               *)

Data == {p \in Seq(OctetSet) : Len(p) < U32}
CallPcs == {"idle", "remember", "create", "length", "payload", "dispatch", "send"}
JoinPcs == {"no", "recall", "length", "payload", "backfill"}

IsSeq(q) == q \in Seq(ToSet(q))

TypeInv ==
    /\ life \in [Nodes -> Nat] /\ loop \in [Nodes -> BOOLEAN] /\ seq \in [Writers -> Nat]
    /\ call \in [Writers -> [at : CallPcs, payload : Data]]
    /\ DOMAIN last_sample = Nodes /\ DOMAIN disk = Nodes /\ DOMAIN frag_assembler = Nodes
    /\ DOMAIN pos = Writers /\ DOMAIN joining = Readers /\ DOMAIN queue = Readers
    /\ \A r \in Readers : DOMAIN joining[r] = {"at", "len"} /\ joining[r].at \in JoinPcs
    /\ \A r \in Readers : IsSeq(queue[r])
    /\ \A d \in net : d.to \in Nodes /\ d.prefix # <<>>

LEMMA PushSeq ==
    ASSUME NEW q, IsSeq(q), NEW s
    PROVE  IsSeq(Push(q, s)) /\ ToSet(Push(q, s)) \subseteq ToSet(q) \cup {s}
  <1>1. CASE ~ Len(q) < Depth
    BY <1>1 DEF Push
  <1>2. CASE Len(q) < Depth
    <2>1. PICK S : S = ToSet(q) \cup {s}
      OBVIOUS
    <2>2. q \in Seq(S) /\ s \in S
      BY <2>1 DEF IsSeq
    <2>3. PICK p : p = Append(q, s)
      OBVIOUS
    <2>4. p \in Seq(S) /\ DOMAIN p = 1..Len(p)
      BY <2>2, <2>3
    <2>5. \A i \in DOMAIN p : p[i] \in S
      BY <2>4
    <2>6. ToSet(p) \subseteq S
      BY <2>5 DEF ToSet
    <2>7. p \in [1..Len(p) -> ToSet(p)] /\ Len(p) \in Nat
      BY <2>4 DEF ToSet
    <2>8. p \in Seq(ToSet(p))
      BY <2>7, IsSeqOf
    <2> QED BY <1>2, <2>1, <2>3, <2>6, <2>8 DEF Push, IsSeq
  <1> QED BY <1>1, <1>2

LEMMA NoSamples == IsSeq(<<>>) /\ ToSet(<<>>) = {}
  <1>1. DOMAIN <<>> = {}
    OBVIOUS
  <1>2. ToSet(<<>>) = {}
    BY <1>1, Zenon DEF ToSet
  <1>3. <<>> \in Seq({})
    OBVIOUS
  <1> QED BY <1>2, <1>3, Zenon DEF IsSeq

LEMMA PrefixTuple == ASSUME NEW n PROVE Prefix(n) # <<>> /\ Prefix(n)' # <<>>
  BY DEF Prefix

LEMMA NodesOf == (\A w \in Writers : NodeOf[w] \in Nodes) /\ (\A r \in Readers : NodeOf[r] \in Nodes)
  BY NodeAssumption

LEMMA TypeInit == Init => TypeInv
  <1> SUFFICES ASSUME Init PROVE TypeInv
    OBVIOUS
  <1> USE DEF Init
  <1>1. <<>> \in Data
    <2>1. <<>> \in Seq(OctetSet) /\ Len(<<>>) = 0
      OBVIOUS
    <2> QED BY <2>1, BaseFacts DEF Data
  <1>2. call \in [Writers -> [at : CallPcs, payload : Data]]
    BY <1>1 DEF CallPcs
  <1>3. \A r \in Readers : DOMAIN joining[r] = {"at", "len"} /\ joining[r].at \in JoinPcs
    BY DEF JoinPcs
  <1>4. \A r \in Readers : IsSeq(queue[r])
    <2> SUFFICES ASSUME NEW r \in Readers PROVE IsSeq(queue[r])
      OBVIOUS
    <2>1. queue[r] = <<>>
      OBVIOUS
    <2> QED BY <2>1, NoSamples, Zenon
  <1> QED BY <1>2, <1>3, <1>4 DEF TypeInv

\* A message with its destination.
LEMMA SentShape ==
    ASSUME NEW w, NEW n, NEW d \in Messages(w, n)
    PROVE  d.to = n /\ d.prefix = Prefix(NodeOf[w])
  <1>1. CASE Len(wrap_payload(call[w].payload)) > MaxFragmentPayload
    <2>1. PICK f : d = [to |-> n, prefix |-> Prefix(NodeOf[w]), id |-> SUBMSG_DATA_FRAG, sub |-> f]
      BY <1>1, Zenon DEF Messages
    <2> QED BY <2>1
  <1>2. CASE ~ Len(wrap_payload(call[w].payload)) > MaxFragmentPayload
    <2>1. PICK f : d = [to |-> n, prefix |-> Prefix(NodeOf[w]), id |-> SUBMSG_DATA, sub |-> f]
      BY <1>2, Zenon DEF Messages
    <2> QED BY <2>1
  <1> QED BY <1>1, <1>2

-----------------------------------------------------------------------------
(* What a step adds to a queue                                             *)

FragGot(d) == receive(frag_assembler[d.to], d.sub, now)

\* s is pushed to reader r in this step.
FromWriter(r, s) ==
    \E w \in Writers : CallAt(w, "dispatch") /\ s = Sample(TopicOf[r], call[w].payload, seq[w], GuidOf(w))
FromData(r, s) ==
    \E d \in net :
        /\ RecvData(d)
        /\ s = Sample(TopicOf[r], unwrap_payload(d.sub.payload)[1], to_u64(d.sub.seq_num),
                      [prefix |-> d.prefix, entity |-> d.sub.writer_entity_id])
FromFrag(r, s) ==
    \E d \in net :
        /\ RecvFrag(d) /\ FragGot(d).payload # <<>>
        /\ unwrap_payload(FragGot(d).payload[1]) # <<>>
        /\ s = Sample(TopicOf[r], unwrap_payload(FragGot(d).payload[1])[1],
                      to_u64(d.sub.writer_seq_num),
                      [prefix |-> d.prefix, entity |-> d.sub.writer_entity_id])
FromMemory(r, s) ==
    TopicOf[r] \in DOMAIN last_sample[NodeOf[r]] /\ s = last_sample[NodeOf[r]][TopicOf[r]]
FromDisk(r, s) == joining[r].at = "backfill" /\ s = Sample(TopicOf[r], joining[r].len, 0, ZeroGuid)
Pushed(r, s) ==
    FromWriter(r, s) \/ FromData(r, s) \/ FromFrag(r, s) \/ FromMemory(r, s) \/ FromDisk(r, s)

QueuesGrow ==
    \A r \in Readers : IsSeq(queue'[r]) /\ \A s \in ToSet(queue'[r]) : s \in ToSet(queue[r]) \/ Pushed(r, s)

LEMMA DispatchGrows ==
    ASSUME TypeInv, NEW n, NEW guid, NEW topic, NEW payload, NEW num,
           dispatch_to_readers(n, guid, topic, payload, num), NEW r \in Readers
    PROVE  /\ IsSeq(queue'[r])
           /\ \A s \in ToSet(queue'[r]) :
                 s \in ToSet(queue[r]) \/ s = Sample(TopicOf[r], payload, num, guid)
  <1>1. IsSeq(queue[r])
    BY DEF TypeInv
  <1>2. \/ queue'[r] = queue[r]
        \/ queue'[r] = Push(queue[r], Sample(TopicOf[r], payload, num, guid))
    BY DEF dispatch_to_readers
  <1>3. PICK x : x = Sample(TopicOf[r], payload, num, guid)
    OBVIOUS
  <1>4. IsSeq(Push(queue[r], x)) /\ ToSet(Push(queue[r], x)) \subseteq ToSet(queue[r]) \cup {x}
    BY <1>1, PushSeq
  <1>5. CASE queue'[r] = queue[r]
    BY <1>1, <1>5
  <1>6. CASE queue'[r] = Push(queue[r], x)
    BY <1>3, <1>4, <1>6
  <1> QED BY <1>2, <1>3, <1>5, <1>6

\* A step that pushes x to reader r only, or nothing.
LEMMA OneGrows ==
    ASSUME TypeInv, NEW r \in Readers, NEW x,
           queue' = queue \/ queue' = [queue EXCEPT ![r] = Push(@, x)],
           NEW q \in Readers
    PROVE  /\ IsSeq(queue'[q])
           /\ \A s \in ToSet(queue'[q]) : s \in ToSet(queue[q]) \/ (q = r /\ s = x)
  <1>1. IsSeq(queue[q])
    BY DEF TypeInv
  <1>2. queue'[q] = queue[q] \/ (q = r /\ queue'[q] = Push(queue[q], x))
    BY DEF TypeInv
  <1>3. IsSeq(Push(queue[q], x)) /\ ToSet(Push(queue[q], x)) \subseteq ToSet(queue[q]) \cup {x}
    BY <1>1, PushSeq
  <1> QED BY <1>1, <1>2, <1>3

LEMMA QueueSame == TypeInv /\ queue' = queue => QueuesGrow
  BY DEF TypeInv, QueuesGrow

LEMMA QueueNext == TypeInv /\ [Next]_vars => QueuesGrow
  <1> SUFFICES ASSUME TypeInv, [Next]_vars PROVE QueuesGrow
    OBVIOUS
  <1>1. CASE queue' = queue
    BY <1>1, QueueSame
  <1>2. ASSUME NEW w \in Writers, WriteDispatch(w) PROVE QueuesGrow
    <2> SUFFICES ASSUME NEW r \in Readers
                 PROVE  IsSeq(queue'[r]) /\ \A s \in ToSet(queue'[r]) : s \in ToSet(queue[r]) \/ FromWriter(r, s)
      BY Zenon DEF QueuesGrow, Pushed
    <2>1. /\ CallAt(w, "dispatch")
          /\ dispatch_to_readers(NodeOf[w], GuidOf(w), TopicOf[w], call[w].payload, seq[w])
      BY <1>2, Zenon DEF WriteDispatch
    <2>2. /\ IsSeq(queue'[r])
          /\ \A s \in ToSet(queue'[r]) :
                s \in ToSet(queue[r]) \/ s = Sample(TopicOf[r], call[w].payload, seq[w], GuidOf(w))
      BY <2>1, DispatchGrows, Zenon
    <2> QED BY <2>1, <2>2, Zenon DEF FromWriter
  <1>3. ASSUME NEW d \in net, RecvData(d) PROVE QueuesGrow
    <2> SUFFICES ASSUME NEW r \in Readers
                 PROVE  IsSeq(queue'[r]) /\ \A s \in ToSet(queue'[r]) : s \in ToSet(queue[r]) \/ FromData(r, s)
      BY Zenon DEF QueuesGrow, Pushed
    <2>1. dispatch_to_readers(d.to, [prefix |-> d.prefix, entity |-> d.sub.writer_entity_id],
                              Nothing, unwrap_payload(d.sub.payload)[1], to_u64(d.sub.seq_num))
      BY <1>3, Zenon DEF RecvData
    <2>2. /\ IsSeq(queue'[r])
          /\ \A s \in ToSet(queue'[r]) :
                \/ s \in ToSet(queue[r])
                \/ s = Sample(TopicOf[r], unwrap_payload(d.sub.payload)[1], to_u64(d.sub.seq_num),
                              [prefix |-> d.prefix, entity |-> d.sub.writer_entity_id])
      BY <2>1, DispatchGrows, Zenon
    <2> QED BY <1>3, <2>2, Zenon DEF FromData
  <1>4. ASSUME NEW d \in net, RecvFrag(d) PROVE QueuesGrow
    <2> DEFINE got == FragGot(d)
               payload == IF got.payload = <<>> THEN <<>> ELSE unwrap_payload(got.payload[1])
    <2>1. IF payload = <<>> THEN UNCHANGED queue
          ELSE dispatch_to_readers(d.to, [prefix |-> d.prefix, entity |-> d.sub.writer_entity_id],
                                   Nothing, payload[1], to_u64(d.sub.writer_seq_num))
      BY <1>4, Zenon DEF RecvFrag, FragGot
    <2>2. CASE payload = <<>>
      BY <2>1, <2>2, QueueSame
    <2>3. CASE payload # <<>>
      <3> SUFFICES ASSUME NEW r \in Readers
                   PROVE  IsSeq(queue'[r]) /\ \A s \in ToSet(queue'[r]) : s \in ToSet(queue[r]) \/ FromFrag(r, s)
        BY Zenon DEF QueuesGrow, Pushed
      <3>1. got.payload # <<>> /\ payload = unwrap_payload(got.payload[1])
        BY <2>3, Zenon
      <3>2. dispatch_to_readers(d.to, [prefix |-> d.prefix, entity |-> d.sub.writer_entity_id],
                                Nothing, payload[1], to_u64(d.sub.writer_seq_num))
        BY <2>1, <2>3, Zenon
      <3> HIDE DEF payload
      <3>3. /\ IsSeq(queue'[r])
            /\ \A s \in ToSet(queue'[r]) :
                  \/ s \in ToSet(queue[r])
                  \/ s = Sample(TopicOf[r], payload[1], to_u64(d.sub.writer_seq_num),
                                [prefix |-> d.prefix, entity |-> d.sub.writer_entity_id])
        BY <3>2, DispatchGrows, Zenon
      <3> QED BY <1>4, <2>3, <3>1, <3>3, Zenon DEF FromFrag
    <2> QED BY <2>2, <2>3
  <1>5. ASSUME NEW r \in Readers, Register(r) PROVE QueuesGrow
    <2> SUFFICES ASSUME NEW q \in Readers
                 PROVE  IsSeq(queue'[q]) /\ \A s \in ToSet(queue'[q]) : s \in ToSet(queue[q])
      BY Zenon DEF QueuesGrow
    <2>1. queue'[q] = queue[q] \/ queue'[q] = <<>>
      BY <1>5 DEF Register, TypeInv
    <2>2. IsSeq(queue[q])
      BY DEF TypeInv
    <2> QED BY <2>1, <2>2, NoSamples, Zenon
  <1>6. ASSUME NEW r \in Readers, Recall(r) PROVE QueuesGrow
    <2> SUFFICES ASSUME NEW q \in Readers
                 PROVE  IsSeq(queue'[q]) /\ \A s \in ToSet(queue'[q]) : s \in ToSet(queue[q]) \/ FromMemory(q, s)
      BY Zenon DEF QueuesGrow, Pushed
    <2>1. CASE TopicOf[r] \notin DOMAIN last_sample[NodeOf[r]]
      <3>1. queue' = queue
        BY <1>6, <2>1, Zenon DEF Recall
      <3> QED BY <3>1 DEF TypeInv
    <2>2. CASE TopicOf[r] \in DOMAIN last_sample[NodeOf[r]]
      <3>1. PICK x : x = last_sample[NodeOf[r]][TopicOf[r]]
        OBVIOUS
      <3>2. queue' = [queue EXCEPT ![r] = Push(@, x)]
        BY <1>6, <2>2, <3>1 DEF Recall
      <3>3. IsSeq(queue'[q]) /\ \A s \in ToSet(queue'[q]) : s \in ToSet(queue[q]) \/ (q = r /\ s = x)
        BY <3>2, OneGrows
      <3> QED BY <2>2, <3>1, <3>3, Zenon DEF FromMemory
    <2> QED BY <2>1, <2>2
  <1>7. ASSUME NEW r \in Readers, Backfill(r) PROVE QueuesGrow
    <2> SUFFICES ASSUME NEW q \in Readers
                 PROVE  IsSeq(queue'[q]) /\ \A s \in ToSet(queue'[q]) : s \in ToSet(queue[q]) \/ FromDisk(q, s)
      BY Zenon DEF QueuesGrow, Pushed
    <2>1. PICK x : x = Sample(TopicOf[r], joining[r].len, 0, ZeroGuid)
      OBVIOUS
    <2>2. queue' = [queue EXCEPT ![r] = Push(@, x)] /\ joining[r].at = "backfill"
      BY <1>7, <2>1 DEF Backfill
    <2>3. IsSeq(queue'[q]) /\ \A s \in ToSet(queue'[q]) : s \in ToSet(queue[q]) \/ (q = r /\ s = x)
      BY <2>2, OneGrows
    <2> QED BY <2>1, <2>2, <2>3, Zenon DEF FromDisk
  <1>8. ASSUME NEW n \in Nodes, Restart(n) PROVE QueuesGrow
    <2> SUFFICES ASSUME NEW q \in Readers
                 PROVE  IsSeq(queue'[q]) /\ \A s \in ToSet(queue'[q]) : s \in ToSet(queue[q])
      BY Zenon DEF QueuesGrow
    <2>1. queue'[q] = queue[q] \/ queue'[q] = <<>>
      BY <1>8 DEF Restart
    <2>2. IsSeq(queue[q])
      BY DEF TypeInv
    <2> QED BY <2>1, <2>2, NoSamples, Zenon
  <1>9. ASSUME NEW w \in Writers, \E p \in Payloads[w] : WriteClaim(w, p) PROVE queue' = queue
    BY <1>9 DEF WriteClaim
  <1>10. ASSUME NEW w \in Writers,
                \/ WriteRemember(w) \/ FlushCreate(w) \/ FlushLength(w)
                \/ FlushPayload(w) \/ FlushCreateFails(w) \/ WriteSend(w)
         PROVE  queue' = queue
    BY <1>10 DEF WriteRemember, FlushCreate, FlushLength, FlushPayload, FlushCreateFails, WriteSend
  <1>11. ASSUME NEW r \in Readers, LoadLength(r) \/ LoadPayload(r) \/ remove_reader(r)
         PROVE  queue' = queue
    BY <1>11 DEF LoadLength, LoadPayload, remove_reader
  <1>12. Tick \/ UNCHANGED vars => queue' = queue
    BY DEF Tick, vars
  <1> QED
    BY <1>1, <1>2, <1>3, <1>4, <1>5, <1>6, <1>7, <1>8, <1>9, <1>10, <1>11, <1>12 DEF Next

-----------------------------------------------------------------------------
(* The type invariant                                                      *)

WriteStep(w) ==
    \/ WriteRemember(w) \/ FlushCreate(w) \/ FlushLength(w) \/ FlushPayload(w) \/ FlushCreateFails(w)
    \/ WriteDispatch(w) \/ WriteSend(w)

\* A step of a call to write, after the first, changes nothing of it but where it is.
LEMMA WriteGoes ==
    ASSUME NEW w \in Writers, WriteStep(w)
    PROVE  /\ \E pc \in CallPcs : Goto(w, pc)
           /\ call[w].at # "idle" /\ UNCHANGED <<seq, life, written, joining>>
  <1> USE DEF CallPcs, CallAt
  <1>1. CASE WriteRemember(w)
    BY <1>1 DEF WriteRemember, JoinVars
  <1>2. CASE FlushCreate(w)
    BY <1>2 DEF FlushCreate, JoinVars
  <1>3. CASE FlushLength(w)
    BY <1>3 DEF FlushLength, JoinVars
  <1>4. CASE FlushPayload(w)
    BY <1>4 DEF FlushPayload, JoinVars
  <1>5. CASE FlushCreateFails(w)
    BY <1>5 DEF FlushCreateFails, JoinVars
  <1>6. CASE WriteDispatch(w)
    BY <1>6 DEF WriteDispatch, JoinVars
  <1>7. CASE WriteSend(w)
    BY <1>7 DEF WriteSend, JoinVars
  <1> QED BY <1>1, <1>2, <1>3, <1>4, <1>5, <1>6, <1>7 DEF WriteStep

LEMMA Going ==
    ASSUME TypeInv, NEW w \in Writers, NEW pc \in CallPcs, Goto(w, pc)
    PROVE  /\ call' \in [Writers -> [at : CallPcs, payload : Data]]
           /\ call'[w].at = pc /\ call'[w].payload = call[w].payload
           /\ \A v \in Writers \ {w} : call'[v] = call[v]
  BY DEF TypeInv, Goto

\* What each action leaves alone, by the action.
ReadStep(r) ==
    Register(r) \/ Recall(r) \/ LoadLength(r) \/ LoadPayload(r) \/ Backfill(r) \/ remove_reader(r)

LEMMA NextSplit ==
    ASSUME [Next]_vars
    PROVE  \/ \E w \in Writers : \E p \in Payloads[w] : WriteClaim(w, p)
           \/ \E w \in Writers : WriteStep(w)
           \/ \E d \in net : RecvData(d)
           \/ \E d \in net : RecvFrag(d)
           \/ \E r \in Readers : ReadStep(r)
           \/ \E n \in Nodes : Restart(n)
           \/ Tick
           \/ UNCHANGED vars
  BY DEF Next, WriteStep, ReadStep

LEMMA PayloadData == ASSUME NEW w \in Writers, NEW p \in Payloads[w] PROVE p \in Data
  BY PayloadsAssumption DEF Data, OctetSet

LEMMA NoData == <<>> \in Data
  <1>1. <<>> \in Seq(OctetSet) /\ Len(<<>>) = 0
    OBVIOUS
  <1> QED BY <1>1, BaseFacts DEF Data

LEMMA CallNext ==
    TypeInv /\ [Next]_vars =>
        /\ seq' \in [Writers -> Nat]
        /\ call' \in [Writers -> [at : CallPcs, payload : Data]]
  <1> SUFFICES ASSUME TypeInv, [Next]_vars
               PROVE  seq' \in [Writers -> Nat] /\ call' \in [Writers -> [at : CallPcs, payload : Data]]
    OBVIOUS
  <1>0. seq \in [Writers -> Nat] /\ call \in [Writers -> [at : CallPcs, payload : Data]]
    BY DEF TypeInv
  <1>1. ASSUME NEW w \in Writers, NEW p \in Payloads[w], WriteClaim(w, p)
        PROVE  seq' \in [Writers -> Nat] /\ call' \in [Writers -> [at : CallPcs, payload : Data]]
    <2>1. p \in Data
      BY PayloadData
    <2>2. /\ seq' = [seq EXCEPT ![w] = @ + 1]
          /\ call' = [call EXCEPT ![w] = [at |-> "remember", payload |-> p]]
      BY <1>1 DEF WriteClaim
    <2> QED BY <1>0, <2>1, <2>2 DEF CallPcs
  <1>2. ASSUME NEW w \in Writers, WriteStep(w)
        PROVE  seq' \in [Writers -> Nat] /\ call' \in [Writers -> [at : CallPcs, payload : Data]]
    BY <1>0, <1>2, WriteGoes, Going
  <1>3. ASSUME NEW n \in Nodes, Restart(n)
        PROVE  seq' \in [Writers -> Nat] /\ call' \in [Writers -> [at : CallPcs, payload : Data]]
    <2>1. /\ seq' = [w \in Writers |-> IF NodeOf[w] = n THEN 0 ELSE seq[w]]
          /\ call' = [w \in Writers |-> IF NodeOf[w] = n THEN [at |-> "idle", payload |-> <<>>] ELSE call[w]]
      BY <1>3 DEF Restart
    <2> QED BY <1>0, <2>1, NoData DEF CallPcs
  <1>4. CASE UNCHANGED <<seq, call>>
    BY <1>0, <1>4
  <1>5. ASSUME NEW d \in net, RecvData(d) \/ RecvFrag(d) PROVE UNCHANGED <<seq, call>>
    BY <1>5 DEF RecvData, RecvFrag, WriteVars
  <1>6. ASSUME NEW r \in Readers, ReadStep(r) PROVE UNCHANGED <<seq, call>>
    BY <1>6 DEF ReadStep, Register, Recall, LoadLength, LoadPayload, Backfill, remove_reader, WriteVars
  <1>7. Tick \/ UNCHANGED vars => UNCHANGED <<seq, call>>
    BY DEF Tick, vars, WriteVars
  <1> QED BY <1>1, <1>2, <1>3, <1>4, <1>5, <1>6, <1>7, NextSplit

JoinType == \A r \in Readers : DOMAIN joining[r] = {"at", "len"} /\ joining[r].at \in JoinPcs

LEMMA JoinNext ==
    TypeInv /\ [Next]_vars => DOMAIN joining' = Readers /\ JoinType'
  <1> SUFFICES ASSUME TypeInv, [Next]_vars PROVE DOMAIN joining' = Readers /\ JoinType'
    OBVIOUS
  <1>0. DOMAIN joining = Readers /\ JoinType
    BY DEF TypeInv, JoinType
  <1>1. ASSUME NEW r \in Readers, NEW pc \in JoinPcs, JoinStep(r, pc)
        PROVE  DOMAIN joining' = Readers /\ JoinType'
    BY <1>0, <1>1 DEF JoinStep, JoinType
  <1>2. ASSUME NEW r \in Readers, NEW pc \in JoinPcs, NEW x,
               joining' = [joining EXCEPT ![r] = [at |-> pc, len |-> x]]
        PROVE  DOMAIN joining' = Readers /\ JoinType'
    BY <1>0, <1>2 DEF JoinType
  <1>3. ASSUME NEW r \in Readers, ReadStep(r) PROVE DOMAIN joining' = Readers /\ JoinType'
    <2>1. CASE Register(r)
      <3>1. \E pc \in JoinPcs : JoinStep(r, pc)
        BY <2>1 DEF Register, JoinPcs
      <3> QED BY <1>1, <3>1
    <2>2. CASE Recall(r)
      <3>1. \E pc \in JoinPcs : JoinStep(r, pc)
        BY <2>2, Zenon DEF Recall, JoinPcs
      <3> QED BY <1>1, <3>1
    <2>3. CASE LoadLength(r)
      <3>1. PICK length : joining' = [joining EXCEPT ![r] =
                     IF Len(disk[NodeOf[r]][persist_path(TopicOf[r])]) < 4 \/ length > MaxPersistedPayload
                     THEN [at |-> "no", len |-> 0] ELSE [at |-> "payload", len |-> length]]
        BY <2>3, Zenon DEF LoadLength
      <3>2. "no" \in JoinPcs /\ "payload" \in JoinPcs
        BY DEF JoinPcs
      <3>3. \/ joining' = [joining EXCEPT ![r] = [at |-> "no", len |-> 0]]
            \/ joining' = [joining EXCEPT ![r] = [at |-> "payload", len |-> length]]
        BY <3>1
      <3> QED BY <1>2, <3>2, <3>3
    <2>4. CASE LoadPayload(r)
      <3>1. PICK payload : joining' = [joining EXCEPT ![r] =
                             [at |-> IF payload = <<>> THEN "no" ELSE "backfill",
                              len |-> IF payload = <<>> THEN 0 ELSE payload[1]]]
        BY <2>4, Zenon DEF LoadPayload
      <3>2. "no" \in JoinPcs /\ "backfill" \in JoinPcs
        BY DEF JoinPcs
      <3>3. \E pc \in JoinPcs : \E x : joining' = [joining EXCEPT ![r] = [at |-> pc, len |-> x]]
        BY <3>1, <3>2
      <3> QED BY <1>2, <3>3
    <2>5. CASE Backfill(r)
      <3>1. joining' = [joining EXCEPT ![r] = [at |-> "no", len |-> 0]]
        BY <2>5 DEF Backfill
      <3> QED BY <1>2, <3>1 DEF JoinPcs
    <2>6. CASE remove_reader(r)
      BY <1>0, <2>6 DEF remove_reader, JoinType
    <2> QED BY <1>3, <2>1, <2>2, <2>3, <2>4, <2>5, <2>6 DEF ReadStep
  <1>4. ASSUME NEW n \in Nodes, Restart(n) PROVE DOMAIN joining' = Readers /\ JoinType'
    <2>1. joining' = [r \in Readers |-> IF NodeOf[r] = n THEN [at |-> "no", len |-> 0] ELSE joining[r]]
      BY <1>4 DEF Restart
    <2> QED BY <1>0, <2>1 DEF JoinType, JoinPcs
  <1>5. CASE UNCHANGED joining
    BY <1>0, <1>5 DEF JoinType
  <1>6. ASSUME NEW w \in Writers, WriteStep(w) \/ \E p \in Payloads[w] : WriteClaim(w, p)
        PROVE  UNCHANGED joining
    BY <1>6, WriteGoes DEF WriteClaim, JoinVars
  <1>7. ASSUME NEW d \in net, RecvData(d) \/ RecvFrag(d) PROVE UNCHANGED joining
    BY <1>7 DEF RecvData, RecvFrag, JoinVars
  <1>8. Tick \/ UNCHANGED vars => UNCHANGED joining
    BY DEF Tick, vars, JoinVars
  <1> QED BY <1>3, <1>4, <1>5, <1>6, <1>7, <1>8, NextSplit

\* Only the last step of write sends.
LEMMA OnlySends == ASSUME [Next]_vars PROVE UNCHANGED net \/ \E w \in Writers : WriteSend(w)
  <1>1. ASSUME NEW w \in Writers, \E p \in Payloads[w] : WriteClaim(w, p) PROVE UNCHANGED net
    BY <1>1 DEF WriteClaim
  <1>2. ASSUME NEW w \in Writers, WriteStep(w), ~WriteSend(w) PROVE UNCHANGED net
    BY <1>2 DEF WriteStep, WriteRemember, FlushCreate, FlushLength, FlushPayload, FlushCreateFails, WriteDispatch
  <1>3. ASSUME NEW d \in net, RecvData(d) \/ RecvFrag(d) PROVE UNCHANGED net
    BY <1>3 DEF RecvData, RecvFrag, WriteVars
  <1>4. ASSUME NEW r \in Readers, ReadStep(r) PROVE UNCHANGED net
    BY <1>4 DEF ReadStep, Register, Recall, LoadLength, LoadPayload, Backfill, remove_reader, WriteVars
  <1>5. ASSUME NEW n \in Nodes, Restart(n) PROVE UNCHANGED net
    BY <1>5 DEF Restart
  <1>6. Tick \/ UNCHANGED vars => UNCHANGED net
    BY DEF Tick, vars, WriteVars
  <1> QED BY <1>1, <1>2, <1>3, <1>4, <1>5, <1>6, NextSplit

NetType == \A d \in net : d.to \in Nodes /\ d.prefix # <<>>

LEMMA NetNext == TypeInv /\ [Next]_vars => NetType'
  <1> SUFFICES ASSUME TypeInv, [Next]_vars PROVE NetType'
    OBVIOUS
  <1>0. NetType
    BY DEF TypeInv, NetType
  <1>1. ASSUME NEW w \in Writers, WriteSend(w) PROVE NetType'
    <2>1. Destinations(w) \subseteq Nodes
      BY NodesOf DEF Destinations
    <2>2. ASSUME NEW d \in net', d \notin net PROVE d.to \in Nodes /\ d.prefix # <<>>
      <3>1. PICK n \in Destinations(w) : d \in Messages(w, n)
        BY <1>1, <2>2, Zenon DEF WriteSend
      <3> QED BY <2>1, <3>1, SentShape, PrefixTuple
    <2> QED BY <1>0, <2>2 DEF NetType
  <1>2. CASE UNCHANGED net
    BY <1>0, <1>2 DEF NetType
  <1> QED BY <1>1, <1>2, OnlySends

NodeType ==
    /\ life \in [Nodes -> Nat] /\ loop \in [Nodes -> BOOLEAN]
    /\ DOMAIN last_sample = Nodes /\ DOMAIN disk = Nodes /\ DOMAIN frag_assembler = Nodes

LEMMA NodeNext == TypeInv /\ [Next]_vars => NodeType'
  <1> SUFFICES ASSUME TypeInv, [Next]_vars PROVE NodeType'
    OBVIOUS
  <1>0. NodeType
    BY DEF TypeInv, NodeType
  <1>1. ASSUME NEW n \in Nodes, Restart(n) PROVE NodeType'
    <2>1. /\ life' = [life EXCEPT ![n] = @ + 1] /\ loop' = [loop EXCEPT ![n] = TRUE]
          /\ last_sample' = [last_sample EXCEPT ![n] = Nothing]
          /\ frag_assembler' = [frag_assembler EXCEPT ![n] = Nothing]
          /\ UNCHANGED disk
      BY <1>1 DEF Restart, DiskVars
    <2> QED BY <1>0, <2>1 DEF NodeType
  <1>2. ASSUME NEW d \in net, RecvFrag(d) PROVE NodeType'
    <2>1. d.to \in Nodes
      BY DEF TypeInv
    <2>2. /\ \E b : frag_assembler' = [frag_assembler EXCEPT ![d.to] = b]
          /\ loop' = [loop EXCEPT ![d.to] = ~FragGot(d).panic]
      BY <1>2, Zenon DEF RecvFrag, FragGot
    <2>3. UNCHANGED <<life, last_sample, disk>>
      BY <1>2 DEF RecvFrag, DiskVars
    <2>4. DOMAIN frag_assembler' = Nodes
      BY <1>0, <2>2 DEF NodeType
    <2>5. loop' \in [Nodes -> BOOLEAN]
      BY <1>0, <2>1, <2>2 DEF NodeType
    <2> QED BY <1>0, <2>3, <2>4, <2>5 DEF NodeType
  <1>3. ASSUME UNCHANGED <<life, loop, frag_assembler>>,
               DOMAIN last_sample' = Nodes, DOMAIN disk' = Nodes
        PROVE  NodeType'
    BY <1>0, <1>3 DEF NodeType
  <1>4. ASSUME NEW w \in Writers, WriteStep(w) \/ \E p \in Payloads[w] : WriteClaim(w, p)
        PROVE  NodeType'
    <2>1. UNCHANGED <<life, loop, frag_assembler>>
      BY <1>4 DEF WriteStep, WriteRemember, FlushCreate, FlushLength, FlushPayload, FlushCreateFails,
                  WriteDispatch, WriteSend, WriteClaim
    <2>2. DOMAIN last_sample' = Nodes
      BY <1>0, <1>4 DEF WriteStep, WriteRemember, FlushCreate, FlushLength, FlushPayload, FlushCreateFails,
                        WriteDispatch, WriteSend, WriteClaim, NodeType
    <2>3. DOMAIN disk' = Nodes
      BY <1>0, <1>4 DEF WriteStep, WriteRemember, FlushCreate, FlushLength, FlushPayload, FlushCreateFails,
                        WriteDispatch, WriteSend, WriteClaim, NodeType, DiskVars
    <2> QED BY <1>3, <2>1, <2>2, <2>3
  <1>5. ASSUME NEW r \in Readers, ReadStep(r) PROVE NodeType'
    <2>1. UNCHANGED <<life, loop, frag_assembler, disk>>
      BY <1>5 DEF ReadStep, Register, Recall, LoadLength, LoadPayload, Backfill, remove_reader, DiskVars
    <2>2. DOMAIN last_sample' = Nodes
      BY <1>0, <1>5 DEF ReadStep, Register, Recall, LoadLength, LoadPayload, Backfill, remove_reader, NodeType
    <2> QED BY <1>0, <1>3, <2>1, <2>2 DEF NodeType
  <1>6. CASE UNCHANGED <<life, loop, frag_assembler, disk, last_sample>>
    BY <1>0, <1>6 DEF NodeType
  <1>7. ASSUME NEW d \in net, RecvData(d) PROVE UNCHANGED <<life, loop, frag_assembler, disk, last_sample>>
    BY <1>7 DEF RecvData, DiskVars
  <1>8. Tick \/ UNCHANGED vars => UNCHANGED <<life, loop, frag_assembler, disk, last_sample>>
    BY DEF Tick, vars, DiskVars
  <1> QED BY <1>1, <1>2, <1>4, <1>5, <1>6, <1>7, <1>8, NextSplit

\* A step of write moves the position in a file of no other call.
LEMMA PosAfterWrite ==
    ASSUME NEW w \in Writers, WriteStep(w)
    PROVE  pos' = pos \/ \E k : pos' = [pos EXCEPT ![w] = k]
  <1>1. CASE FlushCreate(w) \/ FlushLength(w) \/ FlushPayload(w)
    BY <1>1, Zenon DEF FlushCreate, FlushLength, FlushPayload
  <1>2. CASE WriteRemember(w) \/ FlushCreateFails(w) \/ WriteDispatch(w) \/ WriteSend(w)
    BY <1>2 DEF WriteRemember, FlushCreateFails, WriteDispatch, WriteSend, DiskVars
  <1> QED BY <1>1, <1>2 DEF WriteStep

LEMMA PosNext == TypeInv /\ [Next]_vars => DOMAIN pos' = Writers
  <1> SUFFICES ASSUME TypeInv, [Next]_vars PROVE DOMAIN pos' = Writers
    OBVIOUS
  <1>0. DOMAIN pos = Writers
    BY DEF TypeInv
  <1>1. ASSUME NEW w \in Writers, WriteStep(w) PROVE DOMAIN pos' = Writers
    BY <1>0, <1>1, PosAfterWrite
  <1>2. ASSUME NEW w \in Writers, \E p \in Payloads[w] : WriteClaim(w, p) PROVE UNCHANGED pos
    BY <1>2 DEF WriteClaim, DiskVars
  <1>3. ASSUME NEW d \in net, RecvData(d) \/ RecvFrag(d) PROVE UNCHANGED pos
    BY <1>3 DEF RecvData, RecvFrag, DiskVars
  <1>4. ASSUME NEW r \in Readers, ReadStep(r) PROVE UNCHANGED pos
    BY <1>4 DEF ReadStep, Register, Recall, LoadLength, LoadPayload, Backfill, remove_reader, DiskVars
  <1>5. ASSUME NEW n \in Nodes, Restart(n) PROVE UNCHANGED pos
    BY <1>5 DEF Restart, DiskVars
  <1>6. Tick \/ UNCHANGED vars => UNCHANGED pos
    BY DEF Tick, vars, DiskVars
  <1> QED BY <1>0, <1>1, <1>2, <1>3, <1>4, <1>5, <1>6, NextSplit

LEMMA TypeNext == TypeInv /\ [Next]_vars => TypeInv'
  <1> SUFFICES ASSUME TypeInv, [Next]_vars PROVE TypeInv'
    OBVIOUS
  <1>1. NodeType'
    BY NodeNext
  <1>2. seq' \in [Writers -> Nat] /\ call' \in [Writers -> [at : CallPcs, payload : Data]]
    BY CallNext
  <1>3. DOMAIN joining' = Readers /\ JoinType'
    BY JoinNext
  <1>4. NetType'
    BY NetNext
  <1>5. DOMAIN queue' = Readers
    <2>1. DOMAIN queue = Readers
      BY DEF TypeInv
    <2>2. ASSUME NEW d \in net, RecvFrag(d) PROVE DOMAIN queue' = Readers
      <3>1. \/ UNCHANGED queue
            \/ \E n, guid, topic, payload, num : dispatch_to_readers(n, guid, topic, payload, num)
        BY <2>2, Zenon DEF RecvFrag
      <3> QED BY <2>1, <3>1 DEF dispatch_to_readers
    <2>3. ASSUME NEW d \in net, RecvData(d) PROVE DOMAIN queue' = Readers
      BY <2>3 DEF RecvData, dispatch_to_readers
    <2>4. ASSUME NEW w \in Writers, WriteStep(w) \/ \E p \in Payloads[w] : WriteClaim(w, p)
          PROVE  DOMAIN queue' = Readers
      BY <2>1, <2>4 DEF WriteStep, WriteRemember, FlushCreate, FlushLength, FlushPayload, FlushCreateFails,
                        WriteDispatch, WriteSend, WriteClaim, dispatch_to_readers
    <2>5. ASSUME NEW r \in Readers, ReadStep(r) PROVE DOMAIN queue' = Readers
      <3>1. \/ UNCHANGED queue
            \/ \E q : queue' = [queue EXCEPT ![r] = q]
        BY <2>5, Zenon DEF ReadStep, Register, Recall, LoadLength, LoadPayload, Backfill, remove_reader
      <3> QED BY <2>1, <3>1
    <2>6. ASSUME NEW n \in Nodes, Restart(n) PROVE DOMAIN queue' = Readers
      BY <2>6 DEF Restart
    <2>7. Tick \/ UNCHANGED vars => UNCHANGED queue
      BY DEF Tick, vars
    <2> QED BY <2>1, <2>2, <2>3, <2>4, <2>5, <2>6, <2>7, NextSplit
  <1>6. \A r \in Readers : IsSeq(queue'[r])
    BY QueueNext DEF QueuesGrow
  <1>7. (\A r \in Readers : IsSeq(queue[r]))'
    BY <1>6
  <1>8. DOMAIN pos' = Writers
    BY PosNext
  <1> QED BY <1>1, <1>2, <1>3, <1>4, <1>5, <1>7, <1>8 DEF TypeInv, NodeType, JoinType, NetType

-----------------------------------------------------------------------------
(* What is written and what is spoiled only grows; the sample of a call is *)
(* written.                                                                *)

Claimed(w) == Sample(TopicOf[w], call[w].payload, seq[w], GuidOf(w))
CallInv == \A w \in Writers : call[w].at # "idle" => Claimed(w) \in written

LEMMA HistoryGrows == [Next]_vars => written \subseteq written' /\ spoiled \subseteq spoiled'
  <1> SUFFICES ASSUME [Next]_vars PROVE written \subseteq written' /\ spoiled \subseteq spoiled'
    OBVIOUS
  <1>1. ASSUME NEW w \in Writers, NEW p \in Payloads[w], WriteClaim(w, p)
        PROVE  written \subseteq written' /\ spoiled \subseteq spoiled'
    <2>1. PICK x : written' = written \cup {x} /\ UNCHANGED spoiled
      BY <1>1, Zenon DEF WriteClaim, DiskVars
    <2> QED BY <2>1
  <1>2. ASSUME NEW w \in Writers, WriteStep(w)
        PROVE  written \subseteq written' /\ spoiled \subseteq spoiled'
    <2>1. UNCHANGED written
      BY <1>2, WriteGoes
    <2>2. spoiled' = spoiled \/ \E x : spoiled' = spoiled \cup {x}
      BY <1>2, Zenon DEF WriteStep, WriteRemember, FlushCreate, FlushLength, FlushPayload, FlushCreateFails,
                  WriteDispatch, WriteSend, DiskVars, Spoil
    <2> QED BY <2>1, <2>2
  <1>3. ASSUME NEW r \in Readers, ReadStep(r)
        PROVE  written \subseteq written' /\ spoiled \subseteq spoiled'
    <2>1. UNCHANGED written
      BY <1>3 DEF ReadStep, Register, Recall, LoadLength, LoadPayload, Backfill, remove_reader, WriteVars
    <2>2. spoiled' = spoiled \/ \E x : spoiled' = spoiled \cup {x}
      BY <1>3, Zenon DEF ReadStep, Register, Recall, LoadLength, LoadPayload, Backfill, remove_reader, DiskVars
    <2> QED BY <2>1, <2>2
  <1>4. ASSUME NEW d \in net, RecvData(d) \/ RecvFrag(d)
        PROVE  UNCHANGED <<written, spoiled>>
    BY <1>4 DEF RecvData, RecvFrag, WriteVars, DiskVars
  <1>5. ASSUME NEW n \in Nodes, Restart(n) PROVE UNCHANGED <<written, spoiled>>
    BY <1>5 DEF Restart, DiskVars
  <1>6. Tick \/ UNCHANGED vars => UNCHANGED <<written, spoiled>>
    BY DEF Tick, vars, WriteVars, DiskVars
  <1> QED BY <1>1, <1>2, <1>3, <1>4, <1>5, <1>6, NextSplit

\* A step of write keeps the sample of every call.
LEMMA ClaimKept ==
    ASSUME TypeInv, NEW w \in Writers, WriteStep(w), NEW v \in Writers
    PROVE  Claimed(v)' = Claimed(v) /\ GuidOf(v)' = GuidOf(v)
  <1>1. PICK pc \in CallPcs : Goto(w, pc)
    BY WriteGoes
  <1>2. UNCHANGED <<seq, life>>
    BY WriteGoes
  <1>3. call'[v].payload = call[v].payload
    BY <1>1, Going
  <1>4. GuidOf(v)' = GuidOf(v)
    BY <1>2 DEF GuidOf, Prefix
  <1> QED BY <1>2, <1>3, <1>4 DEF Claimed

LEMMA CallInvNext == TypeInv /\ CallInv /\ [Next]_vars => CallInv'
  <1> SUFFICES ASSUME TypeInv, CallInv, [Next]_vars, NEW v \in Writers, call'[v].at # "idle"
               PROVE  Claimed(v)' \in written'
    BY DEF CallInv
  <1>0. written \subseteq written'
    BY HistoryGrows
  <1>1. ASSUME NEW w \in Writers, NEW p \in Payloads[w], WriteClaim(w, p) PROVE Claimed(v)' \in written'
    <2>1. /\ seq' = [seq EXCEPT ![w] = @ + 1]
          /\ call' = [call EXCEPT ![w] = [at |-> "remember", payload |-> p]]
          /\ written' = written \cup {Sample(TopicOf[w], p, seq[w] + 1, GuidOf(w))}
          /\ UNCHANGED life
      BY <1>1 DEF WriteClaim
    <2>2. GuidOf(v)' = GuidOf(v)
      BY <2>1 DEF GuidOf, Prefix
    <2>3. CASE v = w
      <3>1. call'[v].payload = p /\ seq'[v] = seq[w] + 1
        BY <2>1, <2>3 DEF TypeInv
      <3> QED BY <2>1, <2>2, <2>3, <3>1 DEF Claimed
    <2>4. CASE v # w
      <3>1. call'[v] = call[v] /\ seq'[v] = seq[v]
        BY <2>1, <2>4 DEF TypeInv
      <3>2. Claimed(v)' = Claimed(v)
        BY <2>2, <3>1 DEF Claimed
      <3> QED BY <1>0, <3>1, <3>2 DEF CallInv
    <2> QED BY <2>3, <2>4
  <1>2. ASSUME NEW w \in Writers, WriteStep(w) PROVE Claimed(v)' \in written'
    <2>1. PICK pc \in CallPcs : Goto(w, pc)
      BY <1>2, WriteGoes
    <2>2. call[v].at # "idle"
      <3>1. call[w].at # "idle"
        BY <1>2, WriteGoes
      <3> QED BY <2>1, <3>1, Going
    <2> QED BY <1>0, <1>2, <2>2, ClaimKept DEF CallInv
  <1>3. ASSUME NEW n \in Nodes, Restart(n) PROVE Claimed(v)' \in written'
    <2>1. /\ seq' = [w \in Writers |-> IF NodeOf[w] = n THEN 0 ELSE seq[w]]
          /\ call' = [w \in Writers |-> IF NodeOf[w] = n THEN [at |-> "idle", payload |-> <<>>] ELSE call[w]]
          /\ life' = [life EXCEPT ![n] = @ + 1]
      BY <1>3 DEF Restart
    <2>2. NodeOf[v] # n
      BY <2>1
    <2>3. call'[v] = call[v] /\ seq'[v] = seq[v] /\ life'[NodeOf[v]] = life[NodeOf[v]]
      BY <2>1, <2>2 DEF TypeInv
    <2>4. Claimed(v)' = Claimed(v)
      BY <2>3 DEF Claimed, GuidOf, Prefix
    <2> QED BY <1>0, <2>3, <2>4 DEF CallInv
  <1>4. CASE UNCHANGED <<seq, call, life>>
    <2>1. Claimed(v)' = Claimed(v)
      BY <1>4 DEF Claimed, GuidOf, Prefix
    <2> QED BY <1>0, <1>4, <2>1 DEF CallInv
  <1>5. ASSUME NEW d \in net, RecvData(d) \/ RecvFrag(d) PROVE UNCHANGED <<seq, call, life>>
    BY <1>5 DEF RecvData, RecvFrag, WriteVars
  <1>6. ASSUME NEW r \in Readers, ReadStep(r) PROVE UNCHANGED <<seq, call, life>>
    BY <1>6 DEF ReadStep, Register, Recall, LoadLength, LoadPayload, Backfill, remove_reader, WriteVars
  <1>7. Tick \/ UNCHANGED vars => UNCHANGED <<seq, call, life>>
    BY DEF Tick, vars, WriteVars
  <1> QED BY <1>1, <1>2, <1>3, <1>4, <1>5, <1>6, <1>7, NextSplit

-----------------------------------------------------------------------------
(* Contents of files                                                       *)

LEMMA WriteToEmpty ==
    ASSUME NEW b \in Seq(OctetSet) PROVE WriteAt(<<>>, 0, b) = b
  <1>1. Len(b) \in Nat /\ b = [i \in 1..Len(b) |-> b[i]]
    OBVIOUS
  <1>2. Len(<<>>) = 0
    OBVIOUS
  <1>3. CASE b = <<>>
    BY <1>3, Zenon DEF WriteAt
  <1>4. CASE b # <<>>
    <2>1. WriteAt(<<>>, 0, b) = [i \in 1..Len(b) |-> b[i]]
      BY <1>1, <1>2, <1>4 DEF WriteAt
    <2> QED BY <1>1, <2>1
  <1> QED BY <1>3, <1>4

LEMMA WriteAfterLength ==
    ASSUME NEW h \in Seq(OctetSet), Len(h) = 4, NEW p \in Seq(OctetSet), p # <<>>,
           NEW c, c = WriteAt(h, 4, p)
    PROVE  /\ Len(c) = 4 + Len(p)
           /\ Slice(c, 0, 4) = h /\ Slice(c, 4, Len(p)) = p
  <1>1. PICK k \in Nat : k = Len(p)
    OBVIOUS
  <1>2. /\ \A i \in 1..4 : h[i] \in OctetSet
        /\ \A i \in 1..k : p[i] \in OctetSet
    BY <1>1, InSeq
  <1>3. c = [i \in 1..(4 + k) |-> IF i > 4 THEN p[i - 4] ELSE h[i]]
    <2>1. c = [i \in 1..(4 + k) |-> IF i > 4 /\ i <= 4 + k THEN p[i - 4]
                                    ELSE IF i <= 4 THEN h[i] ELSE 0]
      BY <1>1 DEF WriteAt
    <2> QED BY <2>1
  <1>4. ASSUME NEW i \in 1..(4 + k) PROVE c[i] \in OctetSet
    <2>1. CASE i > 4
      <3>1. i - 4 \in 1..k /\ c[i] = p[i - 4]
        BY <1>3, <2>1
      <3> QED BY <1>2, <3>1
    <2>2. CASE ~(i > 4)
      <3>1. i \in 1..4 /\ c[i] = h[i]
        BY <1>3, <2>2
      <3> QED BY <1>2, <3>1
    <2> QED BY <2>1, <2>2
  <1>5. c \in Seq(OctetSet) /\ Len(c) = 4 + k
    <2>1. c \in [1..(4 + k) -> OctetSet]
      BY <1>3, <1>4
    <2> QED BY <2>1, IsSeqOf
  <1>6. Slice(c, 0, 4) = h
    <2>1. SubSeq(c, 1, 4) = [i \in 1..4 |-> c[i]]
      BY <1>5
    <2>2. h = [i \in 1..4 |-> h[i]]
      OBVIOUS
    <2>3. \A i \in 1..4 : c[i] = h[i]
      BY <1>3
    <2> QED BY <2>1, <2>2, <2>3 DEF Slice
  <1>7. Slice(c, 4, k) = p
    <2>1. SubSeq(c, 5, 4 + k) = [i \in 1..k |-> c[i + 4]]
      BY <1>5
    <2>2. p = [i \in 1..k |-> p[i]]
      BY <1>1
    <2>3. \A i \in 1..k : c[i + 4] = p[i]
      BY <1>3
    <2>4. Slice(c, 4, k) = SubSeq(c, 5, 4 + k)
      BY DEF Slice
    <2> QED BY <2>1, <2>2, <2>3, <2>4
  <1> QED BY <1>1, <1>5, <1>6, <1>7

Loads(c) == ~(Len(c) < 4) /\ ~(Len(c) < 4 + UnLE(Slice(c, 0, 4)))
Loaded(c) == Slice(c, 4, UnLE(Slice(c, 0, 4)))

\* Less than a length, a length without its payload, a whole file, and a payload
\* that is cut short.
LEMMA LengthCut ==
    ASSUME NEW h \in Seq(OctetSet), Len(h) = 4, NEW k \in 0..3, NEW c, c = WriteAt(<<>>, 0, SubSeq(h, 1, k))
    PROVE  ~Loads(c)
  <1>1. PICK b \in Seq(OctetSet) : b = SubSeq(h, 1, k) /\ Len(b) = k
    <2>1. k <= Len(h) /\ k \in Nat
      OBVIOUS
    <2>2. SubSeq(h, 1, k) \in Seq(OctetSet) /\ Len(SubSeq(h, 1, k)) = k
      BY <2>1
    <2> QED BY <2>2
  <1>2. c = b
    BY <1>1, WriteToEmpty
  <1> QED BY <1>1, <1>2 DEF Loads

LEMMA LengthOnly ==
    ASSUME NEW p \in Data, NEW c, c = LE(Len(p), 4), Loads(c) PROVE Loaded(c) = p
  <1>1. Len(p) \in Nat /\ Len(p) < U32 /\ p \in Seq(OctetSet)
    BY DEF Data
  <1>2. c \in Seq(OctetSet) /\ Len(c) = 4 /\ UnLE(c) = Len(p)
    BY <1>1, LengthComesBack
  <1>3. Slice(c, 0, 4) = c
    BY <1>2 DEF Slice
  <1>4. Len(p) = 0
    <2>1. ~(Len(c) < 4 + UnLE(Slice(c, 0, 4)))
      BY DEF Loads
    <2>2. ~(4 < 4 + Len(p))
      BY <1>2, <1>3, <2>1
    <2> QED BY <1>1, <2>2
  <1>5. Slice(c, 4, 0) = <<>> /\ p = <<>>
    BY <1>1, <1>2, <1>4 DEF Slice
  <1> QED BY <1>2, <1>3, <1>4, <1>5 DEF Loaded

LEMMA WholeFile ==
    ASSUME NEW p \in Data, p # <<>>, NEW c, c = WriteAt(LE(Len(p), 4), 4, p) PROVE Loaded(c) = p
  <1>1. Len(p) \in Nat /\ Len(p) < U32 /\ p \in Seq(OctetSet)
    BY DEF Data
  <1>2. PICK h : h = LE(Len(p), 4)
    OBVIOUS
  <1>3. h \in Seq(OctetSet) /\ Len(h) = 4 /\ UnLE(h) = Len(p)
    BY <1>1, <1>2, LengthComesBack
  <1>4. Slice(c, 0, 4) = h /\ Slice(c, 4, Len(p)) = p
    BY <1>1, <1>2, <1>3, WriteAfterLength
  <1> QED BY <1>3, <1>4 DEF Loaded

LEMMA CutFile ==
    ASSUME NEW p \in Data, NEW k \in 1..(Len(p) - 1),
           NEW c, c = WriteAt(LE(Len(p), 4), 4, SubSeq(p, 1, k))
    PROVE  ~Loads(c)
  <1>1. Len(p) \in Nat /\ Len(p) < U32 /\ p \in Seq(OctetSet) /\ k \in Nat /\ k > 0 /\ k < Len(p)
    BY DEF Data
  <1>2. PICK h : h = LE(Len(p), 4)
    OBVIOUS
  <1>3. h \in Seq(OctetSet) /\ Len(h) = 4 /\ UnLE(h) = Len(p) /\ Len(p) \in Nat
    BY <1>1, <1>2, LengthComesBack
  <1>4. PICK b \in Seq(OctetSet) : b = SubSeq(p, 1, k) /\ Len(b) = k
    <2>1. SubSeq(p, 1, k) \in Seq(OctetSet) /\ Len(SubSeq(p, 1, k)) = k
      BY <1>1
    <2> QED BY <2>1
  <1>5. b # <<>>
    BY <1>1, <1>4
  <1>6. c = WriteAt(h, 4, b)
    BY <1>2, <1>4
  <1>7. Slice(c, 0, 4) = h /\ Len(c) = 4 + Len(b)
    <2>1. PICK d : d = WriteAt(h, 4, b)
      OBVIOUS
    <2>2. Slice(d, 0, 4) = h /\ Len(d) = 4 + Len(b)
      BY <1>3, <1>5, <2>1, WriteAfterLength
    <2> QED BY <1>6, <2>1, <2>2
  <1> QED BY <1>1, <1>3, <1>4, <1>7 DEF Loads

-----------------------------------------------------------------------------
(* The files: as long as no flush of a file overlaps another one or a load *)
(* and none puts a payload where its length is missing, what the file holds*)
(* can be told from where the calls are, and if it can be loaded at all, it*)
(* holds a sample that was written to it.                                  *)

FileHolds(f, p) == \E x \in written : persist_path(x.topic) = f /\ x.payload = p

OneFlush(n, f) ==
    /\ \A v, w \in Flushing(n, f) : v = w
    /\ Flushing(n, f) # {} => Loading(n, f) = {}
FlushAt(n, f) ==
    \A w \in Flushing(n, f) :
        /\ f \in DOMAIN disk[n]
        /\ call[w].at = "length" => disk[n][f] = <<>>
        /\ call[w].at = "payload" /\ pos[w] = 4 => disk[n][f] = LE(Len(call[w].payload), 4)
FileWhole(n, f) ==
    f \in DOMAIN disk[n] /\ Loads(disk[n][f]) => FileHolds(f, Loaded(disk[n][f]))
LoadAt(n, f) ==
    \A r \in Loading(n, f) :
        /\ f \in DOMAIN disk[n]
        /\ joining[r].at = "payload" =>
              ~(Len(disk[n][f]) < 4) /\ joining[r].len = UnLE(Slice(disk[n][f], 0, 4))
BackfillWhole(n, f) ==
    \A r \in Readers :
        NodeOf[r] = n /\ persist_path(TopicOf[r]) = f /\ joining[r].at = "backfill"
            => FileHolds(f, joining[r].len)
LastWhole(n, f) ==
    \A t \in DOMAIN last_sample[n] :
        persist_path(t) = f /\ last_sample[n][t].writer_guid = ZeroGuid
            => FileHolds(f, last_sample[n][t].payload)
FileInv(n, f) ==
    /\ OneFlush(n, f) /\ FlushAt(n, f) /\ FileWhole(n, f)
    /\ LoadAt(n, f) /\ BackfillWhole(n, f) /\ LastWhole(n, f)

Files == {persist_path(TopicOf[x]) : x \in Writers \cup Readers}
DiskInv == \A n \in Nodes, f \in Files : <<n, f>> \notin spoiled => FileInv(n, f)

\* What a step has to leave alone for the file f of node n.
InFile == {"length", "payload"}
CallsStill(n, f) ==
    \A w \in Writers : NodeOf[w] = n /\ FileOf(w) = f =>
        \/ call'[w] = call[w] /\ pos'[w] = pos[w]
        \/ call[w].at \notin InFile /\ call'[w].at \notin InFile
JoinsStill(n, f) ==
    \A r \in Readers : NodeOf[r] = n /\ persist_path(TopicOf[r]) = f =>
        \/ joining'[r] = joining[r]
        \/ joining[r].at \notin InFile /\ joining'[r].at \notin InFile \cup {"backfill"}
DiskStill(n, f) ==
    /\ f \in DOMAIN disk'[n] <=> f \in DOMAIN disk[n]
    /\ f \in DOMAIN disk[n] => disk'[n][f] = disk[n][f]
LastStill(n, f) ==
    \A t \in DOMAIN last_sample'[n] :
        persist_path(t) = f /\ last_sample'[n][t].writer_guid = ZeroGuid
            => t \in DOMAIN last_sample[n] /\ last_sample'[n][t] = last_sample[n][t]

LEMMA StillFlushing ==
    ASSUME NEW n, NEW f, CallsStill(n, f)
    PROVE  /\ Flushing(n, f)' = Flushing(n, f)
           /\ \A w \in Flushing(n, f) : call'[w] = call[w] /\ pos'[w] = pos[w]
  BY DEF CallsStill, Flushing, FileOf, InFile

LEMMA StillLoading ==
    ASSUME NEW n, NEW f, JoinsStill(n, f)
    PROVE  Loading(n, f)' = Loading(n, f) /\ \A r \in Loading(n, f) : joining'[r] = joining[r]
  BY DEF JoinsStill, Loading, InFile

LEMMA StillWhole ==
    ASSUME NEW n, NEW f, written \subseteq written', DiskStill(n, f), FileWhole(n, f)
    PROVE  FileWhole(n, f)'
  <1> SUFFICES ASSUME f \in DOMAIN disk'[n], Loads(disk'[n][f])
               PROVE  \E x \in written' : persist_path(x.topic) = f /\ x.payload = Loaded(disk'[n][f])
    BY DEF FileWhole, FileHolds, Loads, Loaded
  <1>1. f \in DOMAIN disk[n] /\ disk'[n][f] = disk[n][f]
    BY DEF DiskStill
  <1>2. FileHolds(f, Loaded(disk[n][f]))
    BY <1>1 DEF FileWhole
  <1> QED BY <1>1, <1>2 DEF FileHolds

LEMMA StillBackfill ==
    ASSUME NEW n, NEW f, written \subseteq written', JoinsStill(n, f), BackfillWhole(n, f)
    PROVE  BackfillWhole(n, f)'
  <1> SUFFICES ASSUME NEW r \in Readers, NodeOf[r] = n, persist_path(TopicOf[r]) = f,
                      joining'[r].at = "backfill"
               PROVE  \E x \in written' : persist_path(x.topic) = f /\ x.payload = joining'[r].len
    BY DEF BackfillWhole, FileHolds
  <1>1. joining'[r] = joining[r]
    BY DEF JoinsStill
  <1>2. FileHolds(f, joining[r].len)
    BY <1>1 DEF BackfillWhole
  <1> QED BY <1>1, <1>2 DEF FileHolds

LEMMA StillLast ==
    ASSUME NEW n, NEW f, written \subseteq written', LastStill(n, f), LastWhole(n, f)
    PROVE  LastWhole(n, f)'
  <1> SUFFICES ASSUME NEW t \in DOMAIN last_sample'[n], persist_path(t) = f,
                      last_sample'[n][t].writer_guid = ZeroGuid
               PROVE  \E x \in written' : persist_path(x.topic) = f /\ x.payload = last_sample'[n][t].payload
    BY DEF LastWhole, FileHolds
  <1>1. t \in DOMAIN last_sample[n] /\ last_sample'[n][t] = last_sample[n][t]
    BY DEF LastStill
  <1>2. FileHolds(f, last_sample[n][t].payload)
    BY <1>1 DEF LastWhole
  <1> QED BY <1>1, <1>2 DEF FileHolds

LEMMA StillFile ==
    ASSUME NEW n, NEW f, FileInv(n, f), written \subseteq written',
           CallsStill(n, f), JoinsStill(n, f), DiskStill(n, f), LastStill(n, f)
    PROVE  FileInv(n, f)'
  <1>1. /\ Flushing(n, f)' = Flushing(n, f)
        /\ \A w \in Flushing(n, f) : call'[w] = call[w] /\ pos'[w] = pos[w]
        /\ Loading(n, f)' = Loading(n, f) /\ \A r \in Loading(n, f) : joining'[r] = joining[r]
    BY StillFlushing, StillLoading
  <1>2. OneFlush(n, f)'
    BY <1>1 DEF FileInv, OneFlush
  <1>3. FlushAt(n, f)'
    BY <1>1 DEF FileInv, FlushAt, DiskStill
  <1>4. LoadAt(n, f)'
    BY <1>1 DEF FileInv, LoadAt, DiskStill
  <1>5. FileWhole(n, f)'
    BY StillWhole DEF FileInv
  <1>6. BackfillWhole(n, f)'
    BY StillBackfill DEF FileInv
  <1>7. LastWhole(n, f)'
    BY StillLast DEF FileInv
  <1> QED BY <1>2, <1>3, <1>4, <1>5, <1>6, <1>7 DEF FileInv

LEMMA LastAfterWrite ==
    ASSUME TypeInv, NEW w \in Writers, WriteStep(w), NEW n \in Nodes, NEW f PROVE LastStill(n, f)
  <1>1. CASE WriteRemember(w)
    <2>1. PICK s : s = Claimed(w)
      OBVIOUS
    <2>2. last_sample' = [last_sample EXCEPT ![NodeOf[w]] = Insert(@, TopicOf[w], s)]
      BY <1>1, <2>1 DEF WriteRemember, Claimed
    <2>3. s.writer_guid # ZeroGuid
      <3>1. s.writer_guid.prefix = Prefix(NodeOf[w]) /\ ZeroGuid.prefix = <<>>
        BY <2>1 DEF Claimed, Sample, GuidOf, ZeroGuid
      <3> QED BY <3>1, PrefixTuple
    <2>4. ASSUME NEW t \in DOMAIN last_sample'[n], last_sample'[n][t].writer_guid = ZeroGuid
          PROVE  t \in DOMAIN last_sample[n] /\ last_sample'[n][t] = last_sample[n][t]
      <3>1. CASE n # NodeOf[w]
        <4>1. last_sample'[n] = last_sample[n]
          BY <2>2, <3>1 DEF TypeInv
        <4> QED BY <2>4, <4>1
      <3>2. CASE n = NodeOf[w]
        <4>1. last_sample'[n] = Insert(last_sample[n], TopicOf[w], s)
          BY <2>2, <3>2 DEF TypeInv
        <4>2. t # TopicOf[w]
          BY <2>3, <2>4, <4>1 DEF Insert
        <4> QED BY <2>4, <4>1, <4>2 DEF Insert
      <3> QED BY <3>1, <3>2
    <2> QED BY <2>4 DEF LastStill
  <1>2. CASE ~WriteRemember(w)
    <2>1. UNCHANGED last_sample
      BY <1>2 DEF WriteStep, FlushCreate, FlushLength, FlushPayload, FlushCreateFails, WriteDispatch, WriteSend
    <2> QED BY <2>1 DEF LastStill
  <1> QED BY <1>1, <1>2

\* A step of write on another file, or that leaves the files alone.
LEMMA DiskAfterWrite ==
    ASSUME TypeInv, NEW w \in Writers, WriteStep(w), NEW n \in Nodes, NEW f,
           n # NodeOf[w] \/ f # FileOf(w)
    PROVE  DiskStill(n, f)
  <1>1. CASE UNCHANGED disk
    BY <1>1 DEF DiskStill
  <1>2. ASSUME NEW c, disk' = [disk EXCEPT ![NodeOf[w]] = Insert(@, FileOf(w), c)] PROVE DiskStill(n, f)
    <2>1. CASE n # NodeOf[w]
      <3>1. disk'[n] = disk[n]
        BY <1>2, <2>1 DEF TypeInv
      <3> QED BY <3>1 DEF DiskStill
    <2>2. CASE n = NodeOf[w]
      <3>1. disk'[n] = Insert(disk[n], FileOf(w), c)
        BY <1>2, <2>2 DEF TypeInv
      <3> QED BY <2>2, <3>1 DEF DiskStill, Insert
    <2> QED BY <2>1, <2>2
  <1>3. ASSUME NEW c, disk' = [disk EXCEPT ![NodeOf[w]][FileOf(w)] = c] PROVE DiskStill(n, f)
    <2>1. CASE n # NodeOf[w]
      <3>1. disk'[n] = disk[n]
        BY <1>3, <2>1 DEF TypeInv
      <3> QED BY <3>1 DEF DiskStill
    <2>2. CASE n = NodeOf[w]
      <3>1. disk'[n] = [disk[n] EXCEPT ![FileOf(w)] = c]
        BY <1>3, <2>2 DEF TypeInv
      <3> QED BY <2>2, <3>1 DEF DiskStill
    <2> QED BY <2>1, <2>2
  <1>4. CASE FlushCreate(w)
    BY <1>2, <1>4 DEF FlushCreate
  <1>5. CASE FlushLength(w) \/ FlushPayload(w) \/ FlushCreateFails(w)
    <2>1. UNCHANGED disk \/ \E c : disk' = [disk EXCEPT ![NodeOf[w]][FileOf(w)] = c]
      BY <1>5, Zenon DEF FlushLength, FlushPayload, FlushCreateFails, DiskVars
    <2> QED BY <1>1, <1>3, <2>1
  <1>6. CASE WriteRemember(w) \/ WriteDispatch(w) \/ WriteSend(w)
    BY <1>1, <1>6 DEF WriteRemember, WriteDispatch, WriteSend, DiskVars
  <1> QED BY <1>4, <1>5, <1>6 DEF WriteStep

LEMMA JoinsAfterWrite ==
    ASSUME NEW w \in Writers, WriteStep(w), NEW n, NEW f PROVE JoinsStill(n, f)
  BY WriteGoes DEF JoinsStill

LEMMA OtherFile ==
    ASSUME TypeInv, NEW w \in Writers, WriteStep(w), NEW n \in Nodes, NEW f, FileInv(n, f),
           n # NodeOf[w] \/ f # FileOf(w)
    PROVE  FileInv(n, f)'
  <1>1. PICK pc \in CallPcs : Goto(w, pc)
    BY WriteGoes
  <1>2. CallsStill(n, f)
    <2>1. \A v \in Writers \ {w} : call'[v] = call[v] /\ pos'[v] = pos[v]
      BY <1>1, Going, PosAfterWrite DEF TypeInv
    <2> QED BY <2>1 DEF CallsStill
  <1>3. written \subseteq written'
    BY WriteGoes
  <1> QED BY <1>2, <1>3, JoinsAfterWrite, DiskAfterWrite, LastAfterWrite, StillFile

\* The steps of persist_flush on their own file.
LEMMA FileCreate ==
    ASSUME TypeInv, NEW w \in Writers, FlushCreate(w), NEW n, NEW f, n = NodeOf[w], f = FileOf(w),
           FileInv(n, f), <<n, f>> \notin spoiled'
    PROVE  FileInv(n, f)'
  <1>0. WriteStep(w) /\ n \in Nodes /\ written \subseteq written'
    BY NodesOf, WriteGoes DEF WriteStep
  <1>1. Flushing(n, f) = {} /\ Loading(n, f) = {}
    <2>1. Flushing(n, f) \cup Loading(n, f) # {} => spoiled' = spoiled \cup {<<n, f>>}
      BY DEF FlushCreate, Spoil
    <2> QED BY <2>1
  <1>2. Goto(w, "length") /\ "length" \in CallPcs
    BY DEF FlushCreate, CallPcs
  <1>3. call'[w].at = "length" /\ \A v \in Writers \ {w} : call'[v] = call[v]
    BY <1>2, Going
  <1>4. Flushing(n, f)' = {w}
    BY <1>1, <1>3 DEF Flushing, FileOf
  <1>5. Loading(n, f)' = {}
    BY <1>0, <1>1, JoinsAfterWrite, StillLoading
  <1>6. f \in DOMAIN disk'[n] /\ disk'[n][f] = <<>>
    <2>1. disk' = [disk EXCEPT ![n] = Insert(@, f, <<>>)]
      BY DEF FlushCreate
    <2>2. disk'[n] = Insert(disk[n], f, <<>>)
      BY <1>0, <2>1 DEF TypeInv
    <2> QED BY <2>2 DEF Insert
  <1>7. OneFlush(n, f)'
    BY <1>4, <1>5 DEF OneFlush
  <1>8. FlushAt(n, f)'
    BY <1>3, <1>4, <1>6 DEF FlushAt
  <1>9. FileWhole(n, f)'
    <2>1. Len(<<>>) = 0
      OBVIOUS
    <2>2. Len(disk'[n][f]) = 0
      BY <1>6, <2>1
    <2>3. ~Loads(disk'[n][f])
      BY <2>2 DEF Loads
    <2> QED BY <2>3 DEF FileWhole, Loads
  <1>10. LoadAt(n, f)'
    BY <1>5 DEF LoadAt
  <1>11. BackfillWhole(n, f)' /\ LastWhole(n, f)'
    BY <1>0, JoinsAfterWrite, LastAfterWrite, StillBackfill, StillLast DEF FileInv
  <1> QED BY <1>7, <1>8, <1>9, <1>10, <1>11 DEF FileInv

\* The call that is in the middle of the file is the only one, and nobody loads.
LEMMA Alone ==
    ASSUME NEW w \in Writers, NEW n, NEW f, n = NodeOf[w], f = FileOf(w), FileInv(n, f),
           call[w].at \in InFile
    PROVE  /\ Flushing(n, f) = {w} /\ Loading(n, f) = {} /\ f \in DOMAIN disk[n]
           /\ call[w].at = "length" => disk[n][f] = <<>>
           /\ call[w].at = "payload" /\ pos[w] = 4 => disk[n][f] = LE(Len(call[w].payload), 4)
  <1>1. w \in Flushing(n, f)
    BY DEF Flushing, FileOf, InFile
  <1>2. Flushing(n, f) = {w} /\ Loading(n, f) = {}
    BY <1>1 DEF FileInv, OneFlush
  <1> QED BY <1>1, <1>2 DEF FileInv, FlushAt

\* What the two steps that follow have in common.
LEMMA AfterFlush ==
    ASSUME TypeInv, NEW w \in Writers, WriteStep(w), NEW n, NEW f, n = NodeOf[w], f = FileOf(w),
           FileInv(n, f), Loading(n, f) = {}
    PROVE  LoadAt(n, f)' /\ BackfillWhole(n, f)' /\ LastWhole(n, f)' /\ Loading(n, f)' = {}
  <1>1. n \in Nodes /\ written \subseteq written'
    BY NodesOf, WriteGoes
  <1>2. Loading(n, f)' = {}
    BY JoinsAfterWrite, StillLoading
  <1>3. LoadAt(n, f)'
    BY <1>2 DEF LoadAt
  <1> QED BY <1>1, <1>2, <1>3, JoinsAfterWrite, LastAfterWrite, StillBackfill, StillLast DEF FileInv

\* The call no longer is in the middle of the file, which can be loaded only if whole.
LEMMA DoneFlush ==
    ASSUME TypeInv, NEW w \in Writers, WriteStep(w), NEW n, NEW f, n = NodeOf[w], f = FileOf(w),
           FileInv(n, f), call[w].at \in InFile, Goto(w, "dispatch"), FileWhole(n, f)'
    PROVE  FileInv(n, f)'
  <1>1. Flushing(n, f) = {w} /\ Loading(n, f) = {}
    BY Alone
  <1>2. "dispatch" \in CallPcs
    BY DEF CallPcs
  <1>3. call'[w].at = "dispatch" /\ \A v \in Writers \ {w} : call'[v] = call[v]
    BY <1>2, Going
  <1>4. Flushing(n, f)' = {}
    BY <1>1, <1>3 DEF Flushing, FileOf
  <1>5. OneFlush(n, f)' /\ FlushAt(n, f)'
    BY <1>4 DEF OneFlush, FlushAt
  <1>6. LoadAt(n, f)' /\ BackfillWhole(n, f)' /\ LastWhole(n, f)'
    BY <1>1, AfterFlush
  <1> QED BY <1>5, <1>6 DEF FileInv

\* The sample of the call is one written to its file.
LEMMA ClaimHeld ==
    ASSUME CallInv, NEW w \in Writers, WriteStep(w)
    PROVE  \E x \in written' : persist_path(x.topic) = FileOf(w) /\ x.payload = call[w].payload
  <1>1. Claimed(w) \in written' /\ Claimed(w).topic = TopicOf[w] /\ Claimed(w).payload = call[w].payload
    <2>1. Claimed(w) \in written
      BY WriteGoes DEF CallInv
    <2>2. Claimed(w).topic = TopicOf[w] /\ Claimed(w).payload = call[w].payload
      BY DEF Claimed, Sample
    <2> QED BY <2>1, <2>2, WriteGoes
  <1> QED BY <1>1, Zenon DEF FileOf

LEMMA FileLength ==
    ASSUME TypeInv, CallInv, NEW w \in Writers, FlushLength(w), NEW n, NEW f, n = NodeOf[w], f = FileOf(w),
           FileInv(n, f)
    PROVE  FileInv(n, f)'
  <1>0. WriteStep(w) /\ n \in Nodes /\ call[w].at = "length" /\ call[w].at \in InFile
    BY NodesOf DEF WriteStep, FlushLength, CallAt, InFile
  <1> DEFINE H == LE(Len(call[w].payload), 4)
  <1>a. PICK k \in 0..4 : /\ disk' = [disk EXCEPT ![NodeOf[w]][FileOf(w)] = WriteAt(@, 0, SubSeq(H, 1, k))]
                          /\ pos' = [pos EXCEPT ![w] = k] /\ Goto(w, "payload")
    BY Zenon DEF FlushLength, WriteAll
  <1> HIDE DEF H
  <1>1. Flushing(n, f) = {w} /\ Loading(n, f) = {} /\ f \in DOMAIN disk[n] /\ disk[n][f] = <<>>
    BY <1>0, Alone
  <1>2. PICK p \in Data : p = call[w].payload
    BY DEF TypeInv
  <1>3. Goto(w, "payload") /\ "payload" \in CallPcs
    BY <1>a DEF CallPcs
  <1>4. call'[w].at = "payload" /\ call'[w].payload = p /\ \A v \in Writers \ {w} : call'[v] = call[v]
    BY <1>2, <1>3, Going
  <1>5. Flushing(n, f)' = {w}
    BY <1>1, <1>4 DEF Flushing, FileOf
  <1>6. H = LE(Len(p), 4) /\ H \in Seq(OctetSet) /\ Len(H) = 4
    <2>1. Len(p) \in Nat /\ Len(p) < U32
      BY DEF Data
    <2> QED BY <1>2, <2>1, LengthComesBack DEF H
  <1>7. f \in DOMAIN disk'[n] /\ disk'[n][f] = WriteAt(<<>>, 0, SubSeq(H, 1, k))
    <2>1. PICK b : b = SubSeq(H, 1, k)
      OBVIOUS
    <2>2. disk'[n] = [disk[n] EXCEPT ![f] = WriteAt(@, 0, b)]
      BY <1>0, <1>a, <2>1 DEF TypeInv
    <2>3. disk'[n][f] = WriteAt(disk[n][f], 0, b) /\ f \in DOMAIN disk'[n]
      BY <1>1, <2>2
    <2> QED BY <1>1, <2>1, <2>3
  <1>7a. k = 4 => disk'[n][f] = H
    <2>1. SubSeq(H, 1, 4) = H
      BY <1>6
    <2> QED BY <1>6, <1>7, <2>1, WriteToEmpty
  <1>7b. pos'[w] = k
    BY <1>a DEF TypeInv
  <1>8. LoadAt(n, f)' /\ BackfillWhole(n, f)' /\ LastWhole(n, f)' /\ Loading(n, f)' = {}
    BY <1>0, <1>1, AfterFlush
  <1>9. OneFlush(n, f)'
    BY <1>5, <1>8 DEF OneFlush
  <1>10. FlushAt(n, f)'
    BY <1>4, <1>5, <1>6, <1>7, <1>7a, <1>7b DEF FlushAt
  <1>11. FileWhole(n, f)'
    <2> SUFFICES ASSUME Loads(disk'[n][f])
                 PROVE  \E x \in written' : persist_path(x.topic) = f /\ x.payload = Loaded(disk'[n][f])
      BY DEF FileWhole, FileHolds, Loads, Loaded
    <2>0. k = 4
      BY <1>6, <1>7, LengthCut
    <2>1. Loaded(disk'[n][f]) = p
      BY <1>6, <1>7a, <2>0, LengthOnly
    <2> QED BY <1>0, <1>2, <2>1, ClaimHeld
  <1> QED BY <1>8, <1>9, <1>10, <1>11 DEF FileInv

LEMMA FilePayload ==
    ASSUME TypeInv, CallInv, NEW w \in Writers, FlushPayload(w), NEW n, NEW f, n = NodeOf[w], f = FileOf(w),
           FileInv(n, f), <<n, f>> \notin spoiled'
    PROVE  FileInv(n, f)'
  <1>1. PICK p \in Data : p = call[w].payload
    BY DEF TypeInv
  <1>2. PICK k \in 0..Len(p) :
           /\ disk' = [disk EXCEPT ![NodeOf[w]][FileOf(w)] = WriteAt(@, pos[w], SubSeq(p, 1, k))]
           /\ spoiled' = IF pos[w] = 4 \/ k = 0 THEN spoiled ELSE Spoil(w)
           /\ CallAt(w, "payload") /\ Goto(w, "dispatch")
    BY <1>1, Zenon DEF FlushPayload, WriteAll
  <1>3. /\ WriteStep(w) /\ n \in Nodes /\ call[w].at = "payload" /\ call[w].at \in InFile
        /\ written \subseteq written'
    BY <1>2, NodesOf, WriteGoes DEF WriteStep, CallAt, InFile
  <1>4. f \in DOMAIN disk[n] /\ (pos[w] = 4 => disk[n][f] = LE(Len(p), 4))
    BY <1>1, <1>3, Alone
  <1>5. f \in DOMAIN disk'[n] /\ disk'[n][f] = WriteAt(disk[n][f], pos[w], SubSeq(p, 1, k))
    <2>1. PICK b : b = SubSeq(p, 1, k)
      OBVIOUS
    <2>2. disk'[n] = [disk[n] EXCEPT ![f] = WriteAt(@, pos[w], b)]
      BY <1>2, <1>3, <2>1 DEF TypeInv
    <2> QED BY <1>4, <2>1, <2>2
  <1>6. p \in Seq(OctetSet) /\ Len(p) \in Nat
    BY DEF Data
  <1>7. FileWhole(n, f)'
    <2>1. CASE k = 0
      <3>1. SubSeq(p, 1, k) = <<>>
        BY <1>6, <2>1
      <3>2. disk'[n][f] = disk[n][f]
        BY <1>5, <3>1, Zenon DEF WriteAt
      <3>3. DiskStill(n, f)
        BY <1>4, <1>5, <3>2 DEF DiskStill
      <3> QED BY <1>3, <3>3, StillWhole DEF FileInv
    <2>2. CASE k # 0
      <3>1. pos[w] = 4
        BY <1>2, <2>2 DEF Spoil
      <3>2. CASE k = Len(p)
        <4>1. SubSeq(p, 1, k) = p /\ p # <<>>
          BY <1>6, <2>2, <3>2
        <4>2. Loaded(disk'[n][f]) = p
          BY <1>4, <1>5, <3>1, <4>1, WholeFile
        <4> SUFFICES \E x \in written' : persist_path(x.topic) = f /\ x.payload = Loaded(disk'[n][f])
          BY DEF FileWhole, FileHolds, Loads, Loaded
        <4> QED BY <1>1, <1>3, <4>2, ClaimHeld
      <3>3. CASE k # Len(p)
        <4>1. k \in 1..(Len(p) - 1)
          BY <1>6, <2>2, <3>3
        <4>2. ~Loads(disk'[n][f])
          BY <1>4, <1>5, <3>1, <4>1, CutFile
        <4> QED BY <4>2 DEF FileWhole, Loads
      <3> QED BY <3>2, <3>3
    <2> QED BY <2>1, <2>2
  <1> QED BY <1>2, <1>3, <1>7, DoneFlush

LEMMA FileFails ==
    ASSUME TypeInv, NEW w \in Writers, FlushCreateFails(w), NEW n, NEW f, n = NodeOf[w], f = FileOf(w),
           FileInv(n, f)
    PROVE  FileInv(n, f)'
  <1>0. WriteStep(w) /\ n \in Nodes /\ Goto(w, "dispatch") /\ written \subseteq written'
    BY NodesOf, WriteGoes DEF WriteStep, FlushCreateFails
  <1>1. UNCHANGED <<disk, pos>> /\ call[w].at = "create"
    BY DEF FlushCreateFails, CallAt, DiskVars
  <1>2. call'[w].at = "dispatch" /\ \A v \in Writers \ {w} : call'[v] = call[v]
    BY <1>0, Going DEF CallPcs
  <1>3. CallsStill(n, f)
    BY <1>1, <1>2 DEF CallsStill, InFile
  <1>4. DiskStill(n, f)
    BY <1>1 DEF DiskStill
  <1> QED BY <1>0, <1>3, <1>4, JoinsAfterWrite, LastAfterWrite, StillFile

\* A step of write, on its own file or not.
LEMMA FileWrite ==
    ASSUME TypeInv, CallInv, NEW w \in Writers, WriteStep(w), NEW n \in Nodes, NEW f,
           FileInv(n, f), <<n, f>> \notin spoiled'
    PROVE  FileInv(n, f)'
  <1>1. CASE n # NodeOf[w] \/ f # FileOf(w)
    BY <1>1, OtherFile
  <1>2. CASE n = NodeOf[w] /\ f = FileOf(w)
    <2>1. CASE FlushCreate(w)
      BY <1>2, <2>1, FileCreate
    <2>2. CASE FlushLength(w)
      BY <1>2, <2>2, FileLength
    <2>3. CASE FlushPayload(w)
      BY <1>2, <2>3, FilePayload
    <2>4. CASE FlushCreateFails(w)
      BY <1>2, <2>4, FileFails
    <2>5. CASE WriteRemember(w) \/ WriteDispatch(w) \/ WriteSend(w)
      <3>1. PICK pc \in CallPcs : Goto(w, pc) /\ pc \notin InFile
        BY <2>5 DEF WriteRemember, WriteDispatch, WriteSend, CallPcs, InFile
      <3>2. call[w].at \notin InFile /\ UNCHANGED <<disk, pos>>
        BY <2>5 DEF WriteRemember, WriteDispatch, WriteSend, CallAt, InFile, DiskVars
      <3>3. CallsStill(n, f)
        BY <3>1, <3>2, Going DEF CallsStill
      <3>4. DiskStill(n, f)
        BY <3>2 DEF DiskStill
      <3>5. written \subseteq written'
        BY WriteGoes
      <3> QED BY <3>3, <3>4, <3>5, JoinsAfterWrite, LastAfterWrite, StillFile
    <2> QED BY <2>1, <2>2, <2>3, <2>4, <2>5 DEF WriteStep
  <1> QED BY <1>1, <1>2

\* The steps of deliver_transient_local.
LEMMA CallsAfterRead ==
    ASSUME NEW r \in Readers, ReadStep(r)
    PROVE  UNCHANGED <<call, disk, pos, written>> /\ \A n, f : CallsStill(n, f) /\ DiskStill(n, f)
  <1>1. UNCHANGED <<call, disk, pos, written>>
    BY DEF ReadStep, Register, Recall, LoadLength, LoadPayload, Backfill, remove_reader, WriteVars, DiskVars
  <1> QED BY <1>1 DEF CallsStill, DiskStill

\* A step that only moves reader r in its call, from one place outside the file to
\* another and not to the backfill.
LEMMA FileMoved ==
    ASSUME NEW r \in Readers, ReadStep(r), NEW n, NEW f, FileInv(n, f), UNCHANGED last_sample,
           \A q \in Readers \ {r} : joining'[q] = joining[q],
           \/ joining'[r] = joining[r]
           \/ joining[r].at \notin InFile /\ joining'[r].at \notin InFile \cup {"backfill"}
           \/ n # NodeOf[r] \/ f # persist_path(TopicOf[r])
    PROVE  FileInv(n, f)'
  <1>1. JoinsStill(n, f)
    BY DEF JoinsStill
  <1>2. LastStill(n, f)
    BY DEF LastStill
  <1>3. written \subseteq written'
    BY CallsAfterRead
  <1> QED BY <1>1, <1>2, <1>3, CallsAfterRead, StillFile

\* What a step of reader r on its own file has to show for it.
LEMMA FileJoin ==
    ASSUME NEW r \in Readers, ReadStep(r), NEW n, NEW f, FileInv(n, f), UNCHANGED last_sample,
           \A q \in Readers \ {r} : joining'[q] = joining[q],
           n = NodeOf[r], f = persist_path(TopicOf[r]),
           joining'[r].at \in InFile => Flushing(n, f) = {} /\ f \in DOMAIN disk[n],
           joining'[r].at = "payload" =>
               ~(Len(disk[n][f]) < 4) /\ joining'[r].len = UnLE(Slice(disk[n][f], 0, 4)),
           joining'[r].at = "backfill" => FileHolds(f, joining'[r].len)
    PROVE  FileInv(n, f)'
  <1>0. UNCHANGED <<call, disk, pos, written>>
    BY CallsAfterRead
  <1>1. Flushing(n, f)' = Flushing(n, f)
    BY <1>0 DEF Flushing, FileOf
  <1>2. Loading(n, f)' \subseteq Loading(n, f) \cup {r} /\ (r \in Loading(n, f)' => joining'[r].at \in InFile)
    BY DEF Loading, InFile
  <1>3. OneFlush(n, f)'
    BY <1>1, <1>2 DEF FileInv, OneFlush
  <1>4. FlushAt(n, f)'
    BY <1>0, <1>1 DEF FileInv, FlushAt
  <1>5. LoadAt(n, f)'
    <2> SUFFICES ASSUME NEW q \in Loading(n, f)'
                 PROVE  /\ f \in DOMAIN disk'[n]
                        /\ joining'[q].at = "payload" =>
                              ~(Len(disk'[n][f]) < 4) /\ joining'[q].len = UnLE(Slice(disk'[n][f], 0, 4))
      BY DEF LoadAt
    <2>1. CASE q = r
      BY <1>0, <1>2, <2>1
    <2>2. CASE q # r
      <3>1. q \in Loading(n, f) /\ joining'[q] = joining[q]
        BY <1>2, <2>2 DEF Loading
      <3> QED BY <1>0, <3>1 DEF FileInv, LoadAt
    <2> QED BY <2>1, <2>2
  <1>6. FileWhole(n, f)'
    <2>1. FileWhole(n, f) /\ DiskStill(n, f) /\ written \subseteq written'
      BY <1>0 DEF FileInv, DiskStill
    <2> QED BY <2>1, StillWhole
  <1>7. LastWhole(n, f)'
    <2>1. LastWhole(n, f) /\ LastStill(n, f) /\ written \subseteq written'
      BY <1>0 DEF FileInv, LastStill
    <2> QED BY <2>1, StillLast
  <1>8. BackfillWhole(n, f)'
    <2> SUFFICES ASSUME NEW q \in Readers, NodeOf[q] = n, persist_path(TopicOf[q]) = f,
                        joining'[q].at = "backfill"
                 PROVE  \E x \in written' : persist_path(x.topic) = f /\ x.payload = joining'[q].len
      BY DEF BackfillWhole, FileHolds
    <2>1. CASE q = r
      BY <1>0, <2>1 DEF FileHolds
    <2>2. CASE q # r
      <3>1. FileHolds(f, joining[q].len) /\ joining'[q] = joining[q]
        BY <2>2 DEF FileInv, BackfillWhole
      <3> QED BY <1>0, <3>1 DEF FileHolds
    <2> QED BY <2>1, <2>2
  <1> QED BY <1>3, <1>4, <1>5, <1>6, <1>7, <1>8 DEF FileInv

LEMMA FileRecall ==
    ASSUME TypeInv, NEW r \in Readers, Recall(r), NEW n, NEW f, FileInv(n, f), <<n, f>> \notin spoiled'
    PROVE  FileInv(n, f)'
  <1>0. ReadStep(r) /\ UNCHANGED last_sample
    BY DEF ReadStep, Recall
  <1>1. CASE n # NodeOf[r] \/ f # persist_path(TopicOf[r])
    <2>1. \A q \in Readers \ {r} : joining'[q] = joining[q]
      BY DEF Recall, JoinStep, TypeInv
    <2> QED BY <1>0, <1>1, <2>1, FileMoved
  <1>2. CASE n = NodeOf[r] /\ f = persist_path(TopicOf[r])
    <2> DEFINE load == /\ TopicOf[r] \notin DOMAIN last_sample[n] /\ n \in Durable /\ f \in DOMAIN disk[n]
    <2>1. JoinStep(r, IF load THEN "length" ELSE "no")
      BY <1>2, Zenon DEF Recall
    <2>2. load => Flushing(n, f) = {}
      <3>1. TopicOf[r] \notin DOMAIN last_sample[n] /\ Flushing(n, f) # {} => spoiled' = spoiled \cup {<<n, f>>}
        BY <1>2, Zenon DEF Recall
      <3> QED BY <3>1
    <2>3. f \in DOMAIN disk[n] \/ ~load
      OBVIOUS
    <2> HIDE DEF load
    <2>4. /\ \A q \in Readers \ {r} : joining'[q] = joining[q]
          /\ joining'[r].at = IF load THEN "length" ELSE "no"
      BY <2>1 DEF JoinStep, TypeInv
    <2>5. joining'[r].at \in InFile => load
      BY <2>4 DEF InFile
    <2>6. joining'[r].at \notin {"payload", "backfill"}
      BY <2>4
    <2> QED BY <1>0, <1>2, <2>2, <2>3, <2>4, <2>5, <2>6, FileJoin
  <1> QED BY <1>1, <1>2

LEMMA FileLoad ==
    ASSUME TypeInv, NEW r \in Readers, LoadLength(r) \/ LoadPayload(r), NEW n, NEW f, FileInv(n, f)
    PROVE  FileInv(n, f)'
  <1>0. /\ ReadStep(r) /\ UNCHANGED last_sample /\ joining[r].at \in InFile
        /\ \A q \in Readers \ {r} : joining'[q] = joining[q]
    <2>1. ReadStep(r) /\ UNCHANGED last_sample /\ joining[r].at \in InFile
      BY DEF ReadStep, LoadLength, LoadPayload, InFile
    <2>2. \E j : joining' = [joining EXCEPT ![r] = j]
      BY Zenon DEF LoadLength, LoadPayload
    <2> QED BY <2>1, <2>2 DEF TypeInv
  <1>1. CASE n # NodeOf[r] \/ f # persist_path(TopicOf[r])
    BY <1>0, <1>1, FileMoved
  <1>2. CASE n = NodeOf[r] /\ f = persist_path(TopicOf[r])
    <2>1. r \in Loading(n, f)
      BY <1>0, <1>2 DEF Loading, InFile
    <2>2. Flushing(n, f) = {} /\ f \in DOMAIN disk[n]
      BY <2>1 DEF FileInv, OneFlush, LoadAt
    <2>3. CASE LoadLength(r)
      <3>1. PICK length : length = UnLE(Slice(disk[n][f], 0, 4))
        OBVIOUS
      <3>2. joining' = [joining EXCEPT ![r] =
               IF Len(disk[n][f]) < 4 \/ length > MaxPersistedPayload THEN [at |-> "no", len |-> 0]
               ELSE [at |-> "payload", len |-> length]]
        BY <1>2, <2>3, <3>1 DEF LoadLength
      <3>3. joining'[r] = IF Len(disk[n][f]) < 4 \/ length > MaxPersistedPayload THEN [at |-> "no", len |-> 0]
                          ELSE [at |-> "payload", len |-> length]
        BY <3>2 DEF TypeInv
      <3>4. CASE Len(disk[n][f]) < 4 \/ length > MaxPersistedPayload
        <4>1. joining'[r].at = "no"
          BY <3>3, <3>4
        <4> QED BY <1>0, <1>2, <4>1, FileJoin DEF InFile
      <3>5. CASE ~(Len(disk[n][f]) < 4 \/ length > MaxPersistedPayload)
        <4>1. joining'[r].at = "payload" /\ joining'[r].len = length
          BY <3>3, <3>5
        <4>2. ~(Len(disk[n][f]) < 4)
          BY <3>5
        <4> QED BY <1>0, <1>2, <2>2, <3>1, <4>1, <4>2, FileJoin DEF InFile
      <3> QED BY <3>4, <3>5
    <2>4. CASE LoadPayload(r)
      <3>0. joining[r].at = "payload"
        BY <2>4 DEF LoadPayload
      <3>1. PICK length : length = joining[r].len
        OBVIOUS
      <3>2. ~(Len(disk[n][f]) < 4) /\ length = UnLE(Slice(disk[n][f], 0, 4))
        BY <2>1, <3>0, <3>1 DEF FileInv, LoadAt
      <3>3. PICK payload : payload = ReadPayload(disk[n][f], length)
        OBVIOUS
      <3>4. joining' = [joining EXCEPT ![r] = [at |-> IF payload = <<>> THEN "no" ELSE "backfill",
                                               len |-> IF payload = <<>> THEN 0 ELSE payload[1]]]
        BY <1>2, <2>4, <3>1, <3>3 DEF LoadPayload
      <3>5. /\ joining'[r].at = IF payload = <<>> THEN "no" ELSE "backfill"
            /\ joining'[r].len = IF payload = <<>> THEN 0 ELSE payload[1]
        BY <3>4 DEF TypeInv
      <3>6. CASE payload = <<>>
        <4>1. joining'[r].at = "no"
          BY <3>5, <3>6
        <4> QED BY <1>0, <1>2, <4>1, FileJoin DEF InFile
      <3>7. CASE payload # <<>>
        <4>1. ~(Len(disk[n][f]) < 4 + length)
          BY <3>3, <3>7, Zenon DEF ReadPayload
        <4>2. payload = <<Loaded(disk[n][f])>>
          BY <3>2, <3>3, <4>1, Zenon DEF ReadPayload, Loaded
        <4>3. Loads(disk[n][f])
          BY <3>2, <4>1 DEF Loads
        <4>4. joining'[r].at = "backfill" /\ joining'[r].len = Loaded(disk[n][f])
          BY <3>5, <3>7, <4>2
        <4>5. FileHolds(f, joining'[r].len)
          BY <2>2, <4>3, <4>4 DEF FileInv, FileWhole
        <4> QED BY <1>0, <1>2, <4>4, <4>5, FileJoin DEF InFile
      <3> QED BY <3>6, <3>7
    <2> QED BY <2>3, <2>4
  <1> QED BY <1>1, <1>2

LEMMA FileBackfill ==
    ASSUME TypeInv, NEW r \in Readers, Backfill(r), NEW n \in Nodes, NEW f, FileInv(n, f)
    PROVE  FileInv(n, f)'
  <1>0. ReadStep(r)
    BY DEF ReadStep
  <1>1. written \subseteq written'
    BY <1>0, CallsAfterRead
  <1>2. JoinsStill(n, f)
    <2>1. joining[r].at = "backfill" /\ joining' = [joining EXCEPT ![r] = [at |-> "no", len |-> 0]]
      BY DEF Backfill
    <2> QED BY <2>1 DEF JoinsStill, InFile, TypeInv
  <1>3. LastWhole(n, f)'
    <2>1. PICK s : s = Sample(TopicOf[r], joining[r].len, 0, ZeroGuid)
      OBVIOUS
    <2>2. last_sample' = [last_sample EXCEPT ![NodeOf[r]] = Insert(@, TopicOf[r], s)]
      BY <2>1 DEF Backfill
    <2> SUFFICES ASSUME NEW t \in DOMAIN last_sample'[n], persist_path(t) = f,
                        last_sample'[n][t].writer_guid = ZeroGuid
                 PROVE  \E x \in written' : persist_path(x.topic) = f /\ x.payload = last_sample'[n][t].payload
      BY DEF LastWhole, FileHolds
    <2>3. CASE n = NodeOf[r] /\ t = TopicOf[r]
      <3>1. last_sample'[n][t] = s
        BY <2>2, <2>3 DEF TypeInv, Insert
      <3>2. s.payload = joining[r].len
        BY <2>1 DEF Sample
      <3>3. FileHolds(f, joining[r].len)
        BY <2>3 DEF FileInv, BackfillWhole, Backfill
      <3> QED BY <1>1, <3>1, <3>2, <3>3 DEF FileHolds
    <2>4. CASE ~(n = NodeOf[r] /\ t = TopicOf[r])
      <3>1. t \in DOMAIN last_sample[n] /\ last_sample'[n][t] = last_sample[n][t]
        BY <2>2, <2>4 DEF TypeInv, Insert
      <3>2. FileHolds(f, last_sample[n][t].payload)
        BY <3>1 DEF FileInv, LastWhole
      <3> QED BY <1>1, <3>1, <3>2 DEF FileHolds
    <2> QED BY <2>3, <2>4
  <1>4. /\ Flushing(n, f)' = Flushing(n, f)
        /\ \A w \in Flushing(n, f) : call'[w] = call[w] /\ pos'[w] = pos[w]
        /\ Loading(n, f)' = Loading(n, f) /\ \A q \in Loading(n, f) : joining'[q] = joining[q]
    BY <1>0, <1>2, CallsAfterRead, StillFlushing, StillLoading
  <1>5. UNCHANGED disk
    BY <1>0, CallsAfterRead
  <1>6. OneFlush(n, f)'
    BY <1>4 DEF FileInv, OneFlush
  <1>7. FlushAt(n, f)'
    BY <1>4, <1>5 DEF FileInv, FlushAt
  <1>8. LoadAt(n, f)'
    BY <1>4, <1>5 DEF FileInv, LoadAt
  <1>9. FileWhole(n, f)' /\ BackfillWhole(n, f)'
    BY <1>0, <1>1, <1>2, CallsAfterRead, StillWhole, StillBackfill DEF FileInv
  <1> QED BY <1>3, <1>6, <1>7, <1>8, <1>9 DEF FileInv

LEMMA FileRead ==
    ASSUME TypeInv, NEW r \in Readers, ReadStep(r), NEW n \in Nodes, NEW f,
           FileInv(n, f), <<n, f>> \notin spoiled'
    PROVE  FileInv(n, f)'
  <1>1. CASE Register(r)
    <2>1. /\ UNCHANGED last_sample /\ joining[r].at = "no"
          /\ \E pc \in {"recall", "no"} : JoinStep(r, pc)
      BY <1>1 DEF Register
    <2>2. /\ \A q \in Readers \ {r} : joining'[q] = joining[q]
          /\ joining[r].at \notin InFile /\ joining'[r].at \notin InFile \cup {"backfill"}
      BY <2>1 DEF JoinStep, InFile, TypeInv
    <2> QED BY <2>1, <2>2, FileMoved
  <1>2. CASE Recall(r)
    BY <1>2, FileRecall
  <1>3. CASE LoadLength(r) \/ LoadPayload(r)
    BY <1>3, FileLoad
  <1>4. CASE Backfill(r)
    BY <1>4, FileBackfill
  <1>5. CASE remove_reader(r)
    <2>1. UNCHANGED <<last_sample, joining>>
      BY <1>5 DEF remove_reader
    <2> QED BY <2>1, FileMoved
  <1> QED BY <1>1, <1>2, <1>3, <1>4, <1>5 DEF ReadStep

LEMMA FileRestart ==
    ASSUME TypeInv, NEW m \in Nodes, Restart(m), NEW n \in Nodes, NEW f, FileInv(n, f)
    PROVE  FileInv(n, f)'
  <1>0. /\ call' = [w \in Writers |-> IF NodeOf[w] = m THEN [at |-> "idle", payload |-> <<>>] ELSE call[w]]
        /\ last_sample' = [last_sample EXCEPT ![m] = Nothing]
        /\ joining' = [r \in Readers |-> IF NodeOf[r] = m THEN [at |-> "no", len |-> 0] ELSE joining[r]]
        /\ UNCHANGED <<written, disk, pos>>
    BY DEF Restart, DiskVars
  <1>1. DiskStill(n, f) /\ written \subseteq written'
    BY <1>0 DEF DiskStill
  <1>2. CASE n # m
    <2>1. CallsStill(n, f)
      BY <1>0, <1>2 DEF CallsStill
    <2>2. JoinsStill(n, f)
      BY <1>0, <1>2 DEF JoinsStill
    <2>3. LastStill(n, f)
      <3>1. last_sample'[n] = last_sample[n]
        BY <1>0, <1>2 DEF TypeInv
      <3> QED BY <3>1 DEF LastStill
    <2> QED BY <1>1, <2>1, <2>2, <2>3, StillFile
  <1>3. CASE n = m
    <2>1. Flushing(n, f)' = {}
      BY <1>0, <1>3 DEF Flushing
    <2>2. Loading(n, f)' = {}
      BY <1>0, <1>3 DEF Loading
    <2>3. OneFlush(n, f)' /\ FlushAt(n, f)' /\ LoadAt(n, f)'
      BY <2>1, <2>2 DEF OneFlush, FlushAt, LoadAt
    <2>4. FileWhole(n, f)'
      BY <1>1, StillWhole DEF FileInv
    <2>5. BackfillWhole(n, f)'
      BY <1>0, <1>3 DEF BackfillWhole
    <2>6. LastWhole(n, f)'
      <3>1. last_sample'[n] = <<>>
        BY <1>0, <1>3 DEF TypeInv, Nothing
      <3>2. DOMAIN <<>> = {}
        OBVIOUS
      <3>3. DOMAIN last_sample'[n] = {}
        BY <3>1, <3>2, Zenon
      <3> QED BY <3>3 DEF LastWhole
    <2> QED BY <2>3, <2>4, <2>5, <2>6 DEF FileInv
  <1> QED BY <1>2, <1>3

LEMMA FileClaim ==
    ASSUME TypeInv, NEW w \in Writers, NEW p \in Payloads[w], WriteClaim(w, p), NEW n, NEW f, FileInv(n, f)
    PROVE  FileInv(n, f)'
  <1>0. /\ call' = [call EXCEPT ![w] = [at |-> "remember", payload |-> p]] /\ call[w].at = "idle"
        /\ UNCHANGED <<last_sample, disk, pos, joining>>
    BY DEF WriteClaim, CallAt, DiskVars, JoinVars
  <1>1. written \subseteq written'
    BY DEF WriteClaim
  <1>2. CallsStill(n, f)
    BY <1>0 DEF CallsStill, InFile, TypeInv
  <1>3. JoinsStill(n, f) /\ DiskStill(n, f) /\ LastStill(n, f)
    BY <1>0 DEF JoinsStill, DiskStill, LastStill
  <1> QED BY <1>1, <1>2, <1>3, StillFile

LEMMA FileRest ==
    ASSUME NEW n, NEW f, FileInv(n, f), UNCHANGED <<call, last_sample, disk, pos, joining, written>>
    PROVE  FileInv(n, f)'
  <1>1. CallsStill(n, f) /\ JoinsStill(n, f) /\ DiskStill(n, f) /\ LastStill(n, f)
    BY DEF CallsStill, JoinsStill, DiskStill, LastStill
  <1>2. written \subseteq written'
    OBVIOUS
  <1> QED BY <1>1, <1>2, StillFile

LEMMA DiskInvNext == TypeInv /\ CallInv /\ DiskInv /\ [Next]_vars => DiskInv'
  <1> SUFFICES ASSUME TypeInv, CallInv, DiskInv, [Next]_vars,
                      NEW n \in Nodes, NEW f \in Files, <<n, f>> \notin spoiled'
               PROVE  FileInv(n, f)'
    BY DEF DiskInv, Files
  <1>0. FileInv(n, f)
    BY HistoryGrows DEF DiskInv
  <1>1. ASSUME NEW w \in Writers, \E p \in Payloads[w] : WriteClaim(w, p) PROVE FileInv(n, f)'
    BY <1>0, <1>1, FileClaim
  <1>2. ASSUME NEW w \in Writers, WriteStep(w) PROVE FileInv(n, f)'
    BY <1>0, <1>2, FileWrite
  <1>3. ASSUME NEW r \in Readers, ReadStep(r) PROVE FileInv(n, f)'
    BY <1>0, <1>3, FileRead
  <1>4. ASSUME NEW m \in Nodes, Restart(m) PROVE FileInv(n, f)'
    BY <1>0, <1>4, FileRestart
  <1>5. CASE UNCHANGED <<call, last_sample, disk, pos, joining, written>>
    BY <1>0, <1>5, FileRest
  <1>6. ASSUME NEW d \in net, RecvData(d) \/ RecvFrag(d)
        PROVE  UNCHANGED <<call, last_sample, disk, pos, joining, written>>
    BY <1>6 DEF RecvData, RecvFrag, WriteVars, DiskVars, JoinVars
  <1>7. Tick \/ UNCHANGED vars => UNCHANGED <<call, last_sample, disk, pos, joining, written>>
    BY DEF Tick, vars, WriteVars, DiskVars, JoinVars
  <1> QED BY <1>1, <1>2, <1>3, <1>4, <1>5, <1>6, <1>7, NextSplit

-----------------------------------------------------------------------------
(* What a late joiner is given from disk                                   *)

\* A sample pushed by a writer or by the network names its writer.
LEMMA Named ==
    ASSUME TypeInv, NEW r, NEW s, FromWriter(r, s) \/ FromData(r, s) \/ FromFrag(r, s)
    PROVE  s.writer_guid # ZeroGuid
  <1>0. ZeroGuid.prefix = <<>>
    BY DEF ZeroGuid
  <1>1. CASE FromWriter(r, s)
    <2>1. PICK w \in Writers : s = Sample(TopicOf[r], call[w].payload, seq[w], GuidOf(w))
      BY <1>1 DEF FromWriter
    <2>2. s.writer_guid.prefix = Prefix(NodeOf[w])
      BY <2>1 DEF Sample, GuidOf
    <2> QED BY <1>0, <2>2, PrefixTuple
  <1>2. CASE FromData(r, s) \/ FromFrag(r, s)
    <2>1. PICK d \in net : \E p, num, e : s = Sample(TopicOf[r], p, num, [prefix |-> d.prefix, entity |-> e])
      BY <1>2, Zenon DEF FromData, FromFrag
    <2>2. s.writer_guid.prefix = d.prefix
      BY <2>1 DEF Sample
    <2>3. d.prefix # <<>>
      BY DEF TypeInv
    <2> QED BY <1>0, <2>2, <2>3
  <1> QED BY <1>1, <1>2

LoadInv == TypeInv /\ CallInv /\ DiskInv /\ LoadedWhole

LEMMA LoadInvNext == LoadInv /\ [Next]_vars => LoadInv'
  <1> SUFFICES ASSUME LoadInv, [Next]_vars PROVE LoadInv'
    OBVIOUS
  <1> USE DEF LoadInv
  <1>1. TypeInv' /\ CallInv' /\ DiskInv'
    BY TypeNext, CallInvNext, DiskInvNext
  <1>2. written \subseteq written' /\ spoiled \subseteq spoiled'
    BY HistoryGrows
  <1>3. LoadedWhole'
    <2> SUFFICES ASSUME NEW r \in Readers, NEW s \in ToSet(queue'[r]), s.writer_guid = ZeroGuid,
                        <<NodeOf[r], persist_path(TopicOf[r])>> \notin spoiled'
                 PROVE  \E x \in written' :
                            persist_path(x.topic) = persist_path(TopicOf[r]) /\ x.payload = s.payload
      BY DEF LoadedWhole, ToSet
    <2>1. PICK n \in Nodes, f \in Files : n = NodeOf[r] /\ f = persist_path(TopicOf[r])
      BY NodesOf DEF Files
    <2>2. FileInv(n, f)
      BY <1>2, <2>1 DEF DiskInv
    <2>3. s \in ToSet(queue[r]) \/ Pushed(r, s)
      BY QueueNext DEF QueuesGrow
    <2>4. CASE s \in ToSet(queue[r])
      <3>1. PICK i \in DOMAIN queue[r] : s = queue[r][i]
        BY <2>4 DEF ToSet
      <3>2. <<NodeOf[r], persist_path(TopicOf[r])>> \notin spoiled
        BY <1>2
      <3>3. \E x \in written : persist_path(x.topic) = persist_path(TopicOf[r]) /\ x.payload = queue[r][i].payload
        BY <3>1, <3>2 DEF LoadedWhole
      <3> QED BY <1>2, <3>1, <3>3
    <2>5. CASE FromMemory(r, s)
      <3>1. FileHolds(f, s.payload)
        BY <2>1, <2>2, <2>5 DEF FromMemory, FileInv, LastWhole
      <3> QED BY <1>2, <2>1, <3>1 DEF FileHolds
    <2>6. CASE FromDisk(r, s)
      <3>1. FileHolds(f, joining[r].len) /\ s.payload = joining[r].len
        BY <2>1, <2>2, <2>6 DEF FromDisk, FileInv, BackfillWhole, Sample
      <3> QED BY <1>2, <2>1, <3>1 DEF FileHolds
    <2> QED BY <2>3, <2>4, <2>5, <2>6, Named DEF Pushed
  <1> QED BY <1>1, <1>3

LEMMA LoadInvInit == Init => LoadInv
  <1> SUFFICES ASSUME Init PROVE LoadInv
    OBVIOUS
  <1>1. TypeInv
    BY TypeInit
  <1>2. CallInv
    BY DEF Init, CallInv
  <1>3. DOMAIN <<>> = {}
    OBVIOUS
  <1>4. DiskInv
    <2> SUFFICES ASSUME NEW n \in Nodes, NEW f \in Files PROVE FileInv(n, f)
      BY DEF DiskInv
    <2>1. Flushing(n, f) = {} /\ Loading(n, f) = {}
      BY DEF Init, Flushing, Loading
    <2>2. DOMAIN disk[n] = {} /\ DOMAIN last_sample[n] = {}
      <3>1. disk[n] = <<>> /\ last_sample[n] = <<>>
        BY DEF Init, Nothing
      <3> QED BY <1>3, <3>1, Zenon
    <2>3. OneFlush(n, f) /\ FlushAt(n, f) /\ LoadAt(n, f)
      BY <2>1 DEF OneFlush, FlushAt, LoadAt
    <2>4. FileWhole(n, f) /\ LastWhole(n, f)
      BY <2>2 DEF FileWhole, LastWhole
    <2>5. BackfillWhole(n, f)
      BY DEF Init, BackfillWhole
    <2> QED BY <2>3, <2>4, <2>5 DEF FileInv
  <1>5. LoadedWhole
    <2>1. \A r \in Readers : DOMAIN queue[r] = {}
      <3> SUFFICES ASSUME NEW r \in Readers PROVE DOMAIN queue[r] = {}
        OBVIOUS
      <3>1. queue[r] = <<>>
        BY DEF Init
      <3> QED BY <1>3, <3>1, Zenon
    <2> QED BY <2>1 DEF LoadedWhole
  <1> QED BY <1>1, <1>2, <1>4, <1>5 DEF LoadInv

\* Wherever a process dies in persist_flush, a late joiner is given from disk only a
\* whole sample that was written to that file, as long as no flush of it overlaps
\* another one or the load and none puts octets of a payload behind a length that
\* it could not write (persist_flush, persist_load): for any topics, payloads,
\* writers and readers and any octets that its writes leave out.
THEOREM LoadsOnlyWhole == Spec => []LoadedWhole
  <1>1. Init => LoadInv
    BY LoadInvInit
  <1>2. LoadInv /\ [Next]_vars => LoadInv'
    BY LoadInvNext
  <1>3. LoadInv => LoadedWhole
    BY DEF LoadInv
  <1> QED BY <1>1, <1>2, <1>3, PTL DEF Spec

-----------------------------------------------------------------------------
(* Wrapped payloads and sequence numbers                                   *)

LEMMA Quotient ==
    ASSUME NEW a \in Nat, NEW d \in Nat \ {0}
    PROVE  a \div d \in Nat /\ d * (a \div d) <= a /\ a < d * (a \div d) + d
  <1>1. a \div d \in Int /\ a % d \in Int /\ a = d * (a \div d) + (a % d) /\ 0 <= a % d /\ a % d < d
    OBVIOUS
  <1>2. a \div d >= 0
    OBVIOUS
  <1> QED BY <1>1, <1>2

LEMMA Small ==
    ASSUME NEW a \in Nat, NEW d \in Nat \ {0}, a < d PROVE a % d = a /\ a \div d = 0
  OBVIOUS

LEMMA NumberComesBack ==
    ASSUME NEW n \in Nat, n < U32
    PROVE  from_u64(n) = [high |-> 0, low |-> n] /\ to_u64(from_u64(n)) = n
  <1>1. U32 \in Nat \ {0}
    BY BaseFacts
  <1>2. n % U32 = n /\ n \div U32 = 0
    BY <1>1, Small
  <1>3. from_u64(n) = [high |-> 0, low |-> n]
    BY <1>2 DEF from_u64
  <1>4. 0 % U32 = 0 /\ 0 * U32 + n = n
    <2>1. 0 % U32 = 0
      BY <1>1, Small
    <2> QED BY <1>1, <2>1
  <1>5. to_u64([high |-> 0, low |-> n]) = n
    BY <1>4 DEF to_u64
  <1> QED BY <1>3, <1>5

LEMMA Concat ==
    ASSUME NEW S, NEW a \in Seq(S), NEW b \in Seq(S), NEW c, c = a \o b
    PROVE  /\ c \in Seq(S) /\ Len(c) = Len(a) + Len(b)
           /\ \A i \in 1..Len(a) : c[i] = a[i]
           /\ \A i \in 1..Len(b) : c[Len(a) + i] = b[i]
  OBVIOUS

LEMMA PairSeq == ASSUME NEW S, NEW x \in S PROVE <<x, x>> \in Seq(S) /\ Len(<<x, x>>) = 2
  OBVIOUS

LEMMA Wrapping ==
    ASSUME NEW p \in Seq(OctetSet), NEW m, m = wrap_payload(p)
    PROVE  m \in Seq(OctetSet) /\ Len(m) = 4 + Len(p) /\ unwrap_payload(m) = <<p>>
  <1>0. 0 \in OctetSet /\ 1 \in OctetSet
    BY BaseNat DEF OctetSet
  <1>1. PICK S : S = OctetSet /\ 0 \in S /\ 1 \in S /\ p \in Seq(S)
    BY <1>0
  <1>2. PICK a : a = LE(1, 2) /\ a = [i \in 1..2 |-> IF i = 1 THEN 1 ELSE 0]
    <2>1. 1 % Base = 1 /\ 1 \div Base = 0 /\ 0 % Base = 0
      <3>1. Base \in Nat \ {0} /\ 0 < Base /\ 1 < Base
        BY BaseNat
      <3> QED BY <3>1, Small
    <2>2. LE(1, 2) = [i \in 1..2 |-> IF i = 1 THEN 1 % Base ELSE (1 \div Base) % Base]
      BY TwoOctets
    <2> QED BY <2>1, <2>2
  <1>3. a \in Seq(S) /\ Len(a) = 2 /\ <<0, 0>> \in Seq(S) /\ Len(<<0, 0>>) = 2
    <2>1. a \in [1..2 -> S] /\ 2 \in Nat
      BY <1>1, <1>2
    <2>2. a \in Seq(S) /\ Len(a) = 2
      BY <2>1, IsSeqOf
    <2> QED BY <1>1, <2>2, PairSeq
  <1>4. PICK e \in Seq(S) : e = Encapsulation(CDR_LE) /\ Len(e) = 4 /\ e[1] = 1 /\ e[2] = 0
    <2>0. PICK z \in Seq(S) : z = <<0, 0>> /\ Len(z) = 2
      BY <1>3
    <2>1. PICK e : e = a \o z
      OBVIOUS
    <2>2. e \in Seq(S) /\ Len(e) = 4 /\ e[1] = a[1] /\ e[2] = a[2]
      <3>0. a \in Seq(S)
        BY <1>3
      <3>1. /\ e \in Seq(S) /\ Len(e) = Len(a) + Len(z)
            /\ \A i \in 1..Len(a) : e[i] = a[i]
        BY <2>1, <3>0, Concat
      <3>2. Len(a) = 2
        BY <1>3
      <3>3. Len(e) = 4
        BY <2>0, <3>1, <3>2
      <3>4. 1 \in 1..Len(a) /\ 2 \in 1..Len(a)
        BY <3>2
      <3>5. e[1] = a[1] /\ e[2] = a[2]
        BY <3>1, <3>4, Zenon
      <3> QED BY <3>1, <3>3, <3>5
    <2>3. a[1] = 1 /\ a[2] = 0
      BY <1>2
    <2>4. e = Encapsulation(CDR_LE)
      BY <1>2, <2>0, <2>1 DEF Encapsulation, CDR_LE
    <2> QED BY <2>2, <2>3, <2>4
  <1>5. m = e \o p
    BY <1>4 DEF wrap_payload
  <1>6. /\ m \in Seq(S) /\ Len(m) = 4 + Len(p)
        /\ \A i \in 1..4 : m[i] = e[i]
        /\ \A i \in 1..Len(p) : m[4 + i] = p[i]
    <2>1. /\ m \in Seq(S) /\ Len(m) = Len(e) + Len(p)
          /\ \A i \in 1..Len(e) : m[i] = e[i]
          /\ \A i \in 1..Len(p) : m[Len(e) + i] = p[i]
      BY <1>1, <1>5, Concat
    <2> QED BY <1>4, <2>1, Zenon
  <1>7. PICK b : b = Slice(m, 0, 2) /\ b = [i \in 1..2 |-> m[i]] /\ m[1] = 1 /\ m[2] = 0
    <2>1. SubSeq(m, 1, 2) = [i \in 1..2 |-> m[i]]
      BY <1>6
    <2>2. m[1] = 1 /\ m[2] = 0
      BY <1>4, <1>6
    <2>3. Slice(m, 0, 2) = SubSeq(m, 1, 2)
      BY DEF Slice
    <2> QED BY <2>1, <2>2, <2>3
  <1>8. UnLE(b) = CDR_LE
    <2>1. b \in [1..2 -> Nat] /\ 2 \in Nat
      BY <1>7
    <2>2. b \in Seq(Nat)
      BY <2>1, IsSeqOf, Zenon
    <2>3. Len(b) = 2
      BY <2>1, IsSeqOf
    <2>4. UnLE(b) = b[1] + Base * b[2]
      BY <2>2, <2>3, TwoValue
    <2>5. b[1] = 1 /\ b[2] = 0
      BY <1>7
    <2> QED BY <2>4, <2>5, BaseNat DEF CDR_LE
  <1>9. From(m, 4) = p
    <2>1. PICK k \in Nat : k = Len(p)
      OBVIOUS
    <2>2. From(m, 4) = SubSeq(m, 5, 4 + k)
      BY <1>6, <2>1 DEF From
    <2>3. SubSeq(m, 5, 4 + k) = [i \in 1..k |-> m[i + 4]]
      BY <1>6, <2>1
    <2>4. \A i \in 1..k : m[i + 4] = p[i]
      BY <1>6, <2>1
    <2>5. p = [i \in 1..k |-> p[i]]
      BY <2>1
    <2> QED BY <2>2, <2>3, <2>4, <2>5
  <1>10. ~(Len(m) < 4)
    BY <1>6
  <1>11. unwrap_payload(m) = <<p>>
    BY <1>7, <1>8, <1>9, <1>10 DEF unwrap_payload
  <1> QED BY <1>1, <1>6, <1>11

-----------------------------------------------------------------------------
(* Fragments of a message                                                  *)

LEMMA FragmentSize ==
    /\ MaxFragmentPayload \in Nat \ {0}
    /\ MaxReassemblyBytes \in Nat /\ MaxReassemblyBytes < U32 /\ U32 \in Nat \ {0}
  <1>1. U16 \in Nat /\ U32 \in Nat /\ U16 >= 4096 /\ U32 >= U16
    BY BaseFacts
  <1> QED BY <1>1, FragmentAssumption

\* The number of fragments of L octets, where each begins, and that every octet is in one.
LEMMA Fragments ==
    ASSUME NEW L \in Nat, NEW F \in Nat \ {0}, NEW q, q = CeilDiv(L, F)
    PROVE  /\ q \in Nat
           /\ \A j \in 1..q : /\ (j - 1) * F \in Nat /\ (j - 1) * F < L /\ j - 1 <= (j - 1) * F
                              /\ j * F = (j - 1) * F + F
           /\ \A o \in 1..L : \E i \in 0..(q - 1) : i * F < o /\ o <= (i + 1) * F
  <1>1. PICK a \in Nat : a = L + F - 1
    OBVIOUS
  <1>2. q = a \div F
    BY <1>1 DEF CeilDiv
  <1>3. q \in Nat /\ F * q <= a /\ a < F * q + F
    BY <1>2, Quotient
  <1>4. ASSUME NEW j \in 1..q
        PROVE  /\ (j - 1) * F \in Nat /\ (j - 1) * F < L /\ j - 1 <= (j - 1) * F
               /\ j * F = (j - 1) * F + F
    <2>1. PICK i \in Nat : j = i + 1 /\ i < q
      BY <1>3, <1>4
    <2>2. i * F \in Nat /\ i <= i * F
      OBVIOUS
    <2>3. F * (i + 1) <= F * q
      BY <1>3, <2>1
    <2>4. (i + 1) * F = i * F + F /\ F * (i + 1) = i * F + F
      OBVIOUS
    <2>5. i * F < L
      BY <1>1, <1>3, <2>2, <2>3, <2>4
    <2> QED BY <2>1, <2>2, <2>4, <2>5
  <1>5. ASSUME NEW o \in 1..L PROVE \E i \in 0..(q - 1) : i * F < o /\ o <= (i + 1) * F
    <2>1. PICK i \in Nat : i = (o - 1) \div F /\ F * i <= o - 1 /\ o - 1 < F * i + F
      <3>1. o - 1 \in Nat
        BY <1>5
      <3> QED BY <3>1, Quotient
    <2>2. i * F = F * i /\ (i + 1) * F = F * i + F
      OBVIOUS
    <2>3. F * i < F * q
      BY <1>1, <1>3, <2>1
    <2>4. i < q
      BY <1>3, <2>3
    <2> QED BY <1>3, <2>1, <2>2, <2>4
  <1> QED BY <1>3, <1>4, <1>5

\* The fragment that starts after octet a of the message.
IsPiece(f, m, a) ==
    /\ f.fragments_in_submsg = 1 /\ f.fragment_size = MaxFragmentPayload /\ f.data_size = Len(m)
    /\ f.payload \in Seq(OctetSet) /\ Len(f.payload) <= MaxFragmentPayload
    /\ a \in Nat /\ a < Len(m) /\ a + Len(f.payload) <= Len(m)
    /\ Len(f.payload) = MaxFragmentPayload \/ a + Len(f.payload) = Len(m)
    /\ \A i \in 1..Len(f.payload) : f.payload[i] = m[a + i]

LEMMA SplitPiece ==
    ASSUME NEW S, S = OctetSet, NEW m \in Seq(S), NEW e, NEW sn, NEW q, q = CeilDiv(Len(m), MaxFragmentPayload),
           NEW j \in 1..q, NEW f, f = split_into_fragments(e, sn, m)[j]
    PROVE  /\ IsPiece(f, m, (j - 1) * MaxFragmentPayload)
           /\ f.fragment_starting_num = j /\ f.writer_entity_id = e /\ f.writer_seq_num = sn
  <1>1. PICK F \in Nat \ {0} : F = MaxFragmentPayload
    BY FragmentSize
  <1>2. PICK L \in Nat : L = Len(m)
    OBVIOUS
  <1>3. PICK a \in Nat : a = (j - 1) * F /\ a < L /\ j * F = a + F
    BY <1>1, <1>2, Fragments
  <1>4. PICK k \in Nat : k = (IF j * F > L THEN L - a ELSE F) /\ k <= F /\ a + k <= L /\ (k = F \/ a + k = L)
    <2>1. CASE j * F > L
      <3>1. L - a \in Nat /\ L - a <= F /\ a + (L - a) <= L /\ a + (L - a) = L
        BY <1>3, <2>1
      <3> QED BY <2>1, <3>1
    <2>2. CASE ~(j * F > L)
      <3>1. F <= F /\ a + F <= L
        BY <1>3, <2>2
      <3> QED BY <2>2, <3>1
    <2> QED BY <2>1, <2>2
  <1>5. f = [writer_entity_id |-> e, reader_entity_id |-> ENTITYID_UNKNOWN,
             writer_seq_num |-> sn, fragment_starting_num |-> j, fragments_in_submsg |-> 1,
             fragment_size |-> F, data_size |-> L, payload |-> Slice(m, a, k)]
    BY <1>1, <1>2, <1>3, <1>4 DEF split_into_fragments
  <1>6. PICK p : p = Slice(m, a, k) /\ p \in Seq(S) /\ Len(p) = k /\ \A i \in 1..k : p[i] = m[a + i]
    <2>1. Slice(m, a, k) = SubSeq(m, a + 1, a + k)
      BY DEF Slice
    <2>2. PICK p : p = SubSeq(m, a + 1, a + k)
      OBVIOUS
    <2>3. p = [i \in 1..k |-> m[a + i]]
      BY <1>2, <1>4, <2>2
    <2>4. \A i \in 1..k : m[a + i] \in S
      BY <1>2, <1>4
    <2>5. p \in [1..k -> S]
      BY <2>3, <2>4
    <2>6. p \in Seq(S) /\ Len(p) = k
      BY <2>5, IsSeqOf
    <2> QED BY <2>1, <2>2, <2>3, <2>6
  <1>7. /\ f.writer_entity_id = e /\ f.writer_seq_num = sn /\ f.fragment_starting_num = j
        /\ f.fragments_in_submsg = 1 /\ f.fragment_size = F /\ f.data_size = L /\ f.payload = p
    BY <1>5, <1>6
  <1> QED BY <1>1, <1>2, <1>3, <1>4, <1>6, <1>7 DEF IsPiece

\* What the assembler makes of the numbers of a fragment that it accepts.
LEMMA PiecePlace ==
    ASSUME NEW f, NEW m, Len(m) \in Nat, NEW q, q = CeilDiv(Len(m), MaxFragmentPayload), NEW j \in 1..q,
           IsPiece(f, m, (j - 1) * MaxFragmentPayload), f.fragment_starting_num = j,
           Len(m) <= MaxReassemblyBytes
    PROVE  /\ FragIndex(f, 0) = j - 1 /\ Offset(f, 0) = (j - 1) * MaxFragmentPayload
           /\ Chunk(f, 0) = f.payload
  <1>1. PICK F \in Nat \ {0} : F = MaxFragmentPayload
    BY FragmentSize
  <1>2. PICK L \in Nat : L = Len(m) /\ L < U32
    BY FragmentSize
  <1>3. PICK i \in Nat, a \in Nat : i = j - 1 /\ a = i * F /\ a < L /\ i <= a
    <2>1. q \in Nat
      BY <1>1, <1>2, Fragments
    <2>2. j - 1 \in Nat
      BY <2>1
    <2>3. (j - 1) * F \in Nat /\ (j - 1) * F < L /\ j - 1 <= (j - 1) * F
      BY <1>1, <1>2, Fragments
    <2> QED BY <2>2, <2>3
  <1>4. FragIndex(f, 0) = i
    <2>1. i % U32 = i
      <3>1. i < U32 /\ U32 \in Nat \ {0}
        BY <1>2, <1>3, FragmentSize
      <3> QED BY <3>1, Small
    <2>2. f.fragment_starting_num - 1 + 0 = i
      BY <1>3
    <2> QED BY <2>1, <2>2 DEF FragIndex
  <1>5. Offset(f, 0) = a
    <2>1. a % U32 = a
      <3>1. a < U32 /\ U32 \in Nat \ {0}
        BY <1>2, <1>3, FragmentSize
      <3> QED BY <3>1, Small
    <2>2. FragIndex(f, 0) * f.fragment_size = a
      BY <1>1, <1>3, <1>4 DEF IsPiece
    <2> QED BY <2>1, <2>2 DEF Offset
  <1>6. Chunk(f, 0) = f.payload
    <2>1. PICK p : p = f.payload /\ Len(p) \in Nat /\ p = SubSeq(p, 1, Len(p)) /\ Len(p) <= F
      <3>1. f.payload \in Seq(OctetSet)
        BY DEF IsPiece
      <3>2. PICK S : f.payload \in Seq(S)
        BY <3>1
      <3>3. PICK p \in Seq(S) : p = f.payload
        BY <3>2
      <3>4. p = SubSeq(p, 1, Len(p)) /\ Len(p) \in Nat
        OBVIOUS
      <3>5. Len(p) <= F
        BY <1>1, <3>3 DEF IsPiece
      <3> QED BY <3>3, <3>4, <3>5
    <2>2. f.fragment_size = F
      BY <1>1 DEF IsPiece
    <2>3. Chunk(f, 0) = SubSeq(p, 0 * F + 1, IF (0 + 1) * F < Len(p) THEN (0 + 1) * F ELSE Len(p))
      BY <2>1, <2>2 DEF Chunk
    <2>4. 0 * F + 1 = 1 /\ (0 + 1) * F = F /\ ~(F < Len(p))
      BY <2>1
    <2> QED BY <2>1, <2>3, <2>4
  <1> QED BY <1>1, <1>3, <1>4, <1>5, <1>6

-----------------------------------------------------------------------------
(* The assembler                                                           *)

\* The buffer b is one for the message m, and the octets of the fragments it has
\* received are those of m.
Holds(b, m) ==
    /\ DOMAIN b = {"data", "received_indices", "total", "created"}
    /\ b.data \in [1..Len(m) -> OctetSet]
    /\ b.total = CeilDiv(Len(m), MaxFragmentPayload)
    /\ b.received_indices \subseteq 0..(b.total - 1)
    /\ \A i \in b.received_indices : \A o \in 1..Len(m) :
          i * MaxFragmentPayload < o /\ o <= (i + 1) * MaxFragmentPayload => b.data[o] = m[o]

\* The fragment j of the message m, which is not too long.
IsFragment(f, m, j) ==
    /\ Len(m) \in Nat /\ Len(m) <= MaxReassemblyBytes /\ m \in [1..Len(m) -> OctetSet]
    /\ j \in 1..CeilDiv(Len(m), MaxFragmentPayload)
    /\ IsPiece(f, m, (j - 1) * MaxFragmentPayload) /\ f.fragment_starting_num = j

LEMMA NewHolds ==
    ASSUME NEW f, NEW m, NEW j, IsFragment(f, m, j), NEW t PROVE Holds(NewBuffer(f, t), m)
  <1>1. f.data_size = Len(m) /\ f.fragment_size = MaxFragmentPayload
    BY DEF IsFragment, IsPiece
  <1>2. 0 \in OctetSet
    BY BaseNat DEF OctetSet
  <1>3. PICK b : b = NewBuffer(f, t)
    OBVIOUS
  <1>4. /\ DOMAIN b = {"data", "received_indices", "total", "created"}
        /\ b.data = [i \in 1..Len(m) |-> 0] /\ b.received_indices = {}
        /\ b.total = CeilDiv(Len(m), MaxFragmentPayload)
    BY <1>1, <1>3 DEF NewBuffer, Zeros
  <1>5. b.data \in [1..Len(m) -> OctetSet]
    BY <1>2, <1>4
  <1> QED BY <1>3, <1>4, <1>5 DEF Holds

\* At most the one fragment of the submessage is taken.
LEMMA TakesIt ==
    ASSUME NEW f, NEW m, NEW j, IsFragment(f, m, j), NEW b
    PROVE  Taken(b, f) = IF j - 1 \in b.received_indices THEN {} ELSE {0}
  <1>1. /\ f.fragments_in_submsg - 1 = 0 /\ f.data_size = Len(m)
        /\ FragIndex(f, 0) = j - 1 /\ Offset(f, 0) = (j - 1) * MaxFragmentPayload
        /\ (j - 1) * MaxFragmentPayload < Len(m)
    <2>1. FragIndex(f, 0) = j - 1 /\ Offset(f, 0) = (j - 1) * MaxFragmentPayload
      BY PiecePlace DEF IsFragment
    <2>2. f.fragments_in_submsg = 1 /\ f.data_size = Len(m) /\ (j - 1) * MaxFragmentPayload < Len(m)
      BY DEF IsFragment, IsPiece
    <2> QED BY <2>1, <2>2
  <1>2. 0..0 = {0}
    OBVIOUS
  <1>3. 0 * f.fragment_size <= Len(f.payload)
    <2>1. f.fragment_size \in Nat /\ Len(f.payload) \in Nat
      <3>1. f.payload \in Seq(OctetSet) /\ f.fragment_size = MaxFragmentPayload
        BY DEF IsFragment, IsPiece
      <3>2. PICK S : f.payload \in Seq(S)
        BY <3>1
      <3> QED BY <3>1, <3>2, FragmentSize
    <2> QED BY <2>1
  <1>4. \A i \in {0} : (\A l \in 0..i : Offset(f, l) < f.data_size) <=> TRUE
    BY <1>1, <1>2
  <1>5. Taken(b, f) = {i \in {0} : FragIndex(f, i) \notin b.received_indices}
    <2>1. Taken(b, f) = {i \in {0} :
            /\ \A l \in 0..i : Offset(f, l) < f.data_size
            /\ FragIndex(f, i) \notin b.received_indices
            /\ i * f.fragment_size <= Len(f.payload)}
      BY <1>1, <1>2, Zenon DEF Taken
    <2> QED BY <1>3, <1>4, <2>1
  <1> QED BY <1>1, <1>5

LEMMA NoPanic ==
    ASSUME NEW f, NEW m, NEW j, IsFragment(f, m, j), NEW b, Holds(b, m) PROVE ~Panics(b, f)
  <1>1. Len(b.data) = Len(m)
    <2>1. PICK S, d : S = OctetSet /\ d = b.data
      OBVIOUS
    <2>2. d \in [1..Len(m) -> S] /\ Len(m) \in Nat
      BY <2>1 DEF Holds, IsFragment
    <2> QED BY <2>1, <2>2, IsSeqOf
  <1>2. /\ Offset(f, 0) = (j - 1) * MaxFragmentPayload /\ Chunk(f, 0) = f.payload
        /\ (j - 1) * MaxFragmentPayload + Len(f.payload) <= Len(m) /\ f.data_size = Len(m)
    BY PiecePlace DEF IsFragment, IsPiece
  <1>3. Taken(b, f) \subseteq {0}
    BY TakesIt
  <1>4. PICK a \in Nat, k \in Nat : a = (j - 1) * MaxFragmentPayload /\ k = Len(f.payload) /\ a + k <= Len(m)
    <2>1. f.payload \in Seq(OctetSet) /\ (j - 1) * MaxFragmentPayload \in Nat
      BY DEF IsFragment, IsPiece
    <2>2. PICK S : f.payload \in Seq(S)
      BY <2>1
    <2> QED BY <1>2, <2>1, <2>2
  <1>5. ~(a + k > Len(m))
    BY <1>4 DEF IsFragment
  <1>6. ~(Offset(f, 0) + Len(Chunk(f, 0)) > IF Len(b.data) < f.data_size THEN Len(b.data) ELSE f.data_size)
    BY <1>1, <1>2, <1>4, <1>5
  <1> QED BY <1>3, <1>6 DEF Panics

LEMMA FilledParts ==
    ASSUME NEW f, NEW m, NEW b, Holds(b, m), NEW g, g = Filled(b, f)
    PROVE  /\ DOMAIN g = {"data", "received_indices", "total", "created"}
           /\ g.data = [o \in 1..Len(m) |-> OctetAt(b, f, o)]
           /\ g.received_indices = b.received_indices \cup {FragIndex(f, i) : i \in Taken(b, f)}
           /\ g.total = b.total
  BY DEF Holds, Filled

\* Where the octets come from: the fragment, if it is new, has those after a.
LEMMA OctetFrom ==
    ASSUME NEW f, NEW m, NEW j, IsFragment(f, m, j), NEW b, Holds(b, m), NEW o \in 1..Len(m)
    PROVE  LET a == (j - 1) * MaxFragmentPayload IN
           IF j - 1 \notin b.received_indices /\ a < o /\ o <= a + Len(f.payload)
           THEN OctetAt(b, f, o) = m[o] ELSE OctetAt(b, f, o) = b.data[o]
  <1>1. PICK a : a = (j - 1) * MaxFragmentPayload
    OBVIOUS
  <1>2. a \in Nat /\ Offset(f, 0) = a /\ Chunk(f, 0) = f.payload
    <2>1. Offset(f, 0) = a /\ Chunk(f, 0) = f.payload
      BY <1>1, PiecePlace DEF IsFragment
    <2> QED BY <1>1, <2>1 DEF IsFragment, IsPiece
  <1>3. PICK at : at = {i \in Taken(b, f) : Offset(f, i) < o /\ o <= Offset(f, i) + Len(Chunk(f, i))}
    OBVIOUS
  <1>4. OctetAt(b, f, o) =
          IF at = {} THEN b.data[o]
          ELSE Chunk(f, CHOOSE i \in at : \A l \in at : l <= i)[o - Offset(f, CHOOSE i \in at : \A l \in at : l <= i)]
    BY <1>3 DEF OctetAt
  <1>5. CASE j - 1 \notin b.received_indices /\ a < o /\ o <= a + Len(f.payload)
    <2>1. at = {0}
      <3>1. Taken(b, f) = {0}
        BY <1>5, TakesIt
      <3> QED BY <1>2, <1>3, <1>5, <3>1
    <2>2. (CHOOSE i \in at : \A l \in at : l <= i) = 0
      BY <2>1
    <2>3. at # {}
      BY <2>1
    <2>4. OctetAt(b, f, o) = f.payload[o - a]
      BY <1>2, <1>4, <2>2, <2>3
    <2>5. PICK k \in Nat : k = Len(f.payload)
      <3>1. f.payload \in Seq(OctetSet)
        BY DEF IsFragment, IsPiece
      <3>2. PICK S : f.payload \in Seq(S)
        BY <3>1
      <3> QED BY <3>2
    <2>6. PICK i \in 1..k : i = o - a
      <3>1. o - a \in 1..k
        BY <1>2, <1>5, <2>5 DEF IsFragment
      <3> QED BY <3>1
    <2>7. f.payload[i] = m[a + i] /\ a + i = o
      <3>1. \A l \in 1..k : f.payload[l] = m[a + l]
        BY <1>1, <2>5 DEF IsFragment, IsPiece
      <3>2. a + i = o
        BY <1>2, <2>6 DEF IsFragment
      <3> QED BY <3>1, <3>2
    <2> QED BY <1>1, <1>5, <2>4, <2>6, <2>7
  <1>6. CASE ~(j - 1 \notin b.received_indices /\ a < o /\ o <= a + Len(f.payload))
    <2>1. at = {}
      <3>1. CASE j - 1 \in b.received_indices
        <4>1. Taken(b, f) = {}
          BY <3>1, TakesIt
        <4> QED BY <1>3, <4>1
      <3>2. CASE j - 1 \notin b.received_indices
        <4>1. Taken(b, f) = {0}
          BY <3>2, TakesIt
        <4> QED BY <1>2, <1>3, <1>6, <3>2, <4>1
      <3> QED BY <3>1, <3>2
    <2>2. OctetAt(b, f, o) = b.data[o]
      BY <1>4, <2>1
    <2> QED BY <1>1, <1>6, <2>2
  <1> QED BY <1>5, <1>6

LEMMA FillHolds ==
    ASSUME NEW f, NEW m, NEW j, IsFragment(f, m, j), NEW b, Holds(b, m), NEW g, g = Filled(b, f)
    PROVE  Holds(g, m)
  <1>0. PICK F \in Nat \ {0}, a \in Nat, q \in Nat :
            /\ F = MaxFragmentPayload /\ a = (j - 1) * F /\ q = CeilDiv(Len(m), F)
            /\ j \in 1..q /\ a + F = (j - 1 + 1) * F
    <2>1. PICK F \in Nat \ {0} : F = MaxFragmentPayload
      BY FragmentSize
    <2>2. PICK q \in Nat : q = CeilDiv(Len(m), F) /\ j \in 1..q
      BY <2>1, Fragments DEF IsFragment
    <2>3. (j - 1) * F \in Nat /\ j * F = (j - 1) * F + F
      BY <2>1, <2>2, Fragments DEF IsFragment
    <2>4. j - 1 + 1 = j
      BY <2>2
    <2> QED BY <2>1, <2>2, <2>3, <2>4
  <1>1. /\ DOMAIN g = {"data", "received_indices", "total", "created"}
        /\ g.data = [o \in 1..Len(m) |-> OctetAt(b, f, o)]
        /\ g.received_indices = b.received_indices \cup {FragIndex(f, i) : i \in Taken(b, f)}
        /\ g.total = b.total /\ b.total = q
    <2>1. /\ DOMAIN g = {"data", "received_indices", "total", "created"}
          /\ g.data = [o \in 1..Len(m) |-> OctetAt(b, f, o)]
          /\ g.received_indices = b.received_indices \cup {FragIndex(f, i) : i \in Taken(b, f)}
          /\ g.total = b.total
      BY FilledParts
    <2>2. b.total = q
      BY <1>0 DEF Holds
    <2> QED BY <2>1, <2>2
  <1>2. g.received_indices = b.received_indices \cup {j - 1}
    <2>1. FragIndex(f, 0) = j - 1
      BY PiecePlace DEF IsFragment
    <2>2. CASE j - 1 \in b.received_indices
      <3>1. Taken(b, f) = {}
        BY <2>2, TakesIt
      <3> QED BY <1>1, <2>2, <3>1
    <2>3. CASE j - 1 \notin b.received_indices
      <3>1. Taken(b, f) = {0}
        BY <2>3, TakesIt
      <3> QED BY <1>1, <2>1, <3>1
    <2> QED BY <2>2, <2>3
  <1>3. g.received_indices \subseteq 0..(g.total - 1)
    <2>1. b.received_indices \subseteq 0..(q - 1)
      BY <1>1 DEF Holds
    <2>2. j - 1 \in 0..(q - 1)
      BY <1>0
    <2> QED BY <1>1, <1>2, <2>1, <2>2
  <1>4. \A o \in 1..Len(m) : OctetAt(b, f, o) \in {m[o], b.data[o]}
    BY OctetFrom
  <1>5. g.data \in [1..Len(m) -> OctetSet]
    <2>1. \A o \in 1..Len(m) : m[o] \in OctetSet /\ b.data[o] \in OctetSet
      BY DEF IsFragment, Holds
    <2>2. \A o \in 1..Len(m) : OctetAt(b, f, o) \in OctetSet
      BY <1>4, <2>1
    <2> QED BY <1>1, <2>2
  <1>6. ASSUME NEW i \in g.received_indices, NEW o \in 1..Len(m), i * F < o, o <= (i + 1) * F
        PROVE  g.data[o] = m[o]
    <2>0. g.data[o] = OctetAt(b, f, o)
      BY <1>1
    <2>1. CASE i \in b.received_indices
      <3>1. b.data[o] = m[o]
        BY <1>0, <1>6, <2>1 DEF Holds
      <3> QED BY <1>4, <2>0, <3>1
    <2>2. CASE i \notin b.received_indices
      <3>1. i = j - 1
        BY <1>2, <2>2
      <3>2. a < o /\ o <= a + F
        BY <1>0, <1>6, <3>1
      <3>3. o <= a + Len(f.payload)
        <4>1. Len(f.payload) = F \/ a + Len(f.payload) = Len(m)
          BY <1>0 DEF IsFragment, IsPiece
        <4>2. o <= Len(m)
          BY DEF IsFragment
        <4> QED BY <3>2, <4>1, <4>2
      <3> QED BY <1>0, <2>0, <2>2, <3>1, <3>2, <3>3, OctetFrom
    <2> QED BY <2>1, <2>2
  <1>7. \A i \in g.received_indices : \A o \in 1..Len(m) :
            i * MaxFragmentPayload < o /\ o <= (i + 1) * MaxFragmentPayload => g.data[o] = m[o]
    BY <1>0, <1>6
  <1>8. g.total = CeilDiv(Len(m), MaxFragmentPayload)
    BY <1>0, <1>1
  <1> QED BY <1>1, <1>3, <1>5, <1>7, <1>8 DEF Holds

\* With all fragments there, the data is the message.
LEMMA FullData ==
    ASSUME NEW m, Len(m) \in Nat, m \in [1..Len(m) -> OctetSet], NEW g, Holds(g, m),
           Cardinality(g.received_indices) >= g.total
    PROVE  g.data = m
  <1>0. PICK F \in Nat \ {0}, q \in Nat : F = MaxFragmentPayload /\ q = CeilDiv(Len(m), F) /\ g.total = q
    <2>1. PICK F \in Nat \ {0} : F = MaxFragmentPayload
      BY FragmentSize
    <2>2. PICK q \in Nat : q = CeilDiv(Len(m), F)
      BY <2>1, Fragments
    <2> QED BY <2>1, <2>2 DEF Holds
  <1>1. PICK R : R = g.received_indices /\ R \subseteq 0..(q - 1) /\ Cardinality(R) >= q
    BY <1>0 DEF Holds
  <1>2. R = 0..(q - 1)
    <2>1. IsFiniteSet(0..(q - 1)) /\ Cardinality(0..(q - 1)) = q
      <3>1. q - 1 \in Int /\ 0 \in Int
        OBVIOUS
      <3>2. IsFiniteSet(0..(q - 1)) /\ Cardinality(0..(q - 1)) = IF 0 > q - 1 THEN 0 ELSE (q - 1) - 0 + 1
        BY <3>1, FS_Interval
      <3> QED BY <3>2
    <2>2. Cardinality(R) \in Nat /\ Cardinality(R) <= q /\ (Cardinality(R) = q => R = 0..(q - 1))
      BY <1>1, <2>1, FS_Subset, FS_CardinalityType
    <2> QED BY <1>1, <2>2
  <1>3. ASSUME NEW o \in 1..Len(m) PROVE g.data[o] = m[o]
    <2>1. PICK i \in 0..(q - 1) : i * F < o /\ o <= (i + 1) * F
      BY <1>0, Fragments
    <2>2. i \in g.received_indices
      BY <1>1, <1>2
    <2> QED BY <1>0, <2>1, <2>2 DEF Holds
  <1>4. g.data \in [1..Len(m) -> OctetSet]
    BY DEF Holds
  <1> QED BY <1>3, <1>4

-----------------------------------------------------------------------------
(* FragmentAssembler::receive                                              *)

\* Only the buffer of the fragment's key can change; the others stay or are given
\* up.
LEMMA ReceiveOthers ==
    ASSUME NEW buffers, NEW f, NEW t, NEW got, got = receive(buffers, f, t),
           NEW k \in DOMAIN got.buffers, k # FragKey(f)
    PROVE  k \in DOMAIN buffers /\ got.buffers[k] = buffers[k]
  <1> DEFINE fresh == Fresh(buffers, t)
             key == FragKey(f)
             buffer == IF key \in DOMAIN fresh THEN fresh[key] ELSE NewBuffer(f, t)
             others == [l \in DOMAIN fresh \ {key} |-> fresh[l]]
  <1>1. \A l \in DOMAIN fresh : l \in DOMAIN buffers /\ fresh[l] = buffers[l]
    BY DEF Fresh
  <1>2. got.buffers \in {buffers, others, Insert(others, key, buffer), Insert(others, key, Filled(buffer, f))}
    BY Zenon DEF receive
  <1> HIDE DEF fresh, buffer
  <1>3. CASE got.buffers = buffers
    BY <1>3
  <1>4. CASE got.buffers = others
    BY <1>1, <1>4
  <1>5. CASE \E b : got.buffers = Insert(others, key, b)
    BY <1>1, <1>5 DEF Insert
  <1> QED BY <1>2, <1>3, <1>4, <1>5

\* A sample that is too large is not put together.
LEMMA ReceiveRefused ==
    ASSUME NEW buffers, NEW f, NEW t, ~Accepts(f)
    PROVE  receive(buffers, f, t) = [buffers |-> buffers, payload |-> <<>>, panic |-> FALSE]
  BY Zenon DEF receive

LEMMA AcceptsIt ==
    ASSUME NEW f, NEW m, NEW j, IsFragment(f, m, j) PROVE Accepts(f)
  <1>1. f.data_size = Len(m) /\ f.fragment_size = MaxFragmentPayload /\ f.fragments_in_submsg = 1
    BY DEF IsFragment, IsPiece
  <1>2. Len(m) # 0
    <2>1. (j - 1) * MaxFragmentPayload \in Nat /\ (j - 1) * MaxFragmentPayload < Len(m)
      BY DEF IsFragment, IsPiece
    <2> QED BY <2>1
  <1>3. Len(m) <= MaxReassemblyBytes
    BY DEF IsFragment
  <1> QED BY <1>1, <1>2, <1>3, FragmentSize DEF Accepts

\* What receive returns for a fragment of m with the key k: m or nothing, and a
\* buffer that is for m.
Assembles(got, k, m) ==
    \E B, P : /\ got = [buffers |-> B, payload |-> P, panic |-> FALSE]
              /\ P = <<>> \/ P = <<m>>
              /\ k \in DOMAIN B => Holds(B[k], m)

\* A fragment of m that meets nothing but fragments of m.
LEMMA ReceiveGood ==
    ASSUME NEW buffers, NEW f, NEW m, NEW j, IsFragment(f, m, j), NEW t,
           FragKey(f) \in DOMAIN buffers => Holds(buffers[FragKey(f)], m)
    PROVE  Assembles(receive(buffers, f, t), FragKey(f), m)
  <1>1. PICK fresh : fresh = Fresh(buffers, t)
    OBVIOUS
  <1>2. PICK b : b = IF FragKey(f) \in DOMAIN fresh THEN fresh[FragKey(f)] ELSE NewBuffer(f, t)
    OBVIOUS
  <1>3. Holds(b, m)
    <2>1. CASE FragKey(f) \in DOMAIN fresh
      <3>1. FragKey(f) \in DOMAIN buffers /\ fresh[FragKey(f)] = buffers[FragKey(f)]
        BY <1>1, <2>1 DEF Fresh
      <3> QED BY <1>2, <2>1, <3>1
    <2>2. CASE FragKey(f) \notin DOMAIN fresh
      BY <1>2, <2>2, NewHolds
    <2> QED BY <2>1, <2>2
  <1>4. PICK g : g = Filled(b, f)
    OBVIOUS
  <1>5. Holds(g, m)
    BY <1>3, <1>4, FillHolds
  <1>6. PICK others : others = [k \in DOMAIN fresh \ {FragKey(f)} |-> fresh[k]]
    OBVIOUS
  <1>7. receive(buffers, f, t) =
              IF Complete(b, f)
              THEN [buffers |-> others, payload |-> <<g.data>>, panic |-> FALSE]
              ELSE [buffers |-> Insert(others, FragKey(f), g), payload |-> <<>>, panic |-> FALSE]
    <2>1. Accepts(f)
      BY AcceptsIt
    <2>2. ~Panics(b, f)
      BY <1>3, NoPanic
    <2> QED BY <1>1, <1>2, <1>4, <1>6, <2>1, <2>2, Zenon DEF receive
  <1>8. CASE Complete(b, f)
    <2>1. g.total = b.total
      BY <1>3, <1>5 DEF Holds
    <2>2. Cardinality(g.received_indices) >= g.total
      BY <1>4, <1>8, <2>1 DEF Complete
    <2>3. g.data = m
      BY <1>5, <2>2, FullData DEF IsFragment
    <2>4. receive(buffers, f, t) = [buffers |-> others, payload |-> <<m>>, panic |-> FALSE]
      BY <1>7, <1>8, <2>3
    <2>5. FragKey(f) \notin DOMAIN others
      BY <1>6
    <2> QED BY <2>4, <2>5 DEF Assembles
  <1>9. CASE ~Complete(b, f)
    <2>1. PICK B : B = Insert(others, FragKey(f), g)
      OBVIOUS
    <2>2. receive(buffers, f, t) = [buffers |-> B, payload |-> <<>>, panic |-> FALSE]
      BY <1>7, <1>9, <2>1
    <2>3. B[FragKey(f)] = g
      BY <2>1 DEF Insert
    <2> QED BY <1>5, <2>2, <2>3 DEF Assembles
  <1> QED BY <1>8, <1>9

-----------------------------------------------------------------------------
(* Samples and their numbers                                               *)

\* x was written by w, in this life of its participant or in an earlier one.
WrittenBy(x, w) ==
    \E l \in Nat :
        /\ x.writer_guid = [prefix |-> <<NodeOf[w], l>>, entity |-> EntityOf[w]]
        /\ l <= life[NodeOf[w]] /\ (l = life[NodeOf[w]] => x.sequence_number <= seq[w])

NumInv ==
    /\ IsFiniteSet(written) /\ Cardinality(written) <= MaxWritten
    /\ \A w \in Writers : seq[w] <= Cardinality(written)

WrittenInv ==
    \A x \in written : /\ x.payload \in Data /\ x.sequence_number \in 0..MaxWritten
                       /\ \E w \in Writers : WrittenBy(x, w)

\* A GUID and a number are those of one sample.
Unique ==
    \A x, y \in written :
        x.writer_guid = y.writer_guid /\ x.sequence_number = y.sequence_number => x = y

HistoryInv == NumInv /\ WrittenInv /\ Unique

\* The numbers of a writer are not used up: the next one is new.
LEMMA NextIsNew ==
    ASSUME TypeInv, WrittenInv, NEW w \in Writers, NEW x \in written, x.writer_guid = GuidOf(w)
    PROVE  x.sequence_number # seq[w] + 1
  <1>1. PICK v \in Writers : WrittenBy(x, v)
    BY DEF WrittenInv
  <1>2. PICK l \in Nat : /\ x.writer_guid = [prefix |-> <<NodeOf[v], l>>, entity |-> EntityOf[v]]
                         /\ (l = life[NodeOf[v]] => x.sequence_number <= seq[v])
    BY <1>1 DEF WrittenBy
  <1>3. <<NodeOf[v], l>> = <<NodeOf[w], life[NodeOf[w]]>> /\ EntityOf[v] = EntityOf[w]
    BY <1>2 DEF GuidOf, Prefix
  <1>4. v = w
    BY <1>3, EntityAssumption
  <1>5. x.sequence_number <= seq[w] /\ x.sequence_number \in Nat /\ seq[w] \in Nat
    BY <1>2, <1>3, <1>4 DEF WrittenInv, TypeInv
  <1> QED BY <1>5

LEMMA HistoryClaim ==
    ASSUME TypeInv, HistoryInv, NEW w \in Writers, NEW p \in Payloads[w], WriteClaim(w, p)
    PROVE  HistoryInv'
  <1>1. PICK s : s = Sample(TopicOf[w], p, seq[w] + 1, GuidOf(w))
    OBVIOUS
  <1>2. /\ seq' = [seq EXCEPT ![w] = @ + 1] /\ written' = written \cup {s} /\ UNCHANGED life
        /\ Cardinality(written) < MaxWritten
    BY <1>1 DEF WriteClaim
  <1>3. s.payload = p /\ s.sequence_number = seq[w] + 1 /\ s.writer_guid = GuidOf(w)
    BY <1>1 DEF Sample
  <1>4. \A x \in written : x.writer_guid = s.writer_guid => x.sequence_number # s.sequence_number
    BY <1>3, NextIsNew DEF HistoryInv
  <1>5. s \notin written
    BY <1>4
  <1>6. PICK c \in Nat : /\ c = Cardinality(written) /\ IsFiniteSet(written') /\ Cardinality(written') = c + 1
    BY <1>2, <1>5, FS_AddElement, FS_CardinalityType DEF HistoryInv, NumInv
  <1>7. \A v \in Writers : seq[v] \in Nat /\ seq[v] <= c
    BY <1>6 DEF TypeInv, HistoryInv, NumInv
  <1>8. /\ seq'[w] = seq[w] + 1 /\ \A v \in Writers : v # w => seq'[v] = seq[v]
    BY <1>2 DEF TypeInv
  <1>9. NumInv'
    <2>1. c + 1 <= MaxWritten
      BY <1>2, <1>6, MaxWrittenAssumption
    <2>2. \A v \in Writers : seq'[v] <= c + 1
      BY <1>7, <1>8
    <2> QED BY <1>6, <2>1, <2>2 DEF NumInv
  <1>10. WrittenInv'
    <2>1. ASSUME NEW x \in written PROVE \E v \in Writers : WrittenBy(x, v)'
      <3>1. PICK v \in Writers : WrittenBy(x, v)
        BY DEF HistoryInv, WrittenInv
      <3>2. seq[v] <= seq'[v] /\ seq'[v] \in Nat /\ seq[v] \in Nat /\ x.sequence_number \in Nat
        BY <1>7, <1>8 DEF HistoryInv, WrittenInv
      <3>3. WrittenBy(x, v)'
        BY <1>2, <3>1, <3>2 DEF WrittenBy
      <3> QED BY <3>3
    <2>2. WrittenBy(s, w)'
      <3>1. life[NodeOf[w]] \in Nat /\ seq'[w] \in Nat
        BY <1>7, <1>8, NodesOf DEF TypeInv
      <3> QED BY <1>2, <1>3, <1>8, <3>1 DEF WrittenBy, GuidOf, Prefix
    <2>3. s.payload \in Data /\ s.sequence_number \in 0..MaxWritten
      <3>1. seq[w] + 1 \in Nat /\ seq[w] + 1 <= MaxWritten
        BY <1>2, <1>6, <1>7, MaxWrittenAssumption
      <3> QED BY <1>3, <3>1, PayloadData, MaxWrittenAssumption
    <2>4. \A x \in written : x.payload \in Data /\ x.sequence_number \in 0..MaxWritten
      BY DEF HistoryInv, WrittenInv
    <2> QED BY <1>2, <2>1, <2>2, <2>3, <2>4 DEF WrittenInv
  <1>11. Unique'
    BY <1>2, <1>4 DEF HistoryInv, Unique
  <1> QED BY <1>9, <1>10, <1>11 DEF HistoryInv

LEMMA HistoryRestart ==
    ASSUME TypeInv, HistoryInv, NEW n \in Nodes, Restart(n) PROVE HistoryInv'
  <1>1. /\ seq' = [w \in Writers |-> IF NodeOf[w] = n THEN 0 ELSE seq[w]]
        /\ life' = [life EXCEPT ![n] = @ + 1] /\ UNCHANGED written
    BY DEF Restart
  <1>2. PICK c \in Nat : c = Cardinality(written)
    BY FS_CardinalityType DEF HistoryInv, NumInv
  <1>3. NumInv'
    BY <1>1, <1>2 DEF HistoryInv, NumInv
  <1>4. WrittenInv'
    <2> SUFFICES ASSUME NEW x \in written PROVE \E v \in Writers : WrittenBy(x, v)'
      BY <1>1 DEF HistoryInv, WrittenInv
    <2>1. PICK v \in Writers : WrittenBy(x, v)
      BY DEF HistoryInv, WrittenInv
    <2>2. PICK l \in Nat :
            /\ x.writer_guid = [prefix |-> <<NodeOf[v], l>>, entity |-> EntityOf[v]]
            /\ l <= life[NodeOf[v]] /\ (l = life[NodeOf[v]] => x.sequence_number <= seq[v])
      BY <2>1 DEF WrittenBy
    <2>3. life[NodeOf[v]] \in Nat /\ NodeOf[v] \in Nodes
      BY NodesOf DEF TypeInv
    <2>4. l <= life'[NodeOf[v]] /\ (l = life'[NodeOf[v]] => x.sequence_number <= seq'[v])
      <3>1. CASE NodeOf[v] = n
        <4>1. life'[NodeOf[v]] = life[NodeOf[v]] + 1
          BY <1>1, <3>1 DEF TypeInv
        <4> QED BY <2>2, <2>3, <4>1
      <3>2. CASE NodeOf[v] # n
        <4>1. life'[NodeOf[v]] = life[NodeOf[v]] /\ seq'[v] = seq[v]
          BY <1>1, <2>3, <3>2 DEF TypeInv
        <4> QED BY <2>2, <4>1
      <3> QED BY <3>1, <3>2
    <2>5. WrittenBy(x, v)'
      BY <2>2, <2>4 DEF WrittenBy
    <2> QED BY <2>5
  <1>5. Unique'
    BY <1>1 DEF HistoryInv, Unique
  <1> QED BY <1>3, <1>4, <1>5 DEF HistoryInv

LEMMA HistoryNext == TypeInv /\ HistoryInv /\ [Next]_vars => HistoryInv'
  <1> SUFFICES ASSUME TypeInv, HistoryInv, [Next]_vars PROVE HistoryInv'
    OBVIOUS
  <1>1. CASE UNCHANGED <<seq, life, written>>
    BY <1>1 DEF HistoryInv, NumInv, WrittenInv, WrittenBy, Unique
  <1>2. ASSUME NEW w \in Writers, WriteStep(w) PROVE UNCHANGED <<seq, life, written>>
    BY <1>2, WriteGoes
  <1>3. ASSUME NEW d \in net, RecvData(d) \/ RecvFrag(d) PROVE UNCHANGED <<seq, life, written>>
    BY <1>3 DEF RecvData, RecvFrag, WriteVars
  <1>4. ASSUME NEW r \in Readers, ReadStep(r) PROVE UNCHANGED <<seq, life, written>>
    BY <1>4 DEF ReadStep, Register, Recall, LoadLength, LoadPayload, Backfill, remove_reader, WriteVars
  <1>5. Tick \/ UNCHANGED vars => UNCHANGED <<seq, life, written>>
    BY DEF Tick, vars, WriteVars
  <1> QED BY <1>1, <1>2, <1>3, <1>4, <1>5, HistoryClaim, HistoryRestart, NextSplit

-----------------------------------------------------------------------------
(* What is on the network                                                  *)

LEMMA Kinds == SUBMSG_DATA # SUBMSG_DATA_FRAG
  BY DEF SUBMSG_DATA, SUBMSG_DATA_FRAG

\* The datagram d carries the sample x, or a fragment of it.
CarriesWhole(d, x) ==
    /\ d.id = SUBMSG_DATA
    /\ d.sub.seq_num = from_u64(x.sequence_number) /\ d.sub.payload = wrap_payload(x.payload)
CarriesPiece(d, x) ==
    LET m == wrap_payload(x.payload) IN
    /\ d.id = SUBMSG_DATA_FRAG /\ d.sub.writer_seq_num = from_u64(x.sequence_number)
    /\ \E j \in 1..CeilDiv(Len(m), MaxFragmentPayload) :
          IsPiece(d.sub, m, (j - 1) * MaxFragmentPayload) /\ d.sub.fragment_starting_num = j
SentFor(d, x) ==
    /\ x.writer_guid = [prefix |-> d.prefix, entity |-> d.sub.writer_entity_id]
    /\ CarriesWhole(d, x) \/ CarriesPiece(d, x)

NetInv == \A d \in net : \E x \in written : SentFor(d, x)

LEMMA SendsClaimed ==
    ASSUME TypeInv, NEW w \in Writers, NEW n, NEW d \in Messages(w, n)
    PROVE  SentFor(d, Claimed(w))
  <1>1. PICK p, m, e, sn : /\ p = call[w].payload /\ m = wrap_payload(p)
                           /\ e = EntityOf[w] /\ sn = from_u64(seq[w])
    OBVIOUS
  <1>2. PICK x : x = Claimed(w)
    OBVIOUS
  <1>3. x.payload = p /\ x.sequence_number = seq[w] /\ x.writer_guid = [prefix |-> Prefix(NodeOf[w]), entity |-> e]
    BY <1>1, <1>2 DEF Claimed, Sample, GuidOf
  <1>4. p \in Seq(OctetSet)
    BY <1>1 DEF TypeInv, Data
  <1>5. PICK S : S = OctetSet /\ m \in Seq(S)
    BY <1>1, <1>4, Wrapping
  <1>6. CASE Len(m) > MaxFragmentPayload
    <2>1. PICK f \in ToSet(split_into_fragments(e, sn, m)) :
              d = [to |-> n, prefix |-> Prefix(NodeOf[w]), id |-> SUBMSG_DATA_FRAG, sub |-> f]
      BY <1>1, <1>6, Zenon DEF Messages
    <2>2. PICK j \in 1..CeilDiv(Len(m), MaxFragmentPayload) : f = split_into_fragments(e, sn, m)[j]
      BY <2>1 DEF ToSet, split_into_fragments
    <2>3. /\ IsPiece(f, m, (j - 1) * MaxFragmentPayload)
          /\ f.fragment_starting_num = j /\ f.writer_entity_id = e /\ f.writer_seq_num = sn
      BY <1>5, <2>2, SplitPiece
    <2>4. d.prefix = Prefix(NodeOf[w]) /\ d.id = SUBMSG_DATA_FRAG /\ d.sub = f
      BY <2>1
    <2>5. CarriesPiece(d, x)
      BY <1>1, <1>3, <2>3, <2>4 DEF CarriesPiece
    <2>6. x.writer_guid = [prefix |-> d.prefix, entity |-> d.sub.writer_entity_id]
      BY <1>3, <2>3, <2>4
    <2> QED BY <1>2, <2>5, <2>6 DEF SentFor
  <1>7. CASE ~(Len(m) > MaxFragmentPayload)
    <2>1. d = [to |-> n, prefix |-> Prefix(NodeOf[w]), id |-> SUBMSG_DATA,
               sub |-> [writer_entity_id |-> e, seq_num |-> sn, payload |-> m]]
      BY <1>1, <1>7, Zenon DEF Messages
    <2>2. d.prefix = Prefix(NodeOf[w]) /\ d.id = SUBMSG_DATA /\ d.sub.writer_entity_id = e
          /\ d.sub.seq_num = sn /\ d.sub.payload = m
      BY <2>1
    <2>3. CarriesWhole(d, x)
      BY <1>1, <1>3, <2>2 DEF CarriesWhole
    <2> QED BY <1>2, <1>3, <2>2, <2>3 DEF SentFor
  <1> QED BY <1>6, <1>7

LEMMA NetInvNext == TypeInv /\ CallInv /\ NetInv /\ [Next]_vars => NetInv'
  <1> SUFFICES ASSUME TypeInv, CallInv, NetInv, [Next]_vars, NEW d \in net'
               PROVE  \E x \in written' : SentFor(d, x)
    BY DEF NetInv, SentFor, CarriesWhole, CarriesPiece, IsPiece
  <1>1. written \subseteq written'
    BY HistoryGrows
  <1>2. CASE d \in net
    BY <1>1, <1>2 DEF NetInv
  <1>3. CASE d \notin net
    <2>1. PICK w \in Writers : WriteSend(w)
      BY <1>3, OnlySends
    <2>2. PICK n \in Destinations(w) : d \in Messages(w, n)
      BY <1>3, <2>1, Zenon DEF WriteSend
    <2>3. Claimed(w) \in written
      BY <2>1 DEF WriteSend, CallAt, CallInv
    <2> QED BY <1>1, <2>2, <2>3, SendsClaimed
  <1> QED BY <1>2, <1>3

-----------------------------------------------------------------------------
(* The buffers of the assemblers                                           *)

\* The key of a sample, without the participant, and the keys of two writers.
KeyOf(x) == [writer |-> x.writer_guid.entity, seq_lo |-> x.sequence_number]
Clash(k) == \E x, y \in written : x.writer_guid # y.writer_guid /\ KeyOf(x) = k /\ KeyOf(y) = k

\* A buffer is one for the sample of its key, unless there are two.
Buffered(k, b) ==
    Clash(k) \/ \E x \in written : KeyOf(x) = k /\ Holds(b, wrap_payload(x.payload))
BufferInv == \A n \in Nodes : \A k \in DOMAIN frag_assembler[n] : Buffered(k, frag_assembler[n][k])

LEMMA ClashConfused ==
    ASSUME NEW x, Clash(KeyOf(x)) PROVE Confused(x.writer_guid, x.sequence_number)
  <1>1. PICK y \in written, z \in written :
            y.writer_guid # z.writer_guid /\ KeyOf(y) = KeyOf(x) /\ KeyOf(z) = KeyOf(x)
    BY DEF Clash
  <1>2. /\ y.writer_guid.entity = x.writer_guid.entity /\ y.sequence_number = x.sequence_number
        /\ z.writer_guid.entity = x.writer_guid.entity /\ z.sequence_number = x.sequence_number
    BY <1>1 DEF KeyOf
  <1>3. y.writer_guid # x.writer_guid \/ z.writer_guid # x.writer_guid
    BY <1>1
  <1> QED BY <1>2, <1>3 DEF Confused

LEMMA NumberSmall ==
    ASSUME MaxWritten < U32, WrittenInv, NEW x \in written
    PROVE  x.sequence_number \in Nat /\ x.sequence_number < U32
  <1>1. x.sequence_number \in 0..MaxWritten
    BY DEF WrittenInv
  <1>2. U32 \in Nat
    BY BaseFacts
  <1> QED BY <1>1, <1>2, MaxWrittenAssumption

\* Without two samples of its key, the buffer that a fragment of x meets is one for x.
LEMMA MeetsOwn ==
    ASSUME HistoryInv, BufferInv, NEW n \in Nodes, NEW x \in written, ~Clash(KeyOf(x)),
           KeyOf(x) \in DOMAIN frag_assembler[n]
    PROVE  Holds(frag_assembler[n][KeyOf(x)], wrap_payload(x.payload))
  <1>1. PICK y \in written : /\ KeyOf(y) = KeyOf(x)
                             /\ Holds(frag_assembler[n][KeyOf(x)], wrap_payload(y.payload))
    BY DEF BufferInv, Buffered
  <1>2. y.writer_guid = x.writer_guid
    BY <1>1 DEF Clash
  <1>3. y.sequence_number = x.sequence_number
    BY <1>1 DEF KeyOf
  <1>4. y = x
    BY <1>2, <1>3 DEF HistoryInv, Unique
  <1> QED BY <1>1, <1>4

Arrives(d, got) ==
    \E x \in written :
        /\ x.writer_guid = [prefix |-> d.prefix, entity |-> d.sub.writer_entity_id]
        /\ to_u64(d.sub.writer_seq_num) = x.sequence_number
        /\ \/ Confused(x.writer_guid, x.sequence_number)
           \/ \E k : Assembles(got, k, wrap_payload(x.payload))
        /\ \A k \in DOMAIN got.buffers : Buffered(k, got.buffers[k])

\* A fragment that arrives is one of a sample; it completes that sample or nothing,
\* leaves buffers that are such, and does not panic, unless two samples have its key.
LEMMA FragmentArrives ==
    ASSUME MaxWritten < U32, HistoryInv, NetInv, BufferInv, NEW n \in Nodes,
           NEW d \in net, d.id = SUBMSG_DATA_FRAG, NEW t,
           NEW got, got = receive(frag_assembler[n], d.sub, t)
    PROVE  Arrives(d, got)
  <1>1. PICK x \in written : SentFor(d, x)
    BY DEF NetInv
  <1>2. x.writer_guid = [prefix |-> d.prefix, entity |-> d.sub.writer_entity_id] /\ CarriesPiece(d, x)
    BY <1>1, Kinds DEF SentFor, CarriesWhole
  <1>3. PICK m : m = wrap_payload(x.payload)
    OBVIOUS
  <1>4. PICK j \in 1..CeilDiv(Len(m), MaxFragmentPayload) :
            IsPiece(d.sub, m, (j - 1) * MaxFragmentPayload) /\ d.sub.fragment_starting_num = j
    BY <1>2, <1>3 DEF CarriesPiece
  <1>5. d.sub.writer_seq_num.low = x.sequence_number /\ to_u64(d.sub.writer_seq_num) = x.sequence_number
    <2>1. x.sequence_number \in Nat /\ x.sequence_number < U32
      BY NumberSmall DEF HistoryInv
    <2>2. d.sub.writer_seq_num = from_u64(x.sequence_number)
      BY <1>2 DEF CarriesPiece
    <2> QED BY <2>1, <2>2, NumberComesBack
  <1>6. FragKey(d.sub) = KeyOf(x)
    BY <1>2, <1>5 DEF FragKey, KeyOf
  <1>7. \A k \in DOMAIN got.buffers : k # FragKey(d.sub) => Buffered(k, got.buffers[k])
    <2> SUFFICES ASSUME NEW k \in DOMAIN got.buffers, k # FragKey(d.sub) PROVE Buffered(k, got.buffers[k])
      OBVIOUS
    <2>1. k \in DOMAIN frag_assembler[n] /\ got.buffers[k] = frag_assembler[n][k]
      BY ReceiveOthers
    <2>2. Buffered(k, frag_assembler[n][k])
      BY <2>1 DEF BufferInv
    <2> QED BY <2>1, <2>2
  <1>8. CASE Clash(KeyOf(x))
    <2>1. Confused(x.writer_guid, x.sequence_number)
      BY <1>8, ClashConfused
    <2>2. \A k \in DOMAIN got.buffers : Buffered(k, got.buffers[k])
      BY <1>6, <1>7, <1>8 DEF Buffered
    <2> QED BY <1>2, <1>5, <2>1, <2>2 DEF Arrives
  <1>9. CASE ~Clash(KeyOf(x)) /\ ~(Len(m) <= MaxReassemblyBytes)
    <2>1. ~Accepts(d.sub)
      <3>1. d.sub.data_size = Len(m)
        BY <1>4 DEF IsPiece
      <3> QED BY <1>9, <3>1 DEF Accepts
    <2>2. got = [buffers |-> frag_assembler[n], payload |-> <<>>, panic |-> FALSE]
      BY <2>1, ReceiveRefused
    <2>3. \A k \in DOMAIN got.buffers : Buffered(k, got.buffers[k])
      BY <2>2 DEF BufferInv
    <2>4. Assembles(got, FragKey(d.sub), m)
      <3>1. FragKey(d.sub) \in DOMAIN frag_assembler[n] => Holds(frag_assembler[n][FragKey(d.sub)], m)
        BY <1>3, <1>6, <1>9, MeetsOwn
      <3> QED BY <2>2, <3>1 DEF Assembles
    <2> QED BY <1>2, <1>3, <1>5, <2>3, <2>4 DEF Arrives
  <1>10. CASE ~Clash(KeyOf(x)) /\ Len(m) <= MaxReassemblyBytes
    <2>1. IsFragment(d.sub, m, j)
      <3>1. x.payload \in Seq(OctetSet)
        BY DEF HistoryInv, WrittenInv, Data
      <3>2. m \in Seq(OctetSet)
        BY <1>3, <3>1, Wrapping
      <3>3. PICK S : S = OctetSet /\ m \in Seq(S)
        BY <3>2
      <3>4. Len(m) \in Nat /\ m \in [1..Len(m) -> S]
        BY <3>3
      <3> QED BY <1>4, <1>10, <3>3, <3>4 DEF IsFragment
    <2>2. FragKey(d.sub) \in DOMAIN frag_assembler[n] => Holds(frag_assembler[n][FragKey(d.sub)], m)
      BY <1>3, <1>6, <1>10, MeetsOwn
    <2>3. Assembles(got, FragKey(d.sub), m)
      BY <2>1, <2>2, ReceiveGood
    <2>4. \A k \in DOMAIN got.buffers : Buffered(k, got.buffers[k])
      <3> SUFFICES ASSUME FragKey(d.sub) \in DOMAIN got.buffers
                   PROVE  Buffered(FragKey(d.sub), got.buffers[FragKey(d.sub)])
        BY <1>7
      <3>1. Holds(got.buffers[FragKey(d.sub)], m)
        BY <2>3 DEF Assembles
      <3> QED BY <1>3, <1>6, <3>1 DEF Buffered
    <2> QED BY <1>2, <1>3, <1>5, <2>3, <2>4 DEF Arrives
  <1> QED BY <1>8, <1>9, <1>10

\* The buffers of a step: what is written only grows.
LEMMA BufferedGrows ==
    ASSUME written \subseteq written', NEW k, NEW b, Buffered(k, b) PROVE Buffered(k, b)'
  BY DEF Buffered, Clash, KeyOf, Holds, OctetSet, CeilDiv, wrap_payload

LEMMA BufferNext ==
    ASSUME MaxWritten < U32, TypeInv, HistoryInv, NetInv, BufferInv, [Next]_vars PROVE BufferInv'
  <1>0. written \subseteq written'
    BY HistoryGrows
  <1> SUFFICES ASSUME NEW n \in Nodes, NEW k \in DOMAIN frag_assembler'[n]
               PROVE  Buffered(k, frag_assembler[n][k])'
    BY DEF BufferInv
  <1>1. CASE frag_assembler'[n] = frag_assembler[n]
    <2>1. Buffered(k, frag_assembler[n][k])
      BY <1>1 DEF BufferInv
    <2>2. PICK b : b = frag_assembler[n][k] /\ b = frag_assembler'[n][k]
      BY <1>1
    <2>3. Buffered(k, b)'
      BY <1>0, <2>1, <2>2, BufferedGrows
    <2> QED BY <2>2, <2>3 DEF Buffered
  <1>2. ASSUME NEW d \in net, RecvFrag(d), frag_assembler'[n] # frag_assembler[n]
        PROVE  Buffered(k, frag_assembler[n][k])'
    <2>1. PICK got : got = receive(frag_assembler[d.to], d.sub, now)
      OBVIOUS
    <2>2. frag_assembler' = [frag_assembler EXCEPT ![d.to] = got.buffers] /\ d.id = SUBMSG_DATA_FRAG
      BY <1>2, <2>1, Zenon DEF RecvFrag
    <2>3. d.to = n /\ frag_assembler'[n] = got.buffers
      BY <1>2, <2>2 DEF TypeInv
    <2>4. Buffered(k, got.buffers[k])
      <3>1. Arrives(d, got)
        BY <2>1, <2>2, <2>3, FragmentArrives
      <3> QED BY <2>3, <3>1 DEF Arrives
    <2>5. PICK b : b = got.buffers[k] /\ b = frag_assembler'[n][k]
      BY <2>3
    <2>6. Buffered(k, b)'
      BY <1>0, <2>4, <2>5, BufferedGrows
    <2> QED BY <2>5, <2>6 DEF Buffered
  <1>3. ASSUME NEW m \in Nodes, Restart(m), frag_assembler'[n] # frag_assembler[n] PROVE FALSE
    <2>1. frag_assembler' = [frag_assembler EXCEPT ![m] = Nothing]
      BY <1>3 DEF Restart
    <2>2. frag_assembler'[n] = <<>>
      BY <1>3, <2>1 DEF TypeInv, Nothing
    <2>3. DOMAIN <<>> = {}
      OBVIOUS
    <2> QED BY <2>2, <2>3, Zenon
  <1>4. ASSUME NEW w \in Writers, WriteStep(w) \/ \E p \in Payloads[w] : WriteClaim(w, p)
        PROVE  UNCHANGED frag_assembler
    BY <1>4 DEF WriteStep, WriteRemember, FlushCreate, FlushLength, FlushPayload, FlushCreateFails,
                WriteDispatch, WriteSend, WriteClaim
  <1>5. ASSUME NEW r \in Readers, ReadStep(r) PROVE UNCHANGED frag_assembler
    BY <1>5 DEF ReadStep, Register, Recall, LoadLength, LoadPayload, Backfill, remove_reader
  <1>6. ASSUME NEW d \in net, RecvData(d) PROVE UNCHANGED frag_assembler
    BY <1>6 DEF RecvData
  <1>7. Tick \/ UNCHANGED vars => UNCHANGED frag_assembler
    BY DEF Tick, vars
  <1> QED BY <1>1, <1>2, <1>3, <1>4, <1>5, <1>6, <1>7, NextSplit

-----------------------------------------------------------------------------
(* What is delivered                                                       *)

Genuine(guid, payload, num) ==
    \/ \E x \in written : x.writer_guid = guid /\ x.payload = payload /\ x.sequence_number = num
    \/ Confused(guid, num)

LastInv ==
    \A n \in Nodes : \A t \in DOMAIN last_sample[n] :
        LET s == last_sample[n][t] IN
        s.writer_guid # ZeroGuid => Genuine(s.writer_guid, s.payload, s.sequence_number)

LEMMA GenuineGrows ==
    ASSUME written \subseteq written', NEW g, NEW p, NEW i, Genuine(g, p, i) PROVE Genuine(g, p, i)'
  BY DEF Genuine, Confused

LEMMA LastNext == ASSUME TypeInv, CallInv, LastInv, [Next]_vars PROVE LastInv'
  <1>0. written \subseteq written'
    BY HistoryGrows
  <1> SUFFICES ASSUME NEW n \in Nodes, NEW t \in DOMAIN last_sample'[n], NEW s, s = last_sample'[n][t],
                      s.writer_guid # ZeroGuid
               PROVE  Genuine(s.writer_guid, s.payload, s.sequence_number)
    BY <1>0, GenuineGrows DEF LastInv, Genuine, Confused
  <1>1. CASE t \in DOMAIN last_sample[n] /\ s = last_sample[n][t]
    BY <1>1 DEF LastInv
  <1>2. ASSUME NEW w \in Writers, WriteRemember(w), ~(t \in DOMAIN last_sample[n] /\ s = last_sample[n][t])
        PROVE  Genuine(s.writer_guid, s.payload, s.sequence_number)
    <2>1. last_sample' = [last_sample EXCEPT ![NodeOf[w]] = Insert(@, TopicOf[w], Claimed(w))]
      BY <1>2 DEF WriteRemember, Claimed
    <2>2. s = Claimed(w)
      BY <1>2, <2>1 DEF TypeInv, Insert
    <2>3. Claimed(w) \in written
      BY <1>2 DEF WriteRemember, CallAt, CallInv
    <2> QED BY <2>2, <2>3 DEF Genuine
  <1>3. ASSUME NEW r \in Readers, Backfill(r), ~(t \in DOMAIN last_sample[n] /\ s = last_sample[n][t])
        PROVE  FALSE
    <2>1. PICK z : z = Sample(TopicOf[r], joining[r].len, 0, ZeroGuid)
      OBVIOUS
    <2>2. last_sample' = [last_sample EXCEPT ![NodeOf[r]] = Insert(@, TopicOf[r], z)]
      BY <1>3, <2>1 DEF Backfill
    <2>3. s = z
      BY <1>3, <2>2 DEF TypeInv, Insert
    <2> QED BY <2>1, <2>3 DEF Sample
  <1>4. ASSUME NEW m \in Nodes, Restart(m), ~(t \in DOMAIN last_sample[n] /\ s = last_sample[n][t])
        PROVE  FALSE
    <2>1. last_sample' = [last_sample EXCEPT ![m] = Nothing]
      BY <1>4 DEF Restart
    <2>2. last_sample'[n] = <<>>
      BY <1>4, <2>1 DEF TypeInv, Nothing
    <2>3. DOMAIN <<>> = {}
      OBVIOUS
    <2> QED BY <2>2, <2>3, Zenon
  <1>5. CASE UNCHANGED last_sample
    BY <1>1, <1>5
  <1>6. ASSUME NEW w \in Writers, \/ \E p \in Payloads[w] : WriteClaim(w, p)
                                  \/ WriteStep(w) /\ ~WriteRemember(w)
        PROVE  UNCHANGED last_sample
    BY <1>6 DEF WriteStep, FlushCreate, FlushLength, FlushPayload, FlushCreateFails,
                WriteDispatch, WriteSend, WriteClaim
  <1>7. ASSUME NEW r \in Readers, ReadStep(r), ~Backfill(r) PROVE UNCHANGED last_sample
    BY <1>7 DEF ReadStep, Register, Recall, LoadLength, LoadPayload, remove_reader
  <1>8. ASSUME NEW d \in net, RecvData(d) \/ RecvFrag(d) PROVE UNCHANGED last_sample
    BY <1>8 DEF RecvData, RecvFrag
  <1>9. Tick \/ UNCHANGED vars => UNCHANGED last_sample
    BY DEF Tick, vars
  <1> QED BY <1>1, <1>2, <1>3, <1>4, <1>5, <1>6, <1>7, <1>8, <1>9, NextSplit

GoodInv ==
    /\ TypeInv /\ CallInv /\ HistoryInv /\ NetInv /\ BufferInv /\ LastInv
    /\ DeliveredWasWritten /\ LoopEndsOnlyConfused

LEMMA PayloadBack ==
    ASSUME WrittenInv, NEW x \in written PROVE unwrap_payload(wrap_payload(x.payload)) = <<x.payload>>
  <1>1. x.payload \in Seq(OctetSet)
    BY DEF WrittenInv, Data
  <1> QED BY <1>1, Wrapping

\* Whatever a step pushes is what its writer wrote.
LEMMA PushedGenuine ==
    ASSUME MaxWritten < U32, GoodInv, NEW r \in Readers, NEW s, Pushed(r, s), s.writer_guid # ZeroGuid
    PROVE  Genuine(s.writer_guid, s.payload, s.sequence_number)
  <1>1. CASE FromWriter(r, s)
    <2>1. PICK w \in Writers : /\ CallAt(w, "dispatch")
                               /\ s = Sample(TopicOf[r], call[w].payload, seq[w], GuidOf(w))
      BY <1>1 DEF FromWriter
    <2>2. Claimed(w) \in written
      BY <2>1 DEF CallAt, CallInv, GoodInv
    <2>3. /\ Claimed(w).writer_guid = s.writer_guid /\ Claimed(w).payload = s.payload
          /\ Claimed(w).sequence_number = s.sequence_number
      BY <2>1 DEF Claimed, Sample
    <2> QED BY <2>2, <2>3 DEF Genuine
  <1>2. CASE FromData(r, s)
    <2>1. PICK d \in net :
            /\ RecvData(d)
            /\ s = Sample(TopicOf[r], unwrap_payload(d.sub.payload)[1], to_u64(d.sub.seq_num),
                          [prefix |-> d.prefix, entity |-> d.sub.writer_entity_id])
      BY <1>2 DEF FromData
    <2>2. PICK x \in written : SentFor(d, x)
      BY DEF GoodInv, NetInv
    <2>3. d.id = SUBMSG_DATA
      BY <2>1 DEF RecvData
    <2>4. /\ x.writer_guid = [prefix |-> d.prefix, entity |-> d.sub.writer_entity_id]
          /\ d.sub.seq_num = from_u64(x.sequence_number) /\ d.sub.payload = wrap_payload(x.payload)
      BY <2>2, <2>3, Kinds DEF SentFor, CarriesWhole, CarriesPiece
    <2>5. to_u64(d.sub.seq_num) = x.sequence_number
      BY <2>4, NumberSmall, NumberComesBack DEF GoodInv, HistoryInv
    <2>6. unwrap_payload(d.sub.payload)[1] = x.payload
      BY <2>4, PayloadBack DEF GoodInv, HistoryInv
    <2>7. s = Sample(TopicOf[r], x.payload, x.sequence_number, x.writer_guid)
      BY <2>1, <2>4, <2>5, <2>6
    <2> QED BY <2>7 DEF Sample, Genuine
  <1>3. CASE FromFrag(r, s)
    <2>1. PICK d \in net :
            /\ RecvFrag(d) /\ FragGot(d).payload # <<>>
            /\ s = Sample(TopicOf[r], unwrap_payload(FragGot(d).payload[1])[1],
                          to_u64(d.sub.writer_seq_num),
                          [prefix |-> d.prefix, entity |-> d.sub.writer_entity_id])
      BY <1>3 DEF FromFrag
    <2>2. PICK got : got = FragGot(d)
      OBVIOUS
    <2>3. d.id = SUBMSG_DATA_FRAG /\ d.to \in Nodes /\ got = receive(frag_assembler[d.to], d.sub, now)
      BY <2>1, <2>2 DEF RecvFrag, FragGot, GoodInv, TypeInv
    <2>4. PICK x \in written :
             /\ x.writer_guid = [prefix |-> d.prefix, entity |-> d.sub.writer_entity_id]
             /\ to_u64(d.sub.writer_seq_num) = x.sequence_number
             /\ \/ Confused(x.writer_guid, x.sequence_number)
                \/ \E k : Assembles(got, k, wrap_payload(x.payload))
      <3>1. Arrives(d, got)
        BY <2>3, FragmentArrives DEF GoodInv
      <3> QED BY <3>1 DEF Arrives
    <2>5. s.writer_guid = x.writer_guid /\ s.sequence_number = x.sequence_number
          /\ s.payload = unwrap_payload(got.payload[1])[1]
      BY <2>1, <2>2, <2>4 DEF Sample
    <2>6. CASE Confused(x.writer_guid, x.sequence_number)
      BY <2>5, <2>6 DEF Genuine
    <2>7. ASSUME NEW k, Assembles(got, k, wrap_payload(x.payload))
          PROVE  Genuine(s.writer_guid, s.payload, s.sequence_number)
      <3>1. got.payload[1] = wrap_payload(x.payload)
        BY <2>1, <2>2, <2>7 DEF Assembles
      <3>2. s.payload = x.payload
        BY <2>5, <3>1, PayloadBack DEF GoodInv, HistoryInv
      <3> QED BY <2>5, <3>2 DEF Genuine
    <2> QED BY <2>4, <2>6, <2>7
  <1>4. CASE FromMemory(r, s)
    BY <1>4, NodesOf DEF FromMemory, GoodInv, LastInv
  <1>5. CASE FromDisk(r, s)
    BY <1>5 DEF FromDisk, Sample
  <1> QED BY <1>1, <1>2, <1>3, <1>4, <1>5 DEF Pushed

LEMMA DeliveredNext ==
    ASSUME MaxWritten < U32, GoodInv, [Next]_vars PROVE DeliveredWasWritten'
  <1>0. written \subseteq written'
    BY HistoryGrows
  <1> SUFFICES ASSUME NEW r \in Readers, NEW s \in ToSet(queue'[r]), s.writer_guid # ZeroGuid
               PROVE  Genuine(s.writer_guid, s.payload, s.sequence_number)
    BY <1>0, GenuineGrows DEF DeliveredWasWritten, ToSet, Genuine, Confused
  <1>1. s \in ToSet(queue[r]) \/ Pushed(r, s)
    BY QueueNext DEF QueuesGrow, GoodInv
  <1>2. CASE s \in ToSet(queue[r])
    <2>1. PICK i \in DOMAIN queue[r] : s = queue[r][i]
      BY <1>2 DEF ToSet
    <2> QED BY <2>1 DEF GoodInv, DeliveredWasWritten, Genuine
  <1> QED BY <1>1, <1>2, PushedGenuine

LEMMA LoopNext ==
    ASSUME MaxWritten < U32, GoodInv, [Next]_vars PROVE LoopEndsOnlyConfused'
  <1>0. written \subseteq written'
    BY HistoryGrows
  <1> SUFFICES ASSUME NEW n \in Nodes, ~loop'[n]
               PROVE  \E x \in written : Confused(x.writer_guid, x.sequence_number)
    BY <1>0 DEF LoopEndsOnlyConfused, Confused
  <1>1. CASE ~loop[n]
    BY <1>1 DEF GoodInv, LoopEndsOnlyConfused
  <1>2. ASSUME NEW d \in net, RecvFrag(d), loop[n]
        PROVE  \E x \in written : Confused(x.writer_guid, x.sequence_number)
    <2>1. PICK got : got = receive(frag_assembler[d.to], d.sub, now)
      OBVIOUS
    <2>2. /\ d.id = SUBMSG_DATA_FRAG /\ d.to \in Nodes
          /\ loop' = [loop EXCEPT ![d.to] = ~got.panic]
      BY <1>2, <2>1 DEF RecvFrag, GoodInv, TypeInv
    <2>3. Arrives(d, got)
      BY <2>1, <2>2, FragmentArrives DEF GoodInv
    <2>4. ASSUME NEW B, NEW P, got = [buffers |-> B, payload |-> P, panic |-> FALSE] PROVE FALSE
      <3>1. loop' = [loop EXCEPT ![d.to] = TRUE]
        BY <2>2, <2>4
      <3> QED BY <1>2, <2>2, <3>1 DEF GoodInv, TypeInv
    <2> QED BY <2>3, <2>4 DEF Arrives, Assembles
  <1>3. ASSUME NEW m \in Nodes, Restart(m), loop[n] PROVE FALSE
    <2>1. loop' = [loop EXCEPT ![m] = TRUE]
      BY <1>3 DEF Restart
    <2> QED BY <1>3, <2>1 DEF GoodInv, TypeInv
  <1>4. ASSUME NEW w \in Writers, WriteStep(w) \/ \E p \in Payloads[w] : WriteClaim(w, p)
        PROVE  UNCHANGED loop
    BY <1>4 DEF WriteStep, WriteRemember, FlushCreate, FlushLength, FlushPayload, FlushCreateFails,
                WriteDispatch, WriteSend, WriteClaim
  <1>5. ASSUME NEW r \in Readers, ReadStep(r) PROVE UNCHANGED loop
    BY <1>5 DEF ReadStep, Register, Recall, LoadLength, LoadPayload, Backfill, remove_reader
  <1>6. ASSUME NEW d \in net, RecvData(d) PROVE UNCHANGED loop
    BY <1>6 DEF RecvData
  <1>7. Tick \/ UNCHANGED vars => UNCHANGED loop
    BY DEF Tick, vars
  <1> QED BY <1>1, <1>2, <1>3, <1>4, <1>5, <1>6, <1>7, NextSplit

LEMMA GoodInvNext == ASSUME MaxWritten < U32 PROVE GoodInv /\ [Next]_vars => GoodInv'
  <1> SUFFICES ASSUME GoodInv, [Next]_vars PROVE GoodInv'
    OBVIOUS
  <1>1. TypeInv /\ CallInv /\ HistoryInv /\ NetInv /\ BufferInv /\ LastInv
    BY DEF GoodInv
  <1>2. TypeInv' /\ CallInv' /\ HistoryInv' /\ NetInv'
    BY <1>1, TypeNext, CallInvNext, HistoryNext, NetInvNext
  <1>3. BufferInv' /\ LastInv'
    BY <1>1, BufferNext, LastNext
  <1>4. DeliveredWasWritten' /\ LoopEndsOnlyConfused'
    BY DeliveredNext, LoopNext
  <1> QED BY <1>2, <1>3, <1>4 DEF GoodInv

LEMMA HistoryInit == Init => HistoryInv
  BY FS_EmptySet, MaxWrittenAssumption DEF Init, HistoryInv, NumInv, WrittenInv, Unique

LEMMA GoodInvInit == Init => GoodInv
  <1> SUFFICES ASSUME Init PROVE GoodInv
    OBVIOUS
  <1>1. TypeInv
    BY TypeInit
  <1>2. CallInv
    BY DEF Init, CallInv
  <1>3. DOMAIN <<>> = {}
    OBVIOUS
  <1>4. HistoryInv
    BY HistoryInit
  <1>5. NetInv
    BY DEF Init, NetInv
  <1>6. BufferInv /\ LastInv
    <2>1. \A n \in Nodes : frag_assembler[n] = <<>> /\ last_sample[n] = <<>>
      BY DEF Init, Nothing
    <2>2. \A n \in Nodes : DOMAIN frag_assembler[n] = {} /\ DOMAIN last_sample[n] = {}
      BY <1>3, <2>1, Zenon
    <2> QED BY <2>2 DEF BufferInv, LastInv
  <1>7. DeliveredWasWritten
    <2>1. \A r \in Readers : queue[r] = <<>>
      BY DEF Init
    <2>2. \A r \in Readers : DOMAIN queue[r] = {}
      BY <1>3, <2>1, Zenon
    <2> QED BY <2>2 DEF DeliveredWasWritten
  <1>8. LoopEndsOnlyConfused
    BY DEF Init, LoopEndsOnlyConfused
  <1> QED BY <1>1, <1>2, <1>4, <1>5, <1>6, <1>7, <1>8 DEF GoodInv

\* Whatever the network loses, repeats or delays, however large the payloads and
\* wherever processes die, a reader gets from a writer only what it wrote under
\* that number, whole, unless two participants have an EntityId and a number in
\* common (FragmentAssembler::receive, dispatch_to_readers).  The number must fit
\* the half of it that the FragKey has: MaxWritten < U32.
THEOREM DeliversOnlyWritten == ASSUME MaxWritten < U32 PROVE Spec => []DeliveredWasWritten
  <1>1. Init => GoodInv
    BY GoodInvInit
  <1>2. GoodInv /\ [Next]_vars => GoodInv'
    BY GoodInvNext
  <1>3. GoodInv => DeliveredWasWritten
    BY DEF GoodInv
  <1> QED BY <1>1, <1>2, <1>3, PTL DEF Spec

\* No fragment that a writer of this library sends makes the assembler of another
\* participant panic, whatever is lost, repeated, delayed or given up half-way,
\* unless two have an EntityId and a number in common: but for that, the receive
\* loop goes on (spawn_receive_loop, FragmentAssembler::receive).
THEOREM LoopsGoOn == ASSUME MaxWritten < U32 PROVE Spec => []LoopEndsOnlyConfused
  <1>1. Init => GoodInv
    BY GoodInvInit
  <1>2. GoodInv /\ [Next]_vars => GoodInv'
    BY GoodInvNext
  <1>3. GoodInv => LoopEndsOnlyConfused
    BY DEF GoodInv
  <1> QED BY <1>1, <1>2, <1>3, PTL DEF Spec

\* A GUID and a number are those of one sample, over all writers, participants and
\* restarts, as every receiver takes for granted that keeps samples apart by them:
\* a participant counts its EntityIds, a writer its samples, and a process that is
\* started again draws another prefix (RtpsWriter::write, next_entity_num,
\* random_guid_prefix).
THEOREM NumbersNameSamples == Spec => []Unique
  <1>1. Init => TypeInv /\ HistoryInv
    BY TypeInit, HistoryInit
  <1>2. TypeInv /\ HistoryInv /\ [Next]_vars => TypeInv' /\ HistoryInv'
    BY TypeNext, HistoryNext
  <1>3. HistoryInv => Unique
    BY DEF HistoryInv
  <1> QED BY <1>1, <1>2, <1>3, PTL DEF Spec

=============================================================================
