----------------------------- MODULE SpdpProofs -----------------------------
(***************************************************************************)
(* Proofs for Spdp, for any participants, announce period, jitter and      *)
(* lease: type correctness, that eviction of a running peer takes as many  *)
(* missed announcements as fit in the lease, and that Spdp implements      *)
(* PeerTable.                                                              *)
(***************************************************************************)
EXTENDS Spdp, TLAPS

\* The bounds of the model are natural numbers.
LEMMA Bounds == MaxInterval \in Nat \ {0} /\ Tolerance \in Nat
BY TimesType DEF MaxInterval, Tolerance

\* Tolerance announcements, however late each is, fit in the lease.
LEMMA ToleranceFits == Tolerance * MaxInterval <= Lease
BY Bounds, TimesType DEF Tolerance

\* Multiplication by a natural number is monotonic.
LEMMA Monotonic ==
    ASSUME NEW x \in Nat, NEW y \in Nat, NEW k \in Nat, x <= y PROVE x * k <= y * k
OBVIOUS

\* Every variable keeps its type through every step of SPDP.
THEOREM TypeCorrect == Spec => []TypeOK
<1> USE Bounds, TimesType
<1>1. Init => TypeOK
  BY DEF Init, TypeOK
<1>2. TypeOK /\ [Next]_vars => TypeOK'
  <2> SUFFICES ASSUME TypeOK, [Next]_vars PROVE TypeOK'
    OBVIOUS
  <2>1. ASSUME NEW p \in Participants, Start(p) \/ Close(p) PROVE TypeOK'
    BY <2>1 DEF TypeOK, Start, Close
  <2>2. ASSUME NEW p \in Participants, Announce(p) PROVE TypeOK'
    <3>1. ASSUME NEW q \in Participants PROVE AtMost(unheard[q][p] + 1, Tolerance) \in 0 .. Tolerance
      BY DEF TypeOK, AtMost
    <3>2. unheard' \in [Participants -> [Participants -> 0 .. Tolerance]]
      BY <2>2, <3>1 DEF TypeOK, Announce
    <3>3. due' \in [Participants -> 0 .. MaxInterval]
      BY <2>2 DEF TypeOK, Announce, MaxInterval
    <3>4. net' \subseteq Participants \X Participants
      BY <2>2 DEF TypeOK, Announce, Others
    <3> QED
      BY <2>2, <3>2, <3>3, <3>4 DEF TypeOK, Announce
  <2>3. CASE Tick
    <3>1. ASSUME NEW p \in Participants, NEW q \in Participants
          PROVE AtMost(age[p][q] + 1, Lease + 1) \in 0 .. Lease + 1
      BY DEF TypeOK, AtMost
    <3>2. age' \in [Participants -> [Participants -> 0 .. Lease + 1]]
      BY <2>3, <3>1 DEF TypeOK, Tick
    <3>3. due' \in [Participants -> 0 .. MaxInterval]
      BY <2>3 DEF TypeOK, Tick
    <3> QED
      BY <2>3, <3>2, <3>3 DEF TypeOK, Tick
  <2>4. ASSUME NEW p \in Participants, NEW q \in Participants, Store(p, q) PROVE TypeOK'
    BY <2>4 DEF TypeOK, Store
  <2>5. ASSUME NEW p \in Participants, Evict(p) PROVE TypeOK'
    <3>1. peers' \in [Participants -> SUBSET Participants]
      BY <2>5 DEF TypeOK, Evict
    <3>2. age' \in [Participants -> [Participants -> 0 .. Lease + 1]]
      BY <2>5 DEF TypeOK, Evict
    <3>3. unheard' \in [Participants -> [Participants -> 0 .. Tolerance]]
      BY <2>5 DEF TypeOK, Evict
    <3> QED
      BY <2>5, <3>1, <3>2, <3>3 DEF TypeOK, Evict
  <2>6. ASSUME NEW m \in net, Lose(m) PROVE TypeOK'
    BY <2>6 DEF TypeOK, Lose
  <2>7. CASE UNCHANGED vars
    BY <2>7 DEF TypeOK, vars
  <2> QED
    BY <2>1, <2>2, <2>3, <2>4, <2>5, <2>6, <2>7 DEF Next, Others
<1> QED
  BY <1>1, <1>2, PTL DEF Spec

-----------------------------------------------------------------------------

\* Only participants that have started are in tables or on the wire, and nobody
\* hears of itself.
Started ==
    /\ \A p, q \in Participants :
         q \in peers[p] => status[q] # "off" /\ status[p] # "off"
    /\ \A p, q \in Participants :
         <<q, p>> \in net => status[q] # "off" /\ p # q

\* The invariant Started of every reachable state.
LEMMA StartedInvariant == Spec => []Started
<1>1. Init => Started
  BY DEF Init, Started
<1>2. TypeOK /\ Started /\ [Next]_vars => Started'
  <2> SUFFICES ASSUME TypeOK, Started, [Next]_vars PROVE Started'
    OBVIOUS
  <2>1. ASSUME NEW p \in Participants, Start(p) \/ Close(p) PROVE Started'
    BY <2>1 DEF TypeOK, Started, Start, Close
  <2>2. ASSUME NEW p \in Participants, Announce(p) PROVE Started'
    BY <2>2 DEF TypeOK, Started, Announce, Others
  <2>3. ASSUME NEW p \in Participants, NEW q \in Participants, Store(p, q) PROVE Started'
    BY <2>3 DEF TypeOK, Started, Store
  <2>4. ASSUME NEW p \in Participants, Evict(p) PROVE Started'
    BY <2>4 DEF TypeOK, Started, Evict
  <2>5. ASSUME Tick \/ (\E m \in net : Lose(m)) \/ UNCHANGED vars PROVE Started'
    BY <2>5 DEF Started, Tick, Lose, vars
  <2> QED
    BY <2>1, <2>2, <2>3, <2>4, <2>5 DEF Next, Others
<1> QED
  BY <1>1, <1>2, TypeCorrect, PTL DEF Spec

\* How old an entry can be: each announcement of a running peer that is missed,
\* and the one that is due, accounts for one interval at most.
AgeInv ==
    \A p, q \in Participants :
      /\ status[p] = "up" /\ status[q] = "up"
      /\ q \in peers[p]
      /\ unheard[p][q] < Tolerance
      => age[p][q] + due[q] <= (unheard[p][q] + 1) * MaxInterval

\* The step of the inductive invariant AgeInv.
LEMMA AgeStep == TypeOK /\ Started /\ AgeInv /\ [Next]_vars => AgeInv'
<1> USE Bounds, TimesType
<1> SUFFICES ASSUME TypeOK, Started, AgeInv, [Next]_vars PROVE AgeInv'
  OBVIOUS
<1>1. ASSUME NEW p \in Participants, Start(p) \/ Close(p) PROVE AgeInv'
  BY <1>1 DEF TypeOK, Started, AgeInv, Start, Close
<1>2. ASSUME NEW s \in Participants, Announce(s) PROVE AgeInv'
  <2> SUFFICES ASSUME NEW p \in Participants, NEW q \in Participants,
                      status[p] = "up", status[q] = "up", q \in peers[p],
                      unheard'[p][q] < Tolerance
               PROVE age[p][q] + due'[q] <= (unheard'[p][q] + 1) * MaxInterval
    BY <1>2 DEF AgeInv, Announce
  <2>1. CASE q = s
    <3>1. unheard'[p][q] = AtMost(unheard[p][q] + 1, Tolerance)
      BY <1>2, <2>1 DEF Announce, TypeOK
    <3>2. unheard[p][q] \in Nat /\ unheard'[p][q] = unheard[p][q] + 1
      BY <3>1 DEF TypeOK, AtMost
    <3>3. age[p][q] + due[q] <= (unheard[p][q] + 1) * MaxInterval
      BY <3>2 DEF AgeInv
    <3>4. due[q] = 0 /\ due'[q] \in 0 .. MaxInterval
      BY <1>2, <2>1 DEF Announce, TypeOK, MaxInterval
    <3>5. (unheard[p][q] + 2) * MaxInterval = (unheard[p][q] + 1) * MaxInterval + MaxInterval
      BY <3>2
    <3> QED
      BY <3>2, <3>3, <3>4, <3>5 DEF TypeOK
  <2>2. CASE q # s
    BY <1>2, <2>2 DEF AgeInv, Announce, TypeOK
  <2> QED
    BY <2>1, <2>2
<1>3. CASE Tick
  <2> SUFFICES ASSUME NEW p \in Participants, NEW q \in Participants,
                      status[p] = "up", status[q] = "up", q \in peers[p],
                      unheard[p][q] < Tolerance
               PROVE age'[p][q] + due'[q] <= (unheard[p][q] + 1) * MaxInterval
    BY <1>3 DEF AgeInv, Tick
  <2>1. age[p][q] + due[q] <= (unheard[p][q] + 1) * MaxInterval
    BY DEF AgeInv
  <2>2. age'[p][q] \in Nat /\ age'[p][q] <= age[p][q] + 1
    BY <1>3 DEF Tick, TypeOK, AtMost
  <2>3. due'[q] = due[q] - 1
    BY <1>3 DEF Tick
  <2>4. (unheard[p][q] + 1) * MaxInterval \in Nat
    BY DEF TypeOK
  <2> QED
    BY <2>1, <2>2, <2>3, <2>4 DEF TypeOK
<1>4. ASSUME NEW p \in Participants, NEW q \in Participants, Store(p, q) PROVE AgeInv'
  BY <1>4 DEF TypeOK, AgeInv, Store
<1>5. ASSUME NEW p \in Participants, Evict(p) PROVE AgeInv'
  BY <1>5 DEF TypeOK, AgeInv, Evict
<1>6. ASSUME (\E m \in net : Lose(m)) \/ UNCHANGED vars PROVE AgeInv'
  BY <1>6 DEF AgeInv, Lose, vars
<1> QED
  BY <1>1, <1>2, <1>3, <1>4, <1>5, <1>6 DEF Next, Others

\* evict_expired drops a running peer only after Tolerance announcements of it in
\* a row were missed, whatever the period, the jitter and the lease.
THEOREM EvictionNotPremature == Spec => EvictionJustified
<1> USE Bounds, TimesType
<1>1. Init => AgeInv
  BY DEF Init, AgeInv
<1>2. TypeOK /\ AgeInv /\ [Next]_vars
        => [\A p, q \in Participants :
              (q \in peers[p] /\ q \notin peers'[p] /\ status[q] = "up")
                => unheard[p][q] >= Tolerance]_vars
  <2> SUFFICES ASSUME TypeOK, AgeInv, Next,
                      NEW p \in Participants, NEW q \in Participants,
                      q \in peers[p], q \notin peers'[p], status[q] = "up",
                      unheard[p][q] < Tolerance
               PROVE FALSE
    BY DEF TypeOK
  <2>1. Evict(p)
    <3>1. ASSUME NEW s \in Participants, Evict(s) PROVE s = p
      BY <3>1 DEF Evict, TypeOK
    <3>2. ASSUME NEW s \in Participants, NEW t \in Participants, Store(s, t) PROVE FALSE
      BY <3>2 DEF Store, TypeOK
    <3>3. ASSUME NEW s \in Participants PROVE ~(Start(s) \/ Close(s) \/ Announce(s))
      BY DEF Start, Close, Announce
    <3>4. ~Tick /\ ~(\E m \in net : Lose(m))
      BY DEF Tick, Lose
    <3> QED
      BY <3>1, <3>2, <3>3, <3>4 DEF Next, Others
  <2>2. age[p][q] > Lease /\ status[p] = "up"
    BY <2>1 DEF Evict, Expired, TypeOK
  <2>3. age[p][q] + due[q] <= (unheard[p][q] + 1) * MaxInterval
    BY <2>2 DEF AgeInv
  <2>4. (unheard[p][q] + 1) * MaxInterval <= Tolerance * MaxInterval
    <3>1. unheard[p][q] + 1 \in Nat /\ unheard[p][q] + 1 <= Tolerance
      BY DEF TypeOK
    <3> QED
      BY <3>1, Monotonic
  <2>5. /\ (unheard[p][q] + 1) * MaxInterval \in Nat
        /\ Tolerance * MaxInterval \in Nat
    BY DEF TypeOK
  <2> QED
    BY <2>2, <2>3, <2>4, <2>5, ToleranceFits DEF TypeOK
<1> QED
  BY <1>1, <1>2, AgeStep, TypeCorrect, StartedInvariant, PTL DEF Spec, EvictionJustified

-----------------------------------------------------------------------------

\* SPDP implements the peer table that SEDP is built on: every step of its loops
\* is a step of PeerTable or leaves the table alone.
THEOREM PeerTableImplemented == Spec => ImplementsPeerTable
<1>1. Init => Table!Init
  BY DEF Init, Table!Init
<1>2. TypeOK /\ Started /\ [Next]_vars => [Table!Next]_Table!vars
  <2> SUFFICES ASSUME TypeOK, Started, [Next]_vars PROVE [Table!Next]_Table!vars
    OBVIOUS
  <2>1. ASSUME NEW p \in Participants, Start(p) PROVE Table!Next
    BY <2>1 DEF Start, Table!Start, Table!Next
  <2>2. ASSUME NEW p \in Participants, Close(p) PROVE Table!Next
    BY <2>2 DEF Close, Table!Close, Table!Next
  <2>3. ASSUME NEW p \in Participants, NEW q \in Participants, Store(p, q) PROVE Table!Next
    BY <2>3 DEF Store, Started, Table!Store, Table!Next
  <2>4. ASSUME NEW p \in Participants, Evict(p) PROVE Table!Next
    <3>1. Table!Drop(p, Expired(p)) /\ Expired(p) \in SUBSET Participants
      BY <2>4 DEF Evict, Expired, Table!Drop, TypeOK
    <3> QED
      BY <3>1 DEF Table!Next
  <2>5. ASSUME \/ Tick
               \/ \E p \in Participants : Announce(p)
               \/ \E m \in net : Lose(m)
               \/ UNCHANGED vars
        PROVE UNCHANGED Table!vars
    BY <2>5 DEF Tick, Announce, Lose, vars, Table!vars
  <2> QED
    BY <2>1, <2>2, <2>3, <2>4, <2>5 DEF Next, Others
<1> QED
  BY <1>1, <1>2, TypeCorrect, StartedInvariant, PTL DEF Spec, ImplementsPeerTable, Table!Spec
=============================================================================
