------------------------------ MODULE Reliable -----------------------------
(***************************************************************************)
(* The two bookkeeping types of Reliable QoS (src/rtps/reliable.rs), as    *)
(* operators on their contents: SendHistory, the ring of recently sent     *)
(* messages a writer can retransmit, and RecvTracker, the watermark and    *)
(* out-of-order buffer a reader keeps for one writer.  Both types guard    *)
(* their state with one mutex per call, so a call is one operator.         *)
(*                                                                         *)
(* Sequence numbers start at 1.  A stored message is represented by its    *)
(* sequence number, and 0 is the empty slot.  The three numeric limits of  *)
(* the code are constants: 256, 8192 and 32 there.                         *)
(***************************************************************************)
EXTENDS Integers

CONSTANTS
    HistoryDepth,       \* MAX_HISTORY_DEPTH
    MaxReorderAhead,    \* MAX_REORDER_AHEAD
    AckWindow           \* bits in the ACKNACK bitmap

ASSUME HistoryDepthAssumption == HistoryDepth \in Nat \ {0}
ASSUME MaxReorderAheadAssumption == MaxReorderAhead \in Nat
ASSUME AckWindowAssumption == AckWindow \in Nat \ {0}

SeqNums == Nat \ {0}

-----------------------------------------------------------------------------
(* SendHistory                                                             *)

SendHistory == [sn : [0..(HistoryDepth - 1) -> Nat],
                highest : Nat, lowest : Nat, any : BOOLEAN]

NewSendHistory == [sn |-> [i \in 0..(HistoryDepth - 1) |-> 0],
                   highest |-> 0, lowest |-> 0, any |-> FALSE]

\* The end of the retained window after seq is stored, and its start.
StoredHighest(h, seq) == IF ~h.any \/ seq > h.highest THEN seq ELSE h.highest

\* Mutant: the window keeps one sample more than the ring has slots.
StoredLowestOffByOne(h, seq) ==
    LET highest == StoredHighest(h, seq)
        lowest  == IF h.any THEN h.lowest ELSE seq
        lb      == highest - HistoryDepth
    IN  IF highest >= HistoryDepth /\ lb > lowest THEN lb ELSE lowest

StoredLowest(h, seq) ==
    LET highest == StoredHighest(h, seq)
        lowest  == IF h.any THEN h.lowest ELSE seq
        lb      == highest - HistoryDepth + 1
    IN  IF highest >= HistoryDepth /\ lb > lowest THEN lb ELSE lowest

Store(h, seq) ==
    [sn      |-> [h.sn EXCEPT ![seq % HistoryDepth] = seq],
     highest |-> StoredHighest(h, seq),
     lowest  |-> StoredLowest(h, seq),
     any     |-> TRUE]

\* get(seq) is Some exactly for these sequence numbers.
Retrievable(h, seq) ==
    /\ h.any
    /\ h.lowest <= seq /\ seq <= h.highest
    /\ h.sn[seq % HistoryDepth] = seq

-----------------------------------------------------------------------------
(* RecvTracker                                                             *)

Tracker == [expected : Nat, ahead : SUBSET Nat, init : BOOLEAN]

NewTracker == [expected |-> 0, ahead |-> {}, init |-> FALSE]

InitExpected(t, first) ==
    IF t.init THEN t ELSE [t EXCEPT !.expected = first, !.init = TRUE]

\* n is where the watermark stops when it starts to advance at start: the first
\* number from there on that is not buffered.
StopsAt(ahead, start, n) ==
    /\ n >= start
    /\ n \notin ahead
    /\ \A k \in start..(n - 1) : k \in ahead

Advance(ahead, start) ==
    CHOOSE n \in start..(start + MaxReorderAhead + 1) : StopsAt(ahead, start, n)

\* Mutant: any newer sample moves the watermark past itself.
RecordSkipsGaps(t, seq) ==
    LET s == InitExpected(t, seq)
    IN  IF seq >= s.expected THEN [s EXCEPT !.expected = seq + 1, !.ahead = {}]
        ELSE s

\* Mutant: the out-of-order buffer is bounded one too far.
RecordBuffersTooFar(t, seq) ==
    LET s == InitExpected(t, seq)
        e == Advance(s.ahead, s.expected + 1)
    IN  IF seq = s.expected
        THEN [s EXCEPT !.expected = e,
                       !.ahead = @ \ ((s.expected + 1)..(e - 1))]
        ELSE IF seq > s.expected /\ seq - s.expected <= MaxReorderAhead + 1
             THEN [s EXCEPT !.ahead = @ \cup {seq}]
             ELSE s

\* The tracker after record(seq), the anchoring on first contact included.
Record(t, seq) ==
    LET s == InitExpected(t, seq)
        e == Advance(s.ahead, s.expected + 1)
    IN  IF seq = s.expected
        THEN [s EXCEPT !.expected = e,
                       !.ahead = @ \ ((s.expected + 1)..(e - 1))]
        ELSE IF seq > s.expected /\ seq - s.expected <= MaxReorderAhead
             THEN [s EXCEPT !.ahead = @ \cup {seq}]
             ELSE s

\* The bitmap of missing(last): the missing numbers of one window.
Missing(t, last) ==
    IF ~t.init THEN {}
    ELSE {n \in t.expected..(t.expected + AckWindow - 1) :
              n <= last /\ n \notin t.ahead}
=============================================================================
