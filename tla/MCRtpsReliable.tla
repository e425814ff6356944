--------------------------- MODULE MCRtpsReliable --------------------------
(* Small instances of RtpsReliable for TLC.                                *)
EXTENDS RtpsReliable, TLC

\* Readers are interchangeable and so are the loops of a reader and the calls of
\* write; used by the runs that check no liveness.
Symmetry == Permutations(Readers) \cup Permutations(Loops) \cup Permutations(Calls)

\* Bound: once calls of write have overlapped, a third sample is followed only
\* where no reader is there yet; the races of such calls over the history, the
\* last sample and the disk do not need one.
Tractable == overlapped /\ seq > 2 => matched \cup accepts = {}
=============================================================================
