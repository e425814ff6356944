------------------------------ MODULE MCShmem ------------------------------
(* Small instances of Shmem for TLC.                                       *)
EXTENDS Shmem, TLC

CONSTANTS a, b, p1, p2, s1, c1, c2

\* Process a has a publisher and the subscriber, b the other publisher.
Homes == [e \in Endpoints |-> IF e = p2 THEN b ELSE a]

\* The calls of write_payload are interchangeable.
Symmetry == Permutations(Calls)
=============================================================================
