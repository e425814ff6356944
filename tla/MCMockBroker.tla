---------------------------- MODULE MCMockBroker ---------------------------
(* Small instances of MockBroker for TLC.                                  *)
EXTENDS MockBroker, TLC

CONSTANTS p1, p2, s1, s2, c1, c2

\* Each call writes to a publisher of its own, or both to one.
OwnPublishers  == c1 :> p1 @@ c2 :> p2
OnePublisher   == [c \in Calls |-> p1]

\* The TransientLocal endpoints: all but s2, all but p2, or all.
LiveReader == Endpoints \ {s2}
LiveWriter == Endpoints \ {p2}
AllDurable == Endpoints

\* s2 asks for the default history depth 1, p2 for 0 and the others for 2.
Depths == [e \in Endpoints |-> IF e = s2 THEN 1 ELSE IF e = p2 THEN 0 ELSE 2]
=============================================================================
