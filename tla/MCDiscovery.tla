---------------------------- MODULE MCDiscovery ----------------------------
(* A writer and a reader on one topic, in two participants that start, meet, *)
(* forget each other and stop in any order.                                  *)
EXTENDS Discovery, TLC

CONSTANTS a, b, w, r

MCOwner == (w :> a) @@ (r :> b)
MCTopic == (w :> "t") @@ (r :> "t")
=============================================================================
