----------------------------- MODULE MCSubQueue ----------------------------
(* Small instances of SubQueue for TLC: two pushers race one receiver, one *)
(* closer and the watcher, unless a .cfg says otherwise.                   *)
EXTENDS SubQueue
=============================================================================
