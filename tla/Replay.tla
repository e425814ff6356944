------------------------------- MODULE Replay ------------------------------
(***************************************************************************)
(* ReplayGuard (security/replay.rs).  seen is a function from sequence     *)
(* numbers to the time stamps of the messages they were first seen in.     *)
(* Every operation holds the mutex throughout.                             *)
(***************************************************************************)
EXTENDS Integers, TLC

CONSTANTS
    Window,         \* the window passed to new, in ticks
    DefaultWindow   \* DEFAULT_REPLAY_WINDOW

ASSUME WindowAssumption == Window \in Nat /\ DefaultWindow \in Nat \ {0}

\* ReplayGuard::new
window == IF Window = 0 THEN DefaultWindow ELSE Window
NewGuard == <<>>

\* Mutant: entries at the edge of the window are dropped.
PurgeLockedEdge(seen, now) == [n \in {k \in DOMAIN seen : seen[k] > now - window} |-> seen[n]]

\* purge_locked; a cutoff before the start of the clock removes nothing.
purge_locked(seen, now) == [n \in {k \in DOMAIN seen : seen[k] >= now - window} |-> seen[n]]

check(seen, seq, ts) ==
    LET kept == purge_locked(seen, ts) IN
    IF seq \in DOMAIN kept THEN [seen |-> kept, ok |-> FALSE]
    ELSE [seen |-> kept @@ (seq :> ts), ok |-> TRUE]

purge(seen, now) == [seen |-> purge_locked(seen, now), ok |-> FALSE]
=============================================================================
