------------------------------ MODULE Wildcard -----------------------------
(***************************************************************************)
(* Topic wildcards (rtps/wildcard.rs).  A topic or a pattern is a sequence *)
(* of characters.                                                          *)
(***************************************************************************)
EXTENDS Integers, Sequences, FiniteSets

\* split('/'): what is between the slashes, at least one segment.
Segments(topic) ==
    LET cuts == {0, Len(topic) + 1} \cup {i \in DOMAIN topic : topic[i] = "/"}
        nth(k) == CHOOSE c \in cuts : Cardinality({d \in cuts : d < c}) = k - 1
    IN  [k \in 1..(Cardinality(cuts) - 1) |-> SubSeq(topic, nth(k) + 1, nth(k + 1) - 1)]

\* match_segments, with i and j the segments already matched.
match_segments(p, t) ==
    LET match[i \in 0..Len(p), j \in 0..Len(t)] ==
            IF i = Len(p) THEN j = Len(t)
            ELSE IF p[i + 1] = <<"#">> THEN TRUE
            ELSE IF j = Len(t) THEN FALSE
            ELSE p[i + 1] \in {<<"+">>, t[j + 1]} /\ match[i + 1, j + 1]
    IN  match[0, 0]

topic_matches(pattern, topic) == match_segments(Segments(pattern), Segments(topic))
=============================================================================
