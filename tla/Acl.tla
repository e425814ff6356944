-------------------------------- MODULE Acl --------------------------------
(***************************************************************************)
(* Access control (security/acl.rs) and its patterns, a port of Go's       *)
(* path.Match.  Patterns and names are sequences of octets in UTF-8.       *)
(***************************************************************************)
EXTENDS Integers, Sequences, SequencesExt

Slash == 47
Star == 42
AnyChar == 63           \* ?
Open == 91          \* [
Close == 93         \* ]
Not == 94           \* ^
Dash == 45
Escape == 92        \* \

Drop(s, n) == SubSeq(s, n + 1, Len(s))
StartsWith(s, c) == s # <<>> /\ s[1] = c

\* The character at the start of a string and its length.  A string of the
\* program is valid UTF-8, a suffix of one need not be.
REPLACEMENT_CHARACTER == 65533
RuneLength(first) ==
    CASE first < 128 -> 1 [] first \in 192..223 -> 2
      [] first \in 224..239 -> 3 [] first \in 240..247 -> 4 [] OTHER -> 0

\* The code of a character: the bits of its first octet that are not the mark of
\* its length, and six of every other one.
RuneCode(s, length) ==
    FoldLeft(LAMBDA n, o : 64 * n + (o - 128), s[1] - <<0, 192, 224, 240>>[length],
             SubSeq(s, 2, length))

decode_rune(s) ==
    LET least == <<0, 128, 2048, 65536>>
        invalid == <<REPLACEMENT_CHARACTER, 1>>
        coded(length, code) ==
            IF code < least[length] \/ code \in 55296..57343 \/ code > 1114111 THEN invalid
            ELSE <<code, length>>
        rune(length) ==
            IF length = 0 \/ length > Len(s) \/ \E i \in 2..length : s[i] \notin 128..191
            THEN invalid ELSE coded(length, RuneCode(s, length))
    IN  IF s = <<>> THEN <<REPLACEMENT_CHARACTER, 0>> ELSE rune(RuneLength(s[1]))

-----------------------------------------------------------------------------
(* The results of the matcher: a malformed pattern, no match, or a match   *)
(* that leaves the rest of the name.                                       *)

BadPattern == [bad |-> TRUE, ok |-> FALSE, rest |-> <<>>]
NoMatch == [bad |-> FALSE, ok |-> FALSE, rest |-> <<>>]
Matched(rest) == [bad |-> FALSE, ok |-> TRUE, rest |-> rest]

\* One character of a class, <<>> if there is none: it must not be the last.
get_esc(chunk) ==
    LET c == IF StartsWith(chunk, Escape) THEN Tail(chunk) ELSE chunk
        char(r) == IF r = <<REPLACEMENT_CHARACTER, 1>> \/ Len(c) = r[2] THEN <<>>
                   ELSE <<r[1], Drop(c, r[2])>>
    IN  IF chunk = <<>> \/ chunk[1] \in {Dash, Close} \/ c = <<>> THEN <<>>
        ELSE char(decode_rune(c))

\* The ranges of a class up to its closing bracket.
RECURSIVE Ranges(_, _, _, _)
Ranges(chunk, r, nrange, matched) ==
    LET more(rest, hit) == Ranges(rest, r, nrange + 1, matched \/ hit)
        to(lo, hi) == IF hi = <<>> THEN BadPattern ELSE more(hi[2], lo[1] <= r /\ r <= hi[1])
        from(lo) == IF lo = <<>> THEN BadPattern
                    ELSE IF StartsWith(lo[2], Dash) THEN to(lo, get_esc(Tail(lo[2])))
                    ELSE more(lo[2], lo[1] = r)
    IN  IF StartsWith(chunk, Close) /\ nrange > 0
        THEN [Matched(Tail(chunk)) EXCEPT !.ok = matched]
        ELSE from(get_esc(chunk))

\* match_chunk: a chunk has no star.  After a mismatch it goes on to check that
\* the chunk is well formed.
RECURSIVE MatchFrom(_, _, _)
MatchFrom(chunk, s, mismatch) ==
    LET failed == mismatch \/ s = <<>>
        rest(n) == IF failed THEN s ELSE Drop(s, n)
        negated == StartsWith(Tail(chunk), Not)
        class(r, ranges) ==
            IF ranges.bad THEN BadPattern
            ELSE MatchFrom(ranges.rest, rest(r[2]), failed \/ ranges.ok = negated)
        open(r) == class(r, Ranges(Drop(chunk, IF negated THEN 2 ELSE 1), r[1], 0, FALSE))
    IN
    IF chunk = <<>> THEN IF mismatch THEN NoMatch ELSE Matched(s)
    ELSE CASE chunk[1] = Open -> open(IF failed THEN <<0, 0>> ELSE decode_rune(s))
           [] chunk[1] = AnyChar ->
                MatchFrom(Tail(chunk), rest(decode_rune(s)[2]), failed \/ s[1] = Slash)
           [] chunk[1] = Escape ->
                IF Len(chunk) = 1 THEN BadPattern
                ELSE MatchFrom(Drop(chunk, 2), rest(1), failed \/ chunk[2] # s[1])
           [] OTHER -> MatchFrom(Tail(chunk), rest(1), failed \/ chunk[1] # s[1])

match_chunk(chunk, s) == MatchFrom(chunk, s, FALSE)

\* scan_chunk: the length of the chunk, up to a star outside brackets.
RECURSIVE ChunkLength(_, _)
ChunkLength(p, inrange) ==
    CASE p = <<>> -> 0
      [] p # <<>> /\ p[1] = Star /\ ~inrange -> 0
      [] p # <<>> /\ p[1] = Escape /\ Len(p) > 1 -> 2 + ChunkLength(Drop(p, 2), inrange)
      [] OTHER -> 1 + ChunkLength(Tail(p), IF p[1] = Open THEN TRUE
                                           ELSE IF p[1] = Close THEN FALSE ELSE inrange)

RECURSIVE SkipStars(_)
SkipStars(p) == IF StartsWith(p, Star) THEN SkipStars(Tail(p)) ELSE p

scan_chunk(pattern) ==
    LET cut(p, n) ==
            [star |-> StartsWith(pattern, Star), chunk |-> SubSeq(p, 1, n), rest |-> Drop(p, n)]
        chunk(p) == cut(p, ChunkLength(p, FALSE))
    IN  chunk(SkipStars(pattern))

\* After a mismatch, is the rest of the pattern well formed?
RECURSIVE CheckRest(_)
CheckRest(pattern) ==
    LET check(c) == IF match_chunk(c.chunk, <<>>).bad THEN BadPattern ELSE CheckRest(c.rest)
    IN  IF pattern = <<>> THEN NoMatch ELSE check(scan_chunk(pattern))

\* Mutant: a star stands for slashes too.
StarReachAll(name) == Len(name)

\* How many octets a star may stand for: up to the next slash.
StarReach(name) ==
    IF \E i \in DOMAIN name : name[i] = Slash
    THEN (CHOOSE i \in DOMAIN name : name[i] = Slash /\ \A j \in 1..(i - 1) : name[j] # Slash) - 1
    ELSE Len(name)

\* glob_match: the star of a chunk takes as little as lets the chunk match, and
\* is never reconsidered; the last chunk must reach the end of the name.
RECURSIVE glob_match(_, _)
glob_match(pattern, name) ==
    LET \* c is the next chunk, at what it does after i octets for its star, and fits
        \* the i that let it match.
        chunk(c, at, fits) ==
            IF at[0].bad THEN BadPattern
            ELSE IF fits = {} THEN CheckRest(c.rest)
            ELSE glob_match(c.rest, at[CHOOSE i \in fits : \A j \in fits : i <= j].rest)
        tried(c, at) ==
            chunk(c, at, {i \in DOMAIN at : at[i].ok /\ (at[i].rest = <<>> \/ c.rest # <<>>)})
        scanned(c, reach) ==
            IF c.star /\ c.chunk = <<>>
            THEN IF reach = Len(name) THEN Matched(<<>>) ELSE NoMatch
            ELSE tried(c, [i \in 0..(IF c.star THEN reach ELSE 0) |->
                              match_chunk(c.chunk, Drop(name, i))])
    IN  IF pattern = <<>> THEN IF name = <<>> THEN Matched(<<>>) ELSE NoMatch
        ELSE scanned(scan_chunk(pattern), StarReach(name))

-----------------------------------------------------------------------------
(* A policy is a sequence of rules; a permission is a set of "read" and    *)
(* "write".                                                                *)

contains(allow, perm) == allow \cap perm # {}

\* The first rule whose pattern matches decides, malformed ones are skipped.
allows(rules, topic, perm) ==
    LET first(hits) == /\ hits # {}
                       /\ contains(rules[CHOOSE i \in hits : \A j \in hits : i <= j].allow, perm)
    IN  first({i \in DOMAIN rules : glob_match(rules[i].pattern, topic).ok})

can_read(rules, topic) == allows(rules, topic, {"read"})
can_write(rules, topic) == allows(rules, topic, {"write"})
=============================================================================
