------------------------------- MODULE Codecs ------------------------------
(***************************************************************************)
(* The pure algorithms at work on one input: what one side encodes and the *)
(* other decodes, whole or cut short at any octet, and inputs that grow,   *)
(* namely access and topic patterns, the calls of a ReplayGuard and the    *)
(* participants on a host.  Each is compared with what it should compute.  *)
(***************************************************************************)
EXTENDS Xcdr, Security, Capture, Fragment, SampleFile, Relay, Wildcard, Replay, Sockets

Acl == INSTANCE Acl

CONSTANTS
    Items,          \* per kind of encoding, the values that are encoded
    PatternChars,   \* characters of access patterns, each its octets
    NameChars,      \* characters of the names matched against them
    TopicChars,     \* characters of subscribed topics
    Patterns,       \* the patterns that grow
    MaxPattern,     \* bound: characters of a pattern
    MaxName,        \* bound: characters of a name
    MaxTopic,       \* bound: characters of a topic matched against a topic pattern
    SeqNums, Times, \* what a ReplayGuard is asked about
    MaxCalls,       \* bound: its calls
    Ids,            \* participants on the host
    Configs,        \* pairs of a domain and a configuration
    HostAddress     \* the address of the host, of either family

VARIABLES
    kind,   \* what the input is
    item,   \* the value that was encoded, <<>> for the inputs that grow
    wire    \* its octets; or the pattern, the calls or the host so far

vars == <<kind, item, wire>>

-----------------------------------------------------------------------------
(* Encoding and decoding by kind.                                          *)

EncodeSub(s) ==
    CASE s.id = SUBMSG_DATA -> encode_data_submessage(s.v.writer_entity_id, s.v.reader_entity_id,
                                                      s.v.seq_num, s.v.payload)
      [] s.id = SUBMSG_HEARTBEAT -> encode_heartbeat_submessage(s.v)
      [] s.id = SUBMSG_ACKNACK -> encode_acknack_submessage(s.v)
      [] s.id = SUBMSG_GAP -> encode_gap_submessage(s.v)
      [] s.id = SUBMSG_DATA_FRAG -> encode_data_frag(s.v)
      [] OTHER -> Submessage(s.id, FLAG_ENDIANNESS, s.v)

DecodeSub(raw) ==
    CASE raw.id = SUBMSG_DATA -> decode_data_submessage(raw.flags, raw.body)
      [] raw.id = SUBMSG_HEARTBEAT -> decode_heartbeat_submessage(raw.body)
      [] raw.id = SUBMSG_ACKNACK -> decode_acknack_submessage(raw.body)
      [] raw.id = SUBMSG_GAP -> Get(Gap, raw.body)
      [] raw.id = SUBMSG_DATA_FRAG -> decode_data_frag(raw.body)
      [] OTHER -> <<raw.body>>

\* What the receiver of a submessage should see of it.
SeenSub(s) ==
    [id |-> s.id,
     v |-> <<IF s.id # SUBMSG_GAP THEN s.v
             ELSE [reader_entity_id |-> s.v.reader_entity_id,
                   writer_entity_id |-> s.v.writer_entity_id, gap_start |-> s.v.gap_start,
                   bitmap_base |-> from_u64(to_u64(s.v.gap_end) + 1)]>>]

Encode(k, x) ==
    CASE k = "message" -> wrap_in_rtps_message(x.header, FlattenSeq([i \in DOMAIN x.subs |->
                                                                        EncodeSub(x.subs[i])]))
      [] k = "participant" -> build_participant_data(x.cfg)
      [] k = "endpoint"    -> build_endpoint_data(x.cfg, x.info)
      [] k = "values"      -> XcdrEncode(x)
      [] k = "capture"     -> encode_pcap_file(x)
      [] k = "sealed"      -> seal(x.plugin, x.key, x.nonce, x.payload)
      [] k = "file"        -> encode(x)
      [] k = "relay"       -> to_message(x).meta[1]

\* What the other side gets: a sequence of results for the kinds that carry
\* several, <<v>> or <<>> for the others.
Decode(k, x, b) ==
    CASE k = "message" ->
           IF decode_header(b) # <<x.header>> THEN <<>>
           ELSE LET raws == Submessages(From(b, Size(Header))) IN
                [i \in DOMAIN raws |-> [id |-> raws[i].id, v |-> DecodeSub(raws[i])]]
      [] k = "participant" -> StoredProxies(x.receiver, ParticipantMessage(x.cfg, 1, b), x.from)
      [] k = "endpoint" ->
           StoredEndpoints(x.receiver, EndpointMessage(x.cfg, x.info.is_writer, 1, b), x.from)
      [] k = "values"  -> XcdrDecode(b, [i \in DOMAIN x |-> x[i][1]])
      [] k = "capture" -> LET packets == decode_pcap_file(b) IN
                          IF packets = <<>> THEN <<>> ELSE packets[1]
      [] k = "sealed"  -> open(x.plugin, x.openkey, b)
      [] k = "file"    -> decode(b)
      [] k = "relay"   -> from_message([to_message(x) EXCEPT !.meta = <<b>>])

-----------------------------------------------------------------------------
(* What they should get.                                                   *)

\* A locator whose address the receiver filled in, if it can tell it.
LocatorSeen(cfg, port, from) ==
    IF cfg.ipv6 # (from.family = 6) THEN zero_locator(cfg.ipv6, port)
    ELSE IF cfg.ipv6 THEN udp_v6(from.addr, port) ELSE udp_v4(from.addr, port)

Trusted(x) == x.receiver.key = None \/ x.receiver.key = x.cfg.key

ProxySeen(x) ==
    [guid |-> [prefix |-> x.cfg.guid_prefix, entity |-> ENTITYID_PARTICIPANT],
     metatraffic_unicast |-> LocatorSeen(x.cfg, x.cfg.meta_unicast_port, x.from),
     default_unicast |-> LocatorSeen(x.cfg, x.cfg.data_unicast_port, x.from),
     builtin_endpoints |-> ALL_BUILTIN_ENDPOINTS,
     lease_duration |-> ADVERTISED_LEASE_SECS]

EndpointSeen(x) == x.info @@ [locator |-> LocatorSeen(x.cfg, x.cfg.data_unicast_port, x.from)]

Expected(k, x) ==
    CASE k = "message"     -> [i \in DOMAIN x.subs |-> SeenSub(x.subs[i])]
      [] k = "participant" -> IF Trusted(x) THEN <<ProxySeen(x)>> ELSE <<>>
      [] k = "endpoint"    -> <<EndpointSeen(x)>>
      [] k = "sealed"      -> IF x.plugin = "null" \/ x.key = x.openkey THEN <<x.payload>> ELSE <<>>
      [] k \in {"file", "relay"} -> <<x>>
      [] OTHER             -> x

Growing == {"topic", "guard", "host"}
Encoded == DOMAIN Items

-----------------------------------------------------------------------------

Init ==
    \/ \E k \in Encoded : \E x \in Items[k] : kind = k /\ item = x /\ wire = Encode(k, x)
    \/ kind \in Growing /\ item = <<>> /\ wire = <<>>
    \/ kind = "pattern" /\ item = <<>> /\ wire \in Patterns

\* The transfer stops early.
Cut ==
    /\ kind \in Encoded /\ wire # <<>>
    /\ wire' = Front(wire)
    /\ UNCHANGED <<kind, item>>

Grow(x) == wire' = Append(wire, x) /\ UNCHANGED <<kind, item>>

GrowPattern ==
    /\ kind = "pattern" /\ Len(wire) < MaxPattern
    /\ \E c \in PatternChars : Grow(c)

GrowTopic ==
    /\ kind = "topic" /\ Len(wire) < MaxPattern
    /\ \E c \in TopicChars \cup {"+", "#"} : Grow(c)

CallGuard ==
    /\ kind = "guard" /\ Len(wire) < MaxCalls
    /\ \/ \E n \in SeqNums, t \in Times : Grow([op |-> "check", seq |-> n, ts |-> t])
       \/ \E t \in Times : Grow([op |-> "purge", ts |-> t])

SetHost(host) == kind = "host" /\ wire' = host /\ UNCHANGED <<kind, item>>

\* A call of new_with_config begins, with the lowest free number, takes a step, and
\* the process ends.
HostStart ==
    \E id \in Ids, c \in Configs :
        /\ id \notin DOMAIN wire /\ \A j \in Ids : j < id => j \in DOMAIN wire
        /\ SetHost(wire @@ (id :> NewParticipant(c[1], c[2])))

HostStep ==
    \E id \in DOMAIN wire, interface \in BOOLEAN :
        /\ wire[id].at \notin {"running", "failed"}
        /\ SetHost([wire EXCEPT ![id] = new_with_config(wire, id, interface)])

HostExit ==
    \E id \in DOMAIN wire :
        /\ Running(wire[id])
        /\ SetHost([j \in DOMAIN wire \ {id} |-> wire[j]])

Next ==
    \/ Cut \/ GrowPattern \/ GrowTopic \/ CallGuard
    \/ kind = "host" /\ (HostStart \/ HostStep \/ HostExit)

Spec == Init /\ [][Next]_vars

-----------------------------------------------------------------------------
(* Properties                                                              *)

Whole == wire = Encode(kind, item)

\* What one side encodes the other decodes: messages with submessages in any
\* order, announcements with and without tags, typed values at any alignment,
\* captures, sealed payloads, rendezvous files, writers named in relay messages.  An announcement or payload is
\* accepted exactly if the keys agree.
RoundTrip == kind \in Encoded /\ Whole => Decode(kind, item, wire) = Expected(kind, item)

\* An announcement that was cut holds true values and defaults, and none at all
\* from a sender whose tag the receiver insists on but did not get.
CutProxy(x, p) ==
    /\ p.guid = ProxySeen(x).guid
    /\ p.metatraffic_unicast \in {ProxySeen(x).metatraffic_unicast, DefaultLocator}
    /\ p.default_unicast \in {ProxySeen(x).default_unicast, DefaultLocator}
    /\ p.builtin_endpoints \in {ALL_BUILTIN_ENDPOINTS, 0}
    /\ p.lease_duration \in {ADVERTISED_LEASE_SECS, DEFAULT_LEASE_DURATION}
    /\ x.receiver.key # None => p = ProxySeen(x) /\ Trusted(x)

CutEndpoint(x, e) ==
    /\ e.topic_name = x.info.topic_name /\ e.is_writer = x.info.is_writer
    /\ e.guid = x.info.guid
    /\ e.locator \in {EndpointSeen(x).locator, DefaultLocator}

PartOf(got) ==
    CASE kind \in {"message", "values", "capture"} -> IsStrictPrefix(got, Expected(kind, item))
      [] kind = "participant" -> \A i \in DOMAIN got : CutProxy(item, got[i])
      [] kind = "endpoint"    -> \A i \in DOMAIN got : CutEndpoint(item, got[i])
      [] kind = "sealed"      -> got = IF item.plugin = "null" THEN <<wire>> ELSE <<>>
      [] OTHER                -> got = <<>>

\* Wherever the octets end, a decoder reports a part of what was sent or an
\* error, never something else: the length checks of SubmessageIter,
\* PlCdrDecoder, XcdrDecoder, decode_pcap_file, open, decode and from_message.
CutSafe == kind \in Encoded /\ ~Whole => PartOf(Decode(kind, item, wire))

-----------------------------------------------------------------------------
(* Patterns: a reference for glob_match that parses the whole pattern into *)
(* terms first and then tries every length of every star.                  *)

Names == UNION {[1..n -> NameChars] : n \in 0..MaxName}

AnyTerm == [kind |-> "any", chars |-> {}]
StarTerm == [kind |-> "star", chars |-> {}]
Class(chars) == [kind |-> "class", chars |-> chars]
NotClass(chars) == [kind |-> "not", chars |-> NameChars \ chars]
CodeOf(c) == Acl!decode_rune(c)[1]

\* The terms of a pattern of characters, BadTerms if it is malformed.
BadTerms == <<[kind |-> "bad", chars |-> {}]>>
BadClass == [end |-> 0, chars |-> {}]

\* The end of the class that starts after position i, with its characters.
RECURSIVE ClassAt(_, _, _)
ClassAt(p, i, chars) ==
    LET escaped(j) == j <= Len(p) /\ p[j] = <<Acl!Escape>>
        at(j) == IF escaped(j) THEN j + 1 ELSE j
        plain(j) == /\ at(j) <= Len(p)
                    /\ escaped(j) \/ p[j] \notin {<<Acl!Dash>>, <<Acl!Close>>}
        next == at(i) + 1
        range(lo, hi) == {c \in NameChars : CodeOf(lo) <= CodeOf(c) /\ CodeOf(c) <= CodeOf(hi)}
    IN  IF i <= Len(p) /\ p[i] = <<Acl!Close>> /\ chars # <<>>
        THEN [end |-> i, chars |-> UNION ToSet(chars)]
        ELSE IF ~plain(i) THEN BadClass
        ELSE IF next <= Len(p) /\ p[next] = <<Acl!Dash>>
        THEN IF ~plain(next + 1) THEN BadClass
             ELSE ClassAt(p, at(next + 1) + 1, Append(chars, range(p[at(i)], p[at(next + 1)])))
        ELSE ClassAt(p, next, Append(chars, range(p[at(i)], p[at(i)])))

RECURSIVE Terms(_, _)
Terms(p, i) ==
    LET cons(t, j) == LET rest == Terms(p, j) IN
                      IF rest = BadTerms THEN BadTerms ELSE <<t>> \o rest
    IN
    IF i > Len(p) THEN <<>>
    ELSE CASE p[i] = <<Acl!Star>> -> cons(StarTerm, i + 1)
           [] p[i] = <<Acl!AnyChar>> -> cons(AnyTerm, i + 1)
           [] p[i] = <<Acl!Escape>> ->
                IF i = Len(p) THEN BadTerms ELSE cons(Class({p[i + 1]}), i + 2)
           [] p[i] = <<Acl!Open>> ->
                LET negated == i < Len(p) /\ p[i + 1] = <<Acl!Not>>
                    class == ClassAt(p, IF negated THEN i + 2 ELSE i + 1, <<>>)
                IN  IF class = BadClass THEN BadTerms
                    ELSE cons(IF negated THEN NotClass(class.chars) ELSE Class(class.chars),
                              class.end + 1)
           [] OTHER -> cons(Class({p[i]}), i + 1)

RECURSIVE MatchesTerms(_, _)
MatchesTerms(terms, name) ==
    IF terms = <<>> THEN name = <<>>
    ELSE CASE terms[1].kind = "star" ->
                \E n \in 0..Len(name) : /\ \A i \in 1..n : name[i] # <<Acl!Slash>>
                                        /\ MatchesTerms(Tail(terms), From(name, n))
           [] terms[1].kind = "any" ->
                /\ name # <<>> /\ name[1] # <<Acl!Slash>> /\ MatchesTerms(Tail(terms), Tail(name))
           [] OTHER -> /\ name # <<>> /\ name[1] \in terms[1].chars
                       /\ MatchesTerms(Tail(terms), Tail(name))

\* For topic patterns: all that is before the first # level by level.
TopicReference(p, t) ==
    LET hash == {i \in DOMAIN p : p[i] = <<"#">>}
        fixed == IF hash = {} THEN Len(p) ELSE (CHOOSE i \in hash : \A j \in hash : i <= j) - 1
    IN  /\ IF hash = {} THEN Len(t) = fixed ELSE Len(t) >= fixed
        /\ \A i \in 1..fixed : p[i] \in {<<"+">>, t[i]}

\* A policy of a rule for a pattern and one for any name of one level: what it
\* should decide if the first rule matches or not.
PolicyAgrees(pattern, name, first) ==
    LET rules == <<[pattern |-> pattern, allow |-> {"read"}],
                   [pattern |-> <<Acl!Star>>, allow |-> {"read", "write"}]>>
        level == <<Acl!Slash>> \notin ToSet(name)
    IN  /\ Acl!can_read(rules, FlattenSeq(name)) = (first \/ level)
        /\ Acl!can_write(rules, FlattenSeq(name)) = (~first /\ level)

\* Where glob_match may differ from the reference.  A star counts octets, so it may
\* end inside a character; what is left of that character is matched only by a ?
\* or a negated class, if the star is right before it.
CutsCharacter(terms, name) ==
    /\ \E c \in ToSet(name) : Len(c) > 1
    /\ \E i \in 1..(Len(terms) - 1) : terms[i] = StarTerm /\ terms[i + 1].kind \in {"any", "not"}

\* A star takes as little as lets its chunk match, for good.  If a class of the
\* chunk can be a slash or something else, and there is a star after the chunk, a
\* longer one might have let that class, and not a later star, take the slash.
TakesTooLittle(terms) ==
    \E i, j, k \in DOMAIN terms :
        /\ i < j /\ j < k /\ terms[i] = StarTerm /\ terms[k] = StarTerm
        /\ \A l \in (i + 1)..(k - 1) : terms[l] # StarTerm
        /\ <<Acl!Slash>> \in terms[j].chars /\ terms[j].chars # {<<Acl!Slash>>}

\* The result of glob_match against the reference, and of a policy that uses it.
GlobAgrees(terms, pattern, name, got) ==
    LET agrees(matches) ==
            /\ got.ok => matches \/ CutsCharacter(terms, name)
            /\ matches => got.ok \/ TakesTooLittle(terms)
            /\ got.ok = matches => PolicyAgrees(pattern, name, matches)
    IN  /\ got.bad <=> terms = BadTerms
        /\ agrees(terms # BadTerms /\ MatchesTerms(terms, name))

\* glob_match rejects exactly the malformed patterns, for every name, and matches
\* exactly what the reference matches, but for two kinds of patterns with a star:
\* one right before a ? or a negated class, on a name with a character of several
\* octets (CutsCharacter), and one before a class for slashes and others that
\* another star follows (TakesTooLittle).  A ? and a class stand for a character,
\* as decode_rune has it, not for an octet.  The first rule of a policy that
\* matches decides, and a malformed one denies nothing.  Topic wildcards match
\* level by level (AccessPolicy::allows, glob_match, topic_matches).
PatternsAgree ==
    /\ kind = "pattern" =>
         LET against(terms, pattern) ==
                 \A name \in Names :
                     GlobAgrees(terms, pattern, name, Acl!glob_match(pattern, FlattenSeq(name)))
         IN  against(Terms(wire, 1), FlattenSeq(wire))
    /\ kind = "topic" =>
         \A n \in 0..MaxTopic : \A topic \in [1..n -> TopicChars] :
            topic_matches(wire, topic) = TopicReference(Segments(wire), Segments(topic))

-----------------------------------------------------------------------------
(* The guard after the first n calls.                                      *)

Guard(n) ==
    LET g[i \in 0..n] ==
            IF i = 0 THEN [seen |-> NewGuard, ok |-> FALSE]
            ELSE IF wire[i].op = "check" THEN check(g[i - 1].seen, wire[i].seq, wire[i].ts)
            ELSE purge(g[i - 1].seen, wire[i].ts)
    IN  g[n]

\* As long as the time stamps of the calls do not go back, a number is accepted
\* exactly if it was not accepted within the window before, however many calls
\* came in between; and whatever the time stamps, a number that was never accepted
\* is accepted (ReplayGuard::check, purge_locked).
ReplayOnce ==
    kind = "guard" =>
        \A j \in DOMAIN wire :
            LET accepted == {i \in 1..(j - 1) : /\ wire[i].op = "check" /\ wire[i].seq = wire[j].seq
                                                /\ Guard(i).ok}
                inOrder == \A i \in 1..(j - 1) : wire[i].ts <= wire[i + 1].ts
            IN  wire[j].op = "check" =>
                  /\ inOrder => (Guard(j).ok <=> \A i \in accepted : wire[j].ts > wire[i].ts + window)
                  /\ accepted = {} => Guard(j).ok

-----------------------------------------------------------------------------

\* However many participants start on a host at once, whatever ports they find
\* taken: the ports a participant announces lead to it and to nobody else, and it
\* is heard by the others exactly if they share a domain and its group or are
\* among its static peers.  One that failed holds no socket (bind_unicast_retry,
\* new_with_config, send_announcement).
HostSound ==
    kind = "host" =>
        LET running == {id \in DOMAIN wire : Running(wire[id])}
            v6(id) == wire[id].config.ipv6
            cfg(id) == SpdpOf(wire[id], <<id>>)
            holds(id, port) == port \in ToSet(wire[id].meta \o wire[id].data)
            groups(id) == {g.group : g \in wire[id].groups}
            multicast(id, jd) == /\ wire[id].domain = wire[jd].domain /\ "spdp" \in groups(jd)
                                 /\ ~wire[id].config.no_multicast
            static(id, jd) == \E peer \in wire[id].config.peer_locators : peer.port = wire[jd].meta[1]
        IN  /\ \A id \in running, jd \in DOMAIN wire :
                  /\ wire[id].meta = <<cfg(id).meta_unicast_port>>
                  /\ wire[id].data = <<cfg(id).data_unicast_port>>
                  /\ id # jd /\ v6(id) = v6(jd) =>
                       ~holds(jd, cfg(id).meta_unicast_port) /\ ~holds(jd, cfg(id).data_unicast_port)
            /\ \A id, jd \in running : v6(id) = v6(jd) =>
                  (Destinations(cfg(id)) \cap Listens(wire[jd], HostAddress[v6(jd)]) # {}
                     <=> multicast(id, jd) \/ static(id, jd))
            /\ \A id \in DOMAIN wire : wire[id].at = "failed" =>
                  wire[id].meta \o wire[id].data = <<>> /\ groups(id) = {}
=============================================================================
