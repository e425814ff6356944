------------------------------ MODULE MCCodecs -----------------------------
EXTENDS Codecs

SN(n) == [high |-> 0, low |-> n]
P1 == [i \in 1..12 |-> i]
P2 == [i \in 1..12 |-> 20 + i]
W == entity_id_for_writer(1)
R == entity_id_for_reader(2)

Subs ==
    {[id |-> SUBMSG_DATA, v |-> [writer_entity_id |-> W, reader_entity_id |-> ENTITYID_UNKNOWN,
                                 seq_num |-> [high |-> 1, low |-> 300], payload |-> p]] :
        p \in {<<>>, <<5, 6, 7>>}}
    \cup {[id |-> SUBMSG_HEARTBEAT,
           v |-> [writer_entity_id |-> W, reader_entity_id |-> R, first_sn |-> SN(1),
                  last_sn |-> SN(200), count |-> -1]],
          [id |-> SUBMSG_ACKNACK,
           v |-> [writer_entity_id |-> W, reader_entity_id |-> R, base |-> SN(130),
                  bitmap |-> 2^27 + 1, count |-> 3]],
          [id |-> SUBMSG_GAP,
           v |-> [writer_entity_id |-> W, reader_entity_id |-> R, gap_start |-> SN(1),
                  gap_end |-> SN(127)]],
          [id |-> SUBMSG_DATA_FRAG,
           v |-> [writer_entity_id |-> W, reader_entity_id |-> R, writer_seq_num |-> SN(2),
                  fragment_starting_num |-> 2, fragments_in_submsg |-> 1, fragment_size |-> 4,
                  data_size |-> 7, payload |-> <<1, 2, 3>>]]}

Empty == {[id |-> SUBMSG_PAD, v |-> <<>>], [id |-> SUBMSG_INFO_TS, v |-> <<>>]}

Messages ==
    {[header |-> [protocol_version |-> PROTOCOL_VERSION_2_3, vendor_id |-> VENDOR_ID_RUST_DDS,
                  guid_prefix |-> P1], subs |-> subs] :
        subs \in {<<s, t>> : s, t \in Subs} \cup {<<s, e, t>> : s, t \in Subs, e \in Empty}}

Cfg(p, ipv6, key) == [SpdpConfig(0, p, meta_unicast_port(0, 0)[1], data_unicast_port(0, 0)[1]) EXCEPT !.ipv6 = ipv6, !.key = key]
Froms == {[family |-> 4, addr |-> <<10, 0, 0, 9>>, port |-> 7410],
          [family |-> 6, addr |-> [i \in 1..16 |-> i], port |-> 7410]}

Participants ==
    {[cfg |-> Cfg(P1, ipv6, key), receiver |-> Cfg(P2, FALSE, rkey), from |-> from] :
        ipv6 \in BOOLEAN, key \in {None, <<1>>}, rkey \in {None, <<1>>, <<2>>}, from \in Froms}

Endpoints ==
    {[cfg |-> Cfg(P1, ipv6, None), receiver |-> Cfg(P2, FALSE, None), from |-> from,
      info |-> [guid |-> [prefix |-> P1, entity |-> W], topic_name |-> topic,
                is_writer |-> is_writer]] :
        ipv6 \in BOOLEAN, from \in Froms, topic \in {<<7>>, <<7, 8, 9, 10>>}, is_writer \in BOOLEAN}

Scalars == {<<"bool", 1>>, <<"u8", 127>>, <<"char", 63>>, <<"i16", -2>>, <<"u32", 300>>,
            <<"i64", -300>>}
Seqs == {<<"string", <<>>>>, <<"string", <<9, 8>>>>, <<"bytes", <<0, 0, 1>>>>}
Values == {<<x, y, z>> : x \in {<<"bool", 1>>, <<"string", <<9, 8>>>>}, y \in Scalars \cup Seqs,
                         z \in Scalars \cup Seqs}

Packet(payload) ==
    [ts_sec |-> 200, ts_usec |-> 3, src_addr |-> <<10, 0, 0, 1>>, dst_addr |-> <<10, 0, 0, 2>>,
     src_port |-> 7400, dst_port |-> 300, payload |-> payload]
Captures == {<<Packet(<<1>>)>>} \cup {<<Packet(p), Packet(q)>> : p, q \in {<<>>, <<1, 2, 3>>}}

Sealed ==
    {[plugin |-> plugin, key |-> 1, openkey |-> k, nonce |-> [i \in 1..NONCE_LEN |-> 3],
      payload |-> p] : plugin \in {"null", "hmac", "aes"}, k \in {1, 2},
                       p \in {<<>>, <<0>>, <<1, 2, 3>>}}

Files ==
    {[origin_id |-> 9, seq |-> 300, timestamp_unix_nanos |-> t, writer_guid |-> P1 \o W,
      payload |-> p] : t \in {0, -5}, p \in {<<>>, <<1, 2, 3>>}}

RelaySamples ==
    {[topic |-> <<7>>, payload |-> <<1>>, timestamp |-> 5, sequence_number |-> 3, writer_guid |-> g] :
        g \in {P1 \o W, Zeros(GUID_LEN)}}

MCItems == [message |-> Messages, participant |-> Participants, endpoint |-> Endpoints,
            values |-> Values, capture |-> Captures, sealed |-> Sealed, file |-> Files,
            relay |-> RelaySamples]

MCHostAddress == [v6 \in BOOLEAN |-> IF v6 THEN [i \in 1..16 |-> i] ELSE <<10, 0, 0, 9>>]
MCConfigs ==
    {<<0, Config(FALSE, FALSE, {})>>, <<1, Config(FALSE, FALSE, {})>>, <<0, Config(TRUE, FALSE, {})>>,
     <<233, Config(TRUE, FALSE, {})>>,
     <<0, Config(FALSE, TRUE, {[family |-> 4, addr |-> MCHostAddress[FALSE], port |-> 7410]})>>}

\* a, e with an acute accent, and the characters with a meaning.
MCPatternChars == {<<97>>, <<195, 169>>, <<47>>, <<42>>, <<63>>, <<91>>, <<93>>, <<94>>, <<45>>, <<92>>}
\* The empty pattern, and one with a class between two stars.
MCPatterns == {<<>>, <<<<42>>, <<91>>, <<94>>, <<97>>, <<93>>, <<42>>>>,
               <<<<42>>, <<91>>, <<47>>, <<97>>, <<93>>, <<42>>, <<195, 169>>>>}
MCNameChars == {<<97>>, <<195, 169>>, <<47>>}
=============================================================================
