------------------------------ MODULE Announce -----------------------------
(***************************************************************************)
(* What the discovery messages carry: the participant data of SPDP         *)
(* (rtps/spdp.rs), the endpoint data of SEDP (rtps/sedp.rs), their         *)
(* datagrams and how the receiving side reads them, the tags of            *)
(* HmacDiscoveryPlugin (security/discovery.rs) and the well-known ports    *)
(* (rtps/transport.rs).  When the announcements are sent, lost and stored  *)
(* is the subject of Spdp and Discovery.                                   *)
(***************************************************************************)
EXTENDS Message

None == <<>>

-----------------------------------------------------------------------------
(* Ports and addresses.  A port that does not fit is None.                 *)

PORT_BASE == 7400
DOMAIN_GAIN == 250
PARTICIPANT_GAIN == 2

Port(n) == IF n < U16 THEN <<n>> ELSE None

meta_multicast_port(domain) == Port(PORT_BASE + DOMAIN_GAIN * domain)
user_multicast_port(domain) == Port(PORT_BASE + DOMAIN_GAIN * domain + 1)
meta_unicast_port(domain, idx) ==
    Port(PORT_BASE + DOMAIN_GAIN * domain + 10 + PARTICIPANT_GAIN * idx)
data_unicast_port(domain, idx) ==
    Port(PORT_BASE + DOMAIN_GAIN * domain + 11 + PARTICIPANT_GAIN * idx)

SPDP_MULTICAST_ADDR == <<Octet(239), Octet(255), 0, 1>>
SPDP_MULTICAST_ADDR_V6 == <<Octet(255), 3>> \o Zeros(13) \o <<1>>

spdp_multicast_dst(ipv6, port) ==
    IF ipv6 THEN [family |-> 6, addr |-> SPDP_MULTICAST_ADDR_V6, port |-> port]
    ELSE [family |-> 4, addr |-> SPDP_MULTICAST_ADDR, port |-> port]

\* The destinations of send_announcement.
Destinations(cfg) ==
    (IF cfg.no_multicast THEN {}
     ELSE {spdp_multicast_dst(cfg.ipv6, p) : p \in ToSet(meta_multicast_port(cfg.domain))})
    \cup cfg.peer_locators

\* The locator of an unknown own address, and the address the receiver puts in.
zero_locator(ipv6, port) == IF ipv6 THEN udp_v6(Zeros(16), port) ELSE udp_v4(Zeros(4), port)

fill_in_zero_address(loc, from) ==
    CASE loc.address # Zeros(16) -> loc
      [] loc.address = Zeros(16) /\ loc.kind = LOCATOR_KIND_UDPV4 /\ from.family = 4 ->
           [loc EXCEPT !.address = Zeros(12) \o from.addr]
      [] loc.address = Zeros(16) /\ loc.kind = LOCATOR_KIND_UDPV6 /\ from.family = 6 ->
           [loc EXCEPT !.address = from.addr]
      [] OTHER -> loc

-----------------------------------------------------------------------------
(* Discovery tags.  cfg.key is None without a plugin.                      *)

\* A stand-in for HMAC-SHA256: 32 octets that depend on the key and the message.
TagLen == 32
Mac(key, msg) == LE(FoldLeft(LAMBDA h, o : (31 * h + o + 1) % 65521, key, msg), TagLen)

DISCOVERY_CONTEXT == <<Octet(103), Octet(111), Octet(45)>>

sign_discovery(key, prefix) == Mac(key, DISCOVERY_CONTEXT \o prefix)
verify_discovery(key, prefix, tag) == tag # <<>> /\ tag = sign_discovery(key, prefix)

-----------------------------------------------------------------------------
(* SPDP                                                                    *)

ADVERTISED_LEASE_SECS == 10
DEFAULT_LEASE_DURATION == 10

\* SpdpConfig::new with the builder methods.
SpdpConfig(domain, prefix, meta, data) ==
    [domain |-> domain, guid_prefix |-> prefix, vendor_id |-> VENDOR_ID_RUST_DDS,
     meta_unicast_port |-> meta, data_unicast_port |-> data, peer_locators |-> {},
     no_multicast |-> FALSE, ipv6 |-> FALSE, key |-> None]

build_participant_data(cfg) ==
    ParameterList(
      <<add_param(PID_PROTOCOL_VERSION, PROTOCOL_VERSION_2_3 \o <<0, 0>>),
        add_param(PID_VENDOR_ID, cfg.vendor_id \o <<0, 0>>),
        add_guid(PID_PARTICIPANT_GUID, [prefix |-> cfg.guid_prefix, entity |-> ENTITYID_PARTICIPANT]),
        add_u32(PID_BUILTIN_ENDPOINT_SET, ALL_BUILTIN_ENDPOINTS),
        add_locator(PID_METATRAFFIC_UNICAST_LOCATOR, zero_locator(cfg.ipv6, cfg.meta_unicast_port)),
        add_locator(PID_DEFAULT_UNICAST_LOCATOR, zero_locator(cfg.ipv6, cfg.data_unicast_port)),
        add_param(PID_PARTICIPANT_LEASE_DURATION, LE(ADVERTISED_LEASE_SECS, 4) \o LE(0, 4))>>
      \o [i \in DOMAIN cfg.key |->
            add_param(PID_DISCOVERY_TOKEN, sign_discovery(cfg.key[i], cfg.guid_prefix))])

\* The first token of the list, or no octets.
extract_discovery_token(payload) ==
    LET first(tokens) == IF tokens = <<>> THEN <<>> ELSE tokens[1].value
    IN  Then(Parameters(payload),
             LAMBDA ps : first(SelectSeq(ps, LAMBDA p : p.pid = PID_DISCOVERY_TOKEN)))

\* A field of the ParticipantProxy: the last parameter with the identifier whose
\* value can be read wins, otherwise the default stays.
LastOf(params, pid, read(_), default) ==
    FoldLeft(LAMBDA v, p : IF p.pid = pid THEN OrElse(read(p.value), v) ELSE v, default, params)

ReadU32(b) == IF Len(b) >= 4 THEN <<UnLE(Slice(b, 0, 4))>> ELSE None
ReadLease(b) == IF Len(b) >= 4 /\ UnLE(Slice(b, 0, 4)) > 0 THEN ReadU32(b) ELSE None
ReadLocator(b, from) ==
    Then(Get(Locator, b), LAMBDA loc : <<fill_in_zero_address(loc, from)>>)

parse_participant_data(prefix, payload, from) ==
    LET locator(b) == ReadLocator(b, from)
        proxy(ps) ==
            <<[guid |-> LastOf(ps, PID_PARTICIPANT_GUID, decode_guid,
                               [prefix |-> prefix, entity |-> ENTITYID_PARTICIPANT]),
               metatraffic_unicast |->
                   LastOf(ps, PID_METATRAFFIC_UNICAST_LOCATOR, locator, DefaultLocator),
               default_unicast |->
                   LastOf(ps, PID_DEFAULT_UNICAST_LOCATOR, locator, DefaultLocator),
               builtin_endpoints |-> LastOf(ps, PID_BUILTIN_ENDPOINT_SET, ReadU32, 0),
               lease_duration |-> LastOf(ps, PID_PARTICIPANT_LEASE_DURATION, ReadLease, 0)]>>
    IN  Then(Parameters(payload), proxy)

HeaderOf(cfg) ==
    [protocol_version |-> PROTOCOL_VERSION_2_3, vendor_id |-> cfg.vendor_id,
     guid_prefix |-> cfg.guid_prefix]

\* The datagram of send_announcement around the participant data.
ParticipantMessage(cfg, seq, data) ==
    wrap_in_rtps_message(HeaderOf(cfg),
        encode_data_submessage(ENTITYID_SPDP_WRITER, ENTITYID_SPDP_READER,
                               [high |-> 0, low |-> seq], data))

\* The payloads of the DATA submessages in a datagram from another participant,
\* each with the entity that wrote it: the common part of the handle_packet of
\* SpdpService and of SedpService.
Announced(cfg, data) ==
    LET payload(h, ds) ==
            IF ds.payload = <<>> THEN <<>>
            ELSE <<[prefix |-> h.guid_prefix, writer |-> ds.writer_entity_id,
                    payload |-> ds.payload]>>
        announced(h, s) ==
            IF s.id # SUBMSG_DATA THEN <<>>
            ELSE Then(decode_data_submessage(s.flags, s.body), LAMBDA ds : payload(h, ds))
        message(h) ==
            IF h.guid_prefix = cfg.guid_prefix THEN <<>>
            ELSE FlatMap(Submessages(From(data, Size(Header))), LAMBDA s : announced(h, s))
    IN  Then(decode_header(data), message)

\* The proxies that SpdpService::handle_packet passes to store_peer, which gives
\* a lease to those without one.
StoredProxies(cfg, data, from) ==
    LET verified(a) ==
            /\ a.writer = ENTITYID_SPDP_WRITER
            /\ cfg.key # None => verify_discovery(cfg.key[1], a.prefix,
                                                  extract_discovery_token(a.payload))
        stored(p) == <<[p EXCEPT !.lease_duration = IF @ = 0 THEN DEFAULT_LEASE_DURATION ELSE @]>>
        proxy(a) == IF verified(a) THEN Then(parse_participant_data(a.prefix, a.payload, from), stored)
                    ELSE <<>>
    IN  FlatMap(Announced(cfg, data), proxy)

-----------------------------------------------------------------------------
(* SEDP.  An EndpointInfo has a guid, a topic name (octets) and a          *)
(* direction.                                                              *)

ENDPOINT_TYPE_NAME == <<Octet(67), Octet(68), Octet(82)>>

build_endpoint_data(cfg, info) ==
    ParameterList(<<add_guid(PID_ENDPOINT_GUID, info.guid),
                    add_string(PID_TOPIC_NAME, info.topic_name),
                    add_string(PID_TYPE_NAME, ENDPOINT_TYPE_NAME),
                    add_locator(PID_DEFAULT_UNICAST_LOCATOR,
                                zero_locator(cfg.ipv6, cfg.data_unicast_port))>>)

\* The datagram of announce_writer or announce_reader around the endpoint data.
EndpointMessage(cfg, is_writer, seq, data) ==
    wrap_in_rtps_message(HeaderOf(cfg),
        encode_data_submessage(
            IF is_writer THEN ENTITYID_SEDP_PUB_WRITER ELSE ENTITYID_SEDP_SUB_WRITER,
            IF is_writer THEN ENTITYID_SEDP_PUB_READER ELSE ENTITYID_SEDP_SUB_READER,
            [high |-> 0, low |-> seq], data))

\* handle_endpoint_announce: the endpoint and its locator; an announcement
\* without a topic name is ignored.
Endpoint(prefix, payload, is_writer, from) ==
    LET locator(b) == ReadLocator(b, from)
        endpoint(ps, topic) ==
            IF topic = <<>> THEN None
            ELSE <<[guid |-> LastOf(ps, PID_ENDPOINT_GUID, decode_guid,
                                    [prefix |-> prefix, entity |-> ENTITYID_UNKNOWN]),
                    topic_name |-> topic, is_writer |-> is_writer,
                    locator |-> LastOf(ps, PID_DEFAULT_UNICAST_LOCATOR, locator, DefaultLocator)]>>
    IN  Then(Parameters(payload),
             LAMBDA ps : endpoint(ps, LastOf(ps, PID_TOPIC_NAME, decode_string, <<>>)))

\* The endpoints that SedpService::handle_packet passes on.
StoredEndpoints(cfg, data, from) ==
    LET endpoint(a) ==
            IF a.writer \notin {ENTITYID_SEDP_PUB_WRITER, ENTITYID_SEDP_SUB_WRITER} THEN <<>>
            ELSE Endpoint(a.prefix, a.payload, a.writer = ENTITYID_SEDP_PUB_WRITER, from)
    IN  FlatMap(Announced(cfg, data), endpoint)
=============================================================================
