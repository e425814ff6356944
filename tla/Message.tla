------------------------------- MODULE Message -----------------------------
(***************************************************************************)
(* The RTPS wire format: identifiers (rtps/guid.rs), locators              *)
(* (rtps/locator.rs), messages and submessages (rtps/message.rs) and       *)
(* parameter lists (rtps/cdr.rs).  Each fixed layout stands for the struct *)
(* of the code together with its encode and decode.                        *)
(***************************************************************************)
EXTENDS Octets

-----------------------------------------------------------------------------
(* Identifiers                                                             *)

ENTITYID_UNKNOWN == Zeros(4)
ENTITYID_PARTICIPANT     == <<0, 0, 1, Octet(193)>>
ENTITYID_SPDP_WRITER     == <<0, 1, 0, Octet(194)>>
ENTITYID_SPDP_READER     == <<0, 1, 0, Octet(199)>>
ENTITYID_SEDP_PUB_WRITER == <<0, 0, 3, Octet(194)>>
ENTITYID_SEDP_PUB_READER == <<0, 0, 3, Octet(199)>>
ENTITYID_SEDP_SUB_WRITER == <<0, 0, 4, Octet(194)>>
ENTITYID_SEDP_SUB_READER == <<0, 0, 4, Octet(199)>>

\* The six ENDPOINT_ bits, announcer and detector of SPDP and of the two SEDP
\* endpoints.
ALL_BUILTIN_ENDPOINTS == 2^6 - 1

entity_id_for_writer(n) == BE(n, 3) \o <<3>>
entity_id_for_reader(n) == BE(n, 3) \o <<4>>

GuidPrefix == Raw("prefix", 12)
EntityId == Raw("entity", 4)
Guid == <<GuidPrefix, EntityId>>

\* to_bytes: the shape of Sample::writer_guid.
to_bytes(guid) == Put(Guid, guid)

to_u64(sn) == (sn.high % U32) * U32 + sn.low
from_u64(v) == [high |-> v \div U32, low |-> v % U32]

-----------------------------------------------------------------------------
(* Locators.  A socket address has a family, an address and a port.        *)

LOCATOR_KIND_INVALID == -1
LOCATOR_KIND_UDPV4 == 1
LOCATOR_KIND_UDPV6 == 2

Locator == <<I("kind", 4), U("port", 4), Raw("address", 16)>>

DefaultLocator == [kind |-> LOCATOR_KIND_INVALID, port |-> 0, address |-> Zeros(16)]

udp_v4(addr, port) ==
    [kind |-> LOCATOR_KIND_UDPV4, port |-> port, address |-> Zeros(12) \o addr]
udp_v6(addr, port) == [kind |-> LOCATOR_KIND_UDPV6, port |-> port, address |-> addr]

udp_addr(loc) ==
    IF loc.port >= U16 THEN <<>>
    ELSE CASE loc.kind = LOCATOR_KIND_UDPV4 ->
                <<[family |-> 4, addr |-> From(loc.address, 12), port |-> loc.port]>>
           [] loc.kind = LOCATOR_KIND_UDPV6 ->
                <<[family |-> 6, addr |-> loc.address, port |-> loc.port]>>
           [] OTHER -> <<>>

-----------------------------------------------------------------------------
(* Message header                                                          *)

ProtocolVersion == Raw("protocol_version", 2)
PROTOCOL_VERSION_2_3 == <<2, 3>>

VendorId == Raw("vendor_id", 2)
VENDOR_ID_RUST_DDS == <<1, 40>>

RTPS_MAGIC == <<Octet(82), Octet(84), Octet(80), Octet(83)>>

Header == <<Const(RTPS_MAGIC), ProtocolVersion, VendorId, Raw("guid_prefix", 12)>>

decode_header(b) == IF Len(b) >= 4 /\ Slice(b, 0, 4) # RTPS_MAGIC THEN <<>> ELSE Get(Header, b)

wrap_in_rtps_message(header, submessages) == Put(Header, header) \o submessages

-----------------------------------------------------------------------------
(* Submessages                                                             *)

SUBMSG_PAD       == 1
SUBMSG_ACKNACK   == 6
SUBMSG_HEARTBEAT == 7
SUBMSG_GAP       == 8
SUBMSG_INFO_TS   == 9
SUBMSG_DATA      == 21
SUBMSG_DATA_FRAG == 22

FLAG_ENDIANNESS == 1
FLAG_DATA == 4
HasFlag(flags, flag) == (flags \div flag) % 2 = 1

SubmessageHeader ==
    <<U("submessage_id", 1), U("flags", 1), U("octets_to_next_header", 2)>>

Submessage(id, flags, body) ==
    Put(SubmessageHeader, [submessage_id |-> id, flags |-> flags,
                           octets_to_next_header |-> Len(body)]) \o body

DataSubmessage ==
    <<Const(LE(0, 2)), Const(LE(16, 2)), Raw("reader_entity_id", 4),
      Raw("writer_entity_id", 4), Sn("seq_num")>>

encode_data_submessage(writer, reader, sn, payload) ==
    Submessage(SUBMSG_DATA, FLAG_ENDIANNESS + FLAG_DATA,
               Put(DataSubmessage, [reader_entity_id |-> reader, seq_num |-> sn,
                                    writer_entity_id |-> writer]) \o payload)

\* The payload is <<>> (None) without the D flag or without octets.
decode_data_submessage(flags, body) ==
    LET payload == IF HasFlag(flags, FLAG_DATA) THEN From(body, Size(DataSubmessage)) ELSE <<>>
    IN  Then(Get(DataSubmessage, body), LAMBDA d : <<d @@ [payload |-> payload]>>)

Heartbeat ==
    <<Raw("reader_entity_id", 4), Raw("writer_entity_id", 4), Sn("first_sn"),
      Sn("last_sn"), I("count", 4)>>

encode_heartbeat_submessage(hb) ==
    Submessage(SUBMSG_HEARTBEAT, FLAG_ENDIANNESS, Put(Heartbeat, hb))
decode_heartbeat_submessage(body) == Get(Heartbeat, body)

AckNack ==
    <<Raw("reader_entity_id", 4), Raw("writer_entity_id", 4), Sn("base"),
      Const(LE(32, 4)), U("bitmap", 4), I("count", 4)>>

encode_acknack_submessage(an) ==
    Submessage(SUBMSG_ACKNACK, FLAG_ENDIANNESS, Put(AckNack, an))
decode_acknack_submessage(body) == Get(AckNack, body)

Gap ==
    <<Raw("reader_entity_id", 4), Raw("writer_entity_id", 4), Sn("gap_start"),
      Sn("bitmap_base"), Const(LE(0, 4))>>

\* bitmapBase is the number after the gap, without a carry into the high half.
encode_gap_submessage(g) ==
    Submessage(SUBMSG_GAP, FLAG_ENDIANNESS,
               Put(Gap, [reader_entity_id |-> g.reader_entity_id,
                         writer_entity_id |-> g.writer_entity_id,
                         gap_start |-> g.gap_start,
                         bitmap_base |-> [g.gap_end EXCEPT !.low = (@ + 1) % U32]]))

\* RawSubmessage and SubmessageIter: the submessages up to the first malformed
\* one.  A length of 0 extends a submessage to the end of the message, except
\* for PAD and INFO_TS.
Submessages(body) ==
    LET first(p) == p + Size(SubmessageHeader)          \* of the body at p
        length(h, p) == IF /\ h.octets_to_next_header = 0
                           /\ h.submessage_id \notin {SUBMSG_PAD, SUBMSG_INFO_TS}
                        THEN Len(body) - first(p) ELSE h.octets_to_next_header
        raw(h, p) == [id |-> h.submessage_id, flags |-> h.flags,
                      body |-> Slice(body, first(p), length(h, p))]
        from[p \in 0..Len(body)] ==
            LET next(h) == IF first(p) + length(h, p) > Len(body) THEN <<>>
                           ELSE <<raw(h, p)>> \o from[first(p) + length(h, p)]
            IN  Then(Get(SubmessageHeader, From(body, p)), next)
    IN  from[0]

-----------------------------------------------------------------------------
(* Parameter lists and encapsulated payloads                               *)

CDR_BE == 0
CDR_LE == 1
PL_CDR_LE == 3
Encapsulation(scheme) == LE(scheme, 2) \o <<0, 0>>

PID_PAD == 0
PID_SENTINEL == 1
PID_PARTICIPANT_LEASE_DURATION == 2
PID_TOPIC_NAME == 5
PID_TYPE_NAME == 7
PID_PROTOCOL_VERSION == 21
PID_VENDOR_ID == 22
PID_DEFAULT_UNICAST_LOCATOR == 47
PID_METATRAFFIC_UNICAST_LOCATOR == 50
PID_PARTICIPANT_GUID == 80
PID_BUILTIN_ENDPOINT_SET == 88
PID_ENDPOINT_GUID == 90
PID_DISCOVERY_TOKEN == U16 \div 2 + 1           \* 0x8001, vendor-specific

Padded(n) == ((n + 3) \div 4) * 4

add_param(pid, value) ==
    LE(pid, 2) \o LE(Padded(Len(value)), 2) \o value \o Zeros(Padded(Len(value)) - Len(value))

add_u32(pid, v) == add_param(pid, LE(v, 4))
add_locator(pid, loc) == add_param(pid, Put(Locator, loc))
add_guid(pid, guid) == add_param(pid, Put(Guid, guid))
add_string(pid, s) == add_param(pid, LE(Len(s) + 1, 4) \o s \o <<0>>)

\* PlCdrEncoder from new to finish.
ParameterList(params) ==
    Encapsulation(PL_CDR_LE) \o FlattenSeq(params) \o LE(PID_SENTINEL, 2) \o <<0, 0>>

\* PlCdrDecoder::next until it returns None: at the sentinel, at the end of the
\* octets or at a parameter that claims more of them than there are.
ParametersAt(b) ==
    LET from[p \in 0..Len(b)] ==
            IF Len(b) < p + 4 THEN <<>>
            ELSE LET pid == UnLE(Slice(b, p, 2))
                     length == UnLE(Slice(b, p + 2, 2))
                 IN  IF pid = PID_PAD THEN from[p + 4]
                     ELSE IF pid = PID_SENTINEL \/ p + 4 + length > Len(b) THEN <<>>
                     ELSE <<[pid |-> pid, value |-> Slice(b, p + 4, length)]>>
                          \o from[p + 4 + length]
    IN  from[0]

\* PlCdrDecoder::new: the parameters, or <<>> for an error.
Parameters(b) ==
    IF Len(b) < 4 \/ UnLE(Slice(b, 0, 2)) # PL_CDR_LE THEN <<>>
    ELSE <<ParametersAt(From(b, 4))>>

\* The octets of the string, without one terminating null.
Unterminated(s) == IF s # <<>> /\ Last(s) = 0 THEN Front(s) ELSE s

decode_string(b) ==
    IF Len(b) < 4 \/ Len(b) < 4 + UnLE(Slice(b, 0, 4)) THEN <<>>
    ELSE <<Unterminated(Slice(b, 4, UnLE(Slice(b, 0, 4))))>>

decode_guid(b) == Get(Guid, b)

wrap_payload(payload) == Encapsulation(CDR_LE) \o payload

unwrap_payload(b) ==
    IF Len(b) < 4 \/ UnLE(Slice(b, 0, 2)) \notin {CDR_LE, PL_CDR_LE} THEN <<>>
    ELSE <<From(b, 4)>>
=============================================================================
