------------------------------ MODULE Capture ------------------------------
(***************************************************************************)
(* Capture files (rtps/pcap.rs): UDP datagrams in IPv4 packets in the      *)
(* records of a pcap file with raw link type.                              *)
(***************************************************************************)
EXTENDS Message

PCAP_MAGIC == <<Octet(212), Octet(195), Octet(178), Octet(161)>>
LINKTYPE_RAW == 101
IPPROTO_UDP == 17

GlobalHeader ==
    <<Const(PCAP_MAGIC), Const(LE(2, 2)), Const(LE(4, 2)), Const(LE(0, 4)), Const(LE(0, 4)),
      Const(LE(U16 - 1, 4)), U("network", 4)>>

RecordHeader == <<U("ts_sec", 4), U("ts_usec", 4), U("incl_len", 4), U("orig_len", 4)>>

\* Version 4 and a header of 5 words, in one octet.
VERSION_IHL == 4 * 16 + 5

Ipv4Header ==
    <<U("version_ihl", 1), Const(<<0>>), N("total_len", 2), Const(Zeros(4)), Const(<<64>>),
      U("protocol", 1), Const(Zeros(2)), Raw("src_addr", 4), Raw("dst_addr", 4)>>

UdpHeader == <<N("src_port", 2), N("dst_port", 2), N("udp_len", 2), Const(Zeros(2))>>

EncodePacket(pkt) ==
    LET record(ip) == Put(RecordHeader, pkt @@ [incl_len |-> Len(ip), orig_len |-> Len(ip)]) \o ip
        packet(udp) == Put(Ipv4Header, pkt @@ [version_ihl |-> VERSION_IHL, protocol |-> IPPROTO_UDP,
                                               total_len |-> Size(Ipv4Header) + Len(udp)]) \o udp
        datagram == Put(UdpHeader, pkt @@ [udp_len |-> Size(UdpHeader) + Len(pkt.payload)])
    IN  record(packet(datagram \o pkt.payload))

encode_pcap_file(packets) ==
    Put(GlobalHeader, [network |-> LINKTYPE_RAW])
      \o FlattenSeq([i \in DOMAIN packets |-> EncodePacket(packets[i])])

\* NotIpv4Udp is <<>>.  The length of the IPv4 header is read from the packet.
decode_ipv4_udp_record(data, record) ==
    LET packet(ip, ihl, udp) ==
            IF udp.udp_len < Size(UdpHeader) \/ ihl + udp.udp_len > Len(data) THEN <<>>
            ELSE <<[ts_sec |-> record.ts_sec, ts_usec |-> record.ts_usec,
                    src_addr |-> ip.src_addr, src_port |-> udp.src_port,
                    dst_addr |-> ip.dst_addr, dst_port |-> udp.dst_port,
                    payload |-> Slice(data, ihl + Size(UdpHeader), udp.udp_len - Size(UdpHeader))]>>
        datagram(ip, ihl) ==
            IF \/ ip.version_ihl \div 16 # 4 \/ ihl < Size(Ipv4Header) \/ Len(data) < ihl
               \/ ip.protocol # IPPROTO_UDP
            THEN <<>>
            ELSE Then(Get(UdpHeader, From(data, ihl)), LAMBDA udp : packet(ip, ihl, udp))
    IN  IF Len(data) < Size(Ipv4Header) + Size(UdpHeader) THEN <<>>
        ELSE Then(Get(Ipv4Header, data), LAMBDA ip : datagram(ip, (ip.version_ihl % 16) * 4))

\* One bad record makes the whole file an error.
RECURSIVE Records(_)
Records(b) ==
    LET rest == From(b, Size(RecordHeader))
        more(h, pkt) == Then(Records(From(rest, h.incl_len)), LAMBDA pkts : <<<<pkt>> \o pkts>>)
        record(h) ==
            IF h.incl_len > Len(rest) THEN <<>>
            ELSE Then(decode_ipv4_udp_record(Slice(rest, 0, h.incl_len), h),
                      LAMBDA pkt : more(h, pkt))
    IN  IF b = <<>> THEN <<<<>>>> ELSE Then(Get(RecordHeader, b), record)

decode_pcap_file(b) ==
    IF \/ Len(b) < Size(GlobalHeader) \/ Slice(b, 0, 4) # PCAP_MAGIC
       \/ Fields(GlobalHeader, b).network # LINKTYPE_RAW
    THEN <<>> ELSE Records(From(b, Size(GlobalHeader)))
=============================================================================
