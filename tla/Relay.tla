------------------------------- MODULE Relay -------------------------------
(***************************************************************************)
(* Samples as messages of the relay and back (types.rs, relay.rs).  A hex  *)
(* string is the sequence of its digits.                                   *)
(***************************************************************************)
EXTENDS Octets

GUID_LEN == 16

\* The hex crate: digits come in pairs.
HexEncode(b) == FlattenSeq([i \in DOMAIN b |-> <<b[i] \div 16, b[i] % 16>>])
HexDecode(s) ==
    IF Len(s) % 2 # 0 THEN <<>>
    ELSE <<[i \in 1..(Len(s) \div 2) |-> 16 * s[2 * i - 1] + s[2 * i]]>>

\* meta has the digits of dds.writer_guid, or None without that key.
RelayMessage(protocol, id, payload, timestamp, seq, meta) ==
    [protocol |-> protocol, id |-> id, payload |-> payload, timestamp |-> timestamp,
     seq |-> seq, meta |-> meta]

to_message(s) ==
    RelayMessage("Dds", s.topic, s.payload, s.timestamp, s.sequence_number,
                 <<HexEncode(s.writer_guid)>>)

\* The protocol of the message is not looked at.
from_message(m) ==
    LET guid == IF m.meta = <<>> THEN <<Zeros(GUID_LEN)>> ELSE HexDecode(m.meta[1]) IN
    IF guid = <<>> \/ Len(guid[1]) # GUID_LEN THEN <<>>
    ELSE <<[topic |-> m.id, payload |-> m.payload, timestamp |-> m.timestamp,
            sequence_number |-> m.seq, writer_guid |-> guid[1]]>>
=============================================================================
