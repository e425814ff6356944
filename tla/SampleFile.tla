----------------------------- MODULE SampleFile ----------------------------
(***************************************************************************)
(* The content of a rendezvous file of the shared-memory transport         *)
(* (shmem/ipc.rs): a fixed header and the payload.  When the file is       *)
(* written, renamed and polled is the subject of Shmem.                    *)
(***************************************************************************)
EXTENDS Message

CONSTANT MaxPayloadBytes    \* MAX_PAYLOAD_BYTES, 16 MiB

FileHeader ==
    <<U("origin_id", 8), U("seq", 8), I("timestamp_unix_nanos", 8), Raw("writer_guid", 16),
      U("payload_len", 4)>>

encode(sample) ==
    Put(FileHeader, sample @@ [payload_len |-> Len(sample.payload)]) \o sample.payload

SampleOf(h, payload) ==
    [origin_id |-> h.origin_id, seq |-> h.seq, writer_guid |-> h.writer_guid,
     timestamp_unix_nanos |-> h.timestamp_unix_nanos, payload |-> payload]

\* Mutant: the payload is what is left of the file, up to its length.
DecodeRest(b) ==
    LET sample(h) == IF h.payload_len > MaxPayloadBytes THEN <<>>
                     ELSE <<SampleOf(h, From(b, Size(FileHeader)))>>
    IN  Then(Get(FileHeader, b), sample)

\* Truncated and OversizedPayload are both <<>>.
decode(b) ==
    LET sample(h) ==
            IF h.payload_len > MaxPayloadBytes \/ Len(b) < Size(FileHeader) + h.payload_len THEN <<>>
            ELSE <<SampleOf(h, Slice(b, Size(FileHeader), h.payload_len))>>
    IN  Then(Get(FileHeader, b), sample)
=============================================================================
