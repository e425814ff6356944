------------------------------ MODULE Fragment -----------------------------
(***************************************************************************)
(* Fragmentation (rtps/fragment.rs): DATA_FRAG submessages, the splitting  *)
(* of large payloads and FragmentAssembler, whose state is a function from *)
(* FragKey to FragBuffer.                                                  *)
(***************************************************************************)
EXTENDS Message, FiniteSets

CONSTANTS
    MaxFragmentPayload,     \* MAX_FRAGMENT_PAYLOAD, 1200 in the code
    MaxReassemblyBytes,     \* MAX_REASSEMBLY_BYTES, 16 MiB
    StaleFragAge            \* STALE_FRAG_AGE, in ticks

ASSUME FragmentAssumption ==
    MaxFragmentPayload \in 1..(U16 - 1) /\ MaxReassemblyBytes \in 0..(U32 - 1) /\ StaleFragAge \in Nat

DataFrag ==
    <<Const(LE(0, 2)), Const(LE(0, 2)), Raw("reader_entity_id", 4), Raw("writer_entity_id", 4),
      Sn("writer_seq_num"), U("fragment_starting_num", 4), U("fragments_in_submsg", 2),
      U("fragment_size", 2), U("data_size", 4)>>

encode_data_frag(f) ==
    Submessage(SUBMSG_DATA_FRAG, FLAG_ENDIANNESS, Put(DataFrag, f) \o f.payload)

decode_data_frag(body) ==
    Then(Get(DataFrag, body), LAMBDA f : <<f @@ [payload |-> From(body, Size(DataFrag))]>>)

CeilDiv(n, d) == (n + d - 1) \div d

\* split_into_fragments: one fragment for each submessage.
split_into_fragments(writer, sn, payload) ==
    [i \in 1..CeilDiv(Len(payload), MaxFragmentPayload) |->
        [writer_entity_id |-> writer, reader_entity_id |-> ENTITYID_UNKNOWN,
         writer_seq_num |-> sn, fragment_starting_num |-> i, fragments_in_submsg |-> 1,
         fragment_size |-> MaxFragmentPayload, data_size |-> Len(payload),
         payload |-> Slice(payload, (i - 1) * MaxFragmentPayload,
                           IF i * MaxFragmentPayload > Len(payload)
                           THEN Len(payload) - (i - 1) * MaxFragmentPayload
                           ELSE MaxFragmentPayload)]]

-----------------------------------------------------------------------------
(* FragmentAssembler                                                       *)

FragKey(f) == [writer |-> f.writer_entity_id, seq_lo |-> f.writer_seq_num.low]

\* Mutant: room for the whole fragments only.
NewBufferRounded(f, now) ==
    [data |-> Zeros((f.data_size \div f.fragment_size) * f.fragment_size), received_indices |-> {},
     total |-> CeilDiv(f.data_size, f.fragment_size), created |-> now]

\* A FragBuffer; received is the number of its received_indices.
NewBuffer(f, now) ==
    [data |-> Zeros(f.data_size), received_indices |-> {},
     total |-> CeilDiv(f.data_size, f.fragment_size), created |-> now]

Accepts(f) ==
    /\ f.fragment_size # 0 /\ f.data_size # 0 /\ f.fragments_in_submsg # 0
    /\ f.data_size <= MaxReassemblyBytes

\* Reassemblies older than STALE_FRAG_AGE are given up on every call.
Fresh(buffers, now) ==
    [k \in {j \in DOMAIN buffers : now - buffers[j].created <= StaleFragAge} |-> buffers[k]]

\* The octets of fragment i of the submessage, and where they go.
FragIndex(f, i) == (f.fragment_starting_num - 1 + i) % U32
Offset(f, i) == (FragIndex(f, i) * f.fragment_size) % U32
Chunk(f, i) == SubSeq(f.payload, i * f.fragment_size + 1,
                      IF (i + 1) * f.fragment_size < Len(f.payload)
                      THEN (i + 1) * f.fragment_size ELSE Len(f.payload))

\* The fragments of the submessage that are taken: those in range of its data
\* size, up to the first that is not, without the ones already there and the
\* ones that the payload is too short for.
Taken(buffer, f) ==
    {i \in 0..(f.fragments_in_submsg - 1) :
        /\ \A j \in 0..i : Offset(f, j) < f.data_size
        /\ FragIndex(f, i) \notin buffer.received_indices
        /\ i * f.fragment_size <= Len(f.payload)}

\* Copying panics if the buffer, made for another data size, ends before the
\* fragment, or if the fragment is longer than what is left of the data size.
Panics(buffer, f) ==
    \E i \in Taken(buffer, f) :
        Offset(f, i) + Len(Chunk(f, i)) > (IF Len(buffer.data) < f.data_size
                                           THEN Len(buffer.data) ELSE f.data_size)

\* The octet at position o of the data afterwards: of the last fragment taken that
\* has it, else the one that was there.
OctetAt(buffer, f, o) ==
    LET at == {i \in Taken(buffer, f) : Offset(f, i) < o /\ o <= Offset(f, i) + Len(Chunk(f, i))}
        i == CHOOSE j \in at : \A l \in at : l <= j
    IN  IF at = {} THEN buffer.data[o] ELSE Chunk(f, i)[o - Offset(f, i)]

Filled(buffer, f) ==
    [buffer EXCEPT
        !.data = [o \in DOMAIN @ |-> OctetAt(buffer, f, o)],
        !.received_indices = @ \cup {FragIndex(f, i) : i \in Taken(buffer, f)}]

\* Mutant: a repeated fragment counts again.
CompleteByCount(buffer, f) == Cardinality(buffer.received_indices) + 1 >= buffer.total

Complete(buffer, f) == Cardinality(Filled(buffer, f).received_indices) >= buffer.total

\* HashMap::insert: f with the value v for the key k.
Insert(f, k, v) == [x \in DOMAIN f \cup {k} |-> IF x = k THEN v ELSE f[x]]

\* receive: the assembler afterwards, the payload if it is complete, and whether
\* the call panics.
receive(buffers, f, now) ==
    LET fresh == Fresh(buffers, now)
        key == FragKey(f)
        buffer == IF key \in DOMAIN fresh THEN fresh[key] ELSE NewBuffer(f, now)
        others == [k \in DOMAIN fresh \ {key} |-> fresh[k]]
    IN  IF ~Accepts(f) THEN [buffers |-> buffers, payload |-> <<>>, panic |-> FALSE]
        ELSE IF Panics(buffer, f)
        THEN [buffers |-> Insert(others, key, buffer), payload |-> <<>>, panic |-> TRUE]
        ELSE IF Complete(buffer, f)
        THEN [buffers |-> others, payload |-> <<Filled(buffer, f).data>>, panic |-> FALSE]
        ELSE [buffers |-> Insert(others, key, Filled(buffer, f)), payload |-> <<>>, panic |-> FALSE]
=============================================================================
