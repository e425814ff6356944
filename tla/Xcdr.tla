-------------------------------- MODULE Xcdr -------------------------------
(***************************************************************************)
(* The typed payload codec (rtps/xcdr.rs).  XcdrEncoder appends values to  *)
(* a buffer, each at a multiple of its size counted from the start of the  *)
(* buffer; XcdrDecoder moves a cursor over one.  A value is a pair of its  *)
(* type and its content: a number for the scalar types, the bits of it for *)
(* the floating-point ones, a sequence of octets for "string" and "bytes". *)
(***************************************************************************)
EXTENDS Message

Width == [bool |-> 1, u8 |-> 1, i8 |-> 1, char |-> 1, i16 |-> 2, u16 |-> 2,
          i32 |-> 4, u32 |-> 4, i64 |-> 8, u64 |-> 8, f32 |-> 4, f64 |-> 8]

Signed == {"i8", "i16", "i32", "i64"}

\* An ASCII character is in the lower half of the octets.
REPLACEMENT_CHARACTER == Base
IsAscii(o) == o < Base \div 2

\* align: the padding in front of a value of size n at position pos.
Pad(pos, n) == (n - (pos % n)) % n

-----------------------------------------------------------------------------
(* XcdrEncoder                                                             *)

NewEncoder == Encapsulation(CDR_LE)

Aligned(buf, n) == buf \o Zeros(Pad(Len(buf), n))

\* write_bool to write_f64; a char is its low octet.
write_scalar(buf, t, v) == Aligned(buf, Width[t]) \o LE(v, Width[t])

write_string(buf, s) == write_scalar(buf, "u32", Len(s) + 1) \o s \o <<0>>

write_bytes_seq(buf, b) == write_scalar(buf, "u32", Len(b)) \o b

Write(buf, x) ==
    CASE x[1] = "string" -> write_string(buf, x[2])
      [] x[1] = "bytes"  -> write_bytes_seq(buf, x[2])
      [] OTHER           -> write_scalar(buf, x[1], x[2])

-----------------------------------------------------------------------------
(* XcdrDecoder.  A read returns the value and the new position, and <<>>   *)
(* for its error.                                                          *)

\* XcdrDecoder::new: the first position.  The big-endian scheme is accepted,
\* and the values are still read as little-endian ones.
NewDecoder(buf) ==
    IF Len(buf) < 4 \/ UnLE(Slice(buf, 0, 2)) \notin {CDR_LE, CDR_BE} THEN <<>> ELSE <<4>>

need(buf, pos, n) == pos + n <= Len(buf)

\* read_bool to read_f64.
read_scalar(buf, pos, t) ==
    LET value(n) == CASE t = "bool" -> IF n # 0 THEN 1 ELSE 0
                      [] t = "char" -> IF IsAscii(n) THEN n ELSE REPLACEMENT_CHARACTER
                      [] OTHER -> n
        number(o) == IF t \in Signed THEN UnLEi(o) ELSE UnLE(o)
        read(at) == IF ~need(buf, at, Width[t]) THEN <<>>
                    ELSE <<value(number(Slice(buf, at, Width[t]))), at + Width[t]>>
    IN  read(pos + Pad(pos, Width[t]))

\* read_string and read_bytes_seq: a string of length 0 has no terminator.
read_seq(buf, pos, t) ==
    LET content(raw) == IF t = "string" THEN Unterminated(raw) ELSE raw
        read(n) == IF n = <<>> THEN <<>>
                   ELSE IF ~need(buf, n[2], n[1]) THEN <<>>
                   ELSE <<content(Slice(buf, n[2], n[1])), n[2] + n[1]>>
    IN  read(read_scalar(buf, pos, "u32"))

Read(buf, pos, t) ==
    IF t \in {"string", "bytes"} THEN read_seq(buf, pos, t) ELSE read_scalar(buf, pos, t)

\* What a program reads that expects values of the given types: as many as it
\* gets before the first error.
RECURSIVE ReadFrom(_, _, _)
ReadFrom(buf, pos, types) ==
    LET next(r) == IF r = <<>> THEN <<>>
                   ELSE <<<<Head(types), r[1]>>>> \o ReadFrom(buf, r[2], Tail(types))
    IN  IF types = <<>> THEN <<>> ELSE next(Read(buf, pos, Head(types)))

XcdrEncode(values) == FoldLeft(Write, NewEncoder, values)

XcdrDecode(buf, types) ==
    Then(NewDecoder(buf), LAMBDA pos : ReadFrom(buf, pos, types))
=============================================================================
