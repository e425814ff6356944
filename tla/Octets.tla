------------------------------- MODULE Octets ------------------------------
(***************************************************************************)
(* Octets, integers in a fixed number of octets, and fixed layouts: the    *)
(* terms in which every encoder and decoder of the repository is written.  *)
(*                                                                         *)
(* An octet has Base values, 256 in the code.  A smaller Base keeps the    *)
(* integers of a run small; constants are written as the code has them and *)
(* reduced with Octet.  A decoder returns <<v>> for Ok(v) and <<>> for an  *)
(* error: no caller tells the errors apart.                                *)
(***************************************************************************)
EXTENDS Integers, Sequences, SequencesExt

CONSTANT Base

ASSUME BaseAssumption == Base \in 64..256 /\ Base % 16 = 0

Octet(n) == n % Base
U16 == Base * Base
U32 == U16 * U16
Zeros(n) == [i \in 1..n |-> 0]

\* to_le_bytes and to_be_bytes of an integer of w octets; "as u16" and the like
\* drop what does not fit.  A negative number is in two's complement.
Quotients(n, w) ==
    LET q[i \in 1..w] == IF i = 1 THEN n ELSE q[i - 1] \div Base
    IN  q

LE(n, w) == LET q == Quotients(n, w) IN [i \in 1..w |-> q[i] % Base]

BE(n, w) == Reverse(LE(n, w))

\* from_le_bytes, from_be_bytes, and from_le_bytes of a signed integer.
UnLE(b) ==
    LET n[i \in 1..(Len(b) + 1)] == IF i > Len(b) THEN 0 ELSE b[i] + Base * n[i + 1]
    IN  n[1]

UnBE(b) == UnLE(Reverse(b))
UnLEi(b) ==
    IF Last(b) < Base \div 2 THEN UnLE(b)
    ELSE -1 - UnLE([i \in DOMAIN b |-> Base - 1 - b[i]])

\* buf[i..i + n]; and the octets after the first n.
Slice(b, i, n) == SubSeq(b, i + 1, i + n)
From(b, n) == SubSeq(b, n + 1, Len(b))

-----------------------------------------------------------------------------
(* A layout is a sequence of fields, each of a fixed width.                *)

U(name, w)   == [name |-> name, w |-> w, kind |-> "unsigned"]
I(name, w)   == [name |-> name, w |-> w, kind |-> "signed"]
N(name, w)   == [name |-> name, w |-> w, kind |-> "network"]   \* big-endian
Raw(name, w) == [name |-> name, w |-> w, kind |-> "raw"]
Sn(name)     == [name |-> name, w |-> 8, kind |-> "sn"]       \* SequenceNumber
Const(b)     == [name |-> "", w |-> Len(b), kind |-> "const", value |-> b]

Size(layout) == FoldLeft(LAMBDA n, f : n + f.w, 0, layout)

Put(layout, r) ==
    FlattenSeq([i \in DOMAIN layout |->
        LET f == layout[i] IN
        CASE f.kind \in {"unsigned", "signed"} -> LE(r[f.name], f.w)
          [] f.kind = "network" -> BE(r[f.name], f.w)
          [] f.kind = "raw"     -> r[f.name]
          [] f.kind = "sn"      -> LE(r[f.name].high, 4) \o LE(r[f.name].low, 4)
          [] f.kind = "const"   -> f.value])

\* The octets of a field, its value, and the values of all fields but the
\* constant ones, which the decoders skip.
At(layout, i, b) == Slice(b, Size(SubSeq(layout, 1, i - 1)), layout[i].w)

Value(f, o) ==
    CASE f.kind = "unsigned" -> UnLE(o)
      [] f.kind = "signed"   -> UnLEi(o)
      [] f.kind = "network"  -> UnBE(o)
      [] f.kind = "raw"      -> o
      [] f.kind = "sn"       -> [high |-> UnLEi(Slice(o, 0, 4)), low |-> UnLE(Slice(o, 4, 4))]

Fields(layout, b) ==
    LET named == {i \in DOMAIN layout : layout[i].kind # "const"}
        index(name) == CHOOSE i \in named : layout[i].name = name
        value(i) == Value(layout[i], At(layout, i, b))
    IN  [name \in {layout[i].name : i \in named} |-> value(index(name))]

-----------------------------------------------------------------------------
(* Results.  Then is the operator ? of the code, OrElse is unwrap_or, and  *)
(* FlatMap goes on with what a step of a loop does not skip.               *)

Then(result, next(_)) == IF result = <<>> THEN <<>> ELSE next(result[1])
OrElse(result, default) == IF result = <<>> THEN default ELSE result[1]
FlatMap(s, next(_)) == FlattenSeq([i \in DOMAIN s |-> next(s[i])])

\* Truncated input is an error, octets after the layout are ignored.
Get(layout, b) == IF Len(b) < Size(layout) THEN <<>> ELSE <<Fields(layout, b)>>
=============================================================================
