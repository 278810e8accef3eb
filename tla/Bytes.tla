-------------------------------- MODULE Bytes --------------------------------
(***************************************************************************)
(* Slices of bytes as Rust sees them: offsets count from zero.             *)
(***************************************************************************)
EXTENDS Naturals, Sequences

Byte == 0 .. 255
Buffer == Seq(Byte)

\* buf[i] and a big-endian u16 at i; Rust panics where they leave buf.
At(buf, i) == buf[i + 1]
U16(buf, i) == 256 * buf[i + 1] + buf[i + 2]

\* &buf[from..to]
Slice(buf, from, to) == SubSeq(buf, from + 1, to)

\* buf.get(from..to) is not None.
Inside(buf, from, to) == from <= to /\ to <= Len(buf)

AtMostOf(a, b) == IF a <= b THEN a ELSE b

\* x.clamp(low, high)
Clamp(x, low, high) == IF x < low THEN low ELSE AtMostOf(x, high)

=============================================================================
